------------------------------ MODULE ReplayProps ------------------------------
(***************************************************************************)
(* What makes a backtest evidence about the live run, and its curve        *)
(* evidence about its trades.                                              *)
(***************************************************************************)
EXTENDS Replay

\* Over the same bars, however many there are, the live driver has made the
\* trades of the backtest, at its prices, in its sizes and for its reasons; and
\* what the backtest has to close at the end of the data is what it still holds
\* (engine.run, on_bar_closed, settle).
Parity ==
    \E legs \in {run(Config, bars).legs} :
        LET Newest == legs[Len(legs)]
            still  == legs # <<>> /\ Newest.reason = "forced"
        IN  /\ ledger.legs = IF still THEN SubSeq(legs, 1, Len(legs) - 1) ELSE legs
            /\ still <=> state.pos # None
            /\ still => /\ Newest.entry = state.pos.entry /\ Newest.short = state.pos.short
                        /\ Newest.price = state.pos.price
                        /\ Newest.weight = state.pos.weight

\* The returns of a trade's bars multiply to the return of the trade: each bar
\* goes on from the price the one before it ended at, from the entry's price to
\* the exit's, and no other trade has written over any of them.  A trade that
\* is opened on the last bar, or ends inside it at a level, is not in the curve
\* (Ledger.book).
CurveHoldsTrades ==
    \E led \in {run(Config, bars)} :
        LET n == Len(bars)
            LastBar(leg) == IF leg.reason \in {"signal", "forced"} THEN leg.exit - 1 ELSE leg.exit
        IN  \A i \in DOMAIN led.legs :
            LET leg == led.legs[i]
                mark(k) == led.returns[k]
            IN  leg.entry < n /\ LastBar(leg) < n =>
                    /\ \A k \in leg.entry .. LastBar(leg) : mark(k) # None /\ mark(k).leg = i
                    /\ mark(leg.entry).den = leg.price
                    /\ mark(LastBar(leg)).num = leg.exit_price
                    /\ \A k \in leg.entry + 1 .. LastBar(leg) : mark(k).den = mark(k - 1).num

\* The intervals a chart draws are what the signals say: a position is opened
\* on the bar after a signal for it, if none is held, and held until the bar
\* after the first signal against it (position_intervals).
IntervalsFollowSignals ==
    \E iv \in {position_intervals(Config, bars)} :
        LET n == Len(bars)
            Against(i, k) == Opposes(iv[i], bars[k - 1].signal)
        IN  /\ \A i \in DOMAIN iv :
                /\ iv[i].short = (bars[iv[i].entry - 1].signal = "SELL")
                /\ iv[i].exit <= n => Against(i, iv[i].exit)
                /\ \A k \in iv[i].entry + 1 .. iv[i].exit - 1 : k <= n => ~Against(i, k)
                /\ i > 1 => iv[i - 1].exit < iv[i].entry
            /\ \A k \in 2 .. n : Wants(Config, bars[k - 1].signal) =>
                   \E i \in DOMAIN iv : iv[i].entry <= k /\ k <= iv[i].exit

=============================================================================
