-------------------------------- MODULE Replay --------------------------------
(***************************************************************************)
(* One engine, two drivers: the backtest runs it over a whole dataset      *)
(* (engine.run, risk_sim.py), the live driver bar by bar against a         *)
(* simulated broker (live.py, strategy/broker.py).  The backtest is an     *)
(* operator on the bars, the live driver a state machine that sees one     *)
(* more of them at every step.                                             *)
(*                                                                         *)
(* Bars are numbered from 1.  Distances to a stop and a take, and the cost *)
(* of a fill, are constants in units of price, not percentages of one.  A  *)
(* weight is what it was computed from: the closes of a volatility, or     *)
(* nothing but the configuration.                                          *)
(***************************************************************************)
EXTENDS Integers, Sequences

CONSTANTS
    Candles,      \* the shapes a bar may have
    Config,       \* the strategy's configuration
    MaxBars,      \* bound
    Handed,       \* is the live driver handed the bar that is starting, as a replay does?
    Kept,         \* does one driver see every bar, or is there a new one at every tick?
    None

Signals == {"BUY", "SELL", "HOLD"}
Bar     == [open : Nat, high : Nat, low : Nat, close : Nat, signal : Signals]
StrategyConfig ==
    [allow_short : BOOLEAN, stop : Nat, take : Nat, cost : Nat, volatility : BOOLEAN, period : Nat]

\* What is held, and the return of one bar of a leg.
Position ==
    [entry : Nat, price : Int, short : BOOLEAN,
     levels : [stop : Int \union {None}, take : Int \union {None}], weight : Seq(Nat)]
Return == [leg : Nat, den : Int, num : Int]

ASSUME ReplayAssumption ==
    /\ Candles \subseteq [open : Nat, high : Nat, low : Nat, close : Nat]
    /\ \A c \in Candles : c.low <= c.open /\ c.open <= c.high
                       /\ c.low <= c.close /\ c.close <= c.high
    /\ Config \in StrategyConfig
    /\ MaxBars \in Nat /\ Handed \in BOOLEAN /\ Kept \in BOOLEAN
    /\ None \notin Position /\ None \notin Return /\ None \notin {"stop", "take"}

VARIABLES
    bars,     \* the bars that have closed, each with the signal decided at its close
    state,    \* the state file: position, and the index of the last bar acted on
    closes,   \* the closes the live driver's engine has been shown
    ledger,   \* the live driver's
    held      \* what the simulated broker holds: 0, 1 or -1

vars == <<bars, state, closes, ledger, held>>

(***************************************************************************)
(* The engine (strategy/engine.py).                                        *)
(***************************************************************************)

uses_stop(cfg) == cfg.stop > 0
uses_take(cfg) == cfg.take > 0

\* Where an entry at this price is stopped out, and where it takes its profit.
levels(cfg, price, short) ==
    LET side == IF short THEN -1 ELSE 1
    IN  [stop |-> IF uses_stop(cfg) THEN price - side * cfg.stop ELSE None,
         take |-> IF uses_take(cfg) THEN price + side * cfg.take ELSE None]

\* A cost moves the price against the strategy.
Costed(cfg, price, buys) == IF buys THEN price + cfg.cost ELSE price - cfg.cost

\* Only bars that have closed, and no more of them than a volatility needs.
observe_close(cfg, seen, close) ==
    LET all == Append(seen, close)
        keep == cfg.period + 2
    IN  IF Len(all) > keep THEN SubSeq(all, Len(all) - keep + 1, Len(all)) ELSE all

\* The closes that the volatility of the last period is measured on.
realized_volatility(cfg, seen) ==
    IF Len(seen) < 3 THEN <<>>
    ELSE SubSeq(seen, IF Len(seen) > cfg.period THEN Len(seen) - cfg.period ELSE 1, Len(seen))

deploy_weight(cfg, seen) ==
    IF uses_stop(cfg) /\ cfg.volatility THEN realized_volatility(cfg, seen) ELSE <<>>

\* Is there an entry for this signal, long or short?
Wants(cfg, act) == act = "BUY" \/ (act = "SELL" /\ cfg.allow_short)
Opposes(pos, act) == (act = "BUY" /\ pos.short) \/ (act = "SELL" /\ ~pos.short)

_entry_intent(cfg, seen, k, bar, act) ==
    LET short == act = "SELL"
        price == Costed(cfg, bar.open, ~short)
    IN  [action |-> "open", reason |-> "signal", short |-> short, price |-> price,
         pos |-> [entry |-> k, price |-> price, short |-> short,
                  levels |-> levels(cfg, price, short), weight |-> deploy_weight(cfg, seen)]]

\* The stop comes before the take, on every bar the position is open.
LevelHit(pos, bar) ==
    LET touched(level, below) ==
            level # None /\ (IF below THEN bar.low <= level ELSE bar.high >= level)
    IN  IF touched(pos.levels.stop, ~pos.short) THEN "stop"
        ELSE IF touched(pos.levels.take, pos.short) THEN "take" ELSE None

_close_at(cfg, pos, price, reason) ==
    [action |-> "close", reason |-> reason, short |-> pos.short,
     price |-> Costed(cfg, price, pos.short), pos |-> None]

\* What a bar does, given the signal of the bar before it: an entry, which the
\* same bar may stop out, or an exit, on the signal before any level.
step(cfg, pos, seen, k, bar, act) ==
    LET entry == IF pos = None /\ Wants(cfg, act)
                 THEN <<_entry_intent(cfg, seen, k, bar, act)>> ELSE <<>>
        open  == IF entry # <<>> THEN entry[1].pos ELSE pos
        hit   == IF open = None THEN None ELSE LevelHit(open, bar)
    IN  IF pos # None /\ Opposes(pos, act) THEN <<_close_at(cfg, pos, bar.open, "signal")>>
        ELSE IF hit = None THEN entry
        ELSE entry \o <<_close_at(cfg, open, open.levels[hit], hit)>>

(***************************************************************************)
(* The ledger (strategy/engine.py).  A return is the two prices it is a    *)
(* quotient of, and the leg it belongs to.                                 *)
(***************************************************************************)

Ledger(n) == [legs |-> <<>>, returns |-> [k \in 1 .. n - 1 |-> None]]

\* The bars up to the last one carry the leg's returns, as far as there are any.
book(led, all, pos, last, exit, price, reason) ==
    LET leg == [entry |-> pos.entry, exit |-> exit, short |-> pos.short, price |-> pos.price,
                exit_price |-> price, weight |-> pos.weight, reason |-> reason]
        mark(k) == [leg |-> Len(led.legs) + 1,
                    den |-> IF k = pos.entry THEN pos.price ELSE all[k].open,
                    num |-> IF k = last THEN price ELSE all[k + 1].open]
    IN  [legs    |-> Append(led.legs, leg),
         returns |-> [k \in DOMAIN led.returns |->
                        IF pos.entry <= k /\ k <= last THEN mark(k) ELSE led.returns[k]]]

\* Defect: every exit is booked as one inside its bar.
SettleInside(led, all, pos, k, intent) ==
    IF intent.action = "open" THEN led
    ELSE book(led, all, pos, k, k, intent.price, intent.reason)

\* A signal's exit is at the open: the bar before it is the last with a return.
settle(led, all, pos, k, intent) ==
    IF intent.action = "open" THEN led
    ELSE book(led, all, pos, IF intent.reason = "signal" THEN k - 1 ELSE k, k,
              intent.price, intent.reason)

(***************************************************************************)
(* The backtest (engine.run, backtest/risk_sim.py, backtest/engine.py).    *)
(***************************************************************************)

\* One intent of bar k is settled after the other.
Acted(all, s, k, intents) ==
    LET r[i \in 0 .. Len(intents)] ==
            IF i = 0 THEN s
            ELSE [pos    |-> intents[i].pos,
                  ledger |-> settle(r[i - 1].ledger, all, r[i - 1].pos, k, intents[i])]
    IN  r[Len(intents)]

\* Bar k is filled on the signal of the bar before it.
Filled(cfg, all, s, k) ==
    LET seen == observe_close(cfg, s.seen, all[k - 1].close)
        done == Acted(all, [pos |-> s.pos, ledger |-> s.ledger], k,
                      step(cfg, s.pos, seen, k, all[k], all[k - 1].signal))
    IN  [pos |-> done.pos, ledger |-> done.ledger, seen |-> seen]

Batch(cfg, all) ==
    LET s[k \in 1 .. Len(all)] ==
            IF k = 1 THEN [pos |-> None, ledger |-> Ledger(Len(all)), seen |-> <<>>]
            ELSE Filled(cfg, all, s[k - 1], k)
    IN  s[Len(all)]

\* What is still open at the end is closed at the last close.
run(cfg, all) ==
    LET s == Batch(cfg, all)
        n == Len(all)
    IN  IF s.pos = None THEN s.ledger
        ELSE book(s.ledger, all, s.pos, n - 1, n, Costed(cfg, all[n].close, s.pos.short), "forced")

\* Defect: the risk settings stay in force.
AsConfigured(cfg) == cfg

\* No risk settings: nothing but the signals opens and closes a position.
Raw(cfg) == [cfg EXCEPT !.stop = 0, !.take = 0, !.volatility = FALSE]

\* The bars a position is held over; past the last one if it is held to the end.
position_intervals(cfg, all) ==
    LET legs == run(Raw(cfg), all).legs
    IN  [i \in DOMAIN legs |->
            [entry |-> legs[i].entry, short |-> legs[i].short,
             exit  |-> IF legs[i].reason = "forced" THEN Len(all) + 1 ELSE legs[i].exit]]

(***************************************************************************)
(* The live driver and the simulated broker (live.py, strategy/broker.py). *)
(***************************************************************************)

Decided(c, s) == [open |-> c.open, high |-> c.high, low |-> c.low, close |-> c.close, signal |-> s]

Init ==
    /\ \E c \in Candles, s \in Signals : bars = <<Decided(c, s)>>
    /\ state = [pos |-> None, index |-> 1]
    /\ closes = <<>>
    /\ ledger = Ledger(0)
    /\ held = 0

\* Defect: a simulator that always reports what it began with.
SubmitForgotten(quantity, intent) == quantity

\* The simulated broker fills what it is asked at the price that was expected.
submit(quantity, intent) ==
    IF intent.action = "open" THEN (IF intent.short THEN -1 ELSE 1) ELSE 0

Submitted(quantity, intents) ==
    LET q[i \in 0 .. Len(intents)] == IF i = 0 THEN quantity ELSE submit(q[i - 1], intents[i])
    IN  q[Len(intents)]

\* Nothing fires between two bars, so a difference is never settled.
Agrees(pos, quantity) ==
    IF pos = None THEN quantity = 0 ELSE quantity = (IF pos.short THEN -1 ELSE 1)

\* One more bar.  A replay is handed it as the bar that starts, and decides on
\* the one before; a live tick decides on it, and takes it for the bar to fill.
on_bar_closed(bar) ==
    LET all    == Append(bars, bar)
        signal == IF Handed THEN bars[Len(bars)] ELSE bar
        k      == IF Handed THEN Len(all) ELSE state.index + 1
        seen   == observe_close(Config, IF Kept THEN closes ELSE <<>>, signal.close)
        todo   == step(Config, state.pos, seen, k, bar, signal.signal)
        done   == Acted(<<>>, [pos |-> state.pos, ledger |-> ledger], k, todo)
    IN  /\ Len(bars) < MaxBars
        /\ bars' = all
        /\ closes' = seen
        /\ IF Agrees(state.pos, held)
           THEN /\ state' = [pos |-> done.pos, index |-> k]
                /\ ledger' = done.ledger
                /\ held' = Submitted(held, todo)
           ELSE UNCHANGED <<state, ledger, held>>

Next == \E c \in Candles, s \in Signals : on_bar_closed(Decided(c, s))

Spec == Init /\ [][Next]_vars

=============================================================================
