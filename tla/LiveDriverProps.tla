--------------------------- MODULE LiveDriverProps ---------------------------
(***************************************************************************)
(* What the live driver owes its operator: at most one order for a bar, at *)
(* most one position, and a trade log that says what the account did.      *)
(***************************************************************************)
EXTENDS LiveDriver

\* Every leg booked so far, recorded or about to be.
Booked == trades \o booked

\* However often the process dies and the bar is decided again, the broker
\* accepts at most one entry for it (order_id_for, src/strategy/live.py).
OneEntryPerBar == \A b \in Bars : entries[b] <= 1

\* The strategy holds at most one position, whichever tick, crash or refusal
\* came before: a position left behind is adopted, never added to.
OnePosition == qty \in -1..1

\* The trade log is a sequence of round trips: each ends with a fill that came
\* after the one it began with, and the next begins no earlier than that.  So
\* no exit is booked twice, and none for a position that was opened after it
\* (adopt_broker_exit, closing_fill_from_history).
RoundTripsInOrder ==
    /\ \A i \in DOMAIN Booked : Booked[i].exit # 0 => Booked[i].entry < Booked[i].exit
    /\ \A i, j \in DOMAIN Booked :
         i < j /\ Booked[i].exit # 0 /\ Booked[j].exit # 0 => Booked[i].exit <= Booked[j].entry

\* What the state file calls a position is held by the account, or a newer
\* fill in its history shows what closed it: the next tick can adopt one or
\* the other, so the driver is never wedged on a refusal nothing can lift.
NeverWedged ==
    disk.pos # None /\ Flat /\ disk.unfilled = None =>
        disk.pos.fill < ClosingFill(disk.pos.short)

\* A tick that decided a SELL leaves nothing long behind it, and one that
\* decided a BUY nothing short: whatever was found at the account, adopted or
\* not, and whatever fired while the tick ran (on_bar_closed).
SignalHonoured ==
    pc = "record" /\ disk.decided = tickBar =>
        /\ signal = "SELL" => qty <= 0
        /\ signal = "BUY" => qty >= 0

\* Between ticks, every exit of the account is a row of trades.jsonl, or it is
\* newer than the position the state file still holds and the next tick books
\* it.  A crash may lose rows, so none has happened.
ExitFills == {i \in DOMAIN hist : hist[i].of # "entry"}
LogMatchesAccount ==
    pc = "idle" /\ crashes = 0 =>
        \A i \in ExitFills :
            \/ \E j \in DOMAIN trades : trades[j].exit = i
            \/ disk.pos # None /\ disk.pos.fill < i

\* Armed on top of a position it does not know, the strategy takes it over at
\* the next bar: it is not refused for ever (adopt_broker_position).
Managed == disk.pos # None \/ Flat
PositionGetsManaged == (~Managed /\ bar < MaxBar) ~> (Managed \/ ~on)

\* The loop always finishes a tick it began, and bars go on closing.
FairSpec == Spec /\ WF_vars(Tick) /\ WF_vars(NewBar)

=============================================================================
