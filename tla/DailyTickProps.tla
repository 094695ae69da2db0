---------------------------- MODULE DailyTickProps ----------------------------
(***************************************************************************)
(* What the day's limits come to, with logs that may lose rows.            *)
(***************************************************************************)
EXTENDS DailyTick

\* Under "at most one switch a day" there is one, and two more for every time a
\* tick died or failed before its row was safe: its own switch, and the one
\* whose row was written behind half a line (last_switch_today, append_line).
SwitchesOncePerDay == made <= 1 + 2 * faults

\* A position is opened only while the day's losses in a row, at the tick's
\* start, are under the limit; every failure hides three of them at the most:
\* two trades of one tick, and a row behind half a line (_day_loss_halt,
\* losing_streak, finish).
LossesHaltEntries ==
    At("drive") /\ ~tick.halt => losses < MaxLosses + 3 * faults

\* One list never moves the strategy twice: no criteria make it go to and fro
\* (decide).
OneSwitchPerList == At("apply") => tick.list.id # used

\* A switch "only while nothing is held" leaves no position to the rules of
\* another instrument, but for an entry that was still working (evaluate).
SwitchesWhenFlat ==
    At("apply") /\ tick.auto.flat => position # "held" \/ tick.working

=============================================================================
