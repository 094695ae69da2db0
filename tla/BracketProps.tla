------------------------------ MODULE BracketProps ------------------------------
(***************************************************************************)
(* What protects a position, and what the strategy believes protects it.   *)
(***************************************************************************)
EXTENDS Bracket, OrderRequestProps

\* With a stop and a take configured, no share is held without both of them
\* resting: whatever was lost, retried, amended or adopted, and also where a
\* share is too dear for a bracket (_open, amend_exits).
NeverNaked == Bracketed /\ Holds => \A k \in Kinds : legs[k] # None

\* Between ticks, what rests at the broker is what the state file says, unless
\* a failure has been reported: the engine's exits and the broker's are the
\* same ones (amend_exits, adopt_broker_position), and the panel says of a
\* position with a bracket that it is protected (protection).
LevelsAgree ==
    stage = "over" /\ disk # None /\ Holds /\ ~amiss =>
        /\ \A k \in Kinds : legs[k] \in {None, disk.levels[k]}
        /\ Bracketed /\ (\A k \in Kinds : disk.levels[k] # 0) => protection = "protected"

\* An entry that was answered with its fill is stopped out as far from the
\* price that was paid as it was sized for (_reprice_exits).
RiskIsAsSized ==
    stage = "over" /\ answer.status = "filled" /\ Holds /\ ~amiss /\ Bracketed =>
        legs = levels(paid)

\* A tick ends: neither a silent broker nor an order that stays open keeps it
\* for ever (execute_with_retry, poll, amend_exits).
TickEnds == <>(stage = "over")

=============================================================================
