------------------------------ MODULE OrderRequest ------------------------------
(***************************************************************************)
(* One entry on its way to the broker: AlpacaBroker.submit, place_order    *)
(* and poll of src/execution/alpaca_executor.py, the retries of            *)
(* src/execution/retry.py and the verdicts of alpaca_client.py.  It is     *)
(* what LiveDriver takes as SubmitAccepted, SubmitRefused and PollEntry,   *)
(* seen from the network: a request may be lost, arrive after its sender   *)
(* has given up on it, or arrive while its reply does not.                 *)
(*                                                                         *)
(* The order and the requests on their way are outside the repository; the *)
(* process that asks may die and, the bar being undecided, ask again.      *)
(***************************************************************************)
EXTENDS Integers, FiniteSets

CONSTANTS
    MaxRetries,   \* execution_max_retries
    MaxReads,     \* the deadline of poll comes after at most this many reads
    Size,         \* shares asked for
    MaxCrashes    \* the process dies at most this often

ASSUME RequestAssumption ==
    /\ MaxRetries \in Nat
    /\ MaxReads \in Nat \ {0}
    /\ Size \in Nat \ {0}
    /\ MaxCrashes \in Nat

VARIABLES
    orders,   \* what the broker has under each client order id
    late,     \* ids whose request is on its way and given up by its sender
    pc,       \* the step submit is at
    attempt,  \* retries made by execute_with_retry
    reads,    \* reads made by poll
    answer,   \* the Fill submit returned
    unheard,  \* has something the broker may have done gone unanswered?
    crashes

brokerVars  == <<orders, late>>
callVars    == <<pc, attempt, reads, answer>>
vars        == <<brokerVars, callVars, unheard, crashes>>

Ids      == 0..MaxRetries
(* Alpaca's statuses as the code tells them apart: filled; dead, in        *)
(* DEAD_STATUSES; over, in TERMINAL_STATUSES only; none for no order.      *)
Statuses == {"none", "working", "filled", "dead", "over"}
Order    == [status : Statuses, bought : 0..Size]
NoOrder  == [status |-> "none", bought |-> 0]
Fill     == [status : {"none", "filled", "no_fill", "rejected"}, quantity : 0..Size]
NoFill   == [status |-> "none", quantity |-> 0]
Rejected == [status |-> "rejected", quantity |-> 0]

OrderTypeOK ==
    /\ orders \in [Ids -> Order]
    /\ late \in SUBSET Ids
    /\ pc \in {"call", "send", "poll", "done"}
    /\ attempt \in Ids
    /\ reads \in 0..MaxReads
    /\ answer \in Fill
    /\ unheard \in BOOLEAN
    /\ crashes \in 0..MaxCrashes

\* What the broker can make of an order, when it takes it and afterwards.
Possible(o) ==
    /\ o.status = "filled" <=> o.bought = Size
    /\ o.status # "none"

Terminal(o) == o.status \in {"filled", "dead", "over"}

Init ==
    /\ orders = [id \in Ids |-> NoOrder]
    /\ late = {}
    /\ pc = "call" /\ attempt = 0 /\ reads = 0
    /\ answer = NoFill
    /\ unheard = FALSE
    /\ crashes = 0

(***************************************************************************)
(* The broker.                                                             *)
(***************************************************************************)

\* The broker takes the request: an id it has seen makes no second order.
Takes(id) ==
    IF orders[id] = NoOrder
    THEN \E o \in Order : Possible(o) /\ orders' = [orders EXCEPT ![id] = o]
    ELSE UNCHANGED orders

\* An order at work fills further, or ends with what it has filled.
OrderMoves ==
    \E id \in Ids, o \in Order :
        /\ orders[id].status = "working"
        /\ Possible(o) /\ o # orders[id] /\ o.bought >= orders[id].bought
        /\ orders' = [orders EXCEPT ![id] = o]
        /\ UNCHANGED <<late, callVars, unheard, crashes>>

\* A request its sender has given up on arrives after all.
LateArrival ==
    \E id \in late :
        /\ Takes(id)
        /\ late' = late \ {id}
        /\ UNCHANGED <<callVars, unheard, crashes>>

\* Or it is lost.
LateLoss ==
    \E id \in late :
        /\ late' = late \ {id}
        /\ UNCHANGED <<orders, callVars, unheard, crashes>>

(***************************************************************************)
(* submit.                                                                 *)
(***************************************************************************)

\* Defect: an id of its own for every attempt.
client_id_of_attempt(n) == n

\* One id for the call, the same one when the bar is decided again.
client_id(n) == 0

\* Defect: an order at work is taken for refused.
RecordWorkingRefused(o) ==
    IF o.status \in {"dead", "working"} THEN Rejected
    ELSE [status |-> "filled", quantity |-> o.bought]

\* AlpacaBroker._record.
Record(o) ==
    IF o.status = "dead" THEN Rejected
    ELSE [status |-> IF o.bought > 0 THEN "filled" ELSE "no_fill", quantity |-> o.bought]

Return(fill) == pc' = "done" /\ answer' = fill

\* Every refusal before anything is sent: the switch, the size, the price,
\* the payload, or an equity that cannot be read.
Refuse ==
    /\ pc = "call"
    /\ Return(Rejected)
    /\ UNCHANGED <<brokerVars, attempt, reads, unheard, crashes>>

Begin ==
    /\ pc = "call"
    /\ pc' = "send" /\ attempt' = 0
    /\ UNCHANGED <<brokerVars, reads, answer, unheard, crashes>>

\* What place_order does with the broker's reply.
Receive(o) ==
    IF Terminal(o) THEN Return(Record(o)) /\ UNCHANGED reads
    ELSE pc' = "poll" /\ reads' = 0 /\ UNCHANGED answer

Submit ==
    /\ pc = "send"
    /\ LET id == client_id(attempt) IN
       /\ orders[id] = NoOrder
       /\ Takes(id)
       /\ Receive(orders'[id])
    /\ UNCHANGED <<late, attempt, unheard, crashes>>

\* A duplicate id, a revoked key, a wrong order: a verdict is not retried.
Verdict ==
    /\ pc = "send"
    /\ Return(Rejected)
    /\ UNCHANGED <<brokerVars, attempt, reads, unheard, crashes>>

\* max_retries counts retries, not attempts.
AttemptsLeft == attempt < MaxRetries

\* Defect: the last attempt's failure is reported as an order to wait for.
GiveUpHoping == Return([status |-> "no_fill", quantity |-> 0]) /\ UNCHANGED attempt

\* The last exception leaves execute_with_retry, and submit answers for it.
GiveUp == Return(Rejected) /\ UNCHANGED attempt

Retry == attempt' = attempt + 1 /\ UNCHANGED <<pc, answer>>

\* No answer, or one that says no more than that: an unreachable broker, a
\* body that is not JSON, a 429 or a 5xx.  The request may have been taken,
\* be on its way still, or be gone.
Unanswered ==
    /\ pc = "send"
    /\ LET id == client_id(attempt) IN
       \/ Takes(id) /\ UNCHANGED late
       \/ late' = late \union {id} /\ UNCHANGED orders
       \/ UNCHANGED brokerVars
    /\ IF AttemptsLeft THEN Retry ELSE GiveUp
    /\ unheard' = TRUE
    /\ UNCHANGED <<reads, crashes>>

(***************************************************************************)
(* poll: read the order until it is over or the deadline has passed.  A    *)
(* read is not retried: its failure leaves place_order.                    *)
(***************************************************************************)

\* Defect: the deadline starts over with every few reads.
PollAgain ==
    /\ pc = "poll"
    /\ LET o == orders[client_id(attempt)] IN
       \/ Terminal(o) /\ Return(Record(o)) /\ UNCHANGED reads
       \/ ~Terminal(o) /\ reads' = (reads + 1) % MaxReads /\ UNCHANGED <<pc, answer>>
    /\ UNCHANGED <<brokerVars, attempt, unheard, crashes>>

Poll ==
    /\ pc = "poll"
    /\ LET o == orders[client_id(attempt)] IN
       \/ Return(Record(o)) /\ UNCHANGED reads
       \/ ~Terminal(o) /\ reads + 1 < MaxReads
          /\ reads' = reads + 1 /\ UNCHANGED <<pc, answer>>
    /\ UNCHANGED <<brokerVars, attempt, unheard, crashes>>

PollFails ==
    /\ pc = "poll"
    /\ Return(Rejected)
    /\ unheard' = TRUE
    /\ UNCHANGED <<brokerVars, attempt, reads, crashes>>

\* The process dies before the bar is recorded as decided; the next one
\* decides it again.  A request that was under way is on its own.
Crash ==
    /\ crashes < MaxCrashes
    /\ crashes' = crashes + 1
    /\ pc' = "call" /\ answer' = NoFill
    /\ late' \in IF pc = "send" THEN {late, late \union {client_id(attempt)}} ELSE {late}
    /\ unheard' = (pc # "call" \/ unheard)
    /\ UNCHANGED <<orders, attempt, reads>>

Tick == Refuse \/ Begin \/ Submit \/ Verdict \/ Unanswered \/ Poll \/ PollFails

\* The call is answered, and nothing is left to happen at the broker.
Finished ==
    /\ pc = "done"
    /\ UNCHANGED vars

Next == Tick \/ Crash \/ OrderMoves \/ LateArrival \/ LateLoss \/ Finished

Spec == Init /\ [][Next]_vars

=============================================================================
