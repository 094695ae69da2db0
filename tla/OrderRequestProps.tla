--------------------------- MODULE OrderRequestProps ---------------------------
(***************************************************************************)
(* What an entry's answer is worth.                                        *)
(***************************************************************************)
EXTENDS OrderRequest

Made     == {id \in Ids : orders[id].status # "none"}
BoughtBy == [id \in Ids |-> orders[id].bought]

Entry == INSTANCE OneOrder WITH made <- Made, bought <- BoughtBy

\* However often an entry is asked for, by retries whose predecessors arrive
\* late and by a process that asks again after a crash, the broker makes one
\* order of it: "the id is generated once per intent and every attempt carries
\* it" (alpaca_executor.py, rule 4; order_id_for across a crash).
OneOrderPerIntent == Entry!Spec

\* The driver keeps a position for a FILLED or a NO_FILL entry.  What FILLED
\* reports was bought, and NO_FILL has an order at the broker: a position is
\* never kept for an order that nobody has (_record, place_order).
KeptEntryIsReal ==
    /\ answer.status = "filled" =>
         /\ answer.quantity > 0
         /\ \E id \in Made : BoughtBy[id] >= answer.quantity
    /\ answer.status = "no_fill" => Made # {}

\* An entry that comes back REJECTED has no order that may still fill, unless
\* a request, a read or a whole tick of it went unanswered (_record, submit).
RefusalIsFinal ==
    answer = Rejected /\ ~unheard => \A id \in Made : Terminal(orders[id])

=============================================================================
