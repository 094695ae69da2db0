-------------------------------- MODULE OneOrder --------------------------------
(***************************************************************************)
(* What asking for an entry promises, however often it is asked: the       *)
(* broker makes at most one order of it, and shares bought by that order   *)
(* stay bought.                                                            *)
(***************************************************************************)
EXTENDS Naturals

CONSTANT Ids    \* the names an order may have been given

VARIABLES
    made,       \* the orders the broker made of the intent
    bought      \* the shares each of them has filled

Init == made = {} /\ bought = [id \in Ids |-> 0]

Make(id) ==
    /\ made = {} /\ made' = {id}
    /\ \A other \in Ids \ {id} : bought'[other] = bought[other]

Fill(id) ==
    /\ id \in made /\ UNCHANGED made
    /\ bought'[id] > bought[id]
    /\ \A other \in Ids \ {id} : bought'[other] = bought[other]

Next == \E id \in Ids : Make(id) \/ Fill(id)

Spec == Init /\ [][Next]_<<made, bought>>

=============================================================================
