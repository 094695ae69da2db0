-------------------------------- MODULE OneLoop --------------------------------
(***************************************************************************)
(* What the lease promises: of all the processes that may run the trading  *)
(* loop, one at a time does.                                               *)
(***************************************************************************)
CONSTANT Procs

VARIABLE running    \* the processes that run the loop

Init == running = {}

Begin(p) == running = {} /\ running' = {p}
End(p)   == running = {p} /\ running' = {}

Next == \E p \in Procs : Begin(p) \/ End(p)

Spec == Init /\ [][Next]_running

=============================================================================
