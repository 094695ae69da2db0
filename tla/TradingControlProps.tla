-------------------------- MODULE TradingControlProps --------------------------
(***************************************************************************)
(* What the switch promises about the loop.                                *)
(***************************************************************************)
EXTENDS TradingControl, LoopLeaseProps

\* Whatever the operator, the page and the operating system do, the processes
\* they start and stop follow the lease: its theorems hold here as well.
FollowsLease == Spec

\* Armed means a loop runs, or will: a loop that crashed or could not be
\* started is put back for as long as a page is open (ensure_running).
ArmedLoopRuns == on ~> (~on \/ Trading # {})

\* Turning trading off stops the loop, asleep or not, with no boundary to wait
\* for (_wait_for_the_boundary, orchestrator.run).
OffStopsTheLoop == ~on ~> (on \/ Trading = {})

(***************************************************************************)
(* What the documentation says and the code does not do.                   *)
(***************************************************************************)

\* Stop and flatten stops trading AND closes what is open (stop_and_flatten).
FlattenCloses ==
    [][\A t \in Requests : job[t] = "flattening" /\ job'[t] = "idle" => ~held']_all

=============================================================================
