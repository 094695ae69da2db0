----------------------------- MODULE LoopLeaseProps -----------------------------
(***************************************************************************)
(* What the lease on the loop is for.                                      *)
(***************************************************************************)
EXTENDS LoopLease

\* The processes that have claimed the loop and still run it.
Trading == {p \in Procs : pc[p] \in {"starting", "ticking", "asleep"}}

\* On one machine a running loop keeps its claim, however late it is, until it
\* gives it up itself (loop_state.holder).
RunningLoopHolds == \A p \in Trading : lock # None /\ lock.by = p

\* Between hosts only the clock speaks: the claim of a healthy loop has not
\* expired at any moment of its life, asleep or in a long tick, so that nobody
\* takes it over and no dashboard calls it stalled (lease.refresh).
ClaimStands == \A p \in Trading : lock # None /\ lock.by = p /\ ~is_expired(lock)

\* release removes nobody's claim but its own (lease.release).
ReleaseOnlyOwn ==
    [][lock # None /\ lock' = None => pc[lock.by] = "unlinking"]_vars

\* The lease is an implementation of one loop at a time: claiming begins it,
\* and whatever ends the process, a crash included, ends it.
One == INSTANCE OneLoop WITH running <- Trading
OneLoopAtATime == One!Spec

=============================================================================
