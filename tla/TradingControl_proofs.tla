------------------------- MODULE TradingControl_proofs -------------------------
(***************************************************************************)
(* Proofs about the lease, for any number of processes and hosts, and      *)
(* about the switch: what the operator and the page do to the loop is      *)
(* something the lease allows, so that what is proved of the lease holds   *)
(* of the dashboard's loops.                                               *)
(***************************************************************************)
EXTENDS TradingControlProps, TLAPS

\* A process between its claim and the end of its release.
Holding == {"starting", "ticking", "asleep", "releasing", "unlinking"}

\* The claim in loop.lock is that of the process which is holding the loop.
Held == \A p \in Procs : pc[p] \in Holding => lock # None /\ lock.by = p

\* A process about to write its claim is alone.
Sole ==
    \A p, q \in Procs : pc[p] = "claiming" =>
        /\ pc[q] = "claiming" => p = q
        /\ pc[q] \notin Holding

\* How far a healthy holder's claim reaches beyond what it has left to do.
Reaches ==
    \A p \in Procs :
        /\ pc[p] = "claiming" => at[p] = now
        /\ pc[p] = "starting" => now <= at[p] + MaxTick /\ lock.expires = at[p] + Grace
        /\ pc[p] = "ticking" => now <= at[p] + MaxTick /\ at[p] + MaxTick < lock.expires
        /\ pc[p] = "asleep" => now <= until[p] /\ until[p] + MaxTick < lock.expires
        /\ pc[p] \in {"releasing", "unlinking"} => now < lock.expires

\* The two machines of the argument: the clock between hosts, the pid on one.
LeaseInv == TypeOK /\ Held /\ Sole /\ Reaches
HostInv  == TypeOK /\ Held /\ Sole

OneMachine == \A p, q \in Procs : HostOf[p] = HostOf[q]

(***************************************************************************)
(* Typing.                                                                 *)
(***************************************************************************)

LEMMA TypingStep == TypeOK /\ [Next]_vars => TypeOK'
<1> SUFFICES ASSUME TypeOK, [Next]_vars PROVE TypeOK'
    OBVIOUS
<1> USE LeaseAssumption
<1>1. CASE UNCHANGED vars
    BY <1>1 DEF vars, TypeOK
<1>2. ASSUME NEW p \in Procs, Look(p) PROVE TypeOK'
    BY <1>2 DEF Look, Goes, ReadsClock, TypeOK, Phases
<1>3. ASSUME NEW p \in Procs, Refused(p) PROVE TypeOK'
    BY <1>3 DEF Refused, Ends, Goes, TypeOK, Phases
<1>4. ASSUME NEW p \in Procs, Claim(p) PROVE TypeOK'
  <2>1. at[p] + Grace \in Nat
    BY DEF TypeOK
  <2>2. lock' \in Record
    BY <1>4, <2>1 DEF Claim, Record
  <2> QED BY <1>4, <2>2 DEF Claim, Goes, TypeOK, Phases
<1>5. ASSUME NEW p \in Procs, FirstTick(p) PROVE TypeOK'
    BY <1>5 DEF FirstTick, Goes, ReadsClock, TypeOK, Phases
<1>6. ASSUME NEW p \in Procs, EndTick(p) PROVE TypeOK'
  <2>1. PICK boundary \in at[p] + 1 .. at[p] + Period :
           /\ refresh(p, boundary)
           /\ until' = [until EXCEPT ![p] = now + (boundary - at[p]) + Lag]
    BY <1>6 DEF EndTick
  <2>2. at[p] \in Nat /\ now \in Nat
    BY DEF TypeOK
  <2>3. boundary \in Nat /\ boundary > at[p] /\ boundary + Grace \in Nat
    BY <2>2
  <2>4. now + (boundary - at[p]) + Lag \in Nat
    BY <2>2, <2>3
  <2>5. lock' \in Record
    BY <2>1, <2>3 DEF refresh, Record
  <2>6. until' \in [Procs -> Nat]
    BY <2>1, <2>4 DEF TypeOK
  <2> QED BY <1>6, <2>5, <2>6 DEF EndTick, Goes, TypeOK, Phases
<1>7. ASSUME NEW p \in Procs, LastTick(p) \/ SwitchedOff(p) \/ Interrupted(p) PROVE TypeOK'
    BY <1>7 DEF LastTick, SwitchedOff, Interrupted, Goes, TypeOK, Phases
<1>8. ASSUME NEW p \in Procs, Wake(p) PROVE TypeOK'
    BY <1>8 DEF Wake, Goes, ReadsClock, TypeOK, Phases
<1>9. ASSUME NEW p \in Procs, Release(p) PROVE TypeOK'
    BY <1>9 DEF Release, Ends, Goes, TypeOK, Phases
<1>10. ASSUME NEW p \in Procs, Unlink(p) PROVE TypeOK'
    BY <1>10 DEF Unlink, Ends, Goes, TypeOK, Phases
<1>11. ASSUME NEW p \in Procs, Crash(p) PROVE TypeOK'
  <2>1. PICK phase \in {"zombie", "gone"} : Ends(p, phase)
    BY <1>11 DEF Crash
  <2> QED BY <1>11, <2>1 DEF Crash, Ends, Goes, TypeOK, Phases
<1>12. ASSUME NEW p \in Procs, Reap(p) \/ Start(p) PROVE TypeOK'
    BY <1>12 DEF Reap, Start, Goes, TypeOK, Phases
<1>13. ASSUME NEW p \in Procs, Recycle(p) \/ ProgramEnds(p) PROVE TypeOK'
    BY <1>13 DEF Recycle, ProgramEnds, TypeOK
<1>14. CASE FlipSwitch
    BY <1>14 DEF FlipSwitch, TypeOK
<1>15. CASE Advance
    BY <1>15 DEF Advance, TypeOK
<1> QED
    BY <1>1, <1>2, <1>3, <1>4, <1>5, <1>6, <1>7, <1>8, <1>9, <1>10, <1>11,
       <1>12, <1>13, <1>14, <1>15 DEF Next, ProcessStep

\* Every variable of the lease keeps its type: loop.lock is a whole record or
\* nothing, whichever process was killed in the middle of what it was doing.
THEOREM LeaseTypeCorrect == Spec => []TypeOK
<1>1. Init => TypeOK
    BY LeaseAssumption DEF Init, TypeOK, Phases
<1> QED BY <1>1, TypingStep, PTL DEF Spec

(***************************************************************************)
(* Who holds the loop.                                                     *)
(***************************************************************************)

\* A holder is honoured by whoever can ask its pid, and by everyone else for
\* as long as its claim has not expired.
LEMMA HolderIsHonoured ==
    ASSUME TypeOK, Held, NEW q \in Procs, pc[q] \in Holding,
           NEW host, HostOf[q] = host \/ ~is_expired(lock)
    PROVE  Honoured(host)
<1>1. lock # None /\ lock.by = q
    BY DEF Held
<1>2. Alive(q)
    BY DEF Alive, Holding
<1> QED BY <1>1, <1>2 DEF Honoured

\* The holder stays the only one over every step, if nobody who looks at the
\* claim can mistake it for a dead one.
LEMMA HoldingStep ==
    ASSUME TypeOK, Held, Sole, ~Overlap, [Next]_vars,
           \A p, q \in Procs : pc[q] \in Holding => HostOf[q] = HostOf[p] \/ ~is_expired(lock)
    PROVE  Held' /\ Sole'
<1> USE LeaseAssumption
<1>1. CASE UNCHANGED vars
    BY <1>1 DEF vars, Held, Sole
<1>2. ASSUME NEW p \in Procs, Look(p) PROVE Held' /\ Sole'
  <2>1. \A q \in Procs : pc[q] \notin Holding
    BY <1>2, HolderIsHonoured DEF Look
  <2>2. \A q \in Procs : pc[q] # "claiming"
    BY <1>2 DEF Look
  <2>3. pc' = [pc EXCEPT ![p] = "claiming"]
    BY <1>2 DEF Look, Goes
  <2> QED BY <2>1, <2>2, <2>3 DEF Held, Sole, Holding, TypeOK
<1>3. ASSUME NEW p \in Procs, Claim(p) PROVE Held' /\ Sole'
  <2>1. pc[p] = "claiming" /\ pc' = [pc EXCEPT ![p] = "starting"]
    BY <1>3 DEF Claim, Goes
  <2>2. \A q \in Procs : pc[q] \notin Holding /\ (q # p => pc[q] # "claiming")
    BY <2>1 DEF Sole
  <2>3. lock' = [by |-> p, wake |-> 0, expires |-> at[p] + Grace]
    BY <1>3 DEF Claim
  <2>4. lock' \in Record
    BY <2>3 DEF Record, TypeOK
  <2>5. lock' # None /\ lock'.by = p
    BY <2>3, <2>4 DEF Record
  <2> QED BY <2>1, <2>2, <2>5 DEF Held, Sole, Holding, TypeOK
<1>4. ASSUME NEW p \in Procs, EndTick(p) PROVE Held' /\ Sole'
  <2>1. pc[p] = "ticking" /\ pc' = [pc EXCEPT ![p] = "asleep"]
    BY <1>4 DEF EndTick, Goes
  <2>2. PICK boundary \in at[p] + 1 .. at[p] + Period : refresh(p, boundary)
    BY <1>4 DEF EndTick
  <2>3. lock' = [by |-> p, wake |-> boundary, expires |-> boundary + Grace]
    BY <2>2 DEF refresh
  <2>4. lock' \in Record
    BY <2>3 DEF Record, TypeOK
  <2>5. lock' # None /\ lock'.by = p
    BY <2>3, <2>4 DEF Record
  <2>6. lock # None /\ lock.by = p
    BY <2>1 DEF Held, Holding
  <2> QED BY <2>1, <2>5, <2>6 DEF Held, Sole, Holding, TypeOK
<1>5. ASSUME NEW p \in Procs, Unlink(p) PROVE Held' /\ Sole'
  <2>1. pc[p] = "unlinking" /\ pc' = [pc EXCEPT ![p] = "gone"]
    BY <1>5 DEF Unlink, Ends, Goes
  <2>2. lock.by = p
    BY <2>1 DEF Held, Holding
  <2> QED BY <2>1, <2>2 DEF Held, Sole, Holding, TypeOK
<1>6. ASSUME NEW p \in Procs, Release(p) PROVE Held' /\ Sole'
  <2>1. PICK phase \in {"gone", "unlinking"} : pc' = [pc EXCEPT ![p] = phase]
    BY <1>6 DEF Release, Ends, Goes
  <2>2. pc[p] = "releasing" /\ lock' = lock
    BY <1>6 DEF Release
  <2> QED BY <2>1, <2>2 DEF Held, Sole, Holding, TypeOK
<1>7. ASSUME NEW p \in Procs, Crash(p) PROVE Held' /\ Sole'
  <2>1. PICK phase \in {"zombie", "gone"} : pc' = [pc EXCEPT ![p] = phase]
    BY <1>7 DEF Crash, Ends, Goes
  <2>2. lock' = lock
    BY <1>7 DEF Crash
  <2> QED BY <2>1, <2>2 DEF Held, Sole, Holding, TypeOK
<1>8. ASSUME NEW p \in Procs, Refused(p) \/ Reap(p) PROVE Held' /\ Sole'
  <2>1. pc' = [pc EXCEPT ![p] = "gone"] /\ lock' = lock
    BY <1>8 DEF Refused, Ends, Reap, Goes
  <2> QED BY <2>1 DEF Held, Sole, Holding, TypeOK
<1>9. ASSUME NEW p \in Procs,
             FirstTick(p) \/ LastTick(p) \/ SwitchedOff(p) \/ Interrupted(p) \/ Wake(p)
      PROVE  Held' /\ Sole'
  <2>1. PICK phase \in {"ticking", "releasing"} : pc' = [pc EXCEPT ![p] = phase]
    BY <1>9 DEF FirstTick, LastTick, SwitchedOff, Interrupted, Wake, Goes
  <2>2. pc[p] \in Holding /\ lock' = lock
    BY <1>9 DEF FirstTick, LastTick, SwitchedOff, Interrupted, Wake, Holding
  <2> QED BY <2>1, <2>2 DEF Held, Sole, Holding, TypeOK
<1>s. ASSUME NEW p \in Procs, Start(p) PROVE Held' /\ Sole'
  <2>1. pc' = [pc EXCEPT ![p] = "new"] /\ lock' = lock
    BY <1>s DEF Start, Goes
  <2> QED BY <2>1 DEF Held, Sole, Holding, TypeOK
<1>10. ASSUME (\E p \in Procs : Recycle(p) \/ ProgramEnds(p)) \/ FlipSwitch \/ Advance
       PROVE  Held' /\ Sole'
  <2>1. pc' = pc /\ lock' = lock
    BY <1>10 DEF Recycle, ProgramEnds, FlipSwitch, Advance
  <2> QED BY <2>1 DEF Held, Sole
<1> QED
    BY <1>s, <1>1, <1>2, <1>3, <1>4, <1>5, <1>6, <1>7, <1>8, <1>9, <1>10 DEF Next, ProcessStep

(***************************************************************************)
(* How long a claim is good for.                                           *)
(***************************************************************************)

\* What every step that is not the holder's own leaves of its reach.
LEMMA ReachOfAnother ==
    ASSUME Reaches, NEW q \in Procs, pc'[q] = pc[q], at'[q] = at[q], until'[q] = until[q],
           now' = now, lock' = lock \/ pc[q] \notin Holding
    PROVE
        /\ pc'[q] = "claiming" => at'[q] = now'
        /\ pc'[q] = "starting" => now' <= at'[q] + MaxTick /\ lock'.expires = at'[q] + Grace
        /\ pc'[q] = "ticking" => now' <= at'[q] + MaxTick /\ at'[q] + MaxTick < lock'.expires
        /\ pc'[q] = "asleep" => now' <= until'[q] /\ until'[q] + MaxTick < lock'.expires
        /\ pc'[q] \in {"releasing", "unlinking"} => now' < lock'.expires
<1>1. CASE lock' = lock
    BY <1>1 DEF Reaches
<1>2. CASE pc[q] \notin Holding
    BY <1>2 DEF Reaches, Holding
<1> QED BY <1>1, <1>2

\* The claim of a healthy loop outlasts what the loop has left to do: the grace
\* covers the tick before the sleep, the lag and the tick after it.
LEMMA ReachesStep ==
    ASSUME TypeOK, Held, Sole, Reaches, Timely, [Next]_vars
    PROVE  Reaches'
<1> USE LeaseAssumption, GraceOutlastsTwoTicks
<1>t. \A q \in Procs : at[q] \in Nat /\ until[q] \in Nat /\ now \in Nat
    BY DEF TypeOK
<1>l. \A q \in Procs : pc[q] \in Holding => lock # None /\ lock.by = q /\ lock.expires \in Nat
    BY DEF Held, TypeOK, Record
<1>1. CASE UNCHANGED vars
    BY <1>1 DEF vars, Reaches
<1>2. ASSUME NEW p \in Procs, Look(p) PROVE Reaches'
    BY <1>2, ReachOfAnother DEF Look, Goes, ReadsClock, TypeOK, Reaches
<1>3. ASSUME NEW p \in Procs, Claim(p) PROVE Reaches'
  <2>1. pc[p] = "claiming" /\ pc' = [pc EXCEPT ![p] = "starting"] /\ UNCHANGED <<now, at, until>>
    BY <1>3 DEF Claim, Goes
  <2>2. \A q \in Procs : pc[q] \notin Holding
    BY <2>1 DEF Sole
  <2>3. at[p] = now
    BY <2>1 DEF Reaches
  <2>4. lock'.expires = at[p] + Grace
    BY <1>3 DEF Claim
  <2> QED BY <2>1, <2>2, <2>3, <2>4, <1>t, ReachOfAnother DEF Reaches, TypeOK
<1>4. ASSUME NEW p \in Procs, FirstTick(p) PROVE Reaches'
  <2>1. pc[p] = "starting" /\ pc' = [pc EXCEPT ![p] = "ticking"]
    BY <1>4 DEF FirstTick, Goes
  <2>2. at' = [at EXCEPT ![p] = now] /\ UNCHANGED <<now, lock, until>>
    BY <1>4 DEF FirstTick, ReadsClock
  <2>3. now + MaxTick < lock.expires
    BY <2>1, <1>t DEF Reaches
  <2> QED BY <2>1, <2>2, <2>3, <1>t, ReachOfAnother DEF Reaches, TypeOK
<1>5. ASSUME NEW p \in Procs, EndTick(p) PROVE Reaches'
  <2>1. pc[p] = "ticking" /\ pc' = [pc EXCEPT ![p] = "asleep"] /\ UNCHANGED <<now, at>>
    BY <1>5 DEF EndTick, Goes
  <2>2. PICK boundary \in at[p] + 1 .. at[p] + Period :
           /\ refresh(p, boundary)
           /\ until' = [until EXCEPT ![p] = now + (boundary - at[p]) + Lag]
    BY <1>5 DEF EndTick
  <2>3. lock'.expires = boundary + Grace
    BY <2>2 DEF refresh
  <2>4. until'[p] = now + (boundary - at[p]) + Lag
    BY <2>2 DEF TypeOK
  <2>5. now <= at[p] + MaxTick
    BY <2>1 DEF Reaches
  <2>6. boundary \in Nat /\ boundary > at[p]
    BY <1>t
  <2>7. now <= until'[p] /\ until'[p] + MaxTick < lock'.expires
    BY <2>3, <2>4, <2>5, <2>6, <1>t
  <2>8. \A q \in Procs : q # p => pc[q] \notin Holding
    BY <1>l, <2>1 DEF Holding
  <2> QED BY <2>1, <2>2, <2>7, <2>8, <1>t, ReachOfAnother DEF Reaches, TypeOK
<1>6. ASSUME NEW p \in Procs, LastTick(p) \/ SwitchedOff(p) \/ Interrupted(p) PROVE Reaches'
  <2>1. pc[p] \in {"starting", "ticking", "asleep"} /\ pc' = [pc EXCEPT ![p] = "releasing"]
    BY <1>6 DEF LastTick, SwitchedOff, Interrupted, Goes
  <2>2. UNCHANGED <<now, lock, at, until>>
    BY <1>6 DEF LastTick, SwitchedOff, Interrupted
  <2>3. now < lock.expires
    BY <2>1, <1>t, <1>l DEF Reaches, Holding
  <2> QED BY <2>1, <2>2, <2>3, ReachOfAnother DEF Reaches, TypeOK
<1>7. ASSUME NEW p \in Procs, Wake(p) PROVE Reaches'
  <2>1. pc[p] = "asleep" /\ now >= until[p] /\ pc' = [pc EXCEPT ![p] = "ticking"]
    BY <1>7 DEF Wake, Goes
  <2>2. at' = [at EXCEPT ![p] = now] /\ until' = [until EXCEPT ![p] = 0]
        /\ UNCHANGED <<now, lock>>
    BY <1>7 DEF Wake, ReadsClock
  <2>3. now + MaxTick < lock.expires
    BY <2>1, <1>t, <1>l DEF Reaches, Holding
  <2> QED BY <2>1, <2>2, <2>3, <1>t, ReachOfAnother DEF Reaches, TypeOK
<1>8. ASSUME NEW p \in Procs, Release(p) PROVE Reaches'
  <2>1. PICK phase \in {"gone", "unlinking"} : Ends(p, phase)
    BY <1>8 DEF Release
  <2>2. pc[p] = "releasing" /\ UNCHANGED <<now, lock>>
    BY <1>8 DEF Release
  <2>3. now < lock.expires
    BY <2>2 DEF Reaches
  <2> QED BY <2>1, <2>2, <2>3, ReachOfAnother DEF Ends, Goes, Reaches, TypeOK
<1>9. ASSUME NEW p \in Procs, Unlink(p) PROVE Reaches'
  <2>1. pc[p] = "unlinking" /\ Ends(p, "gone") /\ now' = now
    BY <1>9 DEF Unlink
  <2>2. \A q \in Procs : q # p => pc[q] \notin Holding
    BY <1>l, <2>1 DEF Holding
  <2> QED BY <2>1, <2>2, ReachOfAnother DEF Ends, Goes, Reaches, TypeOK
<1>10. ASSUME NEW p \in Procs, Crash(p) PROVE Reaches'
  <2>1. PICK phase \in {"zombie", "gone"} : Ends(p, phase)
    BY <1>10 DEF Crash
  <2>2. UNCHANGED <<now, lock>>
    BY <1>10 DEF Crash
  <2> QED BY <2>1, <2>2, ReachOfAnother DEF Ends, Goes, Reaches, TypeOK
<1>11. ASSUME NEW p \in Procs, Refused(p) PROVE Reaches'
    BY <1>11, ReachOfAnother DEF Refused, Ends, Goes, Reaches, TypeOK
<1>12. ASSUME NEW p \in Procs, Reap(p) \/ Start(p) PROVE Reaches'
    BY <1>12, ReachOfAnother DEF Reap, Start, Goes, Reaches, TypeOK
<1>13. ASSUME (\E p \in Procs : Recycle(p) \/ ProgramEnds(p)) \/ FlipSwitch PROVE Reaches'
  <2>1. UNCHANGED <<now, lock, pc, at, until>>
    BY <1>13 DEF Recycle, ProgramEnds, FlipSwitch
  <2> QED BY <2>1 DEF Reaches
<1>14. CASE Advance
  <2>1. now' = now + 1 /\ UNCHANGED <<lock, pc, at, until>>
    BY <1>14 DEF Advance
  <2>2. \A q \in Procs : pc[q] \notin {"claiming", "unlinking"} /\ InTime(q)
    BY <1>14 DEF Advance
  <2>3. ASSUME NEW q \in Procs PROVE
            /\ pc[q] \notin {"claiming", "releasing", "unlinking"}
            /\ pc[q] \in {"starting", "ticking"} => now + 1 <= at[q] + MaxTick
            /\ pc[q] = "asleep" => now + 1 <= until[q]
    BY <2>2, <1>t DEF InTime
  <2> QED BY <2>1, <2>3 DEF Reaches
<1> QED
    BY <1>1, <1>2, <1>3, <1>4, <1>5, <1>6, <1>7, <1>8, <1>9, <1>10, <1>11,
       <1>12, <1>13, <1>14 DEF Next, ProcessStep

\* One process at a time moves.
LEMMA OneProcessMoves ==
    ASSUME [Next]_vars
    PROVE  pc' = pc \/ \E p \in Procs, phase \in Phases : pc' = [pc EXCEPT ![p] = phase]
<1>1. CASE UNCHANGED vars \/ FlipSwitch \/ Advance
    BY <1>1 DEF vars, FlipSwitch, Advance
<1>2. ASSUME NEW p \in Procs, Recycle(p) \/ ProgramEnds(p) PROVE pc' = pc
    BY <1>2 DEF Recycle, ProgramEnds
<1>3. ASSUME NEW p \in Procs, ProcessStep(p) \/ Start(p) \/ Interrupted(p) \/ Crash(p) \/ Reap(p)
      PROVE  \E phase \in Phases : Goes(p, phase)
  <2>1. ASSUME Look(p) \/ Claim(p) \/ EndTick(p) \/ FirstTick(p)
        PROVE  \E phase \in Phases : Goes(p, phase)
      BY <2>1 DEF Look, Claim, EndTick, FirstTick, Phases
  <2>2. ASSUME LastTick(p) \/ SwitchedOff(p) \/ Interrupted(p) \/ Wake(p) \/ Reap(p) \/ Start(p)
        PROVE  \E phase \in Phases : Goes(p, phase)
      BY <2>2 DEF LastTick, SwitchedOff, Interrupted, Wake, Reap, Start, Phases
  <2>3. ASSUME Refused(p) \/ Release(p) \/ Unlink(p) \/ Crash(p)
        PROVE  \E phase \in Phases : Goes(p, phase)
      BY <2>3 DEF Refused, Release, Unlink, Crash, Ends, Phases
  <2> QED BY <1>3, <2>1, <2>2, <2>3 DEF ProcessStep
<1> QED BY <1>1, <1>2, <1>3 DEF Next, Goes

LEMMA InitHolds == Init => TypeOK /\ Held /\ Sole /\ Reaches
    BY LeaseAssumption DEF Init, TypeOK, Phases, Held, Sole, Reaches, Holding

\* The claim of a process that holds the loop has not expired.
LEMMA UnexpiredWhileHeld ==
    ASSUME LeaseInv, NEW q \in Procs, pc[q] \in Holding
    PROVE  ~is_expired(lock)
<1> USE LeaseAssumption, GraceOutlastsTwoTicks
<1>1. at[q] \in Nat /\ until[q] \in Nat /\ now \in Nat
    BY DEF LeaseInv, TypeOK
<1>2. lock.expires \in Nat
    BY DEF LeaseInv, Held, TypeOK, Record
<1>3. now < lock.expires
    BY <1>1, <1>2 DEF LeaseInv, Reaches, Holding
<1> QED BY <1>1, <1>2, <1>3 DEF is_expired

(***************************************************************************)
(* The theorems.                                                           *)
(***************************************************************************)

LEMMA LeaseInvHolds ==
    ASSUME Timely, ~Overlap
    PROVE  Spec => []LeaseInv
<1>1. Init => LeaseInv
    BY InitHolds DEF LeaseInv
<1>2. LeaseInv /\ [Next]_vars => LeaseInv'
  <2> SUFFICES ASSUME LeaseInv, [Next]_vars PROVE LeaseInv'
      OBVIOUS
  <2>1. TypeOK /\ Held /\ Sole /\ Reaches
      BY DEF LeaseInv
  <2>2. TypeOK'
      BY <2>1, TypingStep
  <2>3. Held' /\ Sole'
      BY <2>1, UnexpiredWhileHeld, HoldingStep
  <2>4. Reaches'
      BY <2>1, ReachesStep
  <2> QED BY <2>2, <2>3, <2>4 DEF LeaseInv
<1> QED BY <1>1, <1>2, PTL DEF Spec

\* On any number of hosts: the claim of a loop that ticks in time, and whose
\* start nobody else's overlapped, is its own and unexpired for as long as it
\* runs (lease.refresh, loop_state.holder).
THEOREM HealthyLoopKeepsItsClaim ==
    ASSUME Timely, ~Overlap
    PROVE  Spec => []ClaimStands
<1>1. Spec => []LeaseInv
    BY LeaseInvHolds
<1>2. LeaseInv => ClaimStands
    BY UnexpiredWhileHeld DEF LeaseInv, Held, Holding, ClaimStands, Trading
<1> QED BY <1>1, <1>2, PTL

\* ... nobody's claim is removed by anyone else (lease.release) ...
THEOREM ReleaseIsTheHoldersOwn ==
    ASSUME Timely, ~Overlap
    PROVE  Spec => ReleaseOnlyOwn
<1>1. Spec => []LeaseInv
    BY LeaseInvHolds
<1>2. LeaseInv /\ [Next]_vars => [lock # None /\ lock' = None => pc[lock.by] = "unlinking"]_vars
  <2> SUFFICES ASSUME LeaseInv, Next, lock # None, lock' = None
               PROVE  pc[lock.by] = "unlinking"
      BY DEF vars
  <2> USE LeaseAssumption
  <2>1. PICK p \in Procs : Claim(p) \/ EndTick(p) \/ Unlink(p)
      BY DEF Next, ProcessStep, Look, Refused, FirstTick, LastTick, SwitchedOff, Interrupted,
             Wake, Release, Start, Crash, Reap, Recycle, ProgramEnds, FlipSwitch, Advance
  <2>2. ASSUME Claim(p) PROVE FALSE
    <3>1. lock' = [by |-> p, wake |-> 0, expires |-> at[p] + Grace]
        BY <2>2 DEF Claim
    <3>2. lock' \in Record
        BY <3>1 DEF Record, LeaseInv, TypeOK
    <3> QED BY <3>2 DEF Record
  <2>3. ASSUME EndTick(p) PROVE FALSE
    <3>1. PICK boundary \in at[p] + 1 .. at[p] + Period : refresh(p, boundary)
        BY <2>3 DEF EndTick
    <3>2. lock' = [by |-> p, wake |-> boundary, expires |-> boundary + Grace]
        BY <3>1 DEF refresh
    <3>3. lock' \in Record
        BY <3>2 DEF Record, LeaseInv, TypeOK
    <3> QED BY <3>3 DEF Record
  <2>4. pc[p] = "unlinking" /\ lock.by = p
      BY <2>1, <2>2, <2>3 DEF Unlink, LeaseInv, Held, Holding
  <2> QED BY <2>4
<1> QED BY <1>1, <1>2, PTL DEF Spec, ReleaseOnlyOwn

\* ... and the lease implements one loop at a time: every step of the processes
\* begins a loop where there is none, ends the only one, or leaves it alone.
THEOREM LeaseImplementsOneLoop ==
    ASSUME Timely, ~Overlap
    PROVE  Spec => OneLoopAtATime
<1>1. Spec => []LeaseInv
    BY LeaseInvHolds
<1>2. Init => One!Init
    BY DEF Init, One!Init, Trading
<1>3. LeaseInv /\ LeaseInv' /\ [Next]_vars => [One!Next]_Trading
  <2> SUFFICES ASSUME LeaseInv, LeaseInv', [Next]_vars, Trading' # Trading
               PROVE  One!Next
      OBVIOUS
  <2>1. ASSUME NEW p \in Procs, NEW q \in Procs, pc'[q] # pc[q], pc'[p] # pc[p] PROVE p = q
      BY <2>1, OneProcessMoves DEF LeaseInv, TypeOK
  <2>2. \A p \in Trading : Trading = {p}
      BY DEF LeaseInv, Held, Holding, Trading
  <2>3. \A p \in Trading' : Trading' = {p}
      BY DEF LeaseInv, Held, Holding, Trading
  <2>4. CASE Trading = {}
    <3>1. PICK p \in Procs : p \in Trading'
        BY <2>4 DEF Trading
    <3> QED BY <2>3, <2>4, <3>1 DEF One!Next, One!Begin
  <2>5. CASE Trading # {}
    <3>1. PICK p \in Procs : p \in Trading
        BY <2>5 DEF Trading
    <3>2. Trading = {p}
        BY <2>2, <3>1
    <3>3. Trading' = {}
      <4> SUFFICES ASSUME NEW q \in Procs, q \in Trading' PROVE FALSE
          BY DEF Trading
      <4>1. Trading' = {q}
          BY <2>3
      <4>2. q # p
          BY <3>2, <4>1
      <4>3. pc'[p] # pc[p] /\ pc'[q] # pc[q]
          BY <3>2, <4>1, <4>2 DEF Trading
      <4> QED BY <2>1, <4>2, <4>3
    <3> QED BY <3>1, <3>2, <3>3 DEF One!Next, One!End
  <2> QED BY <2>4, <2>5
<1> QED BY <1>1, <1>2, <1>3, PTL DEF Spec, One!Spec, OneLoopAtATime

\* On one machine no clock is needed: a loop that runs keeps its claim however
\* late it is, because its pid answers for it (loop_state.holder).
THEOREM OnOneMachineThePidHolds ==
    ASSUME OneMachine, ~Overlap
    PROVE  Spec => []RunningLoopHolds
<1>1. Init => HostInv
    BY InitHolds DEF HostInv
<1>2. HostInv /\ [Next]_vars => HostInv'
  <2> SUFFICES ASSUME HostInv, [Next]_vars PROVE HostInv'
      OBVIOUS
  <2>1. TypeOK'
      BY TypingStep DEF HostInv
  <2>2. Held' /\ Sole'
      BY HoldingStep DEF HostInv, OneMachine
  <2> QED BY <2>1, <2>2 DEF HostInv
<1>3. HostInv => RunningLoopHolds
    BY DEF HostInv, Held, Holding, RunningLoopHolds, Trading
<1> QED BY <1>1, <1>2, <1>3, PTL DEF Spec

-----------------------------------------------------------------------------

\* A read of the loop's state changes nothing, or waits for a corpse.
LEMMA ReadingIsReaping ==
    ASSUME TypeOK, Reaps, LeaseUntouched
    PROVE  [Next]_vars
<1>1. CASE Corpse
  <2>1. lock.by \in Procs
    BY <1>1, LeaseAssumption DEF Corpse, TypeOK, Record
  <2>2. Reap(lock.by)
    BY <1>1 DEF Corpse, Reaps, LeaseUntouched, Reap
  <2> QED BY <2>1, <2>2 DEF Next
<1>2. CASE ~Corpse
    BY <1>2 DEF Reaps, LeaseUntouched, vars
<1> QED BY <1>1, <1>2

\* A write of the switch flips it, or leaves it as it was.
LEMMA SwitchingIsFlipping ==
    ASSUME TypeOK, NEW value \in BOOLEAN, SwitchTo(value)
    PROVE  [Next]_vars
<1>1. CASE on = value
    BY <1>1 DEF SwitchTo, vars
<1>2. CASE on # value
  <2>1. FlipSwitch
    BY <1>2 DEF SwitchTo, FlipSwitch, TypeOK
  <2> QED BY <2>1 DEF Next
<1> QED BY <1>1, <1>2

\* Every step of the control is a step of the lease, or leaves it alone.
LEMMA ControlStepIsLeaseStep ==
    ASSUME TypeOK, [ControlNext]_all
    PROVE  [Next]_vars
<1>1. CASE UNCHANGED all
    BY <1>1 DEF all, vars
<1>2. ASSUME NEW t \in Requests, Operator(t) PROVE [Next]_vars
  <2>1. ASSUME AskOn(t) PROVE [Next]_vars
    BY <2>1 DEF AskOn
  <2>2. ASSUME TurnOff(t) \/ StopFirst(t) PROVE [Next]_vars
    BY <2>2, SwitchingIsFlipping DEF TurnOff, StopFirst
  <2> QED BY <1>2, <2>1, <2>2 DEF Operator
<1>3. CASE Poll(Page)
    BY <1>3, ReadingIsReaping DEF Poll
<1>4. ASSUME NEW t \in Threads, Served(t) PROVE [Next]_vars
  <2>1. ASSUME Blocked(t) \/ Flatten(t) \/ PollGoesOn(t) \/ SpawnFails(t) PROVE [Next]_vars
    BY <2>1 DEF Blocked, Flatten, PollGoesOn, SpawnFails
  <2>2. ASSUME TurnOn(t) PROVE [Next]_vars
    BY <2>2, SwitchingIsFlipping DEF TurnOn
  <2>3. ASSUME AskLoop(t) PROVE [Next]_vars
    BY <2>3, ReadingIsReaping DEF AskLoop
  <2>4. ASSUME Spawn(t) PROVE [Next]_vars
    BY <2>4 DEF Spawn, Next
  <2> QED BY <1>4, <2>1, <2>2, <2>3, <2>4 DEF Served
<1>5. CASE ThrottleOver
    BY <1>5 DEF ThrottleOver
<1>6. ASSUME NEW p \in Procs, LoopStep(p) \/ Kill(p) PROVE [Next]_vars
    BY <1>6 DEF LoopStep, Kill, Next
<1>7. CASE Around
    BY <1>7 DEF Around, Next
<1> QED BY <1>1, <1>2, <1>3, <1>4, <1>5, <1>6, <1>7 DEF ControlNext

\* What ControlTypeOK adds to the lease's.
Rest ==
    /\ job \in [Threads -> Jobs] /\ born \in SUBSET Procs
    /\ throttled \in BOOLEAN /\ held \in BOOLEAN
    /\ failures \in 0 .. MaxFailures

LEMMA ControlTyping ==
    ASSUME ControlTypeOK, [ControlNext]_all
    PROVE  ControlTypeOK'
<1> USE ControlAssumption
<1>0. TypeOK'
    BY ControlStepIsLeaseStep, TypingStep DEF ControlTypeOK
<1> SUFFICES Rest'
    BY <1>0 DEF ControlTypeOK, Rest
<1>i. Rest
    BY DEF ControlTypeOK, Rest
<1>h. held \in BOOLEAN
    BY DEF ControlTypeOK
<1>b. on \in BOOLEAN
    BY DEF ControlTypeOK, TypeOK
<1>1. CASE UNCHANGED control
    BY <1>1, <1>i DEF Rest, control
<1>2. ASSUME NEW t \in Threads, Operator(t) PROVE Rest'
    BY <1>2, <1>i DEF Rest, Operator, AskOn, TurnOff, StopFirst, JobIs, Jobs, control
<1>3. ASSUME NEW t \in Threads, Poll(t) \/ AskLoop(t) PROVE Rest'
    BY <1>3, <1>i DEF Rest, Poll, AskLoop, JobIs, Jobs
<1>4. ASSUME NEW t \in Threads, Blocked(t) \/ TurnOn(t) PROVE Rest'
    BY <1>4, <1>i DEF Rest, Blocked, TurnOn, JobIs, Jobs
<1>5. ASSUME NEW t \in Threads, Flatten(t) PROVE Rest'
  <2>1. held' \in BOOLEAN
    BY <1>5, <1>b, <1>h, Zenon DEF Flatten
  <2> QED BY <1>5, <2>1, <1>i DEF Rest, Flatten, JobIs, Jobs
<1>6. ASSUME NEW t \in Threads, PollGoesOn(t) PROVE Rest'
    BY <1>6, <1>i DEF Rest, PollGoesOn, JobIs, Jobs
<1>7. ASSUME NEW t \in Threads, Spawn(t) \/ SpawnFails(t) PROVE Rest'
    BY <1>7, <1>i DEF Rest, Spawn, SpawnFails, JobIs, Jobs
<1>8. CASE ThrottleOver
    BY <1>8, <1>i DEF Rest, ThrottleOver
<1>9. ASSUME NEW p \in Procs, Kill(p) PROVE Rest'
  <2>1. failures' = failures + 1 /\ failures < MaxFailures
    BY <1>9 DEF Kill
  <2>2. UNCHANGED <<job, born, throttled, held>>
    BY <1>9 DEF Kill
  <2> QED BY <2>1, <2>2, <1>i DEF Rest
<1> QED
  <2>1. CASE UNCHANGED all \/ Around \/ \E p \in Procs : LoopStep(p)
    <3>1. UNCHANGED control
      BY <2>1 DEF all, Around, LoopStep
    <3> QED BY <3>1, <1>1
  <2>2. ASSUME NEW t \in Threads, Served(t) PROVE Rest'
    BY <2>2, <1>3, <1>4, <1>5, <1>6, <1>7 DEF Served
  <2> QED BY <2>1, <2>2, <1>2, <1>3, <1>8, <1>9 DEF ControlNext, Threads

\* The control keeps its variables typed, and loop.lock with them.
THEOREM ControlTypeCorrect == ControlSpec => []ControlTypeOK
<1>1. ControlInit => ControlTypeOK
  <2> SUFFICES ASSUME ControlInit PROVE ControlTypeOK
    OBVIOUS
  <2>1. TypeOK
    BY InitHolds DEF ControlInit
  <2>2. Rest
    <3>1. job \in [Threads -> Jobs]
      BY DEF ControlInit, Jobs
    <3>2. failures \in 0 .. MaxFailures
      BY ControlAssumption DEF ControlInit
    <3>3. born = {} /\ throttled = FALSE /\ held = TRUE
      BY DEF ControlInit
    <3> QED BY <3>1, <3>2, <3>3 DEF Rest
  <2> QED BY <2>1, <2>2 DEF ControlTypeOK, Rest
<1> QED BY <1>1, ControlTyping, PTL DEF ControlSpec

\* Arming, stopping, polling and the processes they start follow the lease.
THEOREM ControlImplementsLease == ControlSpec => FollowsLease
<1>1. ControlInit => Init
    BY DEF ControlInit
<1>2. ControlTypeOK /\ [ControlNext]_all => [Next]_vars
    BY ControlStepIsLeaseStep DEF ControlTypeOK
<1> QED BY <1>1, <1>2, ControlTypeCorrect, PTL DEF ControlSpec, Spec, FollowsLease

\* However late a loop is and whatever the dashboard starts next to it, it
\* keeps the claim until it gives it up (ensure_running leaves it alone).
THEOREM DashboardRespectsTheHolder ==
    ASSUME ~Overlap
    PROVE  ControlSpec => []RunningLoopHolds
<1>1. OneMachine
    BY ControlAssumption DEF OneMachine
<1> QED BY <1>1, ControlImplementsLease, OnOneMachineThePidHolds, PTL DEF FollowsLease

=============================================================================
