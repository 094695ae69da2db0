------------------------------- MODULE LoopLease -------------------------------
(***************************************************************************)
(* The lease on the trading loop: claiming it (src/scheduler/lease.py),    *)
(* judging its holder (src/config/loop_state.py), and the life of the      *)
(* process that holds it (src/scheduler/host.py, orchestrator.run).        *)
(*                                                                         *)
(* loop.lock is read, then written, in two steps; releasing it reads and   *)
(* unlinks it in two steps.  Time advances in units far longer than either *)
(* window, so no time passes inside one, but other processes run.          *)
(***************************************************************************)
EXTENDS Integers, FiniteSets

CONSTANTS
    Procs,        \* the processes that may be started to run the loop
    HostOf,       \* the machine or container each of them runs in
    PidOf,        \* its process id there
    Grace,        \* LEASE_GRACE_SECONDS
    Lag,          \* PROVIDER_LAG_SECONDS
    Period,       \* the next bar boundary is at most this far
    MaxTick,      \* how long a tick of a healthy loop takes
    MaxNow,       \* the clock stops here
    Timely,       \* is every loop healthy?
    Overlap,      \* may a process start while another one is claiming?
    Recycling,    \* may a dead process's id be given to another program?
    None

ASSUME LeaseAssumption ==
    /\ \A p, q \in Procs : HostOf[p] = HostOf[q] /\ PidOf[p] = PidOf[q] => p = q
    /\ Grace \in Nat /\ Lag \in Nat /\ Period \in Nat \ {0} /\ MaxNow \in Nat
    /\ MaxTick \in Nat
    /\ Timely \in BOOLEAN /\ Overlap \in BOOLEAN /\ Recycling \in BOOLEAN
    /\ None \notin [by : Procs, wake : Nat, expires : Nat]

\* The grace has to outlast a tick before the sleep, its lag and a tick after.
ASSUME GraceOutlastsTwoTicks == 2 * MaxTick + Lag < Grace

VARIABLES
    now,        \* the clock
    on,         \* the trading switch
    lock,       \* loop.lock
    pc,         \* what each process is doing
    at,         \* the moment it last read the clock
    until,      \* when its sleep ends
    recycled    \* dead processes whose id another program has

vars == <<now, on, lock, pc, at, until, recycled>>

Phases == {"new", "claiming", "starting", "ticking", "asleep", "releasing",
           "unlinking", "zombie", "gone"}

\* wake is 0 until the first tick has declared one.
Record == [by : Procs, wake : Nat, expires : Nat]

TypeOK ==
    /\ now \in Nat /\ on \in BOOLEAN
    /\ lock \in Record \union {None}
    /\ pc \in [Procs -> Phases]
    /\ at \in [Procs -> Nat] /\ until \in [Procs -> Nat]
    /\ recycled \in SUBSET Procs

Init ==
    /\ now = 0 /\ on \in BOOLEAN
    /\ lock = None
    /\ pc = [p \in Procs |-> "new"]
    /\ at = [p \in Procs |-> 0] /\ until = [p \in Procs |-> 0]
    /\ recycled = {}

(***************************************************************************)
(* Judging a holder.                                                       *)
(***************************************************************************)

\* Signal 0 reaches a process that runs, a corpse nobody has waited for, and
\* any other program that got its id.
Alive(p) == pc[p] \notin {"new", "gone"} \/ p \in recycled

is_expired(record) == now >= record.expires

\* Defects: the pid asked of the wrong machine, the clock outranking the pid.
HonouredByPid(host) ==
    lock # None /\ \E q \in Procs : HostOf[q] = host /\ PidOf[q] = PidOf[lock.by] /\ Alive(q)
HonouredByClock(host) == lock # None /\ ~is_expired(lock)

\* On the holder's own host the pid decides; anywhere else only the clock can.
Honoured(host) ==
    /\ lock # None
    /\ IF HostOf[lock.by] = host THEN Alive(lock.by) ELSE ~is_expired(lock)

\* A live holder past the wake it declared.
Stalled == lock # None /\ lock.wake # 0 /\ is_expired(lock)

(***************************************************************************)
(* One process, from its start to its end.                                 *)
(***************************************************************************)

Goes(p, phase) == pc' = [pc EXCEPT ![p] = phase]
ReadsClock(p)  == at' = [at EXCEPT ![p] = now]
\* A process that ends takes what it remembers with it.
Ends(p, phase) ==
    /\ Goes(p, phase)
    /\ at' = [at EXCEPT ![p] = 0]
    /\ until' = [until EXCEPT ![p] = 0]

\* acquire finds nobody honouring the lease...
Look(p) ==
    /\ pc[p] = "new"
    /\ Overlap \/ \A q \in Procs : pc[q] # "claiming"
    /\ ~Honoured(HostOf[p])
    /\ Goes(p, "claiming") /\ ReadsClock(p)
    /\ UNCHANGED <<now, on, lock, until, recycled>>

\* Defect: a refused start that gives up the lease on its way out.
RefusedAndReleased(p) ==
    /\ pc[p] = "new"
    /\ Overlap \/ \A q \in Procs : pc[q] # "claiming"
    /\ Honoured(HostOf[p])
    /\ Goes(p, "releasing")
    /\ UNCHANGED <<now, on, lock, at, until, recycled>>

\* ... or LeaseHeld, and the process exits.
Refused(p) ==
    /\ pc[p] = "new"
    /\ Overlap \/ \A q \in Procs : pc[q] # "claiming"
    /\ Honoured(HostOf[p])
    /\ Ends(p, "gone")
    /\ UNCHANGED <<now, on, lock, recycled>>

Claim(p) ==
    /\ pc[p] = "claiming"
    /\ lock' = [by |-> p, wake |-> 0, expires |-> at[p] + Grace]
    /\ Goes(p, "starting")
    /\ UNCHANGED <<now, on, at, until, recycled>>

\* The startup report is out: the first tick.
FirstTick(p) ==
    /\ pc[p] = "starting"
    /\ Goes(p, "ticking") /\ ReadsClock(p)
    /\ UNCHANGED <<now, on, lock, until, recycled>>

\* Defect: a claim that ends when the sleep does.
RefreshNoGrace(p, boundary) ==
    lock' = [by |-> p, wake |-> boundary, expires |-> boundary]

\* The boundary the loop commits to is worked out from the start of the tick,
\* and so is the length of the sleep, which only begins now.
refresh(p, boundary) ==
    lock' = [by |-> p, wake |-> boundary, expires |-> boundary + Grace]

EndTick(p) ==
    /\ pc[p] = "ticking" /\ on
    /\ \E boundary \in at[p] + 1 .. at[p] + Period :
         /\ refresh(p, boundary)
         /\ until' = [until EXCEPT ![p] = now + (boundary - at[p]) + Lag]
    /\ Goes(p, "asleep")
    /\ UNCHANGED <<now, on, at, recycled>>

\* The switch is off, a single tick was asked for, or no boundary was found.
LastTick(p) ==
    /\ pc[p] = "ticking"
    /\ Goes(p, "releasing")
    /\ UNCHANGED <<now, on, lock, at, until, recycled>>

\* Defect: the switch is read only when the sleep is over.
SwitchedOffLate(p) ==
    /\ pc[p] = "asleep" /\ ~on /\ now >= until[p]
    /\ Goes(p, "releasing")
    /\ UNCHANGED <<now, on, lock, at, until, recycled>>

SwitchedOff(p) ==
    /\ pc[p] = "asleep" /\ ~on
    /\ Goes(p, "releasing")
    /\ UNCHANGED <<now, on, lock, at, until, recycled>>

Wake(p) ==
    /\ pc[p] = "asleep" /\ now >= until[p]
    /\ Goes(p, "ticking") /\ ReadsClock(p)
    /\ until' = [until EXCEPT ![p] = 0]
    /\ UNCHANGED <<now, on, lock, recycled>>

\* release compares the pid in the record with its own, and nothing else.
Release(p) ==
    /\ pc[p] = "releasing"
    /\ Ends(p, IF lock # None /\ PidOf[lock.by] # PidOf[p] THEN "gone" ELSE "unlinking")
    /\ UNCHANGED <<now, on, lock, recycled>>

Unlink(p) ==
    /\ pc[p] = "unlinking"
    /\ lock' = None
    /\ Ends(p, "gone")
    /\ UNCHANGED <<now, on, recycled>>

ProcessStep(p) ==
    \/ Look(p) \/ Refused(p) \/ Claim(p)
    \/ FirstTick(p) \/ EndTick(p) \/ LastTick(p)
    \/ SwitchedOff(p) \/ Wake(p)
    \/ Release(p) \/ Unlink(p)

(***************************************************************************)
(* Everything around it.                                                   *)
(***************************************************************************)

\* Ctrl-C, or a report that raises: the claim is released on the way out.
Interrupted(p) ==
    /\ pc[p] \in {"starting", "ticking", "asleep"}
    /\ Goes(p, "releasing")
    /\ UNCHANGED <<now, on, lock, at, until, recycled>>

\* Killed: a corpse until its parent waits for it.
Crash(p) ==
    /\ pc[p] \in {"claiming", "starting", "ticking", "asleep", "releasing", "unlinking"}
    /\ \E phase \in {"zombie", "gone"} : Ends(p, phase)
    /\ UNCHANGED <<now, on, lock, recycled>>

\* A process is started under a name that no record and no program has;
\* starting one waits for the corpses of earlier ones (subprocess.Popen).
Start(p) ==
    /\ pc[p] \in {"zombie", "gone"} /\ p \notin recycled
    /\ lock # None => lock.by # p
    /\ Goes(p, "new")
    /\ UNCHANGED <<now, on, lock, at, until, recycled>>

\* The dashboard, its parent, judges the holder and so waits for the corpse.
Reap(p) ==
    /\ pc[p] = "zombie"
    /\ Goes(p, "gone")
    /\ UNCHANGED <<now, on, lock, at, until, recycled>>

Recycle(p) ==
    /\ Recycling /\ pc[p] = "gone" /\ p \notin recycled
    /\ recycled' = recycled \union {p}
    /\ UNCHANGED <<now, on, lock, pc, at, until>>

ProgramEnds(p) ==
    /\ p \in recycled
    /\ recycled' = recycled \ {p}
    /\ UNCHANGED <<now, on, lock, pc, at, until>>

FlipSwitch ==
    /\ on' = ~on
    /\ UNCHANGED <<now, lock, pc, at, until, recycled>>

\* A healthy loop wakes when it said it would and ends its tick in time.
InTime(p) ==
    /\ pc[p] \in {"starting", "ticking"} => now < at[p] + MaxTick
    /\ pc[p] = "asleep" => now < until[p]
    /\ pc[p] # "releasing"

Advance ==
    /\ now < MaxNow
    /\ \A p \in Procs : pc[p] \notin {"claiming", "unlinking"} /\ (Timely => InTime(p))
    /\ now' = now + 1
    /\ UNCHANGED <<on, lock, pc, at, until, recycled>>

Next ==
    \/ \E p \in Procs :
         \/ ProcessStep(p)
         \/ Start(p) \/ Interrupted(p) \/ Crash(p) \/ Reap(p)
         \/ Recycle(p) \/ ProgramEnds(p)
    \/ FlipSwitch
    \/ Advance

Spec == Init /\ [][Next]_vars

=============================================================================
