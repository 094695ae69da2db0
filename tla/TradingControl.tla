----------------------------- MODULE TradingControl -----------------------------
(***************************************************************************)
(* The switch and the loop it owns: arming starts the loop, the loop reads *)
(* the switch and stops itself, and an open page puts a crashed loop back  *)
(* (src/web/services/trading_service.py, loop_control.py, loop_service.py).*)
(*                                                                         *)
(* The dashboard serves its requests in threads, on the machine its loops  *)
(* run on.  Nothing is locked between them: each step below is one read or *)
(* write of the switch, the lease or the account.                          *)
(***************************************************************************)
EXTENDS LoopLease

CONSTANTS
    Requests,      \* requests of the operator that may be in flight at once
    Page,          \* the request of the page that polls
    MaxFailures    \* processes die, and fail to start, at most this often

ASSUME ControlAssumption ==
    /\ \A p, q \in Procs : HostOf[p] = HostOf[q]
    /\ Procs # {}
    /\ Page \notin Requests
    /\ MaxFailures \in Nat

Threads == Requests \union {Page}
Home    == HostOf[CHOOSE p \in Procs : TRUE]

VARIABLES
    job,          \* what each request is about to do
    born,         \* the processes the dashboard has started
    throttled,    \* has a poll tried to start a loop in the last interval?
    held,         \* does the account hold a position?
    failures

control == <<job, born, throttled, held, failures>>
all     == <<vars, control>>

Jobs == {"idle", "arming", "armed", "polled", "spawning", "flattening"}

ControlTypeOK ==
    /\ TypeOK
    /\ job \in [Threads -> Jobs]
    /\ born \in SUBSET Procs
    /\ throttled \in BOOLEAN /\ held \in BOOLEAN
    /\ failures \in 0 .. MaxFailures

\* The worst case for flattening: an earlier run has left a position.
ControlInit ==
    /\ Init
    /\ on = FALSE
    /\ job = [t \in Threads |-> "idle"]
    /\ born = {} /\ throttled = FALSE /\ held = TRUE /\ failures = 0

(***************************************************************************)
(* Reading the loop's state (loop_service.status).                         *)
(***************************************************************************)

\* Defect: nobody waits for a child, and a corpse counts as alive.
NoCorpse == FALSE

\* A child that died and was not waited for: asking about its pid reaps it.
Corpse == lock # None /\ pc[lock.by] = "zombie"

LoopState ==
    IF lock = None THEN "stopped"
    ELSE IF Corpse \/ ~Honoured(Home) THEN "overdue"
    ELSE IF Stalled THEN "stalled" ELSE "running"

Reaps == IF Corpse THEN Goes(lock.by, "gone") ELSE pc' = pc

JobIs(t, j) == job' = [job EXCEPT ![t] = j]

SwitchTo(value) == on' = value /\ UNCHANGED <<now, lock, pc, at, until, recycled>>
LeaseUntouched  == UNCHANGED <<now, on, lock, at, until, recycled>>

(***************************************************************************)
(* Arming, stopping, flattening, polling.                                  *)
(***************************************************************************)

\* The gates before the switch is written: exposure, credentials, confirmation.
AskOn(t) ==
    /\ job[t] = "idle" /\ JobIs(t, "arming")
    /\ UNCHANGED <<vars, born, throttled, held, failures>>

Blocked(t) ==
    /\ job[t] = "arming" /\ JobIs(t, "idle")
    /\ UNCHANGED <<vars, born, throttled, held, failures>>

TurnOn(t) ==
    /\ job[t] = "arming" /\ JobIs(t, "armed")
    /\ SwitchTo(TRUE)
    /\ UNCHANGED <<born, throttled, held, failures>>

\* Defect: turning trading off gives up the loop's claim for it.
TurnOffAndRelease(t) ==
    /\ job[t] = "idle"
    /\ on' = FALSE /\ lock' = None
    /\ UNCHANGED <<now, pc, at, until, recycled, control>>

TurnOff(t) ==
    /\ job[t] = "idle"
    /\ SwitchTo(FALSE)
    /\ UNCHANGED control

\* Stop and flatten: the switch first, then the position...
StopFirst(t) ==
    /\ job[t] = "idle" /\ JobIs(t, "flattening")
    /\ SwitchTo(FALSE)
    /\ UNCHANGED <<born, throttled, held, failures>>

\* ... through an executor whose guard reads the switch.
Flatten(t) ==
    /\ job[t] = "flattening" /\ JobIs(t, "idle")
    /\ held' = (held /\ ~on)
    /\ UNCHANGED <<vars, born, throttled, failures>>

\* ensure_running: a poll that finds no loop wants one started...
Poll(t) ==
    /\ job[t] = "idle"
    /\ JobIs(t, IF LoopState \in {"stopped", "overdue"} THEN "polled" ELSE "idle")
    /\ Reaps /\ LeaseUntouched
    /\ UNCHANGED <<born, throttled, held, failures>>

\* ... unless trading is off or another poll tried a moment ago.
PollGoesOn(t) ==
    /\ job[t] = "polled"
    /\ IF on /\ ~throttled THEN JobIs(t, "armed") /\ throttled' = TRUE
                           ELSE JobIs(t, "idle") /\ UNCHANGED throttled
    /\ UNCHANGED <<vars, born, held, failures>>

ThrottleOver ==
    /\ throttled /\ throttled' = FALSE
    /\ UNCHANGED <<vars, job, born, held, failures>>

\* loop_control.start: nothing to do if a healthy loop is there...
AskLoop(t) ==
    /\ job[t] = "armed"
    /\ JobIs(t, IF LoopState = "running" THEN "idle" ELSE "spawning")
    /\ Reaps /\ LeaseUntouched
    /\ UNCHANGED <<born, throttled, held, failures>>

\* ... and otherwise a new process, which claims the lease itself.
Spawn(t) ==
    /\ job[t] = "spawning" /\ JobIs(t, "idle")
    /\ \E p \in Procs :
         /\ born' = born \union {p}
         /\ IF p \in born THEN Start(p) ELSE UNCHANGED vars
    /\ UNCHANGED <<throttled, held, failures>>

SpawnFails(t) ==
    /\ job[t] = "spawning" /\ JobIs(t, "idle")
    /\ failures < MaxFailures /\ failures' = failures + 1
    /\ UNCHANGED <<vars, born, throttled, held>>

(***************************************************************************)
(* The processes it started.                                               *)
(***************************************************************************)

LoopStep(p) ==
    /\ p \in born
    /\ ProcessStep(p)
    /\ UNCHANGED control

Kill(p) ==
    /\ p \in born /\ failures < MaxFailures
    /\ Crash(p)
    /\ failures' = failures + 1
    /\ UNCHANGED <<job, born, throttled, held>>

Around ==
    /\ \/ Advance
       \/ \E p \in Procs : Interrupted(p) \/ Reap(p)
    /\ UNCHANGED control

Operator(t) == AskOn(t) \/ TurnOff(t) \/ StopFirst(t)
Served(t)   ==
    \/ Blocked(t) \/ TurnOn(t) \/ Flatten(t) \/ PollGoesOn(t)
    \/ AskLoop(t) \/ Spawn(t) \/ SpawnFails(t)

ControlNext ==
    \/ \E t \in Requests : Operator(t)
    \/ Poll(Page)
    \/ \E t \in Threads : Served(t)
    \/ ThrottleOver
    \/ \E p \in Procs : LoopStep(p) \/ Kill(p)
    \/ Around

\* Requests are answered and the page goes on polling; a loop goes on, and
\* notices the switch.  Nothing makes time pass.
Fairness ==
    /\ \A t \in Threads : WF_all(Served(t))
    /\ WF_all(Poll(Page))
    /\ WF_all(ThrottleOver)
    /\ \A p \in Procs : WF_all(LoopStep(p))

ControlSpec == ControlInit /\ [][ControlNext]_all /\ Fairness

=============================================================================
