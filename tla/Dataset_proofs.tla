---------------------------- MODULE Dataset_proofs ----------------------------
(***************************************************************************)
(* Proofs, for any session, window, number of threads and late bars, that  *)
(* a hole which a sync was shown is filled, that a day without trading is  *)
(* asked about before it is taken for one, and, where the whole window is  *)
(* not downloaded during a session, that no decision is made on the price  *)
(* of a bar that was still forming.                                        *)
(*                                                                         *)
(* The file has no such price because nothing that is on its way to it     *)
(* does: a sync wants the bars that had closed when it began, a download   *)
(* gets none that is forming, and a merge adds to what was there.          *)
(***************************************************************************)
EXTENDS DatasetProps, WellFoundedInduction, TLAPS

(***************************************************************************)
(* Sets of naturals, and quotients.                                        *)
(***************************************************************************)

\* A nonempty set of naturals with an upper bound has a greatest element.
LEMMA GreatestElement ==
    ASSUME NEW n \in Nat, NEW S \in SUBSET (0..n), S # {}
    PROVE  \E i \in S : \A j \in S : j <= i
<1> DEFINE Less == OpToRel(<, Nat)
<1> DEFINE T == {n - i : i \in S}
<1> HIDE DEF Less
<1>1. T \subseteq Nat
  OBVIOUS
<1>2. T # {}
  OBVIOUS
<1>3. IsWellFoundedOn(Less, Nat)
  BY NatLessThanWellFounded DEF Less
<1>4. PICK x \in T : \A y \in T : ~ (<<y, x>> \in Less)
  <2> HIDE DEF T
  <2> QED BY <1>1, <1>2, <1>3, WFMin
<1>5. \A y \in T : y < x => <<y, x>> \in Less
  <2> HIDE DEF T
  <2> SUFFICES ASSUME NEW y \in T, y < x
               PROVE  <<y, x>> \in Less
    OBVIOUS
  <2> QED BY <1>1 DEF Less, OpToRel
<1>6. \A y \in T : x <= y
  <2> HIDE DEF T
  <2> SUFFICES ASSUME NEW y \in T
               PROVE  x <= y
    OBVIOUS
  <2>1. ~ (y < x)
    BY <1>4, <1>5
  <2> QED BY <2>1, <1>1
<1>7. PICK i \in S : x = n - i
  OBVIOUS
<1>8. \A j \in S : j <= i
  BY <1>6, <1>7
<1> QED BY <1>8

\* A nonempty set of naturals has a least element.
LEMMA LeastElement ==
    ASSUME NEW S \in SUBSET Nat, S # {}
    PROVE  \E i \in S : \A j \in S : i <= j
<1> DEFINE Less == OpToRel(<, Nat)
<1> HIDE DEF Less
<1>1. IsWellFoundedOn(Less, Nat)
  BY NatLessThanWellFounded DEF Less
<1>2. PICK x \in S : \A y \in S : ~ (<<y, x>> \in Less)
  BY <1>1, WFMin
<1>3. \A y \in S : y < x => <<y, x>> \in Less
  <2> SUFFICES ASSUME NEW y \in S, y < x
               PROVE  <<y, x>> \in Less
    OBVIOUS
  <2> QED BY DEF Less, OpToRel
<1>4. \A y \in S : ~ (y < x)
  BY <1>2, <1>3
<1>5. \A y \in S : x <= y
  BY <1>4
<1> QED BY <1>5

\* Of two products the one with the greater factor is a whole factor ahead.
LEMMA ProductSteps ==
    ASSUME NEW d \in Nat \ {0}, NEW p \in Int, NEW q \in Int, p + 1 <= q
    PROVE  d * p + d <= d * q
BY Z3

\* A greater number has no smaller quotient.
LEMMA QuotientGrows ==
    ASSUME NEW d \in Nat \ {0}, NEW a \in Nat, NEW b \in Nat, a <= b
    PROVE  a \div d \in Int /\ b \div d \in Int /\ a \div d <= b \div d
<1> DEFINE p == a \div d
<1> DEFINE q == b \div d
<1>1. p \in Int /\ q \in Int
  OBVIOUS
<1>2. a = d * p + (a % d) /\ a % d \in 0 .. d - 1
  OBVIOUS
<1>3. b = d * q + (b % d) /\ b % d \in 0 .. d - 1
  OBVIOUS
<1>4. ~ (q + 1 <= p)
  <2> SUFFICES ASSUME q + 1 <= p PROVE FALSE
    OBVIOUS
  <2>1. d * q + d <= d * p
    BY <1>1, ProductSteps
  <2>2. d * q \in Int /\ d * p \in Int
    BY <1>1
  <2> QED BY <1>2, <1>3, <2>1, <2>2
<1> QED BY <1>1, <1>4

(***************************************************************************)
(* What is on its way to the file.                                         *)
(***************************************************************************)

Final == [Bars -> {"none", "final"}]

Fields == {"op", "pc", "at", "have", "holes", "from", "new", "bad", "base"}

\* What a thread carries holds no price of a bar that was forming, and a sync
\* began after the first day and not later than now.
CleanTask(t) ==
    task[t] # None =>
        /\ DOMAIN task[t] = Fields
        /\ task[t].bad = {}
        /\ task[t].pc = "write" => task[t].base \in Final
        /\ task[t].pc = "fetch" => task[t].at \in Slots .. now

FinalInv ==
    /\ now \in Slots .. LastTime
    /\ file \in Final
    /\ csv # None => csv.bad = {}
    /\ DOMAIN task = Threads
    /\ \A t \in Threads : CleanTask(t)

(***************************************************************************)
(* The newest bar that has closed.                                         *)
(***************************************************************************)
LEMMA LastSlotIsABar == Slots \in Bars
<1>1. Slots \in Nat /\ Day \in Nat /\ Slots < Day /\ Slots > 0
  BY DatasetAssumption DEF Day
<1>2. Slots % Day = Slots
  BY <1>1
<1> QED
  BY <1>1, <1>2, DatasetAssumption DEF Bars, Time

\* It closed no later than it is looked for.
LEMMA ClosedBarIsPast ==
  ASSUME NEW t \in Slots .. LastTime
  PROVE  last_closed_bar(t) \in Bars /\ last_closed_bar(t) <= t
<1> DEFINE closed == {b \in Bars : b <= t}
<1>1. Slots \in closed /\ closed \in SUBSET (0 .. LastTime)
  BY LastSlotIsABar, DatasetAssumption DEF Bars, Time
<1>2. \E b \in closed : \A c \in closed : c <= b
  BY <1>1, GreatestElement, DatasetAssumption
<1>3. Newest(closed) \in closed
  BY <1>2 DEF Newest
<1> QED
  BY <1>3 DEF last_closed_bar

LEMMA WantedHasClosed ==
  ASSUME FinalInv, NEW t \in Threads, Is(t, "fetch"), NEW frame
  PROVE  Wanted(t, frame) \cap Forming = {}
<1>1. task[t].at \in Slots .. LastTime /\ task[t].at <= now /\ now \in Nat
  BY DatasetAssumption DEF FinalInv, CleanTask, Is
<1>2. last_closed_bar(task[t].at) <= now /\ last_closed_bar(task[t].at) \in Int
  BY <1>1, ClosedBarIsPast, DatasetAssumption DEF Bars, Time
<1>3. \A b \in Wanted(t, frame) : b <= last_closed_bar(task[t].at)
  BY DEF Wanted
<1>4. \A b \in Forming : b = now + 1
  BY DEF Forming
<1> QED
  BY <1>1, <1>2, <1>3, <1>4

(***************************************************************************)
(* Every step keeps what is carried, and the file, final.                  *)
(***************************************************************************)

\* A thread that goes on as one that is clean, or ends, with the file as it was.
LEMMA TaskMoves ==
  ASSUME FinalInv, UNCHANGED <<now, file>>, csv' # None => csv'.bad = {},
         NEW t \in Threads, NEW new, task' = [task EXCEPT ![t] = new],
         new # None => /\ DOMAIN new = Fields /\ new.bad = {}
                       /\ new.pc = "write" => new.base \in Final
                       /\ new.pc = "fetch" => new.at \in Slots .. now
  PROVE  FinalInv'
<1>1. \A u \in Threads : CleanTask(u)'
  <2> SUFFICES ASSUME NEW u \in Threads, task'[u] # None
               PROVE  /\ DOMAIN task'[u] = Fields /\ task'[u].bad = {}
                      /\ task'[u].pc = "write" => task'[u].base \in Final
                      /\ task'[u].pc = "fetch" => task'[u].at \in Slots .. now'
    BY DEF CleanTask
  <2>1. CASE u = t
    BY <2>1 DEF FinalInv
  <2>2. CASE u # t
    BY <2>2 DEF FinalInv, CleanTask
  <2> QED
    BY <2>1, <2>2
<1> QED
  BY <1>1 DEF FinalInv

\* What a thread has to do when it begins, and what changes as it goes on.
LEMMA DoingIsClean ==
  ASSUME NEW op, NEW pc
  PROVE  /\ DOMAIN Doing(op, pc) = Fields
         /\ Doing(op, pc).bad = {} /\ Doing(op, pc).pc = pc
         /\ op \in {"tick", "sync"} => Doing(op, pc).at = now
BY DEF Doing, Fields

LEMMA ExceptField ==
  ASSUME NEW r, DOMAIN r = Fields, NEW f \in Fields, NEW x
  PROVE  /\ DOMAIN [r EXCEPT ![f] = x] = Fields
         /\ [r EXCEPT ![f] = x][f] = x
         /\ \A g \in Fields : g # f => [r EXCEPT ![f] = x][g] = r[g]
OBVIOUS

LEMMA StepBegins ==
  ASSUME FinalInv, NEW t \in Threads, NEW op \in {"tick", "sync"}, BeginSync(t, op)
  PROVE  FinalInv'
<1> DEFINE r1(have)        == [Doing(op, "fetch") EXCEPT !.have = have]
<1> DEFINE r2(have, holes) == [r1(have) EXCEPT !.holes = holes]
<1> DEFINE r3(have, holes, from) == [r2(have, holes) EXCEPT !.from = from]
<1>1. UNCHANGED <<now, file, csv>>
  BY DEF BeginSync
<1>2. \/ task' = [task EXCEPT ![t] = Doing(op, "status")]
      \/ \E have, holes, from : task' = [task EXCEPT ![t] = r3(have, holes, from)]
  <2>1. CASE Stored(file) = {}
    BY <2>1 DEF BeginSync, Goes
  <2>2. CASE Stored(file) # {}
    <3>1. PICK frame \in provider_span(t, Stored(file)) :
             IF NeedsFetch(Stored(file), frame, last_closed_bar(now))
             THEN Goes(t, r3(Stored(file),
                             {b \in Fetchable(Stored(file), {frame}, last_closed_bar(now)) :
                                 Oldest(Stored(file)) <= b /\ b <= frame.at},
                             fetch_from(Stored(file), frame, last_closed_bar(now))))
             ELSE Goes(t, Doing(op, "status"))
      BY <2>2, Zenon DEF BeginSync
    <3> QED
      BY <3>1, Zenon DEF Goes
  <2> QED
    BY <2>1, <2>2
<1>3. now \in Slots .. now
  BY DatasetAssumption DEF FinalInv
<1>4. CASE task' = [task EXCEPT ![t] = Doing(op, "status")]
  <2>1. PICK new : /\ task' = [task EXCEPT ![t] = new] /\ DOMAIN new = Fields
                   /\ new.bad = {} /\ new.pc = "status"
    BY <1>4, DoingIsClean
  <2> QED
    BY <1>1, <2>1, TaskMoves DEF FinalInv
<1>5. ASSUME NEW have, NEW holes, NEW from, task' = [task EXCEPT ![t] = r3(have, holes, from)]
      PROVE  FinalInv'
  <2>1. DOMAIN r1(have) = Fields /\ r1(have).bad = {} /\ r1(have).pc = "fetch" /\ r1(have).at = now
    BY DoingIsClean, ExceptField DEF Fields
  <2> HIDE DEF r1
  <2>2. /\ DOMAIN r2(have, holes) = Fields /\ r2(have, holes).bad = {}
        /\ r2(have, holes).pc = "fetch" /\ r2(have, holes).at = now
    BY <2>1, ExceptField DEF Fields
  <2> HIDE DEF r2
  <2>3. /\ DOMAIN r3(have, holes, from) = Fields /\ r3(have, holes, from).bad = {}
        /\ r3(have, holes, from).pc = "fetch" /\ r3(have, holes, from).at = now
    BY <2>2, ExceptField DEF Fields
  <2> HIDE DEF r3
  <2> QED
    BY <1>1, <1>3, <1>5, <2>3, TaskMoves DEF FinalInv
<1> QED
  BY <1>2, <1>4, <1>5

LEMMA StepFetches ==
  ASSUME FinalInv, NEW t \in Threads, FetchNew(t)
  PROVE  FinalInv'
<1> DEFINE frame == Answer(task[t].from, LastDay)
<1> DEFINE r1(pc)           == [task[t] EXCEPT !.pc = pc]
<1> DEFINE r2(pc, new)      == [r1(pc) EXCEPT !.new = new]
<1> DEFINE r3(pc, new, bad) == [r2(pc, new) EXCEPT !.bad = bad]
<1>1. UNCHANGED <<now, file, csv>> /\ Is(t, "fetch") /\ task[t].bad = {} /\ DOMAIN task[t] = Fields
  BY DEF FetchNew, FinalInv, CleanTask, Is
<1>2. Wanted(t, frame) \cap Forming = {}
  BY <1>1, WantedHasClosed
<1>3. \/ task' = [task EXCEPT ![t] = r1("status")]
      \/ task' = [task EXCEPT ![t] = r3(IF Wanted(t, frame) = {} THEN "status" ELSE "merge",
                                        Wanted(t, frame) \ Forming, Wanted(t, frame) \cap Forming)]
  BY Zenon DEF FetchNew, Goes
<1>4. \A pc : DOMAIN r1(pc) = Fields /\ r1(pc).bad = {} /\ r1(pc).pc = pc
  BY <1>1, ExceptField DEF Fields
<1> HIDE DEF r1
<1>5. \A pc, new : DOMAIN r2(pc, new) = Fields /\ r2(pc, new).pc = pc
  BY <1>4, ExceptField DEF Fields
<1> HIDE DEF r2
<1>6. \A pc, new : /\ DOMAIN r3(pc, new, {}) = Fields
                   /\ r3(pc, new, {}).pc = pc /\ r3(pc, new, {}).bad = {}
  BY <1>5, ExceptField DEF Fields
<1> HIDE DEF r3, frame
<1>7. PICK new : /\ task' = [task EXCEPT ![t] = new] /\ DOMAIN new = Fields
                 /\ new.bad = {} /\ new.pc \in {"merge", "status"}
  BY <1>2, <1>3, <1>4, <1>6
<1> QED
  BY <1>1, <1>7, TaskMoves DEF FinalInv

LEMMA StepDownloads ==
  ASSUME ~MidSession, FinalInv, NEW t \in Threads, Download(t)
  PROVE  FinalInv'
<1> DEFINE r1(new)      == [Doing("download", "merge") EXCEPT !.new = new]
<1> DEFINE r2(new, bad) == [r1(new) EXCEPT !.bad = bad]
<1>1. UNCHANGED <<now, file>> /\ Forming = {}
  BY DEF Download
<1>2. csv' = fetch_historical /\ fetch_historical.bad = {}
  <2>1. CASE Cached
    BY <2>1 DEF fetch_historical, Cached, FinalInv, Download
  <2>2. CASE ~Cached
    BY <1>1, <2>2 DEF fetch_historical, Download
  <2> QED
    BY <2>1, <2>2
<1>3. task' = [task EXCEPT ![t] = r2(fetch_historical.new, fetch_historical.bad)]
  BY Zenon DEF Download, Goes
<1>4. \A new : DOMAIN r1(new) = Fields /\ r1(new).pc = "merge"
  BY DoingIsClean, ExceptField DEF Fields
<1> HIDE DEF r1
<1>5. \A new : DOMAIN r2(new, {}) = Fields /\ r2(new, {}).pc = "merge" /\ r2(new, {}).bad = {}
  BY <1>4, ExceptField DEF Fields
<1> HIDE DEF r2
<1>6. PICK new : /\ task' = [task EXCEPT ![t] = new] /\ DOMAIN new = Fields
                 /\ new.bad = {} /\ new.pc = "merge"
  BY <1>2, <1>3, <1>5
<1> QED
  BY <1>1, <1>2, <1>6, TaskMoves

\* Asked for again, a rebuild goes on as it was, and does not end.
LEMMA StepWedges ==
  ASSUME FinalInv, NEW t \in Threads, RebuildAgain(t)
  PROVE  FinalInv'
<1> DEFINE new == [task[t] EXCEPT !.op = "wedged"]
<1>1. /\ UNCHANGED <<now, file, csv>> /\ task' = [task EXCEPT ![t] = new] /\ task[t] # None
      /\ DOMAIN task[t] = Fields
  BY DEF RebuildAgain, Goes, FinalInv, CleanTask
<1>2. /\ DOMAIN new = Fields /\ new.bad = task[t].bad /\ new.pc = task[t].pc
      /\ new.base = task[t].base /\ new.at = task[t].at
  BY <1>1, ExceptField DEF Fields
<1> HIDE DEF new
<1> QED
  BY <1>1, <1>2, TaskMoves DEF FinalInv, CleanTask

LEMMA StepMerges ==
  ASSUME FinalInv, NEW t \in Threads, Merge(t)
  PROVE  FinalInv'
<1> DEFINE r1 == [task[t] EXCEPT !.pc = "write"]
<1> DEFINE r2 == [r1 EXCEPT !.base = file]
<1> DEFINE r3 == [r2 EXCEPT !.have = {}]
<1> DEFINE r4 == [r3 EXCEPT !.from = 0]
<1>1. /\ UNCHANGED <<now, file, csv>> /\ task' = [task EXCEPT ![t] = r4]
      /\ task[t].bad = {} /\ DOMAIN task[t] = Fields
  BY DEF Merge, Goes, FinalInv, CleanTask, Is
<1>2. DOMAIN r1 = Fields /\ r1.pc = "write" /\ r1.bad = {}
  BY <1>1, ExceptField DEF Fields
<1> HIDE DEF r1
<1>3. DOMAIN r2 = Fields /\ r2.pc = "write" /\ r2.bad = {} /\ r2.base = file
  BY <1>2, ExceptField DEF Fields
<1> HIDE DEF r2
<1>4. DOMAIN r3 = Fields /\ r3.pc = "write" /\ r3.bad = {} /\ r3.base = file
  BY <1>3, ExceptField DEF Fields
<1> HIDE DEF r3
<1>5. DOMAIN r4 = Fields /\ r4.pc = "write" /\ r4.bad = {} /\ r4.base = file
  BY <1>4, ExceptField DEF Fields
<1> HIDE DEF r4
<1> QED
  BY <1>1, <1>5, TaskMoves DEF FinalInv

LEMMA StepWrites ==
  ASSUME FinalInv, NEW t \in Threads, Write(t)
  PROVE  FinalInv'
<1>1. UNCHANGED <<now, csv>> /\ task[t].bad = {} /\ task[t].base \in Final
  BY DEF Write, FinalInv, CleanTask, Is
<1>2. file' \in Final
  BY <1>1 DEF Write, Merged, Final
<1>3. PICK new : /\ task' = [task EXCEPT ![t] = new]
                 /\ new # None => DOMAIN new = Fields /\ new.bad = {} /\ new.pc \in {"status", "done"}
  <2> DEFINE again == [Doing(task[t].op, "status") EXCEPT !.at = task[t].at]
  <2>1. \/ task' = [task EXCEPT ![t] = again]
        \/ task' = [task EXCEPT ![t] = Doing("wedged", "done")]
        \/ task' = [task EXCEPT ![t] = None]
    BY Zenon DEF Write, Goes, Ends
  <2>2. DOMAIN again = Fields /\ again.bad = {} /\ again.pc = "status"
    BY DoingIsClean, ExceptField DEF Fields
  <2> HIDE DEF again
  <2> QED
    BY <2>1, <2>2, DoingIsClean
<1>4. \A u \in Threads : CleanTask(u)'
  <2> SUFFICES ASSUME NEW u \in Threads, task'[u] # None
               PROVE  /\ DOMAIN task'[u] = Fields /\ task'[u].bad = {}
                      /\ task'[u].pc = "write" => task'[u].base \in Final
                      /\ task'[u].pc = "fetch" => task'[u].at \in Slots .. now'
    BY DEF CleanTask
  <2>1. CASE u = t
    BY <1>3, <2>1 DEF FinalInv
  <2>2. CASE u # t
    BY <1>1, <1>3, <2>2 DEF FinalInv, CleanTask
  <2> QED
    BY <2>1, <2>2
<1> QED
  BY <1>1, <1>2, <1>3, <1>4 DEF FinalInv

\* A check of the dataset after a sync leaves the file and the cache alone.
LEMMA StepAnswers ==
  ASSUME FinalInv, NEW t \in Threads, SyncAnswers(t)
  PROVE  FinalInv'
<1> DEFINE judged == [Doing("tick", "window") EXCEPT !.at = task[t].at]
<1>1. UNCHANGED <<now, file, csv>>
  BY DEF SyncAnswers
<1>2. task' = [task EXCEPT ![t] = judged] \/ task' = [task EXCEPT ![t] = None]
  BY Zenon DEF SyncAnswers, Checks, Goes, Ends
<1>3. DOMAIN judged = Fields /\ judged.bad = {} /\ judged.pc = "window"
  BY DoingIsClean, ExceptField DEF Fields
<1> HIDE DEF judged
<1> QED
  BY <1>1, <1>2, <1>3, TaskMoves DEF FinalInv

\* The thread ends, having written nothing.
LEMMA StepEnds ==
  ASSUME FinalInv, NEW t \in Threads, FetchFails(t) \/ RefuseStale(t) \/ Decide(t)
  PROVE  FinalInv'
<1>1. UNCHANGED <<now, file, csv>> /\ task' = [task EXCEPT ![t] = None]
  BY DEF FetchFails, RefuseStale, Decide, Ends
<1> QED
  BY <1>1, TaskMoves DEF FinalInv

\* The switch, the provider and the clock.
LEMMA StepWorld ==
  ASSUME FinalInv, \/ FlipSwitch \/ Publish \/ Advance \/ UNCHANGED vars
                   \/ \E t \in Threads : Status(t)
  PROVE  FinalInv'
<1>1. UNCHANGED <<file, task>> /\ now' \in {now, now + 1} /\ now' \in Slots .. LastTime
  <2>1. ASSUME NEW t \in Threads, Status(t) PROVE UNCHANGED <<now, file>> /\ task' = task
    <3>1. UNCHANGED <<now, file>>
      BY <2>1 DEF Status
    <3>2. task' = task
      BY <2>1, Zenon DEF Status, Checks
    <3> QED
      BY <3>1, <3>2
  <2>2. CASE \E t \in Threads : Status(t)
    BY <2>1, <2>2, DatasetAssumption DEF FinalInv
  <2>3. CASE FlipSwitch \/ Publish \/ Advance \/ UNCHANGED vars
    BY <2>3, DatasetAssumption DEF FinalInv, FlipSwitch, Publish, Advance, vars
  <2> QED
    BY <2>2, <2>3
<1>2. csv' \in {csv, None}
  BY DEF FlipSwitch, Publish, Advance, Status, vars
<1>3. \A t \in Threads : CleanTask(t)'
  BY <1>1, DatasetAssumption DEF FinalInv, CleanTask
<1> QED
  BY <1>1, <1>2, <1>3 DEF FinalInv

LEMMA FinalInvariant == ~MidSession => (Spec => []FinalInv)
<1> SUFFICES ASSUME ~MidSession PROVE Spec => []FinalInv
  OBVIOUS
<1>1. Init => FinalInv
  BY DatasetAssumption DEF Init, FinalInv, CleanTask, Final
<1>2. FinalInv /\ [Next]_vars => FinalInv'
  <2> SUFFICES ASSUME FinalInv, [Next]_vars PROVE FinalInv'
    OBVIOUS
  <2>1. CASE \E t \in Threads : Tick(t) \/ Sync(t)
    BY <2>1, StepBegins DEF Tick, Sync
  <2>2. CASE \E t \in Threads : Download(t)
    BY <2>2, StepDownloads
  <2>3. CASE \E t \in Threads : Serve(t)
    BY <2>3, StepFetches, StepMerges, StepWrites, StepAnswers, StepEnds DEF Serve
  <2>4. CASE \E u \in Pages : RebuildAgain(u)
    BY <2>4, StepWedges DEF Threads
  <2>5. CASE FlipSwitch \/ Publish \/ Advance \/ UNCHANGED vars \/ \E t \in Threads : Status(t)
    BY <2>5, StepWorld
  <2> QED
    BY <2>1, <2>2, <2>3, <2>4, <2>5 DEF Next
<1> QED
  BY <1>1, <1>2, PTL DEF Spec

\* Where the whole window is not downloaded during a session, no decision is
\* made on a price that was still moving, whoever syncs, merges or downloads
\* meanwhile (orchestrator._window, sync_missing_days, save_dataset).
THEOREM DecisionsAreOnFinalPrices == ~MidSession => (Spec => []DecidesOnFinalPrices)
<1>1. FinalInv => DecidesOnFinalPrices
  BY DEF FinalInv, Final, DecidesOnFinalPrices, WindowOf, Stored
<1> QED
  BY <1>1, FinalInvariant, PTL

(***************************************************************************)
(* A hole that was seen is filled.  What the provider has published it     *)
(* goes on to show, so a hole that a frame showed is in the answer to the  *)
(* fetch, which goes back far enough for it, and stays with the thread     *)
(* until it writes.                                                        *)
(***************************************************************************)

\* A frame shows the bars that had closed when it was asked for.
ShowsPublished(frame) ==
    \A b \in frame.bars : b \in Bars /\ (b <= frame.at => b \in Published)

WillFetch(r) ==
    \A h \in r.holes :
        /\ h \in Published /\ h \notin r.have
        /\ Oldest(r.have) <= h /\ h <= last_closed_bar(r.at)
        /\ DayOf(h) \in r.from .. LastDay

CarriesHoles(r) ==
    /\ DOMAIN r = Fields
    /\ r.op = "download" => r.holes = {}
    /\ r.pc = "fetch" => WillFetch(r)
    /\ r.pc \in {"merge", "write"} => r.holes \subseteq Bars \cap (r.new \union r.bad)

HolesInv ==
    /\ now \in Time
    /\ traded \subseteq Bars
    /\ DOMAIN span = {"loop", "page"}
    /\ \A p \in {"loop", "page"} : span[p] # None => ShowsPublished(span[p])
    /\ DOMAIN task = Threads
    /\ \A t \in Threads : task[t] # None => CarriesHoles(task[t])

LEMMA DayOfBar ==
  ASSUME NEW a \in Bars, NEW b \in Bars, a <= b
  PROVE  DayOf(a) \in Int /\ DayOf(b) \in DayOf(a) .. LastDay
<1>1. Day \in Nat \ {0} /\ a \in Nat /\ b \in Nat /\ LastTime \in Nat /\ b <= LastTime
  BY DatasetAssumption DEF Day, Bars, Time
<1>2. /\ a \div Day \in Int /\ b \div Day \in Int /\ LastTime \div Day \in Int
      /\ a \div Day <= b \div Day /\ b \div Day <= LastTime \div Day
  BY <1>1, QuotientGrows
<1> QED
  BY <1>2 DEF DayOf, LastDay

LEMMA OldestIsHeld ==
  ASSUME NEW have \in SUBSET Bars, have # {}
  PROVE  Oldest(have) \in have
<1>1. have \in SUBSET Nat
  BY DatasetAssumption DEF Bars, Time
<1>2. \E b \in have : \A c \in have : b <= c
  BY <1>1, LeastElement
<1> QED
  BY <1>2 DEF Oldest

\* What is asked now shows what has closed, and perhaps the bar that has not.
LEMMA AnswerShowsPublished ==
  ASSUME HolesInv, NEW from, NEW to
  PROVE  ShowsPublished(Answer(from, to)) /\ ShowsPublished(Outage(from))
<1>1. \A b \in Answer(from, to).bars : b \in Bars /\ (b \in Published \/ b = now + 1)
  BY DEF Answer, HolesInv, Published, Forming
<1>2. Answer(from, to).at = now /\ Outage(from).bars = {} /\ now \in Nat
  BY DatasetAssumption DEF Answer, Outage, HolesInv, Time
<1> QED
  BY <1>1, <1>2 DEF ShowsPublished

LEMMA SpanShowsPublished ==
  ASSUME HolesInv, NEW t \in Threads, NEW have, NEW frame \in provider_span(t, have)
  PROVE  ShowsPublished(frame)
<1>1. Process(t) \in {"loop", "page"}
  BY DEF Process
<1>2. CASE Usable(span[Process(t)])
  BY <1>1, <1>2 DEF provider_span, HolesInv, Usable
<1>3. CASE ~Usable(span[Process(t)])
  BY <1>3, AnswerShowsPublished DEF provider_span
<1> QED
  BY <1>2, <1>3

\* What is published stays so.
LEMMA PublishedGrows ==
  ASSUME HolesInv, [Next]_vars
  PROVE  /\ Published \subseteq Published' /\ now' \in Time /\ traded' \subseteq Bars
<1>1. CASE UNCHANGED <<now, traded, late>>
  BY <1>1 DEF Published, HolesInv
<1>2. CASE Publish
  BY <1>2 DEF Publish, Published, HolesInv
<1>3. CASE Advance
  <2>1. now' = now + 1 /\ now \in Nat /\ now + 1 <= LastTime /\ LastTime \in Nat
    BY <1>3, DatasetAssumption DEF Advance, HolesInv, Time
  <2>2. PICK some \in SUBSET (Bars \cap {now + 2}) : traded' = traded \union some
    BY <1>3 DEF Advance
  <2>3. PICK moved \in SUBSET (LateBars \cap traded \cap {now + 1}) : late' = late \union moved
    BY <1>3 DEF Advance
  <2>4. traded' \subseteq Bars /\ now' \in Time
    BY <2>1, <2>2 DEF HolesInv, Time
  <2>5. Published \subseteq Published'
    <3> SUFFICES ASSUME NEW b \in Published PROVE b \in Published'
      OBVIOUS
    <3>1. b \in traded /\ b <= now /\ b \notin late /\ b \in Nat
      BY DatasetAssumption DEF Published, HolesInv, Bars, Time
    <3> QED
      BY <2>1, <2>2, <2>3, <3>1 DEF Published
  <2> QED
    BY <2>4, <2>5
<1>4. \/ UNCHANGED <<now, traded, late>> \/ Publish \/ Advance
  BY DEF Next, vars, Tick, Sync, BeginSync, Status, Download, Serve, FetchNew, FetchFails, Merge,
         Write, SyncAnswers, RefuseStale, Decide, RebuildAgain, FlipSwitch
<1> QED
  BY <1>1, <1>2, <1>3, <1>4

\* The frames of a process are kept, forgotten or replaced by what a check, or
\* a fetch, has looked at.
Spanned == \/ \A p \in {"loop", "page"} : span'[p] \in {span[p], None}
           \/ \E t \in Threads : \E frame : /\ span' = [span EXCEPT ![Process(t)] = frame]
                                           /\ ShowsPublished(frame)

LEMMA StepSpan ==
  ASSUME HolesInv, Published \subseteq Published', Spanned
  PROVE  \A p \in {"loop", "page"} : span'[p] # None => ShowsPublished(span[p])'
<1> SUFFICES ASSUME NEW p \in {"loop", "page"}, span'[p] # None PROVE ShowsPublished(span[p])'
  OBVIOUS
<1>1. span[p] # None => ShowsPublished(span[p])
  BY DEF HolesInv
<1>2. CASE span'[p] \in {span[p], None}
  BY <1>1, <1>2 DEF ShowsPublished
<1>3. CASE \E t \in Threads : \E frame : /\ span' = [span EXCEPT ![Process(t)] = frame]
                                        /\ ShowsPublished(frame)
  <2>0. PICK t \in Threads : \E frame : /\ span' = [span EXCEPT ![Process(t)] = frame]
                                       /\ ShowsPublished(frame)
    BY <1>3
  <2>1. PICK frame : /\ span' = [span EXCEPT ![Process(t)] = frame]
                     /\ ShowsPublished(frame)
    BY <2>0
  <2>2. span'[p] \in {span[p], frame}
    BY <2>1 DEF HolesInv
  <2> QED
    BY <1>1, <2>1, <2>2 DEF ShowsPublished
<1> QED
  BY <1>2, <1>3 DEF Spanned

\* A thread that goes on carries its holes, and so do the others.
LEMMA HolesMove ==
  ASSUME HolesInv, Published \subseteq Published', now' \in Time, traded' \subseteq Bars,
         DOMAIN span' = {"loop", "page"}, Spanned,
         NEW t \in Threads, NEW new, task' = [task EXCEPT ![t] = new],
         new # None => CarriesHoles(new)
  PROVE  HolesInv'
<1>1. \A u \in Threads : task'[u] # None => CarriesHoles(task'[u])
  <2> SUFFICES ASSUME NEW u \in Threads, task'[u] # None PROVE CarriesHoles(task'[u])
    OBVIOUS
  <2>1. CASE u = t
    BY <2>1 DEF HolesInv
  <2>2. CASE u # t
    BY <2>2 DEF HolesInv
  <2> QED
    BY <2>1, <2>2
<1>2. \A u \in Threads : task'[u] # None => CarriesHoles(task[u])'
  BY <1>1 DEF CarriesHoles, WillFetch
<1> QED
  BY <1>2, StepSpan DEF HolesInv

\* One that has nothing more to fetch or to write carries none.
LEMMA StatusCarriesNone ==
  ASSUME NEW op, NEW pc \in {"status", "done", "window"}
  PROVE  CarriesHoles(Doing(op, pc))
BY DoingIsClean DEF CarriesHoles, Doing

LEMMA ChecksSpan ==
  ASSUME HolesInv, NEW t \in Threads, SyncAnswers(t) \/ Status(t)
  PROVE  Spanned /\ DOMAIN span' = {"loop", "page"}
<1>1. \/ span' = span
      \/ \E frame \in provider_span(t, Stored(file)) : span' = [span EXCEPT ![Process(t)] = frame]
  BY Zenon DEF SyncAnswers, Status, Checks
<1> QED
  BY <1>1, SpanShowsPublished DEF Spanned, HolesInv, ShowsPublished

\* What a sync was shown before its fetch, the fetch will be shown.
LEMMA HolesBegin ==
  ASSUME HolesInv, [Next]_vars, NEW t \in Threads, NEW op \in {"tick", "sync"}, BeginSync(t, op)
  PROVE  HolesInv'
<1> DEFINE until == last_closed_bar(now)
<1> DEFINE have == Stored(file)
<1> DEFINE holes(frame) == {b \in Fetchable(have, {frame}, until) : Oldest(have) <= b /\ b <= frame.at}
<1> DEFINE r1 == [Doing(op, "fetch") EXCEPT !.have = have]
<1> DEFINE r2(frame) == [r1 EXCEPT !.holes = holes(frame)]
<1> DEFINE r3(frame) == [r2(frame) EXCEPT !.from = fetch_from(have, frame, until)]
<1>1. Published \subseteq Published' /\ now' \in Time /\ traded' \subseteq Bars
  BY PublishedGrows
<1>2. CASE Stored(file) = {}
  <2>1. task' = [task EXCEPT ![t] = Doing(op, "status")] /\ span' = span
    BY <1>2, Zenon DEF BeginSync, Goes
  <2>2. CarriesHoles(Doing(op, "status"))
    BY StatusCarriesNone
  <2>3. PICK new : task' = [task EXCEPT ![t] = new] /\ CarriesHoles(new)
    BY <2>1, <2>2
  <2>4. Spanned /\ DOMAIN span' = {"loop", "page"}
    BY <2>1 DEF Spanned, HolesInv
  <2> QED
    BY <1>1, <2>3, <2>4, HolesMove
<1>3. CASE Stored(file) # {}
  <2>1. PICK frame \in provider_span(t, have) :
           /\ span' = [span EXCEPT ![Process(t)] = frame]
           /\ IF NeedsFetch(have, frame, until) THEN Goes(t, r3(frame)) ELSE Goes(t, Doing(op, "status"))
    BY <1>3, Zenon DEF BeginSync
  <2>3. ShowsPublished(frame)
    BY SpanShowsPublished
  <2>4. Spanned /\ DOMAIN span' = {"loop", "page"}
    BY <2>1, <2>3 DEF Spanned, HolesInv
  <2>5. \A h \in holes(frame) :
           /\ h \in Published /\ h \notin have /\ Oldest(have) <= h /\ h <= until
           /\ DayOf(h) \in fetch_from(have, frame, until) .. LastDay
    <3> SUFFICES ASSUME NEW h \in holes(frame)
                 PROVE  /\ h \in Published /\ h \notin have /\ Oldest(have) <= h /\ h <= until
                        /\ DayOf(h) \in fetch_from(have, frame, until) .. LastDay
      OBVIOUS
    <3>1. /\ h \in frame.bars /\ h \notin have /\ h <= until /\ Oldest(have) <= h /\ h <= frame.at
          /\ Fetchable(have, {frame}, until) # {}
      BY DEF Fetchable, Seen
    <3>2. h \in Published /\ h \in Bars
      BY <2>3, <3>1 DEF ShowsPublished
    <3>3. fetch_from(have, frame, until) = DayOf(Oldest(have))
      BY <3>1 DEF fetch_from
    <3>4. Oldest(have) \in Bars
      BY <1>3, OldestIsHeld DEF Stored
    <3> QED
      BY <3>1, <3>2, <3>3, <3>4, DayOfBar
  <2>6. Doing(op, "fetch").op = op
    BY DEF Doing
  <2>7. CASE task' = [task EXCEPT ![t] = Doing(op, "status")]
    <3>1. PICK new : task' = [task EXCEPT ![t] = new] /\ CarriesHoles(new)
      BY <2>7, StatusCarriesNone
    <3> QED
      BY <1>1, <2>4, <3>1, HolesMove
  <2>8. CASE task' = [task EXCEPT ![t] = r3(frame)]
    <3> DEFINE s2 == r2(frame)
    <3> DEFINE s3 == r3(frame)
    <3>1. DOMAIN r1 = Fields /\ r1.op = op /\ r1.pc = "fetch" /\ r1.at = now /\ r1.have = have
      BY <2>6, DoingIsClean, ExceptField DEF Fields
    <3> HIDE DEF r1
    <3>2. /\ DOMAIN s2 = Fields /\ s2.op = op /\ s2.pc = "fetch" /\ s2.at = now /\ s2.have = have
          /\ s2.holes = holes(frame)
      BY <3>1, ExceptField DEF Fields
    <3> HIDE DEF r2
    <3>3. /\ DOMAIN s3 = Fields /\ s3.op = op /\ s3.pc = "fetch" /\ s3.at = now /\ s3.have = have
          /\ s3.holes = holes(frame) /\ s3.from = fetch_from(have, frame, until)
      BY <3>2, ExceptField DEF Fields
    <3> HIDE DEF r3, holes, have
    <3>4. CarriesHoles(s3)
      BY <2>5, <3>3 DEF CarriesHoles, WillFetch
    <3> QED
      BY <1>1, <2>4, <2>8, <3>4, HolesMove
  <2> QED
    BY <2>1, <2>7, <2>8 DEF Goes
<1> QED
  BY <1>2, <1>3

\* The answer to a fetch has the holes, and they are wanted.
LEMMA HolesAreFetched ==
  ASSUME HolesInv, [Next]_vars, NEW t \in Threads, FetchNew(t)
  PROVE  HolesInv'
<1> DEFINE frame == Answer(task[t].from, LastDay)
<1> DEFINE wanted == Wanted(t, frame)
<1> DEFINE r1(pc) == [task[t] EXCEPT !.pc = pc]
<1> DEFINE pc == IF wanted = {} THEN "status" ELSE "merge"
<1> DEFINE r2 == [r1(pc) EXCEPT !.new = wanted \ Forming]
<1> DEFINE r3 == [r2 EXCEPT !.bad = wanted \cap Forming]
<1>1. Published \subseteq Published' /\ now' \in Time /\ traded' \subseteq Bars
  BY PublishedGrows
<1>2. CarriesHoles(task[t]) /\ task[t].pc = "fetch"
  BY DEF FetchNew, Is, HolesInv
<1>3. \/ task' = [task EXCEPT ![t] = r1("status")] /\ span' = span
      \/ /\ task' = [task EXCEPT ![t] = r3]
         /\ span' = [span EXCEPT ![Process(t)] = frame]
  BY Zenon DEF FetchNew, Goes
<1>4. Spanned /\ DOMAIN span' = {"loop", "page"}
  BY <1>3, AnswerShowsPublished DEF Spanned, HolesInv
<1>5. task[t].holes \subseteq Bars \cap wanted
  <2> SUFFICES ASSUME NEW h \in task[t].holes PROVE h \in Bars /\ h \in wanted
    OBVIOUS
  <2>1. /\ h \in Published /\ h \notin task[t].have
        /\ Oldest(task[t].have) <= h /\ h <= last_closed_bar(task[t].at)
        /\ DayOf(h) \in task[t].from .. LastDay
    BY <1>2 DEF CarriesHoles, WillFetch
  <2>2. h \in frame.bars /\ h \in Bars
    BY <2>1 DEF Answer, Published, HolesInv
  <2> QED
    BY <2>1, <2>2 DEF Wanted
<1> HIDE DEF frame, wanted
<1>6. \A x : /\ DOMAIN r1(x) = Fields /\ r1(x).op = task[t].op /\ r1(x).pc = x
             /\ r1(x).holes = task[t].holes
  BY <1>2, ExceptField DEF Fields, CarriesHoles
<1> HIDE DEF r1
<1>7. /\ DOMAIN r2 = Fields /\ r2.op = task[t].op /\ r2.pc \in {"status", "merge"}
      /\ r2.holes = task[t].holes /\ r2.new = wanted \ Forming
  BY <1>6, ExceptField DEF Fields
<1> HIDE DEF r2, pc
<1>8. /\ DOMAIN r3 = Fields /\ r3.op = task[t].op /\ r3.pc \in {"status", "merge"}
      /\ r3.holes = task[t].holes /\ r3.new = wanted \ Forming /\ r3.bad = wanted \cap Forming
  BY <1>7, ExceptField DEF Fields
<1> HIDE DEF r3
<1>9. CarriesHoles(r1("status"))
  BY <1>2, <1>6 DEF CarriesHoles
<1>10. CarriesHoles(r3)
  BY <1>2, <1>5, <1>8 DEF CarriesHoles
<1>11. PICK new : task' = [task EXCEPT ![t] = new] /\ CarriesHoles(new)
  BY <1>3, <1>9, <1>10
<1> QED
  BY <1>1, <1>4, <1>11, HolesMove

LEMMA HolesWithDownload ==
  ASSUME HolesInv, [Next]_vars, NEW t \in Threads, Download(t)
  PROVE  HolesInv'
<1> DEFINE got == fetch_historical
<1> DEFINE r1 == [Doing("download", "merge") EXCEPT !.new = got.new]
<1> DEFINE r2 == [r1 EXCEPT !.bad = got.bad]
<1>1. Published \subseteq Published' /\ now' \in Time /\ traded' \subseteq Bars
  BY PublishedGrows
<1>2. task' = [task EXCEPT ![t] = r2] /\ span' = span
  BY Zenon DEF Download, Goes
<1> HIDE DEF got
<1>3. Doing("download", "merge").holes = {}
  BY DEF Doing
<1>4. DOMAIN r1 = Fields /\ r1.pc = "merge" /\ r1.holes = {}
  BY <1>3, DoingIsClean, ExceptField DEF Fields
<1> HIDE DEF r1
<1>5. DOMAIN r2 = Fields /\ r2.pc = "merge" /\ r2.holes = {}
  BY <1>4, ExceptField DEF Fields
<1> HIDE DEF r2
<1>6. CarriesHoles(r2)
  BY <1>5 DEF CarriesHoles
<1>7. Spanned /\ DOMAIN span' = {"loop", "page"}
  BY <1>2 DEF Spanned, HolesInv
<1> QED
  BY <1>1, <1>2, <1>6, <1>7, HolesMove

LEMMA HolesWithRebuild ==
  ASSUME HolesInv, [Next]_vars, NEW t \in Threads, RebuildAgain(t)
  PROVE  HolesInv'
<1> DEFINE new == [task[t] EXCEPT !.op = "wedged"]
<1>1. Published \subseteq Published' /\ now' \in Time /\ traded' \subseteq Bars
  BY PublishedGrows
<1>2. /\ task' = [task EXCEPT ![t] = new] /\ span' = span
      /\ CarriesHoles(task[t]) /\ task[t].holes = {}
  BY DEF RebuildAgain, Goes, HolesInv, CarriesHoles
<1>3. DOMAIN new = Fields /\ new.holes = {}
  BY <1>2, ExceptField DEF Fields, CarriesHoles
<1> HIDE DEF new
<1>4. CarriesHoles(new)
  BY <1>3 DEF CarriesHoles, WillFetch
<1>5. Spanned /\ DOMAIN span' = {"loop", "page"}
  BY <1>2 DEF Spanned, HolesInv
<1> QED
  BY <1>1, <1>2, <1>4, <1>5, HolesMove

\* Between the fetch and the write the holes stay among what is to be written.
LEMMA HolesAreMerged ==
  ASSUME HolesInv, [Next]_vars, NEW t \in Threads, Merge(t)
  PROVE  HolesInv'
<1> DEFINE r1 == [task[t] EXCEPT !.pc = "write"]
<1> DEFINE r2 == [r1 EXCEPT !.base = file]
<1> DEFINE r3 == [r2 EXCEPT !.have = {}]
<1> DEFINE r4 == [r3 EXCEPT !.from = 0]
<1> DEFINE Same(r) == /\ DOMAIN r = Fields /\ r.pc = "write" /\ r.op = task[t].op
                      /\ r.holes = task[t].holes /\ r.new = task[t].new /\ r.bad = task[t].bad
<1>1. Published \subseteq Published' /\ now' \in Time /\ traded' \subseteq Bars
  BY PublishedGrows
<1>2. /\ task' = [task EXCEPT ![t] = r4] /\ span' = span
      /\ CarriesHoles(task[t]) /\ task[t].pc = "merge"
  BY DEF Merge, Goes, Is, HolesInv
<1>3. Same(r1)
  BY <1>2, ExceptField DEF Fields, CarriesHoles
<1> HIDE DEF r1
<1>4. Same(r2)
  BY <1>3, ExceptField DEF Fields
<1> HIDE DEF r2
<1>5. Same(r3)
  BY <1>4, ExceptField DEF Fields
<1> HIDE DEF r3
<1>6. Same(r4)
  BY <1>5, ExceptField DEF Fields
<1> HIDE DEF r4
<1>7. CarriesHoles(r4)
  BY <1>2, <1>6 DEF CarriesHoles
<1>8. Spanned /\ DOMAIN span' = {"loop", "page"}
  BY <1>2 DEF Spanned, HolesInv
<1> QED
  BY <1>1, <1>2, <1>7, <1>8, HolesMove

LEMMA HolesAfterWrite ==
  ASSUME HolesInv, [Next]_vars, NEW t \in Threads, Write(t)
  PROVE  HolesInv'
<1> DEFINE again == [Doing(task[t].op, "status") EXCEPT !.at = task[t].at]
<1>1. Published \subseteq Published' /\ now' \in Time /\ traded' \subseteq Bars
  BY PublishedGrows
<1>2. /\ \/ task' = [task EXCEPT ![t] = again]
         \/ task' = [task EXCEPT ![t] = Doing("wedged", "done")]
         \/ task' = [task EXCEPT ![t] = None]
      /\ span' = span
  BY Zenon DEF Write, Goes, Ends
<1>3. Doing(task[t].op, "status").holes = {}
  BY DEF Doing
<1>4. DOMAIN again = Fields /\ again.holes = {} /\ again.pc = "status"
  BY <1>3, DoingIsClean, ExceptField DEF Fields
<1> HIDE DEF again
<1>5. CarriesHoles(again) /\ CarriesHoles(Doing("wedged", "done"))
  BY <1>4, StatusCarriesNone DEF CarriesHoles
<1>6. PICK new : task' = [task EXCEPT ![t] = new] /\ (new # None => CarriesHoles(new))
  BY <1>2, <1>5
<1>7. Spanned /\ DOMAIN span' = {"loop", "page"}
  BY <1>2 DEF Spanned, HolesInv
<1> QED
  BY <1>1, <1>6, <1>7, HolesMove

LEMMA HolesAfterAnswer ==
  ASSUME HolesInv, [Next]_vars, NEW t \in Threads, SyncAnswers(t)
  PROVE  HolesInv'
<1> DEFINE judged == [Doing("tick", "window") EXCEPT !.at = task[t].at]
<1>1. Published \subseteq Published' /\ now' \in Time /\ traded' \subseteq Bars
  BY PublishedGrows
<1>2. task' = [task EXCEPT ![t] = judged] \/ task' = [task EXCEPT ![t] = None]
  BY Zenon DEF SyncAnswers, Checks, Goes, Ends
<1>3. Doing("tick", "window").holes = {}
  BY DEF Doing
<1>4. DOMAIN judged = Fields /\ judged.holes = {} /\ judged.pc = "window"
  BY <1>3, DoingIsClean, ExceptField DEF Fields
<1> HIDE DEF judged
<1>5. CarriesHoles(judged)
  BY <1>4 DEF CarriesHoles
<1>6. PICK new : task' = [task EXCEPT ![t] = new] /\ (new # None => CarriesHoles(new))
  BY <1>2, <1>5
<1> QED
  BY <1>1, <1>6, ChecksSpan, HolesMove

LEMMA HolesOtherwise ==
  ASSUME HolesInv, [Next]_vars,
         \/ \E t \in Threads : FetchFails(t) \/ RefuseStale(t) \/ Decide(t) \/ Status(t)
         \/ FlipSwitch \/ Publish \/ Advance \/ UNCHANGED vars
  PROVE  HolesInv'
<1>1. Published \subseteq Published' /\ now' \in Time /\ traded' \subseteq Bars
  BY PublishedGrows
<1>2. CASE \E t \in Threads : FetchFails(t) \/ RefuseStale(t) \/ Decide(t)
  <2>1. PICK t \in Threads : task' = [task EXCEPT ![t] = None] /\ span' = span
    BY <1>2 DEF FetchFails, RefuseStale, Decide, Ends
  <2>2. Spanned /\ DOMAIN span' = {"loop", "page"}
    BY <2>1 DEF Spanned, HolesInv
  <2> QED
    BY <1>1, <2>1, <2>2, HolesMove
<1>3. ASSUME task' = task, Spanned /\ DOMAIN span' = {"loop", "page"} PROVE HolesInv'
  <2>1. \A u \in Threads : task'[u] # None => CarriesHoles(task[u])'
    BY <1>1, <1>3 DEF HolesInv, CarriesHoles, WillFetch
  <2> QED
    BY <1>1, <1>3, <2>1, StepSpan DEF HolesInv
<1>4. CASE \E t \in Threads : Status(t)
  <2>1. PICK t \in Threads : Status(t)
    BY <1>4
  <2>2. task' = task
    BY <2>1, Zenon DEF Status, Checks
  <2> QED
    BY <1>3, <2>1, <2>2, ChecksSpan
<1>5. CASE FlipSwitch \/ Publish \/ Advance \/ UNCHANGED vars
  <2>1. task' = task /\ Spanned /\ DOMAIN span' = {"loop", "page"}
    BY <1>5 DEF FlipSwitch, Publish, Advance, vars, Spanned, HolesInv
  <2> QED
    BY <1>3, <2>1
<1> QED
  BY <1>2, <1>4, <1>5

LEMMA HolesInvariant == Spec => []HolesInv
<1>1. Init => HolesInv
  BY DatasetAssumption DEF Init, HolesInv, Time
<1>2. HolesInv /\ [Next]_vars => HolesInv'
  <2> SUFFICES ASSUME HolesInv, [Next]_vars PROVE HolesInv'
    OBVIOUS
  <2>1. CASE \E t \in Threads : Tick(t) \/ Sync(t)
    BY <2>1, HolesBegin DEF Tick, Sync
  <2>2. CASE \E t \in Threads : Download(t)
    BY <2>2, HolesWithDownload
  <2>3. CASE \E t \in Threads : Serve(t)
    BY <2>3, HolesAreFetched, HolesAreMerged, HolesAfterWrite, HolesAfterAnswer, HolesOtherwise DEF Serve
  <2>4. CASE \E u \in Pages : RebuildAgain(u)
    BY <2>4, HolesWithRebuild DEF Threads
  <2>5. CASE FlipSwitch \/ Publish \/ Advance \/ UNCHANGED vars \/ \E t \in Threads : Status(t)
    BY <2>5, HolesOtherwise
  <2> QED
    BY <2>1, <2>2, <2>3, <2>4, <2>5 DEF Next
<1> QED
  BY <1>1, <1>2, PTL DEF Spec

\* A hole that a sync was shown is in the file when that sync has written,
\* however long its fetch took and whoever wrote meanwhile (sync_missing_days).
THEOREM SeenHolesAreFilled == Spec => HolesSeenAreFilled
<1>1. HolesInv /\ [Next]_vars =>
        [\A t \in Threads : Is(t, "write") /\ task'[t] # task[t] =>
             task[t].holes \subseteq Stored(file')]_vars
  <2> SUFFICES ASSUME HolesInv, [Next]_vars, NEW t \in Threads, Is(t, "write"), task'[t] # task[t]
               PROVE  task[t].holes \subseteq Stored(file')
    OBVIOUS
  <2>1. task[t].holes \subseteq Bars \cap (task[t].new \union task[t].bad) /\ CarriesHoles(task[t])
    BY DEF HolesInv, CarriesHoles, Is
  <2>2. CASE Write(t)
    BY <2>1, <2>2 DEF Write, Merged, Stored
  <2>3. CASE RebuildAgain(t)
    BY <2>1, <2>3 DEF RebuildAgain, CarriesHoles
  <2>4. Write(t) \/ RebuildAgain(t)
    <3>1. task[t] # None /\ task[t].pc = "write" /\ task' # task
      BY DEF Is
    <3>2. \A u, new : Goes(u, new) \/ Ends(u) => u = t
      BY DEF Goes, Ends, HolesInv
    <3>3. \A u \in Threads : ~Tick(u) /\ ~Sync(u)
      BY <3>1, <3>2, Zenon DEF Tick, Sync, BeginSync
    <3>4. \A u \in Threads : ~Download(u)
      BY <3>1, <3>2, Zenon DEF Download
    <3>5. \A u \in Threads : ~Status(u)
      BY <3>1, Zenon DEF Status, Checks
    <3>6. \A u \in Threads : ~FetchNew(u) /\ ~FetchFails(u) /\ ~Merge(u)
      BY <3>1, <3>2 DEF FetchNew, FetchFails, Merge, Is
    <3>7. \A u \in Threads : ~SyncAnswers(u) /\ ~RefuseStale(u) /\ ~Decide(u)
      <4>1. \A u \in Threads : SyncAnswers(u) => u = t
        BY <3>2, Zenon DEF SyncAnswers, Checks
      <4>2. ~Is(t, "status") /\ ~Is(t, "window")
        BY <3>1 DEF Is
      <4> QED
        BY <3>2, <4>1, <4>2 DEF SyncAnswers, RefuseStale, Decide
    <3>8. ~FlipSwitch /\ ~Publish /\ ~Advance /\ ~UNCHANGED vars
      BY <3>1 DEF FlipSwitch, Publish, Advance, vars
    <3>9. \A u \in Threads : Write(u) => u = t
      BY <3>2, Zenon DEF Write
    <3>10. \A u \in Pages : RebuildAgain(u) => u = t
      BY <3>2, Zenon DEF RebuildAgain
    <3> QED
      BY <3>3, <3>4, <3>5, <3>6, <3>7, <3>8, <3>9, <3>10 DEF Next, Serve
  <2> QED
    BY <2>2, <2>3, <2>4
<1> QED
  BY <1>1, HolesInvariant, PTL DEF Spec, HolesSeenAreFilled

(***************************************************************************)
(* What is written off as untraded was asked about.  A frame says of which *)
(* days it was asked, and when.  If the latest of those at hand is of a    *)
(* later day than an interval, the night between them has passed since the *)
(* interval ended, and a frame older than that is not used any more.       *)
(***************************************************************************)

\* A frame is of the past, of days that have begun, and shows bars of those.
Told(f) ==
    /\ f.at <= now /\ f.from <= DayOf(f.at)
    /\ f.bars # {} => f.ok
    /\ \A b \in f.bars : f.from <= DayOf(b)

\* Nothing is stored of a bar that has not begun.
Begun(bars) == \A b \in bars : b <= now + 1

CarriesBegun(r) ==
    /\ r \in Task
    /\ Begun(r.new) /\ Begun(r.bad)
    /\ r.pc = "write" => r.base \in [Bars -> {"none", "partial", "final"}] /\ Begun(Stored(r.base))
    /\ r.pc = "fetch" => r.from <= DayOf(now)

World == now \in Slots .. LastTime /\ on \in BOOLEAN /\ late \in SUBSET Bars /\ traded \in SUBSET Bars

FileBegun == file \in [Bars -> {"none", "partial", "final"}] /\ Begun(Stored(file))

CacheBegun ==
    /\ csv \in [at : Time, new : SUBSET Bars, bad : SUBSET Bars] \union {None}
    /\ csv # None => Begun(csv.new) /\ Begun(csv.bad)

FramesTold ==
    /\ span \in [{"loop", "page"} -> Frame \union {None}]
    /\ \A p \in {"loop", "page"} : span[p] # None => Told(span[p])
    /\ tail \in Frame \union {None}
    /\ tail # None => Told(tail) /\ (tail.at = now \/ now - tail.at < Probe)

TasksBegun ==
    /\ task \in [Threads -> Task \union {None}]
    /\ \A t \in Threads : task[t] # None => CarriesBegun(task[t])

AskedInv == World /\ FileBegun /\ CacheBegun /\ FramesTold /\ TasksBegun

LEMMA DayOfTime ==
  ASSUME NEW a \in Nat, NEW b \in Nat, a <= b
  PROVE  DayOf(a) \in Nat /\ DayOf(b) \in Nat /\ DayOf(a) <= DayOf(b)
<1>1. Day \in Nat \ {0}
  BY DatasetAssumption DEF Day
<1>2. a \div Day \in Int /\ b \div Day \in Int /\ a \div Day <= b \div Day /\ 0 \div Day <= a \div Day
  BY <1>1, QuotientGrows
<1>3. 0 \div Day = 0
  BY <1>1
<1> QED
  BY <1>2, <1>3 DEF DayOf

\* A bar that has begun is of a day that has.
LEMMA BegunDay ==
  ASSUME NEW b \in Bars, NEW t \in Nat, b <= t + 1
  PROVE  DayOf(b) \in Nat /\ DayOf(b) <= DayOf(t)
<1>1. b \in Nat /\ b % Day \in 1 .. Slots /\ Day \in Nat \ {0} /\ Slots < Day /\ Slots \in Nat
  BY DatasetAssumption DEF Bars, Time, Day
<1>2. b = Day * (b \div Day) + (b % Day) /\ b \div Day \in Int
  BY <1>1
<1>3. b - 1 \in Nat /\ b - 1 <= t
  BY <1>1, <1>2
<1>4. (b - 1) \div Day = b \div Day
  <2> DEFINE q == b \div Day
  <2> DEFINE p == (b - 1) \div Day
  <2>1. p \in Int /\ b - 1 = Day * p + ((b - 1) % Day) /\ (b - 1) % Day \in 0 .. Day - 1
    BY <1>1, <1>3
  <2>2. Day * p \in Int /\ Day * q \in Int
    BY <1>1, <1>2, <2>1
  <2>3. ~ (p + 1 <= q)
    <3> SUFFICES ASSUME p + 1 <= q PROVE FALSE
      OBVIOUS
    <3>1. Day * p + Day <= Day * q
      BY <1>1, <1>2, <2>1, ProductSteps
    <3> HIDE DEF p, q
    <3> QED BY <1>1, <1>2, <2>1, <2>2, <3>1 DEF q
  <2>4. ~ (q + 1 <= p)
    <3> SUFFICES ASSUME q + 1 <= p PROVE FALSE
      OBVIOUS
    <3>1. Day * q + Day <= Day * p
      BY <1>1, <1>2, <2>1, ProductSteps
    <3> HIDE DEF p, q
    <3> QED BY <1>1, <1>2, <2>1, <2>2, <3>1 DEF q
  <2> QED BY <1>2, <2>1, <2>3, <2>4
<1>5. DayOf(b - 1) <= DayOf(t) /\ DayOf(b - 1) \in Nat
  BY <1>3, DayOfTime
<1> QED
  BY <1>4, <1>5 DEF DayOf

\* Between a bar and a later day there is a night.
LEMMA NightAfter ==
  ASSUME NEW b \in Bars, NEW t \in Nat, DayOf(b) < DayOf(t)
  PROVE  b + Night <= t
<1> DEFINE q == b \div Day
<1> DEFINE p == t \div Day
<1>1. /\ b \in Nat /\ b % Day \in 1 .. Slots /\ Day \in Nat \ {0} /\ Day = Slots + Night
      /\ Slots \in Nat /\ Night \in Nat
  BY DatasetAssumption DEF Bars, Time, Day
<1>2. b = Day * q + (b % Day) /\ q \in Int
  BY <1>1
<1>3. t = Day * p + (t % Day) /\ p \in Int /\ t % Day \in 0 .. Day - 1
  BY <1>1
<1>4. q + 1 <= p
  BY <1>2, <1>3 DEF DayOf
<1>5. Day * q + Day <= Day * p /\ Day * q \in Int /\ Day * p \in Int
  BY <1>1, <1>2, <1>3, <1>4, ProductSteps
<1> HIDE DEF p, q
<1> QED
  BY <1>1, <1>2, <1>3, <1>5

LEMMA NewestIsHeld ==
  ASSUME NEW n \in Nat, NEW S \in SUBSET (0 .. n), S # {}
  PROVE  Newest(S) \in S
<1>1. \E b \in S : \A c \in S : c <= b
  BY GreatestElement
<1> QED
  BY <1>1 DEF Newest

LEMMA EndsAreHeld ==
  ASSUME NEW have \in SUBSET Bars, have # {}
  PROVE  Oldest(have) \in have /\ Newest(have) \in have
<1>1. have \in SUBSET (0 .. LastTime) /\ LastTime \in Nat
  BY DatasetAssumption DEF Bars, Time
<1> QED
  BY <1>1, OldestIsHeld, NewestIsHeld

-----------------------------------------------------------------------------

LEMMA TimeFacts ==
  ASSUME World
  PROVE  /\ now \in Nat /\ now \in Time /\ DayOf(now) \in Nat /\ LastDay \in Nat
         /\ \A b \in Bars : b \in Nat /\ DayOf(b) \in Nat
<1>1. now \in Nat /\ now \in Time /\ LastTime \in Nat
  BY DatasetAssumption DEF World, Time
<1>2. \A b \in Bars : b \in Nat
  BY DatasetAssumption DEF Bars, Time
<1> QED
  BY <1>1, <1>2, DayOfTime DEF LastDay

LEMMA AnswerTold ==
  ASSUME World, NEW from \in Nat, from <= DayOf(now), NEW to \in Nat
  PROVE  /\ Answer(from, to) \in Frame /\ Told(Answer(from, to)) /\ Begun(Answer(from, to).bars)
         /\ Outage(from) \in Frame /\ Told(Outage(from))
<1> DEFINE f == Answer(from, to)
<1>1. now \in Time /\ now \in Nat /\ \A b \in Bars : b \in Nat /\ DayOf(b) \in Nat
  BY TimeFacts
<1>2. /\ f.at = now /\ f.from = from /\ f.ok = TRUE
      /\ f.bars = {b \in Published \union (traded \cap Forming) : DayOf(b) \in from .. to}
  BY DEF Answer
<1>3. f.bars \in SUBSET Bars /\ Begun(f.bars) /\ \A b \in f.bars : from <= DayOf(b)
  <2>1. \A b \in Published \union (traded \cap Forming) : b \in Bars /\ b <= now + 1
    BY <1>1 DEF Published, Forming, World
  <2> QED BY <1>1, <1>2, <2>1 DEF Begun
<1>4. f \in Frame
  <2>1. \A bars \in SUBSET Bars : [at |-> now, from |-> from, ok |-> TRUE, bars |-> bars] \in Frame
    BY <1>1 DEF Frame
  <2> QED BY <1>2, <1>3, <2>1 DEF Answer
<1>5. Told(f)
  <2> HIDE DEF f
  <2> QED BY <1>1, <1>2, <1>3 DEF Told
<1>6. Outage(from) \in Frame /\ Told(Outage(from))
  BY <1>1 DEF Outage, Frame, Told
<1> QED
  BY <1>3, <1>4, <1>5, <1>6

\* The days a sync or a check asks for have begun.
LEMMA StoredDays ==
  ASSUME World, FileBegun, Stored(file) # {}
  PROVE  \A b \in {Oldest(Stored(file)), Newest(Stored(file))} :
            b \in Stored(file) /\ b \in Bars /\ DayOf(b) \in Nat /\ DayOf(b) <= DayOf(now)
<1>1. Stored(file) \in SUBSET Bars
  BY DEF Stored
<1>2. \A b \in Stored(file) : b \in Bars /\ DayOf(b) \in Nat /\ DayOf(b) <= DayOf(now)
  BY <1>1, TimeFacts, BegunDay DEF FileBegun, Begun
<1> QED
  BY <1>1, <1>2, EndsAreHeld

LEMMA SpanTold ==
  ASSUME World, FileBegun, FramesTold, Stored(file) # {}, NEW t \in Threads,
         NEW frame \in provider_span(t, Stored(file))
  PROVE  frame \in Frame /\ Told(frame)
<1>1. Process(t) \in {"loop", "page"}
  BY DEF Process
<1>2. CASE Usable(span[Process(t)])
  BY <1>1, <1>2 DEF provider_span, FramesTold, Usable
<1>3. CASE ~Usable(span[Process(t)])
  <2> DEFINE from == DayOf(Oldest(Stored(file)))
  <2> DEFINE to == DayOf(Newest(Stored(file))) + 1
  <2>1. from \in Nat /\ from <= DayOf(now) /\ to \in Nat
    BY StoredDays
  <2>2. frame \in {Answer(from, to), Outage(from)}
    BY <1>3 DEF provider_span
  <2> HIDE DEF from, to
  <2> QED BY <2>1, <2>2, AnswerTold
<1> QED
  BY <1>2, <1>3

\* What a step leaves alone stays as it is, and so do the frames but for one.
LEMMA Keeps ==
  ASSUME AskedInv, UNCHANGED <<now, on, traded, late>>
  PROVE  /\ World'
         /\ UNCHANGED file => FileBegun'
         /\ UNCHANGED csv => CacheBegun'
         /\ UNCHANGED <<span, tail>> => FramesTold'
         /\ UNCHANGED task => TasksBegun'
<1>1. World'
  BY DEF AskedInv, World
<1>2. UNCHANGED file => FileBegun'
  BY DEF AskedInv, FileBegun, Begun, Stored
<1>3. UNCHANGED csv => CacheBegun'
  BY DEF AskedInv, CacheBegun, Begun
<1>4. UNCHANGED <<span, tail>> => FramesTold'
  BY DEF AskedInv, FramesTold, Told
<1>5. UNCHANGED task => TasksBegun'
  BY DEF AskedInv, TasksBegun, CarriesBegun, Begun
<1> QED
  BY <1>1, <1>2, <1>3, <1>4, <1>5

LEMMA TaskGoes ==
  ASSUME AskedInv, now' = now, NEW t \in Threads, NEW new,
         task' = [task EXCEPT ![t] = new], new = None \/ CarriesBegun(new)
  PROVE  TasksBegun'
<1>1. task' \in [Threads -> Task \union {None}]
  BY DEF AskedInv, TasksBegun, CarriesBegun
<1>2. \A u \in Threads : task'[u] # None => CarriesBegun(task'[u])
  BY DEF AskedInv, TasksBegun
<1> QED
  BY <1>1, <1>2 DEF TasksBegun, CarriesBegun, Begun

LEMMA SpanGoes ==
  ASSUME AskedInv, now' = now, UNCHANGED tail, NEW p \in {"loop", "page"},
         NEW frame, frame \in Frame, Told(frame), span' = [span EXCEPT ![p] = frame]
  PROVE  FramesTold'
<1>1. span' \in [{"loop", "page"} -> Frame \union {None}]
  BY DEF AskedInv, FramesTold
<1>2. \A q \in {"loop", "page"} : span'[q] # None => Told(span'[q])
  BY DEF AskedInv, FramesTold
<1> QED
  BY <1>1, <1>2 DEF AskedInv, FramesTold, Told

\* A task at its beginning carries nothing.
LEMMA DoingBegun ==
  ASSUME World, NEW op \in {"tick", "sync", "download", "wedged"},
         NEW pc \in {"fetch", "merge", "status", "window", "done"}
  PROVE  CarriesBegun(Doing(op, pc)) /\ Doing(op, pc).pc = pc /\ Doing(op, pc).from = 0
<1>1. now \in Time /\ 0 \in Time /\ DayOf(now) \in Nat
  BY TimeFacts, DatasetAssumption DEF Time
<1>2. Doing(op, pc) \in Task
  BY <1>1 DEF Doing, Task
<1>3. /\ Doing(op, pc).new = {} /\ Doing(op, pc).bad = {} /\ Doing(op, pc).base = None
      /\ Doing(op, pc).pc = pc /\ Doing(op, pc).from = 0
  BY DEF Doing
<1> HIDE DEF Doing
<1> QED
  BY <1>1, <1>2, <1>3 DEF CarriesBegun, Begun

\* A field of a task is overwritten.
LEMMA TaskField ==
  ASSUME NEW r \in Task
  PROVE  /\ DOMAIN r = Fields
         /\ \A x \in SUBSET Bars : /\ [r EXCEPT !.new = x] \in Task
                                   /\ [r EXCEPT !.bad = x] \in Task
                                   /\ [r EXCEPT !.have = x] \in Task
                                   /\ [r EXCEPT !.holes = x] \in Task
         /\ \A x \in Time : [r EXCEPT !.at = x] \in Task
         /\ \A x \in Nat : [r EXCEPT !.from = x] \in Task
         /\ \A x \in {"fetch", "merge", "write", "status", "window", "done"} :
               [r EXCEPT !.pc = x] \in Task
         /\ [r EXCEPT !.op = "wedged"] \in Task
         /\ \A x \in [Bars -> {"none", "partial", "final"}] : [r EXCEPT !.base = x] \in Task
<1>1. DOMAIN r = Fields
  BY DEF Task, Fields
<1>2. \A x \in SUBSET Bars : /\ [r EXCEPT !.new = x] \in Task
                             /\ [r EXCEPT !.bad = x] \in Task
                             /\ [r EXCEPT !.have = x] \in Task
                             /\ [r EXCEPT !.holes = x] \in Task
  BY DEF Task
<1>3. \A x \in Time : [r EXCEPT !.at = x] \in Task
  BY DEF Task
<1>4. \A x \in Nat : [r EXCEPT !.from = x] \in Task
  BY DEF Task
<1>5. \A x \in {"fetch", "merge", "write", "status", "window", "done"} : [r EXCEPT !.pc = x] \in Task
  BY DEF Task
<1>6. [r EXCEPT !.op = "wedged"] \in Task
  BY DEF Task
<1>7. \A x \in [Bars -> {"none", "partial", "final"}] : [r EXCEPT !.base = x] \in Task
  BY DEF Task
<1> QED
  BY <1>1, <1>2, <1>3, <1>4, <1>5, <1>6, <1>7

LEMMA InitAsked == Init => AskedInv
<1> SUFFICES ASSUME Init PROVE AskedInv
  OBVIOUS
<1>1. World
  <2>1. traded \in SUBSET Bars /\ late \in SUBSET Bars
    BY DEF Init
  <2> QED BY <2>1, DatasetAssumption DEF Init, World
<1>2. FileBegun
  <2>1. PICK bars \in {{}, traded \ late} : file = [b \in Bars |-> IF b \in bars THEN "final" ELSE "none"]
    BY DEF Init
  <2>2. \A b \in bars : b \in Bars /\ b <= now
    BY <2>1 DEF Init
  <2>3. \A b \in Bars : b \in Nat
    BY <1>1, TimeFacts
  <2>4. file \in [Bars -> {"none", "partial", "final"}] /\ Stored(file) \subseteq bars
    BY <2>1 DEF Stored
  <2> QED BY <1>1, <2>2, <2>3, <2>4, TimeFacts DEF FileBegun, Begun
<1>3. CacheBegun /\ FramesTold /\ TasksBegun
  BY DEF Init, CacheBegun, FramesTold, TasksBegun
<1> QED
  BY <1>1, <1>2, <1>3 DEF AskedInv

LEMMA AskedBegin ==
  ASSUME AskedInv, NEW t \in Threads, NEW op \in {"tick", "sync"}, BeginSync(t, op)
  PROVE  AskedInv'
<1> DEFINE until == last_closed_bar(now)
<1> DEFINE have == Stored(file)
<1> DEFINE holes(frame) == {b \in Fetchable(have, {frame}, until) : Oldest(have) <= b /\ b <= frame.at}
<1> DEFINE r1 == [Doing(op, "fetch") EXCEPT !.have = have]
<1> DEFINE r2(frame) == [r1 EXCEPT !.holes = holes(frame)]
<1> DEFINE r3(frame) == [r2(frame) EXCEPT !.from = fetch_from(have, frame, until)]
<1>1. UNCHANGED <<now, on, traded, late, file, tail, csv>>
  BY DEF BeginSync
<1>2. World' /\ FileBegun' /\ CacheBegun' /\ World /\ FileBegun /\ FramesTold
  BY <1>1, Keeps DEF AskedInv
<1>3. CarriesBegun(Doing(op, "status"))
  BY <1>2, DoingBegun
<1>4. CASE Stored(file) = {}
  <2>1. task' = [task EXCEPT ![t] = Doing(op, "status")] /\ span' = span
    BY <1>4, Zenon DEF BeginSync, Goes
  <2>2. TasksBegun'
    BY <1>1, <1>3, <2>1, TaskGoes
  <2> QED BY <1>1, <1>2, <2>1, <2>2, Keeps DEF AskedInv
<1>5. CASE Stored(file) # {}
  <2>1. PICK frame \in provider_span(t, have) :
           /\ span' = [span EXCEPT ![Process(t)] = frame]
           /\ IF NeedsFetch(have, frame, until) THEN Goes(t, r3(frame)) ELSE Goes(t, Doing(op, "status"))
    BY <1>5, Zenon DEF BeginSync
  <2>2. frame \in Frame /\ Told(frame)
    BY <1>2, <1>5, SpanTold
  <2>3. FramesTold'
    <3>1. Process(t) \in {"loop", "page"}
      BY DEF Process
    <3> QED BY <1>1, <2>1, <2>2, <3>1, SpanGoes
  <2>4. CarriesBegun(r3(frame))
    <3> DEFINE d == Doing(op, "fetch")
    <3>1. CarriesBegun(d) /\ d.pc = "fetch"
      BY <1>2, DoingBegun
    <3>2. have \in SUBSET Bars /\ holes(frame) \in SUBSET Bars
      BY <2>2 DEF Stored, Fetchable, Seen, Frame
    <3>3. fetch_from(have, frame, until) \in Nat /\ fetch_from(have, frame, until) <= DayOf(now)
      BY <1>2, <1>5, StoredDays DEF fetch_from
    <3> DEFINE h == holes(frame)
    <3> DEFINE q == fetch_from(have, frame, until)
    <3> HIDE DEF d, have, holes, h, q
    <3>4. d \in Task /\ DOMAIN d = Fields
      BY <3>1, TaskField DEF CarriesBegun
    <3> DEFINE s1 == [d EXCEPT !.have = have]
    <3>5. s1 \in Task /\ s1.new = d.new /\ s1.bad = d.bad /\ s1.base = d.base /\ s1.pc = "fetch"
      BY <3>1, <3>2, <3>4, TaskField, ExceptField DEF Fields
    <3> HIDE DEF s1
    <3> DEFINE s2 == [s1 EXCEPT !.holes = holes(frame)]
    <3>6. s2 \in Task /\ s2.new = d.new /\ s2.bad = d.bad /\ s2.base = d.base /\ s2.pc = "fetch"
      BY <3>2, <3>5, TaskField, ExceptField DEF Fields
    <3> HIDE DEF s2
    <3> DEFINE s3 == [s2 EXCEPT !.from = q]
    <3>7. /\ s3 \in Task /\ s3.new = d.new /\ s3.bad = d.bad /\ s3.base = d.base /\ s3.pc = "fetch"
          /\ s3.from = q
      BY <3>3, <3>6, TaskField, ExceptField DEF Fields, q
    <3> HIDE DEF s3
    <3>8. CarriesBegun(s3)
      BY <3>1, <3>3, <3>7 DEF CarriesBegun, q
    <3> QED BY <3>8 DEF s3, s2, s1, d, q
  <2>5. \/ task' = [task EXCEPT ![t] = r3(frame)]
        \/ task' = [task EXCEPT ![t] = Doing(op, "status")]
    BY <2>1 DEF Goes
  <2>6. TasksBegun'
    <3> HIDE DEF r3
    <3> QED BY <1>1, <1>3, <2>4, <2>5, TaskGoes
  <2> QED BY <1>2, <2>3, <2>6 DEF AskedInv
<1> QED
  BY <1>4, <1>5

LEMMA AskedFetch ==
  ASSUME AskedInv, NEW t \in Threads, FetchNew(t)
  PROVE  AskedInv'
<1> DEFINE frame == Answer(task[t].from, LastDay)
<1> DEFINE wanted == Wanted(t, frame)
<1> DEFINE r1(pc) == [task[t] EXCEPT !.pc = pc]
<1> DEFINE r2(pc, new) == [r1(pc) EXCEPT !.new = new]
<1> DEFINE r3(pc, new, bad) == [r2(pc, new) EXCEPT !.bad = bad]
<1>1. UNCHANGED <<now, on, traded, late, file, tail, csv>>
  BY DEF FetchNew
<1>2. World' /\ FileBegun' /\ CacheBegun' /\ World
  BY <1>1, Keeps DEF AskedInv
<1>3. task[t] \in Task /\ CarriesBegun(task[t]) /\ task[t].from \in Nat /\ task[t].from <= DayOf(now)
  BY DEF FetchNew, Is, AskedInv, TasksBegun, CarriesBegun, Task
<1>4. frame \in Frame /\ Told(frame) /\ Begun(frame.bars)
  BY <1>2, <1>3, TimeFacts, AnswerTold
<1>5. \A pc \in {"status", "merge"} : CarriesBegun(r1(pc)) /\ r1(pc).pc = pc
  <2> SUFFICES ASSUME NEW pc \in {"status", "merge"} PROVE CarriesBegun(r1(pc)) /\ r1(pc).pc = pc
    OBVIOUS
  <2> DEFINE s == r1(pc)
  <2>1. s \in Task /\ s.new = task[t].new /\ s.bad = task[t].bad /\ s.base = task[t].base /\ s.pc = pc
    BY <1>3, TaskField, ExceptField DEF Fields
  <2> HIDE DEF s
  <2>2. CarriesBegun(s)
    BY <1>3, <2>1 DEF CarriesBegun
  <2> QED BY <2>1, <2>2 DEF s
<1>6. ASSUME NEW pc \in {"status", "merge"}, NEW new \in SUBSET frame.bars, NEW bad \in SUBSET frame.bars
      PROVE  CarriesBegun(r3(pc, new, bad))
  <2>1. new \in SUBSET Bars /\ bad \in SUBSET Bars /\ Begun(new) /\ Begun(bad)
    BY <1>4 DEF Frame, Begun
  <2>2. CarriesBegun(r1(pc)) /\ r1(pc).pc = pc /\ r1(pc) \in Task
    BY <1>5 DEF CarriesBegun
  <2> DEFINE s1 == r1(pc)
  <2> HIDE DEF r1
  <2> DEFINE s2 == [s1 EXCEPT !.new = new]
  <2>3. s2 \in Task /\ s2.new = new /\ s2.base = s1.base /\ s2.pc = pc
    BY <2>1, <2>2, TaskField, ExceptField DEF Fields
  <2> HIDE DEF s2
  <2> DEFINE s3 == [s2 EXCEPT !.bad = bad]
  <2>4. s3 \in Task /\ s3.new = new /\ s3.bad = bad /\ s3.base = s1.base /\ s3.pc = pc
    BY <2>1, <2>3, TaskField, ExceptField DEF Fields
  <2> HIDE DEF s3
  <2>5. CarriesBegun(s3)
    BY <2>1, <2>2, <2>4 DEF CarriesBegun
  <2> QED BY <2>5 DEF s3, s2, r1
<1>7. wanted \ Forming \in SUBSET frame.bars /\ wanted \cap Forming \in SUBSET frame.bars
  BY DEF Wanted
<1>8. CASE task' = [task EXCEPT ![t] = r1("status")] /\ span' = span
  <2>1. TasksBegun'
    <3> DEFINE s == r1("status")
    <3>1. CarriesBegun(s)
      BY <1>5
    <3> HIDE DEF s
    <3>2. task' = [task EXCEPT ![t] = s]
      BY <1>8 DEF s
    <3> QED BY <1>1, <3>1, <3>2, TaskGoes
  <2> QED BY <1>1, <1>2, <1>8, <2>1, Keeps DEF AskedInv
<1>9. ASSUME span' = [span EXCEPT ![Process(t)] = frame],
             NEW pc \in {"status", "merge"},
             task' = [task EXCEPT ![t] = r3(pc, wanted \ Forming, wanted \cap Forming)]
      PROVE  AskedInv'
  <2>1. Process(t) \in {"loop", "page"}
    BY DEF Process
  <2>2. FramesTold'
    <3> HIDE DEF frame
    <3> QED BY <1>1, <1>4, <1>9, <2>1, SpanGoes
  <2>3. CarriesBegun(r3(pc, wanted \ Forming, wanted \cap Forming))
    BY <1>6, <1>7
  <2>4. TasksBegun'
    <3> HIDE DEF r3
    <3> QED BY <1>1, <1>9, <2>3, TaskGoes
  <2> QED BY <1>2, <2>2, <2>4 DEF AskedInv
<1>10. \/ task' = [task EXCEPT ![t] = r1("status")] /\ span' = span
       \/ /\ span' = [span EXCEPT ![Process(t)] = frame]
          /\ \E pc \in {"status", "merge"} :
                task' = [task EXCEPT ![t] = r3(pc, wanted \ Forming, wanted \cap Forming)]
  <2>1. CASE frame.bars = {}
    BY <2>1, Zenon DEF FetchNew, Goes
  <2>2. CASE frame.bars # {}
    <3>1. /\ span' = [span EXCEPT ![Process(t)] = frame]
          /\ task' = [task EXCEPT ![t] = r3(IF wanted = {} THEN "status" ELSE "merge",
                                            wanted \ Forming, wanted \cap Forming)]
      BY <2>2, Zenon DEF FetchNew, Goes
    <3> HIDE DEF r3, wanted, frame
    <3> QED BY <3>1
  <2> QED BY <2>1, <2>2
<1> QED
  BY <1>8, <1>9, <1>10

LEMMA AskedDownload ==
  ASSUME AskedInv, NEW t \in Threads, Download(t)
  PROVE  AskedInv'
<1> DEFINE got == fetch_historical
<1> DEFINE d == Doing("download", "merge")
<1>1. UNCHANGED <<now, on, traded, late, file, span, tail>>
  BY DEF Download
<1>2. World' /\ FileBegun' /\ FramesTold' /\ World
  BY <1>1, Keeps DEF AskedInv
<1>3. /\ got \in [at : Time, new : SUBSET Bars, bad : SUBSET Bars]
      /\ Begun(got.new) /\ Begun(got.bad)
  <2>1. CASE Cached
    BY <2>1 DEF fetch_historical, Cached, AskedInv, CacheBegun
  <2>2. CASE ~Cached
    <3> DEFINE bars == Answer(0, LastDay).bars
    <3>1. bars \in SUBSET Bars /\ Begun(bars) /\ now \in Time
      BY <1>2, TimeFacts, AnswerTold DEF Frame
    <3>2. got = [at |-> now, new |-> bars \ Forming, bad |-> bars \cap Forming]
      BY <2>2 DEF fetch_historical
    <3> HIDE DEF bars, got
    <3> QED BY <3>1, <3>2 DEF Begun
  <2> QED BY <2>1, <2>2
<1>4. csv' = got /\ task' = [task EXCEPT ![t] = [[d EXCEPT !.new = got.new] EXCEPT !.bad = got.bad]]
  BY DEF Download, Goes
<1>5. CarriesBegun(d) /\ d \in Task /\ d.pc = "merge"
  BY <1>2, DoingBegun DEF CarriesBegun
<1> HIDE DEF got, d
<1> DEFINE s1 == [d EXCEPT !.new = got.new]
<1> DEFINE s2 == [s1 EXCEPT !.bad = got.bad]
<1>6. s1 \in Task /\ s1.new = got.new /\ s1.base = d.base /\ s1.pc = "merge"
  BY <1>3, <1>5, TaskField, ExceptField DEF Fields
<1>7. task' = [task EXCEPT ![t] = s2]
  BY <1>4
<1> HIDE DEF s1
<1>8. s2 \in Task /\ s2.new = got.new /\ s2.bad = got.bad /\ s2.base = d.base /\ s2.pc = "merge"
  BY <1>3, <1>6, TaskField, ExceptField DEF Fields
<1> HIDE DEF s2
<1>9. CarriesBegun(s2)
  BY <1>3, <1>5, <1>8 DEF CarriesBegun
<1>10. TasksBegun'
  BY <1>1, <1>7, <1>9, TaskGoes
<1>11. CacheBegun'
  BY <1>1, <1>3, <1>4 DEF CacheBegun, Begun
<1> QED
  BY <1>2, <1>10, <1>11 DEF AskedInv

LEMMA AskedRebuild ==
  ASSUME AskedInv, NEW t \in Threads, RebuildAgain(t)
  PROVE  AskedInv'
<1> DEFINE s == [task[t] EXCEPT !.op = "wedged"]
<1>1. UNCHANGED <<now, on, traded, late, file, span, tail, csv>>
  BY DEF RebuildAgain
<1>2. task[t] \in Task /\ CarriesBegun(task[t])
  BY DEF RebuildAgain, AskedInv, TasksBegun
<1>3. /\ s \in Task /\ s.new = task[t].new /\ s.bad = task[t].bad /\ s.base = task[t].base
      /\ s.pc = task[t].pc /\ s.from = task[t].from
  BY <1>2, TaskField, ExceptField DEF Fields
<1>4. task' = [task EXCEPT ![t] = s]
  BY DEF RebuildAgain, Goes
<1> HIDE DEF s
<1>5. CarriesBegun(s)
  BY <1>2, <1>3 DEF CarriesBegun
<1>6. TasksBegun'
  BY <1>1, <1>4, <1>5, TaskGoes
<1> QED
  BY <1>1, <1>6, Keeps DEF AskedInv

\* A merge loads the file as it is.
LEMMA AskedMerge ==
  ASSUME AskedInv, NEW t \in Threads, Merge(t)
  PROVE  AskedInv'
<1> DEFINE s1 == [task[t] EXCEPT !.pc = "write"]
<1> DEFINE s2 == [s1 EXCEPT !.base = file]
<1> DEFINE s3 == [s2 EXCEPT !.have = {}]
<1> DEFINE s4 == [s3 EXCEPT !.from = 0]
<1>1. UNCHANGED <<now, on, traded, late, file, span, tail, csv>>
  BY DEF Merge
<1>2. task[t] \in Task /\ CarriesBegun(task[t])
  BY DEF Merge, Is, AskedInv, TasksBegun
<1>3. file \in [Bars -> {"none", "partial", "final"}] /\ Begun(Stored(file))
  BY DEF AskedInv, FileBegun
<1>4. task' = [task EXCEPT ![t] = s4]
  BY DEF Merge, Goes
<1>5. s1 \in Task /\ s1.new = task[t].new /\ s1.bad = task[t].bad /\ s1.pc = "write"
  BY <1>2, TaskField, ExceptField DEF Fields
<1> HIDE DEF s1
<1>6. s2 \in Task /\ s2.new = s1.new /\ s2.bad = s1.bad /\ s2.pc = "write" /\ s2.base = file
  BY <1>3, <1>5, TaskField, ExceptField DEF Fields
<1> HIDE DEF s2
<1>7. s3 \in Task /\ s3.new = s1.new /\ s3.bad = s1.bad /\ s3.pc = "write" /\ s3.base = file
  BY <1>6, TaskField, ExceptField DEF Fields
<1> HIDE DEF s3
<1>8. s4 \in Task /\ s4.new = s1.new /\ s4.bad = s1.bad /\ s4.pc = "write" /\ s4.base = file
  BY <1>7, TaskField, ExceptField DEF Fields
<1> HIDE DEF s4
<1>9. CarriesBegun(s4)
  BY <1>2, <1>3, <1>5, <1>8 DEF CarriesBegun
<1>10. TasksBegun'
  BY <1>1, <1>4, <1>9, TaskGoes
<1> QED
  BY <1>1, <1>10, Keeps DEF AskedInv

\* The moment of the sync goes with a task that is begun anew.
LEMMA DoingAt ==
  ASSUME World, NEW op \in {"tick", "sync", "download", "wedged"},
         NEW pc \in {"status", "window"}, NEW at \in Time
  PROVE  CarriesBegun([Doing(op, pc) EXCEPT !.at = at])
<1> DEFINE d == Doing(op, pc)
<1>1. CarriesBegun(d) /\ d.pc = pc /\ d \in Task
  BY DoingBegun DEF CarriesBegun
<1> HIDE DEF d
<1> DEFINE s == [d EXCEPT !.at = at]
<1>2. s \in Task /\ s.new = d.new /\ s.bad = d.bad /\ s.base = d.base /\ s.pc = pc
  BY <1>1, TaskField, ExceptField DEF Fields
<1> HIDE DEF s
<1>3. CarriesBegun(s)
  BY <1>1, <1>2 DEF CarriesBegun
<1> QED
  BY <1>3 DEF s, d

LEMMA AskedWrite ==
  ASSUME AskedInv, NEW t \in Threads, Write(t)
  PROVE  AskedInv'
<1> DEFINE again == [Doing(task[t].op, "status") EXCEPT !.at = task[t].at]
<1>1. UNCHANGED <<now, on, traded, late, span, tail, csv>> /\ file' = Merged(t)
  BY DEF Write
<1>2. World' /\ CacheBegun' /\ FramesTold' /\ World
  BY <1>1, Keeps DEF AskedInv
<1>3. task[t] \in Task /\ CarriesBegun(task[t]) /\ task[t].pc = "write"
  BY DEF Write, Is, AskedInv, TasksBegun
<1>4. /\ task[t].base \in [Bars -> {"none", "partial", "final"}] /\ Begun(Stored(task[t].base))
      /\ Begun(task[t].new) /\ Begun(task[t].bad)
      /\ task[t].op \in {"tick", "sync", "download", "wedged"} /\ task[t].at \in Time
  BY <1>3 DEF CarriesBegun, Task
<1>5. FileBegun'
  <2>1. file' \in [Bars -> {"none", "partial", "final"}]
    BY <1>1, <1>4 DEF Merged
  <2>2. \A b \in Bars : file'[b] # "none" => b <= now + 1
    BY <1>1, <1>4 DEF Merged, Begun, Stored
  <2> QED BY <1>1, <2>1, <2>2 DEF FileBegun, Begun, Stored
<1>6. CarriesBegun(again)
  BY <1>2, <1>4, DoingAt
<1>7. CarriesBegun(Doing("wedged", "done"))
  BY <1>2, DoingBegun
<1>8. \/ task' = [task EXCEPT ![t] = again]
      \/ task' = [task EXCEPT ![t] = Doing("wedged", "done")]
      \/ task' = [task EXCEPT ![t] = None]
  <2>1. CASE Syncing(t)
    BY <2>1, Zenon DEF Write, Goes
  <2>2. CASE task[t].op = "wedged"
    BY <2>2 DEF Write, Goes, Syncing
  <2>3. CASE ~Syncing(t) /\ task[t].op # "wedged"
    BY <2>3 DEF Write, Ends
  <2> QED BY <2>1, <2>2, <2>3
<1>9. TasksBegun'
  <2> HIDE DEF again
  <2> QED BY <1>1, <1>6, <1>7, <1>8, TaskGoes
<1> QED
  BY <1>2, <1>5, <1>9 DEF AskedInv

\* A check replaces one frame at most, or the probe, or both.
LEMMA ChecksTold ==
  ASSUME AskedInv, now' = now, NEW t \in Threads, SyncAnswers(t) \/ Status(t)
  PROVE  FramesTold'
<1> DEFINE have == Stored(file)
<1>1. World /\ FileBegun /\ FramesTold /\ now \in Nat
  BY TimeFacts DEF AskedInv
<1>2. \/ span' = span
      \/ have # {} /\ \E frame \in provider_span(t, have) : span' = [span EXCEPT ![Process(t)] = frame]
  BY Zenon DEF SyncAnswers, Status, Checks
<1>3. \/ tail' = tail
      \/ have # {} /\ \E probe \in Probes(have, TRUE) : tail' = probe
  BY Zenon DEF SyncAnswers, Status, Checks
<1>4. /\ span' \in [{"loop", "page"} -> Frame \union {None}]
      /\ \A p \in {"loop", "page"} : span'[p] # None => Told(span'[p])
  <2>1. CASE span' = span
    BY <1>1, <2>1 DEF FramesTold
  <2>2. CASE have # {} /\ \E frame \in provider_span(t, have) : span' = [span EXCEPT ![Process(t)] = frame]
    <3>1. PICK frame \in provider_span(t, have) : span' = [span EXCEPT ![Process(t)] = frame]
      BY <2>2
    <3>2. frame \in Frame /\ Told(frame)
      BY <1>1, <2>2, SpanTold
    <3>3. Process(t) \in {"loop", "page"}
      BY DEF Process
    <3> QED BY <1>1, <3>1, <3>2, <3>3 DEF FramesTold
  <2> QED BY <1>2, <2>1, <2>2
<1>5. /\ tail' \in Frame \union {None}
      /\ tail' # None => Told(tail') /\ (tail'.at = now \/ now - tail'.at < Probe)
  <2>1. CASE tail' = tail
    BY <1>1, <2>1 DEF FramesTold
  <2>2. CASE have # {} /\ \E probe \in Probes(have, TRUE) : tail' = probe
    <3> DEFINE from == DayOf(Newest(have))
    <3>1. from \in Nat /\ from <= DayOf(now) /\ LastDay \in Nat
      BY <1>1, <2>2, StoredDays, TimeFacts
    <3>2. \/ tail # None /\ tail' = tail
          \/ tail' = Answer(from, LastDay)
          \/ tail' = Outage(from)
      BY <2>2 DEF Probes
    <3>3. Answer(from, LastDay).at = now /\ Outage(from).at = now
      BY DEF Answer, Outage
    <3> HIDE DEF from
    <3> QED BY <1>1, <2>1, <3>1, <3>2, <3>3, AnswerTold
  <2> QED BY <1>3, <2>1, <2>2
<1> QED
  BY <1>4, <1>5 DEF FramesTold, Told

LEMMA AskedAnswer ==
  ASSUME AskedInv, NEW t \in Threads, SyncAnswers(t) \/ Status(t)
  PROVE  AskedInv'
<1> DEFINE judged == [Doing("tick", "window") EXCEPT !.at = task[t].at]
<1>1. UNCHANGED <<now, on, traded, late, file, csv>>
  BY DEF SyncAnswers, Status
<1>2. World' /\ FileBegun' /\ CacheBegun' /\ World
  BY <1>1, Keeps DEF AskedInv
<1>3. FramesTold'
  BY <1>1, ChecksTold
<1>4. \/ task' = task
      \/ task' = [task EXCEPT ![t] = None]
      \/ SyncAnswers(t) /\ task' = [task EXCEPT ![t] = judged]
  BY Zenon DEF SyncAnswers, Status, Checks, Goes, Ends
<1>5. SyncAnswers(t) => CarriesBegun(judged)
  <2> SUFFICES ASSUME SyncAnswers(t) PROVE CarriesBegun(judged)
    OBVIOUS
  <2>1. task[t] \in Task
    BY DEF SyncAnswers, Is, AskedInv, TasksBegun
  <2>2. task[t].at \in Time
    BY <2>1 DEF Task
  <2> QED BY <1>2, <2>2, DoingAt
<1>6. TasksBegun'
  <2> HIDE DEF judged
  <2> QED BY <1>1, <1>4, <1>5, TaskGoes, Keeps
<1> QED
  BY <1>2, <1>3, <1>6 DEF AskedInv

\* The clock goes on: what is too old is dropped, the rest is still of the past.
LEMMA AskedAdvance ==
  ASSUME AskedInv, Advance
  PROVE  AskedInv'
<1>1. now' = now + 1 /\ now \in Nat /\ now' \in Nat /\ UNCHANGED <<on, file, task>>
  BY TimeFacts DEF Advance, AskedInv
<1>2. World'
  <2>1. now' \in Slots .. LastTime
    BY DatasetAssumption DEF Advance, AskedInv, World
  <2>2. traded' \in SUBSET Bars /\ late' \in SUBSET Bars
    BY DEF Advance, AskedInv, World
  <2> QED BY <1>1, <2>1, <2>2 DEF AskedInv, World
<1>3. DayOf(now) \in Nat /\ DayOf(now') \in Nat /\ DayOf(now) <= DayOf(now')
  BY <1>1, DayOfTime
<1>4. \A b \in Bars : b \in Nat
  BY TimeFacts DEF AskedInv
<1>5. FileBegun'
  BY <1>1, <1>4 DEF AskedInv, FileBegun, Begun, Stored
<1>6. CacheBegun'
  <2>1. csv' \in {csv, None}
    BY DEF Advance
  <2>2. csv # None => csv.new \in SUBSET Bars /\ csv.bad \in SUBSET Bars
    BY DEF AskedInv, CacheBegun
  <2> QED BY <1>1, <1>4, <2>1, <2>2 DEF AskedInv, CacheBegun, Begun
<1> DEFINE Later(f) == /\ f.at <= now' /\ f.from <= DayOf(f.at) /\ (f.bars # {} => f.ok)
                       /\ \A b \in f.bars : f.from <= DayOf(b)
<1>7. \A f \in Frame : Told(f) => Later(f)
  BY <1>1, DatasetAssumption DEF Told, Frame, Time
<1>8. FramesTold'
  <2>1. DOMAIN span = {"loop", "page"}
    BY DEF AskedInv, FramesTold
  <2>2. /\ span' \in [{"loop", "page"} -> Frame \union {None}]
        /\ \A p \in {"loop", "page"} : span'[p] \in {span[p], None}
    BY <2>1 DEF Advance, AskedInv, FramesTold
  <2>3. tail' \in Frame \union {None} /\ tail' \in {tail, None}
    BY DEF Advance, AskedInv, FramesTold
  <2>4. tail' # None => now' - tail'.at < Probe
    <3>1. tail' = IF tail # None /\ now + 1 - tail.at < Probe THEN tail ELSE None
      BY DEF Advance
    <3>2. ASSUME tail' # None PROVE tail' = tail /\ now + 1 - tail.at < Probe /\ tail \in Frame
      BY <3>1, <3>2 DEF AskedInv, FramesTold
    <3>3. tail \in Frame => tail.at \in Nat
      BY DatasetAssumption DEF Frame, Time
    <3> QED BY <1>1, <3>2, <3>3
  <2>5. ASSUME NEW p \in {"loop", "page"}, span'[p] # None PROVE Later(span'[p])
    <3>1. span'[p] = span[p] /\ span[p] # None /\ span[p] \in Frame /\ Told(span[p])
      BY <2>2, <2>5 DEF AskedInv, FramesTold
    <3> QED BY <1>7, <3>1
  <2>6. tail' # None => Later(tail')
    <3>1. tail' # None => tail' = tail /\ tail # None /\ tail \in Frame /\ Told(tail)
      BY <2>3 DEF AskedInv, FramesTold
    <3> QED BY <1>7, <3>1
  <2> QED BY <2>2, <2>3, <2>4, <2>5, <2>6 DEF FramesTold, Told
<1>9. TasksBegun'
  <2> SUFFICES ASSUME NEW t \in Threads, task[t] # None PROVE CarriesBegun(task[t])'
    BY <1>1 DEF AskedInv, TasksBegun
  <2>1. task[t] \in Task /\ CarriesBegun(task[t])
    BY DEF AskedInv, TasksBegun
  <2>2. /\ task[t].new \in SUBSET Bars /\ task[t].bad \in SUBSET Bars /\ task[t].from \in Nat
        /\ Stored(task[t].base) \in SUBSET Bars /\ task[t].at \in Time
    BY <2>1 DEF Task, Stored
  <2> QED BY <1>1, <1>3, <1>4, <2>1, <2>2 DEF CarriesBegun, Begun, Stored
<1> QED
  BY <1>2, <1>5, <1>6, <1>8, <1>9 DEF AskedInv

LEMMA AskedInvariant == Spec => []AskedInv
<1>1. AskedInv /\ [Next]_vars => AskedInv'
  <2> SUFFICES ASSUME AskedInv, [Next]_vars PROVE AskedInv'
    OBVIOUS
  <2>1. CASE \E t \in Threads : Tick(t) \/ Sync(t)
    BY <2>1, AskedBegin DEF Tick, Sync
  <2>2. CASE \E t \in Threads : Status(t) \/ SyncAnswers(t)
    BY <2>2, AskedAnswer
  <2>3. CASE \E t \in Threads : FetchNew(t) \/ Download(t) \/ Merge(t) \/ Write(t)
    BY <2>3, AskedFetch, AskedDownload, AskedMerge, AskedWrite
  <2>4. CASE \E t \in Threads : FetchFails(t) \/ RefuseStale(t) \/ Decide(t)
    <3>1. PICK t \in Threads : FetchFails(t) \/ RefuseStale(t) \/ Decide(t)
      BY <2>4
    <3>2. UNCHANGED <<now, on, traded, late, file, span, tail, csv>> /\ task' = [task EXCEPT ![t] = None]
      BY <3>1 DEF FetchFails, RefuseStale, Decide, Ends
    <3> QED BY <3>2, TaskGoes, Keeps DEF AskedInv
  <2>5. CASE \E u \in Pages : RebuildAgain(u)
    BY <2>5, AskedRebuild DEF Threads
  <2>6. CASE FlipSwitch
    <3>1. World'
      BY <2>6 DEF FlipSwitch, AskedInv, World
    <3> QED BY <2>6, <3>1 DEF FlipSwitch, AskedInv, FileBegun, CacheBegun, FramesTold, TasksBegun,
                              Begun, Stored, Told, CarriesBegun
  <2>7. CASE Publish
    <3>1. World'
      BY <2>7 DEF Publish, AskedInv, World
    <3> QED BY <2>7, <3>1 DEF Publish, AskedInv, FileBegun, CacheBegun, FramesTold, TasksBegun,
                              Begun, Stored, Told, CarriesBegun
  <2>8. CASE Advance
    BY <2>8, AskedAdvance
  <2>9. CASE UNCHANGED vars
    BY <2>9, Keeps DEF vars, AskedInv
  <2> QED BY <2>1, <2>2, <2>3, <2>4, <2>5, <2>6, <2>7, <2>8, <2>9 DEF Next, Serve
<1> QED
  BY <1>1, InitAsked, PTL DEF Spec

\* The file, the frames and what the threads carry stay well typed, with any
\* number of threads and whether or not downloads are made during a session.
THEOREM TypeCorrect == Spec => []TypeOK
<1>1. AskedInv => TypeOK
  BY TimeFacts DEF AskedInv, World, FileBegun, CacheBegun, FramesTold, TasksBegun, TypeOK
<1> QED
  BY <1>1, AskedInvariant, PTL

\* A frame at hand was told, and is younger than the night.
LEMMA FramesAtHand ==
  ASSUME AskedInv, NEW p \in {"loop", "page"}, NEW f \in FramesOf(p)
  PROVE  f \in Frame /\ Told(f) /\ f.at \in 0 .. now /\ now <= f.at + Night
<1>1. World /\ FileBegun /\ FramesTold /\ now \in Nat /\ LastDay \in Nat
  BY TimeFacts DEF AskedInv
<1>2. Probe <= Window /\ Window <= Night + 1 /\ Probe \in Nat /\ Window \in Nat /\ Night \in Nat
  BY DatasetAssumption
<1>3. f \in Frame => f.at \in Nat
  BY DatasetAssumption DEF Frame, Time
<1>4. CASE f = span[p] /\ Usable(f)
  <2>1. f \in Frame /\ Told(f) /\ now - f.at < Window
    BY <1>1, <1>4 DEF FramesTold, Usable
  <2> QED BY <1>1, <1>2, <1>3, <2>1 DEF Told
<1>5. CASE f = tail /\ tail # None
  <2>1. f \in Frame /\ Told(f) /\ (f.at = now \/ now - f.at < Probe)
    BY <1>1, <1>5 DEF FramesTold
  <2> QED BY <1>1, <1>2, <1>3, <2>1 DEF Told
<1>6. CASE Stored(file) # {} /\ f = Answer(DayOf(Newest(Stored(file))), LastDay)
  <2> DEFINE from == DayOf(Newest(Stored(file)))
  <2>1. from \in Nat /\ from <= DayOf(now)
    BY <1>1, <1>6, StoredDays
  <2>2. f = Answer(from, LastDay) /\ f.at = now
    BY <1>6 DEF Answer
  <2> HIDE DEF from
  <2> QED BY <1>1, <1>2, <2>1, <2>2, AnswerTold
<1> QED
  BY <1>4, <1>5, <1>6 DEF FramesOf

\* What is written off as untraded has been asked about after it had ended,
\* for any windows of reuse that are no longer than a night.
THEOREM UntradedIsAskedAbout == Spec => []UntradedWasAsked
<1>1. AskedInv => UntradedWasAsked
  <2> SUFFICES ASSUME AskedInv, NEW p \in {"loop", "page"}, NEW frames \in SUBSET FramesOf(p),
                      Stored(file) # {},
                      NEW b \in NoTrades(Stored(file), frames, {}, last_closed_bar(now))
               PROVE  \E f \in frames : f.ok /\ b <= f.at /\ f.from <= DayOf(b) /\ b \notin f.bars
    BY DEF UntradedWasAsked
  <2>1. \A f \in frames : f \in Frame /\ Told(f) /\ f.at \in 0 .. now /\ now <= f.at + Night
    BY FramesAtHand
  <2>2. now \in Nat /\ b \in Bars /\ b \in Nat /\ DayOf(b) \in Nat /\ Night \in Nat
    BY TimeFacts, DatasetAssumption DEF AskedInv, NoTrades, Slotted
  <2>3. b <= now
    <3>1. last_closed_bar(now) <= now /\ last_closed_bar(now) \in Nat
      BY ClosedBarIsPast, TimeFacts DEF AskedInv, World
    <3>2. b <= last_closed_bar(now)
      BY DEF NoTrades, Slotted
    <3> QED BY <2>2, <3>1, <3>2
  <2>4. \A f \in frames : b \notin f.bars
    BY DEF NoTrades, Slotted, Fetchable, Seen
  <2>5. PICK f \in Answered(frames) : b <= f.at
    <3> DEFINE ats == {f.at : f \in Answered(frames)}
    <3>1. ats \in SUBSET (0 .. now) /\ ats # {} /\ b <= Newest(ats)
      BY <2>1 DEF NoTrades, Reached, Answered, asked_until
    <3>2. Newest(ats) \in ats
      <4> HIDE DEF ats
      <4> QED BY <2>2, <3>1, NewestIsHeld
    <3> QED BY <3>1, <3>2
  <2>6. f \in frames /\ f.ok /\ f \in Frame /\ Told(f) /\ f.at \in Nat /\ f.at <= now
    BY <2>1, <2>5 DEF Answered
  <2>7. CASE f.from <= DayOf(b)
    BY <2>4, <2>5, <2>6, <2>7
  <2>8. CASE ~ (f.from <= DayOf(b))
    <3>1. PICK g \in frames : \E c \in g.bars : DayOf(c) = DayOf(b)
      BY DEF NoTrades, traded_days, Seen
    <3>2. g.ok /\ g.from <= DayOf(b) /\ g.at \in Nat /\ now <= g.at + Night
      BY <2>1, <3>1 DEF Told
    <3>3. DayOf(f.at) \in Nat /\ f.from \in Nat /\ f.from <= DayOf(f.at)
      BY <2>6, DayOfTime DEF Told, Frame
    <3>4. b + Night <= f.at
      BY <2>2, <2>6, <2>8, <3>3, NightAfter
    <3>5. b <= g.at
      BY <2>2, <2>6, <3>2, <3>4
    <3> QED BY <2>4, <3>1, <3>2, <3>5
  <2> QED BY <2>7, <2>8
<1> QED
  BY <1>1, AskedInvariant, PTL

=============================================================================
