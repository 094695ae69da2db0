------------------------------- MODULE Dataset -------------------------------
(***************************************************************************)
(* The dataset file and the bars that go into it: the delta sync of a tick *)
(* or a panel, downloads of the whole window, and the decision that is     *)
(* made on what is then in the file (src/data/delta.py, dataset.py,        *)
(* historical.py, openbb_client.py, dataset_service.py, orchestrator.py).  *)
(*                                                                         *)
(* One file is written by the loop and by the dashboard's threads.  Each   *)
(* loads it, merges and writes it back, nothing is locked, and a provider  *)
(* call between the two takes as long as it takes.                         *)
(*                                                                         *)
(* The bars are intraday.  One is named by the moment it closes; a day has *)
(* Slots of them and then a night in which nothing trades.                 *)
(***************************************************************************)
EXTENDS Integers, FiniteSets

CONSTANTS
    Loop, Pages,       \* the threads: the loop's tick, and the dashboard's
    Slots, Night,      \* bars of a session; the time between two of them
    Window, Probe,     \* how long a frame of the range, or of its end, is reused
    LastTime,          \* bound: the last moment of the last day
    LateBars,          \* bars that may be published late
    MidSession,        \* may the whole window be downloaded during a session?
    None

Day  == Slots + Night
Time == 0 .. LastTime

ASSUME DatasetAssumption ==
    /\ Slots \in Nat \ {0} /\ Night \in Nat \ {0}
    /\ LastTime \in Nat /\ Slots <= LastTime /\ LateBars \subseteq Nat
    /\ Probe \in Nat /\ Window \in Nat /\ Probe <= Window /\ Window <= Night + 1
    /\ MidSession \in BOOLEAN
    /\ Loop \notin Pages

Threads == Pages \union {Loop}
Bars    == {b \in Time : b % Day \in 1 .. Slots}
DayOf(b) == b \div Day

VARIABLES
    now,
    on,          \* the switch: the loop ticks, the dashboard may not write
    traded,      \* the bars somebody trades in, the one that is forming included
    late,        \* closed bars the provider has yet to publish
    file,        \* the dataset: how good the stored prices of each bar are
    span, tail,  \* each process's frames of the whole range and of what is new
    csv,         \* the download cache
    task         \* what each thread is doing

vars == <<now, on, traded, late, file, span, tail, csv, task>>

\* What the provider answered, and when and from which day on it was asked.
\* ok is FALSE when it could not be reached.
Frame == [at : Time, from : Nat, bars : SUBSET Bars, ok : BOOLEAN]
Task  == [op : {"tick", "sync", "download", "wedged"},
          pc : {"fetch", "merge", "write", "status", "window", "done"},
          at : Time, have : SUBSET Bars, holes : SUBSET Bars, from : Nat,
          new : SUBSET Bars, bad : SUBSET Bars,
          base : [Bars -> {"none", "partial", "final"}] \union {None}]

TypeOK ==
    /\ now \in Time /\ on \in BOOLEAN /\ late \in SUBSET Bars
    /\ traded \in SUBSET Bars
    /\ file \in [Bars -> {"none", "partial", "final"}]
    /\ span \in [{"loop", "page"} -> Frame \union {None}]
    /\ tail \in Frame \union {None}
    /\ csv \in [at : Time, new : SUBSET Bars, bad : SUBSET Bars] \union {None}
    /\ task \in [Threads -> Task \union {None}]

\* After the first day, with what was published of it in the file, or no file.
Init ==
    /\ now = Slots /\ on \in BOOLEAN
    /\ traded = {b \in Bars : b <= now} /\ late \in SUBSET (LateBars \cap traded)
    /\ file \in {[b \in Bars |-> IF b \in bars THEN "final" ELSE "none"] : bars \in {{}, traded \ late}}
    /\ span = [p \in {"loop", "page"} |-> None] /\ tail = None /\ csv = None
    /\ task = [t \in Threads |-> None]

(***************************************************************************)
(* Bars and sessions (dataset.py).                                         *)
(***************************************************************************)

Newest(bars) == CHOOSE b \in bars : \A c \in bars : c <= b
Oldest(bars) == CHOOSE b \in bars : \A c \in bars : b <= c
Stored(f)    == {b \in Bars : f[b] # "none"}

\* The newest slot of the session's grid whose interval has passed at t.
last_closed_bar(t) == Newest({b \in Bars : b <= t})

\* The times of day at least half of the stored sessions have.
session_grid(have) ==
    LET days == {DayOf(b) : b \in have}
    IN  {s \in 1 .. Slots :
            2 * Cardinality({d \in days : d * Day + s \in have}) >= Cardinality(days)}

\* Absent days strictly between the first and the last (no weekends here).
interior_candidates(have) ==
    {d \in DayOf(Oldest(have)) .. DayOf(Newest(have)) : \A b \in have : DayOf(b) # d}

\* The bar that is still forming, if the market is open.
Forming == {b \in Bars : b = now + 1}

(***************************************************************************)
(* The provider.                                                           *)
(***************************************************************************)

Published == {b \in traded : b <= now} \ late

\* What there is of those days, a bar that is still forming included.  A bar
\* without a price is dropped, so until it has one it is late.
Answer(from, to) ==
    [at |-> now, from |-> from, ok |-> TRUE, bars |->
        {b \in Published \union (traded \cap Forming) : DayOf(b) \in from .. to}]

\* An outage, a refusal, or a call that was abandoned at its deadline.
Outage(from) == [at |-> now, from |-> from, ok |-> FALSE, bars |-> {}]

LastDay == DayOf(LastTime)

Usable(frame) == frame # None /\ now - frame.at < Window
Process(t)    == IF t = Loop THEN "loop" ELSE "page"

\* The frame over the stored range: the cached one, or a new one.
provider_span(t, have) ==
    IF Usable(span[Process(t)]) THEN {span[Process(t)]}
    ELSE LET from == DayOf(Oldest(have))
         IN  {Answer(from, DayOf(Newest(have)) + 1), Outage(from)}

(***************************************************************************)
(* What is missing, and why (_missing_bar_rows).                           *)
(***************************************************************************)

Seen(frames)        == UNION {f.bars : f \in frames}
Answered(frames)    == {f \in frames : f.ok /\ f.bars # {}}
traded_days(frames) == {DayOf(b) : b \in Seen(frames)}
asked_until(frames) == Newest({f.at : f \in Answered(frames)})

Fetchable(have, frames, until) == {b \in Seen(frames) \ have : b <= until}

\* Slots a day we hold lacks, and every slot of a day the provider traded.
Slotted(have, absent, until) ==
    {b \in Bars \ have :
        /\ b <= until
        /\ b % Day \in session_grid(have)
        /\ DayOf(b) \in absent \union {DayOf(c) : c \in have}}

\* Defect: silence is believed whenever the frame was asked.
EverReached(b, frames) == b \in Bars /\ Answered(frames) # {}

\* A frame's silence counts for intervals that had ended when it was asked.
Reached(b, frames) == Answered(frames) # {} /\ b <= asked_until(frames)

NoTrades(have, frames, absent, until) ==
    {b \in Slotted(have, absent, until) \ Fetchable(have, frames, until) :
        DayOf(b) \in traded_days(frames) /\ Reached(b, frames)}

Unconfirmed(have, frames, absent, until) ==
    (Slotted(have, absent, until) \ Fetchable(have, frames, until))
        \ NoTrades(have, frames, absent, until)

(***************************************************************************)
(* The delta sync (sync_missing_days).                                     *)
(***************************************************************************)

Is(t, pc) == task[t] # None /\ task[t].pc = pc
Ends(t)   == task' = [task EXCEPT ![t] = None]
Goes(t, new) == task' = [task EXCEPT ![t] = new]
Doing(op, pc) ==
    [op |-> op, pc |-> pc, at |-> IF op \in {"tick", "sync"} THEN now ELSE 0, have |-> {}, holes |-> {}, from |-> 0,
     new |-> {}, bad |-> {}, base |-> None]

interior_needs_provider(frame, interior) ==
    /\ interior # {}
    /\ frame.ok /\ frame.bars # {} => \E d \in interior : d \in traded_days({frame})

\* Defect: a day of overlap, also before the first.
DayBefore(have, frame, until) == DayOf(Oldest(have)) - 1

\* Defect: only what is new is fetched, whatever is missing before it.
TailOnly(have, frame, until) == DayOf(Newest(have))

\* The whole range when something inside it can be filled, else the last day.
fetch_from(have, frame, until) ==
    IF Fetchable(have, {frame}, until) # {} \/
           interior_needs_provider(frame, interior_candidates(have))
    THEN DayOf(Oldest(have)) ELSE DayOf(Newest(have))

NeedsFetch(have, frame, until) ==
    \/ Newest(have) < until
    \/ Fetchable(have, {frame}, until) # {}
    \/ interior_needs_provider(frame, interior_candidates(have))

\* The range is looked at through the cached frame, or a new one.
BeginSync(t, op) ==
    LET have == Stored(file)
    IN  /\ task[t] = None
        /\ IF have = {} THEN Goes(t, Doing(op, "status")) /\ UNCHANGED span
           ELSE \E frame \in provider_span(t, have) :
                  /\ span' = [span EXCEPT ![Process(t)] = frame]
                  /\ IF NeedsFetch(have, frame, last_closed_bar(now))
                     THEN Goes(t, [Doing(op, "fetch") EXCEPT
                                     !.have = have,
                                     !.holes = {b \in Fetchable(have, {frame}, last_closed_bar(now)) :
                                                   Oldest(have) <= b /\ b <= frame.at},
                                     !.from = fetch_from(have, frame, last_closed_bar(now))])
                     ELSE Goes(t, Doing(op, "status"))
        /\ UNCHANGED <<now, on, traded, late, file, tail, csv>>

Tick(t) == on /\ t = Loop /\ Forming # {} /\ BeginSync(t, "tick")
Sync(t) == ~on /\ t \in Pages /\ BeginSync(t, "sync")

Syncing(t) == task[t].op \in {"tick", "sync"}

\* Defect: a bar counts as closed when it has begun.
WantedForming(t, frame) ==
    {b \in frame.bars \ task[t].have :
        Oldest(task[t].have) <= b /\ b <= task[t].at + 1}

\* Closed when the sync began, inside the stored range, and not in the file.
Wanted(t, frame) ==
    {b \in frame.bars \ task[t].have :
        Oldest(task[t].have) <= b /\ b <= last_closed_bar(task[t].at)}

\* The fetched frame is remembered as the frame of the range.
FetchNew(t) ==
    LET frame == Answer(task[t].from, LastDay)
    IN  /\ Is(t, "fetch")
        /\ IF frame.bars = {} THEN Goes(t, [task[t] EXCEPT !.pc = "status"]) /\ UNCHANGED span
           ELSE /\ span' = [span EXCEPT ![Process(t)] = frame]
                /\ Goes(t, [task[t] EXCEPT
                              !.pc = IF Wanted(t, frame) = {} THEN "status" ELSE "merge",
                              !.new = Wanted(t, frame) \ Forming,
                              !.bad = Wanted(t, frame) \cap Forming])
        /\ UNCHANGED <<now, on, traded, late, file, tail, csv>>

\* The tick is refused; a panel shows the error.
FetchFails(t) ==
    /\ Is(t, "fetch")
    /\ Ends(t)
    /\ UNCHANGED <<now, on, traded, late, file, span, tail, csv>>

(***************************************************************************)
(* Downloads of the whole window (dataset_service, fetch_candles).         *)
(***************************************************************************)

\* The same window asked for on the same day is read from the cache.
Cached == csv # None /\ DayOf(csv.at) = DayOf(now)

\* A backfill or a rebuild: one at a time, admitted while trading is off.  The
\* loop's own comes before a switch of instrument, always during a session.
MayDownload(t) ==
    IF t = Loop THEN on /\ Forming # {}
                ELSE ~on /\ \A u \in Pages : task[u] # None => Syncing(u)

\* The whole window: the cached candles, or whatever the provider shows.
fetch_historical ==
    LET bars == Answer(0, LastDay).bars
    IN  IF Cached THEN csv
        ELSE [at |-> now, new |-> bars \ Forming, bad |-> bars \cap Forming]

\* What was fetched is cached and saved; a failure, or no bars, changes nothing.
Download(t) ==
    LET got == fetch_historical
    IN  /\ task[t] = None /\ MayDownload(t)
        /\ MidSession \/ Forming = {}
        /\ got.new \union got.bad # {}
        /\ csv' = got
        /\ Goes(t, [Doing("download", "merge") EXCEPT !.new = got.new, !.bad = got.bad])
        /\ UNCHANGED <<now, on, traded, late, file, span, tail>>

\* Asked for a rebuild while one runs, start_rebuild waits for the lock it
\* holds: nobody will get it again, and the rebuild cannot say that it is over.
RebuildAgain(u) ==
    /\ ~on /\ u \in Pages /\ task[u] # None /\ task[u].op = "download"
    /\ Goes(u, [task[u] EXCEPT !.op = "wedged"])
    /\ UNCHANGED <<now, on, traded, late, file, span, tail, csv>>

(***************************************************************************)
(* Writing the file (save_dataset).                                        *)
(***************************************************************************)

Merge(t) ==
    /\ Is(t, "merge")
    /\ Goes(t, [task[t] EXCEPT !.pc = "write", !.base = file, !.have = {}, !.from = 0])
    /\ UNCHANGED <<now, on, traded, late, file, span, tail, csv>>

\* The last write wins, bar by bar, over the copy that was loaded.
Merged(t) ==
    [b \in Bars |-> IF b \in task[t].new THEN "final"
                    ELSE IF b \in task[t].bad THEN "partial" ELSE task[t].base[b]]

Write(t) ==
    /\ Is(t, "write")
    /\ file' = Merged(t)
    /\ CASE Syncing(t) -> Goes(t, [Doing(task[t].op, "status") EXCEPT !.at = task[t].at])
         [] task[t].op = "wedged" -> Goes(t, Doing("wedged", "done"))
         [] OTHER -> Ends(t)
    /\ UNCHANGED <<now, on, traded, late, span, tail, csv>>

(***************************************************************************)
(* The state of the dataset (dataset_delta_status), also a sync's answer.  *)
(***************************************************************************)

\* A page's own check reuses its last probe; the one after a sync asks anew.
Probes(have, reuse) ==
    IF reuse /\ tail # None /\ now - tail.at < Probe THEN {tail}
    ELSE LET from == DayOf(Newest(have)) IN {Answer(from, LastDay), Outage(from)}

\* Days the probe traded that the file has nothing of, and holes it holds.
Missing(have, probe, frames, until) ==
    ({DayOf(b) : b \in {c \in probe.bars : Newest(have) < c /\ c <= until}}
        \ {DayOf(b) : b \in have}) \union (interior_candidates(have) \cap traded_days(frames))

NeedsSpan(have, probes, until) ==
    \/ interior_candidates(have) # {}
    \/ Unconfirmed(have, probes, UNION {Missing(have, f, {}, until) : f \in probes}, until) # {}

\* What a check does to the frames; it answers unless the provider is out.
Checks(t, reuse, Done, Fails) ==
    LET have == Stored(file)
        Spans(probes) ==
            IF NeedsSpan(have, probes, last_closed_bar(now))
            THEN \E frame \in provider_span(t, have) : span' = [span EXCEPT ![Process(t)] = frame]
            ELSE UNCHANGED span
    IN  IF have = {} THEN Done /\ UNCHANGED <<span, tail>>
        ELSE IF Newest(have) >= last_closed_bar(now)
        THEN Done /\ Spans({}) /\ UNCHANGED tail
        ELSE \E probe \in Probes(have, reuse) :
               /\ tail' = IF reuse THEN probe ELSE tail
               /\ IF probe.ok THEN Done /\ Spans(Answered({probe}))
                              ELSE Fails /\ UNCHANGED span

Status(t) ==
    /\ ~on /\ t \in Pages /\ task[t] = None
    /\ Checks(t, TRUE, UNCHANGED task, UNCHANGED task)
    /\ UNCHANGED <<now, on, traded, late, file, csv>>

\* After its sync a tick goes on to decide.
SyncAnswers(t) ==
    /\ Is(t, "status")
    /\ Checks(t, FALSE,
              IF task[t].op = "tick" THEN Goes(t, [Doing("tick", "window") EXCEPT !.at = task[t].at])
                                     ELSE Ends(t),
              Ends(t))
    /\ UNCHANGED <<now, on, traded, late, file, csv>>

(***************************************************************************)
(* The decision (orchestrator._window).                                    *)
(***************************************************************************)

WindowOf(t) == {b \in Stored(file) : b <= last_closed_bar(task[t].at)}

\* Nothing up to the bar that should have closed, or an older bar: refused.
Stale(t) == last_closed_bar(task[t].at) \notin Stored(file)

RefuseStale(t) ==
    /\ Is(t, "window") /\ Stale(t)
    /\ Ends(t)
    /\ UNCHANGED <<now, on, traded, late, file, span, tail, csv>>

Decide(t) ==
    /\ Is(t, "window") /\ ~Stale(t)
    /\ Ends(t)
    /\ UNCHANGED <<now, on, traded, late, file, span, tail, csv>>

(***************************************************************************)
(* The rest of the world.                                                  *)
(***************************************************************************)

FlipSwitch ==
    /\ on' = ~on
    /\ UNCHANGED <<now, traded, late, file, span, tail, csv, task>>

Publish ==
    /\ late # {} /\ late' = {}
    /\ UNCHANGED <<now, on, traded, file, span, tail, csv, task>>

\* A bar closes and somebody trades in the next, or nobody does.  Frames past
\* their window, and the candles of yesterday, are not looked at any more.
Advance ==
    /\ now < LastTime
    /\ now' = now + 1
    /\ \E some \in SUBSET (Bars \cap {now + 2}) : traded' = traded \union some
    /\ \E some \in SUBSET (LateBars \cap traded \cap {now + 1}) : late' = late \union some
    /\ span' = [p \in DOMAIN span |->
                   IF span[p] # None /\ now + 1 - span[p].at < Window THEN span[p] ELSE None]
    /\ tail' = IF tail # None /\ now + 1 - tail.at < Probe THEN tail ELSE None
    /\ csv' = IF csv # None /\ DayOf(csv.at) = DayOf(now + 1) THEN csv ELSE None
    /\ UNCHANGED <<on, file, task>>

Serve(t) ==
    \/ FetchNew(t) \/ FetchFails(t) \/ Merge(t) \/ Write(t)
    \/ SyncAnswers(t) \/ RefuseStale(t) \/ Decide(t)

Next ==
    \/ \E t \in Threads : Tick(t) \/ Sync(t) \/ Status(t) \/ Download(t) \/ Serve(t)
    \/ \E u \in Pages : RebuildAgain(u)
    \/ FlipSwitch \/ Publish \/ Advance

Spec == Init /\ [][Next]_vars

=============================================================================
