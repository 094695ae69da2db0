------------------------------- MODULE DailyTick -------------------------------
(***************************************************************************)
(* A day of ticks: the automation that may change the instrument, the loss *)
(* limits that stop new entries, and the logs both of them are judged by   *)
(* (orchestrator.py, scheduler/instrument.py, data/instrument_automation.py, *)
(* config/automation.py, automation_service.py, strategy/limits.py,        *)
(* execution/store.py).                                                    *)
(*                                                                         *)
(* "Once a day" and "after so many losses" are read back from logs that    *)
(* the loop appends to when a tick is over: a row that never got there, or *)
(* cannot be read, did not happen.                                         *)
(***************************************************************************)
EXTENDS Integers, Sequences, FiniteSets

CONSTANTS
    N,            \* instruments, in the order the screener has them
    Size,         \* how many of them a list keeps
    Measures,     \* what a screener says of a change or a volume
    Margin,       \* the lead that is worth a switch
    Criteria,     \* the settings of the automation that the panel may save
    MaxLosses,    \* the limit on losses in a row
    MaxLoss,      \* the limit on the account's loss of the day, if there is one
    Losses,       \* what such a loss may be, in the same percents
    MaxTime, MaxLists, MaxFaults,   \* bounds
    None

Insts == 1 .. N
Modes == {"not_in_list", "not_first", "margin"}
Automation == [on : BOOLEAN, enter : {1, 2}, mode : Modes, flat : BOOLEAN, once : BOOLEAN]

ASSUME DailyAssumption ==
    /\ N \in Nat \ {0} /\ Size \in Nat \ {0} /\ Margin \in Nat
    /\ Measures \subseteq Nat /\ None \notin Nat
    /\ Criteria \subseteq Automation /\ Criteria # {}
    /\ MaxLosses \in Nat \ {0}
    /\ MaxLoss \in Nat \union {None} /\ Losses \subseteq Int
    /\ MaxTime \in Nat \ {0} /\ MaxLists \in Nat /\ MaxFaults \in Nat

VARIABLES
    now,       \* the time: out of session, in session, by turns
    inst,      \* the instrument of the strategy
    auto,      \* the automation's settings
    list,      \* the cached list
    position,  \* at the account, for the strategy
    ticks,     \* today's tick log: does it show a switch, does it end in half a line?
    trades,    \* the run of losses that today's rows of the trade log end in
    torn,      \* does the trade log end in half a line?
    tick,      \* the tick in progress
    screens, made, losses, used, faults   \* history, and the bounds

logVars     == <<ticks, trades, torn>>
historyVars == <<made, losses, used, faults>>
vars == <<now, inst, auto, list, position, logVars, tick, screens, historyVars>>

Day(t)       == t \div 2
InSession(t) == t % 2 = 1

Results == {"win", "loss", "skipped"}   \* what cannot be measured counts as skipped
Row  == [inst : Insts, score : Nat]
List == [id : Nat, rows : Seq(Row)]
Tick == [pc : {"apply", "gates", "drive"}, auto : Automation \union {None},
         list : List \union {None}, working : BOOLEAN, halt : BOOLEAN]

TypeOK ==
    /\ now \in 0 .. MaxTime
    /\ inst \in Insts
    /\ auto \in Automation
    /\ list \in List \union {None} /\ (list # None => list.rows # <<>>)
    /\ position \in {"none", "working", "held"}
    /\ ticks \in [switched : BOOLEAN, torn : BOOLEAN]
    /\ trades \in 0 .. MaxLosses /\ torn \in BOOLEAN
    /\ tick \in Tick \union {None}
    /\ screens \in 0 .. MaxLists /\ faults \in 0 .. MaxFaults
    /\ made \in Nat /\ losses \in Nat /\ used \in 0 .. MaxLists

Init ==
    /\ now = 1 /\ inst = 1
    /\ auto \in Criteria
    /\ list = None
    /\ position = "none"
    /\ ticks = [switched |-> FALSE, torn |-> FALSE] /\ trades = 0 /\ torn = FALSE
    /\ tick = None
    /\ screens = 0 /\ made = 0 /\ losses = 0 /\ used = 0 /\ faults = 0

(***************************************************************************)
(* The list (data/instrument_automation.py).                               *)
(***************************************************************************)

\* What a screening brings: the instruments that have a symbol and a price and
\* pass the filters.  A filter that is not set lets a missing volume through, and
\* none of them asks for a change.
Frames == UNION {[S -> [change : Measures \union {None}, volume : Measures \union {None}]] : S \in SUBSET Insts}

\* Best first, the missing last; what is equal stays in the screener's order.
Ahead(f, i, j) == \/ f[j] = None /\ f[i] # None
                  \/ f[j] # None /\ f[i] # None /\ f[i] > f[j]
                  \/ f[i] = f[j] /\ i < j
_ranked(f, i) == 1 + Cardinality({j \in DOMAIN f : Ahead(f, j, i)})

change(frame) == [i \in DOMAIN frame |-> frame[i].change]
volume(frame) == [i \in DOMAIN frame |-> frame[i].volume]
score(frame) == [i \in DOMAIN frame |-> _ranked(change(frame), i) + _ranked(volume(frame), i)]

\* The two ranks blended, a tie going to the better change; the first Size of them.
rank_rows(frame) ==
    LET Before(i, j) == \/ score(frame)[i] < score(frame)[j]
                        \/ /\ score(frame)[i] = score(frame)[j]
                           /\ _ranked(change(frame), i) < _ranked(change(frame), j)
        place(i)     == 1 + Cardinality({j \in DOMAIN frame : Before(j, i)})
        kept         == IF Cardinality(DOMAIN frame) < Size THEN Cardinality(DOMAIN frame) ELSE Size
    IN  [k \in 1 .. kept |->
            LET i == CHOOSE i \in DOMAIN frame : place(i) = k
            IN  [inst |-> i, score |-> score(frame)[i]]]

\* Every list that a screening may bring.
Lists == {rank_rows(frame) : frame \in Frames}

\* Defect: an empty list is a list.
ScreenedEmpty(rows) == [id |-> screens + 1, rows |-> rows]

\* A new list; one without rows reads as none.
Screened(rows) == IF rows = <<>> THEN None ELSE [id |-> screens + 1, rows |-> rows]

OnList(rows)   == {rows[k].inst : k \in DOMAIN rows}
ScoreOf(rows, i) == rows[CHOOSE k \in DOMAIN rows : rows[k].inst = i].score

\* Defect: no lead at all is needed, and the leader may replace itself.
DecideAnyLead(mode, current, rows) ==
    IF mode = "not_first" THEN current # rows[1].inst ELSE TRUE

\* May the leader replace the current instrument?
decide(mode, current, rows) ==
    CASE mode = "not_first"   -> current # rows[1].inst
      [] mode = "margin"      -> \/ current \notin OnList(rows)
                                 \/ ScoreOf(rows, current) - rows[1].score >= Margin
      [] mode = "not_in_list" -> current \notin OnList(rows)

(***************************************************************************)
(* The logs (execution/store.py).                                          *)
(***************************************************************************)

\* Defect: a loss is forgotten as soon as something was skipped.
StreakOfLast(streak, result) == IF result = "loss" /\ streak < MaxLosses THEN streak + 1 ELSE 0

\* The losses since the last win, as far as the limit; other rows are passed over.
losing_streak(streak, result) ==
    CASE result = "loss" -> IF streak < MaxLosses THEN streak + 1 ELSE streak
      [] result = "win"  -> 0
      [] OTHER           -> streak

\* ... after these rows, read in their order.
StreakAfter(streak, rows) ==
    LET run[k \in 0 .. Len(rows)] == IF k = 0 THEN streak ELSE losing_streak(run[k - 1], rows[k])
    IN  run[Len(rows)]

\* A line that follows half a line is lost with it.
Readable(rows) == IF torn /\ rows # <<>> THEN Tail(rows) ELSE rows

\* Defect: a switch is not logged.
DecidedOnly(switched) == [switched |-> ticks.switched, torn |-> FALSE]

append_tick(switched) ==
    [switched |-> ticks.switched \/ (switched /\ ~ticks.torn), torn |-> FALSE]

\* The first n rows of a tick are written: its own, and one for each trade it
\* closed.  If there is half of another one, a crash has left it.
Written(switched, legs, n, half) ==
    LET rows == SubSeq(legs, 1, n - 1)
    IN  /\ ticks'  = IF n = 0 THEN [ticks EXCEPT !.torn = @ \/ half] ELSE append_tick(switched)
        /\ trades' = StreakAfter(trades, Readable(rows))
        /\ torn'   = IF n > 0 /\ half THEN TRUE ELSE torn /\ rows = <<>>

\* The tick is over.  One failure ends the writing, and so does a crash, or a
\* decision that failed after it had booked something.
finish(switched, legs) ==
    /\ tick' = None
    /\ \/ Written(switched, legs, Len(legs) + 1, FALSE) /\ UNCHANGED faults
       \/ /\ faults < MaxFaults /\ faults' = faults + 1
          /\ \E n \in 0 .. Len(legs), half \in BOOLEAN : Written(switched, legs, n, half)

(***************************************************************************)
(* The instrument gate (scheduler/instrument.py).                          *)
(***************************************************************************)

\* Past the instrument gate, what that gate went by is forgotten.
Past(pc) == [pc |-> pc, auto |-> None, list |-> None, working |-> FALSE, halt |-> FALSE]

\* What the tick judges: the cached list while it is good, else a new one.  It
\* may have aged at any time, and a screener that refuses leaves the one that
\* was there, whatever session or criteria it is of.
cache_and_screen ==
    {[list |-> list, screens |-> screens]} \union
    {[list |-> Screened(rows), screens |-> screens + 1] :
        rows \in IF screens < MaxLists THEN Lists ELSE {}}

last_switch_today == ticks.switched

\* Defect: an account that cannot be read is taken for flat.
HeldIfSeen == {position = "held", FALSE}

\* An account that cannot be read is not flat; an order that is still working
\* is not a position.
_held_anything == {position = "held", TRUE}

\* The list is only judged in session, and only until the day's switch is made.
Judges == auto.on /\ InSession(now) /\ ~(auto.once /\ last_switch_today)

Switches(judged, held) ==
    judged # None /\ judged.rows # <<>> /\ decide(auto.mode, inst, judged.rows) /\ ~(auto.flat /\ held)

evaluate ==
    /\ tick = None /\ Judges
    /\ \E judged \in cache_and_screen, held \in _held_anything :
         /\ list' = judged.list /\ screens' = judged.screens
         /\ tick' = IF Switches(judged.list, held)
                    THEN [Past("apply") EXCEPT !.auto = auto, !.list = judged.list,
                                               !.working = position = "working"]
                    ELSE Past("gates")
    /\ UNCHANGED <<now, inst, auto, position, logVars, historyVars>>

NothingToJudge ==
    /\ tick = None /\ ~Judges
    /\ tick' = Past("gates")
    /\ UNCHANGED <<now, inst, auto, list, position, logVars, screens, historyVars>>

At(pc) == tick # None /\ tick.pc = pc

\* The history is fetched, and then the instrument is the strategy's and the
\* tick is over.  Without the history there is no switch.
apply ==
    /\ At("apply")
    /\ \/ /\ inst' = tick.list.rows[1].inst
          /\ made' = IF tick.auto.once THEN made + 1 ELSE made
          /\ used' = tick.list.id
          /\ finish(TRUE, <<>>)
       \/ /\ tick' = Past("gates")
          /\ UNCHANGED <<inst, made, used, faults, logVars>>
    /\ UNCHANGED <<now, auto, list, position, screens, losses>>

(***************************************************************************)
(* The day's limits (strategy/limits.py, execution/accounts.py).           *)
(***************************************************************************)

\* The account as it is read now: the loss since it opened, negative for a gain;
\* or nothing, when it has no key, does not answer or answers with no balance.
snapshot == Losses \union {None}

\* An account that cannot be read has not been shown to be within its limit; a
\* limit of zero stops at a loss, not at a day that ends even.
_account_halts(loss) ==
    MaxLoss # None /\ (loss = None \/ (loss > 0 /\ loss >= MaxLoss))

day_halt_reason(loss, streak) == _account_halts(loss) \/ streak >= MaxLosses

\* Facts that cannot be gathered stop new entries too.
_day_loss_halt(loss, gathered) == ~gathered \/ day_halt_reason(loss, trades)

\* So does a loop that runs older code than there is on disk.
_new_entries_blocked ==
    {stale \/ _day_loss_halt(loss, gathered) :
        stale \in BOOLEAN, loss \in snapshot, gathered \in BOOLEAN}

(***************************************************************************)
(* The other gates and the decision (orchestrator.py).                     *)
(***************************************************************************)

\* A gate refuses, which is logged, or the exchange is closed, which is not;
\* and then it is settled whether this tick may open a position.
Gates ==
    /\ At("gates")
    /\ \/ finish(FALSE, <<>>)
       \/ tick' = None /\ UNCHANGED <<logVars, faults>>
       \/ /\ \E halt \in _new_entries_blocked : tick' = [Past("drive") EXCEPT !.halt = halt]
          /\ UNCHANGED <<logVars, faults>>
    /\ UNCHANGED <<now, inst, auto, list, position, screens, made, losses, used>>

\* History: what is a loss in the account's books.
Counted(streak, leg) == IF leg = "loss" THEN streak + 1 ELSE IF leg = "win" THEN 0 ELSE streak

CountedAfter(streak, legs) ==
    LET run[k \in 0 .. Len(legs)] == IF k = 0 THEN streak ELSE Counted(run[k - 1], legs[k])
    IN  run[Len(legs)]

Closes == {"win", "loss"}

\* What one bar can do: keep what is held; close it; find that the broker has
\* closed it and then go on as one that is flat; and, flat, open a position,
\* one that the same bar closes, or one that is not filled yet, or skip it.
Bars(held, halt) ==
    LET opens == {[legs |-> <<>>, position |-> "held"], [legs |-> <<>>, position |-> "working"]} \union
                 {[legs |-> <<leg>>, position |-> "none"] : leg \in Closes}
        flat  == {[legs |-> <<>>, position |-> "none"]} \union
                 (IF halt THEN {[legs |-> <<"skipped">>, position |-> "none"]} ELSE opens)
    IN  CASE held = "none"    -> flat
          [] held = "working" -> {[legs |-> <<>>, position |-> "working"],
                                  [legs |-> <<>>, position |-> "none"]}
          [] held = "held"    ->
               {[legs |-> <<>>, position |-> "held"]} \union
               {[legs |-> <<leg>> \o next.legs, position |-> next.position] :
                    leg \in Closes, next \in flat}

Drive ==
    /\ At("drive")
    /\ \E bar \in Bars(position, tick.halt) :
         /\ position' = bar.position
         /\ losses' = CountedAfter(losses, bar.legs)
         /\ finish(FALSE, bar.legs)
    /\ UNCHANGED <<now, inst, auto, list, screens, made, used>>

(***************************************************************************)
(* The panel (automation_service.py), the broker and the clock.            *)
(***************************************************************************)

\* Not behind the trading lock.  A list of other criteria is dropped.
save(a) ==
    /\ a # auto /\ auto' = a
    /\ list' = IF a.enter # auto.enter THEN None ELSE list
    /\ UNCHANGED <<now, inst, position, logVars, tick, screens, historyVars>>

\* The button: a list is written over whatever is there by now.
refresh ==
    /\ screens < MaxLists /\ screens' = screens + 1
    /\ \E rows \in Lists : list' = Screened(rows)
    /\ UNCHANGED <<now, inst, auto, position, logVars, tick, historyVars>>

FillEntry ==
    /\ position = "working" /\ position' = "held"
    /\ UNCHANGED <<now, inst, auto, list, logVars, tick, screens, historyVars>>

\* The bell rings, or the day turns over: a new tick log, and no trades yet.
Advance ==
    /\ now < MaxTime /\ now' = now + 1
    /\ Day(now + 1) # Day(now) => tick = None
    /\ IF Day(now + 1) # Day(now)
       THEN /\ ticks' = [switched |-> FALSE, torn |-> FALSE] /\ trades' = 0
            /\ made' = 0 /\ losses' = 0
       ELSE UNCHANGED <<ticks, trades, made, losses>>
    /\ UNCHANGED <<inst, auto, list, position, torn, tick, screens, used, faults>>

Gate == evaluate \/ NothingToJudge \/ apply
Next ==
    \/ Gate \/ Gates \/ Drive
    \/ \E a \in Criteria : save(a)
    \/ refresh \/ FillEntry \/ Advance

Spec == Init /\ [][Next]_vars

=============================================================================
