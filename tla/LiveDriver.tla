------------------------------ MODULE LiveDriver ------------------------------
(***************************************************************************)
(* The driver that turns one closed bar into orders: src/strategy/live.py  *)
(* with the decision of src/strategy/engine.py, through                    *)
(* src/execution/alpaca_broker.py and alpaca_executor.py, called by one    *)
(* tick of src/scheduler/orchestrator.py.                                  *)
(*                                                                         *)
(* A tick is a sequence of steps, one for each call that reaches the       *)
(* account, so that the account, the operator's switch and a crash may     *)
(* move between any two of them.  What survives a crash is disk (the state *)
(* file), trades (trades.jsonl) and the switch; mem, the intents and the   *)
(* legs booked during the tick are the process's own memory.               *)
(***************************************************************************)
EXTENDS Brokerage

CONSTANTS
    AllowShort,   \* may a SELL open a short position?
    Faults,       \* what the account's API may do wrong, see FaultKinds
    MaxCrashes,   \* the process dies at most this often
    MaxFlips,     \* the operator moves the switch at most this often
    None          \* no position, no unfilled entry

(* slow: an order may still be working when polling gives up; lost: the    *)
(* reply to an order the broker took is lost; api: a request fails before  *)
(* it has an effect; cancel: one cancellation fails.                       *)
FaultKinds == {"slow", "lost", "api", "cancel"}

ASSUME DriverAssumption ==
    /\ AllowShort \in BOOLEAN
    /\ Faults \subseteq FaultKinds
    /\ MaxCrashes \in Nat
    /\ MaxFlips \in Nat
    /\ None \notin [short : BOOLEAN, fill : Nat]
    /\ None \notin {"no_fill", "rejected"}

VARIABLES
    bar,        \* the newest closed bar
    on,         \* the trading switch
    disk,       \* the state file
    trades,     \* trades.jsonl
    pc,         \* the step the tick is at, "idle" between ticks
    tickBar,    \* the bar this tick decides
    signal,     \* its signal
    halt,       \* are new entries vetoed today?
    mem,        \* the driver's StrategyState
    intents,    \* what engine.step decided
    at,         \* the intent being acted on
    booked,     \* legs booked by this tick and not recorded yet
    crashes, flips

fileVars == <<disk, trades>>
tickVars == <<tickBar, signal, halt, mem, intents, at, booked>>
envVars  == <<bar, on, crashes, flips>>
vars     == <<brokerVars, fileVars, tickVars, envVars, pc>>

Signals == {"BUY", "SELL", "HOLD"}
Steps == {"idle", "adoptExit", "adoptPosition", "drop", "reconcile", "decide",
          "act", "submit", "poll", "cancel", "look", "liquidate", "await",
          "save", "record"}

\* entry_price is the price of fill number `fill`; 0 when it is only expected.
Position == [short : BOOLEAN, fill : Nat]
\* StrategyState.  bar_index, the sizing memory and the levels are left out.
State  == [pos : Position \union {None}, decided : Bars \union {0},
           unfilled : {None, "no_fill", "rejected"}]
Intent == [action : {"open", "close", "skip"}, reason : {"signal", "level"},
           short : BOOLEAN]
\* A trade row: the fills its two prices come from, 0 for an expected price.
Leg    == [short : BOOLEAN, entry : Nat, exit : Nat]

TypeOK ==
    /\ BrokerTypeOK
    /\ bar \in Bars /\ on \in BOOLEAN
    /\ disk \in State /\ trades \in Seq(Leg)
    /\ pc \in Steps
    /\ tickBar \in Bars /\ signal \in Signals /\ halt \in BOOLEAN
    /\ mem \in State
    /\ intents \in Seq(Intent) /\ at \in Nat
    /\ booked \in Seq(Leg)
    /\ crashes \in Nat /\ flips \in Nat

(***************************************************************************)
(* The engine: pure decisions on the state and the bar.                    *)
(***************************************************************************)

\* The direction a flat machine wants to open: short or not, if any.
Wants(sig) ==
    CASE sig = "BUY" -> {FALSE}
      [] sig = "SELL" /\ AllowShort -> {TRUE}
      [] OTHER -> {}

\* Defect: written before a strategy could be short.
OpposesLong(pos, sig) == sig = "SELL"
Opposes(pos, sig) == sig = IF pos.short THEN "BUY" ELSE "SELL"

Intended(action, reason, short) == [action |-> action, reason |-> reason, short |-> short]

\* A stop or take inside the bar's range adds an exit to what was decided.
WithLevelHit(decided, hit, short) ==
    IF hit THEN Append(decided, Intended("close", "level", short)) ELSE decided

\* StrategyEngine.step: the intents of a bar, and the position it leaves in
\* the state.  hit says that the bar's range touches a level of the position.
Step(pos, sig, veto, hit) ==
    IF pos # None THEN
        [pos     |-> pos,
         intents |-> WithLevelHit(IF Opposes(pos, sig)
                                  THEN <<Intended("close", "signal", pos.short)>> ELSE <<>>,
                                  hit, pos.short)]
    ELSE IF Wants(sig) = {} THEN
        [pos |-> None, intents |-> <<>>]
    ELSE LET short == CHOOSE s \in Wants(sig) : TRUE IN
         IF veto
         THEN [pos |-> None, intents |-> <<Intended("skip", "signal", short)>>]
         ELSE [pos     |-> [short |-> short, fill |-> 0],
               intents |-> WithLevelHit(<<Intended("open", "signal", short)>>, hit, short)]

\* StrategyEngine.settle for a CLOSE: the leg it books.
Settled(pos, exit) == IF pos = None THEN <<>>
                      ELSE <<[short |-> pos.short, entry |-> pos.fill, exit |-> exit]>>

\* Defect: a name of its own for every attempt at the bar.
order_id_for_attempt(b, index) == <<b, crashes>>

\* order_id_for: the same name every time the same bar is decided.
order_id_for(b, index) == <<b, index>>

Initial == [pos |-> None, decided |-> 0, unfilled |-> None]

\* A run that recorded a refused entry before _act rolled one back.
Legacy(short) == [pos |-> [short |-> short, fill |-> 0], decided |-> 0,
                  unfilled |-> "rejected"]

\* The account may hold a position nobody told the strategy about.
Init ==
    /\ \E held \in {0, 1} \union (IF AllowShort THEN {-1} ELSE {}) :
        /\ qty = held
        /\ hist = IF held = 0 THEN <<>> ELSE <<[buy |-> held > 0, of |-> "entry", bar |-> 0]>>
    /\ working = {} /\ legs = {} /\ exitOrder = "none"
    /\ seen = {} /\ entries = [b \in Bars |-> 0]
    /\ bar = 1 /\ on = TRUE
    /\ disk \in {Initial, Legacy(FALSE)}
    /\ trades = <<>>
    /\ pc = "idle"
    /\ tickBar = 1 /\ signal = "HOLD" /\ halt = FALSE
    /\ mem = Initial
    /\ intents = <<>> /\ at = 0
    /\ booked = <<>>
    /\ crashes = 0 /\ flips = 0

(***************************************************************************)
(* The tick.                                                               *)
(***************************************************************************)

\* The gates of the tick have passed, and a driver is built from the state
\* file.  A bar already decided is a no-op.
StartTick ==
    /\ pc = "idle" /\ on
    /\ disk.decided # bar
    /\ pc' = "adoptExit"
    /\ tickBar' = bar
    /\ signal' \in Signals
    /\ halt' \in BOOLEAN
    /\ mem' = disk
    /\ intents' = <<>> /\ at' = 0 /\ booked' = <<>>
    /\ UNCHANGED <<brokerVars, fileVars, envVars>>

\* Defect: the adopted exit is not handed to the loop.
AdoptExitUnbooked ==
    /\ pc = "adoptExit"
    /\ pc' = "adoptPosition"
    /\ IF mem.pos # None /\ Flat /\ ClosingFill(mem.pos.short) # 0
       THEN /\ mem' = [mem EXCEPT !.pos = None]
            /\ disk' = mem'
       ELSE UNCHANGED <<mem, disk>>
    /\ UNCHANGED <<brokerVars, envVars, trades, tickBar, signal, halt, intents, at, booked>>

\* A resting exit may have closed the position while nobody was looking.
AdoptExit ==
    /\ pc = "adoptExit"
    /\ pc' = "adoptPosition"
    /\ LET exit == IF mem.pos = None THEN 0 ELSE ClosingFill(mem.pos.short) IN
       \/ /\ mem.pos # None /\ Flat /\ exit # 0
          /\ booked' = Settled(mem.pos, exit)
          /\ mem' = [mem EXCEPT !.pos = None]
          /\ disk' = mem'
       \/ /\ mem.pos # None /\ Flat => exit = 0 \/ "api" \in Faults
          /\ UNCHANGED <<booked, mem, disk>>
    /\ UNCHANGED <<brokerVars, envVars, trades, tickBar, signal, halt, intents, at>>

\* Defect: only a long is looked for.
AdoptLong ==
    /\ pc = "adoptPosition"
    /\ pc' = "drop"
    /\ IF mem.pos = None /\ qty > 0
       THEN /\ mem' = [mem EXCEPT !.pos = [short |-> FALSE, fill |-> EntryFill(FALSE)]]
            /\ disk' = mem'
       ELSE UNCHANGED <<mem, disk>>
    /\ UNCHANGED <<brokerVars, envVars, trades, tickBar, signal, halt, intents, at, booked>>

\* The account may hold a position the local state does not know about.
AdoptPosition ==
    /\ pc = "adoptPosition"
    /\ pc' = "drop"
    /\ IF mem.pos = None /\ ~Flat
       THEN /\ mem' = [mem EXCEPT !.pos = [short |-> qty < 0, fill |-> EntryFill(qty < 0)]]
            /\ disk' = mem'
       ELSE UNCHANGED <<mem, disk>>
    /\ UNCHANGED <<brokerVars, envVars, trades, tickBar, signal, halt, intents, at, booked>>

\* The local state may hold a position it recorded as refused.
DropNeverOpened ==
    /\ pc = "drop"
    /\ pc' = "reconcile"
    /\ IF mem.pos # None /\ mem.unfilled = "rejected" /\ Flat
       THEN /\ mem' = [mem EXCEPT !.pos = None, !.unfilled = None]
            /\ disk' = mem'
       ELSE UNCHANGED <<mem, disk>>
    /\ UNCHANGED <<brokerVars, envVars, trades, tickBar, signal, halt, intents, at, booked>>

Mismatch ==
    \/ mem.pos = None /\ ~Flat
    \/ mem.pos # None /\ Flat
    \/ mem.pos # None /\ mem.pos.short # (qty < 0)

\* A mismatch refuses the tick; what was booked is still recorded.
Reconcile ==
    /\ pc = "reconcile"
    /\ pc' = IF Mismatch THEN "record" ELSE "decide"
    /\ UNCHANGED <<brokerVars, envVars, fileVars, tickVars>>

\* position() raised: the exception leaves on_bar_closed, and the refused
\* tick the loop writes carries no trades.
PositionReadFails ==
    /\ "api" \in Faults
    /\ \/ pc = "adoptExit" /\ mem.pos # None
       \/ pc = "adoptPosition" /\ mem.pos = None
       \/ pc = "drop" /\ mem.pos # None /\ mem.unfilled = "rejected"
       \/ pc = "reconcile"
    /\ pc' = "idle"
    /\ booked' = <<>>
    /\ UNCHANGED <<brokerVars, envVars, fileVars, tickBar, signal, halt, mem, intents, at>>

Decide ==
    /\ pc = "decide"
    /\ \E hit \in IF Protect = "none" THEN {FALSE} ELSE BOOLEAN :
         LET step == Step(mem.pos, signal, halt, hit) IN
         /\ mem' = [mem EXCEPT !.pos = step.pos]
         /\ intents' = step.intents
    /\ at' = 1
    /\ pc' = "act"
    /\ UNCHANGED <<brokerVars, envVars, fileVars, tickBar, signal, halt, booked>>

Current == intents[at]
Acting(action) == pc = "act" /\ at \in DOMAIN intents /\ Current.action = action

NextIntent == at' = at + 1 /\ pc' = "act"

\* A vetoed entry, or an exit of a position that is no longer there.
SkipIntent ==
    /\ \/ Acting("skip")
       \/ Acting("close") /\ mem.pos = None
    /\ NextIntent
    /\ UNCHANGED <<brokerVars, envVars, fileVars, tickBar, signal, halt, mem, intents, booked>>

(***************************************************************************)
(* OPEN.  How the entry came back decides what is kept of it.              *)
(***************************************************************************)

\* Defect: a refused entry keeps its position, and no note of the refusal.
EntryForgotten == mem' = [mem EXCEPT !.unfilled = None]

EntryRefused == mem' = [mem EXCEPT !.pos = None, !.unfilled = None]
EntryUnfilled == mem' = [mem EXCEPT !.unfilled = "no_fill"]
\* The real fill price replaces the expected one.
EntryFilled(fill) == mem' = [mem EXCEPT !.pos.fill = fill, !.unfilled = None]

\* The switch is read, and the size worked out, before anything is sent.
BeginOpen ==
    /\ Acting("open")
    /\ \/ on /\ pc' = "submit" /\ UNCHANGED <<mem, at>>
       \/ (~on \/ "api" \in Faults) /\ EntryRefused /\ NextIntent
    /\ UNCHANGED <<brokerVars, envVars, fileVars, tickBar, signal, halt, intents, booked>>

\* The broker takes the order; the driver then watches it.
SubmitAccepted ==
    /\ pc = "submit"
    /\ LET order == [bar |-> tickBar, short |-> Current.short] IN
       /\ Accept(order, order_id_for(tickBar, at - 1))
       /\ \/ Filled(order) /\ UNCHANGED working
          \/ /\ "slow" \in Faults
             /\ working' = working \union {order}
             /\ UNCHANGED <<qty, hist, legs>>
    /\ pc' = "poll"
    /\ UNCHANGED <<exitOrder, envVars, fileVars, tickVars>>

\* Nothing was accepted: a duplicate id, or a request that never got through.
SubmitRefused ==
    /\ pc = "submit"
    /\ order_id_for(tickBar, at - 1) \in seen \/ "api" \in Faults
    /\ EntryRefused
    /\ NextIntent
    /\ UNCHANGED <<brokerVars, envVars, fileVars, tickBar, signal, halt, intents, booked>>

\* The order is finished, or still working at the timeout, or the reply to
\* the submission or to a poll is lost: then its retry is a duplicate and
\* the driver hears a refusal.
PollEntry ==
    /\ pc = "poll"
    /\ LET pending == \E order \in working : order.bar = tickBar IN
       \/ /\ "lost" \in Faults
          /\ EntryRefused
       \/ /\ ~pending /\ FillOfEntry(tickBar) # 0
          /\ EntryFilled(FillOfEntry(tickBar))
       \/ /\ ~pending /\ FillOfEntry(tickBar) = 0
          /\ EntryRefused
       \/ /\ pending
          /\ EntryUnfilled
    /\ NextIntent
    /\ UNCHANGED <<brokerVars, envVars, fileVars, tickBar, signal, halt, intents, booked>>

(***************************************************************************)
(* CLOSE: cancel what rests, look at what is held, liquidate it.           *)
(***************************************************************************)

\* The exit is settled at the price of a fill, or at the expected one when
\* no fill came back, whatever the broker did with the order.
Settle(exit) ==
    /\ booked' = booked \o Settled(mem.pos, exit)
    /\ mem' = [mem EXCEPT !.pos = None, !.unfilled = None]
    /\ NextIntent

BeginClose ==
    /\ Acting("close") /\ mem.pos # None
    /\ \/ on /\ pc' = "cancel" /\ UNCHANGED <<mem, at, booked>>
       \/ ~on /\ Settle(0)
    /\ UNCHANGED <<brokerVars, envVars, fileVars, tickBar, signal, halt, intents>>

\* Defect: the resting exits outlive the position they guard.
CancelEntriesOnly ==
    /\ pc = "cancel"
    /\ pc' = "look"
    /\ working' = {}
    /\ exitOrder' = IF exitOrder = "working" THEN "dead" ELSE exitOrder
    /\ UNCHANGED <<qty, legs, seen, entries, hist>>
    /\ UNCHANGED <<envVars, fileVars, tickVars>>

\* An order whose cancellation fails stays where it is.
CancelOpenOrders ==
    /\ pc = "cancel"
    /\ \/ /\ pc' = "look"
          /\ \E kept \in SUBSET legs, left \in SUBSET working :
               /\ "cancel" \notin Faults => kept = {} /\ left = {}
               /\ legs' = kept /\ working' = left
          /\ exitOrder' = IF exitOrder = "working" THEN "dead" ELSE exitOrder
          /\ UNCHANGED <<qty, seen, entries, hist, mem, at, booked>>
       \/ /\ "api" \in Faults
          /\ Settle(0)
          /\ UNCHANGED brokerVars
    /\ UNCHANGED <<envVars, fileVars, tickBar, signal, halt, intents>>

\* Nothing left to close: the exit is settled at the last price in the history.
LookAtPosition ==
    /\ pc = "look"
    /\ \/ Flat /\ Settle(LastFill)
       \/ ~Flat /\ on /\ pc' = "liquidate" /\ UNCHANGED <<mem, at, booked>>
       \/ ~Flat /\ ~on /\ Settle(0)
       \/ "api" \in Faults /\ Settle(0)
    /\ UNCHANGED <<brokerVars, envVars, fileVars, tickBar, signal, halt, intents>>

ClosePosition ==
    /\ pc = "liquidate"
    /\ \/ /\ ~Flat
          /\ Liquidate
          /\ pc' = "await"
          /\ UNCHANGED <<mem, at, booked>>
       \/ /\ ~Flat /\ "slow" \in Faults
          /\ exitOrder' = "working"
          /\ pc' = "await"
          /\ UNCHANGED <<qty, hist, mem, at, booked>>
       \/ /\ Flat \/ "api" \in Faults
          /\ Settle(0)
          /\ UNCHANGED <<qty, exitOrder, hist>>
    /\ UNCHANGED <<working, legs, seen, entries>>
    /\ UNCHANGED <<envVars, fileVars, tickBar, signal, halt, intents>>

AwaitClose ==
    /\ pc = "await"
    /\ \/ exitOrder = "filled" /\ Settle(FillOfExit)
       \/ exitOrder # "filled" /\ Settle(0)
       \/ "lost" \in Faults /\ Settle(0)
    /\ UNCHANGED <<brokerVars, envVars, fileVars, tickBar, signal, halt, intents>>

(***************************************************************************)
(* The end of the tick: the state is saved last, then the loop writes the  *)
(* trade rows.                                                             *)
(***************************************************************************)

SaveState ==
    /\ pc = "act" /\ at > Len(intents)
    /\ mem' = [mem EXCEPT !.decided = tickBar]
    /\ disk' = mem'
    /\ pc' = "record"
    /\ UNCHANGED <<brokerVars, envVars, trades, tickBar, signal, halt, intents, at, booked>>

RecordTick ==
    /\ pc = "record"
    /\ trades' = trades \o booked
    /\ booked' = <<>>
    /\ pc' = "idle"
    /\ UNCHANGED <<brokerVars, envVars, disk, tickBar, signal, halt, mem, intents, at>>

Tick ==
    \/ StartTick \/ AdoptExit \/ AdoptPosition \/ DropNeverOpened \/ Reconcile
    \/ Decide \/ SkipIntent
    \/ BeginOpen \/ SubmitAccepted \/ SubmitRefused \/ PollEntry
    \/ BeginClose \/ CancelOpenOrders \/ LookAtPosition \/ ClosePosition \/ AwaitClose
    \/ SaveState \/ RecordTick

(***************************************************************************)
(* Everybody else.                                                         *)
(***************************************************************************)

NewBar ==
    /\ bar < MaxBar
    /\ bar' = bar + 1
    /\ UNCHANGED <<brokerVars, fileVars, tickVars, pc, on, crashes, flips>>

FlipSwitch ==
    /\ flips < MaxFlips
    /\ flips' = flips + 1
    /\ on' = ~on
    /\ UNCHANGED <<brokerVars, fileVars, tickVars, pc, bar, crashes>>

Crash ==
    /\ pc # "idle"
    /\ crashes < MaxCrashes
    /\ crashes' = crashes + 1
    /\ pc' = "idle"
    /\ booked' = <<>>
    /\ UNCHANGED <<brokerVars, fileVars, bar, on, flips, tickBar, signal, halt, mem, intents, at>>

Account ==
    /\ AccountMoves
    /\ UNCHANGED <<fileVars, tickVars, envVars, pc>>

Next == Tick \/ PositionReadFails \/ NewBar \/ FlipSwitch \/ Crash \/ Account

Spec == Init /\ [][Next]_vars

=============================================================================
