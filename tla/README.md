# Verification of the TRAIDER trading bot

This directory specifies the part of the repository that places orders and keeps
account of them: TLA+ modules translated from the source, TLC configurations that
check them on small instances, and proofs checked by TLAPS. `PROJECT.json` maps every
definition to the lines it was translated from; the source is the reference, the
documentation is only quoted where it disagrees.

## The system

TRAIDER trades one instrument on bar boundaries, with two processes that share nothing
but files under the data root:

* the **loop** (`src/main.py`): claims a lease, then sleeps to each bar boundary and
  runs one *tick*: gates, data, the day's limits, the strategy's decision, orders at the
  broker, and the record of what happened;
* the **dashboard** (FastAPI, `src/web`): arms and stops trading, starts the loop and
  restarts it, edits the configuration, and shows what the loop wrote.

| Component | State it keeps | Operations | Hard behaviour | Module |
| --- | --- | --- | --- | --- |
| live driver, `strategy/live.py` | `state-<env>.json`: position, last decided bar, unfilled entry | `on_bar_closed`: adopt, drop, reconcile, decide, act, save | the account moves between any two calls; a crash anywhere; what a refusal leaves behind | `LiveDriver` |
| strategy engine, `strategy/engine.py` | a ledger, the closes it was shown | `step`, `settle`, `run` | an entry and its stop-out on one bar; parity of backtest and live | `LiveDriver`, `Replay` |
| broker adapter, `execution/alpaca_broker.py`, `alpaca_executor.py` | none | submit, poll, amend, cancel, flatten, read the history | lost replies, duplicate ids, orders still working at the timeout, exits that survive, one of two legs moved | `Brokerage`, `OrderRequest`, `Bracket` |
| client and retry, `execution/alpaca_client.py`, `retry.py` | none | one request; up to N attempts | a retry of something that already happened | `OrderRequest` |
| tick, `scheduler/orchestrator.py` | tick, order and trade logs | gates, window, quality, halt, decide, record | one step of many failing; what a refused tick still has to record | `LiveDriver`, `DailyTick`, `Dataset`, `Arming` |
| lease, `scheduler/lease.py`, `config/loop_state.py`, `scheduler/host.py` | `loop.lock` | acquire, refresh, release, judge the holder | check and claim are two steps; expiry against a live holder; pids across hosts | `LoopLease` |
| trading switch and control, `web/services/trading_service.py`, `loop_control.py`, `loop_service.py` | `trading.json`, the loop process | turn on, turn off, stop and flatten, ensure running | arming while the old loop is stopping; flattening behind a closed switch | `TradingControl`, `Arming` |
| daily limits, `strategy/limits.py` | none (a function of the logs) | day loss, losing streak | rows that never reached the log | `DailyTick` |
| instrument automation, `scheduler/instrument.py`, `data/instrument_automation.py` | the automation file, the cached list | screen, decide, evaluate, apply, save, refresh | at most one switch a day; never away from a held position | `DailyTick` |
| positions cache, `execution/positions.py` | cached snapshots | snapshot, forget | a gate answered from a stale snapshot | `Arming` |
| credentials and accounts, `execution/credentials.py`, `accounts.py`, `config.py` | key files, verdicts | probe, store, resolve | a refused pair that displaces the one that trades | `Arming` |
| strategy store, `web/services/rules_service.py`, `model/rules.py` | the strategies and the active one | create, select, rename, save, delete, switch account | edits between a tick's reading and its writing | `Arming` |
| configuration, `config/*`, `config_service.py` | settings, history | resolve, edit, undo, session hours | an edit that races the loop's reading | `Arming` (partly) |
| data, `data/delta.py`, `dataset.py` | dataset files, provider frames | sync, status, backfill, rebuild, window | overlapping writers, gaps, half-formed bars, silence taken for an answer | `Dataset` |
| records, `execution/store.py`, `backtest/store.py` | JSON and JSONL files | append, index, read back | a torn line, an index behind its log | `DailyTick` (partly) |
| backtest, `backtest/engine.py`, `risk_sim.py` | none | run, curve, intervals | a trade only one of the two drivers makes | `Replay` |
| authentication, `web/services/auth_service.py`, `routes/auth.py`, `middleware.py` | `auth.json`, cookies | set up, sign in, change, lock, sign out, heartbeat, reset | a session that outlives what it was granted for; an answer that arrives after a lock | `AuthSession` |

What makes the system correct, in one sentence each: the broker accepts at most one order
for a bar; the strategy holds at most one position and what it believes can always be
reconciled with the account; the trade log says what the account did; one loop trades at a
time and an armed account gets one; stopping stops; the bot trades only what an arming has
checked, on prices that no longer move, and stops opening positions when the day's limits say
so; an instrument is switched once a day and never away from a position; the backtest makes
the trades the live driver makes; a session that was revoked stays revoked.

## Modules

### `Brokerage` and `LiveDriver`

`Brokerage` is the account as the code uses it: the net position, working entries, resting
bracket exits, accepted order ids, the history of fills. Its operations are what Alpaca does
with a call, and `AccountMoves` is what it does on its own. Quantities are counted in units
of one entry and prices are named by the fill they come from (`0` is a price that was only
expected), which is all the properties tell apart. Which fill the code picks out of the
history (`ClosingFill`, `LastFill`) is translated from the code that picks it.

`LiveDriver` is one tick as a sequence of steps, one for each call that reaches the account:

| step (`pc`) | code |
| --- | --- |
| `StartTick` | `tick` builds a driver from the state file; a decided bar is a no-op |
| `AdoptExit`, `AdoptPosition`, `DropNeverOpened`, `Reconcile` | the four readings of the position at the top of `on_bar_closed`, each saving what it changed |
| `Decide` | `StrategyEngine.step` |
| `SkipIntent`, `BeginOpen`, `SubmitAccepted`, `SubmitRefused`, `PollEntry` | `_act` on an OPEN or SKIP: guard, submission, polling, and what is kept of the entry |
| `BeginClose`, `CancelOpenOrders`, `LookAtPosition`, `ClosePosition`, `AwaitClose` | `_act` on a CLOSE: `flatten`, ending in `Settle` |
| `SaveState`, `RecordTick` | the save at the end of `on_bar_closed`; `finish` appending the trade rows |
| `PositionReadFails` | `position()` raises out of `on_bar_closed` and the tick is refused |

Between any two steps the account may move, a bar may close, the operator may move the
switch, and the process may die (`Crash`: `disk` and `trades` survive, the rest does not).
`Faults` chooses what the API may do wrong: leave an order working (`slow`), lose a reply
(`lost`), fail before any effect (`api`), fail to cancel (`cancel`).

Not modelled here: prices, sizes and fees; partial fills; the repricing of resting exits
(that is `Bracket`); a broker that reports a position
without an entry price; history longer than the ten orders `closed_orders` reads.
Operators described as a *defect* are not part of the specification: each is a plausible
wrong version of the definition that follows it, and shows that a property can fail.

`LiveDriverProps` states `OneEntryPerBar`, `OnePosition`, `RoundTripsInOrder` (which says that
no exit is booked twice, either), `NeverWedged`, `SignalHonoured`, `LogMatchesAccount` and the
liveness property `PositionGetsManaged`; each is stated in words above its definition.

### `OneLoop`, `LoopLease` and `LoopLeaseProps`

`OneLoop` is what the lease promises: of all the processes that may run the loop, one at a
time does. `LoopLease` is how the code does it: `loop.lock` as a record (`by` stands for
`pid` and `host`, `wake` for `next_wake`, `expires` for `expires_at`) and processes that go
through

| action | code |
| --- | --- |
| `Look`, `Refused`, `Claim` | `lease.acquire`: `holder`, then the write; or `LeaseHeld` and `main` returns |
| `FirstTick`, `EndTick`, `LastTick`, `SwitchedOff`, `Wake` | `host.serve`, `orchestrator.run` and `_wait_for_the_boundary`; what a tick does is `LiveDriver` |
| `Release`, `Unlink`, `Interrupted` | the `finally` of `serve`: `lease.release` reads the record, then unlinks the file |
| `Start`, `Crash`, `Reap`, `Recycle`, `ProgramEnds` | the operating system: a process, its corpse, its pid given to another program |
| `Honoured`, `Alive`, `is_expired`, `Stalled` | `loop_state.holder`, `_process_is_alive`, `is_expired`, `is_stalled` |

Time is a counter whose unit is long against the two windows between reading and writing
`loop.lock`, so time does not pass inside them; other processes run there all the same.
`Timely` says that every loop wakes when it said it would and ends its tick within
`MaxTick`. The assumption `GraceOutlastsTwoTicks` is what `LEASE_GRACE_SECONDS` (300 s, with
a lag of 5 s) has to be sized for: the tick before the sleep, the lag, and the tick after it.
`Overlap` says whether a process may look at the lease while another one is between its
look and its write. `acquire` documents that window of milliseconds and accepts it, and
with it two loops can run; everything claimed of the lease assumes `Overlap = FALSE`.

### `TradingControl` and `TradingControlProps`

The dashboard's side, on the machine its loops run on. A request is a thread that goes
through the reads and writes of `turn_on`, `turn_off`, `stop_and_flatten`,
`ensure_running` and `loop_control.start`; nothing is locked between them. `LoopState` is
`loop_service.status`, with the corpse of a child reaped by the question (`Reaps`). The
processes it starts take the steps of `LoopLease`, which the module extends; a started
process takes a slot whose previous owner has ended and left no record. The gates before
arming (exposure, credentials, the confirmation of a live account) are one nondeterministic
refusal, `Blocked`. The throttle of the poll is a flag that is cleared after a while.

### `OneOrder`, `OrderRequest` and `OrderRequestProps`

`OneOrder` is what asking for an entry promises: the broker makes at most one order of it,
and what that order bought stays bought. `OrderRequest` is `submit` seen from the network,
one level below `LiveDriver`, which takes it as one step that is accepted or refused:

| action | code |
| --- | --- |
| `Refuse`, `Begin` | everything that can refuse an entry before it is sent (`_open`, `_check_guard`, `build_order_payload`) |
| `Submit`, `Verdict`, `Unanswered` | one attempt of `execute_with_retry`, by what `AlpacaClient.request` makes of the reply: usable, not retryable, retryable |
| `Retry`, `GiveUp` | the loop of `execute_with_retry` |
| `Poll`, `PollFails` | `poll`, whose reads are not retried, and its deadline |
| `Record` | `_record`: an order's status and fills as FILLED, NO_FILL or REJECTED |
| `Crash` | the process dies with the bar undecided and the next one decides it again, under the same `order_id_for` |

The broker's side is external: it makes no second order under an id it has seen, fills an
order in parts, ends it, and may take a request long after its sender has timed out (`late`).
An unanswered request has one of three fates: taken, on its way, gone. `unheard` remembers
that some of them went unanswered. Time is left out: the backoff changes no state, and
`MaxReads` bounds the reads before the deadline, which may pass at any of them.

### `Bracket` and `BracketProps`

The entry of `OrderRequest` with its exits, in cents. `Bracket` EXTENDS `OrderRequest`: every
step of the request is one of its steps, with what the broker makes of the legs beside it
(`Brokers`), and the tick around it goes through

| action | code |
| --- | --- |
| `Look`, `adopt_broker_position`, `adopt_broker_exit` | the readings at the top of `on_bar_closed`; a position is adopted at the levels of its resting legs, `resting_levels` |
| `Ask` | `AlpacaBroker._open`: sized, bracketed when both levels and a whole share are there (`Bracketed`, `MaySend`), sent |
| `_act` | what `LiveDriver._act` makes of the answer: kept and repriced, kept unfilled, dropped |
| `amend`, `save_state` | `amend_exits`, one PATCH a leg, each of which may fail, or happen and be reported failed; `_reprice_exits` saving the levels |
| `Fires`, `World`, `Dies` | a leg triggers; the order moves or a late request arrives; the process dies and the bar is decided again |

`amiss` remembers that a failure was reported; nothing in a later tick repeats an amendment,
so `LevelsAgree` and `RiskIsAsSized` leave those ticks out. `protection` is the panel's
verdict, a comparison of the levels in the state file with the legs that rest.

### `Dataset` and `DatasetProps`

One Parquet file, written by the loop's tick and by the dashboard's threads: each loads it,
asks the provider, merges and writes (`BeginSync`, `FetchNew`, `Merge`, `Write`), and nothing
is locked. A stored bar is `none`, `partial` (it held what the price was while the bar was
forming) or `final`. A `Frame` is what the provider answered, with the moment it was asked
and the day it was asked from; `span` and `tail` are the frames `delta.py` reuses.
`_missing_bar_rows` is `Fetchable`, `Slotted`, `Reached`, `NoTrades` and `Unconfirmed`.
Bars are named by the moment they close, two a day, over two days with a night between.
`MidSession = FALSE` says that nobody downloads the whole window during a session; the
backfill after a switch of instrument does, see below.

### `Arming` and `ArmingProps`

Three files, the strategy store, the pairs of keys and the switch, with the requests that
edit them, the readings of the positions cache, and a tick that reads all three when it
begins and trades a minute later. A request looks at the switch when it arrives
(`MayEdit`), may ask the broker something, and then writes (`delete_strategy`,
`set_execution_env`, `update_account`, `turn_on`). `proven` is history: what some arming has
checked. `late` is history, too: accounts traded by a tick that outlived its arming.

### `DailyTick` and `DailyTickProps`

Ticks over two days: `cache_and_screen` and `rank_rows` make a list, `evaluate` judges it,
`apply` switches the instrument and ends the tick; `Gates` reads the day's limits back from
the logs (`_day_loss_halt`, `losing_streak`, the account's `snapshot`), `Drive` trades and
`finish` appends the rows one file after the other, any of which may fail or be torn.
`used`, `made`, `losses` and `faults` are history: the list that moved the strategy last,
the day's switches, its losses in a row, and the failures so far.

### `Replay` and `ReplayProps`

`run` is the backtest: `engine.run` with its ledger, as an operator on a sequence of bars.
`on_bar_closed` is the live driver against `SimulatedBroker`, one bar at a step. Prices are
whole numbers, distances and costs are in the same units, and a weight is named by what it
was computed from. `Handed` and `Kept` say that the driver is handed the bar that starts and
lives as long as the data, which is how a replay drives it; the loop does neither.

### `AuthSession` and `AuthSessionProps`

The PIN's record in `auth.json` and the cookies of the browsers. A request is a thread that
loads the record, hashes for a quarter of a second, and saves; nothing is locked
(`Login`, `Change`, `Lock`, `SignOutEverywhere`, `Reset`, `Setup`, then `RightPin`,
`WrongPin`, `Load`, `Rotate`, `Create`, `Issue`). A heartbeat reads a cookie and signs its
payload again, later, under whatever secret the store has by then (`Touch`). Secrets are
numbered as they are made, sessions as they are handed out; `revoked`, `human` and `asked`
are history. `Overlap` says whether two requests that write the store may be in flight at
once; heartbeats overlap everything in any case.

## Runs

| run | setting | question | result |
| --- | --- | --- | --- |
| `prompt` | failed requests, lost replies; 3 bars, shorts, 1 crash, 1 flip of the switch | one position; round trips booked in order, no exit twice | holds |
| `slow` | orders still working at the timeout, lost replies; 3 bars, 1 crash | the state file never wedges the bot; one entry per bar | holds |
| `faultless` | no faults but a crash; 3 bars, shorts | signal honoured, log complete; an unknown position gets managed (under fairness) | holds |
| `hosts` | 2 hosts, 3 processes of which two have the same pid, healthy loops, crashes, recycled pids | a running loop's claim is its own and unexpired; only its owner removes a claim; one loop at a time | holds |
| `switch` | 1 host, 2 loops that may hang, 1 request and 1 polling page, 2 crashes or failed starts | a running loop is left alone; the dashboard follows the lease; an armed account gets a loop; OFF stops it | holds |
| `entry` | 2 retries, 2 reads, 2 shares, 2 crashes, two prices, every kind of bracket, any loss or delay | one order per intent; answers true of the order; never naked; levels agree; risk as sized; a tick ends (under fairness) | holds |
| `lock` | 2 browsers, 2 requests in flight, 2 rotations, 2 sessions, 2 minutes | revoked stays revoked; sessions end | holds |
| `sync` | the loop and a page, 2 days of 2 bars, a late bar, outages | decisions on final prices; nothing written off unasked; holes that were seen are filled | holds |
| `arming` | 2 strategies, 2 accounts, 2 pairs, 2 instruments, 2 bar sizes, 3 requests one at a time | trading only what was checked; nothing left behind; live data kept | holds |
| `daily` | 2 instruments, 3 lists, 2 days of ticks, 1 fault | switches once a day and once a list, when flat; losses halt entries | holds |
| `replay` | every sequence of up to 5 bars of 4 shapes, with signals | parity; the curve holds the trades; the intervals follow the signals | holds |
| `flatten` | as `switch`, no time | stop and flatten closes what is open | violated |

Bounds. Three bars allow a round trip and the entry after it, which is what confuses an old
exit with a new one; one crash allows one redecision of a bar. `OnePosition` is not claimed
under `slow`: there an entry that fills after its position was closed locally can add to
another. `NeverWedged` is checked under `slow`; it is proved for a strategy that is long only,
and, where neither `slow` nor `cancel` is a fault, for one that sells short, too. Under
`cancel`, or `slow` with shorts, TLC finds it violated. `CHECK_DEADLOCK` is off in the
runs of `MCLiveDriver` because the bars end, in the others because the day, the data, the
rotations or the position do. `MaxNow = 10` with a grace of 4 lets a claim be refreshed,
abandoned, expire and be taken over from the other host, and the new holder's be refreshed in
its turn; three processes are a holder, its successor and one that is refused. In `switch` the
clock runs just long enough for a claim to expire under a loop that hangs; two processes are a
holder and a starter, or two starters, and ended processes are started again without limit.
In `entry` two retries let the first request arrive before, between and after the others, two
shares are the least that can be filled in part, two crashes repeat a repetition, and a fill
a cent from the expected price is what makes levels differ. In `lock` a session, its
revocation and the one after it need two sessions and two secrets; one writer and one
heartbeat, or two heartbeats, are what can overlap. In `sync` two days of two bars have a hole
inside a day, a hole between days and a bar that is forming; the frame's window is shorter
than two days, as it is in the code. In `arming` two of everything are what can be confused,
and three requests are an edit, an arming and an edit between. In `daily` one fault is
counted into the properties, which say how much it may cost. In `replay` five bars hold an
entry, its stop-out, a second trade and the end of the data, and a volatility over two closes.

Fairness (`FairSpec`): weak fairness of the tick, because the loop is a sequential program
whose every call has a timeout, and of the closing of bars. Nothing is assumed of the
account, the operator or the crash. In `TradingControl` (`Fairness`): a request that was
made is served, an open page goes on polling (without one nothing restarts a loop), the
throttle is over after its interval, and each loop goes on; not that time passes, so
`OffStopsTheLoop` says that a stop waits for no boundary, and not that a loop is ever
interrupted, killed or reaped from outside. In `Bracket` (`BracketFair`) the tick is weakly
fair: every request has a timeout, and a process that dies is started again, which is
`TradingControl`'s business.

## Proofs

Every safety property that a run checks is proved for every value of the constants, under
the hypothesis named beside it where it has one. A hypothesis is about the constants alone:
which faults the world has, whether requests overlap, how the driver is driven. The run of the
property satisfies it, and where it does not hold TLC finds the property violated on a
small instance: no hypothesis is there for the proof's sake.

`LiveDriver_proofs` proves, for every number of bars, crashes and flips of the switch,

* `TypeCorrect`: `Spec => []TypeOK`;
* `OneEntryForEveryBar`: `Spec => []OneEntryPerBar`;
* `OnePositionAtATime` and `TradesAreRoundTrips`: `Prompt => (Spec => []OnePosition)` and
  `Prompt => (Spec => []RoundTripsInOrder)`, where `Prompt` says that neither `slow` nor
  `cancel` is among the faults. Requests may still fail, replies be lost, the process die and
  the switch move;
* `NeverWedgedAtOnce` and `NeverWedgedLongOnly`: `[]NeverWedged` under `Prompt`, and under
  `LongOnly` (no shorts, and a cancellation cancels), with orders still working at the timeout;
* `SignalIsHonoured`: `[]SignalHonoured` while the switch stays on and every request has its
  effect (`Undisturbed`; a reply may still be lost, the process die);
* `LogTellsTheAccount`: `[]LogMatchesAccount` while the switch stays on and nothing fails
  (`Faultless`); the property is itself about what happened up to the first crash.

`OneEntryPerBar` is not inductive: it says nothing of why a second submission is refused.
`DriverInv` adds that an entry is always the first intent of its bar, so that its name is
`<<bar, 0>>` (`OpensFirst`, `OpensRecorded`), and that an accepted entry has used that name
up (`NameUsedUp`). `StepType` is the lemma that gets the first from `StrategyEngine.step`;
`SubmitAcceptedDriverInv` is the one step where the argument happens. Up to here the only
assumptions are those on the constants.

`OnePosition` needs `PositionInv`: nothing is pending at the account, the one exit that may
rest belongs to the position that is held (so a flat account has none, `FlatHasNoLegs`), none
rests between the cancellation and the liquidation of a close, and an entry is on its way
(`Entering`) only to a flat account, because `StrategyEngine.step` opens nothing while a
position is held (`HoldingOpensNothing`) and `Reconcile` has just compared the two. With a
slow account, or a cancellation that fails, each of the first three is false and so is the
property. `RoundTripsInOrder` needs `TripsInv`, which places a position in the history of
fills (`Stands`): after every exit already booked and, once the account is flat, before a fill
on its closing side. The state file's position stands so against `trades.jsonl`, which is
what a crash leaves, and the driver's own against what is booked but not recorded. The steps
that matter are the adoption of an exit, where `ExitsFound` shows that the newest closing fill
is the right one; the entry, whose fill is the newest of the account (`SubmitTripsInv`); and
the fill that closes what is held, whoever asked for it (`ClosedTripsInv`).

`NeverWedged` follows from `TripsInv` and `PricedInv`: a position without a price is marked as
unfilled in whatever reaches the state file, and whatever is held was entered by a fill
(`TripsBought`), so that a flat account under a priced position has a newer fill on its closing
side. Under `slow` `TripsInv` is false, and `LongInv` takes its place: every exit that rests at
a long-only account guards a share of its own (`Cardinality(legs) <= qty`), so the account is
never short and what empties it is a sale, newer than all. `SignalHonoured` needs `HonourInv`:
a tick may be against its signal only while the exit that the signal asks for is still the
first thing to do (`ClosesFirst`). `LogMatchesAccount` needs `AccountInv`, which says of every
exit in the history, at every step of a tick, that it is booked or is the one that closed the
position still believed in; only the last can be of the second kind (`ClosedLast`), because an
entry needs a flat account that has been reconciled (`LeftAlone`, `EntryAccounts`).

`TradingControl_proofs` begins with the lease itself, and proves, for any processes, hosts and
times,

* `LeaseTypeCorrect`: `Spec => []TypeOK`;
* `HealthyLoopKeepsItsClaim`, `ReleaseIsTheHoldersOwn`, `LeaseImplementsOneLoop`: under
  `Timely` and `~Overlap`, `ClaimStands`, `ReleaseOnlyOwn` and the refinement of `OneLoop`;
* `OnOneMachineThePidHolds`: on one machine and under `~Overlap`, with no assumption about
  time, `RunningLoopHolds`.

The invariant has three parts. `Held`: the record is that of whichever process is between
its claim and the end of its release. `Sole`: a process about to write its claim is alone.
`Reaches`: how far the claim extends beyond what its holder has left to do, phase by phase.
`Held` and `Sole` are preserved (`HoldingStep`) as long as nobody who looks takes the holder
for dead, and that has two reasons: between hosts the claim has not expired, which is
`Reaches` (`ReachesStep`, where the grace is spent); on one machine its pid answers.

Of the dashboard around it, it proves `ControlTypeCorrect`, that every step of the dashboard is a
step of the lease (`ControlImplementsLease`), and so that no request or poll takes the claim
of a running loop (`DashboardRespectsTheHolder`).

`Bracket_proofs` begins with the request, and proves, for any number of retries, reads, shares
and crashes,
`OrderTypeCorrect`, `KeptEntriesAreReal`, `RefusalsAreFinal` and the refinement of `OneOrder`
(`RequestImplementsOneOrder`). The invariant says that nothing goes by an id other than the
first (`OneId`), which makes every step one of the broker's (`BrokerStep`): make the order,
move it on, or leave it; an answer is true when it is given, and stays true because an order
only moves on. `Heard` says that whatever the caller does not know of is in `unheard`.

Of the entry with its bracket it proves, for any settings and prices besides,

* `BracketImplementsRequest`: every step of the entry with its bracket is a step of the
  request or a stutter, so that `BracketKeepsOneOrder` and `BracketKeepsAnswers` follow from
  the theorems about the request;
* `NeverHeldNaked`: from `ProtectInv`, which says that an entry is sent only where its exits can
  go with it (`SentWithExits`), and of an order that it has both of its legs, whether or not it
  has bought anything yet, until one of them has closed what it bought (`Guarded`);
* `StateAndOrdersAgree` and `FilledIsRepriced`: from `AgreeInv`, which says, stage by stage, how
  far a tick has got in making the state file, the resting legs and the price that was paid
  say the same thing, and so that the panel calls the position protected: before the answer the legs are at the expected levels (`LegsOrigin`);
  while amending, a leg still in `todo` is where `todo` has it and the others are where they
  are wanted (`Amending`); afterwards they are where the file says (`Recorded`);
* `TickIsBounded` and `TickHasNext`, what there is of `TickEnds` without its fairness: a tick
  takes no more than `LongestTick` steps, whatever the broker does meanwhile, because each of
  its steps takes `StepsLeft` down and nothing takes it up (the look, the call, an attempt, a
  read, the answer, a leg, the end; and a crash, which starts the tick over, from those that
  are left); and one that is not over is at a step that waits for nothing else. No run checks
  these two.

`Dataset_proofs` proves, for any session, number of threads, windows and late bars,

* `TypeCorrect`: `Spec => []TypeOK`;
* `DecisionsAreOnFinalPrices`: `~MidSession => (Spec => []DecidesOnFinalPrices)`, from
  `FinalInv`: nothing on its way to the file holds the price of a bar that was forming, because
  the bars a sync wants had closed when it began (`ClosedBarIsPast`, `WantedHasClosed`);
* `SeenHolesAreFilled`: `Spec => HolesSeenAreFilled`, from `HolesInv`: what was published stays
  so (`PublishedGrows`), so that a hole a frame showed is in the answer to the fetch, which goes
  back to the oldest day in the file (`HolesBegin`), and then among what is to be written;
* `UntradedIsAskedAbout`: `Spec => []UntradedWasAsked`, from `AskedInv`: a frame says what the
  provider had for the days it was asked about at the moment it was asked (`FramesTold`), and a
  frame in use is younger than the night (`FramesAtHand`), so one that reaches beyond a bar of
  an earlier day was asked after that bar had ended (`NightAfter`). The assumption on the
  windows, `Probe <= Window <= Night + 1`, is the code's 15 minutes and 12 hours
  (`delta.py:50`, `delta.py:58`) against the time between two sessions.

`Arming_proofs` proves, for any strategies, accounts, pairs, instruments and bar sizes,

* `TypeCorrect` and `DeletionKeepsLiveData` (`LiveDataIsKept` under `~Legacy`), however many
  requests are in flight: a save leaves every strategy its own bar size (`OwnBars`), and a
  deletion spares the datasets of those that are live when it is made (`SavesNormalize`);
* `ArmingIsChecked`, `TicksTradeWhatWasChecked` and `EnvSwitchLeavesNothing` (`ArmingHolds`,
  `TicksWereProven`, `EnvLeavesNothingBehind`) under `OneAtATime`, that the operator's requests
  are answered one after the other; ticks, polls and what the account does interleave freely.
  `ArmInv` says what a request that waits for the broker may rely on: an edit was let in with
  trading off and nothing has turned it on since (`EditsWaitWithTradingOff`), an arming is of
  what is in force now (`ArmingIsOfNow`); and that a cached reading of "flat" is wrong only for
  an account that is trading or has been traded by a tick that outlived its arming
  (`FlatReadings`).

`DailyTick_proofs` proves, for any instruments, lists, days and number of failures,

* `TypeCorrect`, for which a ranking has to have every place once (`PlacesAreTaken`, by the
  pigeonhole principle);
* `OneSwitchADay` and `LossesStopEntries` (`SwitchesOncePerDay`, `LossesHaltEntries`), from
  `SwitchesAreLogged` and `LossesAreLogged`: the log is behind what happened by two switches, or
  three losses, for every failure, and half a line at its end holds one of them in reserve;
* `OneSwitchForEveryList`: `Margin # 0 => (Spec => []OneSwitchPerList)`, from `LeaderIsTaken`:
  while the list of the last switch is in the cache the strategy is on its leader, and a leader
  that leads itself by nothing is not worth a switch;
* `FlatWhenSwitching`: `SwitchesWhenFlat`, from `FlatSinceSeen`.

`Replay_proofs` proves, for any configuration, candles and number of bars,

* `BacktestIsReplayed`: `Replayed => (Spec => []Parity)`, where `Replayed` says that the driver
  is handed the bar that starts, and is either there for every bar or weighs its entries by
  nothing it has to have seen. The invariant is that the driver is, at every bar, where a
  backtest that ends there is (`ParityInv`); the backtest over one bar more does the same over
  the bars before it (`OneBarMore`), because no trade depends on what bars there are
  (`ActedAgree`) and the weight alone on what was seen (`SeenForWeight`);
* `CurveHasEveryTrade`: `Spec => []CurveHoldsTrades`, from `CurveInv`: the legs are on the curve
  one after the other, and what is held goes after all of them, so that what is booked next
  writes over nobody's bar (`BookedOnCurve`);
* `ChartFollowsSignals`: `Spec => []IntervalsFollowSignals`, from `HeldInv`: without risk
  settings nothing but a signal ends a leg.

The backtest is a recursive function of the bar, and each of these is an induction over it:
`BatchExists` shows that the function is what its equations say, and `UpTo` that a set which
holds the first bar and with each the next holds them all.

`AuthSession_proofs` proves, for any browsers, threads, PINs and windows, `AuthTypeCorrect`;
`SessionsDoEnd` (`SessionsEnd`, overlapping or not) from `Clocks`, which knows of a request in
flight that the person behind it has just made it, or, behind a heartbeat, asked for the
session no earlier than the token says; and `RevokedForGood` (`RevokedStaysRevoked` under
`~Overlap`) from `Sole`, that whoever writes the store is alone and has in hand what the store
holds, and `Secrets`, that a rotation makes a secret no cookie has, and that the payload of a
heartbeat in flight is of an earlier generation or not revoked. Each step of a request is
first shown to be one of seven (`ServeAnswers`), and each beginning one (`AskRequests`), so
that the invariants are argued once for each of those.

Model-checked only: liveness under fairness (`ArmedLoopRuns`, `OffStopsTheLoop`,
`PositionGetsManaged`, `TickEnds`), which is out of the prover's reach; of the last one,
`TickIsBounded` and `TickHasNext` are what remains when the fairness is taken away.

The order in which a hypothesis and a run go together: `NeverWedgedAtOnce` with `prompt`'s
faults and `NeverWedgedLongOnly` with `slow`'s; `SignalIsHonoured` and `LogTellsTheAccount` with
`faultless`; `ArmingIsChecked` and its companions with `arming`, one request at a time;
`BacktestIsReplayed` with `replay`, which is handed the next bar and keeps its driver.

## Disagreements between the code and its documentation

`flatten`: stop and flatten turns trading off and then asks an executor whose guard refuses
because trading is off: no position is ever closed by it. The test that covers it replaces the
executor. TLC finds this one violated, with the quotation in `PROJECT.json` under `findings`.

The following came up while modelling and are kept in the models as the code has them. Most
of them are behind an exception or an assumption of a property, named above it.

The live driver and the account:

* with shorts, an entry that fills late is netted against the position the next bar entered
  meanwhile: the account is flat, both brackets still rest, the state file says short, and no
  later purchase shows what closed it, so that `NeverWedged` fails under `slow` (`live.py:211`);
* an exit that has not filled is settled at the expected price (`live.py:612`, against
  `README.md:559-561`), and the position it leaves is adopted by a later tick;
* while an entry is still working, `adopt_broker_exit` takes the newest closing fill for its
  exit, which may be the previous position's (`live.py:211`);
* an adopted exit is booked and saved, and lost from the log when the next position read
  raises (`orchestrator.py:488`, against `live.py:491-492`);
* a live tick tests an entry's levels against the range of the bar before it (`live.py:459`,
  against the comment at `live.py:437`);
* `_record` answers REJECTED for a dead order that had bought some of its shares
  (`alpaca_broker.py:516`, against `docs/execution-loop.md:551`);
* `order_by_client_id`, which `alpaca_client.py:251` says a retry asks first, is never called;
  an order whose reply is lost is handled as refused while it lives, and the next bar adopts
  what it became.

The bracket: an entry that fills after polling gave up is never repriced; with only a stop or
only a take configured no exit rests (`alpaca_broker.py:402`); an amendment whose reply is lost
is reported failed though it moved the leg; `amend_exits` that cannot read the open orders says
so to nobody; `reference_price` is never passed, so `_level_is_replaceable` decides nothing.

The lease: a dead loop's recycled pid is respected beyond the lease's expiry
(`loop_state.py:245`, against `loop_state.py:32`); `lease.release` compares the pid alone, so
that a loop that hung past its grace can remove the claim of a loop with the same pid on
another host; a stalled loop is not `running` for `loop_control.start`, which then starts a
process that the lease refuses and answers that the loop was started.

The dataset: with `MidSession = TRUE` TLC finds a decision on a bar that was stored while it
was forming, which the backfill after a switch of instrument can do (`instrument.py:169`);
`start_rebuild` calls `rebuild_status` under the lock both take (`dataset_service.py:219`); a
frame of the last day is remembered as the frame of the whole range (`delta.py:346`), so that
holes read as unconfirmed until it is too old; revised bars are never picked up;
`delta.py:763-764` cannot be reached.

Arming: with two requests at a time TLC finds the strategy, the pair or the account changed
between the gates of an arming and its write; with `Legacy = TRUE`, for strategies that store
no bar size, the data of a live strategy deleted with another's (`rules_service.py:186-195`);
the bound on the number of strategies is not looked at by a save (`rules_service.py:337`); an
automation that fetches history while trading is stopped writes its instrument afterwards
(`instrument.py:183-189`).

The day: with `Margin = 0` the leader of a list replaces itself at every tick; a torn row of
the tick log hides a switch; a tick log that cannot be read means that there was none;
"only when flat" asks about positions, not about working orders; a loss of the night, adopted
in the morning, counts into the new day; the losses of both accounts count together.

The backtest: live, `volatility_target` is sized by the fixed stop, because the loop's engine
has seen no close; an entry on the last bar of the data, or an exit inside it, is a trade that
the curve does not hold.

Authentication: with `Overlap = TRUE` TLC finds a wrong PIN that is counted after a rotation
and puts the old record back, with every session it had revoked (`auth_service.py:348`).

## Not modelled

* Indicator and rule arithmetic, metrics and reports: floating point over frames; the signal
  is an input everywhere.
* The settings form's schema and its history, the recorded verdicts of credential checks, the
  migration of legacy files, the index of runs: bookkeeping for the pages that show it.
* The provider's formats and sessions, the columns of a screener and its queries, time zones:
  what they answer is an input, holidays included (`is_open_at` knows none).
* Read-only views, templates and browser code.

## Plan

Everything the plan began with is done: the driver and its account, the lease, the switch, the
entry and its bracket, the data, arming, the day, the replay, the lock, and the proofs of
their central invariants where the prover reaches. What would come next, in this order:

1. The settings form with its history and undo, and the recorded verdicts of credentials,
   beside `Arming`.
2. What bounds the other waits, as `TickIsBounded` does for a tick: the rounds a poll of the
   page takes to start a loop that is due (`ArmedLoopRuns`), and the steps between a stop and
   the end of the loop (`OffStopsTheLoop`).
