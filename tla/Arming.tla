-------------------------------- MODULE Arming --------------------------------
(***************************************************************************)
(* What a run is armed with: the strategy store, the account's credentials *)
(* and the switch, the gates between them, and the tick that trades by all *)
(* three (rules_service.py, model/rules.py, config_service.py,             *)
(* credentials.py, effective.py, positions.py, trading_service.py,         *)
(* scheduler/instrument.py, orchestrator.py).                              *)
(*                                                                         *)
(* The store, the account and the switch are three files.  A request looks *)
(* at the switch, may ask the broker something, and then writes; the loop  *)
(* reads all three when its tick begins, and trades a minute later.        *)
(***************************************************************************)
EXTENDS Naturals, FiniteSets

CONSTANTS
    Names,           \* of strategies
    Requests,        \* requests of the operator that may be in flight at once
    Insts, Bars,     \* instruments and bar sizes
    Default,         \* what .env says: [env, inst, bar]
    Legacy,          \* may a stored strategy lack a bar size of its own?
    MaxStrategies,   \* the code's bound on how many there are
    MaxRequests,     \* bounds the requests of the operator
    None

Env   == {"paper", "live"}
Pairs == {"good", "typo"}   \* two secrets under one key id: one is wrong

Strategy == [deleted : BOOLEAN, env : Env, inst : Insts, bar : Bars \union {None}]
Settings == [env : Env, inst : Insts, bar : Bars]

ASSUME ArmingAssumption ==
    /\ Default \in Settings
    /\ None \notin Names /\ None \notin Bars /\ None \notin Pairs
    /\ None \notin {"flat", "held", "unknown"} /\ None \notin Strategy
    /\ Legacy \in BOOLEAN
    /\ MaxStrategies \in Nat /\ MaxRequests \in Nat

VARIABLES
    store,      \* the strategies of the file, and the active one
    keys,       \* the stored pair of each account
    trading,    \* the switch, and what it was armed with
    held,       \* the accounts that hold a position
    cache,      \* the dashboard's last readings of them
    files,      \* the datasets on disk: <<instrument, bar size>>
    job,        \* the request that each thread is serving
    tick,       \* what the loop's tick has read, and decided
    proven,     \* history: what some arming has checked
    late,       \* history: accounts traded since they were last looked at, and not by this arming
    asked       \* the requests so far

vars == <<store, keys, trading, held, cache, files, job, tick,
          proven, late, asked>>

Store == [active : Names \union {None}, of : [Names -> Strategy \union {None}]]
Armed == [name : Names \union {None}, env : Env, pair : Pairs \union {None}]

Request == [op : {"delete", "env", "account", "arm"}, name : Names \union {None},
            env : Env, pair : Pairs \union {None}, data : BOOLEAN,
            base : [Env -> Pairs \union {None}] \union {None}]
Tick    == [name : Names \union {None}, set : Settings, pair : Pairs,
            target : Insts \union {None}]

TypeOK ==
    /\ store \in Store
    /\ keys \in [Env -> Pairs \union {None}]
    /\ trading \in [on : BOOLEAN, name : Names \union {None}, env : Env]
    /\ held \in SUBSET Env
    /\ cache \in [Env -> {"flat", "held", "unknown"} \union {None}]
    /\ files \in SUBSET (Insts \X Bars)
    /\ job \in [Requests -> Request \union {None}]
    /\ tick \in Tick \union {None}
    /\ proven \in SUBSET Armed
    /\ late \in SUBSET Env
    /\ asked \in 0 .. MaxRequests

(***************************************************************************)
(* The strategy store (model/rules.py, effective.py).                      *)
(***************************************************************************)

Known(s) == {n \in Names : s.of[n] # None}
Live(s)  == {n \in Known(s) : ~s.of[n].deleted}

\* Every load and every save sees to it that the active strategy is a live one;
\* the file's order says which is next (a choice, here).
normalize_active(s) ==
    IF s.active \in Live(s) THEN {s}
    ELSE IF Live(s) = {} THEN {[s EXCEPT !.active = None]}
    ELSE {[s EXCEPT !.active = n] : n \in Live(s)}

Saves(s) == store' \in normalize_active(s)

BarOf(strategy, fallback) == IF strategy.bar = None THEN fallback ELSE strategy.bar

\* .env overlaid with what the active strategy sets.
resolve_effective(s) ==
    IF s.active = None THEN Default
    ELSE [env  |-> s.of[s.active].env, inst |-> s.of[s.active].inst,
          bar  |-> BarOf(s.of[s.active], Default.bar)]

\* The dataset a strategy runs on.
DataOf(strategy) == <<strategy.inst, BarOf(strategy, Default.bar)>>

Off == [on |-> FALSE, name |-> None, env |-> "paper"]

Init ==
    /\ store \in {s \in Store :
                    /\ s \in normalize_active(s)
                    /\ \A n \in Known(s) :
                         /\ s.of[n].bar = None <=> Legacy
                         /\ s.of[n].inst = Default.inst
                         /\ s.of[n].env = "live" <=> n # s.active
                         /\ s.of[n].deleted => n # s.active /\ s.of[n].bar = Default.bar}
    /\ keys \in {[e \in Env |-> IF e \in set THEN "good" ELSE None] : set \in {Env, {"paper"}}}
    /\ trading = Off
    /\ held = {} /\ cache = [e \in Env |-> None] /\ files = Insts \X Bars
    /\ job = [r \in Requests |-> None] /\ tick = None
    /\ proven = {} /\ late = {} /\ asked = 0

(***************************************************************************)
(* Credentials and positions (credentials.py, positions.py).               *)
(***************************************************************************)

\* What the broker says of a pair: a wrong secret is refused, and so is a right
\* one whose key was revoked; and it may not answer at all.
probe(pair) == {"rejected", "unreachable"} \union IF pair = "good" THEN {"accepted"} ELSE {}

\* Defect: what the broker answered is kept as it came.
ReadingAsAnswered(e) ==
    IF keys[e] = None THEN {"flat"} ELSE IF e \in held THEN {"held"} ELSE probe(keys[e])

\* No key: nothing can be held.  A refusal or an outage: unknown.
Reading(e) ==
    IF keys[e] = None THEN {"flat"}
    ELSE {IF answer # "accepted" THEN "unknown" ELSE IF e \in held THEN "held" ELSE "flat" :
             answer \in probe(keys[e])}

snapshot(e) == IF cache[e] # None THEN {cache[e]} ELSE Reading(e)

\* Both accounts are looked at: what the cache has, or a reading it gets.
Looks ==
    /\ cache' \in [Env -> {"flat", "held", "unknown"}]
    /\ \A e \in Env : cache'[e] \in snapshot(e)
    /\ late' = {e \in late : cache[e] # None}

\* Defect: what cannot be read is taken for flat.
Optimistic(seen, accounts, blind) == \A e \in accounts : seen[e] # "held"

\* No position in these accounts, and no account among blind that is unknown.
flat_blocker(seen, accounts, blind) ==
    /\ \A e \in accounts : seen[e] # "held"
    /\ \A e \in blind : seen[e] # "unknown"

(***************************************************************************)
(* Editing the store (rules_service.py).                                   *)
(***************************************************************************)

Goes(r, request) == job' = [job EXCEPT ![r] = request]
Answers(r)       == job' = [job EXCEPT ![r] = None]
Asks(op) ==
    [op |-> op, name |-> None, env |-> "paper", pair |-> None, data |-> FALSE,
     base |-> None]

\* Defect: the switch is not looked at.
MayEditAlways(r) == job[r] = None /\ asked < MaxRequests

\* require_trading_off: looked at before the handler runs.
MayEdit(r) == job[r] = None /\ ~trading.on /\ asked < MaxRequests
Asked      == asked' = asked + 1

\* Create, or select: it becomes the active one, deleted or not.  A new one is
\* a copy of the settings in force.
create_strategy(r, n) ==
    /\ MayEdit(r) /\ Asked
    /\ n \in Live(store) \/ Cardinality(Live(store)) < MaxStrategies
    /\ LET old == store.of[n]
           new == [env |-> resolve_effective(store).env, inst |-> resolve_effective(store).inst,
                   bar |-> resolve_effective(store).bar, deleted |-> FALSE]
       IN  Saves([active |-> n, of |-> [store.of EXCEPT ![n] =
                     IF old = None THEN new ELSE [old EXCEPT !.deleted = FALSE]]])
    /\ UNCHANGED <<keys, trading, held, cache, files, job, tick, proven, late>>

rename_strategy(r, n, m) ==
    /\ MayEdit(r) /\ Asked
    /\ n \in Live(store) /\ m \notin Live(store)
    /\ Saves([active |-> IF store.active = n THEN m ELSE store.active,
              of |-> [store.of EXCEPT ![m] = store.of[n], ![n] = None]])
    /\ UNCHANGED <<keys, trading, held, cache, files, job, tick, proven, late>>

\* The panel does not show which account a strategy trades: it is kept.
Saved(n, inst, bar) ==
    [deleted |-> FALSE, inst |-> inst, bar |-> bar,
     env |-> IF store.of[n] = None THEN Default.env ELSE store.of[n].env]

\* Whatever the page had on its screen: the strategy may be gone since.
update_strategy(r, n, inst, bar) ==
    /\ MayEdit(r) /\ Asked
    /\ Saves([active |-> n, of |-> [store.of EXCEPT ![n] = Saved(n, inst, bar)]])
    /\ UNCHANGED <<keys, trading, held, cache, files, job, tick, proven, late>>

\* Two edits ask the broker whether anything is held, after the switch.
AskDelete(r, n, withData) ==
    /\ MayEdit(r) /\ Asked
    /\ Goes(r, [Asks("delete") EXCEPT !.name = n, !.data = withData])
    /\ UNCHANGED <<store, keys, trading, held, cache, files, tick, proven, late>>

AskEnv(r, e) ==
    /\ MayEdit(r) /\ Asked
    /\ Goes(r, [Asks("env") EXCEPT !.env = e])
    /\ UNCHANGED <<store, keys, trading, held, cache, files, tick, proven, late>>

Is(r, op) == job[r] # None /\ job[r].op = op

\* Defect: the other strategies' data is kept only if it is this one's, too.
OwnBar(n, s) == {f \in files : f[1] = s.of[n].inst} \ {DataOf(s.of[n])}

\* Every dataset of its instrument, but those of the other live strategies.
\* One without a bar size is taken to run on that of the settings in force.
_delete_symbol_datasets(n, s) ==
    {f \in files : f[1] = s.of[n].inst} \
    {<<s.of[m].inst, BarOf(s.of[m], resolve_effective(store).bar)>> : m \in Live(s)}

delete_strategy(r) ==
    LET n == job[r].name
        s == [active |-> IF store.active = n THEN None ELSE store.active,
              of     |-> [store.of EXCEPT ![n].deleted = TRUE]]
    IN  /\ Is(r, "delete")
        /\ Answers(r)
        /\ Looks
        /\ IF flat_blocker(cache', Env, {}) /\ n \in Live(store)
           THEN Saves(s) /\ files' = files \ (IF job[r].data THEN _delete_symbol_datasets(n, s) ELSE {})
           ELSE UNCHANGED <<store, files>>
        /\ UNCHANGED <<keys, trading, held, tick, proven, asked>>

set_execution_env(r) ==
    /\ Is(r, "env")
    /\ Answers(r)
    /\ Looks
    /\ IF flat_blocker(cache', Env, Env) /\ store.active # None
       THEN Saves([store EXCEPT !.of[store.active].env = job[r].env])
       ELSE UNCHANGED store
    /\ UNCHANGED <<keys, trading, held, files, tick, proven, asked>>

(***************************************************************************)
(* The account (config_service.py, credentials.py).                        *)
(***************************************************************************)

\* The form of the live account, over the pairs stored when it was sent.
AskAccount(r, pair) ==
    /\ MayEdit(r) /\ Asked
    /\ Goes(r, [Asks("account") EXCEPT !.env = "live", !.pair = pair, !.base = keys])
    /\ UNCHANGED <<store, keys, trading, held, cache, files, tick, proven, late>>

\* A pair that changes is checked before it is written, and kept back when the
\* broker refuses it; one that could not be asked about is written.  Another
\* key id is another account: nothing is known of it.
update_account(r) ==
    LET e == job[r].env
    IN  /\ Is(r, "account")
        /\ Answers(r)
        /\ \E answer \in probe(job[r].pair) :
             keys' = IF answer = "rejected" /\ job[r].pair # job[r].base[e]
                     THEN job[r].base ELSE [job[r].base EXCEPT ![e] = job[r].pair]
        /\ cache' = IF keys[e] = None THEN [cache EXCEPT ![e] = None] ELSE cache
        /\ UNCHANGED <<store, trading, held, files, tick, proven, late, asked>>

(***************************************************************************)
(* The switch (trading_service.py).                                        *)
(***************************************************************************)

\* The settings are those of the moment; a position in the account in play is
\* no obstacle, one in the other is, and the account in play must be readable.
AskOn(r) ==
    LET eff == resolve_effective(store)
    IN  /\ job[r] = None /\ asked < MaxRequests /\ Asked
        /\ keys[eff.env] # None
        /\ Looks /\ flat_blocker(cache', Env \ {eff.env}, {eff.env})
        /\ Goes(r, [Asks("arm") EXCEPT !.name = store.active, !.env = eff.env,
                                       !.pair = keys[eff.env]])
        /\ UNCHANGED <<store, keys, trading, held, files, tick, proven>>

\* The pair is asked about again, whatever is recorded of it, and the operator
\* confirms the live account or does not.  Then the switch is written, with the
\* name of the strategy that is active by now.
turn_on(r, confirm) ==
    LET e == job[r].env
    IN  /\ Is(r, "arm")
        /\ Answers(r)
        /\ \E answer \in probe(job[r].pair) :
             IF answer = "accepted" /\ (e = "live" => confirm)
             THEN /\ trading' = [on |-> TRUE, name |-> store.active, env |-> e]
                  /\ cache' = [x \in Env |-> None]
                  /\ proven' = proven \union {[name |-> job[r].name, env |-> e, pair |-> job[r].pair]}
                  /\ late' = {}
             ELSE UNCHANGED <<trading, cache, proven, late>>
        /\ UNCHANGED <<store, keys, held, files, tick, asked>>

\* Always allowed; the record keeps what was running, which nothing asks of it
\* here.  What is left behind is looked at anew, in the account of
\* the settings in force.
turn_off ==
    LET e == resolve_effective(store).env
    IN  /\ trading.on /\ trading' = Off
        /\ \E seen \in Reading(e) : cache' = [cache EXCEPT ![e] = seen]
        /\ late' = late \ {e}
        /\ UNCHANGED <<store, keys, held, files, job, tick, proven, asked>>

(***************************************************************************)
(* The loop's tick (orchestrator.py, scheduler/instrument.py).             *)
(***************************************************************************)

\* What the automation wants: nothing, or another instrument (DailyTick says
\* when it does).
evaluate(inst) == {None} \union (Insts \ {inst})

\* It is refused when the active strategy is not the one that was armed, and
\* when it has no keys.  What it has read of the files it keeps to its end.
BeginTick ==
    LET eff == resolve_effective(store)
    IN  /\ tick = None /\ trading.on
        /\ trading.name \in {None, store.active}
        /\ keys[eff.env] # None
        /\ \E i \in evaluate(eff.inst) :
             tick' = [name |-> store.active, set |-> eff, pair |-> keys[eff.env], target |-> i]
        /\ UNCHANGED <<store, keys, trading, held, cache, files, job, proven, late, asked>>

\* Defect: the settings the tick has read are written back.
SwitchedAll == [store.of EXCEPT ![tick.name] =
    [deleted |-> FALSE, env |-> tick.set.env, inst |-> tick.target, bar |-> tick.set.bar]]

\* Nothing else of the strategy is touched, deleted or not.
Switched == [store.of EXCEPT ![tick.name].inst = tick.target]

\* The new instrument's history is fetched, which takes a while, and then the
\* switch ends the tick; a strategy that is gone cannot be written.
set_strategy_config ==
    /\ tick # None /\ tick.target # None
    /\ files' = files \union {<<tick.target, tick.set.bar>>}
    /\ IF tick.name \in Known(store)
       THEN Saves([store EXCEPT !.of = Switched]) /\ tick' = None
       ELSE tick' = [tick EXCEPT !.target = None] /\ UNCHANGED store
    /\ UNCHANGED <<keys, trading, held, cache, job, proven, late, asked>>

\* The account, the pair and the instrument are those the tick began with; the
\* tick opens a position, closes one, or does neither.
Decide ==
    /\ tick # None /\ tick.target = None
    /\ tick' = None
    /\ held' \in {held, held \union {tick.set.env}, held \ {tick.set.env}}
    /\ files' = files \union {<<tick.set.inst, tick.set.bar>>}
    /\ late' = IF trading.on /\ tick.set.env = trading.env THEN late ELSE late \union {tick.set.env}
    /\ UNCHANGED <<store, keys, trading, cache, job, proven, asked>>

\* A later gate refuses, or the loop dies.
RefuseTick ==
    /\ tick # None /\ tick' = None
    /\ UNCHANGED <<store, keys, trading, held, cache, files, job, proven, late, asked>>

(***************************************************************************)
(* The rest of the world.                                                  *)
(***************************************************************************)

\* A page shows the account; the reading is good for a few seconds.
Poll(e) ==
    /\ cache[e] = None
    /\ \E seen \in Reading(e) : cache' = [cache EXCEPT ![e] = seen]
    /\ late' = late \ {e}
    /\ UNCHANGED <<store, keys, trading, held, files, job, tick, proven, asked>>

Expire(e) ==
    /\ cache[e] # None
    /\ cache' = [cache EXCEPT ![e] = None]
    /\ late' = late \ {e}
    /\ UNCHANGED <<store, keys, trading, held, files, job, tick, proven, asked>>

\* A resting exit closes a position.
Exit(e) ==
    /\ e \in held /\ held' = held \ {e}
    /\ UNCHANGED <<store, keys, trading, cache, files, job, tick, proven, late, asked>>

Edit(r) ==
    \/ \E n \in Names : create_strategy(r, n)
    \/ \E n, m \in Names : rename_strategy(r, n, m)
    \/ \E n \in Names, i \in Insts, b \in Bars : update_strategy(r, n, i, b)
    \/ \E n \in Names, withData \in BOOLEAN : AskDelete(r, n, withData)
    \/ \E e \in Env : AskEnv(r, e)
    \/ \E pair \in Pairs : AskAccount(r, pair)

Serve(r) ==
    \/ delete_strategy(r) \/ set_execution_env(r) \/ update_account(r)
    \/ \E confirm \in BOOLEAN : turn_on(r, confirm)

Loop == BeginTick \/ set_strategy_config \/ Decide \/ RefuseTick

Next ==
    \/ \E r \in Requests : Edit(r) \/ Serve(r) \/ AskOn(r)
    \/ turn_off \/ Loop
    \/ \E e \in Env : Poll(e) \/ Expire(e) \/ Exit(e)

Spec == Init /\ [][Next]_vars

=============================================================================
