----------------------------- MODULE Arming_proofs -----------------------------
(***************************************************************************)
(* What the store, the account and the switch hold is well typed however   *)
(* many requests are in flight.  When they are answered one at a time, what *)
(* runs is what was checked, a tick trades by what some arming checked, and *)
(* the environment is not switched away from a position.  A deletion keeps *)
(* the data of the live strategies whether or not requests overlap.        *)
(***************************************************************************)
EXTENDS ArmingProps, TLAPS

\* The requests of the operator are answered one after the other.
OneAtATime == \A r, s \in Requests : r = s

(***************************************************************************)
(* The inductive invariants.                                               *)
(***************************************************************************)

\* The active strategy is a live one; there is none only when none is live.
Normal(s) == s.active \in Live(s) \/ (s.active = None /\ Live(s) = {})

\* The form of an account carries a pair, and the pairs it was sent over.
FormsAreWhole ==
    \A r \in Requests : Is(r, "account") =>
        job[r].base \in [Env -> Pairs \union {None}] /\ job[r].pair \in Pairs

TypeInv == TypeOK /\ Normal(store) /\ FormsAreWhole

\* Every stored strategy has a bar size of its own.
OwnBars(s) == \A n \in Known(s) : s.of[n].bar # None

\* An edit that waits for the broker was let in with trading off, and nothing
\* has turned it on since.
EditsWaitWithTradingOff ==
    \A r \in Requests :
        Is(r, "delete") \/ Is(r, "env") \/ Is(r, "account") => ~trading.on

\* What an arming is about to write is what it has checked.
ArmingIsOfNow ==
    \A r \in Requests : Is(r, "arm") =>
        /\ job[r].name = store.active
        /\ job[r].env = resolve_effective(store).env
        /\ job[r].pair = keys[job[r].env]

\* The pairs a form was sent over are those that are stored.
FormIsOfNow == \A r \in Requests : Is(r, "account") => job[r].base = keys

\* A position is held, and a tick trades, in an account with keys.
OnlyWithKeys ==
    /\ \A e \in held : keys[e] # None
    /\ tick # None => keys[tick.set.env] # None

\* An account that holds a position reads flat only while it is the one being
\* traded, or after a tick that was stopped.
FlatReadings ==
    \A e \in held : cache[e] = "flat" => e \in late \/ (trading.on /\ trading.env = e)

ArmInv ==
    /\ EditsWaitWithTradingOff /\ ArmingIsOfNow /\ FormIsOfNow
    /\ OnlyWithKeys /\ FlatReadings
    /\ ArmingHolds /\ TicksWereProven

(***************************************************************************)
(* The store.                                                              *)
(***************************************************************************)

\* What every save does: the strategies are those given, the active one is a
\* live one, and one that was live already stays the active one.
LEMMA SavesNormalize ==
    ASSUME NEW s \in Store, NEW t \in normalize_active(s)
    PROVE  /\ t \in Store /\ t.of = s.of
           /\ Known(t) = Known(s) /\ Live(t) = Live(s)
           /\ Normal(t)
           /\ Normal(s) => t.active = s.active
<1>1. s.of \in [Names -> Strategy \union {None}] /\ s.active \in Names \union {None}
  BY DEF Store
<1>2. Live(s) \subseteq Names
  BY DEF Live, Known
<1>3. CASE s.active \in Live(s)
  <2>1. t = s
    BY <1>3 DEF normalize_active
  <2> QED BY <2>1, <1>3 DEF Normal
<1>4. CASE s.active \notin Live(s) /\ Live(s) = {}
  <2>1. t = [s EXCEPT !.active = None]
    BY <1>4 DEF normalize_active
  <2>2. t \in Store /\ t.of = s.of /\ t.active = None
    BY <2>1 DEF Store
  <2>3. Known(t) = Known(s) /\ Live(t) = Live(s)
    BY <2>2 DEF Known, Live
  <2> QED BY <2>2, <2>3, <1>4 DEF Normal
<1>5. CASE s.active \notin Live(s) /\ Live(s) # {}
  <2>1. PICK n \in Live(s) : t = [s EXCEPT !.active = n]
    BY <1>5 DEF normalize_active
  <2>2. t \in Store /\ t.of = s.of /\ t.active = n
    BY <2>1, <1>2 DEF Store
  <2>3. Known(t) = Known(s) /\ Live(t) = Live(s)
    BY <2>2 DEF Known, Live
  <2> QED BY <2>2, <2>3, <1>5 DEF Normal
<1> QED BY <1>3, <1>4, <1>5

\* What the settings in force are: those of a strategy that is known, or .env's.
LEMMA EffectiveSettings ==
    ASSUME NEW s \in Store, Normal(s)
    PROVE  /\ resolve_effective(s) \in Settings
           /\ resolve_effective(s).bar # None
           /\ s.active # None => s.active \in Names /\ s.of[s.active] \in Strategy
<1> USE ArmingAssumption
<1>1. s.of \in [Names -> Strategy \union {None}] /\ s.active \in Names \union {None}
  BY DEF Store
<1>2. CASE s.active = None
  <2>1. resolve_effective(s) = Default
    BY <1>2 DEF resolve_effective
  <2> QED BY <2>1, <1>2 DEF Settings
<1>3. CASE s.active # None
  <2>1. s.active \in Names /\ s.of[s.active] # None
    BY <1>3 DEF Normal, Live, Known
  <2>2. s.of[s.active] \in Strategy
    BY <2>1, <1>1
  <2>3. BarOf(s.of[s.active], Default.bar) \in Bars
    BY <2>2 DEF BarOf, Strategy, Settings
  <2>4. s.of[s.active].env \in Env /\ s.of[s.active].inst \in Insts
    BY <2>2 DEF Strategy
  <2>5. resolve_effective(s) =
           [env |-> s.of[s.active].env, inst |-> s.of[s.active].inst,
            bar |-> BarOf(s.of[s.active], Default.bar)]
    BY <1>3 DEF resolve_effective
  <2> QED BY <2>1, <2>2, <2>3, <2>4, <2>5 DEF Settings
<1> QED BY <1>2, <1>3

\* A form that was sent is not lost, and no other appears, while jobs stay.
LEMMA FormsStay == FormsAreWhole /\ UNCHANGED job => FormsAreWhole'
BY DEF FormsAreWhole, Is

\* ... or are answered.
LEMMA FormsAnswered ==
    ASSUME TypeOK, FormsAreWhole, NEW r \in Requests, Answers(r)
    PROVE  FormsAreWhole' /\ job' \in [Requests -> Request \union {None}]
<1>1. job' = [job EXCEPT ![r] = None] /\ job \in [Requests -> Request \union {None}]
  BY DEF Answers, TypeOK
<1>2. \A q \in Requests : Is(q, "account")' => job'[q] = job[q] /\ Is(q, "account")
  BY <1>1 DEF Is
<1>3. FormsAreWhole'
  BY <1>2 DEF FormsAreWhole
<1> QED BY <1>1, <1>3

\* Any other request that is sent leaves the forms alone.
LEMMA FormsKept ==
    ASSUME TypeOK, FormsAreWhole, NEW r \in Requests, NEW q \in Request,
           q.op = "account" => q.base \in [Env -> Pairs \union {None}] /\ q.pair \in Pairs,
           Goes(r, q)
    PROVE  FormsAreWhole' /\ job' \in [Requests -> Request \union {None}]
<1>1. job' = [job EXCEPT ![r] = q] /\ job \in [Requests -> Request \union {None}]
  BY DEF Goes, TypeOK
<1>2. \A x \in Requests : Is(x, "account")' =>
         job'[x].base \in [Env -> Pairs \union {None}] /\ job'[x].pair \in Pairs
  <2> SUFFICES ASSUME NEW x \in Requests, Is(x, "account")'
               PROVE  job'[x].base \in [Env -> Pairs \union {None}] /\ job'[x].pair \in Pairs
    OBVIOUS
  <2>1. CASE x = r
    BY <1>1, <2>1 DEF Is
  <2>2. CASE x # r
    BY <1>1, <2>2 DEF Is, FormsAreWhole
  <2> QED BY <2>1, <2>2
<1>3. FormsAreWhole'
  BY <1>2 DEF FormsAreWhole
<1> QED BY <1>1, <1>3

LEMMA InitType == Init => TypeInv
<1> SUFFICES ASSUME Init PROVE TypeInv
  OBVIOUS
<1> USE ArmingAssumption
<1>1. store \in Store /\ store \in normalize_active(store)
  BY DEF Init
<1>2. Normal(store)
  BY <1>1, SavesNormalize
<1>3. PICK set \in {Env, {"paper"}} : keys = [e \in Env |-> IF e \in set THEN "good" ELSE None]
  BY DEF Init
<1>4. keys \in [Env -> Pairs \union {None}]
  BY <1>3 DEF Pairs
<1>5. FormsAreWhole
  BY DEF Init, FormsAreWhole, Is
<1>6. trading \in [on : BOOLEAN, name : Names \union {None}, env : Env]
  BY DEF Init, Off, Env
<1>7. held \in SUBSET Env /\ files \in SUBSET (Insts \X Bars) /\ proven \in SUBSET Armed
      /\ late \in SUBSET Env /\ asked \in 0 .. MaxRequests
  BY DEF Init
<1>8. cache \in [Env -> {"flat", "held", "unknown"} \union {None}]
  BY DEF Init
<1>9. job \in [Requests -> Request \union {None}] /\ tick \in Tick \union {None}
  BY DEF Init
<1> QED BY <1>1, <1>2, <1>4, <1>5, <1>6, <1>7, <1>8, <1>9 DEF TypeInv, TypeOK

(***************************************************************************)
(* Typing: what every step keeps.                                          *)
(***************************************************************************)

\* A request that is made of the fields that count, over the blank one.
LEMMA RequestsTyped ==
    /\ \A n \in Names, d \in BOOLEAN :
          [Asks("delete") EXCEPT !.name = n, !.data = d] \in Request
    /\ \A e \in Env : [Asks("env") EXCEPT !.env = e] \in Request
    /\ \A p \in Pairs, k \in [Env -> Pairs \union {None}] :
          [Asks("account") EXCEPT !.env = "live", !.pair = p, !.base = k] \in Request
    /\ \A n \in Names \union {None}, e \in Env, p \in Pairs \union {None} :
          [Asks("arm") EXCEPT !.name = n, !.env = e, !.pair = p] \in Request
<1>1. \A n \in Names, d \in BOOLEAN :
          [Asks("delete") EXCEPT !.name = n, !.data = d] \in Request
  BY DEF Asks, Request, Env
<1>2. \A e \in Env : [Asks("env") EXCEPT !.env = e] \in Request
  BY DEF Asks, Request, Env
<1>3. \A p \in Pairs, k \in [Env -> Pairs \union {None}] :
          [Asks("account") EXCEPT !.env = "live", !.pair = p, !.base = k] \in Request
  BY DEF Asks, Request, Env
<1>4. \A n \in Names \union {None}, e \in Env, p \in Pairs \union {None} :
          [Asks("arm") EXCEPT !.name = n, !.env = e, !.pair = p] \in Request
  BY DEF Asks, Request, Env
<1> QED BY <1>1, <1>2, <1>3, <1>4

\* What a look at the accounts leaves.
LEMMA LooksTyped ==
    ASSUME TypeOK, Looks
    PROVE  /\ cache' \in [Env -> {"flat", "held", "unknown"} \union {None}]
           /\ late' \in SUBSET Env
BY DEF TypeOK, Looks

\* The broker's word on an account is one the cache can hold.
LEMMA ReadingTyped ==
    ASSUME NEW e \in Env PROVE Reading(e) \subseteq {"flat", "held", "unknown"}
BY DEF Reading

LEMMA CreateType ==
    ASSUME TypeInv, NEW r \in Requests, NEW n \in Names, create_strategy(r, n)
    PROVE  TypeInv'
<1> USE ArmingAssumption
<1> DEFINE old == store.of[n]
           new == [env |-> resolve_effective(store).env, inst |-> resolve_effective(store).inst,
                   bar |-> resolve_effective(store).bar, deleted |-> FALSE]
           s   == [active |-> n, of |-> [store.of EXCEPT ![n] =
                     IF old = None THEN new ELSE [old EXCEPT !.deleted = FALSE]]]
<1>1. store \in Store /\ Normal(store) /\ FormsAreWhole
  BY DEF TypeInv, TypeOK
<1>2. resolve_effective(store) \in Settings
  BY <1>1, EffectiveSettings
<1>3. new \in Strategy
  BY <1>2 DEF Settings, Strategy
<1>4. store.of \in [Names -> Strategy \union {None}]
  BY <1>1 DEF Store
<1>5. old # None => [old EXCEPT !.deleted = FALSE] \in Strategy
  BY <1>4 DEF Strategy
<1>6. s \in Store
  <2> HIDE DEF new
  <2> QED BY <1>3, <1>4, <1>5 DEF Store
<1>7. store' \in normalize_active(s)
  BY DEF create_strategy, Saves
<1> HIDE DEF s
<1>8. store' \in Store /\ Normal(store')
  BY <1>6, <1>7, SavesNormalize
<1>9. asked' \in 0 .. MaxRequests
  BY DEF create_strategy, MayEdit, Asked, TypeInv, TypeOK
<1>10. UNCHANGED <<keys, trading, held, cache, files, job, tick, proven, late>>
  BY DEF create_strategy
<1>11. FormsAreWhole'
  BY <1>1, <1>10, FormsStay
<1> QED BY <1>8, <1>9, <1>10, <1>11 DEF TypeInv, TypeOK, Normal, Live, Known

LEMMA RenameType ==
    ASSUME TypeInv, NEW r \in Requests, NEW n \in Names, NEW m \in Names,
           rename_strategy(r, n, m)
    PROVE  TypeInv'
<1> USE ArmingAssumption
<1> DEFINE s == [active |-> IF store.active = n THEN m ELSE store.active,
                 of |-> [store.of EXCEPT ![m] = store.of[n], ![n] = None]]
<1>1. store \in Store /\ FormsAreWhole
  BY DEF TypeInv, TypeOK
<1>4. store.of \in [Names -> Strategy \union {None}] /\ store.active \in Names \union {None}
  BY <1>1 DEF Store
<1>6. s \in Store
  BY <1>4 DEF Store
<1>7. store' \in normalize_active(s)
  BY DEF rename_strategy, Saves
<1> HIDE DEF s
<1>8. store' \in Store /\ Normal(store')
  BY <1>6, <1>7, SavesNormalize
<1>9. asked' \in 0 .. MaxRequests
  BY DEF rename_strategy, MayEdit, Asked, TypeInv, TypeOK
<1>10. UNCHANGED <<keys, trading, held, cache, files, job, tick, proven, late>>
  BY DEF rename_strategy
<1>11. FormsAreWhole'
  BY <1>1, <1>10, FormsStay
<1> QED BY <1>8, <1>9, <1>10, <1>11 DEF TypeInv, TypeOK, Normal, Live, Known

LEMMA UpdateType ==
    ASSUME TypeInv, NEW r \in Requests, NEW n \in Names, NEW i \in Insts, NEW b \in Bars,
           update_strategy(r, n, i, b)
    PROVE  TypeInv'
<1> USE ArmingAssumption
<1> DEFINE s == [active |-> n, of |-> [store.of EXCEPT ![n] = Saved(n, i, b)]]
<1>1. store \in Store /\ FormsAreWhole
  BY DEF TypeInv, TypeOK
<1>4. store.of \in [Names -> Strategy \union {None}]
  BY <1>1 DEF Store
<1>5. Saved(n, i, b) \in Strategy
  <2>1. store.of[n] # None => store.of[n].env \in Env
    BY <1>4 DEF Strategy
  <2> QED BY <2>1 DEF Saved, Strategy, Settings
<1>6. s \in Store
  BY <1>4, <1>5 DEF Store
<1>7. store' \in normalize_active(s)
  BY DEF update_strategy, Saves
<1> HIDE DEF s
<1>8. store' \in Store /\ Normal(store')
  BY <1>6, <1>7, SavesNormalize
<1>9. asked' \in 0 .. MaxRequests
  BY DEF update_strategy, MayEdit, Asked, TypeInv, TypeOK
<1>10. UNCHANGED <<keys, trading, held, cache, files, job, tick, proven, late>>
  BY DEF update_strategy
<1>11. FormsAreWhole'
  BY <1>1, <1>10, FormsStay
<1> QED BY <1>8, <1>9, <1>10, <1>11 DEF TypeInv, TypeOK, Normal, Live, Known

\* A request that waits for the broker: nothing else changes.
LEMMA AskType ==
    ASSUME TypeInv, NEW r \in Requests,
           \/ \E n \in Names, withData \in BOOLEAN : AskDelete(r, n, withData)
           \/ \E e \in Env : AskEnv(r, e)
           \/ \E pair \in Pairs : AskAccount(r, pair)
    PROVE  TypeInv'
<1> USE ArmingAssumption
<1>1. TypeOK /\ FormsAreWhole /\ keys \in [Env -> Pairs \union {None}]
  BY DEF TypeInv, TypeOK
<1>2. \E q \in Request : /\ Goes(r, q)
                         /\ q.op = "account" =>
                              q.base \in [Env -> Pairs \union {None}] /\ q.pair \in Pairs
  <2>1. CASE \E n \in Names, withData \in BOOLEAN : AskDelete(r, n, withData)
    <3>1. PICK n \in Names, d \in BOOLEAN : AskDelete(r, n, d)
      BY <2>1
    <3> DEFINE q == [Asks("delete") EXCEPT !.name = n, !.data = d]
    <3>2. q \in Request /\ Goes(r, q) /\ q.op = "delete"
      BY <3>1, RequestsTyped DEF AskDelete, Asks
    <3> QED BY <3>2
  <2>2. CASE \E e \in Env : AskEnv(r, e)
    <3>1. PICK e \in Env : AskEnv(r, e)
      BY <2>2
    <3> DEFINE q == [Asks("env") EXCEPT !.env = e]
    <3>2. q \in Request /\ Goes(r, q) /\ q.op = "env"
      BY <3>1, RequestsTyped DEF AskEnv, Asks
    <3> QED BY <3>2
  <2>3. CASE \E pair \in Pairs : AskAccount(r, pair)
    <3>1. PICK p \in Pairs : AskAccount(r, p)
      BY <2>3
    <3> DEFINE q == [Asks("account") EXCEPT !.env = "live", !.pair = p, !.base = keys]
    <3>2. q \in Request /\ Goes(r, q) /\ q.base = keys /\ q.pair = p
      BY <1>1, <3>1, RequestsTyped DEF AskAccount, Asks
    <3> QED BY <3>2, <1>1
  <2> QED BY <2>1, <2>2, <2>3
<1>3. FormsAreWhole' /\ job' \in [Requests -> Request \union {None}]
  BY <1>1, <1>2, FormsKept
<1>4. asked' \in 0 .. MaxRequests
  <2>1. asked < MaxRequests /\ asked' = asked + 1
    BY Zenon DEF AskDelete, AskEnv, AskAccount, MayEdit, Asked
  <2> QED BY <2>1, <1>1 DEF TypeOK
<1>5. UNCHANGED <<store, keys, trading, held, cache, files, tick, proven, late>>
  BY Zenon DEF AskDelete, AskEnv, AskAccount
<1> QED BY <1>3, <1>4, <1>5 DEF TypeInv, TypeOK, Normal, Live, Known

LEMMA DeleteType ==
    ASSUME TypeInv, NEW r \in Requests, delete_strategy(r)
    PROVE  TypeInv'
<1> USE ArmingAssumption
<1> DEFINE n == job[r].name
           s == [active |-> IF store.active = n THEN None ELSE store.active,
                 of     |-> [store.of EXCEPT ![n].deleted = TRUE]]
<1>1. TypeOK /\ FormsAreWhole /\ store \in Store /\ Normal(store)
  BY DEF TypeInv, TypeOK
<1>2. store.of \in [Names -> Strategy \union {None}] /\ store.active \in Names \union {None}
  BY <1>1 DEF Store
<1>3. FormsAreWhole' /\ job' \in [Requests -> Request \union {None}]
  BY <1>1, FormsAnswered DEF delete_strategy
<1>4. cache' \in [Env -> {"flat", "held", "unknown"} \union {None}] /\ late' \in SUBSET Env
  BY <1>1, LooksTyped DEF delete_strategy
<1>5. store' \in Store /\ Normal(store')
  <2>1. CASE n \in Live(store) /\ store' \in normalize_active(s)
    <3>1. n \in Names /\ store.of[n] \in Strategy
      BY <2>1, <1>2 DEF Live, Known
    <3>2. [store.of[n] EXCEPT !.deleted = TRUE] \in Strategy
      BY <3>1 DEF Strategy
    <3>3. s.of = [store.of EXCEPT ![n] = [store.of[n] EXCEPT !.deleted = TRUE]]
      OBVIOUS
    <3>4. s \in Store
      <4>1. s.of \in [Names -> Strategy \union {None}]
        BY <3>2, <3>3, <1>2
      <4> QED BY <4>1, <1>2 DEF Store
    <3> HIDE DEF s
    <3> QED BY <3>4, <2>1, SavesNormalize
  <2>2. CASE UNCHANGED store
    BY <2>2, <1>1 DEF Normal, Live, Known
  <2> QED BY <2>1, <2>2 DEF delete_strategy, Saves
<1>6. files' \in SUBSET (Insts \X Bars)
  BY <1>1 DEF delete_strategy, TypeOK
<1>7. UNCHANGED <<keys, trading, held, tick, proven, asked>>
  BY DEF delete_strategy
<1> QED BY <1>1, <1>3, <1>4, <1>5, <1>6, <1>7 DEF TypeInv, TypeOK

LEMMA EnvType ==
    ASSUME TypeInv, NEW r \in Requests, set_execution_env(r)
    PROVE  TypeInv'
<1> USE ArmingAssumption
<1> DEFINE n == store.active
           s == [store EXCEPT !.of[store.active].env = job[r].env]
<1>1. TypeOK /\ FormsAreWhole /\ store \in Store /\ Normal(store)
  BY DEF TypeInv, TypeOK
<1>2. store.of \in [Names -> Strategy \union {None}] /\ store.active \in Names \union {None}
  BY <1>1 DEF Store
<1>3. FormsAreWhole' /\ job' \in [Requests -> Request \union {None}]
  BY <1>1, FormsAnswered DEF set_execution_env
<1>4. cache' \in [Env -> {"flat", "held", "unknown"} \union {None}] /\ late' \in SUBSET Env
  BY <1>1, LooksTyped DEF set_execution_env
<1>5. store' \in Store /\ Normal(store')
  <2>1. CASE n # None /\ store' \in normalize_active(s)
    <3>1. n \in Names /\ store.of[n] \in Strategy
      BY <2>1, <1>1, EffectiveSettings
    <3>2. job[r].env \in Env
      BY <1>1 DEF set_execution_env, Is, TypeOK, Request
    <3>3. [store.of[n] EXCEPT !.env = job[r].env] \in Strategy
      BY <3>1, <3>2 DEF Strategy
    <3>4. s.of = [store.of EXCEPT ![n] = [store.of[n] EXCEPT !.env = job[r].env]]
          /\ s.active = store.active
          /\ s = [active |-> s.active, of |-> s.of]
      BY <1>1 DEF Store
    <3>5. s.of \in [Names -> Strategy \union {None}]
      BY <3>3, <3>4, <1>2
    <3> HIDE DEF s
    <3>6. s \in Store
      BY <3>4, <3>5, <1>2 DEF Store
    <3> QED BY <3>6, <2>1, SavesNormalize
  <2>2. CASE UNCHANGED store
    BY <2>2, <1>1 DEF Normal, Live, Known
  <2> QED BY <2>1, <2>2 DEF set_execution_env, Saves
<1>7. UNCHANGED <<keys, trading, held, files, tick, proven, asked>>
  BY DEF set_execution_env
<1> QED BY <1>1, <1>3, <1>4, <1>5, <1>7 DEF TypeInv, TypeOK

LEMMA AccountType ==
    ASSUME TypeInv, NEW r \in Requests, update_account(r)
    PROVE  TypeInv'
<1> USE ArmingAssumption
<1> DEFINE base == job[r].base
           e    == job[r].env
<1>1. TypeOK /\ FormsAreWhole /\ Normal(store)
  BY DEF TypeInv
<1>2. base \in [Env -> Pairs \union {None}] /\ job[r].pair \in Pairs
  BY <1>1 DEF FormsAreWhole, update_account
<1>3. keys' = base \/ keys' = [base EXCEPT ![e] = job[r].pair]
  BY DEF update_account
<1>4. keys' \in [Env -> Pairs \union {None}]
  <2> HIDE DEF base
  <2> QED BY <1>2, <1>3
<1>5. cache' \in [Env -> {"flat", "held", "unknown"} \union {None}]
  BY <1>1 DEF update_account, TypeOK
<1>6. FormsAreWhole' /\ job' \in [Requests -> Request \union {None}]
  BY <1>1, FormsAnswered DEF update_account
<1>7. UNCHANGED <<store, trading, held, files, tick, proven, late, asked>>
  BY DEF update_account
<1> QED BY <1>1, <1>4, <1>5, <1>6, <1>7 DEF TypeInv, TypeOK, Normal, Live, Known

LEMMA AskOnType ==
    ASSUME TypeInv, NEW r \in Requests, AskOn(r)
    PROVE  TypeInv'
<1> USE ArmingAssumption
<1> DEFINE eff == resolve_effective(store)
           q   == [Asks("arm") EXCEPT !.name = store.active, !.env = eff.env,
                                      !.pair = keys[eff.env]]
<1>1. TypeOK /\ FormsAreWhole /\ Normal(store) /\ store \in Store
  BY DEF TypeInv, TypeOK
<1>2. store.active \in Names \union {None} /\ eff.env \in Env
  BY <1>1, EffectiveSettings DEF Store, Settings
<1>3. keys[eff.env] \in Pairs \union {None}
  BY <1>1, <1>2 DEF TypeOK
<1>4. q \in Request /\ q.op = "arm"
  <2>1. q.op = "arm"
    BY DEF Asks
  <2> HIDE DEF eff
  <2> QED BY <2>1, <1>2, <1>3, RequestsTyped
<1>5. Goes(r, q)
  BY DEF AskOn
<1>6. FormsAreWhole' /\ job' \in [Requests -> Request \union {None}]
  <2> HIDE DEF q
  <2> QED BY <1>1, <1>4, <1>5, FormsKept
<1>7. cache' \in [Env -> {"flat", "held", "unknown"} \union {None}] /\ late' \in SUBSET Env
  BY <1>1, LooksTyped DEF AskOn
<1>8. asked' \in 0 .. MaxRequests
  BY <1>1 DEF AskOn, Asked, TypeOK
<1>9. UNCHANGED <<store, keys, trading, held, files, tick, proven>>
  BY DEF AskOn
<1> QED BY <1>1, <1>6, <1>7, <1>8, <1>9 DEF TypeInv, TypeOK, Normal, Live, Known

LEMMA TurnOnType ==
    ASSUME TypeInv, NEW r \in Requests, NEW confirm \in BOOLEAN, turn_on(r, confirm)
    PROVE  TypeInv'
<1> USE ArmingAssumption
<1> DEFINE e == job[r].env
<1>1. TypeOK /\ FormsAreWhole /\ Normal(store) /\ store \in Store
  BY DEF TypeInv, TypeOK
<1>2. store.active \in Names \union {None}
  BY <1>1 DEF Store
<1>3. job[r] \in Request
  BY <1>1 DEF turn_on, Is, TypeOK
<1>4. FormsAreWhole' /\ job' \in [Requests -> Request \union {None}]
  BY <1>1, FormsAnswered DEF turn_on
<1>5. UNCHANGED <<store, keys, held, files, tick, asked>>
  BY DEF turn_on
<1>6. CASE /\ trading' = [on |-> TRUE, name |-> store.active, env |-> e]
           /\ cache' = [x \in Env |-> None]
           /\ proven' = proven \union {[name |-> job[r].name, env |-> e, pair |-> job[r].pair]}
           /\ late' = {}
  <2>1. trading' \in [on : BOOLEAN, name : Names \union {None}, env : Env]
    BY <1>6, <1>2, <1>3 DEF Request
  <2>2. proven' \in SUBSET Armed
    BY <1>6, <1>1, <1>3 DEF Request, Armed, TypeOK
  <2>3. cache' \in [Env -> {"flat", "held", "unknown"} \union {None}] /\ late' \in SUBSET Env
    BY <1>6
  <2> QED BY <1>1, <1>4, <1>5, <2>1, <2>2, <2>3 DEF TypeInv, TypeOK, Normal, Live, Known
<1>7. CASE UNCHANGED <<trading, cache, proven, late>>
  BY <1>7, <1>1, <1>4, <1>5 DEF TypeInv, TypeOK, Normal, Live, Known
<1> QED BY <1>6, <1>7 DEF turn_on

LEMMA TurnOffType == TypeInv /\ turn_off => TypeInv'
<1> SUFFICES ASSUME TypeInv, turn_off PROVE TypeInv'
  OBVIOUS
<1> USE ArmingAssumption
<1> DEFINE e == resolve_effective(store).env
<1>1. TypeOK /\ FormsAreWhole /\ Normal(store) /\ store \in Store
  BY DEF TypeInv, TypeOK
<1>2. e \in Env
  BY <1>1, EffectiveSettings DEF Settings
<1>3. cache' \in [Env -> {"flat", "held", "unknown"} \union {None}]
  BY <1>1, <1>2, ReadingTyped DEF turn_off, TypeOK
<1>4. trading' \in [on : BOOLEAN, name : Names \union {None}, env : Env]
  BY DEF turn_off, Off, Env
<1>5. late' \in SUBSET Env
  BY <1>1 DEF turn_off, TypeOK
<1>6. UNCHANGED <<store, keys, held, files, job, tick, proven, asked>>
  BY DEF turn_off
<1>7. FormsAreWhole'
  BY <1>1, <1>6, FormsStay
<1> QED BY <1>1, <1>3, <1>4, <1>5, <1>6, <1>7 DEF TypeInv, TypeOK, Normal, Live, Known

LEMMA BeginTickType == TypeInv /\ BeginTick => TypeInv'
<1> SUFFICES ASSUME TypeInv, BeginTick PROVE TypeInv'
  OBVIOUS
<1> USE ArmingAssumption
<1> DEFINE eff == resolve_effective(store)
<1>1. TypeOK /\ FormsAreWhole /\ Normal(store) /\ store \in Store
  BY DEF TypeInv, TypeOK
<1>2. eff \in Settings /\ store.active \in Names \union {None}
  BY <1>1, EffectiveSettings DEF Store
<1>3. eff.env \in Env
  BY <1>2 DEF Settings
<1> HIDE DEF eff
<1>4. PICK i \in evaluate(eff.inst) :
         tick' = [name |-> store.active, set |-> eff, pair |-> keys[eff.env], target |-> i]
  BY DEF BeginTick, eff
<1>5. keys[eff.env] \in Pairs
  BY <1>1, <1>3 DEF BeginTick, eff, TypeOK
<1>6. i \in Insts \union {None}
  BY DEF evaluate
<1>7. tick' \in Tick
  BY <1>2, <1>4, <1>5, <1>6 DEF Tick
<1>8. UNCHANGED <<store, keys, trading, held, cache, files, job, proven, late, asked>>
  BY DEF BeginTick
<1>9. FormsAreWhole'
  BY <1>1, <1>8, FormsStay
<1> QED BY <1>1, <1>7, <1>8, <1>9 DEF TypeInv, TypeOK, Normal, Live, Known

LEMMA SwitchType == TypeInv /\ set_strategy_config => TypeInv'
<1> SUFFICES ASSUME TypeInv, set_strategy_config PROVE TypeInv'
  OBVIOUS
<1> USE ArmingAssumption
<1>1. TypeOK /\ FormsAreWhole /\ Normal(store) /\ store \in Store
  BY DEF TypeInv, TypeOK
<1>2. store.of \in [Names -> Strategy \union {None}] /\ store.active \in Names \union {None}
  BY <1>1 DEF Store
<1>3. tick \in Tick /\ tick.target \in Insts /\ tick.set.bar \in Bars
  BY <1>1 DEF set_strategy_config, TypeOK, Tick, Settings
<1>4. files' \in SUBSET (Insts \X Bars)
  BY <1>1, <1>3 DEF set_strategy_config, TypeOK
<1>5. UNCHANGED <<keys, trading, held, cache, job, proven, late, asked>>
  BY DEF set_strategy_config
<1>6. FormsAreWhole'
  BY <1>1, <1>5, FormsStay
<1>7. CASE tick.name \in Known(store)
  <2> DEFINE s == [store EXCEPT !.of = Switched]
  <2>1. tick.name \in Names /\ store.of[tick.name] \in Strategy
    BY <1>7, <1>2 DEF Known
  <2>2. [store.of[tick.name] EXCEPT !.inst = tick.target] \in Strategy
    BY <2>1, <1>3 DEF Strategy
  <2>3. Switched = [store.of EXCEPT ![tick.name] =
                       [store.of[tick.name] EXCEPT !.inst = tick.target]]
    BY DEF Switched
  <2>4. Switched \in [Names -> Strategy \union {None}]
    BY <2>2, <2>3, <1>2
  <2>5. s \in Store
    BY <2>4, <1>1 DEF Store
  <2>6. store' \in normalize_active(s) /\ tick' = None
    BY <1>7 DEF set_strategy_config, Saves
  <2> HIDE DEF s
  <2>7. store' \in Store /\ Normal(store')
    BY <2>5, <2>6, SavesNormalize
  <2> QED BY <1>1, <1>4, <1>5, <1>6, <2>6, <2>7 DEF TypeInv, TypeOK
<1>8. CASE tick.name \notin Known(store)
  <2>1. tick' = [tick EXCEPT !.target = None] /\ UNCHANGED store
    BY <1>8 DEF set_strategy_config
  <2>2. tick' \in Tick
    BY <2>1, <1>3 DEF Tick
  <2> QED BY <1>1, <1>4, <1>5, <1>6, <2>1, <2>2 DEF TypeInv, TypeOK, Normal, Live, Known
<1> QED BY <1>7, <1>8

LEMMA DecideType == TypeInv /\ Decide => TypeInv'
<1> SUFFICES ASSUME TypeInv, Decide PROVE TypeInv'
  OBVIOUS
<1> USE ArmingAssumption
<1>1. TypeOK /\ FormsAreWhole /\ Normal(store)
  BY DEF TypeInv
<1>2. tick \in Tick
  BY <1>1 DEF Decide, TypeOK
<1>3. tick.set.env \in Env /\ tick.set.inst \in Insts /\ tick.set.bar \in Bars
  BY <1>2 DEF Tick, Settings
<1>4. files' \in SUBSET (Insts \X Bars) /\ held' \in SUBSET Env /\ late' \in SUBSET Env
  <2>1. files' \in SUBSET (Insts \X Bars)
    BY <1>1, <1>3 DEF Decide, TypeOK
  <2>2. held' \in SUBSET Env
    BY <1>1, <1>3 DEF Decide, TypeOK
  <2>3. late' \in SUBSET Env
    BY <1>1, <1>3 DEF Decide, TypeOK
  <2> QED BY <2>1, <2>2, <2>3
<1>5. UNCHANGED <<store, keys, trading, cache, job, proven, asked>> /\ tick' = None
  BY DEF Decide
<1>6. FormsAreWhole'
  BY <1>1, <1>5, FormsStay
<1> QED BY <1>1, <1>4, <1>5, <1>6 DEF TypeInv, TypeOK, Normal, Live, Known

\* A tick that is refused, a page that reads, a reading that expires and an
\* exit that fills.
LEMMA WorldType ==
    ASSUME TypeInv,
           \/ RefuseTick
           \/ \E e \in Env : Poll(e) \/ Expire(e) \/ Exit(e)
    PROVE  TypeInv'
<1>1. TypeOK /\ FormsAreWhole /\ Normal(store)
  BY DEF TypeInv
<1>2. CASE RefuseTick
  <2>1. FormsAreWhole'
    BY <1>1, <1>2, FormsStay DEF RefuseTick
  <2> QED BY <1>1, <1>2, <2>1 DEF RefuseTick, TypeInv, TypeOK, Normal, Live, Known
<1>3. ASSUME NEW e \in Env, Poll(e) PROVE TypeInv'
  <2>1. FormsAreWhole'
    BY <1>1, <1>3, FormsStay DEF Poll
  <2>2. cache' \in [Env -> {"flat", "held", "unknown"} \union {None}]
    BY <1>1, <1>3, ReadingTyped DEF Poll, TypeOK
  <2>3. late' \in SUBSET Env
    BY <1>1, <1>3 DEF Poll, TypeOK
  <2>4. UNCHANGED <<store, keys, trading, held, files, job, tick, proven, asked>>
    BY <1>3 DEF Poll
  <2> QED BY <1>1, <2>1, <2>2, <2>3, <2>4 DEF TypeInv, TypeOK, Normal, Live, Known
<1>4. ASSUME NEW e \in Env, Expire(e) PROVE TypeInv'
  <2>1. FormsAreWhole'
    BY <1>1, <1>4, FormsStay DEF Expire
  <2> QED BY <1>1, <1>4, <2>1 DEF Expire, TypeInv, TypeOK, Normal, Live, Known
<1>5. ASSUME NEW e \in Env, Exit(e) PROVE TypeInv'
  <2>1. FormsAreWhole'
    BY <1>1, <1>5, FormsStay DEF Exit
  <2> QED BY <1>1, <1>5, <2>1 DEF Exit, TypeInv, TypeOK, Normal, Live, Known
<1> QED BY <1>2, <1>3, <1>4, <1>5

LEMMA TypeStep == TypeInv /\ [Next]_vars => TypeInv'
<1> SUFFICES ASSUME TypeInv, [Next]_vars PROVE TypeInv'
  OBVIOUS
<1>1. CASE UNCHANGED vars
  <2>1. FormsAreWhole'
    BY <1>1, FormsStay DEF vars, TypeInv
  <2> QED BY <1>1, <2>1 DEF vars, TypeInv, TypeOK, Normal, Live, Known
<1>2. ASSUME NEW r \in Requests, Edit(r) PROVE TypeInv'
  BY <1>2, CreateType, RenameType, UpdateType, AskType DEF Edit
<1>3. ASSUME NEW r \in Requests, Serve(r) PROVE TypeInv'
  BY <1>3, DeleteType, EnvType, AccountType, TurnOnType DEF Serve
<1>4. ASSUME NEW r \in Requests, AskOn(r) PROVE TypeInv'
  BY <1>4, AskOnType
<1>5. CASE turn_off
  BY <1>5, TurnOffType
<1>6. CASE Loop
  BY <1>6, BeginTickType, SwitchType, DecideType, WorldType DEF Loop
<1>7. ASSUME NEW e \in Env, Poll(e) \/ Expire(e) \/ Exit(e) PROVE TypeInv'
  BY <1>7, WorldType
<1> QED BY <1>1, <1>2, <1>3, <1>4, <1>5, <1>6, <1>7 DEF Next

\* The files, the jobs of the threads and what the loop has read stay well
\* typed, however many requests are in flight at once.
THEOREM TypeCorrect == Spec => []TypeOK
<1>1. TypeInv => TypeOK
  BY DEF TypeInv
<1> QED BY <1>1, InitType, TypeStep, PTL DEF Spec

(***************************************************************************)
(* What a deletion keeps.                                                  *)
(***************************************************************************)

\* Strategies with bar sizes of their own stay so: a new one is given that of
\* the settings in force, and no edit takes one away.
LEMMA OwnBarsStep ==
    ASSUME TypeInv, OwnBars(store), [Next]_vars
    PROVE  OwnBars(store')
<1> USE ArmingAssumption
<1>1. store \in Store /\ Normal(store) /\ TypeOK
  BY DEF TypeInv, TypeOK
<1>2. store.of \in [Names -> Strategy \union {None}] /\ store.active \in Names \union {None}
  BY <1>1 DEF Store
<1>3. ASSUME NEW of \in [Names -> Strategy \union {None}],
             NEW active \in Names \union {None},
             \A x \in Names : of[x] # None => of[x].bar # None,
             store' \in normalize_active([active |-> active, of |-> of])
      PROVE  OwnBars(store')
  <2> DEFINE s == [active |-> active, of |-> of]
  <2>1. s \in Store /\ s.of = of
    BY DEF Store
  <2> HIDE DEF s
  <2>2. store'.of = of
    BY <2>1, <1>3, SavesNormalize DEF s
  <2> QED BY <2>2, <1>3 DEF OwnBars, Known
<1>4. \A x \in Names : store.of[x] # None => store.of[x].bar # None
  BY DEF OwnBars, Known
<1>5. CASE UNCHANGED store
  BY <1>5 DEF OwnBars, Known
<1>6. ASSUME NEW r \in Requests, NEW n \in Names, create_strategy(r, n)
      PROVE  OwnBars(store')
  <2> DEFINE old == store.of[n]
             new == [env |-> resolve_effective(store).env,
                     inst |-> resolve_effective(store).inst,
                     bar |-> resolve_effective(store).bar, deleted |-> FALSE]
             rec == IF old = None THEN new ELSE [old EXCEPT !.deleted = FALSE]
             of  == [store.of EXCEPT ![n] = rec]
  <2>1. resolve_effective(store) \in Settings /\ resolve_effective(store).bar # None
    BY <1>1, EffectiveSettings
  <2>2. new \in Strategy /\ new.bar # None
    BY <2>1 DEF Settings, Strategy
  <2>3. old # None => [old EXCEPT !.deleted = FALSE] \in Strategy
                      /\ [old EXCEPT !.deleted = FALSE].bar = old.bar
    BY <1>2 DEF Strategy
  <2>4. rec \in Strategy /\ rec.bar # None
    <3> HIDE DEF new
    <3> QED BY <2>2, <2>3, <1>4
  <2>5. store' \in normalize_active([active |-> n, of |-> of])
    BY <1>6 DEF create_strategy, Saves
  <2> HIDE DEF rec
  <2>6. of \in [Names -> Strategy \union {None}]
    BY <2>4, <1>2
  <2>7. \A x \in Names : of[x] # None => of[x].bar # None
    BY <2>4, <1>2, <1>4
  <2> HIDE DEF of
  <2> QED BY <2>5, <2>6, <2>7, <1>3
<1>7. ASSUME NEW r \in Requests, NEW n \in Names, NEW m \in Names, rename_strategy(r, n, m)
      PROVE  OwnBars(store')
  <2> DEFINE of  == [store.of EXCEPT ![m] = store.of[n], ![n] = None]
             act == IF store.active = n THEN m ELSE store.active
  <2>1. store' \in normalize_active([active |-> act, of |-> of])
    BY <1>7 DEF rename_strategy, Saves
  <2>2. of \in [Names -> Strategy \union {None}] /\ act \in Names \union {None}
    BY <1>2
  <2>3. \A x \in Names : of[x] # None => of[x].bar # None
    BY <1>2, <1>4
  <2> HIDE DEF of, act
  <2> QED BY <2>1, <2>2, <2>3, <1>3
<1>8. ASSUME NEW r \in Requests, NEW n \in Names, NEW i \in Insts, NEW b \in Bars,
             update_strategy(r, n, i, b)
      PROVE  OwnBars(store')
  <2> DEFINE of == [store.of EXCEPT ![n] = Saved(n, i, b)]
  <2>1. store' \in normalize_active([active |-> n, of |-> of])
    BY <1>8 DEF update_strategy, Saves
  <2>2. Saved(n, i, b) \in Strategy /\ Saved(n, i, b).bar # None
    <3>1. store.of[n] # None => store.of[n].env \in Env
      BY <1>2 DEF Strategy
    <3> QED BY <3>1 DEF Saved, Strategy, Settings
  <2>3. of \in [Names -> Strategy \union {None}]
    BY <1>2, <2>2
  <2>4. \A x \in Names : of[x] # None => of[x].bar # None
    BY <1>2, <1>4, <2>2
  <2> HIDE DEF of
  <2> QED BY <2>1, <2>3, <2>4, <1>3
<1>9. ASSUME NEW r \in Requests, delete_strategy(r)
      PROVE  OwnBars(store')
  <2> DEFINE n   == job[r].name
             of  == [store.of EXCEPT ![n].deleted = TRUE]
             act == IF store.active = n THEN None ELSE store.active
  <2>1. CASE n \in Live(store) /\ store' \in normalize_active([active |-> act, of |-> of])
    <3>1. n \in Names /\ store.of[n] \in Strategy
      BY <2>1, <1>2 DEF Live, Known
    <3>2. [store.of[n] EXCEPT !.deleted = TRUE] \in Strategy
          /\ [store.of[n] EXCEPT !.deleted = TRUE].bar = store.of[n].bar
      BY <3>1 DEF Strategy
    <3>3. of = [store.of EXCEPT ![n] = [store.of[n] EXCEPT !.deleted = TRUE]]
      OBVIOUS
    <3>4. of \in [Names -> Strategy \union {None}] /\ act \in Names \union {None}
      BY <3>2, <3>3, <1>2
    <3>5. store.of[n] # None
      BY <2>1 DEF Live, Known
    <3>6. \A x \in Names : of[x] # None => of[x].bar # None
      BY <3>1, <3>2, <3>3, <3>5, <1>2, <1>4
    <3> HIDE DEF of, act
    <3> QED BY <2>1, <3>4, <3>6, <1>3
  <2>2. CASE UNCHANGED store
    BY <2>2, <1>5
  <2> QED BY <2>1, <2>2, <1>9 DEF delete_strategy, Saves
<1>10. ASSUME NEW r \in Requests, set_execution_env(r)
       PROVE  OwnBars(store')
  <2> DEFINE n   == store.active
             of  == [store.of EXCEPT ![n] = [store.of[n] EXCEPT !.env = job[r].env]]
  <2>1. CASE n # None /\ store' \in normalize_active([store EXCEPT !.of[n].env = job[r].env])
    <3>1. n \in Names /\ store.of[n] \in Strategy
      BY <2>1, <1>1, EffectiveSettings
    <3>2. job[r].env \in Env
      BY <1>1, <1>10 DEF set_execution_env, Is, TypeOK, Request
    <3>3. [store.of[n] EXCEPT !.env = job[r].env] \in Strategy
          /\ [store.of[n] EXCEPT !.env = job[r].env].bar = store.of[n].bar
      BY <3>1, <3>2 DEF Strategy
    <3>4. [store EXCEPT !.of[n].env = job[r].env] = [active |-> n, of |-> of]
      BY <1>1 DEF Store
    <3>5. of \in [Names -> Strategy \union {None}]
      BY <3>3, <1>2
    <3>6. store.of[n] # None
      BY <2>1, <1>1 DEF Normal, Live, Known
    <3>7. \A x \in Names : of[x] # None => of[x].bar # None
      BY <3>1, <3>3, <3>6, <1>2, <1>4
    <3> HIDE DEF of
    <3> QED BY <2>1, <3>1, <3>4, <3>5, <3>7, <1>3
  <2>2. CASE UNCHANGED store
    BY <2>2, <1>5
  <2> QED BY <2>1, <2>2, <1>10 DEF set_execution_env, Saves
<1>11. CASE set_strategy_config
  <2>1. tick.target \in Insts
    BY <1>11, <1>1 DEF set_strategy_config, TypeOK, Tick
  <2>2. CASE tick.name \in Known(store) /\ store' \in normalize_active([store EXCEPT !.of = Switched])
    <3>1. tick.name \in Names /\ store.of[tick.name] # None /\ store.of[tick.name] \in Strategy
      BY <2>2, <1>2 DEF Known
    <3>2. [store.of[tick.name] EXCEPT !.inst = tick.target] \in Strategy
          /\ [store.of[tick.name] EXCEPT !.inst = tick.target].bar = store.of[tick.name].bar
      BY <3>1, <2>1 DEF Strategy
    <3>3. Switched = [store.of EXCEPT ![tick.name] =
                         [store.of[tick.name] EXCEPT !.inst = tick.target]]
      BY DEF Switched
    <3>4. Switched \in [Names -> Strategy \union {None}]
      BY <3>2, <3>3, <1>2
    <3>5. \A x \in Names : Switched[x] # None => Switched[x].bar # None
      BY <3>1, <3>2, <3>3, <1>2, <1>4
    <3>6. [store EXCEPT !.of = Switched] = [active |-> store.active, of |-> Switched]
      BY <1>1 DEF Store
    <3> QED BY <2>2, <3>4, <3>5, <3>6, <1>2, <1>3
  <2>3. CASE UNCHANGED store
    BY <2>3, <1>5
  <2> QED BY <2>2, <2>3, <1>11 DEF set_strategy_config, Saves
<1>12. CASE \E r \in Requests :
               \/ \E n \in Names, d \in BOOLEAN : AskDelete(r, n, d)
               \/ \E e \in Env : AskEnv(r, e)
               \/ \E p \in Pairs : AskAccount(r, p)
               \/ update_account(r) \/ AskOn(r)
               \/ \E c \in BOOLEAN : turn_on(r, c)
  <2>1. UNCHANGED store
    BY <1>12, Zenon DEF AskDelete, AskEnv, AskAccount, update_account, AskOn, turn_on
  <2> QED BY <2>1, <1>5
<1>13. CASE turn_off \/ BeginTick \/ Decide \/ RefuseTick
            \/ \E e \in Env : Poll(e) \/ Expire(e) \/ Exit(e)
  <2>1. UNCHANGED store
    BY <1>13, Zenon DEF turn_off, BeginTick, Decide, RefuseTick, Poll, Expire, Exit
  <2> QED BY <2>1, <1>5
<1>14. CASE UNCHANGED vars
  BY <1>14, <1>5 DEF vars
<1>15. ASSUME NEW r \in Requests, Edit(r) PROVE OwnBars(store')
  BY <1>15, <1>6, <1>7, <1>8, <1>12 DEF Edit
<1>16. ASSUME NEW r \in Requests, Serve(r) PROVE OwnBars(store')
  BY <1>16, <1>9, <1>10, <1>12 DEF Serve
<1> QED BY <1>11, <1>12, <1>13, <1>14, <1>15, <1>16 DEF Next, Loop

LEMMA InitOwnBars == Init /\ ~Legacy => OwnBars(store)
BY DEF Init, OwnBars

\* The only step that removes a file is a deletion, and it leaves those of the
\* strategies that are live when it is done.
LEMMA DeletionKeeps ==
    ASSUME TypeInv, OwnBars(store), [Next]_vars,
           NEW n \in Live(store'), DataOf(store'.of[n]) \in files, DataOf(store'.of[n]) \notin files'
    PROVE  FALSE
<1> USE ArmingAssumption
<1>1. store \in Store /\ TypeOK
  BY DEF TypeInv, TypeOK
<1>2. store.of \in [Names -> Strategy \union {None}] /\ store.active \in Names \union {None}
  BY <1>1 DEF Store
<1>3. PICK r \in Requests : delete_strategy(r)
  <2>1. ~(files \subseteq files')
    OBVIOUS
  <2>2. CASE UNCHANGED vars
    BY <2>1, <2>2 DEF vars
  <2>3. ASSUME NEW r \in Requests, Edit(r) PROVE FALSE
    BY <2>1, <2>3, Zenon DEF Edit, create_strategy, rename_strategy, update_strategy, AskDelete,
       AskEnv, AskAccount
  <2>4. CASE turn_off \/ (\E r \in Requests : AskOn(r)) \/ BeginTick \/ RefuseTick
    BY <2>1, <2>4, Zenon DEF turn_off, AskOn, BeginTick, RefuseTick
  <2>5. CASE set_strategy_config \/ Decide
    BY <2>1, <2>5 DEF set_strategy_config, Decide
  <2>6. CASE \E e \in Env : Poll(e) \/ Expire(e) \/ Exit(e)
    BY <2>1, <2>6, Zenon DEF Poll, Expire, Exit
  <2>7. ASSUME NEW r \in Requests, Serve(r), ~delete_strategy(r) PROVE FALSE
    BY <2>1, <2>7, Zenon DEF Serve, set_execution_env, update_account, turn_on
  <2> QED BY <2>2, <2>3, <2>4, <2>5, <2>6, <2>7 DEF Next, Loop
<1> DEFINE d   == job[r].name
           of  == [store.of EXCEPT ![d].deleted = TRUE]
           s   == [active |-> IF store.active = d THEN None ELSE store.active, of |-> of]
<1>4. /\ d \in Live(store)
      /\ store' \in normalize_active(s)
      /\ files' = files \ _delete_symbol_datasets(d, s)
  BY <1>3 DEF delete_strategy, Saves
<1>5. d \in Names /\ store.of[d] \in Strategy /\ store.of[d] # None
  BY <1>4, <1>2 DEF Live, Known
<1>6. [store.of[d] EXCEPT !.deleted = TRUE] \in Strategy
      /\ [store.of[d] EXCEPT !.deleted = TRUE].bar = store.of[d].bar
  BY <1>5 DEF Strategy
<1>7. of = [store.of EXCEPT ![d] = [store.of[d] EXCEPT !.deleted = TRUE]]
  OBVIOUS
<1>8. of \in [Names -> Strategy \union {None}]
  BY <1>6, <1>7, <1>2
<1>9. \A x \in Names : of[x] # None => of[x].bar # None
  <2>1. \A x \in Names : store.of[x] # None => store.of[x].bar # None
    BY DEF OwnBars, Known
  <2> QED BY <2>1, <1>5, <1>6, <1>7, <1>2
<1>10. s \in Store /\ s.of = of
  BY <1>8, <1>2 DEF Store
<1> HIDE DEF s, of
<1>11. store'.of = of /\ Live(s) = Live(store')
  BY <1>4, <1>10, SavesNormalize
<1>12. n \in Live(s) /\ n \in Names /\ of[n] # None
  BY <1>11, <1>10 DEF Live, Known
<1>13. DataOf(store'.of[n]) = <<s.of[n].inst, BarOf(s.of[n], resolve_effective(store).bar)>>
  BY <1>9, <1>10, <1>11, <1>12 DEF DataOf, BarOf
<1>14. DataOf(store'.of[n]) \notin _delete_symbol_datasets(d, s)
  BY <1>12, <1>13 DEF _delete_symbol_datasets
<1> QED BY <1>4, <1>14

\* Deleting a strategy with its data keeps every dataset that a live strategy
\* runs on, when each stored strategy names its bar size, as those the panel
\* saves do: requests may overlap, and ticks fetch and switch meanwhile.
THEOREM DeletionKeepsLiveData == ~Legacy => (Spec => LiveDataIsKept)
<1> DEFINE Kept == \A n \in Live(store)' : DataOf(store.of[n])' \notin files \ files'
<1>1. TypeInv /\ OwnBars(store) /\ [Next]_vars => Kept
  <2> SUFFICES ASSUME TypeInv, OwnBars(store), [Next]_vars, NEW n \in Live(store'),
                      DataOf(store'.of[n]) \in files \ files'
               PROVE  FALSE
    BY DEF DataOf, BarOf, Live, Known
  <2> QED BY DeletionKeeps
<1>2. OwnBars(store) /\ TypeInv /\ [Next]_vars => OwnBars(store)'
  <2>1. OwnBars(store') => OwnBars(store)'
    BY DEF OwnBars, Known
  <2> QED BY <2>1, OwnBarsStep
<1>3. ~Legacy /\ Init => OwnBars(store)
  BY InitOwnBars
<1> QED BY <1>1, <1>2, <1>3, InitType, TypeStep, PTL DEF Spec, LiveDataIsKept

(***************************************************************************)
(* One request at a time: what is armed is what was checked.               *)
(***************************************************************************)

\* What the operator's requests are about is of now, and no edit is waiting
\* while trading is on.
RequestsAreOfNow == EditsWaitWithTradingOff /\ ArmingIsOfNow /\ FormIsOfNow

\* With no request in flight there is nothing to say of one.
LEMMA NoRequest ==
    ASSUME OneAtATime, NEW r \in Requests, job[r] = None
    PROVE  RequestsAreOfNow
BY DEF OneAtATime, RequestsAreOfNow, EditsWaitWithTradingOff, ArmingIsOfNow, FormIsOfNow, Is

\* An answer leaves none.
LEMMA Answered ==
    ASSUME OneAtATime, TypeOK, NEW r \in Requests, Answers(r)
    PROVE  RequestsAreOfNow'
<1>1. job'[r] = None
  BY DEF Answers, TypeOK
<1> QED BY <1>1 DEF OneAtATime, RequestsAreOfNow, EditsWaitWithTradingOff, ArmingIsOfNow,
   FormIsOfNow, Is

\* Looking at an account that holds a position never shows it flat.
LEMMA ReadingIsTrue ==
    ASSUME NEW e \in held, keys[e] # None
    PROVE  "flat" \notin Reading(e)
BY DEF Reading

\* So what a request has looked at is no flatter than it was.
LEMMA LooksTrue ==
    ASSUME TypeOK, OnlyWithKeys, FlatReadings, Looks, UNCHANGED <<held, trading>>
    PROVE  FlatReadings'
<1> USE ArmingAssumption
<1> SUFFICES ASSUME NEW e \in held, cache'[e] = "flat"
             PROVE  e \in late' \/ (trading.on /\ trading.env = e)
  BY DEF FlatReadings
<1>1. e \in Env /\ cache'[e] \in snapshot(e)
  BY DEF TypeOK, Looks
<1>2. cache[e] = "flat"
  BY <1>1, ReadingIsTrue DEF snapshot, OnlyWithKeys
<1>3. e \in late => e \in late'
  BY <1>2 DEF Looks
<1> QED BY <1>2, <1>3 DEF FlatReadings

\* What a save leaves in force, when it keeps the account of each strategy.
LEMMA SavesKeepAccount ==
    ASSUME NEW s \in Store, Normal(s), NEW of \in [Names -> Strategy \union {None}],
           \A n \in Names : /\ of[n] = None <=> s.of[n] = None
                            /\ s.of[n] # None => /\ of[n].deleted = s.of[n].deleted
                                                 /\ of[n].env = s.of[n].env,
           NEW t \in normalize_active([s EXCEPT !.of = of])
    PROVE  /\ t.active = s.active
           /\ resolve_effective(t).env = resolve_effective(s).env
<1> DEFINE u == [s EXCEPT !.of = of]
<1>1. u \in Store /\ u.of = of /\ u.active = s.active
  BY DEF Store
<1> HIDE DEF u
<1>2. Live(u) = Live(s)
  BY <1>1 DEF Live, Known
<1>3. Normal(u)
  BY <1>1, <1>2 DEF Normal
<1>4. t.active = s.active /\ t.of = of
  BY <1>1, <1>3, SavesNormalize DEF u
<1>5. CASE s.active = None
  BY <1>4, <1>5 DEF resolve_effective
<1>6. CASE s.active # None
  <2>1. s.active \in Names /\ s.of[s.active] # None
    BY <1>6 DEF Normal, Live, Known
  <2>2. resolve_effective(t).env = of[s.active].env
    BY <1>4, <1>6 DEF resolve_effective
  <2>3. resolve_effective(s).env = s.of[s.active].env
    BY <1>6 DEF resolve_effective
  <2> QED BY <2>1, <2>2, <2>3, <1>4
<1> QED BY <1>5, <1>6

LEMMA InitArm == Init => ArmInv
<1> SUFFICES ASSUME Init PROVE ArmInv
  OBVIOUS
<1>1. \A r \in Requests : job[r] = None
  BY DEF Init
<1>2. RequestsAreOfNow
  BY <1>1 DEF RequestsAreOfNow, EditsWaitWithTradingOff, ArmingIsOfNow, FormIsOfNow, Is
<1>3. OnlyWithKeys /\ FlatReadings /\ TicksWereProven
  BY DEF Init, OnlyWithKeys, FlatReadings, TicksWereProven
<1>4. ArmingHolds
  BY DEF Init, Off, ArmingHolds
<1> QED BY <1>2, <1>3, <1>4 DEF ArmInv, RequestsAreOfNow

\* An edit that does not wait: trading is off, and no other request is served.
LEMMA EditArm ==
    ASSUME OneAtATime, TypeInv, ArmInv, NEW r \in Requests,
           \/ \E n \in Names : create_strategy(r, n)
           \/ \E n, m \in Names : rename_strategy(r, n, m)
           \/ \E n \in Names, i \in Insts, b \in Bars : update_strategy(r, n, i, b)
    PROVE  ArmInv'
<1>1. /\ job[r] = None /\ ~trading.on
      /\ UNCHANGED <<keys, trading, held, cache, files, job, tick, proven, late>>
  BY Zenon DEF create_strategy, rename_strategy, update_strategy, MayEdit
<1>2. RequestsAreOfNow'
  BY <1>1 DEF OneAtATime, RequestsAreOfNow, EditsWaitWithTradingOff, ArmingIsOfNow, FormIsOfNow, Is
<1>3. OnlyWithKeys' /\ FlatReadings' /\ TicksWereProven'
  BY <1>1 DEF ArmInv, OnlyWithKeys, FlatReadings, TicksWereProven
<1>4. ArmingHolds'
  BY <1>1 DEF ArmingHolds
<1> QED BY <1>2, <1>3, <1>4 DEF ArmInv, RequestsAreOfNow

\* One that does is let in with trading off, over the pairs that are stored.
LEMMA AskArm ==
    ASSUME OneAtATime, TypeInv, ArmInv, NEW r \in Requests,
           \/ \E n \in Names, withData \in BOOLEAN : AskDelete(r, n, withData)
           \/ \E e \in Env : AskEnv(r, e)
           \/ \E pair \in Pairs : AskAccount(r, pair)
    PROVE  ArmInv'
<1>1. /\ ~trading.on
      /\ UNCHANGED <<store, keys, trading, held, cache, files, tick, proven, late>>
  BY Zenon DEF AskDelete, AskEnv, AskAccount, MayEdit
<1>2. job \in [Requests -> Request \union {None}]
  BY DEF TypeInv, TypeOK
<1>3. job'[r] # None => job'[r].op # "arm" /\ (job'[r].op = "account" => job'[r].base = keys)
  <2>1. ASSUME NEW n \in Names, NEW d \in BOOLEAN, AskDelete(r, n, d)
        PROVE  job'[r].op = "delete"
    BY <1>2, <2>1 DEF AskDelete, Goes, Asks
  <2>2. ASSUME NEW e \in Env, AskEnv(r, e) PROVE job'[r].op = "env"
    BY <1>2, <2>2 DEF AskEnv, Goes, Asks
  <2>3. ASSUME NEW p \in Pairs, AskAccount(r, p)
        PROVE  job'[r].op = "account" /\ job'[r].base = keys
    BY <1>2, <2>3 DEF AskAccount, Goes, Asks
  <2> QED BY <2>1, <2>2, <2>3
<1>4. RequestsAreOfNow'
  BY <1>1, <1>3 DEF OneAtATime, RequestsAreOfNow, EditsWaitWithTradingOff, ArmingIsOfNow,
     FormIsOfNow, Is
<1>5. OnlyWithKeys' /\ FlatReadings' /\ TicksWereProven'
  BY <1>1 DEF ArmInv, OnlyWithKeys, FlatReadings, TicksWereProven
<1>6. ArmingHolds'
  BY <1>1 DEF ArmingHolds
<1> QED BY <1>4, <1>5, <1>6 DEF ArmInv, RequestsAreOfNow

\* An edit that has waited is answered with trading still off.
LEMMA WaitedArm ==
    ASSUME OneAtATime, TypeInv, ArmInv, NEW r \in Requests,
           delete_strategy(r) \/ set_execution_env(r)
    PROVE  ArmInv'
<1>1. ~trading.on
  BY DEF delete_strategy, set_execution_env, ArmInv, EditsWaitWithTradingOff
<1>2. Answers(r) /\ Looks /\ UNCHANGED <<keys, trading, held, tick, proven>>
  BY DEF delete_strategy, set_execution_env
<1>3. TypeOK
  BY DEF TypeInv
<1>4. RequestsAreOfNow'
  BY <1>2, <1>3, Answered
<1>5. FlatReadings'
  BY <1>2, <1>3, LooksTrue DEF ArmInv
<1>6. OnlyWithKeys' /\ TicksWereProven'
  BY <1>2 DEF ArmInv, OnlyWithKeys, TicksWereProven
<1>7. ArmingHolds'
  BY <1>1, <1>2 DEF ArmingHolds
<1> QED BY <1>4, <1>5, <1>6, <1>7 DEF ArmInv, RequestsAreOfNow

\* A save of the account takes no stored pair away.
LEMMA AccountArm ==
    ASSUME OneAtATime, TypeInv, ArmInv, NEW r \in Requests, update_account(r)
    PROVE  ArmInv'
<1> USE ArmingAssumption
<1>1. TypeOK /\ Is(r, "account") /\ Answers(r)
  BY DEF TypeInv, update_account
<1>2. ~trading.on /\ job[r].base = keys /\ job[r].pair \in Pairs
  BY <1>1 DEF ArmInv, EditsWaitWithTradingOff, FormIsOfNow, TypeInv, FormsAreWhole
<1>3. keys' = keys \/ keys' = [keys EXCEPT ![job[r].env] = job[r].pair]
  BY <1>2 DEF update_account
<1>4. \A e \in Env : keys[e] # None => keys'[e] # None
  BY <1>1, <1>2, <1>3 DEF TypeOK
<1>5. UNCHANGED <<store, trading, held, files, tick, proven, late>>
  BY DEF update_account
<1>6. \A e \in Env : cache'[e] = "flat" => cache[e] = "flat"
  BY <1>1 DEF update_account, TypeOK
<1>7. RequestsAreOfNow'
  BY <1>1, Answered
<1>8. OnlyWithKeys'
  <2>1. tick # None => tick.set.env \in Env
    BY <1>1 DEF TypeOK, Tick, Settings
  <2> QED BY <1>1, <1>4, <1>5, <2>1 DEF ArmInv, OnlyWithKeys, TypeOK
<1>9. FlatReadings'
  BY <1>1, <1>5, <1>6 DEF ArmInv, FlatReadings, TypeOK
<1>10. ArmingHolds' /\ TicksWereProven'
  BY <1>2, <1>5 DEF ArmInv, ArmingHolds, TicksWereProven
<1> QED BY <1>7, <1>8, <1>9, <1>10 DEF ArmInv, RequestsAreOfNow

\* An arming takes the settings of the moment.
LEMMA AskOnArm ==
    ASSUME OneAtATime, TypeInv, ArmInv, NEW r \in Requests, AskOn(r)
    PROVE  ArmInv'
<1> DEFINE eff == resolve_effective(store)
<1>1. TypeOK
  BY DEF TypeInv
<1>2. Looks /\ UNCHANGED <<store, keys, trading, held, files, tick, proven>>
  BY DEF AskOn
<1>3. /\ job'[r].op = "arm" /\ job'[r].name = store.active
      /\ job'[r].env = eff.env /\ job'[r].pair = keys[eff.env]
  BY <1>1 DEF AskOn, Goes, Asks, TypeOK
<1> HIDE DEF eff
<1>4. RequestsAreOfNow'
  <2>1. EditsWaitWithTradingOff' /\ FormIsOfNow'
    BY <1>3 DEF OneAtATime, EditsWaitWithTradingOff, FormIsOfNow, Is
  <2>2. resolve_effective(store)' = eff
    BY <1>2 DEF eff, resolve_effective, BarOf
  <2>3. ArmingIsOfNow'
    BY <1>2, <1>3, <2>2 DEF OneAtATime, ArmingIsOfNow
  <2> QED BY <2>1, <2>3 DEF RequestsAreOfNow
<1>5. FlatReadings'
  BY <1>1, <1>2, LooksTrue DEF ArmInv
<1>6. OnlyWithKeys' /\ TicksWereProven'
  BY <1>2 DEF ArmInv, OnlyWithKeys, TicksWereProven
<1>7. ArmingHolds'
  BY <1>2 DEF ArmInv, ArmingHolds, resolve_effective, BarOf
<1> QED BY <1>4, <1>5, <1>6, <1>7 DEF ArmInv, RequestsAreOfNow

\* What is written to the switch is what was checked.
LEMMA TurnOnArm ==
    ASSUME OneAtATime, TypeInv, ArmInv, NEW r \in Requests, NEW confirm \in BOOLEAN,
           turn_on(r, confirm)
    PROVE  ArmInv'
<1> USE ArmingAssumption
<1>1. TypeOK /\ Is(r, "arm") /\ Answers(r)
  BY DEF TypeInv, turn_on
<1>2. UNCHANGED <<store, keys, held, files, tick>>
  BY DEF turn_on
<1>3. RequestsAreOfNow'
  BY <1>1, Answered
<1>4. OnlyWithKeys'
  BY <1>2 DEF ArmInv, OnlyWithKeys
<1>5. CASE /\ trading' = [on |-> TRUE, name |-> store.active, env |-> job[r].env]
           /\ cache' = [x \in Env |-> None]
           /\ proven' = proven \union {[name |-> job[r].name, env |-> job[r].env,
                                        pair |-> job[r].pair]}
           /\ late' = {}
  <2>1. /\ job[r].name = store.active /\ job[r].env = resolve_effective(store).env
        /\ job[r].pair = keys[job[r].env]
    BY <1>1 DEF ArmInv, ArmingIsOfNow
  <2>2. resolve_effective(store)' = resolve_effective(store)
    BY <1>2 DEF resolve_effective, BarOf
  <2>3. ArmingHolds'
    BY <1>2, <1>5, <2>1, <2>2 DEF ArmingHolds
  <2>4. FlatReadings'
    BY <1>1, <1>2, <1>5 DEF FlatReadings, TypeOK
  <2>5. TicksWereProven'
    BY <1>2, <1>5 DEF ArmInv, TicksWereProven
  <2> QED BY <1>3, <1>4, <2>3, <2>4, <2>5 DEF ArmInv, RequestsAreOfNow
<1>6. CASE UNCHANGED <<trading, cache, proven, late>>
  <2>1. ArmingHolds'
    BY <1>2, <1>6 DEF ArmInv, ArmingHolds, resolve_effective, BarOf
  <2>2. FlatReadings' /\ TicksWereProven'
    BY <1>2, <1>6 DEF ArmInv, FlatReadings, TicksWereProven
  <2> QED BY <1>3, <1>4, <2>1, <2>2 DEF ArmInv, RequestsAreOfNow
<1> QED BY <1>5, <1>6 DEF turn_on

\* The stop looks again at the account that was traded.
LEMMA TurnOffArm ==
    ASSUME TypeInv, ArmInv, turn_off
    PROVE  ArmInv'
<1> USE ArmingAssumption
<1> DEFINE e == resolve_effective(store).env
<1>1. TypeOK /\ trading.on /\ trading' = Off /\ e = trading.env
  BY DEF TypeInv, turn_off, ArmInv, ArmingHolds
<1>2. UNCHANGED <<store, keys, held, files, job, tick, proven>>
  BY DEF turn_off
<1>3. e \in Env
  BY <1>1 DEF TypeOK
<1>4. late' = late \ {e} /\ \E seen \in Reading(e) : cache' = [cache EXCEPT ![e] = seen]
  BY DEF turn_off
<1> HIDE DEF e
<1>5. EditsWaitWithTradingOff'
  BY <1>1 DEF EditsWaitWithTradingOff, Off
<1>6. ArmingIsOfNow' /\ FormIsOfNow'
  BY <1>2 DEF ArmInv, ArmingIsOfNow, FormIsOfNow, Is, resolve_effective, BarOf
<1>7. OnlyWithKeys' /\ TicksWereProven'
  BY <1>2 DEF ArmInv, OnlyWithKeys, TicksWereProven
<1>8. FlatReadings'
  <2> SUFFICES ASSUME NEW x \in held, cache'[x] = "flat" PROVE x \in late'
    BY <1>2 DEF FlatReadings
  <2>1. x \in Env /\ keys[x] # None
    BY <1>1 DEF TypeOK, ArmInv, OnlyWithKeys
  <2>2. x # e
    BY <1>1, <1>3, <1>4, <2>1, ReadingIsTrue DEF TypeOK
  <2>3. cache[x] = "flat"
    BY <1>1, <1>4, <2>1, <2>2 DEF TypeOK
  <2> QED BY <1>1, <1>4, <2>2, <2>3 DEF ArmInv, FlatReadings
<1>9. ArmingHolds'
  BY <1>1 DEF ArmingHolds, Off
<1> QED BY <1>5, <1>6, <1>7, <1>8, <1>9 DEF ArmInv

\* A tick begins with what was checked.
LEMMA BeginTickArm ==
    ASSUME TypeInv, ArmInv, BeginTick
    PROVE  ArmInv'
<1> DEFINE eff == resolve_effective(store)
<1>1. UNCHANGED <<store, keys, trading, held, cache, files, job, proven, late>>
  BY DEF BeginTick
<1>2. /\ trading.on /\ keys[eff.env] # None
      /\ tick'.name = store.active /\ tick'.set = eff /\ tick'.pair = keys[eff.env]
  BY DEF BeginTick
<1>3. /\ eff.env = trading.env
      /\ [name |-> store.active, env |-> trading.env, pair |-> keys[trading.env]] \in proven
  BY <1>2 DEF ArmInv, ArmingHolds
<1> HIDE DEF eff
<1>4. TicksWereProven' /\ OnlyWithKeys'
  BY <1>1, <1>2, <1>3 DEF ArmInv, TicksWereProven, OnlyWithKeys
<1>5. RequestsAreOfNow'
  BY <1>1 DEF ArmInv, RequestsAreOfNow, EditsWaitWithTradingOff, ArmingIsOfNow, FormIsOfNow, Is,
     resolve_effective, BarOf
<1>6. FlatReadings' /\ ArmingHolds'
  BY <1>1 DEF ArmInv, FlatReadings, ArmingHolds, resolve_effective, BarOf
<1> QED BY <1>4, <1>5, <1>6 DEF ArmInv, RequestsAreOfNow

\* A switch of instrument changes neither the active strategy nor its account.
LEMMA SwitchArm ==
    ASSUME TypeInv, ArmInv, set_strategy_config
    PROVE  ArmInv'
<1>1. TypeOK /\ store \in Store /\ Normal(store)
  BY DEF TypeInv, TypeOK
<1>2. store.of \in [Names -> Strategy \union {None}]
  BY <1>1 DEF Store
<1>3. UNCHANGED <<keys, trading, held, cache, job, proven, late>>
  BY DEF set_strategy_config
<1>4. tick \in Tick /\ tick.target \in Insts
  BY <1>1 DEF set_strategy_config, TypeOK, Tick
<1>5. /\ store'.active = store.active
      /\ resolve_effective(store').env = resolve_effective(store).env
  <2>1. CASE tick.name \in Known(store) /\ store' \in normalize_active([store EXCEPT !.of = Switched])
    <3>1. tick.name \in Names /\ store.of[tick.name] # None /\ store.of[tick.name] \in Strategy
      BY <2>1, <1>2 DEF Known
    <3> DEFINE new == [store.of[tick.name] EXCEPT !.inst = tick.target]
    <3>2. new \in Strategy /\ new.deleted = store.of[tick.name].deleted
          /\ new.env = store.of[tick.name].env
      BY <3>1, <1>4 DEF Strategy
    <3>3. Switched = [store.of EXCEPT ![tick.name] = new]
      BY DEF Switched
    <3>4. new # None
      BY <3>2, ArmingAssumption
    <3> HIDE DEF new
    <3>5. Switched \in [Names -> Strategy \union {None}]
      BY <3>2, <3>3, <1>2
    <3>6. \A n \in Names : /\ Switched[n] = None <=> store.of[n] = None
                           /\ store.of[n] # None => /\ Switched[n].deleted = store.of[n].deleted
                                                    /\ Switched[n].env = store.of[n].env
      BY <3>1, <3>2, <3>3, <3>4, <1>2
    <3> QED BY <3>5, <3>6, <1>1, <2>1, SavesKeepAccount
  <2>2. CASE UNCHANGED store
    BY <2>2 DEF resolve_effective, BarOf
  <2> QED BY <2>1, <2>2 DEF set_strategy_config, Saves
<1>6. ArmingHolds' /\ ArmingIsOfNow'
  BY <1>3, <1>5 DEF ArmInv, ArmingHolds, ArmingIsOfNow, Is
<1>7. EditsWaitWithTradingOff' /\ FormIsOfNow' /\ FlatReadings'
  BY <1>3 DEF ArmInv, EditsWaitWithTradingOff, FormIsOfNow, Is, FlatReadings
<1>8. tick' # None => tick'.name = tick.name /\ tick'.set = tick.set /\ tick'.pair = tick.pair
  BY <1>4 DEF set_strategy_config, Tick
<1>9. OnlyWithKeys' /\ TicksWereProven'
  <2>1. tick # None
    BY DEF set_strategy_config
  <2> QED BY <1>3, <1>8, <2>1 DEF ArmInv, OnlyWithKeys, TicksWereProven
<1> QED BY <1>6, <1>7, <1>9 DEF ArmInv

\* A position is opened in the account that is traded, or by a tick that was
\* stopped.
LEMMA DecideArm ==
    ASSUME TypeInv, ArmInv, Decide
    PROVE  ArmInv'
<1>1. TypeOK /\ tick # None /\ tick' = None
  BY DEF TypeInv, Decide
<1>2. UNCHANGED <<store, keys, trading, cache, job, proven>>
  BY DEF Decide
<1>3. RequestsAreOfNow'
  BY <1>2 DEF ArmInv, RequestsAreOfNow, EditsWaitWithTradingOff, ArmingIsOfNow, FormIsOfNow, Is,
     resolve_effective, BarOf
<1>4. held' \subseteq held \union {tick.set.env}
  BY DEF Decide
<1>5. OnlyWithKeys' /\ TicksWereProven'
  BY <1>1, <1>2, <1>4 DEF ArmInv, OnlyWithKeys, TicksWereProven
<1>6. FlatReadings'
  <2> SUFFICES ASSUME NEW e \in held', cache[e] = "flat"
               PROVE  e \in late' \/ (trading.on /\ trading.env = e)
    BY <1>2 DEF FlatReadings
  <2>1. late \subseteq late'
    BY DEF Decide
  <2>2. CASE e \in held
    BY <2>1, <2>2 DEF ArmInv, FlatReadings
  <2>3. CASE e = tick.set.env
    BY <2>3 DEF Decide
  <2> QED BY <2>2, <2>3, <1>4
<1>7. ArmingHolds'
  BY <1>2 DEF ArmInv, ArmingHolds, resolve_effective, BarOf
<1> QED BY <1>3, <1>5, <1>6, <1>7 DEF ArmInv, RequestsAreOfNow

\* The world: pages that read, readings that expire, exits that fill.
LEMMA WorldArm ==
    ASSUME TypeInv, ArmInv,
           \/ RefuseTick \/ UNCHANGED vars
           \/ \E e \in Env : Poll(e) \/ Expire(e) \/ Exit(e)
    PROVE  ArmInv'
<1> USE ArmingAssumption
<1>1. TypeOK
  BY DEF TypeInv
<1>2. UNCHANGED <<store, keys, trading, job, proven>> /\ (tick' = tick \/ tick' = None)
      /\ held' \subseteq held
  <2>1. CASE RefuseTick \/ UNCHANGED vars
    BY <2>1 DEF RefuseTick, vars
  <2>2. CASE \E e \in Env : Poll(e) \/ Expire(e) \/ Exit(e)
    BY <2>2 DEF Poll, Expire, Exit
  <2> QED BY <2>1, <2>2
<1>3. RequestsAreOfNow'
  BY <1>2 DEF ArmInv, RequestsAreOfNow, EditsWaitWithTradingOff, ArmingIsOfNow, FormIsOfNow, Is,
     resolve_effective, BarOf
<1>4. OnlyWithKeys' /\ TicksWereProven'
  BY <1>2 DEF ArmInv, OnlyWithKeys, TicksWereProven
<1>5. ArmingHolds'
  BY <1>2 DEF ArmInv, ArmingHolds, resolve_effective, BarOf
<1>6. FlatReadings'
  <2>1. CASE RefuseTick \/ UNCHANGED vars \/ \E e \in Env : Exit(e)
    <3>1. UNCHANGED <<cache, late>>
      BY <2>1 DEF RefuseTick, vars, Exit
    <3> QED BY <3>1, <1>2 DEF ArmInv, FlatReadings
  <2>2. ASSUME NEW e \in Env, Poll(e) \/ Expire(e) PROVE FlatReadings'
    <3>1. UNCHANGED held /\ late' = late \ {e}
          /\ \E seen \in Reading(e) \union {None} : cache' = [cache EXCEPT ![e] = seen]
      BY <2>2 DEF Poll, Expire
    <3> SUFFICES ASSUME NEW x \in held, cache'[x] = "flat"
                 PROVE  x \in late' \/ (trading.on /\ trading.env = x)
      BY <3>1, <1>2 DEF FlatReadings
    <3>2. x \in Env /\ keys[x] # None
      BY <1>1 DEF TypeOK, ArmInv, OnlyWithKeys
    <3>3. x # e
      BY <1>1, <3>1, <3>2, ReadingIsTrue DEF TypeOK
    <3>4. cache[x] = "flat"
      BY <1>1, <3>1, <3>2, <3>3 DEF TypeOK
    <3> QED BY <3>1, <3>3, <3>4 DEF ArmInv, FlatReadings
  <2> QED BY <2>1, <2>2
<1> QED BY <1>3, <1>4, <1>5, <1>6 DEF ArmInv, RequestsAreOfNow

LEMMA ArmStep == OneAtATime /\ TypeInv /\ ArmInv /\ [Next]_vars => ArmInv'
<1> SUFFICES ASSUME OneAtATime, TypeInv, ArmInv, [Next]_vars PROVE ArmInv'
  OBVIOUS
<1>1. ASSUME NEW r \in Requests, Edit(r) PROVE ArmInv'
  BY <1>1, EditArm, AskArm DEF Edit
<1>2. ASSUME NEW r \in Requests, Serve(r) PROVE ArmInv'
  BY <1>2, WaitedArm, AccountArm, TurnOnArm DEF Serve
<1>3. ASSUME NEW r \in Requests, AskOn(r) PROVE ArmInv'
  BY <1>3, AskOnArm
<1>4. CASE turn_off
  BY <1>4, TurnOffArm
<1>5. CASE Loop
  BY <1>5, BeginTickArm, SwitchArm, DecideArm, WorldArm DEF Loop
<1>6. CASE UNCHANGED vars \/ \E e \in Env : Poll(e) \/ Expire(e) \/ Exit(e)
  BY <1>6, WorldArm
<1> QED BY <1>1, <1>2, <1>3, <1>4, <1>5, <1>6 DEF Next

\* While trading is on, the strategy, the account and the pair in force are
\* those that were checked when it was turned on.
THEOREM ArmingIsChecked == OneAtATime => (Spec => []ArmingHolds)
<1>1. ArmInv => ArmingHolds
  BY DEF ArmInv
<1>2. OneAtATime /\ TypeInv /\ ArmInv /\ [Next]_vars => ArmInv'
  BY ArmStep
<1>3. OneAtATime => OneAtATime'
  BY DEF OneAtATime
<1> QED BY <1>1, <1>2, <1>3, InitType, InitArm, TypeStep, PTL DEF Spec

\* Every tick trades for a strategy, in an account and with a pair that some
\* arming has checked, whatever was stopped and edited since it began.
THEOREM TicksTradeWhatWasChecked == OneAtATime => (Spec => []TicksWereProven)
<1>1. ArmInv => TicksWereProven
  BY DEF ArmInv
<1>2. OneAtATime /\ TypeInv /\ ArmInv /\ [Next]_vars => ArmInv'
  BY ArmStep
<1>3. OneAtATime => OneAtATime'
  BY DEF OneAtATime
<1> QED BY <1>1, <1>2, <1>3, InitType, InitArm, TypeStep, PTL DEF Spec

\* A switch of the environment that goes through has found both accounts flat,
\* and what is held all the same was opened by a tick after it was stopped.
THEOREM EnvSwitchLeavesNothing == OneAtATime => (Spec => EnvLeavesNothingBehind)
<1> DEFINE Left == \A r \in Requests :
               Is(r, "env") /\ store' # store /\ job' # job => held \subseteq late
<1>1. OneAtATime /\ TypeInv /\ ArmInv /\ [Next]_vars => Left
  <2> SUFFICES ASSUME OneAtATime, TypeInv, ArmInv, [Next]_vars, NEW r \in Requests,
                      Is(r, "env"), store' # store, job' # job, NEW e \in held
               PROVE  e \in late
    OBVIOUS
  <2> USE ArmingAssumption
  <2>1. job[r] # None /\ job[r].op = "env"
    BY DEF Is
  <2>2. set_execution_env(r)
    <3>1. ASSUME NEW q \in Requests, Edit(q) PROVE FALSE
      <4>1. job[q] = None
        BY <3>1, Zenon DEF Edit, create_strategy, rename_strategy, update_strategy, AskDelete,
           AskEnv, AskAccount, MayEdit
      <4> QED BY <4>1, <2>1 DEF OneAtATime
    <3>2. ASSUME NEW q \in Requests, AskOn(q) PROVE FALSE
      BY <3>2, <2>1 DEF AskOn, OneAtATime
    <3>3. ASSUME NEW q \in Requests, Serve(q) PROVE set_execution_env(r)
      <4>1. q = r
        BY DEF OneAtATime
      <4> QED BY <3>3, <4>1, <2>1 DEF Serve, delete_strategy, update_account, turn_on, Is
    <3>4. ~UNCHANGED job
      OBVIOUS
    <3>5. ~turn_off /\ ~Loop /\ ~UNCHANGED vars /\ ~(\E x \in Env : Poll(x) \/ Expire(x) \/ Exit(x))
      BY <3>4, Zenon DEF turn_off, Loop, BeginTick, set_strategy_config, Decide, RefuseTick, vars,
         Poll, Expire, Exit
    <3> QED BY <3>1, <3>2, <3>3, <3>5 DEF Next
  <2>3. Looks /\ flat_blocker(cache', Env, Env)
    BY <2>2 DEF set_execution_env
  <2>4. e \in Env /\ keys[e] # None
    BY DEF TypeInv, TypeOK, ArmInv, OnlyWithKeys
  <2>5. cache'[e] = "flat" /\ cache'[e] \in snapshot(e)
    BY <2>3, <2>4 DEF Looks, flat_blocker
  <2>6. cache[e] = "flat"
    BY <2>4, <2>5, ReadingIsTrue DEF snapshot
  <2>7. ~trading.on
    BY DEF ArmInv, EditsWaitWithTradingOff
  <2> QED BY <2>6, <2>7 DEF ArmInv, FlatReadings
<1>2. OneAtATime /\ TypeInv /\ ArmInv /\ [Next]_vars => ArmInv'
  BY ArmStep
<1>3. OneAtATime => OneAtATime'
  BY DEF OneAtATime
<1> QED BY <1>1, <1>2, <1>3, InitType, InitArm, TypeStep, PTL DEF Spec, EnvLeavesNothingBehind

=============================================================================
