--------------------------- MODULE LiveDriver_proofs ---------------------------
(***************************************************************************)
(* Type correctness of the live driver; the theorem its order names exist  *)
(* for, that however often a bar is decided again the broker accepts at    *)
(* most one entry for it; of an account that answers an order and a        *)
(* cancellation at once, that it holds at most one position and that the   *)
(* trade log is a sequence of round trips; that the state file never       *)
(* wedges the bot; and, where nothing interferes, that a signal is         *)
(* honoured and that the log says what the account did.                    *)
(***************************************************************************)
EXTENDS LiveDriverProps, FiniteSetTheorems, WellFoundedInduction, TLAPS

\* A nonempty set of naturals with an upper bound has a greatest element.
LEMMA GreatestElement ==
    ASSUME NEW n \in Nat, NEW S \in SUBSET (0..n), S # {}
    PROVE  \E i \in S : \A j \in S : j <= i
<1> DEFINE Less == OpToRel(<, Nat)
<1> DEFINE T == {n - i : i \in S}
<1> HIDE DEF Less
<1>1. T \subseteq Nat
  OBVIOUS
<1>2. T # {}
  OBVIOUS
<1>3. IsWellFoundedOn(Less, Nat)
  BY NatLessThanWellFounded DEF Less
<1>4. PICK x \in T : \A y \in T : ~ (<<y, x>> \in Less)
  <2> HIDE DEF T
  <2> QED BY <1>1, <1>2, <1>3, WFMin
<1>5. \A y \in T : y < x => <<y, x>> \in Less
  <2> HIDE DEF T
  <2> SUFFICES ASSUME NEW y \in T, y < x
               PROVE  <<y, x>> \in Less
    OBVIOUS
  <2> QED BY <1>1 DEF Less, OpToRel
<1>6. \A y \in T : x <= y
  <2> HIDE DEF T
  <2> SUFFICES ASSUME NEW y \in T
               PROVE  x <= y
    OBVIOUS
  <2>1. ~ (y < x)
    BY <1>4, <1>5
  <2> QED BY <2>1, <1>1
<1>7. PICK i \in S : x = n - i
  OBVIOUS
<1>8. \A j \in S : j <= i
  BY <1>6, <1>7
<1> QED BY <1>8

LEMMA NewestType ==
    ASSUME NEW n \in Nat, NEW S \in SUBSET (1..n)
    PROVE  Newest(S) \in Nat
<1>1. CASE S = {}
  BY <1>1 DEF Newest
<1>2. CASE S # {}
  <2>1. S \in SUBSET (0..n)
    OBVIOUS
  <2>2. \E i \in S : \A j \in S : j <= i
    BY <1>2, <2>1, GreatestElement
  <2>3. (CHOOSE i \in S : \A j \in S : j <= i) \in S
    BY <2>2, Zenon
  <2>4. Newest(S) \in S
    BY <1>2, <2>3 DEF Newest
  <2>5. \A x \in S : x \in Nat
    OBVIOUS
  <2> HIDE DEF Newest
  <2> QED BY <2>4, <2>5
<1> QED BY <1>1, <1>2

\* The fills the driver reads out of the history are numbers of fills.
LEMMA FillNumbers ==
    ASSUME BrokerTypeOK
    PROVE  /\ \A short : ClosingFill(short) \in Nat /\ EntryFill(short) \in Nat
           /\ \A b : FillOfEntry(b) \in Nat
           /\ FillOfExit \in Nat /\ LastFill \in Nat
<1>1. Len(hist) \in Nat /\ DOMAIN hist = 1..Len(hist)
  BY DEF BrokerTypeOK
<1>2. ASSUME NEW short PROVE ClosingFill(short) \in Nat
  BY <1>1, NewestType DEF ClosingFill, ClosingFills
<1>3. ASSUME NEW short PROVE EntryFill(short) \in Nat
  BY <1>1, NewestType DEF EntryFill
<1>4. ASSUME NEW b PROVE FillOfEntry(b) \in Nat
  BY <1>1, NewestType DEF FillOfEntry
<1>5. FillOfExit \in Nat
  BY <1>1, NewestType DEF FillOfExit
<1> QED BY <1>1, <1>2, <1>3, <1>4, <1>5 DEF LastFill

-----------------------------------------------------------------------------

\* What the engine decides: an entry is the first intent of its bar, and a
\* machine that decided one has recorded the position.
LEMMA StepType ==
    ASSUME NEW pos \in Position \union {None}, NEW sig \in Signals,
           NEW veto \in BOOLEAN, NEW hit \in BOOLEAN
    PROVE  LET step == Step(pos, sig, veto, hit) IN
           /\ step.pos \in Position \union {None}
           /\ step.intents \in Seq(Intent)
           /\ \A k \in DOMAIN step.intents :
                step.intents[k].action = "open" => k = 1 /\ step.pos # None
<1> DEFINE step == Step(pos, sig, veto, hit)
           Fits(p, ints) == /\ p \in Position \union {None}
                            /\ ints \in Seq(Intent)
                            /\ \A k \in DOMAIN ints :
                                 ints[k].action = "open" => k = 1 /\ p # None
<1>1. ASSUME NEW action \in {"open", "close", "skip"}, NEW reason \in {"signal", "level"},
             NEW short \in BOOLEAN
      PROVE  /\ Intended(action, reason, short) \in Intent
             /\ Intended(action, reason, short).action = action
  BY DEF Intended, Intent
<1>2. ASSUME NEW ints, NEW p, Fits(p, ints), NEW short \in BOOLEAN
      PROVE  Fits(p, WithLevelHit(ints, hit, short))
  <2>1. Intended("close", "level", short) \in Intent
        /\ Intended("close", "level", short).action = "close"
    BY <1>1
  <2> DEFINE exit == Intended("close", "level", short)
  <2> HIDE DEF exit
  <2>2. Fits(p, Append(ints, exit))
    BY <1>2, <2>1 DEF exit
  <2> QED BY <1>2, <2>2 DEF WithLevelHit, exit
<1>3. ASSUME NEW intent \in Intent, NEW p \in Position \union {None},
             intent.action = "open" => p # None
      PROVE  Fits(p, <<intent>>)
  BY <1>3
<1>4. Fits(pos, <<>>)
  OBVIOUS
<1>5. CASE pos # None
  <2>1. pos.short \in BOOLEAN
    BY <1>5 DEF Position
  <2>2. Fits(pos, <<Intended("close", "signal", pos.short)>>)
    BY <1>1, <1>3, <2>1
  <2> DEFINE ints == IF Opposes(pos, sig)
                     THEN <<Intended("close", "signal", pos.short)>> ELSE <<>>
  <2> HIDE DEF Fits
  <2>3. Fits(pos, ints)
    BY <1>4, <2>2
  <2>4. step.pos = pos /\ step.intents = WithLevelHit(ints, hit, pos.short)
    BY <1>5 DEF Step
  <2> HIDE DEF ints, step
  <2>5. Fits(step.pos, step.intents)
    BY <1>2, <2>1, <2>3, <2>4
  <2> QED BY <2>5 DEF Fits, step
<1>6. CASE pos = None
  <2> DEFINE short == CHOOSE s \in Wants(sig) : TRUE
  <2>1. CASE Wants(sig) = {}
    BY <1>4, <1>6, <2>1 DEF Step
  <2>2. CASE Wants(sig) # {}
    <3>1. short \in BOOLEAN
      BY <2>2 DEF Wants
    <3> HIDE DEF short
    <3>2. [short |-> short, fill |-> 0] \in Position
          /\ [short |-> short, fill |-> 0] # None
      BY <3>1, DriverAssumption DEF Position
    <3>3. Fits(None, <<Intended("skip", "signal", short)>>)
      BY <1>1, <1>3, <3>1
    <3>4. Fits([short |-> short, fill |-> 0], <<Intended("open", "signal", short)>>)
      BY <1>1, <1>3, <3>1, <3>2
    <3> HIDE DEF Fits
    <3>5. CASE veto
      <4>1. step.pos = None /\ step.intents = <<Intended("skip", "signal", short)>>
        BY <1>6, <2>2, <3>5 DEF Step, short
      <4> HIDE DEF step
      <4>2. Fits(step.pos, step.intents)
        BY <3>3, <4>1
      <4> QED BY <4>2 DEF Fits, step
    <3>6. CASE ~veto
      <4> DEFINE opened == [short |-> short, fill |-> 0]
                 ints == <<Intended("open", "signal", short)>>
      <4>1. step.pos = opened /\ step.intents = WithLevelHit(ints, hit, short)
        BY <1>6, <2>2, <3>6 DEF Step, short
      <4>2. Fits(opened, ints)
        BY <3>4
      <4> HIDE DEF step, opened, ints
      <4>3. Fits(step.pos, step.intents)
        BY <1>2, <3>1, <4>1, <4>2
      <4> QED BY <4>3 DEF Fits, step
    <3> QED BY <3>5, <3>6
  <2> QED BY <2>1, <2>2
<1> QED BY <1>5, <1>6

-----------------------------------------------------------------------------

\* An entry is the first intent of its bar, so its name is <<bar, 0>>.
OpensFirst == \A k \in DOMAIN intents : intents[k].action = "open" => k = 1

\* The state already holds the position an entry is about to open.
OpensRecorded ==
    /\ pc \in {"act", "submit", "poll", "cancel", "look", "liquidate", "await"} => at >= 1
    /\ Acting("open") => mem.pos # None
    /\ pc \in {"submit", "poll"} =>
         at = 1 /\ at \in DOMAIN intents /\ Current.action = "open" /\ mem.pos # None

\* An entry accepted for a bar has used up the bar's only name.
NameUsedUp ==
    \A b \in Bars : \/ entries[b] = 0
                    \/ entries[b] = 1 /\ order_id_for(b, 0) \in seen

DriverInv == TypeOK /\ OpensFirst /\ OpensRecorded /\ NameUsedUp

LEMMA InitDriverInv == Init => DriverInv
<1> SUFFICES ASSUME Init PROVE DriverInv
  OBVIOUS
<1> USE BrokerageAssumption, DriverAssumption
<1>1. Initial \in State /\ Legacy(FALSE) \in State
  BY DEF Initial, Legacy, State, Position
<1>2. BrokerTypeOK
  <2>1. PICK held \in {0, 1, -1} :
          /\ qty = held
          /\ hist = IF held = 0 THEN <<>>
                    ELSE <<[buy |-> held > 0, of |-> "entry", bar |-> 0]>>
    BY DEF Init
  <2>2. hist \in Seq(Fill)
    <3>1. [buy |-> held > 0, of |-> "entry", bar |-> 0] \in Fill
      BY DEF Fill
    <3> QED BY <2>1, <3>1
  <2>3. entries \in [Bars -> Nat]
    BY DEF Init
  <2> QED BY <2>1, <2>2, <2>3 DEF Init, BrokerTypeOK
<1>3. TypeOK
  <2>1. 1 \in Bars
    BY DEF Bars
  <2>2. trades \in Seq(Leg) /\ booked \in Seq(Leg) /\ intents \in Seq(Intent)
    BY DEF Init
  <2> QED BY <1>1, <1>2, <2>1, <2>2 DEF Init, TypeOK, Steps, Signals
<1>4. OpensFirst /\ OpensRecorded /\ NameUsedUp
  BY DEF Init, OpensFirst, OpensRecorded, NameUsedUp, Acting, Bars
<1> QED BY <1>3, <1>4 DEF DriverInv

\* Changing what is kept of the position keeps a state a state.
LEMMA StateType ==
    ASSUME NEW s \in State
    PROVE  /\ \A p \in Position \union {None} : [s EXCEPT !.pos = p] \in State
           /\ [s EXCEPT !.pos = None, !.unfilled = None] \in State
           /\ [s EXCEPT !.unfilled = "no_fill"] \in State
           /\ \A b \in Bars : [s EXCEPT !.decided = b] \in State
           /\ s.pos # None =>
                \A fill \in Nat : [s EXCEPT !.pos.fill = fill, !.unfilled = None] \in State
BY DEF State, Position

LEMMA SettledType ==
    ASSUME NEW pos \in Position \union {None}, NEW exit \in Nat
    PROVE  Settled(pos, exit) \in Seq(Leg)
<1>1. CASE pos = None
  BY <1>1 DEF Settled
<1>2. CASE pos # None
  <2>1. [short |-> pos.short, entry |-> pos.fill, exit |-> exit] \in Leg
    BY <1>2 DEF Position, Leg
  <2> QED BY <1>2, <2>1 DEF Settled
<1> QED BY <1>1, <1>2

LEMMA SettleType ==
    ASSUME DriverInv, NEW exit \in Nat, Settle(exit)
    PROVE  booked' \in Seq(Leg) /\ mem' \in State /\ at' \in Nat /\ pc' = "act"
<1>1. mem \in State /\ booked \in Seq(Leg) /\ at \in Nat
  BY DEF DriverInv, TypeOK
<1>2. mem.pos \in Position \union {None}
  BY <1>1 DEF State
<1>3. Settled(mem.pos, exit) \in Seq(Leg)
  BY <1>2, SettledType
<1>4. booked' \in Seq(Leg)
  BY <1>1, <1>3 DEF Settle
<1>5. mem' \in State
  BY <1>1, StateType DEF Settle
<1> QED BY <1>1, <1>4, <1>5 DEF Settle, NextIntent

-----------------------------------------------------------------------------

\* The steps that ask the account and change nothing at it.
LEMMA AccountUntouched ==
    ASSUME DriverInv, UNCHANGED brokerVars
    PROVE  BrokerTypeOK' /\ NameUsedUp'
BY DEF DriverInv, TypeOK, BrokerTypeOK, NameUsedUp, brokerVars

\* Going on to the next intent: no entry is left to be made.
LEMMA OpensAfterNext ==
    ASSUME DriverInv, NextIntent, at >= 1, UNCHANGED intents
    PROVE  OpensFirst' /\ OpensRecorded'
<1>1. at \in Nat
  BY DEF DriverInv, TypeOK
<1>2. at' = at + 1 /\ pc' = "act" /\ at' # 1
  BY <1>1 DEF NextIntent
<1>3. OpensFirst'
  BY DEF DriverInv, OpensFirst
<1>4. ~ Acting("open")'
  BY <1>2, <1>3 DEF OpensFirst, Acting, Current
<1> QED BY <1>1, <1>2, <1>3, <1>4 DEF OpensRecorded

\* The account's own moves: nothing is accepted, so no name is used.
LEMMA AccountDriverInv ==
    ASSUME DriverInv, Account
    PROVE  DriverInv'
<1>1. UNCHANGED <<seen, entries>>
  BY DEF Account, AccountMoves, FillEntry, ExpireEntry, FireLeg, FillExit
<1>2. BrokerTypeOK'
  <2> USE DEF DriverInv, TypeOK, BrokerTypeOK
  <2>1. CASE FillEntry
    <3>1. PICK order \in working : Filled(order) /\ working' = working \ {order}
                                   /\ UNCHANGED <<exitOrder, seen, entries>>
      BY <2>1 DEF FillEntry
    <3>2. order \in Order
      BY <3>1
    <3>3. [buy |-> ~order.short, of |-> "entry", bar |-> order.bar] \in Fill
      BY <3>2 DEF Order, Fill
    <3> QED BY <3>1, <3>2, <3>3 DEF Filled, Rests, Towards
  <2>2. CASE ExpireEntry
    BY <2>2 DEF ExpireEntry
  <2>3. CASE FireLeg
    <3>1. PICK order \in legs :
            /\ qty' = qty - Towards(order.short)
            /\ hist' = Append(hist, [buy |-> order.short, of |-> "leg", bar |-> order.bar])
            /\ legs' = legs \ {order}
            /\ UNCHANGED <<working, exitOrder, seen, entries>>
      BY <2>3 DEF FireLeg
    <3>2. order \in Order
      BY <3>1
    <3>3. [buy |-> order.short, of |-> "leg", bar |-> order.bar] \in Fill
      BY <3>2 DEF Order, Fill
    <3> QED BY <3>1, <3>2, <3>3 DEF Towards
  <2>4. CASE FillExit
    <3> DEFINE fill == [buy |-> qty < 0, of |-> "close", bar |-> 0]
    <3>1. fill \in Fill
      BY DEF Fill
    <3>2. \/ qty' = 0 /\ hist' = Append(hist, fill)
          \/ qty' = qty /\ hist' = hist
      BY <2>4 DEF FillExit, Liquidate
    <3>3. exitOrder' \in {"filled", "dead"} /\ UNCHANGED <<working, legs, seen, entries>>
      BY <2>4 DEF FillExit, Liquidate
    <3> HIDE DEF fill
    <3>4. qty' \in Int /\ hist' \in Seq(Fill)
      <4>1. hist \in Seq(Fill) /\ qty \in Int
        OBVIOUS
      <4> HIDE DEF DriverInv, TypeOK, BrokerTypeOK
      <4> QED BY <3>1, <3>2, <4>1
    <3> QED BY <3>3, <3>4
  <2> QED BY <2>1, <2>2, <2>3, <2>4 DEF Account, AccountMoves
<1>3. UNCHANGED <<fileVars, tickVars, envVars, pc>>
  BY DEF Account
<1>4. TypeOK'
  BY <1>2, <1>3 DEF DriverInv, TypeOK, fileVars, tickVars, envVars
<1>5. OpensFirst' /\ OpensRecorded'
  BY <1>3 DEF DriverInv, OpensFirst, OpensRecorded, Acting, Current, tickVars
<1>6. NameUsedUp'
  BY <1>1 DEF DriverInv, NameUsedUp, order_id_for
<1> QED BY <1>4, <1>5, <1>6 DEF DriverInv

-----------------------------------------------------------------------------

\* Every step of the tick, up to the first intent.
LEMMA PreparationDriverInv ==
    ASSUME DriverInv,
           StartTick \/ AdoptExit \/ AdoptPosition \/ DropNeverOpened
             \/ Reconcile \/ PositionReadFails \/ Decide
    PROVE  DriverInv'
<1> USE DEF DriverInv
<1>1. UNCHANGED brokerVars
  BY DEF StartTick, AdoptExit, AdoptPosition, DropNeverOpened, Reconcile,
         PositionReadFails, Decide
<1>2. BrokerTypeOK' /\ NameUsedUp'
  BY <1>1, AccountUntouched
<1>3. mem \in State /\ disk \in State /\ mem.pos \in Position \union {None}
      /\ booked \in Seq(Leg) /\ intents \in Seq(Intent) /\ at \in Nat
  BY DEF TypeOK, State
<1>4. CASE StartTick
  <2>1. TypeOK'
    BY <1>2, <1>4 DEF StartTick, TypeOK, Steps, fileVars, envVars
  <2>2. OpensFirst' /\ OpensRecorded'
    BY <1>4 DEF StartTick, OpensFirst, OpensRecorded, Acting
  <2> QED BY <1>2, <2>1, <2>2
<1>5. CASE AdoptExit
  <2>1. mem' \in State /\ disk' \in State /\ booked' \in Seq(Leg)
    <3>1. ClosingFill(mem.pos.short) \in Nat
      BY FillNumbers DEF TypeOK
    <3> HIDE DEF DriverInv
    <3>2. Settled(mem.pos, ClosingFill(mem.pos.short)) \in Seq(Leg)
      BY <1>3, <3>1, SettledType
    <3>3. [mem EXCEPT !.pos = None] \in State
      BY <1>3, StateType
    <3> QED BY <1>3, <1>5, <3>2, <3>3 DEF AdoptExit
  <2>2. TypeOK'
    BY <1>2, <1>5, <2>1 DEF AdoptExit, TypeOK, Steps, envVars
  <2>3. OpensFirst' /\ OpensRecorded'
    BY <1>5 DEF AdoptExit, OpensFirst, OpensRecorded, Acting
  <2> QED BY <1>2, <2>2, <2>3
<1>6. CASE AdoptPosition
  <2>1. mem' \in State /\ disk' \in State
    <3>1. EntryFill(qty < 0) \in Nat
      BY FillNumbers DEF TypeOK
    <3>2. [short |-> qty < 0, fill |-> EntryFill(qty < 0)] \in Position
      BY <3>1 DEF Position
    <3> HIDE DEF DriverInv
    <3>3. [mem EXCEPT !.pos = [short |-> qty < 0, fill |-> EntryFill(qty < 0)]] \in State
      BY <1>3, <3>2, StateType
    <3> QED BY <1>3, <1>6, <3>3 DEF AdoptPosition
  <2>2. TypeOK'
    BY <1>2, <1>6, <2>1 DEF AdoptPosition, TypeOK, Steps, envVars
  <2>3. OpensFirst' /\ OpensRecorded'
    BY <1>6 DEF AdoptPosition, OpensFirst, OpensRecorded, Acting
  <2> QED BY <1>2, <2>2, <2>3
<1>7. CASE DropNeverOpened
  <2>1. mem' \in State /\ disk' \in State
    BY <1>3, <1>7, StateType DEF DropNeverOpened
  <2>2. TypeOK'
    BY <1>2, <1>7, <2>1 DEF DropNeverOpened, TypeOK, Steps, envVars
  <2>3. OpensFirst' /\ OpensRecorded'
    BY <1>7 DEF DropNeverOpened, OpensFirst, OpensRecorded, Acting
  <2> QED BY <1>2, <2>2, <2>3
<1>8. CASE Reconcile
  <2>1. TypeOK'
    BY <1>2, <1>8 DEF Reconcile, TypeOK, Steps, envVars, fileVars, tickVars
  <2>2. OpensFirst' /\ OpensRecorded'
    BY <1>8 DEF Reconcile, OpensFirst, OpensRecorded, Acting, tickVars
  <2> QED BY <1>2, <2>1, <2>2
<1>9. CASE PositionReadFails
  <2>1. TypeOK'
    BY <1>2, <1>9 DEF PositionReadFails, TypeOK, Steps, envVars, fileVars
  <2>2. OpensFirst' /\ OpensRecorded'
    BY <1>9 DEF PositionReadFails, OpensFirst, OpensRecorded, Acting
  <2> QED BY <1>2, <2>1, <2>2
<1>10. CASE Decide
  <2>1. PICK hit \in BOOLEAN :
          /\ mem' = [mem EXCEPT !.pos = Step(mem.pos, signal, halt, hit).pos]
          /\ intents' = Step(mem.pos, signal, halt, hit).intents
    BY <1>10 DEF Decide
  <2>2. signal \in Signals /\ halt \in BOOLEAN
    BY DEF TypeOK
  <2> DEFINE step == Step(mem.pos, signal, halt, hit)
  <2>3. /\ step.pos \in Position \union {None}
        /\ step.intents \in Seq(Intent)
        /\ \A k \in DOMAIN step.intents :
             step.intents[k].action = "open" => k = 1 /\ step.pos # None
    <3> HIDE DEF DriverInv
    <3> QED BY <1>3, <2>2, StepType
  <2> HIDE DEF step
  <2>4. mem' \in State /\ mem'.pos = step.pos /\ intents' \in Seq(Intent)
    <3> HIDE DEF DriverInv
    <3>1. mem' = [mem EXCEPT !.pos = step.pos] /\ intents' = step.intents
      BY <2>1 DEF step
    <3>2. mem' \in State /\ mem'.pos = step.pos
      BY <1>3, <2>3, <3>1, StateType DEF State
    <3> QED BY <2>3, <3>1, <3>2
  <2>5. TypeOK'
    BY <1>2, <1>10, <2>4 DEF Decide, TypeOK, Steps, envVars, fileVars
  <2>6. OpensFirst' /\ OpensRecorded'
    <3>1. intents' = step.intents
      BY <2>1 DEF step
    <3>2. at' = 1 /\ pc' = "act"
      BY <1>10 DEF Decide
    <3> QED BY <2>3, <2>4, <3>1, <3>2 DEF OpensFirst, OpensRecorded, Acting, Current
  <2> QED BY <1>2, <2>5, <2>6
<1> QED BY <1>4, <1>5, <1>6, <1>7, <1>8, <1>9, <1>10

-----------------------------------------------------------------------------

\* An entry that came back, however it came back.
LEMMA EntryStateType ==
    ASSUME DriverInv
    PROVE  /\ EntryRefused => mem' \in State
           /\ EntryUnfilled => mem' \in State
           /\ mem.pos # None => \A fill \in Nat : EntryFilled(fill) => mem' \in State
<1>1. mem \in State
  BY DEF DriverInv, TypeOK
<1> QED BY <1>1, StateType DEF EntryRefused, EntryUnfilled, EntryFilled

\* The one step that accepts an entry uses the name of its bar up.
LEMMA SubmitAcceptedDriverInv ==
    ASSUME DriverInv, SubmitAccepted
    PROVE  DriverInv'
<1> DEFINE order == [bar |-> tickBar, short |-> Current.short]
           cid   == order_id_for(tickBar, at - 1)
<1>1. at = 1 /\ at \in DOMAIN intents /\ mem.pos # None /\ Current.action = "open"
  BY DEF DriverInv, OpensRecorded, SubmitAccepted
<1>2. Current \in Intent /\ tickBar \in Bars
  BY <1>1 DEF DriverInv, TypeOK, Current
<1>3. order \in Order /\ order.bar = tickBar
  BY <1>2 DEF Order, Intent
<1>4. cid = <<tickBar, 0>> /\ cid \in CId
  BY <1>1, <1>2 DEF order_id_for, CId
<1>5. Accept(order, cid)
  BY DEF SubmitAccepted
<1>6. /\ cid \notin seen
      /\ seen' = seen \union {cid}
      /\ entries' = [entries EXCEPT ![tickBar] = @ + 1]
  BY <1>3, <1>5 DEF Accept
<1>7. qty' \in Int /\ working' \in SUBSET Order /\ legs' \in SUBSET Order
      /\ hist' \in Seq(Fill)
  <2>1. qty \in Int /\ working \in SUBSET Order /\ legs \in SUBSET Order
        /\ hist \in Seq(Fill)
    BY DEF DriverInv, TypeOK, BrokerTypeOK
  <2>2. [buy |-> ~order.short, of |-> "entry", bar |-> order.bar] \in Fill
    BY <1>3 DEF Order, Fill
  <2>3. CASE Filled(order) /\ UNCHANGED working
    <3> HIDE DEF order
    <3> QED BY <1>3, <2>1, <2>2, <2>3 DEF Filled, Rests, Towards
  <2>4. CASE working' = working \union {order} /\ UNCHANGED <<qty, hist, legs>>
    BY <1>3, <2>1, <2>4
  <2> QED BY <2>3, <2>4 DEF SubmitAccepted
<1> HIDE DEF order, cid
<1>8. BrokerTypeOK'
  <2>1. seen \in SUBSET CId /\ entries \in [Bars -> Nat]
        /\ exitOrder \in {"none", "working", "filled", "dead"}
    BY DEF DriverInv, TypeOK, BrokerTypeOK
  <2>2. exitOrder' = exitOrder
    BY DEF SubmitAccepted
  <2>3. seen' \in SUBSET CId /\ entries' \in [Bars -> Nat]
    BY <1>2, <1>4, <1>6, <2>1
  <2> QED BY <1>7, <2>1, <2>2, <2>3 DEF BrokerTypeOK
<1>9. TypeOK'
  <2>1. pc' = "poll" /\ UNCHANGED <<envVars, fileVars, tickVars>>
    BY DEF SubmitAccepted
  <2> QED BY <1>8, <2>1 DEF DriverInv, TypeOK, Steps, envVars, fileVars, tickVars
<1>10. OpensFirst' /\ OpensRecorded'
  <2>1. pc' = "poll" /\ UNCHANGED tickVars
    BY DEF SubmitAccepted
  <2> QED BY <1>1, <2>1 DEF DriverInv, OpensFirst, OpensRecorded, tickVars, Current, Acting
<1>11. NameUsedUp'
  <2> SUFFICES ASSUME NEW b \in Bars
               PROVE  \/ entries'[b] = 0
                      \/ entries'[b] = 1 /\ <<b, 0>> \in seen'
    BY DEF NameUsedUp, order_id_for
  <2>1. \/ entries[b] = 0
        \/ entries[b] = 1 /\ <<b, 0>> \in seen
    BY DEF DriverInv, NameUsedUp, order_id_for
  <2>2. entries \in [Bars -> Nat]
    BY DEF DriverInv, TypeOK, BrokerTypeOK
  <2>3. CASE b = tickBar
    <3>1. entries[b] = 0
      BY <1>4, <1>6, <2>1, <2>3
    <3> QED BY <1>2, <1>4, <1>6, <2>2, <2>3, <3>1
  <2>4. CASE b # tickBar
    BY <1>2, <1>6, <2>1, <2>2, <2>4
  <2> QED BY <2>3, <2>4
<1> QED BY <1>9, <1>10, <1>11 DEF DriverInv

\* The other steps of an entry.
LEMMA EntryDriverInv ==
    ASSUME DriverInv, SkipIntent \/ BeginOpen \/ SubmitRefused \/ PollEntry
    PROVE  DriverInv'
<1>1. UNCHANGED <<brokerVars, envVars, fileVars, tickBar, signal, halt, intents, booked>>
  BY DEF SkipIntent, BeginOpen, SubmitRefused, PollEntry
<1>2. BrokerTypeOK' /\ NameUsedUp'
  BY <1>1, AccountUntouched
<1>3. at \in Nat /\ mem \in State /\ at >= 1
  BY DEF DriverInv, TypeOK, OpensRecorded, SkipIntent, BeginOpen, SubmitRefused,
         PollEntry, Acting
<1>4. mem' \in State
  <2>1. CASE SkipIntent
    BY <1>3, <2>1 DEF SkipIntent
  <2>2. CASE BeginOpen
    BY <1>3, <2>2, EntryStateType DEF BeginOpen
  <2>3. CASE SubmitRefused
    BY <2>3, EntryStateType DEF SubmitRefused
  <2>4. CASE PollEntry
    <3>1. FillOfEntry(tickBar) \in Nat
      BY FillNumbers DEF DriverInv, TypeOK
    <3>2. mem.pos # None
      BY <2>4 DEF DriverInv, OpensRecorded, PollEntry
    <3>3. EntryRefused \/ EntryUnfilled \/ EntryFilled(FillOfEntry(tickBar))
      BY <2>4 DEF PollEntry
    <3> QED BY <3>1, <3>2, <3>3, EntryStateType
  <2> QED BY <2>1, <2>2, <2>3, <2>4
<1>5. NextIntent \/ (BeginOpen /\ pc' = "submit" /\ UNCHANGED <<mem, at>>)
  BY DEF SkipIntent, BeginOpen, SubmitRefused, PollEntry
<1>6. at' \in Nat /\ pc' \in Steps
  BY <1>3, <1>5 DEF NextIntent, Steps
<1>7. TypeOK'
  BY <1>1, <1>2, <1>4, <1>6 DEF DriverInv, TypeOK, envVars, fileVars
<1>8. CASE NextIntent
  BY <1>1, <1>2, <1>3, <1>7, <1>8, OpensAfterNext DEF DriverInv
<1>9. CASE BeginOpen /\ pc' = "submit" /\ UNCHANGED <<mem, at>>
  <2>1. OpensFirst'
    BY <1>1 DEF DriverInv, OpensFirst
  <2>2. at = 1 /\ at \in DOMAIN intents /\ Current.action = "open" /\ mem.pos # None
    BY <1>9 DEF DriverInv, OpensFirst, OpensRecorded, BeginOpen, Acting, Current
  <2>3. OpensRecorded'
    BY <1>1, <1>9, <2>2 DEF OpensRecorded, Acting, Current
  <2> QED BY <1>2, <1>7, <2>1, <2>3 DEF DriverInv
<1> QED BY <1>5, <1>8, <1>9

-----------------------------------------------------------------------------

\* The steps of an exit touch neither the intents nor the names.
LEMMA CloseDriverInv ==
    ASSUME DriverInv,
           BeginClose \/ CancelOpenOrders \/ LookAtPosition \/ ClosePosition \/ AwaitClose
    PROVE  DriverInv'
<1>1. UNCHANGED <<seen, entries, envVars, fileVars, tickBar, signal, halt, intents>>
  BY DEF BeginClose, CancelOpenOrders, LookAtPosition, ClosePosition, AwaitClose,
         brokerVars
<1>2. at \in Nat /\ at >= 1 /\ mem \in State /\ booked \in Seq(Leg)
  BY DEF DriverInv, TypeOK, OpensRecorded, BeginClose, CancelOpenOrders,
         LookAtPosition, ClosePosition, AwaitClose, Acting
<1>3. BrokerTypeOK'
  <2>1. BrokerTypeOK
    BY DEF DriverInv, TypeOK
  <2>2. CASE UNCHANGED brokerVars
    BY <2>1, <2>2 DEF BrokerTypeOK, brokerVars
  <2>3. CASE CancelOpenOrders
    BY <2>1, <2>3 DEF CancelOpenOrders, BrokerTypeOK, brokerVars
  <2>4. CASE ClosePosition
    <3> DEFINE fill == [buy |-> qty < 0, of |-> "close", bar |-> 0]
    <3>1. fill \in Fill
      BY DEF Fill
    <3>2. UNCHANGED <<working, legs, seen, entries>>
      BY <2>4 DEF ClosePosition
    <3>3. \/ qty' = 0 /\ hist' = Append(hist, fill) /\ exitOrder' = "filled"
          \/ UNCHANGED <<qty, hist>> /\ exitOrder' = "working"
          \/ UNCHANGED <<qty, hist, exitOrder>>
      BY <2>4 DEF ClosePosition, Liquidate
    <3> HIDE DEF fill
    <3> QED BY <2>1, <3>1, <3>2, <3>3 DEF BrokerTypeOK
  <2> QED BY <2>2, <2>3, <2>4 DEF BeginClose, LookAtPosition, AwaitClose
<1>4. NameUsedUp'
  BY <1>1 DEF DriverInv, NameUsedUp, order_id_for
<1>5. /\ FillOfExit \in Nat /\ LastFill \in Nat
  BY FillNumbers DEF DriverInv, TypeOK
<1>6. \/ \E exit \in Nat : Settle(exit)
      \/ pc' \in {"cancel", "look", "liquidate", "await"} /\ UNCHANGED <<mem, at, booked>>
  <2>1. CASE BeginClose
    BY <2>1 DEF BeginClose
  <2>2. CASE CancelOpenOrders
    BY <2>2 DEF CancelOpenOrders
  <2>3. CASE LookAtPosition
    BY <1>5, <2>3 DEF LookAtPosition
  <2>4. CASE ClosePosition
    BY <2>4 DEF ClosePosition
  <2>5. CASE AwaitClose
    BY <1>5, <2>5 DEF AwaitClose
  <2> QED BY <2>1, <2>2, <2>3, <2>4, <2>5
<1>7. CASE \E exit \in Nat : Settle(exit)
  <2>1. booked' \in Seq(Leg) /\ mem' \in State /\ at' \in Nat /\ pc' = "act"
    BY <1>7, SettleType
  <2>2. TypeOK'
    BY <1>1, <1>3, <2>1 DEF DriverInv, TypeOK, Steps, envVars, fileVars
  <2>3. NextIntent
    BY <1>7 DEF Settle
  <2> QED BY <1>1, <1>2, <1>4, <2>2, <2>3, OpensAfterNext DEF DriverInv
<1>8. CASE pc' \in {"cancel", "look", "liquidate", "await"} /\ UNCHANGED <<mem, at, booked>>
  <2>1. TypeOK'
    BY <1>1, <1>2, <1>3, <1>8 DEF DriverInv, TypeOK, Steps, envVars, fileVars
  <2>2. OpensFirst' /\ OpensRecorded'
    BY <1>1, <1>2, <1>8 DEF DriverInv, OpensFirst, OpensRecorded, Acting
  <2> QED BY <1>4, <2>1, <2>2 DEF DriverInv
<1> QED BY <1>6, <1>7, <1>8

\* The end of the tick, and what everybody but the account does.
LEMMA AroundTheTickDriverInv ==
    ASSUME DriverInv,
           SaveState \/ RecordTick \/ NewBar \/ FlipSwitch \/ Crash
    PROVE  DriverInv'
<1>1. UNCHANGED <<brokerVars, tickBar, signal, halt, intents, at>>
  BY DEF SaveState, RecordTick, NewBar, FlipSwitch, Crash, tickVars
<1>2. BrokerTypeOK' /\ NameUsedUp'
  BY <1>1, AccountUntouched
<1>3. OpensFirst' /\ OpensRecorded'
  BY <1>1 DEF DriverInv, OpensFirst, OpensRecorded, Acting, Current, SaveState,
              RecordTick, NewBar, FlipSwitch, Crash, tickVars
<1>4. TypeOK'
  <2>1. /\ mem \in State /\ disk \in State /\ trades \in Seq(Leg) /\ booked \in Seq(Leg)
        /\ tickBar \in Bars /\ pc \in Steps
    BY DEF DriverInv, TypeOK
  <2>2. CASE SaveState
    <3>1. mem' \in State /\ disk' \in State
      <4>1. [mem EXCEPT !.decided = tickBar] \in State
        BY <2>1, StateType
      <4> QED BY <2>2, <4>1 DEF SaveState
    <3> QED BY <1>1, <1>2, <2>2, <3>1 DEF DriverInv, TypeOK, Steps, SaveState, envVars
  <2>3. CASE RecordTick
    <3>1. trades' \in Seq(Leg) /\ booked' \in Seq(Leg)
      BY <2>1, <2>3 DEF RecordTick
    <3> QED BY <1>1, <1>2, <2>3, <3>1 DEF DriverInv, TypeOK, Steps, RecordTick, envVars
  <2>4. CASE NewBar
    <3>1. bar' \in Bars
      BY <2>4, BrokerageAssumption DEF DriverInv, TypeOK, NewBar, Bars
    <3> QED BY <1>2, <2>4, <3>1 DEF DriverInv, TypeOK, NewBar, fileVars, tickVars
  <2>5. CASE FlipSwitch
    BY <1>2, <2>5 DEF DriverInv, TypeOK, FlipSwitch, fileVars, tickVars
  <2>6. CASE Crash
    BY <1>2, <2>6 DEF DriverInv, TypeOK, Steps, Crash, fileVars
  <2> QED BY <2>2, <2>3, <2>4, <2>5, <2>6
<1> QED BY <1>2, <1>3, <1>4 DEF DriverInv

LEMMA NextDriverInv == DriverInv /\ [Next]_vars => DriverInv'
<1> SUFFICES ASSUME DriverInv, [Next]_vars PROVE DriverInv'
  OBVIOUS
<1>1. CASE Next
  BY <1>1, PreparationDriverInv, EntryDriverInv, SubmitAcceptedDriverInv,
     CloseDriverInv, AroundTheTickDriverInv, AccountDriverInv
  DEF Next, Tick
<1>2. CASE UNCHANGED vars
  BY <1>2 DEF vars, brokerVars, fileVars, tickVars, envVars, DriverInv, TypeOK,
              BrokerTypeOK, OpensFirst, OpensRecorded, Acting, Current, NameUsedUp
<1> QED BY <1>1, <1>2

LEMMA DriverInvariant == Spec => []DriverInv
BY InitDriverInv, NextDriverInv, PTL DEF Spec

-----------------------------------------------------------------------------

\* Type correctness, for every number of bars, every fault and every bound.
THEOREM TypeCorrect == Spec => []TypeOK
<1>1. DriverInv => TypeOK
  BY DEF DriverInv
<1> QED BY <1>1, DriverInvariant, PTL

\* However often the process dies and a bar is decided again, whatever the
\* account's API does wrong, the broker accepts at most one entry for the bar.
THEOREM OneEntryForEveryBar == Spec => []OneEntryPerBar
<1>1. DriverInv => OneEntryPerBar
  <2> SUFFICES ASSUME DriverInv, NEW b \in Bars PROVE entries[b] <= 1
    BY DEF OneEntryPerBar
  <2>1. entries[b] = 0 \/ entries[b] = 1
    BY DEF DriverInv, NameUsedUp
  <2> QED BY <2>1
<1> QED BY <1>1, DriverInvariant, PTL

-----------------------------------------------------------------------------
(***************************************************************************)
(* One position at most, of an account that fills or refuses an order at   *)
(* once and cancels what it is asked to cancel.  Where it does not, the    *)
(* runs show how a second position comes about.                            *)
(***************************************************************************)

Prompt == "slow" \notin Faults /\ "cancel" \notin Faults

\* The tick is on its way to an entry.
Entering == \/ pc = "decide" /\ mem.pos = None
            \/ Acting("open")
            \/ pc = "submit"

\* Nothing is pending, the one exit that may rest belongs to the position that
\* is held, none rests once a close has cancelled it, and an entry is only on
\* its way to a flat account.
PositionInv ==
    /\ OnePosition
    /\ working = {} /\ exitOrder # "working"
    /\ \A order \in legs : qty = Towards(order.short)
    /\ \A order, other \in legs : order = other
    /\ pc \in {"look", "liquidate", "await"} => legs = {}
    /\ Entering => Flat

LEMMA FlatHasNoLegs ==
    ASSUME DriverInv, PositionInv, Flat
    PROVE  legs = {}
<1> SUFFICES ASSUME NEW order \in legs PROVE FALSE
  OBVIOUS
<1>1. order.short \in BOOLEAN
  BY DEF DriverInv, TypeOK, BrokerTypeOK, Order
<1> QED BY <1>1 DEF PositionInv, Flat, Towards

\* A machine that holds a position decides no entry.
LEMMA HoldingOpensNothing ==
    ASSUME NEW pos, pos # None, NEW sig, NEW veto, NEW hit
    PROVE  \A k \in DOMAIN Step(pos, sig, veto, hit).intents :
             Step(pos, sig, veto, hit).intents[k].action # "open"
<1> DEFINE ints == IF Opposes(pos, sig)
                   THEN <<Intended("close", "signal", pos.short)>> ELSE <<>>
<1>1. Step(pos, sig, veto, hit).intents = WithLevelHit(ints, hit, pos.short)
  BY DEF Step
<1>2. /\ Intended("close", "signal", pos.short).action = "close"
      /\ Intended("close", "level", pos.short).action = "close"
  BY DEF Intended
<1> DEFINE alone == Intended("close", "signal", pos.short)
<1> HIDE DEF alone
<1>3. ints \in Seq({alone}) /\ \A k \in DOMAIN ints : ints[k].action = "close"
  <2>1. <<alone>> \in Seq({alone}) /\ \A k \in DOMAIN <<alone>> : <<alone>>[k] = alone
    OBVIOUS
  <2>2. alone.action = "close"
    BY <1>2 DEF alone
  <2>3. ints = <<alone>> \/ ints = <<>>
    BY Zenon DEF alone
  <2> HIDE DEF ints
  <2>4. CASE ints = <<alone>>
    BY <2>1, <2>2, <2>4
  <2>5. CASE ints = <<>>
    BY <2>5
  <2> QED BY <2>3, <2>4, <2>5
<1> DEFINE exit == Intended("close", "level", pos.short)
<1> HIDE DEF ints, exit
<1>4. exit.action = "close"
  BY <1>2 DEF exit
<1>5. \A k \in DOMAIN Append(ints, exit) : Append(ints, exit)[k].action = "close"
  BY <1>3, <1>4
<1> QED BY <1>1, <1>3, <1>5 DEF WithLevelHit, exit

LEMMA InitPositionInv == Init => PositionInv
<1> SUFFICES ASSUME Init PROVE PositionInv
  OBVIOUS
<1>1. qty \in {0, 1, -1}
  BY DEF Init
<1> QED BY <1>1 DEF Init, PositionInv, OnePosition, Entering, Acting

\* The steps that leave the account alone and move the tick to an entry only
\* when it found the account flat.
LEMMA AccountKept ==
    ASSUME PositionInv, UNCHANGED brokerVars, Entering' => Flat,
           pc' \notin {"look", "liquidate", "await"} \/ legs = {}
    PROVE  PositionInv'
BY DEF PositionInv, OnePosition, brokerVars, Flat

\* Past its first intent a bar makes no entry.
LEMMA NothingEnters ==
    ASSUME DriverInv, DriverInv', at >= 1, NextIntent
    PROVE  ~Entering'
<1>1. at \in Nat /\ at' = at + 1 /\ pc' = "act"
  BY DEF DriverInv, TypeOK, NextIntent
<1>2. ~Acting("open")'
  BY <1>1 DEF DriverInv, OpensFirst, Acting, Current
<1> QED BY <1>1, <1>2 DEF Entering

-----------------------------------------------------------------------------

\* Up to the decision: what is decided is an entry only when the account has
\* just agreed that nothing is held.
LEMMA PreparationPositionInv ==
    ASSUME DriverInv, DriverInv', PositionInv,
           StartTick \/ AdoptExit \/ AdoptPosition \/ DropNeverOpened \/ Reconcile
             \/ PositionReadFails \/ Decide
    PROVE  PositionInv'
<1>1. UNCHANGED brokerVars
  BY DEF StartTick, AdoptExit, AdoptPosition, DropNeverOpened, Reconcile,
         PositionReadFails, Decide
<1>2. pc' \notin {"look", "liquidate", "await"}
  BY DEF StartTick, AdoptExit, AdoptPosition, DropNeverOpened, Reconcile,
         PositionReadFails, Decide
<1>3. Entering' => Flat
  <2>1. CASE StartTick \/ AdoptExit \/ AdoptPosition \/ DropNeverOpened \/ PositionReadFails
    <3>1. pc' \in {"idle", "adoptExit", "adoptPosition", "drop", "reconcile"}
      BY <2>1 DEF StartTick, AdoptExit, AdoptPosition, DropNeverOpened, PositionReadFails
    <3> QED BY <3>1 DEF Entering, Acting
  <2>2. CASE Reconcile
    BY <2>2 DEF Reconcile, Mismatch, Entering, Acting, tickVars
  <2>3. CASE Decide
    <3>1. PICK hit \in BOOLEAN :
            intents' = Step(mem.pos, signal, halt, hit).intents
      BY <2>3 DEF Decide
    <3>2. CASE mem.pos = None
      BY <2>3, <3>2 DEF Decide, PositionInv, Entering
    <3>3. CASE mem.pos # None
      <4>1. \A k \in DOMAIN intents' : intents'[k].action # "open"
        BY <3>1, <3>3, HoldingOpensNothing
      <4>2. pc' = "act"
        BY <2>3 DEF Decide
      <4> QED BY <4>1, <4>2 DEF Entering, Acting, Current
    <3> QED BY <3>2, <3>3
  <2> QED BY <2>1, <2>2, <2>3
<1> QED BY <1>1, <1>2, <1>3, AccountKept

\* An entry is taken by a flat account, so it makes the only position, and the
\* exit that rests behind it is the only one.
LEMMA EntryPositionInv ==
    ASSUME Prompt, DriverInv, DriverInv', PositionInv,
           SkipIntent \/ BeginOpen \/ SubmitAccepted \/ SubmitRefused \/ PollEntry
    PROVE  PositionInv'
<1>1. at >= 1
  BY DEF DriverInv, OpensRecorded, SkipIntent, BeginOpen, SubmitAccepted,
         SubmitRefused, PollEntry, Acting
<1>2. CASE SubmitAccepted
  <2> DEFINE order == [bar |-> tickBar, short |-> Current.short]
  <2>1. Flat /\ legs = {}
    BY <1>2, FlatHasNoLegs DEF SubmitAccepted, PositionInv, Entering
  <2>2. Filled(order) /\ UNCHANGED <<working, exitOrder>> /\ pc' = "poll"
    BY <1>2 DEF SubmitAccepted, Prompt
  <2>3. qty' = Towards(order.short) /\ legs' \subseteq {order}
    <3>1. Towards(order.short) \in Int
      BY DEF Towards
    <3> HIDE DEF order
    <3> QED BY <2>1, <2>2, <3>1 DEF Filled, Rests, Flat
  <2>4. qty' \in {1, -1}
    BY <2>3 DEF Towards
  <2>5. ~Entering'
    BY <2>2 DEF Entering, Acting
  <2> HIDE DEF order
  <2> QED BY <2>2, <2>3, <2>4, <2>5 DEF PositionInv, OnePosition
<1>3. CASE NextIntent /\ UNCHANGED brokerVars
  BY <1>1, <1>3, NothingEnters, AccountKept DEF NextIntent
<1>4. CASE BeginOpen /\ pc' = "submit" /\ UNCHANGED brokerVars
  BY <1>4, AccountKept DEF BeginOpen, PositionInv, Entering
<1> QED BY <1>2, <1>3, <1>4 DEF SkipIntent, BeginOpen, SubmitRefused, PollEntry

\* A close cancels what rests before it liquidates.
LEMMA ClosePositionInv ==
    ASSUME Prompt, DriverInv, DriverInv', PositionInv,
           BeginClose \/ CancelOpenOrders \/ LookAtPosition \/ ClosePosition \/ AwaitClose
    PROVE  PositionInv'
<1>1. at >= 1
  BY DEF DriverInv, OpensRecorded, BeginClose, CancelOpenOrders, LookAtPosition,
         ClosePosition, AwaitClose, Acting
<1>2. CASE \E exit : Settle(exit) /\ UNCHANGED brokerVars
  BY <1>1, <1>2, NothingEnters, AccountKept DEF Settle, NextIntent
<1>3. CASE /\ UNCHANGED brokerVars /\ pc' \in {"cancel", "look", "liquidate", "await"}
           /\ pc' = "cancel" \/ legs = {}
  BY <1>3, AccountKept DEF Entering, Acting
<1>4. CASE CancelOpenOrders /\ ~UNCHANGED brokerVars
  <2>1. /\ legs' = {} /\ working' = {} /\ pc' = "look" /\ UNCHANGED qty
        /\ exitOrder' = IF exitOrder = "working" THEN "dead" ELSE exitOrder
    BY <1>4 DEF CancelOpenOrders, Prompt
  <2> QED BY <2>1 DEF PositionInv, OnePosition, Entering, Acting
<1>5. CASE ClosePosition /\ pc' = "await"
  <2>1. /\ qty' = 0 /\ exitOrder' = "filled" /\ legs' = legs /\ working' = working
        /\ legs = {}
    BY <1>5 DEF ClosePosition, Settle, NextIntent, Liquidate, Prompt, PositionInv
  <2> QED BY <1>5, <2>1 DEF PositionInv, OnePosition, Entering, Acting
<1>6. \/ \E exit : Settle(exit) /\ UNCHANGED brokerVars
      \/ /\ UNCHANGED brokerVars /\ pc' \in {"cancel", "look", "liquidate", "await"}
         /\ pc' = "cancel" \/ legs = {}
      \/ CancelOpenOrders /\ ~UNCHANGED brokerVars
      \/ ClosePosition /\ pc' = "await"
  <2>1. CASE BeginClose
    BY <2>1 DEF BeginClose
  <2>2. CASE CancelOpenOrders
    <3>1. CASE UNCHANGED brokerVars
      BY <2>2, <3>1 DEF CancelOpenOrders, Prompt, brokerVars
    <3>2. CASE ~UNCHANGED brokerVars
      BY <2>2, <3>2
    <3> QED BY <3>1, <3>2
  <2>3. CASE LookAtPosition
    BY <2>3 DEF LookAtPosition, PositionInv
  <2>4. CASE ClosePosition
    BY <2>4 DEF ClosePosition, brokerVars
  <2>5. CASE AwaitClose
    BY <2>5 DEF AwaitClose
  <2> QED BY <2>1, <2>2, <2>3, <2>4, <2>5
<1> QED BY <1>2, <1>3, <1>4, <1>5, <1>6

\* Left to itself the account only lets the resting exit close its position.
LEMMA AccountPositionInv ==
    ASSUME DriverInv, PositionInv, Account
    PROVE  PositionInv'
<1>1. UNCHANGED <<pc, mem, intents, at>>
  BY DEF Account, tickVars
<1>2. PICK order \in legs : FireLeg /\ /\ qty' = qty - Towards(order.short)
                                       /\ legs' = legs \ {order}
                                       /\ UNCHANGED <<working, exitOrder>>
  BY DEF Account, AccountMoves, FillEntry, ExpireEntry, FillExit, FireLeg, PositionInv
<1>3. qty = Towards(order.short) /\ legs' = {}
  BY <1>2 DEF PositionInv
<1>4. qty' = 0
  BY <1>2, <1>3 DEF DriverInv, TypeOK, BrokerTypeOK
<1> QED BY <1>1, <1>2, <1>3, <1>4 DEF PositionInv, OnePosition, Flat

LEMMA AroundTheTickPositionInv ==
    ASSUME PositionInv, SaveState \/ RecordTick \/ NewBar \/ FlipSwitch \/ Crash
    PROVE  PositionInv'
<1>1. UNCHANGED brokerVars
  BY DEF SaveState, RecordTick, NewBar, FlipSwitch, Crash
<1>2. CASE SaveState \/ RecordTick \/ Crash
  BY <1>1, <1>2, AccountKept DEF SaveState, RecordTick, Crash, Entering, Acting
<1>3. CASE NewBar \/ FlipSwitch
  BY <1>1, <1>3 DEF NewBar, FlipSwitch, PositionInv, OnePosition, Entering, Acting,
     Current, Flat, brokerVars, tickVars
<1> QED BY <1>2, <1>3

LEMMA NextPositionInv ==
    ASSUME Prompt, DriverInv, DriverInv', PositionInv, [Next]_vars
    PROVE  PositionInv'
<1>1. CASE Next
  BY <1>1, PreparationPositionInv, EntryPositionInv, ClosePositionInv,
     AccountPositionInv, AroundTheTickPositionInv DEF Next, Tick
<1>2. CASE UNCHANGED vars
  BY <1>2 DEF vars, brokerVars, fileVars, tickVars, envVars, PositionInv, OnePosition,
              Entering, Acting, Current, Flat
<1> QED BY <1>1, <1>2

\* The strategy never holds more than one position of an account that answers
\* an order or a cancellation at once: however many requests fail or replies
\* are lost, whenever the process dies or the switch is moved (on_bar_closed).
THEOREM OnePositionAtATime == Prompt => (Spec => []OnePosition)
<1>1. PositionInv => OnePosition
  BY DEF PositionInv
<1>2. Prompt /\ DriverInv /\ DriverInv' /\ PositionInv /\ [Next]_vars => PositionInv'
  BY NextPositionInv
<1>3. Prompt => Prompt'
  BY DEF Prompt
<1> QED BY <1>1, <1>2, <1>3, InitPositionInv, DriverInvariant, PTL DEF Spec

-----------------------------------------------------------------------------
(***************************************************************************)
(* The trade log is a sequence of round trips.  Every row is booked from a *)
(* position and a later fill, so what is proved is where a position stands *)
(* in the history of fills: after every exit already booked, and before    *)
(* the fill that closed it, if one did.                                    *)
(***************************************************************************)

InOrder(log) ==
    /\ \A i \in DOMAIN log : log[i].exit # 0 => log[i].entry < log[i].exit
    /\ \A i, j \in DOMAIN log :
         i < j /\ log[i].exit # 0 /\ log[j].exit # 0 => log[i].exit <= log[j].entry

\* Every exit of the log is a fill no newer than this one.
ExitsUpTo(log, fill) == \A i \in DOMAIN log : log[i].exit <= fill

\* The place of a position in a history that left the account holding held.  A
\* position whose entry price is only expected has no fill, and no exit is
\* booked before it.
Stands(pos, log, fills, held) ==
    pos # None =>
        /\ ExitsUpTo(log, pos.fill) /\ pos.fill <= Len(fills)
        /\ pos.fill # 0 =>
             IF held = 0 THEN \E i \in DOMAIN fills : pos.fill < i /\ fills[i].buy = pos.short
                         ELSE pos.short = (held < 0)

\* An entry is decided and its price not known yet.
Opening == Acting("open") \/ pc \in {"submit", "poll"}

\* The entry of a bar has filled, and is the newest one.
EntryTaken(b, short, log, fills, held) ==
    \E e \in DOMAIN fills :
        /\ fills[e].of = "entry" /\ fills[e].bar = b
        /\ \A i \in DOMAIN fills : fills[i].of = "entry" => i <= e
        /\ Stands([short |-> short, fill |-> e], log, fills, held)

TripsInv ==
    /\ InOrder(Booked)
    /\ ExitsUpTo(Booked, Len(hist))
    /\ ~Flat => Len(hist) # 0 /\ hist[Len(hist)].buy = (qty > 0)
    /\ Stands(disk.pos, trades, hist, qty)
    /\ pc # "idle" /\ ~Opening => Stands(mem.pos, Booked, hist, qty)
    /\ pc \in {"idle", "adoptExit"} => booked = <<>>
    /\ pc \in {"adoptExit", "adoptPosition", "drop", "reconcile", "decide", "record"} =>
         mem.pos = disk.pos
    /\ Opening => disk.pos = None /\ mem.pos.short = Current.short
    /\ pc = "poll" => EntryTaken(tickBar, mem.pos.short, Booked, hist, qty)
    /\ pc = "await" => Flat /\ Len(hist) # 0 /\ hist[Len(hist)].of = "close"

-----------------------------------------------------------------------------

\* A leg booked from a position keeps the log in order.
LEMMA LegInOrder ==
    ASSUME NEW log \in Seq(Leg), InOrder(log), NEW leg \in Leg,
           leg.exit # 0 => leg.entry < leg.exit, ExitsUpTo(log, leg.entry)
    PROVE  InOrder(Append(log, leg))
<1> DEFINE new == Append(log, leg)
<1>1. /\ DOMAIN new = 1..(Len(log) + 1) /\ DOMAIN log = 1..Len(log) /\ Len(log) \in Nat
      /\ \A i \in DOMAIN log : new[i] = log[i] /\ log[i] \in Leg
      /\ new[Len(log) + 1] = leg
  OBVIOUS
<1> HIDE DEF new
<1>2. \A i \in DOMAIN new : new[i].exit # 0 => new[i].entry < new[i].exit
  BY <1>1 DEF InOrder
<1>3. ASSUME NEW i \in DOMAIN new, NEW j \in DOMAIN new, i < j,
             new[i].exit # 0, new[j].exit # 0
      PROVE  new[i].exit <= new[j].entry
  <2>1. i \in DOMAIN log
    BY <1>1, <1>3
  <2>2. CASE j \in DOMAIN log
    BY <1>1, <1>3, <2>1, <2>2 DEF InOrder
  <2>3. CASE j \notin DOMAIN log
    BY <1>1, <2>1, <2>3 DEF ExitsUpTo
  <2> QED BY <2>2, <2>3
<1> QED BY <1>2, <1>3 DEF InOrder, new

\* Settling a position at a fill newer than its entry, or at no fill at all.
LEMMA SettledInOrder ==
    ASSUME NEW rows \in Seq(Leg), NEW kept \in Seq(Leg),
           NEW pos \in Position \union {None}, NEW exit \in Nat, NEW fills, Len(fills) \in Nat,
           NEW held, Stands(pos, rows \o kept, fills, held),
           InOrder(rows \o kept), ExitsUpTo(rows \o kept, Len(fills)),
           exit # 0 /\ pos # None => pos.fill < exit, exit <= Len(fills)
    PROVE  /\ InOrder(rows \o (kept \o Settled(pos, exit)))
           /\ ExitsUpTo(rows \o (kept \o Settled(pos, exit)), Len(fills))
<1> DEFINE log == rows \o kept
<1>1. log \in Seq(Leg)
  OBVIOUS
<1>2. CASE pos = None
  <2>1. Settled(pos, exit) = <<>>
    BY <1>2 DEF Settled
  <2>2. rows \o (kept \o <<>>) = log
    OBVIOUS
  <2> QED BY <2>1, <2>2
<1>3. CASE pos # None
  <2> DEFINE leg == [short |-> pos.short, entry |-> pos.fill, exit |-> exit]
  <2>1. leg \in Leg /\ leg.exit = exit /\ leg.entry = pos.fill
    BY <1>3 DEF Position, Leg
  <2>2. Settled(pos, exit) = <<leg>>
    BY <1>3 DEF Settled
  <2> HIDE DEF leg
  <2>3. rows \o (kept \o <<leg>>) = Append(log, leg)
    BY <2>1
  <2>4. ExitsUpTo(log, leg.entry)
    BY <1>3, <2>1 DEF Stands
  <2> HIDE DEF log
  <2>5. InOrder(Append(log, leg))
    BY <1>1, <1>3, <2>1, <2>4, LegInOrder DEF log
  <2>6. ExitsUpTo(Append(log, leg), Len(fills))
    <3>1. /\ DOMAIN Append(log, leg) = 1..(Len(log) + 1) /\ Len(log) \in Nat
          /\ DOMAIN log = 1..Len(log)
          /\ \A i \in DOMAIN log : Append(log, leg)[i] = log[i]
          /\ Append(log, leg)[Len(log) + 1] = leg
      BY <1>1, <2>1
    <3>2. ExitsUpTo(log, Len(fills))
      BY DEF log
    <3> QED BY <2>1, <3>1, <3>2 DEF ExitsUpTo
  <2> QED BY <2>2, <2>3, <2>5, <2>6
<1> QED BY <1>2, <1>3

\* A fill that closes what is held closes every position that stands on it.
LEMMA StandsClosed ==
    ASSUME NEW pos \in Position \union {None}, NEW log, NEW fills \in Seq(Fill),
           NEW held \in Int, held # 0, NEW fill \in Fill, fill.buy = (held < 0),
           Stands(pos, log, fills, held)
    PROVE  Stands(pos, log, Append(fills, fill), 0)
<1>1. /\ DOMAIN Append(fills, fill) = 1..(Len(fills) + 1) /\ Len(fills) \in Nat
      /\ Len(Append(fills, fill)) = Len(fills) + 1
      /\ Append(fills, fill)[Len(fills) + 1] = fill
  OBVIOUS
<1>2. CASE pos = None
  BY <1>2 DEF Stands
<1>3. CASE pos # None
  <2>1. pos.fill \in Nat /\ pos.fill <= Len(fills) /\ ExitsUpTo(log, pos.fill)
    BY <1>3 DEF Stands, Position
  <2>2. ASSUME pos.fill # 0
        PROVE  \E i \in DOMAIN Append(fills, fill) :
                 pos.fill < i /\ Append(fills, fill)[i].buy = pos.short
    <3>1. pos.short = (held < 0)
      BY <1>3, <2>2 DEF Stands
    <3> WITNESS Len(fills) + 1 \in DOMAIN Append(fills, fill)
    <3> QED BY <1>1, <2>1, <3>1
  <2> QED BY <1>1, <2>1, <2>2 DEF Stands
<1> QED BY <1>2, <1>3

LEMMA EntryTakenClosed ==
    ASSUME NEW b, NEW short \in BOOLEAN, NEW log, NEW fills \in Seq(Fill),
           NEW held \in Int, held # 0, NEW fill \in Fill, fill.buy = (held < 0),
           fill.of # "entry", EntryTaken(b, short, log, fills, held)
    PROVE  EntryTaken(b, short, log, Append(fills, fill), 0)
<1>1. PICK e \in DOMAIN fills :
        /\ fills[e].of = "entry" /\ fills[e].bar = b
        /\ \A i \in DOMAIN fills : fills[i].of = "entry" => i <= e
        /\ Stands([short |-> short, fill |-> e], log, fills, held)
  BY DEF EntryTaken
<1>2. /\ DOMAIN Append(fills, fill) = 1..(Len(fills) + 1) /\ DOMAIN fills = 1..Len(fills)
      /\ Len(fills) \in Nat
      /\ \A i \in DOMAIN fills : Append(fills, fill)[i] = fills[i]
      /\ Append(fills, fill)[Len(fills) + 1] = fill
  OBVIOUS
<1>3. [short |-> short, fill |-> e] \in Position
  BY <1>2 DEF Position
<1>4. Stands([short |-> short, fill |-> e], log, Append(fills, fill), 0)
  BY <1>1, <1>3, StandsClosed
<1> QED BY <1>1, <1>2, <1>4 DEF EntryTaken

\* Closing fills come after entries: what the driver reads out of the history
\* as the exit of a position is newer than its entry.
LEMMA NewestIs ==
    ASSUME NEW n \in Nat, NEW S \in SUBSET (1..n)
    PROVE  /\ Newest(S) <= n
           /\ \A i \in S : i <= Newest(S)
           /\ \A i \in S : (\A j \in S : j <= i) => Newest(S) = i
<1>1. CASE S = {}
  BY <1>1 DEF Newest
<1>2. CASE S # {}
  <2>1. \E i \in S : \A j \in S : j <= i
    <3>1. S \in SUBSET (0..n)
      OBVIOUS
    <3> QED BY <1>2, <3>1, GreatestElement
  <2> DEFINE top == CHOOSE i \in S : \A j \in S : j <= i
  <2>2. top \in S /\ \A j \in S : j <= top
    BY <2>1, Zenon
  <2>3. Newest(S) = top
    BY <1>2 DEF Newest
  <2> HIDE DEF top
  <2> QED BY <2>2, <2>3
<1> QED BY <1>1, <1>2

LEMMA ExitsFound ==
    ASSUME DriverInv
    PROVE  /\ \A short, i : i \in DOMAIN hist /\ hist[i].buy = short => i <= ClosingFill(short)
           /\ \A short : ClosingFill(short) <= Len(hist)
           /\ FillOfExit <= Len(hist)
           /\ Len(hist) # 0 /\ hist[Len(hist)].of = "close" => FillOfExit = Len(hist)
           /\ hist # <<>> => \A short :
                hist[Len(hist)].buy = ~short => EntryFill(short) = Len(hist)
           /\ \A b : \A e \in DOMAIN hist :
                /\ hist[e].of = "entry" /\ hist[e].bar = b
                /\ \A i \in DOMAIN hist : hist[i].of = "entry" => i <= e
                => FillOfEntry(b) = e
<1>1. DOMAIN hist = 1..Len(hist) /\ Len(hist) \in Nat
  BY DEF DriverInv, TypeOK, BrokerTypeOK
<1>2. ASSUME NEW short
      PROVE  /\ ClosingFill(short) <= Len(hist)
             /\ \A i \in DOMAIN hist : hist[i].buy = short => i <= ClosingFill(short)
  BY <1>1, NewestIs DEF ClosingFill, ClosingFills
<1>3. FillOfExit <= Len(hist)
  BY <1>1, NewestIs DEF FillOfExit
<1>4. ASSUME Len(hist) # 0, hist[Len(hist)].of = "close"
      PROVE  FillOfExit = Len(hist)
  BY <1>1, <1>4, NewestIs DEF FillOfExit
<1>5. ASSUME hist # <<>>, NEW short, hist[Len(hist)].buy = ~short
      PROVE  EntryFill(short) = Len(hist)
  <2>1. Len(hist) \in DOMAIN hist
    BY <1>1, <1>5 DEF DriverInv, TypeOK, BrokerTypeOK
  <2> QED BY <1>1, <1>5, <2>1, NewestIs DEF EntryFill
<1>6. ASSUME NEW b, NEW e \in DOMAIN hist, hist[e].of = "entry", hist[e].bar = b,
             \A i \in DOMAIN hist : hist[i].of = "entry" => i <= e
      PROVE  FillOfEntry(b) = e
  <2> DEFINE S == {i \in DOMAIN hist : hist[i].of = "entry" /\ hist[i].bar = b}
  <2>1. S \in SUBSET (1..Len(hist)) /\ e \in S /\ \A j \in S : j <= e
    BY <1>1, <1>6
  <2> HIDE DEF S
  <2>2. Newest(S) = e
    BY <1>1, <2>1, NewestIs
  <2> QED BY <2>2 DEF FillOfEntry, S
<1> QED BY <1>2, <1>3, <1>4, <1>5, <1>6

\* The exits of the log are numbers of fills.
LEMMA ExitNumbers ==
    ASSUME DriverInv
    PROVE  \A i \in DOMAIN Booked : Booked[i].exit \in Nat
<1>1. trades \in Seq(Leg) /\ booked \in Seq(Leg)
  BY DEF DriverInv, TypeOK
<1>2. Booked \in Seq(Leg)
  BY <1>1 DEF Booked
<1>3. \A i \in DOMAIN Booked : Booked[i] \in Leg
  BY <1>2
<1> QED BY <1>3 DEF Leg

\* What is recorded is no newer than what is booked.
LEMMA RecordedPart ==
    ASSUME NEW rows \in Seq(Leg), NEW kept \in Seq(Leg)
    PROVE  /\ InOrder(rows \o kept) => InOrder(rows)
           /\ \A n : ExitsUpTo(rows \o kept, n) => ExitsUpTo(rows, n)
           /\ \A pos, fills, held :
                Stands(pos, rows \o kept, fills, held) => Stands(pos, rows, fills, held)
<1>1. \A i \in DOMAIN rows : i \in DOMAIN (rows \o kept) /\ (rows \o kept)[i] = rows[i]
  OBVIOUS
<1>2. \A n : ExitsUpTo(rows \o kept, n) => ExitsUpTo(rows, n)
  BY <1>1, Zenon DEF ExitsUpTo
<1>3. InOrder(rows \o kept) => InOrder(rows)
  <2> DEFINE log == rows \o kept
  <2>1. \A i \in DOMAIN rows : i \in DOMAIN log /\ log[i] = rows[i]
    BY <1>1
  <2> HIDE DEF log
  <2>2. InOrder(log) => InOrder(rows)
    BY <2>1 DEF InOrder
  <2> QED BY <2>2 DEF log
<1> QED BY <1>2, <1>3 DEF Stands

\* What a bar opens: nothing, and the position stays what it was, or first of
\* all an entry in the direction the state records.
LEMMA StepHolds ==
    ASSUME NEW pos \in Position \union {None}, NEW sig \in Signals,
           NEW veto \in BOOLEAN, NEW hit \in BOOLEAN
    PROVE  LET step == Step(pos, sig, veto, hit) IN
           \/ step.pos = pos /\ \A k \in DOMAIN step.intents : step.intents[k].action # "open"
           \/ /\ pos = None /\ step.pos # None
              /\ 1 \in DOMAIN step.intents /\ step.intents[1].action = "open"
              /\ step.intents[1].short = step.pos.short
<1> DEFINE step == Step(pos, sig, veto, hit)
<1>1. CASE pos # None
  <2>1. step.pos = pos
    BY <1>1 DEF Step
  <2> QED BY <1>1, <2>1, HoldingOpensNothing
<1>2. CASE pos = None /\ Wants(sig) = {}
  BY <1>2 DEF Step
<1>3. CASE pos = None /\ Wants(sig) # {}
  <2> DEFINE short == CHOOSE s \in Wants(sig) : TRUE
  <2>1. short \in BOOLEAN
    BY <1>3 DEF Wants
  <2> HIDE DEF short
  <2>2. CASE veto
    <3>1. step.pos = None /\ step.intents = <<Intended("skip", "signal", short)>>
      BY <1>3, <2>2 DEF Step, short
    <3>2. Intended("skip", "signal", short).action = "skip"
      BY DEF Intended
    <3> HIDE DEF step
    <3>3. \A k \in DOMAIN step.intents : step.intents[k].action # "open"
      BY <3>1, <3>2
    <3> QED BY <1>3, <3>1, <3>3 DEF step
  <2>3. CASE ~veto
    <3> DEFINE entry == Intended("open", "signal", short)
               exit == Intended("close", "level", short)
    <3>1. step.pos = [short |-> short, fill |-> 0]
          /\ step.intents = WithLevelHit(<<entry>>, hit, short)
      BY <1>3, <2>3 DEF Step, short
    <3>2. entry.action = "open" /\ entry.short = short
      BY DEF Intended
    <3>3. step.intents \in {<<entry>>, Append(<<entry>>, exit)}
      BY <3>1 DEF WithLevelHit
    <3> HIDE DEF entry, exit, step
    <3>4. 1 \in DOMAIN step.intents /\ step.intents[1] = entry
      BY <3>3
    <3>5. step.pos # None /\ step.pos.short = short
      <4>1. step.pos \in [short : BOOLEAN, fill : Nat]
        BY <2>1, <3>1
      <4> QED BY <3>1, <4>1, DriverAssumption
    <3> QED BY <1>3, <3>2, <3>4, <3>5 DEF step
  <2> QED BY <2>2, <2>3
<1> QED BY <1>1, <1>2, <1>3

-----------------------------------------------------------------------------

LEMMA InitTripsInv == Init => TripsInv
<1> SUFFICES ASSUME Init PROVE TripsInv
  OBVIOUS
<1>1. Booked = <<>> /\ trades = <<>> /\ booked = <<>>
  BY DEF Init, Booked
<1>2. PICK held \in {0, 1, -1} :
        /\ qty = held
        /\ hist = IF held = 0 THEN <<>>
                  ELSE <<[buy |-> held > 0, of |-> "entry", bar |-> 0]>>
  BY DEF Init
<1>3. InOrder(Booked) /\ (\A n : ExitsUpTo(Booked, n)) /\ \A n : ExitsUpTo(trades, n)
  BY <1>1 DEF InOrder, ExitsUpTo
<1>4. Len(hist) \in Nat /\ (~Flat => Len(hist) # 0 /\ hist[Len(hist)].buy = (qty > 0))
  BY <1>2 DEF Flat
<1>5. Stands(disk.pos, trades, hist, qty)
  <2>1. disk.pos = None \/ disk.pos.fill = 0
    BY DEF Init, Initial, Legacy
  <2> QED BY <1>3, <1>4, <2>1 DEF Stands
<1>6. pc = "idle" /\ ~Opening
  BY DEF Init, Opening, Acting
<1> QED BY <1>1, <1>3, <1>4, <1>5, <1>6 DEF TripsInv

\* Up to the decision, what the driver knows is what the state file says.
LEMMA PreparationTripsInv ==
    ASSUME DriverInv, DriverInv', TripsInv,
           StartTick \/ AdoptExit \/ AdoptPosition \/ DropNeverOpened \/ Reconcile
             \/ PositionReadFails
    PROVE  TripsInv'
<1>1. UNCHANGED <<hist, qty, trades>>
  BY DEF StartTick, AdoptExit, AdoptPosition, DropNeverOpened, Reconcile,
         PositionReadFails, brokerVars, fileVars
<1>2. /\ trades \in Seq(Leg) /\ booked \in Seq(Leg) /\ mem \in State
      /\ mem.pos \in Position \union {None}
      /\ qty \in Int /\ Len(hist) \in Nat
  BY DEF DriverInv, TypeOK, BrokerTypeOK, State
<1>3. /\ InOrder(trades) /\ ExitsUpTo(trades, Len(hist)) /\ trades \o <<>> = trades
      /\ pc # "idle" /\ ~Opening => Stands(mem.pos, trades, hist, qty)
  BY <1>2, RecordedPart DEF TripsInv, Booked
<1>4. \A log : Stands(None, log, hist, qty)
  BY DEF Stands
<1>5. CASE StartTick
  <2>1. mem' = disk /\ disk' = disk /\ booked' = <<>> /\ pc' = "adoptExit"
    BY <1>5 DEF StartTick, fileVars
  <2>2. Booked' = trades
    BY <1>1, <1>3, <2>1 DEF Booked
  <2>3. ~Opening'
    BY <2>1 DEF Opening, Acting
  <2> QED BY <1>1, <1>3, <2>1, <2>2, <2>3 DEF TripsInv, Flat
<1>6. CASE AdoptExit
  <2>1. /\ booked = <<>> /\ pc' = "adoptPosition" /\ ~Opening /\ ~Opening'
        /\ mem.pos = disk.pos /\ Stands(mem.pos, Booked, hist, qty)
        /\ InOrder(Booked) /\ ExitsUpTo(Booked, Len(hist))
    BY <1>6 DEF AdoptExit, TripsInv, Opening, Acting
  <2>2. CASE UNCHANGED <<booked, mem, disk>>
    BY <1>1, <2>1, <2>2 DEF TripsInv, Flat, Booked
  <2>3. CASE ~UNCHANGED <<booked, mem, disk>>
    <3> DEFINE exit == ClosingFill(mem.pos.short)
    <3>1. /\ mem.pos # None /\ Flat /\ booked' = Settled(mem.pos, exit)
          /\ mem' = [mem EXCEPT !.pos = None] /\ disk' = mem'
      BY <1>6, <2>3 DEF AdoptExit
    <3>2. exit \in Nat /\ exit <= Len(hist)
      BY ExitsFound, FillNumbers DEF DriverInv, TypeOK
    <3>3. exit # 0 => mem.pos.fill < exit
      <4>1. mem.pos.fill \in Nat
        BY <1>2, <3>1 DEF Position
      <4>2. ASSUME mem.pos.fill # 0 PROVE mem.pos.fill < exit
        <5>1. PICK i \in DOMAIN hist : mem.pos.fill < i /\ hist[i].buy = mem.pos.short
          BY <2>1, <3>1, <4>2 DEF Stands, Flat
        <5>2. i <= exit
          BY <5>1, ExitsFound
        <5>3. i \in Nat
          <6>1. hist \in Seq(Fill)
            BY DEF DriverInv, TypeOK, BrokerTypeOK
          <6> QED BY <5>1, <6>1
        <5> HIDE DEF exit
        <5> QED BY <3>2, <4>1, <5>1, <5>2, <5>3
      <4> HIDE DEF exit
      <4> QED BY <3>2, <4>1, <4>2
    <3>4. mem'.pos = None /\ disk'.pos = None
      BY <1>2, <3>1 DEF State
    <3> HIDE DEF exit
    <3>5. <<>> \o Settled(mem.pos, exit) = Settled(mem.pos, exit)
      BY <1>2, <3>2, SettledType
    <3>6. InOrder(Booked') /\ ExitsUpTo(Booked', Len(hist))
      BY <1>1, <1>2, <2>1, <3>1, <3>2, <3>3, <3>5, SettledInOrder DEF Booked
    <3> QED BY <1>1, <1>4, <2>1, <3>4, <3>6 DEF TripsInv, Flat
  <2> QED BY <2>2, <2>3
<1>7. CASE AdoptPosition
  <2>1. /\ pc' = "drop" /\ ~Opening /\ ~Opening' /\ booked' = booked
        /\ mem.pos = disk.pos /\ Stands(mem.pos, Booked, hist, qty)
    BY <1>7 DEF AdoptPosition, TripsInv, Opening, Acting
  <2>2. CASE UNCHANGED <<mem, disk>>
    BY <1>1, <2>1, <2>2 DEF TripsInv, Flat, Booked
  <2>3. CASE ~UNCHANGED <<mem, disk>>
    <3> DEFINE adopted == [short |-> qty < 0, fill |-> EntryFill(qty < 0)]
    <3>1. ~Flat /\ mem' = [mem EXCEPT !.pos = adopted] /\ disk' = mem'
      BY <1>7, <2>3 DEF AdoptPosition
    <3>2. mem'.pos = adopted /\ disk'.pos = adopted
      BY <1>2, <3>1 DEF State
    <3>3. Len(hist) # 0 /\ hist # <<>> /\ hist[Len(hist)].buy = ~(qty < 0)
      BY <1>2, <3>1 DEF TripsInv, Flat
    <3>4. EntryFill(qty < 0) = Len(hist)
      BY <3>3, ExitsFound
    <3>5. adopted.fill = Len(hist) /\ adopted.short = (qty < 0)
      BY <3>4
    <3> HIDE DEF adopted
    <3>6. Stands(adopted, Booked, hist, qty) /\ Stands(adopted, trades, hist, qty)
      BY <1>2, <1>3, <3>1, <3>5 DEF TripsInv, Stands, Flat
    <3> QED BY <1>1, <2>1, <3>2, <3>6 DEF TripsInv, Flat, Booked
  <2> QED BY <2>2, <2>3
<1>8. CASE DropNeverOpened
  <2>1. /\ pc' = "reconcile" /\ ~Opening /\ ~Opening' /\ booked' = booked
        /\ mem.pos = disk.pos /\ Stands(mem.pos, Booked, hist, qty)
    BY <1>8 DEF DropNeverOpened, TripsInv, Opening, Acting
  <2>2. UNCHANGED <<mem, disk>> \/ (mem'.pos = None /\ disk'.pos = None)
    <3>1. [mem EXCEPT !.pos = None, !.unfilled = None].pos = None
      BY <1>2 DEF State
    <3> QED BY <1>8, <3>1 DEF DropNeverOpened
  <2> QED BY <1>1, <1>4, <2>1, <2>2 DEF TripsInv, Flat, Booked
<1>9. CASE Reconcile
  BY <1>1, <1>9 DEF Reconcile, TripsInv, Flat, Booked, Opening, Acting, fileVars, tickVars
<1>10. CASE PositionReadFails
  <2>1. pc' = "idle" /\ booked' = <<>> /\ disk' = disk /\ ~Opening'
    BY <1>10 DEF PositionReadFails, fileVars, Opening, Acting
  <2>2. Booked' = trades
    BY <1>1, <1>3, <2>1 DEF Booked
  <2> QED BY <1>1, <1>3, <2>1, <2>2 DEF TripsInv, Flat
<1> QED BY <1>5, <1>6, <1>7, <1>8, <1>9, <1>10

\* The decision opens only what the state file knows nothing of.
LEMMA DecideTripsInv ==
    ASSUME DriverInv, TripsInv, Decide
    PROVE  TripsInv'
<1>1. /\ UNCHANGED <<hist, qty, trades, booked, disk>> /\ pc = "decide" /\ pc' = "act"
      /\ at' = 1 /\ ~Opening
  BY DEF Decide, brokerVars, fileVars, Opening, Acting
<1>2. mem.pos = disk.pos /\ Stands(mem.pos, Booked, hist, qty)
  BY <1>1 DEF TripsInv
<1>3. mem.pos \in Position \union {None} /\ signal \in Signals /\ halt \in BOOLEAN
      /\ mem \in State
  BY DEF DriverInv, TypeOK, State
<1>4. PICK hit \in BOOLEAN :
        /\ mem' = [mem EXCEPT !.pos = Step(mem.pos, signal, halt, hit).pos]
        /\ intents' = Step(mem.pos, signal, halt, hit).intents
  BY DEF Decide
<1>5. \/ mem'.pos = mem.pos /\ \A k \in DOMAIN intents' : intents'[k].action # "open"
      \/ /\ mem.pos = None
         /\ 1 \in DOMAIN intents' /\ intents'[1].action = "open"
         /\ intents'[1].short = mem'.pos.short
  <2>1. mem'.pos = Step(mem.pos, signal, halt, hit).pos
    BY <1>3, <1>4 DEF State
  <2> QED BY <1>3, <1>4, <2>1, StepHolds
<1>6. \/ ~Opening' /\ mem'.pos = mem.pos
      \/ Opening' /\ disk'.pos = None /\ mem'.pos.short = Current.short'
  BY <1>1, <1>2, <1>5 DEF Opening, Acting, Current
<1> QED BY <1>1, <1>2, <1>6 DEF TripsInv, Flat, Booked

\* Past its first intent the tick decides no entry, and a position that was
\* forgotten stands anywhere.
LEMMA EntryOver ==
    ASSUME DriverInv, DriverInv', TripsInv, UNCHANGED <<hist, qty, trades, disk, booked>>,
           at >= 1, NextIntent, Stands(mem'.pos, Booked, hist, qty)
    PROVE  TripsInv'
<1>1. pc' = "act" /\ ~Opening'
  BY NothingEnters DEF Entering, Opening, NextIntent
<1> QED BY <1>1 DEF TripsInv, Flat, Booked

\* The price of an entry that filled is the newest fill of its bar.
LEMMA EntryTripsInv ==
    ASSUME DriverInv, DriverInv', PositionInv, TripsInv,
           SkipIntent \/ BeginOpen \/ SubmitRefused \/ PollEntry
    PROVE  TripsInv'
<1>1. UNCHANGED <<hist, qty, trades, disk, booked, intents, tickBar>>
  BY DEF SkipIntent, BeginOpen, SubmitRefused, PollEntry, brokerVars, fileVars
<1>2. at >= 1 /\ mem \in State /\ mem.pos \in Position \union {None}
  BY DEF DriverInv, TypeOK, State, OpensRecorded, SkipIntent, BeginOpen, SubmitRefused,
         PollEntry, Acting
<1>3. EntryRefused => Stands(mem'.pos, Booked, hist, qty)
  BY <1>2 DEF EntryRefused, State, Stands
<1>4. CASE SkipIntent
  <2>1. ~Opening /\ pc = "act"
    BY <1>4 DEF SkipIntent, Opening, Acting
  <2>2. Stands(mem'.pos, Booked, hist, qty)
    BY <1>4, <2>1 DEF SkipIntent, TripsInv
  <2> QED BY <1>1, <1>2, <1>4, <2>2, EntryOver DEF SkipIntent
<1>5. CASE BeginOpen /\ NextIntent /\ EntryRefused
  BY <1>1, <1>2, <1>3, <1>5, EntryOver
<1>6. CASE BeginOpen /\ pc' = "submit" /\ UNCHANGED <<mem, at>>
  <2>1. Opening /\ Opening' /\ Current' = Current
    BY <1>1, <1>6 DEF BeginOpen, Opening, Current
  <2> QED BY <1>1, <1>6, <2>1 DEF TripsInv, Flat, Booked
<1>7. CASE SubmitRefused
  BY <1>1, <1>2, <1>3, <1>7, EntryOver DEF SubmitRefused
<1>8. CASE PollEntry
  <2>1. \/ EntryRefused
        \/ EntryFilled(FillOfEntry(tickBar))
    BY <1>8 DEF PollEntry, PositionInv
  <2>2. ASSUME EntryFilled(FillOfEntry(tickBar))
        PROVE  Stands(mem'.pos, Booked, hist, qty)
    <3>1. PICK e \in DOMAIN hist :
            /\ hist[e].of = "entry" /\ hist[e].bar = tickBar
            /\ \A i \in DOMAIN hist : hist[i].of = "entry" => i <= e
            /\ Stands([short |-> mem.pos.short, fill |-> e], Booked, hist, qty)
      BY <1>8 DEF PollEntry, TripsInv, EntryTaken
    <3>2. FillOfEntry(tickBar) = e
      BY <3>1, ExitsFound
    <3>3. mem.pos # None
      BY <1>8 DEF PollEntry, DriverInv, OpensRecorded
    <3>4. mem'.pos = [short |-> mem.pos.short, fill |-> e]
      <4>1. mem.pos \in Position /\ mem' = [mem EXCEPT !.pos.fill = e, !.unfilled = None]
        BY <1>2, <2>2, <3>2, <3>3 DEF EntryFilled
      <4> QED BY <1>2, <4>1 DEF State, Position
    <3> QED BY <3>1, <3>4
  <2>3. Stands(mem'.pos, Booked, hist, qty)
    BY <1>3, <2>1, <2>2
  <2> QED BY <1>1, <1>2, <1>8, <2>3, EntryOver DEF PollEntry
<1> QED BY <1>4, <1>5, <1>6, <1>7, <1>8 DEF BeginOpen

\* A flat account takes the entry: its fill is the newest of all.
LEMMA SubmitTripsInv ==
    ASSUME Prompt, DriverInv, PositionInv, TripsInv, SubmitAccepted
    PROVE  TripsInv'
<1> DEFINE order == [bar |-> tickBar, short |-> Current.short]
           fill == [buy |-> ~order.short, of |-> "entry", bar |-> tickBar]
           e == Len(hist) + 1
<1>1. /\ UNCHANGED <<trades, disk, booked, intents, at, mem, tickBar>>
      /\ pc = "submit" /\ pc' = "poll"
  BY DEF SubmitAccepted, fileVars, tickVars
<1>2. /\ qty = 0 /\ qty' = qty + Towards(order.short) /\ hist' = Append(hist, fill)
  BY DEF SubmitAccepted, Filled, Prompt, PositionInv, Entering, Flat
<1>3. Current.short \in BOOLEAN /\ tickBar \in Bars /\ hist \in Seq(Fill)
  <2>1. at \in DOMAIN intents /\ intents \in Seq(Intent)
    BY <1>1 DEF DriverInv, TypeOK, OpensRecorded
  <2>2. Current \in Intent
    BY <2>1 DEF Current
  <2> QED BY <2>2 DEF DriverInv, TypeOK, BrokerTypeOK, Intent
<1>4. disk.pos = None /\ mem.pos.short = Current.short /\ Opening /\ Opening'
  BY <1>1 DEF TripsInv, Opening
<1>5. /\ qty' \in {1, -1} /\ (qty' < 0) = Current.short /\ fill.buy = (qty' > 0)
      /\ fill.of = "entry" /\ fill.bar = tickBar /\ fill \in Fill
  BY <1>2, <1>3 DEF Towards, Fill
<1> HIDE DEF fill
<1>6. /\ Len(hist') = e /\ DOMAIN hist' = 1..e /\ e \in Nat /\ e # 0 /\ hist'[e] = fill
      /\ Len(hist) <= e
  BY <1>2, <1>3, <1>5
<1> HIDE DEF e
<1>7. ExitsUpTo(Booked', e)
  <2>1. ExitsUpTo(Booked, Len(hist)) /\ Len(hist) \in Nat
    BY <1>3 DEF TripsInv
  <2>2. \A i \in DOMAIN Booked : Booked[i].exit \in Nat
    BY ExitNumbers
  <2>3. Booked' = Booked
    BY <1>1 DEF Booked
  <2> QED BY <1>6, <2>1, <2>2, <2>3 DEF ExitsUpTo
<1>8. Stands([short |-> mem.pos.short, fill |-> e], Booked', hist', qty')
  BY <1>4, <1>5, <1>6, <1>7 DEF Stands
<1>9. EntryTaken(tickBar', mem'.pos.short, Booked', hist', qty')
  BY <1>1, <1>5, <1>6, <1>8 DEF EntryTaken
<1>10. Stands(disk'.pos, trades', hist', qty')
  BY <1>1, <1>4 DEF Stands
<1> QED BY <1>1, <1>4, <1>5, <1>6, <1>7, <1>9, <1>10 DEF TripsInv, Flat, Booked, Current

\* A fill that closes what is held, while the driver does not move.
LEMMA ClosedTripsInv ==
    ASSUME DriverInv, TripsInv, NEW fill \in Fill, ~Flat, fill.buy = (qty < 0),
           fill.of # "entry", qty' = 0, hist' = Append(hist, fill),
           UNCHANGED <<trades, disk, booked, intents, at, mem, tickBar>>,
           \/ UNCHANGED pc /\ pc # "await"
           \/ pc = "liquidate" /\ pc' = "await" /\ fill.of = "close"
    PROVE  TripsInv'
<1>1. /\ hist \in Seq(Fill) /\ qty \in Int /\ qty # 0
      /\ disk.pos \in Position \union {None} /\ mem.pos \in Position \union {None}
      /\ trades \in Seq(Leg) /\ booked \in Seq(Leg)
  BY DEF DriverInv, TypeOK, BrokerTypeOK, State, Flat
<1>2. Opening' = Opening /\ Current' = Current /\ Booked' = Booked
  BY DEF Opening, Acting, Current, Booked
<1>3. Len(hist') = Len(hist) + 1 /\ Len(hist) \in Nat /\ hist'[Len(hist) + 1] = fill
  BY <1>1
<1>4. ExitsUpTo(Booked', Len(hist'))
  <2>1. \A i \in DOMAIN Booked : Booked[i].exit \in Nat
    BY ExitNumbers
  <2>2. ExitsUpTo(Booked, Len(hist))
    BY DEF TripsInv
  <2> QED BY <1>2, <1>3, <2>1, <2>2 DEF ExitsUpTo
<1>5. Stands(disk'.pos, trades', hist', qty')
  BY <1>1, StandsClosed DEF TripsInv
<1>6. pc' # "idle" /\ ~Opening' => Stands(mem'.pos, Booked', hist', qty')
  BY <1>1, <1>2, StandsClosed DEF TripsInv, Opening
<1>7. pc' = "poll" => EntryTaken(tickBar', mem'.pos.short, Booked', hist', qty')
  <2> SUFFICES ASSUME pc' = "poll"
               PROVE  EntryTaken(tickBar', mem'.pos.short, Booked', hist', qty')
    OBVIOUS
  <2>1. pc = "poll" /\ mem.pos # None
    BY DEF DriverInv, OpensRecorded
  <2>2. mem.pos.short \in BOOLEAN
    BY <1>1, <2>1 DEF Position
  <2>3. EntryTaken(tickBar, mem.pos.short, Booked, hist, qty)
    BY <2>1 DEF TripsInv
  <2> QED BY <1>1, <1>2, <2>2, <2>3, EntryTakenClosed
<1>8. pc' = "await" => Flat' /\ Len(hist') # 0 /\ hist'[Len(hist')].of = "close"
  BY <1>3 DEF Flat
<1> QED BY <1>2, <1>4, <1>5, <1>6, <1>7, <1>8 DEF TripsInv, Flat

\* Only the resting exit moves the account, and it closes what is held.
LEMMA AccountTripsInv ==
    ASSUME DriverInv, PositionInv, TripsInv, Account
    PROVE  TripsInv'
<1>1. UNCHANGED <<trades, disk, booked, intents, at, mem, tickBar, pc>>
  BY DEF Account, fileVars, tickVars
<1>2. PICK order \in legs :
        /\ qty' = qty - Towards(order.short)
        /\ hist' = Append(hist, [buy |-> order.short, of |-> "leg", bar |-> order.bar])
  BY DEF Account, AccountMoves, FillEntry, ExpireEntry, FillExit, FireLeg, PositionInv
<1> DEFINE fill == [buy |-> order.short, of |-> "leg", bar |-> order.bar]
<1>3. order \in Order /\ qty = Towards(order.short)
  BY DEF DriverInv, TypeOK, BrokerTypeOK, PositionInv
<1>4. fill \in Fill /\ fill.of # "entry" /\ fill.buy = order.short
  BY <1>3 DEF Order, Fill
<1>5. ~Flat /\ qty' = 0 /\ order.short = (qty < 0)
  BY <1>2, <1>3 DEF Order, Towards, Flat
<1>6. pc # "await"
  BY <1>5 DEF TripsInv
<1> HIDE DEF fill
<1>7. hist' = Append(hist, fill)
  BY <1>2 DEF fill
<1> QED BY <1>1, <1>4, <1>5, <1>6, <1>7, ClosedTripsInv

\* A close is settled at a fill newer than the entry, or at no fill at all.
LEMMA SettleTripsInv ==
    ASSUME DriverInv, DriverInv', TripsInv, UNCHANGED <<hist, qty, trades, disk>>,
           pc \in {"act", "cancel", "look", "liquidate", "await"}, ~Opening, at >= 1,
           NEW exit \in Nat, Settle(exit), exit <= Len(hist),
           exit # 0 /\ mem.pos # None => mem.pos.fill < exit
    PROVE  TripsInv'
<1>1. /\ trades \in Seq(Leg) /\ booked \in Seq(Leg) /\ mem \in State
      /\ mem.pos \in Position \union {None} /\ Len(hist) \in Nat
  BY DEF DriverInv, TypeOK, BrokerTypeOK, State
<1>2. Stands(mem.pos, Booked, hist, qty)
  BY DEF TripsInv
<1>3. booked' = booked \o Settled(mem.pos, exit)
      /\ mem' = [mem EXCEPT !.pos = None, !.unfilled = None] /\ NextIntent
  BY DEF Settle
<1>4. InOrder(Booked') /\ ExitsUpTo(Booked', Len(hist))
  BY <1>1, <1>2, <1>3, SettledInOrder DEF TripsInv, Booked
<1>5. pc' = "act" /\ ~Opening'
  BY <1>3, NothingEnters DEF Entering, Opening, NextIntent
<1>6. Stands(mem'.pos, Booked', hist, qty)
  BY <1>1, <1>3 DEF State, Stands
<1> QED BY <1>4, <1>5, <1>6 DEF TripsInv, Flat

LEMMA CloseTripsInv ==
    ASSUME Prompt, DriverInv, DriverInv', PositionInv, TripsInv,
           BeginClose \/ CancelOpenOrders \/ LookAtPosition \/ ClosePosition \/ AwaitClose
    PROVE  TripsInv'
<1>1. UNCHANGED <<trades, disk, intents, tickBar>>
  BY DEF BeginClose, CancelOpenOrders, LookAtPosition, ClosePosition, AwaitClose, fileVars
<1>2. /\ pc \in {"act", "cancel", "look", "liquidate", "await"} /\ ~Opening /\ at >= 1
      /\ mem.pos \in Position \union {None} /\ Len(hist) \in Nat
  <2>1. /\ pc \in {"act", "cancel", "look", "liquidate", "await"}
        /\ pc = "act" => Acting("close")
    BY DEF BeginClose, CancelOpenOrders, LookAtPosition, ClosePosition, AwaitClose,
           Acting
  <2>2. ~Opening
    BY <2>1 DEF Opening, Acting
  <2>3. at >= 1
    BY <2>1 DEF DriverInv, OpensRecorded
  <2> QED BY <2>1, <2>2, <2>3 DEF DriverInv, TypeOK, BrokerTypeOK, State
<1>3. Stands(mem.pos, Booked, hist, qty)
  BY <1>2 DEF TripsInv
<1>4. Flat /\ mem.pos # None => mem.pos.fill < Len(hist) \/ mem.pos.fill = 0
  <2> SUFFICES ASSUME Flat, mem.pos # None, mem.pos.fill # 0 PROVE mem.pos.fill < Len(hist)
    OBVIOUS
  <2>1. PICK i \in DOMAIN hist : mem.pos.fill < i
    BY <1>3 DEF Stands, Flat
  <2>2. hist \in Seq(Fill) /\ mem.pos.fill \in Nat
    BY <1>2 DEF DriverInv, TypeOK, BrokerTypeOK, Position
  <2> QED BY <2>1, <2>2
<1>5. CASE Settle(0) /\ UNCHANGED <<hist, qty>>
  BY <1>1, <1>2, <1>5, SettleTripsInv
<1>6. CASE Flat /\ Settle(Len(hist)) /\ UNCHANGED <<hist, qty>>
  <2>1. Len(hist) # 0 /\ mem.pos # None => mem.pos.fill < Len(hist)
    BY <1>2, <1>4, <1>6
  <2> QED BY <1>1, <1>2, <1>6, <2>1, SettleTripsInv
<1>7. CASE /\ UNCHANGED <<hist, qty, mem, at, booked>>
           /\ pc' \in {"cancel", "look", "liquidate"}
  <2>1. ~Opening'
    BY <1>7 DEF Opening, Acting
  <2> QED BY <1>1, <1>2, <1>3, <1>7, <2>1 DEF TripsInv, Flat, Booked
<1>8. CASE ClosePosition /\ pc' = "await"
  <2> DEFINE fill == [buy |-> qty < 0, of |-> "close", bar |-> 0]
  <2>1. /\ ~Flat /\ qty' = 0 /\ hist' = Append(hist, fill) /\ pc = "liquidate"
        /\ UNCHANGED <<mem, at, booked>>
    BY <1>8 DEF ClosePosition, Settle, NextIntent, Liquidate, Prompt
  <2>2. fill \in Fill /\ fill.buy = (qty < 0) /\ fill.of = "close"
    BY DEF Fill
  <2> HIDE DEF fill
  <2> QED BY <1>1, <1>8, <2>1, <2>2, ClosedTripsInv
<1>9. \/ Settle(0) /\ UNCHANGED <<hist, qty>>
      \/ Flat /\ Settle(Len(hist)) /\ UNCHANGED <<hist, qty>>
      \/ /\ UNCHANGED <<hist, qty, mem, at, booked>>
         /\ pc' \in {"cancel", "look", "liquidate"}
      \/ ClosePosition /\ pc' = "await"
  <2>1. CASE BeginClose
    BY <2>1 DEF BeginClose, brokerVars
  <2>2. CASE CancelOpenOrders
    BY <2>2 DEF CancelOpenOrders, brokerVars
  <2>3. CASE LookAtPosition
    BY <2>3 DEF LookAtPosition, LastFill, brokerVars
  <2>4. CASE ClosePosition
    BY <2>4 DEF ClosePosition
  <2>5. CASE AwaitClose
    <3>1. Flat /\ FillOfExit = Len(hist)
      BY <2>5, ExitsFound DEF AwaitClose, TripsInv
    <3> QED BY <2>5, <3>1 DEF AwaitClose, brokerVars
  <2> QED BY <2>1, <2>2, <2>3, <2>4, <2>5
<1> QED BY <1>5, <1>6, <1>7, <1>8, <1>9

\* The state is saved before the rows are written, and a crash loses rows that
\* no position stands on.
LEMMA AroundTheTickTripsInv ==
    ASSUME DriverInv, TripsInv, SaveState \/ RecordTick \/ NewBar \/ FlipSwitch \/ Crash
    PROVE  TripsInv'
<1>1. UNCHANGED <<hist, qty, intents, at, tickBar>>
  BY DEF SaveState, RecordTick, NewBar, FlipSwitch, Crash, brokerVars, tickVars
<1>2. trades \in Seq(Leg) /\ booked \in Seq(Leg) /\ mem \in State
  BY DEF DriverInv, TypeOK
<1>3. trades \o <<>> = trades /\ (trades \o booked) \o <<>> = trades \o booked
  BY <1>2
<1>4. CASE SaveState
  <2>1. /\ pc = "act" /\ ~Opening /\ pc' = "record" /\ ~Opening'
        /\ UNCHANGED <<trades, booked>>
    <3>1. ~Acting("open")
      <4>1. at \notin DOMAIN intents
        BY <1>4 DEF SaveState, DriverInv, TypeOK
      <4> QED BY <4>1 DEF Acting
    <3> QED BY <1>4, <3>1 DEF SaveState, Opening, Acting
  <2>2. mem'.pos = mem.pos /\ disk' = mem'
    BY <1>2, <1>4 DEF SaveState, State
  <2>3. Stands(mem.pos, trades, hist, qty) /\ Stands(mem.pos, Booked, hist, qty)
    BY <1>2, <2>1, RecordedPart DEF TripsInv, Booked
  <2> QED BY <1>1, <2>1, <2>2, <2>3 DEF TripsInv, Flat, Booked
<1>5. CASE RecordTick
  <2>1. /\ pc = "record" /\ ~Opening /\ pc' = "idle" /\ ~Opening'
        /\ trades' = Booked /\ booked' = <<>> /\ Booked' = Booked
        /\ UNCHANGED <<mem, disk>>
    BY <1>3, <1>5 DEF RecordTick, Opening, Acting, Booked
  <2>2. mem.pos = disk.pos /\ Stands(mem.pos, Booked, hist, qty)
    BY <2>1 DEF TripsInv
  <2> QED BY <1>1, <2>1, <2>2 DEF TripsInv, Flat
<1>6. CASE Crash
  <2>1. /\ pc' = "idle" /\ ~Opening' /\ booked' = <<>> /\ Booked' = trades
        /\ UNCHANGED <<trades, disk>>
    BY <1>3, <1>6 DEF Crash, fileVars, Opening, Acting, Booked
  <2>2. InOrder(trades) /\ ExitsUpTo(trades, Len(hist))
    BY <1>2, RecordedPart DEF TripsInv, Booked
  <2> QED BY <1>1, <2>1, <2>2 DEF TripsInv, Flat
<1>7. CASE NewBar \/ FlipSwitch
  BY <1>1, <1>7 DEF NewBar, FlipSwitch, TripsInv, Flat, Booked, Opening, Acting, Current,
     fileVars, tickVars
<1> QED BY <1>4, <1>5, <1>6, <1>7

LEMMA NextTripsInv ==
    ASSUME Prompt, DriverInv, DriverInv', PositionInv, TripsInv, [Next]_vars
    PROVE  TripsInv'
<1>1. CASE Next
  BY <1>1, PreparationTripsInv, DecideTripsInv, EntryTripsInv, SubmitTripsInv,
     CloseTripsInv, AccountTripsInv, AroundTheTickTripsInv DEF Next, Tick
<1>2. CASE UNCHANGED vars
  BY <1>2 DEF vars, brokerVars, fileVars, tickVars, envVars, TripsInv, Flat, Booked,
              Opening, Acting, Current
<1> QED BY <1>1, <1>2

\* Of an account that answers an order or a cancellation at once, every row of
\* the trade log pairs an entry with a later exit, and each round trip begins
\* no earlier than the last one ended: no exit is booked twice, whatever was
\* adopted, lost or decided again after a crash (adopt_broker_exit,
\* adopt_broker_position).
THEOREM TradesAreRoundTrips == Prompt => (Spec => []RoundTripsInOrder)
<1>1. TripsInv => RoundTripsInOrder
  BY DEF TripsInv, InOrder, RoundTripsInOrder
<1>2. Prompt /\ DriverInv /\ DriverInv' /\ PositionInv /\ [Next]_vars => PositionInv'
  BY NextPositionInv
<1>3. Prompt /\ DriverInv /\ DriverInv' /\ PositionInv /\ TripsInv /\ [Next]_vars => TripsInv'
  BY NextTripsInv
<1>4. Prompt => Prompt'
  BY DEF Prompt
<1> QED BY <1>1, <1>2, <1>3, <1>4, InitPositionInv, InitTripsInv, DriverInvariant, PTL DEF Spec

-----------------------------------------------------------------------------
(***************************************************************************)
(* The state file never wedges the bot.  A position is closed by a fill    *)
(* newer than its entry, and one whose entry has no fill is marked as      *)
(* unfilled, so what is proved besides is that nothing else reaches the    *)
(* state file without a price.                                             *)
(***************************************************************************)

Priced(s) == s.pos # None /\ s.pos.fill = 0 => s.unfilled # None

PricedInv ==
    /\ Priced(disk)
    /\ pc # "idle" /\ ~Opening => Priced(mem)

\* Whatever the account holds was bought, or sold short, by a fill of its history.
Bought == ~Flat => EntryFill(qty < 0) # 0

LEMMA TripsBought == DriverInv /\ TripsInv => Bought
<1> SUFFICES ASSUME DriverInv, TripsInv, ~Flat PROVE EntryFill(qty < 0) # 0
  BY DEF Bought
<1>1. Len(hist) # 0 /\ hist[Len(hist)].buy = (qty > 0)
  BY DEF TripsInv
<1>2. hist # <<>> /\ hist[Len(hist)].buy = ~(qty < 0)
  BY <1>1 DEF DriverInv, TypeOK, BrokerTypeOK, Flat
<1> QED BY <1>1, <1>2, ExitsFound

LEMMA InitPricedInv == Init => PricedInv
<1> SUFFICES ASSUME Init PROVE PricedInv
  OBVIOUS
<1>1. Priced(Initial) /\ Priced(Legacy(FALSE))
  BY DriverAssumption DEF Priced, Initial, Legacy
<1>2. disk \in {Initial, Legacy(FALSE)} /\ pc = "idle"
  BY DEF Init
<1> QED BY <1>1, <1>2 DEF PricedInv

\* What an entry leaves behind, however it came back.
LEMMA EntryPriced ==
    ASSUME mem \in State
    PROVE  /\ EntryRefused => Priced(mem')
           /\ EntryUnfilled => Priced(mem')
           /\ \A fill \in Nat : mem.pos # None /\ fill # 0 /\ EntryFilled(fill) => Priced(mem')
           /\ \A exit : Settle(exit) => Priced(mem')
<1>1. EntryRefused => Priced(mem')
  BY DEF EntryRefused, State, Priced
<1>2. EntryUnfilled => Priced(mem')
  BY DriverAssumption DEF EntryUnfilled, State, Priced
<1>3. ASSUME NEW fill \in Nat, mem.pos # None, fill # 0, EntryFilled(fill)
      PROVE  Priced(mem')
  <2>1. mem.pos \in Position /\ mem' = [mem EXCEPT !.pos.fill = fill, !.unfilled = None]
    BY <1>3 DEF EntryFilled, State
  <2>2. mem'.pos.fill = fill
    BY <2>1 DEF State, Position
  <2> QED BY <1>3, <2>2 DEF Priced
<1>4. ASSUME NEW exit, Settle(exit) PROVE Priced(mem')
  BY <1>4 DEF Settle, State, Priced
<1> QED BY <1>1, <1>2, <1>3, <1>4

LEMMA PreparationPricedInv ==
    ASSUME DriverInv, PricedInv, Bought,
           StartTick \/ AdoptExit \/ AdoptPosition \/ DropNeverOpened \/ Reconcile
             \/ PositionReadFails \/ Decide
    PROVE  PricedInv'
<1>1. mem \in State /\ disk \in State /\ mem.pos \in Position \union {None}
  BY DEF DriverInv, TypeOK, State
<1>2. /\ Priced(disk)
      /\ pc \in {"adoptExit", "adoptPosition", "drop", "reconcile", "decide"} => Priced(mem)
  BY DEF PricedInv, Opening, Acting
<1>3. CASE StartTick
  BY <1>2, <1>3 DEF StartTick, PricedInv, fileVars
<1>4. CASE AdoptExit
  <2>1. Priced([mem EXCEPT !.pos = None])
    BY <1>1 DEF State, Priced
  <2> QED BY <1>2, <1>4, <2>1 DEF AdoptExit, PricedInv
<1>5. CASE AdoptPosition
  <2> DEFINE adopted == [short |-> qty < 0, fill |-> EntryFill(qty < 0)]
  <2>1. CASE UNCHANGED <<mem, disk>>
    BY <1>2, <1>5, <2>1 DEF AdoptPosition, PricedInv
  <2>2. CASE ~UNCHANGED <<mem, disk>>
    <3>1. ~Flat /\ mem' = [mem EXCEPT !.pos = adopted] /\ disk' = mem'
      BY <1>5, <2>2 DEF AdoptPosition
    <3>2. adopted.fill # 0
      BY <3>1 DEF Bought
    <3> HIDE DEF adopted
    <3>3. Priced(mem')
      BY <1>1, <3>1, <3>2 DEF State, Priced
    <3> QED BY <3>1, <3>3 DEF PricedInv
  <2> QED BY <2>1, <2>2
<1>6. CASE DropNeverOpened
  <2>1. Priced([mem EXCEPT !.pos = None, !.unfilled = None])
    BY <1>1 DEF State, Priced
  <2> QED BY <1>2, <1>6, <2>1 DEF DropNeverOpened, PricedInv
<1>7. CASE Reconcile
  BY <1>2, <1>7 DEF Reconcile, PricedInv, fileVars, tickVars
<1>8. CASE PositionReadFails
  BY <1>2, <1>8 DEF PositionReadFails, PricedInv, fileVars
<1>9. CASE Decide
  <2>1. signal \in Signals /\ halt \in BOOLEAN
    BY DEF DriverInv, TypeOK
  <2>2. PICK hit \in BOOLEAN :
          /\ mem' = [mem EXCEPT !.pos = Step(mem.pos, signal, halt, hit).pos]
          /\ intents' = Step(mem.pos, signal, halt, hit).intents
    BY <1>9 DEF Decide
  <2>3. \/ mem'.pos = mem.pos
        \/ 1 \in DOMAIN intents' /\ intents'[1].action = "open"
    <3>1. mem'.pos = Step(mem.pos, signal, halt, hit).pos
      BY <1>1, <2>2 DEF State
    <3> QED BY <1>1, <2>1, <2>2, <3>1, StepHolds
  <2>4. mem'.unfilled = mem.unfilled
    BY <1>1, <2>2 DEF State
  <2>5. /\ pc = "decide" /\ pc' = "act" /\ at' = 1 /\ disk' = disk
    BY <1>9 DEF Decide, fileVars
  <2> QED BY <1>2, <2>3, <2>4, <2>5 DEF PricedInv, Priced, Opening, Acting, Current
<1> QED BY <1>3, <1>4, <1>5, <1>6, <1>7, <1>8, <1>9

LEMMA NextPricedInv ==
    ASSUME DriverInv, PricedInv, Bought, [Next]_vars
    PROVE  PricedInv'
<1>1. mem \in State /\ disk \in State
  BY DEF DriverInv, TypeOK
<1>2. CASE SkipIntent \/ BeginOpen \/ SubmitRefused \/ PollEntry
  <2>1. UNCHANGED disk
    BY <1>2 DEF SkipIntent, BeginOpen, SubmitRefused, PollEntry, fileVars
  <2>2. CASE SkipIntent
    <3>1. ~Opening /\ pc = "act" /\ mem' = mem
      BY <2>2 DEF SkipIntent, Opening, Acting
    <3> QED BY <2>1, <3>1 DEF PricedInv
  <2>3. CASE BeginOpen
    BY <1>1, <2>1, <2>3, EntryPriced DEF BeginOpen, PricedInv, Opening
  <2>4. CASE SubmitRefused
    BY <1>1, <2>1, <2>4, EntryPriced DEF SubmitRefused, PricedInv
  <2>5. CASE PollEntry
    <3>1. mem.pos # None
      BY <2>5 DEF PollEntry, DriverInv, OpensRecorded
    <3>2. FillOfEntry(tickBar) \in Nat
      BY FillNumbers DEF DriverInv, TypeOK
    <3>3. \/ EntryRefused \/ EntryUnfilled
          \/ FillOfEntry(tickBar) # 0 /\ EntryFilled(FillOfEntry(tickBar))
      BY <2>5 DEF PollEntry
    <3> QED BY <1>1, <2>1, <3>1, <3>2, <3>3, EntryPriced DEF PricedInv
  <2> QED BY <1>2, <2>2, <2>3, <2>4, <2>5
<1>3. CASE SubmitAccepted
  BY <1>3 DEF SubmitAccepted, PricedInv, Opening, fileVars, tickVars
<1>4. CASE BeginClose \/ CancelOpenOrders \/ LookAtPosition \/ ClosePosition \/ AwaitClose
  <2>1. UNCHANGED disk /\ (\/ mem' = mem /\ pc \in {"act", "cancel", "look", "liquidate"}
                          \/ \E exit : Settle(exit))
    BY <1>4 DEF BeginClose, CancelOpenOrders, LookAtPosition, ClosePosition, AwaitClose,
       fileVars, Acting
  <2>2. pc \in {"act", "cancel", "look", "liquidate", "await"} /\ ~Opening
    BY <1>4 DEF BeginClose, CancelOpenOrders, LookAtPosition, ClosePosition, AwaitClose,
       Opening, Acting
  <2> QED BY <1>1, <2>1, <2>2, EntryPriced DEF PricedInv
<1>5. CASE SaveState
  <2>1. at \notin DOMAIN intents /\ pc = "act"
    BY <1>5 DEF SaveState, DriverInv, TypeOK
  <2>2. mem'.pos = mem.pos /\ mem'.unfilled = mem.unfilled /\ disk' = mem'
    BY <1>1, <1>5 DEF SaveState, State
  <2>3. Priced(mem)
    BY <2>1 DEF PricedInv, Opening, Acting
  <2> QED BY <2>2, <2>3 DEF PricedInv, Priced
<1>6. CASE RecordTick \/ Crash
  BY <1>6 DEF RecordTick, Crash, PricedInv, fileVars
<1>7. CASE NewBar \/ FlipSwitch \/ Account \/ UNCHANGED vars
  <2>1. UNCHANGED <<disk, mem, pc, intents, at>>
    BY <1>7 DEF NewBar, FlipSwitch, Account, vars, fileVars, tickVars
  <2> QED BY <2>1 DEF PricedInv, Opening, Acting, Current
<1> QED BY <1>2, <1>3, <1>4, <1>5, <1>6, <1>7, PreparationPricedInv DEF Next, Tick

\* Of an account that answers an order or a cancellation at once, what the
\* state file calls a position is held, or a newer fill shows what closed it,
\* or the entry is marked as unfilled: the next tick can take up one or the
\* other, and no refusal lasts for ever (reconcile, adopt_broker_exit).
THEOREM NeverWedgedAtOnce == Prompt => (Spec => []NeverWedged)
<1>1. DriverInv /\ TripsInv => Bought
  BY TripsBought
<1>2. DriverInv /\ TripsInv /\ PricedInv => NeverWedged
  <2> SUFFICES ASSUME DriverInv, TripsInv, PricedInv, disk.pos # None, Flat,
                      disk.unfilled = None
               PROVE  disk.pos.fill < ClosingFill(disk.pos.short)
    BY DEF NeverWedged
  <2>1. disk.pos.fill # 0
    BY DEF PricedInv, Priced
  <2>2. PICK i \in DOMAIN hist : disk.pos.fill < i /\ hist[i].buy = disk.pos.short
    BY <2>1 DEF TripsInv, Stands, Flat
  <2>3. i <= ClosingFill(disk.pos.short) /\ ClosingFill(disk.pos.short) \in Nat
    BY <2>2, ExitsFound, FillNumbers DEF DriverInv, TypeOK
  <2>4. i \in Nat /\ disk.pos.fill \in Nat
    BY DEF DriverInv, TypeOK, BrokerTypeOK, State, Position
  <2> QED BY <2>2, <2>3, <2>4
<1>3. DriverInv /\ PricedInv /\ Bought /\ [Next]_vars => PricedInv'
  BY NextPricedInv
<1>4. Prompt /\ DriverInv /\ DriverInv' /\ PositionInv /\ [Next]_vars => PositionInv'
  BY NextPositionInv
<1>5. Prompt /\ DriverInv /\ DriverInv' /\ PositionInv /\ TripsInv /\ [Next]_vars => TripsInv'
  BY NextTripsInv
<1>6. Prompt => Prompt'
  BY DEF Prompt
<1> QED BY <1>1, <1>2, <1>3, <1>4, <1>5, <1>6, InitPositionInv, InitTripsInv, InitPricedInv,
           DriverInvariant, PTL DEF Spec

-----------------------------------------------------------------------------
(***************************************************************************)
(* Nor does it where an order may still be working when polling gives up,  *)
(* as long as the strategy is long only and what is cancelled is gone: the *)
(* account is then never short, for every exit that rests at it guards an  *)
(* entry of its own, so whatever empties it is a sale, newer than all.     *)
(***************************************************************************)

LongOnly == AllowShort = FALSE /\ "cancel" \notin Faults

\* A history of entries bought and exits sold.
LongBook(fills, held) ==
    /\ \A i \in DOMAIN fills : fills[i].of = "entry" => fills[i].buy
    /\ held # 0 => \E i \in DOMAIN fills : fills[i].buy
    /\ held = 0 /\ fills # <<>> => ~fills[Len(fills)].buy

\* A position that a purchase of the history opened, or none has yet.
LongPosition(pos, fills) ==
    pos # None =>
        /\ ~pos.short
        /\ pos.fill # 0 => pos.fill \in DOMAIN fills /\ fills[pos.fill].buy

\* A close cancels what rests before it liquidates, and a liquidation still
\* working has the position to itself.
LongInv ==
    /\ IsFiniteSet(legs) /\ Cardinality(legs) <= qty
    /\ \A order \in legs \union working : ~order.short
    /\ LongBook(hist, qty)
    /\ LongPosition(disk.pos, hist) /\ LongPosition(mem.pos, hist)
    /\ exitOrder = "working" => legs = {} /\ working = {} /\ ~Flat
    /\ pc \in {"look", "liquidate", "await"} => legs = {} /\ working = {}
    /\ pc = "decide" /\ mem.pos = None => exitOrder # "working"
    /\ Opening => exitOrder # "working" /\ ~Current.short

LEMMA InitLongInv == LongOnly /\ Init => LongInv
<1> SUFFICES ASSUME LongOnly, Init PROVE LongInv
  OBVIOUS
<1>1. PICK held \in {0, 1} :
        /\ qty = held
        /\ hist = IF held = 0 THEN <<>>
                  ELSE <<[buy |-> held > 0, of |-> "entry", bar |-> 0]>>
  BY DEF Init, LongOnly
<1>2. LongBook(hist, qty)
  <2>1. CASE held = 0
    BY <1>1, <2>1 DEF LongBook
  <2>2. CASE held = 1
    <3>1. hist = <<[buy |-> TRUE, of |-> "entry", bar |-> 0]>> /\ qty = 1
      <4>1. (held > 0) = TRUE /\ held # 0
        BY <2>2
      <4> QED BY <1>1, <2>2, <4>1
    <3>2. DOMAIN hist = {1} /\ hist[1].buy = TRUE
      BY <3>1
    <3> QED BY <3>1, <3>2 DEF LongBook
  <2> QED BY <2>1, <2>2
<1>3. IsFiniteSet(legs) /\ Cardinality(legs) <= qty
  BY <1>1, FS_EmptySet DEF Init
<1>4. LongPosition(disk.pos, hist) /\ LongPosition(mem.pos, hist)
  BY DEF Init, Initial, Legacy, LongPosition
<1>5. pc = "idle" /\ ~Opening
  BY DEF Init, Opening, Acting
<1> QED BY <1>2, <1>3, <1>4, <1>5 DEF Init, LongInv

\* One more fill: a purchase, or the sale of what was held.
LEMMA LongBookGrows ==
    ASSUME NEW fills \in Seq(Fill), NEW held, LongBook(fills, held),
           NEW fill \in Fill, NEW left,
           fill.of = "entry" => fill.buy,
           left # 0 => held # 0 \/ fill.buy,
           left = 0 => ~fill.buy
    PROVE  LongBook(Append(fills, fill), left)
<1> DEFINE more == Append(fills, fill)
<1>1. /\ DOMAIN more = 1..(Len(fills) + 1) /\ DOMAIN fills = 1..Len(fills)
      /\ Len(fills) \in Nat /\ Len(more) = Len(fills) + 1
      /\ \A i \in DOMAIN fills : more[i] = fills[i]
      /\ more[Len(fills) + 1] = fill
  OBVIOUS
<1> HIDE DEF more
<1>2. \A i \in DOMAIN more : more[i].of = "entry" => more[i].buy
  BY <1>1 DEF LongBook
<1>3. left # 0 => \E i \in DOMAIN more : more[i].buy
  <2>1. Len(fills) + 1 \in DOMAIN more /\ DOMAIN fills \subseteq DOMAIN more
    BY <1>1
  <2>2. CASE fill.buy
    BY <1>1, <2>1, <2>2
  <2>3. CASE held # 0
    BY <1>1, <2>1, <2>3, Zenon DEF LongBook
  <2> QED BY <2>2, <2>3
<1>4. left = 0 => ~more[Len(more)].buy
  BY <1>1
<1> QED BY <1>2, <1>3, <1>4 DEF LongBook, more

LEMMA LongPositionStays ==
    ASSUME NEW fills \in Seq(Fill), NEW fill \in Fill, NEW pos, LongPosition(pos, fills)
    PROVE  LongPosition(pos, Append(fills, fill))
<1>1. \A i \in DOMAIN fills : i \in DOMAIN Append(fills, fill) /\ Append(fills, fill)[i] = fills[i]
  OBVIOUS
<1> QED BY <1>1 DEF LongPosition

\* The steps that fill an order, while the driver's position stays what it was.
LEMMA LongFill ==
    ASSUME DriverInv, DriverInv', LongInv, NEW fill \in Fill, hist' = Append(hist, fill),
           fill.of = "entry" => fill.buy, qty' # 0 => ~Flat \/ fill.buy, qty' = 0 => ~fill.buy,
           UNCHANGED <<mem, disk>>
    PROVE  LongBook(hist, qty)' /\ LongPosition(disk.pos, hist)' /\ LongPosition(mem.pos, hist)'
<1>1. hist \in Seq(Fill)
  BY DEF DriverInv, TypeOK, BrokerTypeOK
<1>2. LongBook(Append(hist, fill), qty')
  BY <1>1, LongBookGrows DEF LongInv, Flat
<1>3. \A pos : LongPosition(pos, hist) => LongPosition(pos, Append(hist, fill))
  BY <1>1, LongPositionStays
<1> QED BY <1>2, <1>3 DEF LongInv

\* A long entry fills: one more is held, and at most one more exit rests.
LEMMA LongFilled ==
    ASSUME DriverInv, DriverInv', LongInv, NEW order \in Order, ~order.short, Filled(order),
           UNCHANGED <<mem, disk>>
    PROVE  /\ IsFiniteSet(legs') /\ Cardinality(legs') <= qty' /\ ~Flat'
           /\ \A other \in legs' : ~other.short
           /\ LongBook(hist, qty)' /\ LongPosition(disk.pos, hist)' /\ LongPosition(mem.pos, hist)'
<1> DEFINE fill == [buy |-> ~order.short, of |-> "entry", bar |-> order.bar]
<1>1. fill \in Fill /\ fill.buy /\ hist' = Append(hist, fill)
  BY DEF Filled, Fill, Order
<1>2. IsFiniteSet(legs) /\ Cardinality(legs) \in Nat /\ qty \in Int /\ Cardinality(legs) <= qty
  BY FS_CardinalityType DEF LongInv, DriverInv, TypeOK, BrokerTypeOK
<1>3. qty' = qty + 1 /\ ~Flat'
  BY <1>2 DEF Filled, Towards, Flat
<1>4. legs' \in {legs, legs \union {order}}
  BY DEF Filled, Rests
<1>5. IsFiniteSet(legs') /\ Cardinality(legs') <= Cardinality(legs) + 1
      /\ Cardinality(legs') \in Nat
  <2>1. IsFiniteSet(legs \union {order})
        /\ Cardinality(legs \union {order}) =
             IF order \in legs THEN Cardinality(legs) ELSE Cardinality(legs) + 1
    BY <1>2, FS_AddElement
  <2> QED BY <1>2, <1>4, <2>1
<1>6. \A other \in legs' : ~other.short
  BY <1>4 DEF LongInv
<1> HIDE DEF fill
<1>7. LongBook(hist, qty)' /\ LongPosition(disk.pos, hist)' /\ LongPosition(mem.pos, hist)'
  BY <1>1, <1>3, LongFill DEF Flat
<1> QED BY <1>2, <1>3, <1>5, <1>6, <1>7

\* The liquidation sells what is left, and nothing is.
LEMMA LongLiquidated ==
    ASSUME DriverInv, DriverInv', LongInv, ~Flat, legs = {}, legs' = {}, Liquidate,
           UNCHANGED <<mem, disk>>
    PROVE  /\ IsFiniteSet(legs') /\ Cardinality(legs') <= qty'
           /\ LongBook(hist, qty)' /\ LongPosition(disk.pos, hist)' /\ LongPosition(mem.pos, hist)'
<1> DEFINE fill == [buy |-> qty < 0, of |-> "close", bar |-> 0]
<1>1. qty \in Int /\ Cardinality({}) = 0 /\ IsFiniteSet({}) /\ 0 <= qty
  BY FS_EmptySet DEF LongInv, DriverInv, TypeOK, BrokerTypeOK
<1>2. fill \in Fill /\ ~fill.buy /\ fill.of # "entry"
  <2>1. (qty < 0) = FALSE
    BY <1>1
  <2>2. fill = [buy |-> FALSE, of |-> "close", bar |-> 0]
    BY <2>1
  <2> QED BY <2>2 DEF Fill
<1>3. qty' = 0 /\ hist' = Append(hist, fill)
  BY DEF Liquidate
<1> HIDE DEF fill
<1>4. LongBook(hist, qty)' /\ LongPosition(disk.pos, hist)' /\ LongPosition(mem.pos, hist)'
  BY <1>2, <1>3, LongFill
<1> QED BY <1>1, <1>3, <1>4

\* The steps that ask the account and change nothing at it.
LEMMA LongKept ==
    ASSUME LongInv, UNCHANGED brokerVars,
           LongPosition(disk'.pos, hist), LongPosition(mem'.pos, hist),
           pc' \in {"look", "liquidate", "await"} => legs = {} /\ working = {},
           pc' = "decide" /\ mem'.pos = None => exitOrder # "working",
           Opening' => exitOrder # "working" /\ ~Current.short'
    PROVE  LongInv'
BY DEF LongInv, brokerVars, Flat

LEMMA LongKnown ==
    ASSUME LongInv, DriverInv
    PROVE  /\ mem \in State /\ disk \in State /\ mem.pos \in Position \union {None}
           /\ LongPosition(disk.pos, hist) /\ LongPosition(mem.pos, hist)
           /\ LongPosition(None, hist)
           /\ hist \in Seq(Fill) /\ qty \in Int /\ 0 <= qty
<1>1. Cardinality(legs) \in Nat /\ Cardinality(legs) <= qty
  BY FS_CardinalityType DEF LongInv
<1> QED BY <1>1 DEF LongInv, DriverInv, TypeOK, BrokerTypeOK, State, LongPosition

\* What is held was bought.
LEMMA LongBought ==
    ASSUME LongInv, DriverInv, ~Flat
    PROVE  /\ (qty < 0) = FALSE
           /\ EntryFill(qty < 0) # 0
           /\ LongPosition([short |-> FALSE, fill |-> EntryFill(FALSE)], hist)
<1> DEFINE S == {i \in DOMAIN hist : hist[i].buy = ~FALSE}
<1>1. (qty < 0) = FALSE
  BY LongKnown
<1>2. DOMAIN hist = 1..Len(hist) /\ Len(hist) \in Nat
  BY LongKnown
<1>3. S # {} /\ S \in SUBSET (1..Len(hist))
  BY <1>2 DEF LongInv, LongBook, Flat
<1>4. Newest(S) \in S
  <2>1. \E i \in S : \A j \in S : j <= i
    <3>1. S \in SUBSET (0..Len(hist))
      BY <1>3
    <3> HIDE DEF S
    <3> QED BY <1>2, <1>3, <3>1, GreatestElement
  <2> HIDE DEF S
  <2> QED BY <1>3, <2>1, Zenon DEF Newest
<1>5. EntryFill(FALSE) \in S
  BY <1>4 DEF EntryFill
<1>6. EntryFill(FALSE) \in DOMAIN hist /\ hist[EntryFill(FALSE)].buy
  BY <1>5
<1>7. EntryFill(FALSE) # 0
  <2>1. \A i \in DOMAIN hist : i # 0
    BY <1>2
  <2> QED BY <1>6, <2>1, Zenon
<1>8. EntryFill(qty < 0) # 0
  BY <1>1, <1>7, Zenon
<1> DEFINE pos == [short |-> FALSE, fill |-> EntryFill(FALSE)]
<1>9. pos.short = FALSE /\ pos.fill = EntryFill(FALSE)
  OBVIOUS
<1> HIDE DEF pos
<1>10. LongPosition(pos, hist)
  BY <1>6, <1>9 DEF LongPosition
<1> QED BY <1>1, <1>8, <1>10 DEF pos

LEMMA StepBuys ==
    ASSUME AllowShort = FALSE, NEW sig, NEW veto, NEW hit
    PROVE  Step(None, sig, veto, hit).pos # None => ~Step(None, sig, veto, hit).pos.short
                                                   /\ Step(None, sig, veto, hit).pos.fill = 0
<1>1. CASE Wants(sig) = {}
  BY <1>1 DEF Step
<1>2. CASE Wants(sig) # {}
  <2>1. (CHOOSE s \in Wants(sig) : TRUE) = FALSE
    BY <1>2 DEF Wants
  <2> QED BY <1>2, <2>1 DEF Step
<1> QED BY <1>1, <1>2

LEMMA LongPreparation ==
    ASSUME LongOnly, DriverInv, DriverInv', LongInv,
           StartTick \/ AdoptExit \/ AdoptPosition \/ DropNeverOpened \/ Reconcile
             \/ PositionReadFails \/ Decide
    PROVE  LongInv'
<1>1. UNCHANGED brokerVars
  BY DEF StartTick, AdoptExit, AdoptPosition, DropNeverOpened, Reconcile,
         PositionReadFails, Decide
<1>2. pc' \notin {"look", "liquidate", "await"}
  BY DEF StartTick, AdoptExit, AdoptPosition, DropNeverOpened, Reconcile,
         PositionReadFails, Decide
<1>3. CASE StartTick \/ AdoptExit \/ DropNeverOpened \/ PositionReadFails
  <2>1. ~Opening' /\ pc' # "decide"
    BY <1>3 DEF StartTick, AdoptExit, DropNeverOpened, PositionReadFails, Opening, Acting
  <2>2. /\ [mem EXCEPT !.pos = None].pos = None
        /\ [mem EXCEPT !.pos = None, !.unfilled = None].pos = None
    BY LongKnown DEF State
  <2>3. mem'.pos \in {mem.pos, disk.pos, None} /\ disk'.pos \in {disk.pos, None}
    BY <1>3, <2>2 DEF StartTick, AdoptExit, DropNeverOpened, PositionReadFails, fileVars
  <2>4. LongPosition(mem'.pos, hist) /\ LongPosition(disk'.pos, hist)
    BY <2>3, LongKnown
  <2> QED BY <1>1, <1>2, <2>1, <2>4, LongKept
<1>4. CASE AdoptPosition
  <2>1. ~Opening' /\ pc' # "decide"
    BY <1>4 DEF AdoptPosition, Opening, Acting
  <2>2. LongPosition(mem'.pos, hist) /\ LongPosition(disk'.pos, hist)
    <3>1. CASE UNCHANGED <<mem, disk>>
      BY <3>1, LongKnown
    <3>2. CASE ~UNCHANGED <<mem, disk>>
      <4> DEFINE adopted == [short |-> FALSE, fill |-> EntryFill(FALSE)]
      <4>1. ~Flat /\ mem' = [mem EXCEPT !.pos = [short |-> qty < 0, fill |-> EntryFill(qty < 0)]]
            /\ disk' = mem'
        BY <1>4, <3>2 DEF AdoptPosition
      <4>2. mem' = [mem EXCEPT !.pos = adopted]
        BY <4>1, LongBought
      <4>3. LongPosition(adopted, hist)
        BY <4>1, LongBought
      <4> HIDE DEF adopted
      <4>4. mem'.pos = adopted
        BY <4>2, LongKnown DEF State
      <4> QED BY <4>1, <4>3, <4>4
    <3> QED BY <3>1, <3>2
  <2> QED BY <1>1, <1>2, <2>1, <2>2, LongKept
<1>5. CASE Reconcile
  <2>1. ~Opening' /\ UNCHANGED <<mem, disk>>
    BY <1>5 DEF Reconcile, Opening, Acting, fileVars, tickVars
  <2>2. pc' = "decide" /\ mem.pos = None => exitOrder # "working"
    BY <1>5 DEF Reconcile, Mismatch, LongInv
  <2> QED BY <1>1, <1>2, <2>1, <2>2, LongKnown, LongKept
<1>6. CASE Decide
  <2>1. PICK hit \in BOOLEAN :
          /\ mem' = [mem EXCEPT !.pos = Step(mem.pos, signal, halt, hit).pos]
          /\ intents' = Step(mem.pos, signal, halt, hit).intents
    BY <1>6 DEF Decide
  <2>2. pc = "decide" /\ pc' = "act" /\ at' = 1 /\ disk' = disk
    BY <1>6 DEF Decide, fileVars
  <2>3. mem'.pos = Step(mem.pos, signal, halt, hit).pos
    BY <2>1, LongKnown DEF State
  <2>4. signal \in Signals /\ halt \in BOOLEAN
    BY DEF DriverInv, TypeOK
  <2>5. \/ mem'.pos = mem.pos /\ \A k \in DOMAIN intents' : intents'[k].action # "open"
        \/ mem.pos = None /\ mem'.pos # None /\ intents'[1].short = mem'.pos.short
    <3>1. mem.pos \in Position \union {None}
      BY LongKnown
    <3> QED BY <2>1, <2>3, <2>4, <3>1, StepHolds
  <2>6. CASE mem'.pos = mem.pos /\ \A k \in DOMAIN intents' : intents'[k].action # "open"
    <3>1. ~Opening'
      BY <2>2, <2>6 DEF Opening, Acting, Current
    <3> QED BY <1>1, <2>2, <2>6, <3>1, LongKnown, LongKept
  <2>7. CASE mem.pos = None /\ mem'.pos # None /\ intents'[1].short = mem'.pos.short
    <3>1. ~mem'.pos.short /\ mem'.pos.fill = 0
      BY <2>3, <2>7, StepBuys DEF LongOnly
    <3>2. LongPosition(mem'.pos, hist)
      BY <3>1 DEF LongPosition
    <3>3. exitOrder # "working" /\ ~Current.short'
      BY <2>2, <2>7, <3>1 DEF LongInv, Current
    <3> QED BY <1>1, <2>2, <3>2, <3>3, LongKnown, LongKept
  <2> QED BY <2>5, <2>6, <2>7
<1> QED BY <1>3, <1>4, <1>5, <1>6

LEMMA LongEntry ==
    ASSUME LongOnly, DriverInv, DriverInv', LongInv,
           SkipIntent \/ BeginOpen \/ SubmitAccepted \/ SubmitRefused \/ PollEntry
    PROVE  LongInv'
<1>1. /\ at >= 1 /\ disk' = disk /\ intents' = intents
      /\ pc \in {"act", "submit", "poll"}
  BY DEF DriverInv, OpensRecorded, SkipIntent, BeginOpen, SubmitAccepted,
         SubmitRefused, PollEntry, Acting, fileVars, tickVars
<1>2. CASE SubmitAccepted
  <2> DEFINE order == [bar |-> tickBar, short |-> Current.short]
  <2>1. /\ exitOrder # "working" /\ UNCHANGED <<exitOrder, mem, disk, at>> /\ pc' = "poll"
        /\ ~Current.short /\ Opening' /\ Current' = Current
    BY <1>1, <1>2 DEF SubmitAccepted, LongInv, Opening, fileVars, tickVars, Current
  <2>2. order \in Order /\ ~order.short
    <3>1. at \in DOMAIN intents /\ intents \in Seq(Intent) /\ tickBar \in Bars
      BY <1>2 DEF SubmitAccepted, DriverInv, TypeOK, OpensRecorded
    <3>2. Current \in Intent
      BY <3>1 DEF Current
    <3> QED BY <2>1, <3>1, <3>2 DEF Intent, Order
  <2>3. \/ Filled(order) /\ working' = working
        \/ working' = working \union {order} /\ UNCHANGED <<qty, hist, legs>>
    BY <1>2 DEF SubmitAccepted
  <2> HIDE DEF order
  <2>4. CASE Filled(order) /\ working' = working
    BY <2>1, <2>2, <2>4, LongFilled DEF LongInv
  <2>5. CASE working' = working \union {order} /\ UNCHANGED <<qty, hist, legs>>
    BY <2>1, <2>2, <2>5 DEF LongInv
  <2> QED BY <2>3, <2>4, <2>5
<1>3. CASE BeginOpen /\ pc' = "submit"
  <2>1. Opening /\ UNCHANGED <<mem, at, brokerVars>>
    BY <1>3 DEF BeginOpen, NextIntent, Opening
  <2> QED BY <1>1, <1>3, <2>1, LongKnown, LongKept DEF LongInv, Current
<1>4. CASE NextIntent /\ UNCHANGED brokerVars /\ (SkipIntent \/ EntryRefused \/ EntryUnfilled
           \/ (PollEntry /\ EntryFilled(FillOfEntry(tickBar)) /\ FillOfEntry(tickBar) # 0))
  <2>1. pc' = "act" /\ ~Opening'
    BY <1>1, <1>4, NothingEnters DEF Entering, Opening, NextIntent
  <2>2. LongPosition(mem'.pos, hist)
    <3>1. CASE SkipIntent
      BY <3>1, LongKnown DEF SkipIntent
    <3>2. CASE EntryRefused
      <4>1. mem'.pos = None
        BY <3>2, LongKnown DEF EntryRefused, State
      <4> QED BY <4>1, LongKnown
    <3>3. CASE EntryUnfilled
      <4>1. mem'.pos = mem.pos
        BY <3>3, LongKnown DEF EntryUnfilled, State
      <4> QED BY <4>1, LongKnown
    <3>4. CASE PollEntry /\ EntryFilled(FillOfEntry(tickBar)) /\ FillOfEntry(tickBar) # 0
      <4> DEFINE S == {i \in DOMAIN hist : hist[i].of = "entry" /\ hist[i].bar = tickBar}
                 e == FillOfEntry(tickBar)
      <4>1. mem.pos # None
        BY <3>4 DEF PollEntry, DriverInv, OpensRecorded
      <4>2. e \in S
        <5>1. DOMAIN hist = 1..Len(hist) /\ Len(hist) \in Nat
          BY LongKnown
        <5>2. S # {} /\ S \in SUBSET (0..Len(hist))
          BY <3>4, <5>1 DEF FillOfEntry, Newest
        <5>3. e = Newest(S)
          BY DEF FillOfEntry
        <5> HIDE DEF S, e
        <5>4. \E i \in S : \A j \in S : j <= i
          BY <5>1, <5>2, GreatestElement
        <5> QED BY <5>2, <5>3, <5>4, Zenon DEF Newest
      <4>3. e \in DOMAIN hist /\ hist[e].buy
        BY <4>2 DEF LongInv, LongBook
      <4> HIDE DEF S, e
      <4>4. mem.pos \in Position /\ mem' = [mem EXCEPT !.pos.fill = e, !.unfilled = None]
        BY <3>4, <4>1, LongKnown DEF EntryFilled, e
      <4>5. mem'.pos = [mem.pos EXCEPT !.fill = e]
        BY <4>4, LongKnown DEF State
      <4>6. mem'.pos.short = mem.pos.short /\ mem'.pos.fill = e
        BY <4>4, <4>5 DEF Position
      <4> QED BY <4>1, <4>3, <4>6, LongKnown DEF LongPosition
    <3> QED BY <1>4, <3>1, <3>2, <3>3, <3>4
  <2> QED BY <1>1, <1>4, <2>1, <2>2, LongKnown, LongKept
<1> QED BY <1>2, <1>3, <1>4 DEF SkipIntent, BeginOpen, SubmitRefused, PollEntry

LEMMA LongClose ==
    ASSUME LongOnly, DriverInv, DriverInv', LongInv,
           BeginClose \/ CancelOpenOrders \/ LookAtPosition \/ ClosePosition \/ AwaitClose
    PROVE  LongInv'
<1>1. /\ disk' = disk /\ intents' = intents
      /\ pc \in {"act", "cancel", "look", "liquidate", "await"}
  BY DEF BeginClose, CancelOpenOrders, LookAtPosition, ClosePosition, AwaitClose,
         Acting, fileVars
<1>2. at >= 1
  BY <1>1 DEF DriverInv, OpensRecorded
<1>3. CASE UNCHANGED brokerVars /\ \E exit : Settle(exit)
  <2>1. pc' = "act" /\ ~Opening' /\ mem' = [mem EXCEPT !.pos = None, !.unfilled = None]
    BY <1>2, <1>3, NothingEnters DEF Settle, Entering, Opening, NextIntent
  <2>2. mem'.pos = None
    BY <2>1, LongKnown DEF State
  <2> QED BY <1>1, <1>3, <2>1, <2>2, LongKnown, LongKept
<1>4. CASE /\ UNCHANGED <<brokerVars, mem>> /\ pc' \in {"cancel", "look", "liquidate"}
           /\ pc' = "cancel" \/ pc \in {"look", "liquidate"}
  <2>1. ~Opening' /\ (pc' \in {"look", "liquidate", "await"} => legs = {} /\ working = {})
    BY <1>4 DEF Opening, Acting, LongInv
  <2> QED BY <1>1, <1>4, <2>1, LongKnown, LongKept
<1>5. CASE CancelOpenOrders /\ pc' = "look"
  <2>1. /\ legs' = {} /\ working' = {} /\ UNCHANGED <<qty, hist, mem>> /\ exitOrder' # "working"
        /\ ~Opening'
    BY <1>5 DEF CancelOpenOrders, Settle, NextIntent, LongOnly, Opening, Acting
  <2>2. IsFiniteSet({}) /\ Cardinality({}) = 0 /\ 0 <= qty
    BY LongKnown, FS_EmptySet
  <2> QED BY <1>1, <1>5, <2>1, <2>2 DEF LongInv
<1>6. CASE ClosePosition /\ pc' = "await"
  <2>1. /\ UNCHANGED <<working, legs, mem>> /\ legs = {} /\ working = {} /\ ~Flat /\ ~Opening'
        /\ \/ Liquidate
           \/ exitOrder' = "working" /\ UNCHANGED <<qty, hist>>
    BY <1>6 DEF ClosePosition, Settle, NextIntent, LongInv, Opening, Acting
  <2>2. CASE Liquidate
    <3>1. exitOrder' = "filled"
      BY <2>2 DEF Liquidate
    <3> QED BY <1>1, <1>6, <2>1, <2>2, <3>1, LongLiquidated DEF LongInv
  <2>3. CASE exitOrder' = "working" /\ UNCHANGED <<qty, hist>>
    BY <1>1, <1>6, <2>1, <2>3 DEF LongInv, Flat
  <2> QED BY <2>1, <2>2, <2>3
<1>7. CASE BeginClose
  BY <1>3, <1>4, <1>7 DEF BeginClose, brokerVars
<1>8. CASE CancelOpenOrders
  BY <1>3, <1>5, <1>8 DEF CancelOpenOrders
<1>9. CASE LookAtPosition
  BY <1>3, <1>4, <1>9 DEF LookAtPosition
<1>10. CASE ClosePosition
  BY <1>3, <1>6, <1>10 DEF ClosePosition, brokerVars
<1>11. CASE AwaitClose
  BY <1>3, <1>11 DEF AwaitClose
<1> QED BY <1>7, <1>8, <1>9, <1>10, <1>11

\* Whatever the account does on its own, each sale has an entry to close.
LEMMA LongAccount ==
    ASSUME DriverInv, DriverInv', LongInv, Account
    PROVE  LongInv'
<1>1. UNCHANGED <<mem, disk, pc, intents, at>> /\ Opening' = Opening /\ Current' = Current
  BY DEF Account, fileVars, tickVars, Opening, Acting, Current
<1>2. CASE FillEntry
  <2>1. PICK order \in working : /\ Filled(order) /\ working' = working \ {order}
                                 /\ UNCHANGED <<exitOrder, seen, entries>>
    BY <1>2 DEF FillEntry
  <2>2. order \in Order /\ ~order.short /\ exitOrder # "working"
        /\ pc \notin {"look", "liquidate", "await"}
    BY DEF LongInv, DriverInv, TypeOK, BrokerTypeOK
  <2> QED BY <1>1, <2>1, <2>2, LongFilled DEF LongInv
<1>3. CASE ExpireEntry
  BY <1>1, <1>3 DEF ExpireEntry, LongInv, Flat
<1>4. CASE FireLeg
  <2>1. PICK order \in legs :
          /\ qty' = qty - Towards(order.short)
          /\ hist' = Append(hist, [buy |-> order.short, of |-> "leg", bar |-> order.bar])
          /\ legs' = legs \ {order}
          /\ UNCHANGED <<working, exitOrder, seen, entries>>
    BY <1>4 DEF FireLeg
  <2> DEFINE fill == [buy |-> order.short, of |-> "leg", bar |-> order.bar]
  <2>2. order \in Order /\ ~order.short /\ exitOrder # "working"
        /\ pc \notin {"look", "liquidate", "await"}
    BY DEF LongInv, DriverInv, TypeOK, BrokerTypeOK
  <2>3. fill \in Fill /\ ~fill.buy /\ fill.of # "entry"
    BY <2>2 DEF Order, Fill
  <2>4. /\ IsFiniteSet(legs) /\ Cardinality(legs) \in Nat
        /\ IsFiniteSet(legs \ {order}) /\ Cardinality(legs \ {order}) = Cardinality(legs) - 1
        /\ Cardinality(legs) <= qty /\ qty \in Int /\ Cardinality(legs) # 0
    BY LongKnown, FS_RemoveElement, FS_CardinalityType, FS_EmptySet DEF LongInv
  <2>5. qty' = qty - 1 /\ ~Flat
    BY <2>1, <2>2, <2>4 DEF Towards, Flat
  <2> HIDE DEF fill
  <2>6. LongBook(hist, qty)' /\ LongPosition(disk.pos, hist)' /\ LongPosition(mem.pos, hist)'
    BY <1>1, <2>1, <2>3, <2>5, LongFill DEF fill
  <2>7. IsFiniteSet(legs') /\ Cardinality(legs') <= qty'
    BY <2>1, <2>4, <2>5
  <2> QED BY <1>1, <2>1, <2>2, <2>6, <2>7 DEF LongInv
<1>5. CASE FillExit
  <2>1. /\ exitOrder = "working" /\ legs = {} /\ ~Flat /\ UNCHANGED <<working, legs>>
        /\ Liquidate /\ exitOrder' = "filled"
    BY <1>5 DEF FillExit, LongInv, Liquidate
  <2> QED BY <1>1, <2>1, LongLiquidated DEF LongInv
<1> QED BY <1>2, <1>3, <1>4, <1>5 DEF Account, AccountMoves

LEMMA NextLongInv ==
    ASSUME LongOnly, DriverInv, DriverInv', LongInv, [Next]_vars
    PROVE  LongInv'
<1>1. CASE SaveState
  <2>1. at \notin DOMAIN intents /\ pc' = "record" /\ ~Opening' /\ UNCHANGED brokerVars
    BY <1>1 DEF SaveState, DriverInv, TypeOK, Opening, Acting
  <2>2. mem'.pos = mem.pos /\ disk'.pos = mem.pos
    BY <1>1, LongKnown DEF SaveState, State
  <2> QED BY <2>1, <2>2, LongKnown, LongKept
<1>2. CASE RecordTick \/ Crash
  <2>1. pc' = "idle" /\ ~Opening' /\ UNCHANGED <<brokerVars, mem, disk>>
    BY <1>2 DEF RecordTick, Crash, Opening, Acting, fileVars
  <2> QED BY <2>1, LongKnown, LongKept
<1>3. CASE NewBar \/ FlipSwitch \/ UNCHANGED vars
  <2>1. UNCHANGED <<brokerVars, disk, mem, pc, intents, at>>
    BY <1>3 DEF NewBar, FlipSwitch, vars, fileVars, tickVars
  <2>2. Opening' = Opening /\ Current' = Current
    BY <2>1 DEF Opening, Acting, Current
  <2> QED BY <2>1, <2>2, LongKnown, LongKept DEF LongInv
<1> QED BY <1>1, <1>2, <1>3, LongPreparation, LongEntry, LongClose, LongAccount DEF Next, Tick

\* A long-only strategy is never wedged either, though orders may still be
\* working when polling gives up, requests fail and replies be lost, whenever
\* the process dies or the switch is moved (adopt_broker_exit, drop_never_opened).
THEOREM NeverWedgedLongOnly == LongOnly => (Spec => []NeverWedged)
<1>1. DriverInv /\ LongInv => Bought
  BY LongBought DEF Bought
<1>2. DriverInv /\ LongInv /\ PricedInv => NeverWedged
  <2> SUFFICES ASSUME DriverInv, LongInv, PricedInv, disk.pos # None, Flat,
                      disk.unfilled = None
               PROVE  disk.pos.fill < ClosingFill(disk.pos.short)
    BY DEF NeverWedged
  <2>1. disk.pos \in Position /\ DOMAIN hist = 1..Len(hist) /\ Len(hist) \in Nat
    BY LongKnown DEF State
  <2>2. disk.pos.fill \in DOMAIN hist /\ hist[disk.pos.fill].buy /\ ~disk.pos.short
    BY LongKnown DEF PricedInv, Priced, LongPosition
  <2>3. Len(hist) \in DOMAIN hist /\ hist # <<>>
    BY <2>1, <2>2
  <2>4. ~hist[Len(hist)].buy
    BY <2>3 DEF LongInv, LongBook, Flat
  <2>5. hist[Len(hist)].buy = disk.pos.short
    <3>1. hist[Len(hist)] \in Fill
      BY <2>3, LongKnown
    <3> QED BY <2>1, <2>2, <2>4, <3>1, Zenon DEF Fill, Position
  <2>6. disk.pos.fill <= Len(hist) /\ disk.pos.fill # Len(hist) /\ disk.pos.fill \in Nat
    BY <2>1, <2>2, <2>4
  <2>7. Len(hist) <= ClosingFill(disk.pos.short) /\ ClosingFill(disk.pos.short) \in Nat
    BY <2>3, <2>5, ExitsFound, FillNumbers DEF DriverInv, TypeOK
  <2> QED BY <2>1, <2>6, <2>7
<1>3. DriverInv /\ PricedInv /\ Bought /\ [Next]_vars => PricedInv'
  BY NextPricedInv
<1>4. LongOnly /\ DriverInv /\ DriverInv' /\ LongInv /\ [Next]_vars => LongInv'
  BY NextLongInv
<1>5. LongOnly => LongOnly'
  BY DEF LongOnly
<1> QED BY <1>1, <1>2, <1>3, <1>4, <1>5, InitLongInv, InitPricedInv, DriverInvariant, PTL DEF Spec

-----------------------------------------------------------------------------
(***************************************************************************)
(* The signal is honoured.  A tick may only end against its signal while   *)
(* the exit the signal asks for is still the first thing to do; once that  *)
(* is over, nothing that moves the account goes the other way.             *)
(***************************************************************************)

\* Every request has its effect, though its reply may be lost, and the switch
\* is not moved.
Undisturbed == Faults \subseteq {"lost"} /\ MaxFlips = 0

Honoured(sig, held) == /\ sig = "SELL" => held <= 0
                       /\ sig = "BUY" => held >= 0

ClosesFirst ==
    /\ pc \in {"act", "cancel", "look", "liquidate"}
    /\ at = 1 /\ at \in DOMAIN intents /\ Current.action = "close"
    /\ mem.pos # None

Preparing == {"adoptExit", "adoptPosition", "drop", "reconcile", "decide"}
Deciding  == {"act", "submit", "poll", "cancel", "look", "liquidate", "await"}

HonourInv ==
    /\ on
    /\ pc \in Preparing \union Deciding => disk.decided # tickBar /\ mem.decided # tickBar
    /\ pc = "decide" => Flat \/ (mem.pos # None /\ mem.pos.short = (qty < 0))
    /\ Opening => signal = IF Current.short THEN "SELL" ELSE "BUY"
    /\ pc \in Deciding => Honoured(signal, qty) \/ ClosesFirst
    /\ pc = "record" /\ disk.decided = tickBar => Honoured(signal, qty)

\* An entry goes in the direction of the signal, and a position that opposes
\* the signal is closed before anything else.
LEMMA StepFollows ==
    ASSUME NEW pos \in Position \union {None}, NEW sig \in Signals,
           NEW veto \in BOOLEAN, NEW hit \in BOOLEAN
    PROVE  LET step == Step(pos, sig, veto, hit) IN
           /\ pos = None /\ step.pos # None => sig = IF step.pos.short THEN "SELL" ELSE "BUY"
           /\ pos # None /\ Opposes(pos, sig) =>
                1 \in DOMAIN step.intents /\ step.intents[1].action = "close"
<1> DEFINE step == Step(pos, sig, veto, hit)
<1>1. ASSUME pos = None, step.pos # None
      PROVE  sig = IF step.pos.short THEN "SELL" ELSE "BUY"
  <2> DEFINE short == CHOOSE s \in Wants(sig) : TRUE
  <2>1. Wants(sig) # {} /\ step.pos = [short |-> short, fill |-> 0]
    BY <1>1 DEF Step
  <2>2. short \in Wants(sig)
    BY <2>1, Zenon
  <2>3. step.pos.short = short
    BY <2>1
  <2> HIDE DEF short, step
  <2> QED BY <2>2, <2>3 DEF Wants
<1>2. ASSUME pos # None, Opposes(pos, sig)
      PROVE  1 \in DOMAIN step.intents /\ step.intents[1].action = "close"
  <2> DEFINE first == Intended("close", "signal", pos.short)
             exit  == Intended("close", "level", pos.short)
  <2>1. step.intents = WithLevelHit(<<first>>, hit, pos.short)
    BY <1>2 DEF Step
  <2>2. step.intents \in {<<first>>, Append(<<first>>, exit)}
    BY <2>1 DEF WithLevelHit
  <2>3. first.action = "close"
    BY DEF Intended
  <2> HIDE DEF first, exit, step
  <2>4. 1 \in DOMAIN step.intents /\ step.intents[1] = first
    BY <2>2
  <2> QED BY <2>3, <2>4 DEF step
<1> QED BY <1>1, <1>2

LEMMA InitHonourInv == Init => HonourInv
<1> SUFFICES ASSUME Init PROVE HonourInv
  OBVIOUS
<1>1. pc = "idle" /\ on /\ ~Opening
  BY DEF Init, Opening, Acting
<1> QED BY <1>1 DEF HonourInv, Preparing, Deciding

\* Nothing is held against any signal by an account that holds nothing.
LEMMA FlatHonours == \A sig : Honoured(sig, 0)
BY DEF Honoured

LEMMA HonourKnown ==
    ASSUME DriverInv
    PROVE  /\ mem \in State /\ disk \in State /\ mem.pos \in Position \union {None}
           /\ qty \in Int /\ signal \in Signals /\ halt \in BOOLEAN
BY DEF DriverInv, TypeOK, BrokerTypeOK, State

LEMMA PreparationHonourInv ==
    ASSUME DriverInv, PositionInv, HonourInv,
           StartTick \/ AdoptExit \/ AdoptPosition \/ DropNeverOpened \/ Reconcile
             \/ PositionReadFails
    PROVE  HonourInv'
<1>1. on' = on /\ ~Opening' /\ pc' \notin Deciding /\ UNCHANGED qty
  BY DEF StartTick, AdoptExit, AdoptPosition, DropNeverOpened, Reconcile,
         PositionReadFails, Opening, Acting, Deciding, envVars, brokerVars
<1>2. CASE StartTick
  BY <1>1, <1>2 DEF StartTick, HonourInv, fileVars
<1>3. CASE AdoptExit \/ AdoptPosition \/ DropNeverOpened
  <2>1. /\ \A p : [mem EXCEPT !.pos = p].decided = mem.decided
        /\ [mem EXCEPT !.pos = None, !.unfilled = None].decided = mem.decided
    BY HonourKnown DEF State
  <2>2. /\ mem'.decided = mem.decided /\ disk'.decided \in {mem.decided, disk.decided}
        /\ pc \in Preparing /\ pc' \in {"adoptPosition", "drop", "reconcile"}
        /\ tickBar' = tickBar
    BY <1>3, <2>1 DEF AdoptExit, AdoptPosition, DropNeverOpened, Preparing
  <2> QED BY <1>1, <2>2 DEF HonourInv
<1>4. CASE Reconcile
  <2>1. /\ UNCHANGED <<mem, disk, tickBar, signal>> /\ pc \in Preparing
        /\ pc' = IF Mismatch THEN "record" ELSE "decide"
    BY <1>4 DEF Reconcile, fileVars, tickVars, Preparing
  <2>2. Mismatch \/ Flat \/ (mem.pos # None /\ mem.pos.short = (qty < 0))
    BY DEF Mismatch
  <2> QED BY <1>1, <2>1, <2>2 DEF HonourInv, Flat
<1>5. CASE PositionReadFails
  BY <1>1, <1>5 DEF PositionReadFails, HonourInv, Preparing
<1> QED BY <1>2, <1>3, <1>4, <1>5

LEMMA DecideHonourInv ==
    ASSUME DriverInv, PositionInv, HonourInv, Decide
    PROVE  HonourInv'
<1>1. PICK hit \in BOOLEAN :
        /\ mem' = [mem EXCEPT !.pos = Step(mem.pos, signal, halt, hit).pos]
        /\ intents' = Step(mem.pos, signal, halt, hit).intents
  BY DEF Decide
<1>2. /\ pc = "decide" /\ pc' = "act" /\ at' = 1
      /\ UNCHANGED <<disk, on, tickBar, signal, qty>>
  BY DEF Decide, fileVars, envVars, brokerVars
<1>3. mem'.pos = Step(mem.pos, signal, halt, hit).pos /\ mem'.decided = mem.decided
  BY <1>1, HonourKnown DEF State
<1>4. \/ mem'.pos = mem.pos /\ \A k \in DOMAIN intents' : intents'[k].action # "open"
      \/ mem.pos = None /\ mem'.pos # None /\ intents'[1].short = mem'.pos.short
  <2>1. mem.pos \in Position \union {None} /\ signal \in Signals /\ halt \in BOOLEAN
    BY HonourKnown
  <2> QED BY <1>1, <1>3, <2>1, StepHolds
<1>5. /\ mem.pos = None /\ mem'.pos # None =>
           signal = IF mem'.pos.short THEN "SELL" ELSE "BUY"
      /\ mem.pos # None /\ Opposes(mem.pos, signal) =>
           1 \in DOMAIN intents' /\ intents'[1].action = "close"
  <2>1. mem.pos \in Position \union {None} /\ signal \in Signals /\ halt \in BOOLEAN
    BY HonourKnown
  <2> QED BY <1>1, <1>3, <2>1, StepFollows
<1>6. Opening' => signal = IF Current.short' THEN "SELL" ELSE "BUY"
  BY <1>2, <1>4, <1>5 DEF Opening, Acting, Current
<1>7. Honoured(signal, qty) \/ ClosesFirst'
  <2>1. CASE Flat
    BY <2>1, FlatHonours DEF Flat
  <2>2. CASE ~Flat
    <3>1. mem.pos # None /\ mem.pos.short = (qty < 0) /\ mem'.pos = mem.pos
      BY <1>2, <1>4, <2>2 DEF HonourInv
    <3>2. CASE Opposes(mem.pos, signal)
      BY <1>2, <1>5, <3>1, <3>2 DEF ClosesFirst, Current
    <3>3. CASE ~Opposes(mem.pos, signal)
      <4>1. qty \in Int
        BY HonourKnown
      <4>2. CASE qty < 0
        <5>1. signal # "BUY"
          BY <3>1, <3>3, <4>2 DEF Opposes
        <5> QED BY <4>1, <4>2, <5>1 DEF Honoured
      <4>3. CASE ~(qty < 0)
        <5>1. signal # "SELL"
          BY <3>1, <3>3, <4>3 DEF Opposes
        <5> QED BY <4>1, <4>3, <5>1 DEF Honoured
      <4> QED BY <4>2, <4>3
    <3> QED BY <3>2, <3>3
  <2> QED BY <2>1, <2>2
<1> QED BY <1>2, <1>3, <1>6, <1>7 DEF HonourInv, Preparing, Deciding

\* Past an intent, or past the exit that came first.
LEMMA HonouredOn ==
    ASSUME DriverInv, DriverInv', HonourInv, at >= 1, NextIntent, pc \in Deciding,
           mem'.decided = mem.decided, UNCHANGED <<disk, on, tickBar, signal, qty>>,
           Honoured(signal, qty)
    PROVE  HonourInv'
<1>1. pc' = "act" /\ ~Opening'
  BY NothingEnters DEF Entering, Opening, NextIntent
<1> QED BY <1>1 DEF HonourInv, Deciding, Preparing

LEMMA EntryHonourInv ==
    ASSUME Prompt, DriverInv, DriverInv', PositionInv, HonourInv,
           SkipIntent \/ BeginOpen \/ SubmitAccepted \/ SubmitRefused \/ PollEntry
    PROVE  HonourInv'
<1>1. /\ at >= 1 /\ UNCHANGED <<disk, on, tickBar, signal, intents>>
      /\ pc \in {"act", "submit", "poll"}
  BY DEF DriverInv, OpensRecorded, SkipIntent, BeginOpen, SubmitAccepted,
         SubmitRefused, PollEntry, Acting, fileVars, tickVars, envVars
<1>2. ~ClosesFirst
  BY DEF SkipIntent, BeginOpen, SubmitAccepted, SubmitRefused, PollEntry, Acting, ClosesFirst
<1>3. Honoured(signal, qty) /\ pc \in Deciding
  BY <1>1, <1>2 DEF HonourInv, Deciding
<1>4. mem'.decided = mem.decided
  <2>1. /\ EntryRefused => mem'.decided = mem.decided
        /\ EntryUnfilled => mem'.decided = mem.decided
        /\ \A fill : EntryFilled(fill) => mem'.decided = mem.decided
    BY HonourKnown DEF EntryRefused, EntryUnfilled, EntryFilled, State
  <2> QED BY <2>1 DEF SkipIntent, BeginOpen, SubmitAccepted, SubmitRefused, PollEntry, tickVars
<1>5. CASE NextIntent /\ UNCHANGED brokerVars
  BY <1>1, <1>3, <1>4, <1>5, HonouredOn DEF brokerVars
<1>6. CASE BeginOpen /\ pc' = "submit" /\ UNCHANGED <<brokerVars, at>>
  <2>1. Opening /\ Current' = Current
    BY <1>1, <1>6 DEF BeginOpen, Opening, Current
  <2> QED BY <1>1, <1>3, <1>4, <1>6, <2>1 DEF HonourInv, Deciding, Preparing, brokerVars
<1>7. CASE SubmitAccepted
  <2>1. /\ Flat /\ Opening /\ pc' = "poll" /\ Current' = Current
        /\ qty' = qty + Towards(Current.short)
    BY <1>1, <1>7 DEF SubmitAccepted, PositionInv, Entering, Opening, Current, Filled,
       Prompt, tickVars
  <2>2. signal = IF Current.short THEN "SELL" ELSE "BUY"
    BY <2>1 DEF HonourInv
  <2>3. Honoured(signal, qty')
    BY <2>1, <2>2 DEF Honoured, Towards, Flat
  <2> QED BY <1>1, <1>3, <1>4, <2>1, <2>2, <2>3 DEF HonourInv, Deciding, Preparing
<1> QED BY <1>5, <1>6, <1>7 DEF SkipIntent, BeginOpen, SubmitRefused, PollEntry

LEMMA CloseHonourInv ==
    ASSUME Undisturbed, DriverInv, DriverInv', PositionInv, HonourInv,
           BeginClose \/ CancelOpenOrders \/ LookAtPosition \/ ClosePosition \/ AwaitClose
    PROVE  HonourInv'
<1>1. /\ UNCHANGED <<disk, on, tickBar, signal, intents>>
      /\ pc \in {"act", "cancel", "look", "liquidate", "await"} /\ ~Opening
  BY DEF BeginClose, CancelOpenOrders, LookAtPosition, ClosePosition, AwaitClose,
         Acting, Opening, fileVars, envVars
<1>2. at >= 1 /\ pc \in Deciding /\ (Honoured(signal, qty) \/ ClosesFirst)
  BY <1>1 DEF DriverInv, OpensRecorded, HonourInv, Deciding
<1>3. CASE /\ \E exit : Settle(exit)
           /\ UNCHANGED qty /\ Honoured(signal, qty)
  <2>1. NextIntent /\ mem'.decided = mem.decided
    BY <1>3, HonourKnown DEF Settle, State
  <2> QED BY <1>1, <1>2, <1>3, <2>1, HonouredOn
<1>4. CASE UNCHANGED <<qty, mem, at>> /\ pc' \in {"cancel", "look", "liquidate"}
  <2>1. ~Opening' /\ Current' = Current
    BY <1>1, <1>4 DEF Opening, Acting, Current
  <2>2. ClosesFirst => ClosesFirst'
    BY <1>1, <1>4, <2>1 DEF ClosesFirst
  <2> QED BY <1>1, <1>2, <1>4, <2>1, <2>2 DEF HonourInv, Deciding, Preparing
<1>5. CASE qty' = 0 /\ UNCHANGED <<mem, at>> /\ pc' = "await"
  <2>1. ~Opening'
    BY <1>5 DEF Opening, Acting
  <2> QED BY <1>1, <1>2, <1>5, <2>1, FlatHonours DEF HonourInv, Deciding, Preparing
<1>6. CASE BeginClose
  BY <1>4, <1>6 DEF BeginClose, HonourInv, brokerVars
<1>7. CASE CancelOpenOrders
  BY <1>4, <1>7 DEF CancelOpenOrders, Undisturbed
<1>8. CASE LookAtPosition
  BY <1>3, <1>4, <1>8, FlatHonours DEF LookAtPosition, Undisturbed, HonourInv, Flat, brokerVars
<1>9. CASE ClosePosition
  BY <1>3, <1>5, <1>9, FlatHonours DEF ClosePosition, Undisturbed, Liquidate, Flat
<1>10. CASE AwaitClose
  BY <1>2, <1>3, <1>10 DEF AwaitClose, ClosesFirst, brokerVars
<1> QED BY <1>6, <1>7, <1>8, <1>9, <1>10

LEMMA NextHonourInv ==
    ASSUME Undisturbed, DriverInv, DriverInv', PositionInv, HonourInv, [Next]_vars
    PROVE  HonourInv'
<1>1. CASE SaveState
  <2>1. at \notin DOMAIN intents /\ pc = "act" /\ pc' = "record" /\ ~Opening'
        /\ UNCHANGED <<qty, signal, on>>
    BY <1>1 DEF SaveState, DriverInv, TypeOK, Opening, Acting, brokerVars, envVars
  <2>2. Honoured(signal, qty)
    BY <2>1 DEF HonourInv, Deciding, ClosesFirst
  <2> QED BY <2>1, <2>2 DEF HonourInv, Deciding, Preparing
<1>2. CASE RecordTick \/ Crash
  BY <1>2 DEF RecordTick, Crash, HonourInv, Opening, Acting, Deciding, Preparing, envVars
<1>3. CASE NewBar \/ UNCHANGED vars
  <2>1. UNCHANGED <<qty, disk, mem, pc, intents, at, on, tickBar, signal>>
    BY <1>3 DEF NewBar, vars, brokerVars, fileVars, tickVars, envVars
  <2>2. Opening' = Opening /\ Current' = Current /\ ClosesFirst' = ClosesFirst
    BY <2>1 DEF Opening, Acting, Current, ClosesFirst
  <2> QED BY <2>1, <2>2 DEF HonourInv, Flat
<1>4. ~FlipSwitch
  BY DEF FlipSwitch, Undisturbed, DriverInv, TypeOK
<1>5. CASE Account
  <2>1. UNCHANGED <<disk, mem, pc, intents, at, on, tickBar, signal>>
    BY <1>5 DEF Account, fileVars, tickVars, envVars
  <2>2. PICK order \in legs : qty' = qty - Towards(order.short)
    BY <1>5 DEF Account, AccountMoves, FillEntry, ExpireEntry, FillExit, FireLeg, PositionInv
  <2>3. qty' = 0
    BY <2>2, HonourKnown DEF PositionInv
  <2>4. Opening' = Opening /\ Current' = Current
    BY <2>1 DEF Opening, Acting, Current
  <2> QED BY <2>1, <2>3, <2>4, FlatHonours DEF HonourInv, Flat
<1>6. Prompt
  BY DEF Undisturbed, Prompt
<1> QED BY <1>1, <1>2, <1>3, <1>4, <1>5, <1>6, PreparationHonourInv, DecideHonourInv,
           EntryHonourInv, CloseHonourInv DEF Next, Tick

\* While requests have their effect and the switch stays on, a tick that decided
\* a SELL leaves nothing long at the account and one that decided a BUY nothing
\* short, whatever was adopted, fired meanwhile or died before (on_bar_closed).
THEOREM SignalIsHonoured == Undisturbed => (Spec => []SignalHonoured)
<1>1. HonourInv => SignalHonoured
  BY DEF HonourInv, Honoured, SignalHonoured
<1>2. Undisturbed => Prompt
  BY DEF Undisturbed, Prompt
<1>3. Prompt /\ DriverInv /\ DriverInv' /\ PositionInv /\ [Next]_vars => PositionInv'
  BY NextPositionInv
<1>4. Undisturbed /\ DriverInv /\ DriverInv' /\ PositionInv /\ HonourInv /\ [Next]_vars
        => HonourInv'
  BY NextHonourInv
<1>5. (Undisturbed => Undisturbed') /\ (Prompt => Prompt')
  BY DEF Undisturbed, Prompt
<1> QED BY <1>1, <1>2, <1>3, <1>4, <1>5, InitPositionInv, InitHonourInv, DriverInvariant, PTL
        DEF Spec

-----------------------------------------------------------------------------
(***************************************************************************)
(* The trade log says what the account did.  Every exit of the history has *)
(* a row, but perhaps the last: the one that closed the position the       *)
(* driver still believes in, and so is newer than its entry.  Proved of an *)
(* account without faults, whose switch is not moved, up to the first      *)
(* crash: each of these may lose a row.                                    *)
(***************************************************************************)

Faultless == Faults = {} /\ MaxFlips = 0

Exits(fills) == {i \in DOMAIN fills : fills[i].of # "entry"}

\* Every exit has a row, or can still be adopted.
Accounted(pos, log, fills) ==
    \A i \in Exits(fills) : \/ \E j \in DOMAIN log : log[j].exit = i
                            \/ pos # None /\ pos.fill < i

\* At most one exit is newer than a position: the fill that emptied the account.
ClosedLast(pos, fills, held) ==
    pos # None =>
        \A i \in Exits(fills) :
            pos.fill < i => held = 0 /\ i = Len(fills) /\ fills[i].buy = pos.short

Accounts(pos, log, fills, held) == Accounted(pos, log, fills) /\ ClosedLast(pos, fills, held)

\* The entry of a bar has filled, and whatever closed it came last.
EntryAccounts(b, short, log, fills, held) ==
    \E e \in DOMAIN fills :
        /\ fills[e].of = "entry" /\ fills[e].bar = b
        /\ \A i \in DOMAIN fills : fills[i].of = "entry" => i <= e
        /\ Accounts([short |-> short, fill |-> e], log, fills, held)

\* A refused entry that an earlier run recorded: nothing has closed since.
LeftAlone(state, resting, fills, held) ==
    /\ state.unfilled # "no_fill"
    /\ state.unfilled = "rejected" =>
         /\ state.pos # None /\ resting = {} /\ Exits(fills) = {}
         /\ held = 0 => fills = <<>>

BetweenTicks ==
    pc = "idle" =>
        /\ Accounts(disk.pos, trades, hist, qty)
        /\ legs # {} => disk.pos # None
        /\ LeftAlone(disk, legs, hist, qty)

InTheTick ==
    pc # "idle" =>
        /\ pc \in {"adoptExit", "adoptPosition", "drop", "reconcile", "decide", "record"} =>
             mem = disk
        /\ legs # {} => mem.pos # None
        /\ ~Opening => Accounts(mem.pos, Booked, hist, qty)
        /\ ~Opening /\ pc # "await" => LeftAlone(mem, legs, hist, qty)
        /\ Opening /\ pc # "poll" => Accounted(None, Booked, hist)
        /\ pc = "poll" => EntryAccounts(tickBar, mem.pos.short, Booked, hist, qty)

Closing ==
    /\ pc \in {"cancel", "look", "liquidate", "await"} => mem.pos # None
    /\ pc \in {"act", "cancel", "look", "liquidate", "await"} /\ ~Opening /\ mem.pos # None =>
         Flat \/ mem.pos.short = (qty < 0)
    /\ pc = "liquidate" => ~Flat
    /\ pc = "await" => exitOrder = "filled"

AccountInv == BetweenTicks /\ InTheTick /\ Closing

-----------------------------------------------------------------------------

\* A fill that closes what is held is newer than the position it closes.
LEMMA AccountsClosed ==
    ASSUME NEW pos, pos # None, NEW log, NEW fills \in Seq(Fill), NEW held, held # 0,
           NEW fill \in Fill, fill.buy = pos.short, pos.fill \in Nat, pos.fill <= Len(fills),
           Accounts(pos, log, fills, held)
    PROVE  Accounts(pos, log, Append(fills, fill), 0)
<1> DEFINE more == Append(fills, fill)
<1>1. /\ DOMAIN more = 1..(Len(fills) + 1) /\ DOMAIN fills = 1..Len(fills)
      /\ Len(fills) \in Nat /\ Len(more) = Len(fills) + 1
      /\ \A i \in DOMAIN fills : more[i] = fills[i]
      /\ more[Len(fills) + 1] = fill
  OBVIOUS
<1> HIDE DEF more
<1>2. \A i \in Exits(more) : i \in Exits(fills) \/ i = Len(fills) + 1
  BY <1>1 DEF Exits
<1>3. pos.fill < Len(fills) + 1
  BY <1>1
<1>4. Accounted(pos, log, more)
  BY <1>2, <1>3 DEF Accounts, Accounted
<1>5. ClosedLast(pos, more, 0)
  <2> SUFFICES ASSUME NEW i \in Exits(more), pos.fill < i
               PROVE  i = Len(more) /\ more[i].buy = pos.short
    BY DEF ClosedLast
  <2>1. i \notin Exits(fills)
    BY DEF Accounts, ClosedLast
  <2> QED BY <1>1, <1>2, <2>1
<1> QED BY <1>4, <1>5 DEF Accounts, more

LEMMA EntryAccountsClosed ==
    ASSUME NEW b, NEW short \in BOOLEAN, NEW log, NEW fills \in Seq(Fill),
           NEW held, held # 0, NEW fill \in Fill, fill.buy = short, fill.of # "entry",
           EntryAccounts(b, short, log, fills, held)
    PROVE  EntryAccounts(b, short, log, Append(fills, fill), 0)
<1>1. PICK e \in DOMAIN fills :
        /\ fills[e].of = "entry" /\ fills[e].bar = b
        /\ \A i \in DOMAIN fills : fills[i].of = "entry" => i <= e
        /\ Accounts([short |-> short, fill |-> e], log, fills, held)
  BY DEF EntryAccounts
<1>2. /\ DOMAIN Append(fills, fill) = 1..(Len(fills) + 1) /\ DOMAIN fills = 1..Len(fills)
      /\ Len(fills) \in Nat
      /\ \A i \in DOMAIN fills : Append(fills, fill)[i] = fills[i]
      /\ Append(fills, fill)[Len(fills) + 1] = fill
  OBVIOUS
<1> DEFINE pos == [short |-> short, fill |-> e]
<1>3. pos \in [short : BOOLEAN, fill : Nat] /\ pos.short = short /\ pos.fill = e
  BY <1>2
<1>4. pos # None /\ pos.fill <= Len(fills) /\ pos.fill \in Nat
  BY <1>2, <1>3, DriverAssumption
<1> HIDE DEF pos
<1>5. Accounts(pos, log, Append(fills, fill), 0)
  BY <1>1, <1>3, <1>4, AccountsClosed DEF pos
<1> QED BY <1>1, <1>2, <1>5 DEF EntryAccounts, pos

\* A leg booked at the fill that closed the position leaves no exit without a row.
LEMMA SettledAccounts ==
    ASSUME NEW rows \in Seq(Leg), NEW kept \in Seq(Leg),
           NEW pos \in Position \union {None}, NEW exit \in Nat, NEW fills, NEW held,
           Accounted(pos, rows \o kept, fills),
           pos # None => \A i \in Exits(fills) : pos.fill < i => i = exit
    PROVE  Accounts(None, rows \o (kept \o Settled(pos, exit)), fills, held)
<1> DEFINE log == rows \o kept
           new == rows \o (kept \o Settled(pos, exit))
<1>1. Settled(pos, exit) \in Seq(Leg) /\ log \in Seq(Leg)
  <2>1. Settled(pos, exit) \in Seq(Leg)
    BY SettledType
  <2>2. log \in Seq(Leg)
    OBVIOUS
  <2> QED BY <2>1, <2>2
<1>2. new = log \o Settled(pos, exit)
  BY <1>1
<1>3. \A j \in DOMAIN log : j \in DOMAIN new /\ new[j] = log[j]
  BY <1>1, <1>2
<1>4. pos # None => \E j \in DOMAIN new : new[j].exit = exit
  <2> SUFFICES ASSUME pos # None PROVE \E j \in DOMAIN new : new[j].exit = exit
    OBVIOUS
  <2> DEFINE leg == [short |-> pos.short, entry |-> pos.fill, exit |-> exit]
  <2>1. Settled(pos, exit) = <<leg>> /\ leg.exit = exit
    BY DEF Settled
  <2>2. new = log \o <<leg>>
    BY <1>2, <2>1
  <2> HIDE DEF leg, new, log
  <2>3. Len(log) + 1 \in DOMAIN new /\ new[Len(log) + 1] = leg
    BY <1>1, <2>2
  <2> QED BY <2>1, <2>3
<1> HIDE DEF new, log
<1>5. Accounted(None, new, fills)
  <2> SUFFICES ASSUME NEW i \in Exits(fills) PROVE \E j \in DOMAIN new : new[j].exit = i
    BY DEF Accounted
  <2>1. (\E j \in DOMAIN log : log[j].exit = i) \/ (pos # None /\ pos.fill < i)
    BY DEF Accounted, log
  <2> QED BY <1>3, <1>4, <2>1
<1> QED BY <1>5 DEF Accounts, ClosedLast, new

LEMMA InitAccountInv == Init => AccountInv
<1> SUFFICES ASSUME Init PROVE AccountInv
  OBVIOUS
<1>1. pc = "idle" /\ ~Opening /\ legs = {} /\ trades = <<>>
  BY DEF Init, Opening, Acting
<1>2. PICK held \in {0, 1, -1} :
        /\ qty = held
        /\ hist = IF held = 0 THEN <<>>
                  ELSE <<[buy |-> held > 0, of |-> "entry", bar |-> 0]>>
  BY DEF Init
<1>3. Exits(hist) = {} /\ (qty = 0 => hist = <<>>)
  <2>1. CASE held = 0
    BY <1>2, <2>1 DEF Exits
  <2>2. CASE held # 0
    <3> DEFINE fill == [buy |-> held > 0, of |-> "entry", bar |-> 0]
    <3>1. hist = <<fill>> /\ fill.of = "entry" /\ qty # 0
      BY <1>2, <2>2
    <3> HIDE DEF fill
    <3> QED BY <3>1 DEF Exits
  <2> QED BY <2>1, <2>2
<1>4. Accounts(disk.pos, trades, hist, qty)
  BY <1>3 DEF Accounts, Accounted, ClosedLast
<1>5. LeftAlone(disk, legs, hist, qty)
  <2>1. Initial.unfilled = None
    BY DEF Initial
  <2>2. Legacy(FALSE).unfilled = "rejected" /\ Legacy(FALSE).pos = [short |-> FALSE, fill |-> 0]
    BY DEF Legacy
  <2>3. [short |-> FALSE, fill |-> 0] # None /\ None # "no_fill" /\ None # "rejected"
    <3>1. [short |-> FALSE, fill |-> 0] \in [short : BOOLEAN, fill : Nat]
      OBVIOUS
    <3> QED BY <3>1, DriverAssumption
  <2>4. disk = Initial \/ disk = Legacy(FALSE)
    BY DEF Init
  <2>5. "rejected" # "no_fill"
    OBVIOUS
  <2> QED BY <1>1, <1>3, <2>1, <2>2, <2>3, <2>4, <2>5 DEF LeftAlone
<1> QED BY <1>1, <1>4, <1>5 DEF AccountInv, BetweenTicks, InTheTick, Closing

LEMMA AccountKnown ==
    ASSUME DriverInv
    PROVE  /\ mem \in State /\ disk \in State /\ mem.pos \in Position \union {None}
           /\ disk.pos \in Position \union {None} /\ hist \in Seq(Fill) /\ qty \in Int
           /\ trades \in Seq(Leg) /\ booked \in Seq(Leg)
           /\ DOMAIN hist = 1..Len(hist) /\ Len(hist) \in Nat
           /\ LeftAlone([mem EXCEPT !.pos = None, !.unfilled = None], legs, hist, qty)
           /\ [mem EXCEPT !.pos = None, !.unfilled = None].pos = None
BY DriverAssumption DEF DriverInv, TypeOK, BrokerTypeOK, State, LeftAlone

LEMMA AdoptExitAccountInv ==
    ASSUME Faultless, DriverInv, PositionInv, TripsInv, AccountInv, AdoptExit
    PROVE  AccountInv'
<1>1. /\ pc = "adoptExit" /\ pc' = "adoptPosition" /\ ~Opening /\ ~Opening'
      /\ UNCHANGED <<hist, qty, legs, trades, exitOrder>>
  BY DEF AdoptExit, Opening, Acting, brokerVars
<1>2. /\ mem = disk /\ Accounts(mem.pos, Booked, hist, qty) /\ (legs # {} => mem.pos # None)
      /\ LeftAlone(mem, legs, hist, qty)
  BY <1>1 DEF AccountInv, InTheTick
<1>3. CASE UNCHANGED <<booked, mem, disk>>
  BY <1>1, <1>2, <1>3 DEF AccountInv, BetweenTicks, InTheTick, Closing, Booked
<1>4. CASE ~UNCHANGED <<booked, mem, disk>>
  <2> DEFINE exit == ClosingFill(mem.pos.short)
  <2>1. /\ mem.pos # None /\ Flat /\ exit # 0 /\ booked' = Settled(mem.pos, exit)
        /\ mem' = [mem EXCEPT !.pos = None] /\ disk' = mem'
    BY <1>4 DEF AdoptExit
  <2>2. exit \in Nat /\ exit <= Len(hist)
    BY ExitsFound, FillNumbers DEF DriverInv, TypeOK
  <2>3. ASSUME NEW i \in Exits(hist), mem.pos.fill < i PROVE i = exit
    <3>1. i \in DOMAIN hist /\ i = Len(hist) /\ hist[i].buy = mem.pos.short
      BY <1>2, <2>1, <2>3 DEF Accounts, ClosedLast, Exits
    <3>2. i <= exit
      BY <3>1, ExitsFound
    <3> HIDE DEF exit
    <3> QED BY <2>2, <3>1, <3>2, AccountKnown
  <2>4. mem.unfilled # "rejected"
    <3>1. hist # <<>>
      <4> HIDE DEF exit
      <4> QED BY <2>1, <2>2
    <3> QED BY <1>2, <2>1, <3>1 DEF LeftAlone, Flat
  <2>5. legs = {}
    BY <2>1, FlatHasNoLegs
  <2>6. mem'.pos = None /\ mem'.unfilled = mem.unfilled
    BY <2>1, AccountKnown DEF State
  <2>7. booked = <<>>
    BY <1>1 DEF TripsInv
  <2> HIDE DEF exit
  <2>8. Booked = trades \o <<>> /\ Booked' = trades \o (<<>> \o Settled(mem.pos, exit))
    <3>1. Settled(mem.pos, exit) \in Seq(Leg)
      BY <2>2, SettledType, AccountKnown
    <3> QED BY <1>1, <2>1, <2>7, <3>1 DEF Booked
  <2>9. Accounts(None, Booked', hist, qty)
    <3>1. Accounted(mem.pos, trades \o <<>>, hist)
      BY <1>2, <2>8 DEF Accounts
    <3>2. /\ trades \in Seq(Leg) /\ <<>> \in Seq(Leg) /\ mem.pos \in Position \union {None}
      BY AccountKnown
    <3> QED BY <2>2, <2>3, <2>8, <3>1, <3>2, SettledAccounts
  <2>10. LeftAlone(mem', legs, hist, qty)
    BY <1>2, <2>4, <2>6 DEF LeftAlone
  <2> QED BY <1>1, <2>1, <2>5, <2>6, <2>9, <2>10 DEF AccountInv, BetweenTicks, InTheTick, Closing
<1> QED BY <1>3, <1>4

LEMMA PreparationAccountInv ==
    ASSUME Faultless, DriverInv, PositionInv, TripsInv, HonourInv, AccountInv,
           StartTick \/ AdoptPosition \/ DropNeverOpened \/ Reconcile \/ PositionReadFails
    PROVE  AccountInv'
<1>1. UNCHANGED <<hist, qty, legs, trades, exitOrder>> /\ ~Opening'
  BY DEF StartTick, AdoptPosition, DropNeverOpened, Reconcile, PositionReadFails,
         Opening, Acting, brokerVars, fileVars
<1>2. CASE StartTick
  <2>1. /\ mem' = disk /\ disk' = disk /\ Booked' = trades /\ pc = "idle" /\ pc' = "adoptExit"
    BY <1>1, <1>2, AccountKnown DEF StartTick, Booked, fileVars
  <2> QED BY <1>1, <2>1 DEF AccountInv, BetweenTicks, InTheTick, Closing
<1>3. CASE AdoptPosition
  <2>1. /\ pc = "adoptPosition" /\ pc' = "drop" /\ ~Opening /\ Booked' = Booked
    BY <1>1, <1>3 DEF AdoptPosition, Opening, Acting, Booked
  <2>2. /\ mem = disk /\ Accounts(mem.pos, Booked, hist, qty) /\ (legs # {} => mem.pos # None)
        /\ LeftAlone(mem, legs, hist, qty)
    BY <2>1 DEF AccountInv, InTheTick
  <2>3. CASE UNCHANGED <<mem, disk>>
    BY <1>1, <2>1, <2>2, <2>3 DEF AccountInv, BetweenTicks, InTheTick, Closing
  <2>4. CASE ~UNCHANGED <<mem, disk>>
    <3> DEFINE adopted == [short |-> qty < 0, fill |-> EntryFill(qty < 0)]
    <3>1. mem.pos = None /\ ~Flat /\ mem' = [mem EXCEPT !.pos = adopted] /\ disk' = mem'
      BY <1>3, <2>4 DEF AdoptPosition
    <3>2. mem'.pos = adopted /\ mem'.unfilled = mem.unfilled
      BY <3>1, AccountKnown DEF State
    <3>3. Len(hist) # 0 /\ hist # <<>> /\ hist[Len(hist)].buy = ~(qty < 0)
      BY <3>1, AccountKnown DEF TripsInv, Flat
    <3>4. adopted.fill = Len(hist)
      BY <3>3, ExitsFound
    <3>5. adopted # None
      <4>1. adopted \in [short : BOOLEAN, fill : Nat]
        BY <3>4, AccountKnown
      <4> QED BY <4>1, DriverAssumption
    <3> HIDE DEF adopted
    <3>6. Accounts(adopted, Booked, hist, qty)
      <4>1. \A i \in Exits(hist) : ~(Len(hist) < i)
        BY AccountKnown DEF Exits
      <4> QED BY <2>2, <3>1, <3>4, <4>1 DEF Accounts, Accounted, ClosedLast
    <3>7. LeftAlone(mem', legs, hist, qty)
      BY <2>2, <3>1, <3>2 DEF LeftAlone
    <3> QED BY <1>1, <2>1, <3>1, <3>2, <3>5, <3>6, <3>7
            DEF AccountInv, BetweenTicks, InTheTick, Closing
  <2> QED BY <2>3, <2>4
<1>4. CASE DropNeverOpened
  <2>1. /\ pc = "drop" /\ pc' = "reconcile" /\ ~Opening /\ Booked' = Booked
    BY <1>1, <1>4 DEF DropNeverOpened, Opening, Acting, Booked
  <2>2. /\ mem = disk /\ Accounts(mem.pos, Booked, hist, qty) /\ (legs # {} => mem.pos # None)
        /\ LeftAlone(mem, legs, hist, qty)
    BY <2>1 DEF AccountInv, InTheTick
  <2>3. CASE UNCHANGED <<mem, disk>>
    BY <1>1, <2>1, <2>2, <2>3 DEF AccountInv, BetweenTicks, InTheTick, Closing
  <2>4. CASE ~UNCHANGED <<mem, disk>>
    <3>1. /\ mem.unfilled = "rejected" /\ Flat
          /\ mem' = [mem EXCEPT !.pos = None, !.unfilled = None] /\ disk' = mem'
      BY <1>4, <2>4 DEF DropNeverOpened
    <3>2. Exits(hist) = {} /\ legs = {}
      BY <2>2, <3>1 DEF LeftAlone
    <3>3. Accounts(None, Booked, hist, qty)
      BY <3>2 DEF Accounts, Accounted, ClosedLast
    <3>4. mem'.pos = None /\ LeftAlone(mem', legs, hist, qty)
      BY <3>1, AccountKnown
    <3> QED BY <1>1, <2>1, <3>1, <3>2, <3>3, <3>4 DEF AccountInv, BetweenTicks, InTheTick, Closing
  <2> QED BY <2>3, <2>4
<1>5. CASE Reconcile
  <2>1. /\ pc = "reconcile" /\ pc' \in {"record", "decide"} /\ ~Opening /\ Booked' = Booked
        /\ UNCHANGED <<mem, disk>>
    BY <1>1, <1>5 DEF Reconcile, Opening, Acting, Booked, fileVars, tickVars
  <2> QED BY <1>1, <2>1 DEF AccountInv, BetweenTicks, InTheTick, Closing
<1>6. ~PositionReadFails
  BY DEF PositionReadFails, Faultless
<1> QED BY <1>2, <1>3, <1>4, <1>5, <1>6

LEMMA DecideAccountInv ==
    ASSUME DriverInv, TripsInv, HonourInv, AccountInv, Decide
    PROVE  AccountInv'
<1>1. PICK hit \in BOOLEAN :
        /\ mem' = [mem EXCEPT !.pos = Step(mem.pos, signal, halt, hit).pos]
        /\ intents' = Step(mem.pos, signal, halt, hit).intents
  BY DEF Decide
<1>2. /\ pc = "decide" /\ pc' = "act" /\ at' = 1 /\ ~Opening /\ Booked' = Booked
      /\ UNCHANGED <<disk, qty, hist, legs>>
  BY DEF Decide, fileVars, brokerVars, Opening, Acting, Booked
<1>3. /\ mem'.pos = Step(mem.pos, signal, halt, hit).pos /\ mem'.unfilled = mem.unfilled
  BY <1>1, AccountKnown DEF State
<1>4. \/ mem'.pos = mem.pos /\ \A k \in DOMAIN intents' : intents'[k].action # "open"
      \/ /\ mem.pos = None /\ mem'.pos # None
         /\ 1 \in DOMAIN intents' /\ intents'[1].action = "open"
  <2>1. mem.pos \in Position \union {None} /\ signal \in Signals /\ halt \in BOOLEAN
    BY HonourKnown
  <2> QED BY <1>1, <1>3, <2>1, StepHolds
<1>5. /\ Accounts(mem.pos, Booked, hist, qty) /\ (legs # {} => mem.pos # None)
      /\ LeftAlone(mem, legs, hist, qty)
  BY <1>2 DEF AccountInv, InTheTick
<1>6. CASE mem'.pos = mem.pos /\ \A k \in DOMAIN intents' : intents'[k].action # "open"
  <2>1. ~Opening'
    BY <1>2, <1>6 DEF Opening, Acting, Current
  <2>2. LeftAlone(mem', legs, hist, qty)
    BY <1>3, <1>5, <1>6 DEF LeftAlone
  <2>3. mem.pos # None => Flat \/ mem.pos.short = (qty < 0)
    BY <1>2 DEF HonourInv
  <2> QED BY <1>2, <1>5, <1>6, <2>1, <2>2, <2>3
          DEF AccountInv, BetweenTicks, InTheTick, Closing, Flat
<1>7. CASE /\ mem.pos = None /\ mem'.pos # None
           /\ 1 \in DOMAIN intents' /\ intents'[1].action = "open"
  <2>1. Opening'
    BY <1>2, <1>7 DEF Opening, Acting, Current
  <2>2. Accounted(None, Booked, hist)
    BY <1>5, <1>7 DEF Accounts
  <2> QED BY <1>2, <1>7, <2>1, <2>2 DEF AccountInv, BetweenTicks, InTheTick, Closing
<1> QED BY <1>4, <1>6, <1>7

\* On to the next intent, with a position that accounts for what is booked.
LEMMA AccountsOn ==
    ASSUME DriverInv, DriverInv', at >= 1, NextIntent, UNCHANGED <<hist, qty, legs>>,
           Accounts(mem'.pos, Booked', hist, qty), legs # {} => mem'.pos # None,
           LeftAlone(mem', legs, hist, qty),
           mem'.pos # None => Flat \/ mem'.pos.short = (qty < 0)
    PROVE  AccountInv'
<1>1. pc' = "act" /\ ~Opening'
  BY NothingEnters DEF Entering, Opening, NextIntent
<1> QED BY <1>1 DEF AccountInv, BetweenTicks, InTheTick, Closing, Flat

\* Nothing is held, and nothing rests.
LEMMA AccountsOnEmpty ==
    ASSUME DriverInv, DriverInv', at >= 1, NextIntent, UNCHANGED <<hist, qty, legs>>,
           Accounts(None, Booked', hist, qty), legs = {},
           mem' = [mem EXCEPT !.pos = None, !.unfilled = None]
    PROVE  AccountInv'
<1>1. mem'.pos = None /\ LeftAlone(mem', legs, hist, qty)
  BY AccountKnown
<1> QED BY <1>1, AccountsOn

LEMMA EntryAccountInv ==
    ASSUME Faultless, DriverInv, DriverInv', PositionInv, TripsInv, HonourInv, AccountInv,
           SkipIntent \/ BeginOpen \/ SubmitRefused \/ PollEntry
    PROVE  AccountInv'
<1>1. /\ UNCHANGED <<hist, qty, legs, disk, intents, tickBar>> /\ Booked' = Booked /\ at >= 1
  BY DEF DriverInv, OpensRecorded, SkipIntent, BeginOpen, SubmitRefused, PollEntry, Acting,
         brokerVars, fileVars, Booked
<1>2. CASE SkipIntent
  <2>1. pc = "act" /\ ~Opening /\ NextIntent /\ UNCHANGED mem
    BY <1>2 DEF SkipIntent, Opening, Acting
  <2>2. /\ Accounts(mem.pos, Booked, hist, qty) /\ (legs # {} => mem.pos # None)
        /\ LeftAlone(mem, legs, hist, qty)
        /\ mem.pos # None => Flat \/ mem.pos.short = (qty < 0)
    BY <2>1 DEF AccountInv, InTheTick, Closing
  <2> QED BY <1>1, <2>1, <2>2, AccountsOn
<1>3. CASE BeginOpen
  <2>1. /\ pc = "act" /\ Opening /\ pc' = "submit" /\ Opening' /\ UNCHANGED mem
    BY <1>3 DEF BeginOpen, HonourInv, Faultless, Opening, Acting
  <2> QED BY <1>1, <2>1 DEF AccountInv, BetweenTicks, InTheTick, Closing
<1>4. CASE SubmitRefused
  <2>1. pc = "submit" /\ Opening /\ NextIntent /\ mem' = [mem EXCEPT !.pos = None, !.unfilled = None]
    BY <1>4 DEF SubmitRefused, Opening, EntryRefused
  <2>2. legs = {}
    BY <2>1, FlatHasNoLegs DEF PositionInv, Entering
  <2>3. Accounts(None, Booked, hist, qty)
    BY <2>1 DEF AccountInv, InTheTick, Accounts, ClosedLast
  <2> QED BY <1>1, <2>1, <2>2, <2>3, AccountsOnEmpty
<1>5. CASE PollEntry
  <2>1. pc = "poll" /\ NextIntent /\ mem.pos # None /\ mem.pos \in Position
    BY <1>5, AccountKnown DEF PollEntry, DriverInv, OpensRecorded
  <2>2. PICK e \in DOMAIN hist :
          /\ hist[e].of = "entry" /\ hist[e].bar = tickBar
          /\ \A i \in DOMAIN hist : hist[i].of = "entry" => i <= e
          /\ Accounts([short |-> mem.pos.short, fill |-> e], Booked, hist, qty)
    BY <2>1 DEF AccountInv, InTheTick, EntryAccounts
  <2>3. PICK d \in DOMAIN hist :
          /\ hist[d].of = "entry" /\ hist[d].bar = tickBar
          /\ \A i \in DOMAIN hist : hist[i].of = "entry" => i <= d
          /\ Stands([short |-> mem.pos.short, fill |-> d], Booked, hist, qty)
    BY <2>1 DEF TripsInv, EntryTaken
  <2>4. FillOfEntry(tickBar) = e /\ FillOfEntry(tickBar) = d /\ e # 0
    <3>1. FillOfEntry(tickBar) = e /\ FillOfEntry(tickBar) = d
      BY <2>2, <2>3, ExitsFound
    <3>2. \A i \in DOMAIN hist : i # 0
      BY AccountKnown
    <3> QED BY <3>1, <3>2
  <2>5. mem' = [mem EXCEPT !.pos.fill = e, !.unfilled = None]
    BY <1>5, <2>4 DEF PollEntry, PositionInv, Faultless, EntryFilled
  <2>6. mem'.pos = [short |-> mem.pos.short, fill |-> e] /\ mem'.unfilled = None
    BY <2>1, <2>5, AccountKnown DEF State, Position
  <2>7. mem'.pos # None /\ mem'.pos.short = mem.pos.short /\ mem'.pos.fill = e
    <3>1. mem'.pos \in [short : BOOLEAN, fill : Nat]
      BY <2>1, <2>6, AccountKnown DEF Position
    <3> QED BY <2>6, <3>1, DriverAssumption
  <2>8. Flat \/ mem'.pos.short = (qty < 0)
    BY <2>3, <2>4, <2>6, <2>7 DEF Stands, Flat
  <2>9. LeftAlone(mem', legs, hist, qty)
    BY <2>6, DriverAssumption DEF LeftAlone
  <2> QED BY <1>1, <2>1, <2>2, <2>6, <2>7, <2>8, <2>9, AccountsOn
<1> QED BY <1>2, <1>3, <1>4, <1>5

\* The entry of a flat account is its newest fill, and an exit of none.
LEMMA SubmitAccountInv ==
    ASSUME Prompt, DriverInv, DriverInv', PositionInv, TripsInv, AccountInv, SubmitAccepted
    PROVE  AccountInv'
<1> DEFINE order == [bar |-> tickBar, short |-> Current.short]
           fill == [buy |-> ~order.short, of |-> "entry", bar |-> tickBar]
           e == Len(hist) + 1
           pos == [short |-> mem.pos.short, fill |-> e]
<1>1. /\ UNCHANGED <<disk, mem, tickBar>> /\ Booked' = Booked /\ Opening
      /\ pc = "submit" /\ pc' = "poll" /\ hist' = Append(hist, fill)
  BY DEF SubmitAccepted, fileVars, tickVars, Booked, Opening, Filled, Prompt
<1>2. mem.pos # None
  BY <1>1 DEF DriverInv, OpensRecorded
<1>3. Accounted(None, Booked, hist)
  BY <1>1 DEF AccountInv, InTheTick
<1>4. fill.of = "entry" /\ fill.bar = tickBar
  OBVIOUS
<1> HIDE DEF fill
<1>5. /\ DOMAIN hist' = 1..e /\ e \in DOMAIN hist' /\ hist'[e] = fill /\ e \in Nat
      /\ \A i \in DOMAIN hist' : i <= e
      /\ \A i \in DOMAIN hist' : i # e => i \in DOMAIN hist /\ hist'[i] = hist[i]
  BY <1>1, AccountKnown
<1>6. pos.fill = e
  OBVIOUS
<1> HIDE DEF e, pos
<1>7. \A i \in Exits(hist') : i \in Exits(hist) /\ ~(e < i)
  BY <1>4, <1>5 DEF Exits
<1>8. Accounts(pos, Booked', hist', qty')
  BY <1>1, <1>3, <1>6, <1>7 DEF Accounts, Accounted, ClosedLast
<1>9. EntryAccounts(tickBar', mem'.pos.short, Booked', hist', qty')
  BY <1>1, <1>4, <1>5, <1>8 DEF EntryAccounts, pos
<1>10. Opening'
  BY <1>1 DEF Opening
<1> QED BY <1>1, <1>2, <1>9, <1>10 DEF AccountInv, BetweenTicks, InTheTick, Closing

LEMMA CloseAccountInv ==
    ASSUME Faultless, DriverInv, DriverInv', PositionInv, TripsInv, HonourInv, AccountInv,
           BeginClose \/ CancelOpenOrders \/ LookAtPosition \/ ClosePosition \/ AwaitClose
    PROVE  AccountInv'
<1>1. /\ UNCHANGED <<disk, intents, trades>> /\ ~Opening /\ at >= 1
      /\ pc \in {"act", "cancel", "look", "liquidate", "await"}
      /\ mem.pos # None
  <2>1. /\ pc \in {"act", "cancel", "look", "liquidate", "await"} /\ ~Opening
        /\ UNCHANGED <<disk, intents, trades>> /\ (pc = "act" => mem.pos # None)
    BY DEF BeginClose, CancelOpenOrders, LookAtPosition, ClosePosition, AwaitClose,
           Acting, Opening, fileVars
  <2> QED BY <2>1 DEF DriverInv, OpensRecorded, AccountInv, Closing
<1>2. /\ Accounts(mem.pos, Booked, hist, qty)
      /\ Flat \/ mem.pos.short = (qty < 0)
      /\ pc # "await" => LeftAlone(mem, legs, hist, qty)
  BY <1>1 DEF AccountInv, InTheTick, Closing
<1>3. CASE /\ UNCHANGED <<hist, qty, mem, booked>>
           /\ legs' \in {legs, {}} /\ pc' \in {"cancel", "look", "liquidate"}
           /\ pc # "await" /\ (pc' = "liquidate" => ~Flat)
  <2>1. ~Opening' /\ Booked' = Booked
    BY <1>1, <1>3 DEF Opening, Acting, Booked
  <2>2. LeftAlone(mem', legs', hist', qty')
    BY <1>2, <1>3 DEF LeftAlone
  <2> QED BY <1>1, <1>2, <1>3, <2>1, <2>2 DEF AccountInv, BetweenTicks, InTheTick, Closing, Flat
<1>4. CASE /\ UNCHANGED <<hist, qty, legs>> /\ Flat /\ legs = {} /\ Settle(Len(hist))
  <2>1. NextIntent /\ mem' = [mem EXCEPT !.pos = None, !.unfilled = None]
        /\ Booked' = trades \o (booked \o Settled(mem.pos, Len(hist)))
    BY <1>1, <1>4 DEF Settle, Booked
  <2>2. Accounts(None, Booked', hist, qty)
    <3>1. Accounted(mem.pos, trades \o booked, hist)
      BY <1>2 DEF Accounts, Booked
    <3>2. \A i \in Exits(hist) : mem.pos.fill < i => i = Len(hist)
      BY <1>1, <1>2 DEF Accounts, ClosedLast
    <3>3. /\ trades \in Seq(Leg) /\ booked \in Seq(Leg) /\ Len(hist) \in Nat
          /\ mem.pos \in Position \union {None}
      BY AccountKnown
    <3> QED BY <2>1, <3>1, <3>2, <3>3, SettledAccounts
  <2> QED BY <1>1, <1>4, <2>1, <2>2, AccountsOnEmpty
<1>5. CASE BeginClose
  BY <1>3, <1>5 DEF BeginClose, HonourInv, Acting, brokerVars
<1>6. CASE CancelOpenOrders
  BY <1>3, <1>6 DEF CancelOpenOrders, Faultless
<1>7. CASE LookAtPosition
  <2>1. legs = {}
    BY <1>7 DEF LookAtPosition, PositionInv
  <2> QED BY <1>3, <1>4, <1>7, <2>1 DEF LookAtPosition, Faultless, HonourInv, LastFill, brokerVars
<1>8. CASE ClosePosition
  <2> DEFINE fill == [buy |-> qty < 0, of |-> "close", bar |-> 0]
  <2>1. pc = "liquidate" /\ ~Flat /\ legs = {}
    BY <1>8 DEF ClosePosition, AccountInv, Closing, PositionInv
  <2>2. /\ qty' = 0 /\ hist' = Append(hist, fill) /\ exitOrder' = "filled" /\ pc' = "await"
        /\ UNCHANGED <<mem, booked, legs>>
    BY <1>8, <2>1 DEF ClosePosition, Liquidate, Faultless
  <2>3. fill \in Fill /\ fill.buy = (qty < 0)
    BY DEF Fill
  <2> HIDE DEF fill
  <2>4. Accounts(mem.pos, Booked, hist', 0)
    <3>1. Stands(mem.pos, Booked, hist, qty)
      BY <1>1 DEF TripsInv
    <3>2. mem.pos.fill \in Nat /\ mem.pos.fill <= Len(hist) /\ qty # 0
          /\ fill.buy = mem.pos.short
      BY <1>1, <1>2, <2>1, <2>3, <3>1, AccountKnown DEF Stands, Position, Flat
    <3>3. hist \in Seq(Fill)
      BY AccountKnown
    <3> QED BY <1>1, <1>2, <2>2, <2>3, <3>2, <3>3, AccountsClosed
  <2>5. ~Opening' /\ Booked' = Booked
    BY <1>1, <2>2 DEF Opening, Acting, Booked
  <2> QED BY <1>1, <2>1, <2>2, <2>4, <2>5 DEF AccountInv, BetweenTicks, InTheTick, Closing, Flat
<1>9. CASE AwaitClose
  <2>1. Flat /\ FillOfExit = Len(hist) /\ legs = {} /\ exitOrder = "filled"
    BY <1>9, ExitsFound DEF AwaitClose, TripsInv, PositionInv, AccountInv, Closing
  <2> QED BY <1>4, <1>9, <2>1 DEF AwaitClose, Faultless, brokerVars
<1> QED BY <1>5, <1>6, <1>7, <1>8, <1>9

\* The resting exit fires behind a position the driver knows of.
LEMMA FireAccountInv ==
    ASSUME DriverInv, DriverInv', PositionInv, TripsInv, PricedInv, AccountInv, Account
    PROVE  AccountInv'
<1>1. /\ UNCHANGED <<trades, disk, booked, intents, at, mem, tickBar, pc>>
      /\ Booked' = Booked /\ Opening' = Opening
  BY DEF Account, fileVars, tickVars, Booked, Opening, Acting, Current
<1>2. PICK order \in legs :
        /\ qty' = qty - Towards(order.short) /\ legs' = legs \ {order}
        /\ hist' = Append(hist, [buy |-> order.short, of |-> "leg", bar |-> order.bar])
  BY DEF Account, AccountMoves, FillEntry, ExpireEntry, FillExit, FireLeg, PositionInv
<1> DEFINE fill == [buy |-> order.short, of |-> "leg", bar |-> order.bar]
<1>3. order \in Order /\ qty = Towards(order.short) /\ legs' = {}
  BY <1>2 DEF DriverInv, TypeOK, BrokerTypeOK, PositionInv
<1>4. fill \in Fill /\ fill.of # "entry" /\ fill.buy = order.short
  BY <1>3 DEF Order, Fill
<1>5. ~Flat /\ qty # 0 /\ qty' = 0 /\ order.short = (qty < 0)
  BY <1>2, <1>3 DEF Order, Towards, Flat
<1>6. pc \notin {"look", "liquidate", "await"} /\ legs # {}
  BY <1>2 DEF PositionInv
<1> HIDE DEF fill
<1>7. hist' = Append(hist, fill)
  BY <1>2 DEF fill
<1>8. ASSUME NEW state \in State, NEW log, state.pos # None, Priced(state),
             LeftAlone(state, legs, hist, qty), Stands(state.pos, log, hist, qty),
             Accounts(state.pos, log, hist, qty)
      PROVE  Accounts(state.pos, log, hist', 0) /\ LeftAlone(state, {}, hist', 0)
  <2>1. state.unfilled # "rejected" /\ state.unfilled = None
    BY <1>6, <1>8 DEF LeftAlone, State
  <2>2. state.pos.fill # 0 /\ state.pos.fill \in Nat
    BY <1>8, <2>1 DEF Priced, State, Position
  <2>3. state.pos.fill <= Len(hist) /\ fill.buy = state.pos.short
    BY <1>4, <1>5, <1>8, <2>2 DEF Stands
  <2>4. hist \in Seq(Fill)
    BY AccountKnown
  <2>5. Accounts(state.pos, log, hist', 0)
    BY <1>4, <1>5, <1>7, <1>8, <2>2, <2>3, <2>4, AccountsClosed
  <2>6. LeftAlone(state, {}, hist', 0)
    BY <1>8, <2>1 DEF LeftAlone
  <2> QED BY <2>5, <2>6
<1>9. CASE pc = "idle"
  <2>1. /\ disk.pos # None /\ LeftAlone(disk, legs, hist, qty)
        /\ Accounts(disk.pos, trades, hist, qty) /\ Priced(disk)
        /\ Stands(disk.pos, trades, hist, qty) /\ disk \in State
    BY <1>6, <1>9, AccountKnown DEF AccountInv, BetweenTicks, PricedInv, TripsInv
  <2>2. Accounts(disk.pos, trades, hist', 0) /\ LeftAlone(disk, {}, hist', 0)
    BY <1>8, <2>1
  <2> QED BY <1>1, <1>3, <1>5, <1>9, <2>2 DEF AccountInv, BetweenTicks, InTheTick, Closing
<1>10. CASE pc # "idle" /\ ~Opening
  <2>1. /\ mem.pos # None /\ LeftAlone(mem, legs, hist, qty)
        /\ Accounts(mem.pos, Booked, hist, qty) /\ Priced(mem)
        /\ Stands(mem.pos, Booked, hist, qty) /\ mem \in State
    BY <1>6, <1>10, AccountKnown DEF AccountInv, InTheTick, PricedInv, TripsInv
  <2>2. Accounts(mem.pos, Booked, hist', 0) /\ LeftAlone(mem, {}, hist', 0)
    BY <1>8, <2>1
  <2> QED BY <1>1, <1>3, <1>5, <1>6, <1>10, <2>2
          DEF AccountInv, BetweenTicks, InTheTick, Closing, Flat, Opening
<1>11. CASE Opening
  <2>1. pc = "poll"
    BY <1>5, <1>11 DEF Opening, PositionInv, Entering
  <2>2. mem.pos # None /\ mem.pos.short \in BOOLEAN
    BY <2>1, AccountKnown DEF DriverInv, OpensRecorded, Position
  <2>3. PICK d \in DOMAIN hist : Stands([short |-> mem.pos.short, fill |-> d], Booked, hist, qty)
    BY <2>1 DEF TripsInv, EntryTaken
  <2>4. fill.buy = mem.pos.short
    <3> DEFINE pos == [short |-> mem.pos.short, fill |-> d]
    <3>1. d # 0 /\ d \in Nat
      BY AccountKnown
    <3>2. pos \in [short : BOOLEAN, fill : Nat] /\ pos.short = mem.pos.short /\ pos.fill = d
      BY <2>2, <3>1
    <3>3. pos # None
      BY <3>2, DriverAssumption
    <3> HIDE DEF pos
    <3> QED BY <1>4, <1>5, <2>3, <3>1, <3>2, <3>3 DEF Stands, pos
  <2>5. EntryAccounts(tickBar, mem.pos.short, Booked, hist, qty)
    BY <2>1 DEF AccountInv, InTheTick
  <2>6. hist \in Seq(Fill)
    BY AccountKnown
  <2>7. EntryAccounts(tickBar, mem.pos.short, Booked, hist', 0)
    BY <1>4, <1>5, <1>7, <2>2, <2>4, <2>5, <2>6, EntryAccountsClosed
  <2> QED BY <1>1, <1>3, <1>5, <1>11, <2>1, <2>7
          DEF AccountInv, BetweenTicks, InTheTick, Closing
<1>12. Opening \/ pc = "idle" \/ (pc # "idle" /\ ~Opening)
  OBVIOUS
<1> QED BY <1>9, <1>10, <1>11, <1>12

\* Up to the first crash.
LogInv == crashes = 0 => AccountInv

LEMMA NextLogInv ==
    ASSUME Faultless, DriverInv, DriverInv', PositionInv, TripsInv, PricedInv, HonourInv,
           LogInv, [Next]_vars
    PROVE  LogInv'
<1> SUFFICES ASSUME crashes' = 0 PROVE AccountInv'
  BY DEF LogInv
<1>1. ~Crash /\ ~FlipSwitch
  BY DEF Crash, FlipSwitch, Faultless, DriverInv, TypeOK
<1>2. crashes = 0
  BY <1>1 DEF Next, Tick, StartTick, AdoptExit, AdoptPosition, DropNeverOpened, Reconcile,
     PositionReadFails, Decide, SkipIntent, BeginOpen, SubmitAccepted, SubmitRefused,
     PollEntry, BeginClose, CancelOpenOrders, LookAtPosition, ClosePosition, AwaitClose,
     SaveState, RecordTick, NewBar, Account, envVars, vars
<1>3. AccountInv
  BY <1>2 DEF LogInv
<1>4. CASE SaveState
  <2>1. /\ at \notin DOMAIN intents /\ pc = "act" /\ pc' = "record" /\ ~Opening /\ ~Opening'
        /\ UNCHANGED <<qty, hist, legs>> /\ Booked' = Booked
    <3>1. at \notin DOMAIN intents
      BY <1>4 DEF SaveState, DriverInv, TypeOK
    <3> QED BY <1>4, <3>1 DEF SaveState, Opening, Acting, brokerVars, Booked
  <2>2. mem'.pos = mem.pos /\ mem'.unfilled = mem.unfilled /\ disk' = mem'
    BY <1>4, AccountKnown DEF SaveState, State
  <2>3. LeftAlone(mem, legs, hist, qty) => LeftAlone(mem', legs, hist, qty)
    BY <2>2 DEF LeftAlone
  <2> QED BY <1>3, <2>1, <2>2, <2>3 DEF AccountInv, BetweenTicks, InTheTick, Closing
<1>5. CASE RecordTick
  <2>1. /\ pc = "record" /\ pc' = "idle" /\ ~Opening /\ ~Opening' /\ trades' = Booked
        /\ UNCHANGED <<qty, hist, legs, disk, mem>>
    BY <1>5 DEF RecordTick, Opening, Acting, brokerVars, Booked
  <2> QED BY <1>3, <2>1 DEF AccountInv, BetweenTicks, InTheTick, Closing
<1>6. CASE NewBar \/ UNCHANGED vars
  <2>1. /\ UNCHANGED <<qty, hist, legs, exitOrder, disk, mem, pc, intents, at, trades, booked, tickBar>>
    BY <1>6 DEF NewBar, vars, brokerVars, fileVars, tickVars
  <2>2. Opening' = Opening /\ Booked' = Booked
    BY <2>1 DEF Opening, Acting, Current, Booked
  <2> QED BY <1>3, <2>1, <2>2 DEF AccountInv, BetweenTicks, InTheTick, Closing, Flat
<1>7. Prompt
  BY DEF Faultless, Prompt
<1> QED BY <1>1, <1>3, <1>4, <1>5, <1>6, <1>7, AdoptExitAccountInv, PreparationAccountInv,
           DecideAccountInv, EntryAccountInv, SubmitAccountInv, CloseAccountInv, FireAccountInv
        DEF Next, Tick

\* Of an account without faults, while the switch stays on and the process lives,
\* every exit is a row of trades.jsonl, or newer than the position the state file
\* holds: the next tick books it (adopt_broker_exit, on_bar_closed).
THEOREM LogTellsTheAccount == Faultless => (Spec => []LogMatchesAccount)
<1>1. LogInv => LogMatchesAccount
  BY DEF LogInv, AccountInv, BetweenTicks, Accounts, Accounted, Exits, LogMatchesAccount, ExitFills
<1>2. Faultless => Prompt /\ Undisturbed
  BY DEF Faultless, Undisturbed, Prompt
<1>3. DriverInv /\ TripsInv => Bought
  BY TripsBought
<1>4. Prompt /\ DriverInv /\ DriverInv' /\ PositionInv /\ [Next]_vars => PositionInv'
  BY NextPositionInv
<1>5. Prompt /\ DriverInv /\ DriverInv' /\ PositionInv /\ TripsInv /\ [Next]_vars => TripsInv'
  BY NextTripsInv
<1>6. DriverInv /\ PricedInv /\ Bought /\ [Next]_vars => PricedInv'
  BY NextPricedInv
<1>7. Undisturbed /\ DriverInv /\ DriverInv' /\ PositionInv /\ HonourInv /\ [Next]_vars
        => HonourInv'
  BY NextHonourInv
<1>8. Faultless /\ DriverInv /\ DriverInv' /\ PositionInv /\ TripsInv /\ PricedInv /\ HonourInv
        /\ LogInv /\ [Next]_vars => LogInv'
  BY NextLogInv
<1>9. (Undisturbed => Undisturbed') /\ (Prompt => Prompt') /\ (Faultless => Faultless')
  BY DEF Undisturbed, Prompt, Faultless
<1>10. Init => LogInv
  BY InitAccountInv DEF LogInv
<1> QED BY <1>1, <1>2, <1>3, <1>4, <1>5, <1>6, <1>7, <1>8, <1>9, <1>10, InitPositionInv,
           InitTripsInv, InitPricedInv, InitHonourInv, DriverInvariant, PTL DEF Spec

=============================================================================
