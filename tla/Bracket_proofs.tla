----------------------------- MODULE Bracket_proofs -----------------------------
(***************************************************************************)
(* Proofs, for any number of retries, reads, shares and crashes, of what   *)
(* OrderRequestProps says of an entry; and, for any settings and prices,   *)
(* of what BracketProps says of a position and its exits.                  *)
(*                                                                         *)
(* Whatever the bracket does, the entry is one that OrderRequest describes, *)
(* so all that is proved of the request holds of the bracket: there is one *)
(* order, which is made once and then moves on.                            *)
(* What a tick does besides is bounded: it takes a number of steps that    *)
(* neither the broker nor a crash can add to.                              *)
(***************************************************************************)
EXTENDS BracketProps, TLAPS

(***************************************************************************)
(* What a step may do to the broker's orders.  There is one id, so an      *)
(* order is made once, and a made order only moves on.                     *)
(***************************************************************************)
Made0 ==
    /\ orders[0] = NoOrder
    /\ \E o \in Order : Possible(o) /\ orders' = [orders EXCEPT ![0] = o]

MovedOn ==
    \E id \in Ids, o \in Order :
        /\ orders[id].status = "working"
        /\ Possible(o) /\ o.bought >= orders[id].bought
        /\ orders' = [orders EXCEPT ![id] = o]

BrokerStep == UNCHANGED orders \/ Made0 \/ MovedOn

\* Nothing goes by another id, and an order that was not made has no shares.
OneId ==
    /\ late \subseteq {0}
    /\ \A id \in Ids : orders[id] = NoOrder \/ (id = 0 /\ Possible(orders[id]))

\* What nobody has heard of is remembered in unheard.
Heard ==
    /\ late # {} => unheard
    /\ pc \in {"call", "send"} /\ orders[0] # NoOrder => unheard
    /\ pc = "poll" => orders[0] # NoOrder

\* An answer is given once, when the call ends.
Pending == pc # "done" => answer = NoFill

RequestInv == OrderTypeOK /\ OneId /\ Heard /\ Pending /\ KeptEntryIsReal /\ RefusalIsFinal

LEMMA ZeroIsAnId == 0 \in Ids
  BY RequestAssumption DEF Ids

LEMMA ConstantTypes ==
  /\ NoOrder \in Order /\ NoFill \in Fill /\ Rejected \in Fill
  /\ 0 \in 0..MaxReads /\ 0 \in 0..MaxCrashes
  BY RequestAssumption DEF NoOrder, Order, Statuses, NoFill, Rejected, Fill

LEMMA InitTypeOK == Init => OrderTypeOK
<1> SUFFICES ASSUME Init PROVE OrderTypeOK
  OBVIOUS
<1>1. orders \in [Ids -> Order] /\ late \in SUBSET Ids
  BY ConstantTypes DEF Init
<1>2. pc \in {"call", "send", "poll", "done"} /\ attempt \in Ids /\ answer \in Fill
  BY ConstantTypes, ZeroIsAnId DEF Init
<1>3. reads \in 0..MaxReads /\ crashes \in 0..MaxCrashes
  BY ConstantTypes DEF Init
<1>4. unheard \in BOOLEAN
  BY DEF Init
<1> QED
  BY <1>1, <1>2, <1>3, <1>4 DEF OrderTypeOK

LEMMA RecordType ==
  ASSUME NEW o \in Order
  PROVE  Record(o) \in Fill
  BY RequestAssumption DEF Record, Order, Fill, Rejected

LEMMA ReadType == OrderTypeOK => orders[0] \in Order
  BY ZeroIsAnId DEF OrderTypeOK

\* An order that has a status is one.
LEMMA MadeIsOrdered ==
  ASSUME OneId, NEW id \in Ids
  PROVE  orders[id].status # "none" <=> orders[id] # NoOrder
  BY DEF OneId, Possible, NoOrder

\* Every step of the specification treats the orders as the broker does.
LEMMA StepOfBroker ==
  ASSUME OrderTypeOK, OneId, [Next]_vars
  PROVE  BrokerStep
<1>1. CASE Tick
  <2>1. CASE Submit
    BY <2>1 DEF Submit, client_id, Takes, Made0, BrokerStep
  <2>2. CASE Unanswered
    BY <2>2 DEF Unanswered, client_id, Takes, Made0, BrokerStep, brokerVars
  <2>3. CASE Refuse \/ Begin \/ Verdict \/ Poll \/ PollFails
    BY <2>3 DEF Refuse, Begin, Verdict, Poll, PollFails, BrokerStep, brokerVars
  <2> QED
    BY <1>1, <2>1, <2>2, <2>3 DEF Tick
<1>2. CASE OrderMoves
  BY <1>2 DEF OrderMoves, MovedOn, BrokerStep
<1>3. CASE LateArrival
  BY <1>3 DEF LateArrival, OneId, Takes, Made0, BrokerStep
<1>4. CASE Crash \/ LateLoss \/ Finished \/ UNCHANGED vars
  BY <1>4 DEF Crash, LateLoss, Finished, vars, brokerVars, BrokerStep
<1> QED
  BY <1>1, <1>2, <1>3, <1>4 DEF Next

LEMMA BrokerStepType ==
  ASSUME OrderTypeOK, BrokerStep
  PROVE  orders' \in [Ids -> Order]
  BY ZeroIsAnId DEF OrderTypeOK, BrokerStep, Made0, MovedOn

(***************************************************************************)
(* The types.                                                              *)
(***************************************************************************)
LEMMA StepTypeOK ==
  ASSUME OrderTypeOK, OneId, [Next]_vars
  PROVE  OrderTypeOK'
<1> USE ZeroIsAnId, RequestAssumption
<1>0. orders' \in [Ids -> Order]
  BY StepOfBroker, BrokerStepType
<1>1. CASE Refuse \/ Verdict \/ PollFails
  <2>1. pc' = "done" /\ answer' = Rejected /\ UNCHANGED <<late, attempt, reads, crashes>>
    BY <1>1 DEF Refuse, Verdict, PollFails, Return, brokerVars
  <2>2. unheard' \in BOOLEAN
    BY <1>1 DEF Refuse, Verdict, PollFails, OrderTypeOK
  <2> QED
    BY <1>0, <2>1, <2>2, ConstantTypes DEF OrderTypeOK
<1>2. CASE Begin
  BY <1>0, <1>2 DEF Begin, OrderTypeOK, brokerVars
<1>3. CASE Submit
  <2>1. orders'[0] \in Order
    BY <1>0
  <2>2. Receive(orders'[0]) /\ UNCHANGED <<late, attempt, unheard, crashes>>
    BY <1>3 DEF Submit, client_id
  <2>3. pc' \in {"done", "poll"} /\ reads' \in 0..MaxReads /\ answer' \in Fill
    BY <2>1, <2>2, RecordType DEF Receive, Return, OrderTypeOK
  <2> QED
    BY <1>0, <2>2, <2>3 DEF OrderTypeOK
<1>4. CASE Unanswered
  <2>1. late' \in SUBSET Ids /\ unheard' \in BOOLEAN /\ UNCHANGED <<reads, crashes>>
    BY <1>4 DEF Unanswered, client_id, brokerVars, OrderTypeOK
  <2>2. attempt' \in Ids /\ pc' \in {"send", "done"} /\ answer' \in Fill
    BY <1>4 DEF Unanswered, AttemptsLeft, Retry, GiveUp, Return, Rejected, Fill, Ids, OrderTypeOK
  <2> QED
    BY <1>0, <2>1, <2>2 DEF OrderTypeOK
<1>5. CASE Poll
  <2>1. Record(orders[0]) \in Fill
    BY ReadType, RecordType
  <2>2. pc' \in {"poll", "done"} /\ answer' \in Fill /\ reads' \in 0..MaxReads
    BY <1>5, <2>1 DEF Poll, client_id, Return, OrderTypeOK
  <2> QED
    BY <1>0, <1>5, <2>2 DEF Poll, OrderTypeOK, brokerVars
<1>6. CASE OrderMoves \/ LateArrival \/ LateLoss
  BY <1>0, <1>6 DEF OrderMoves, LateArrival, LateLoss, OrderTypeOK, callVars
<1>7. CASE Crash
  <2>1. late' \in SUBSET Ids
    BY <1>7 DEF Crash, client_id, OrderTypeOK
  <2>2. unheard' \in BOOLEAN /\ crashes' \in 0..MaxCrashes
    BY <1>7 DEF Crash, OrderTypeOK
  <2> QED
    BY <1>0, <1>7, <2>1, <2>2 DEF Crash, NoFill, Fill, OrderTypeOK
<1>8. CASE Finished \/ UNCHANGED vars
  BY <1>0, <1>8 DEF Finished, vars, brokerVars, callVars, OrderTypeOK
<1> QED
  BY <1>1, <1>2, <1>3, <1>4, <1>5, <1>6, <1>7, <1>8 DEF Next, Tick

(***************************************************************************)
(* One id.                                                                 *)
(***************************************************************************)
LEMMA OrdersStayOneId ==
  ASSUME OrderTypeOK, OneId, BrokerStep
  PROVE  \A id \in Ids : orders'[id] = NoOrder \/ (id = 0 /\ Possible(orders'[id]))
<1>1. CASE UNCHANGED orders
  BY <1>1 DEF OneId
<1>2. CASE Made0
  BY <1>2 DEF OneId, Made0, OrderTypeOK
<1>3. CASE MovedOn
  <2>1. PICK id \in Ids, o \in Order :
          /\ orders[id].status = "working"
          /\ Possible(o)
          /\ orders' = [orders EXCEPT ![id] = o]
    BY <1>3 DEF MovedOn
  <2>2. id = 0
    BY <2>1 DEF OneId, NoOrder
  <2> QED
    BY <2>1, <2>2 DEF OneId, OrderTypeOK
<1> QED
  BY <1>1, <1>2, <1>3 DEF BrokerStep

LEMMA StepOneId ==
  ASSUME OrderTypeOK, OneId, [Next]_vars
  PROVE  OneId'
<1>1. late' \subseteq {0}
  <2>1. CASE Unanswered
    BY <2>1 DEF Unanswered, client_id, OneId, brokerVars
  <2>2. CASE Crash
    BY <2>2 DEF Crash, client_id, OneId
  <2>3. CASE LateArrival \/ LateLoss
    BY <2>3 DEF LateArrival, LateLoss, OneId
  <2>4. CASE Refuse \/ Begin \/ Submit \/ Verdict \/ Poll \/ PollFails
    BY <2>4 DEF Refuse, Begin, Submit, Verdict, Poll, PollFails, brokerVars, OneId
  <2>5. CASE OrderMoves \/ Finished \/ UNCHANGED vars
    BY <2>5 DEF OrderMoves, Finished, vars, brokerVars, OneId
  <2> QED
    BY <2>1, <2>2, <2>3, <2>4, <2>5 DEF Next, Tick
<1> QED
  BY <1>1, StepOfBroker, OrdersStayOneId DEF OneId

\* A made order stays made, and keeps what it has bought.
LEMMA MadeStaysMade ==
  ASSUME OrderTypeOK, BrokerStep, NEW id \in Ids
  PROVE  /\ id \in Made => id \in Made'
         /\ BoughtBy'[id] >= BoughtBy[id]
         /\ Terminal(orders[id]) => orders'[id] = orders[id]
<1>1. CASE UNCHANGED orders
  <2>1. orders[id].bought \in Nat
    BY RequestAssumption DEF OrderTypeOK, Order
  <2> QED
    BY <1>1, <2>1 DEF Made, BoughtBy
<1>2. CASE Made0
  <2>1. PICK o \in Order : Possible(o) /\ orders' = [orders EXCEPT ![0] = o]
    BY <1>2 DEF Made0
  <2>2. orders[id].bought \in Nat /\ o.bought \in Nat
    BY RequestAssumption DEF OrderTypeOK, Order
  <2>3. CASE id = 0
    BY <1>2, <2>1, <2>2, <2>3, ZeroIsAnId
       DEF Made0, NoOrder, Made, BoughtBy, Possible, Terminal, OrderTypeOK
  <2>4. CASE id # 0
    BY <2>1, <2>2, <2>4 DEF Made, BoughtBy, OrderTypeOK
  <2> QED
    BY <2>3, <2>4
<1>3. CASE MovedOn
  <2>1. PICK moved \in Ids, o \in Order :
          /\ orders[moved].status = "working"
          /\ Possible(o) /\ o.bought >= orders[moved].bought
          /\ orders' = [orders EXCEPT ![moved] = o]
    BY <1>3 DEF MovedOn
  <2>2. orders[id].bought \in Nat /\ o.bought \in Nat
    BY RequestAssumption DEF OrderTypeOK, Order
  <2>3. CASE id = moved
    BY <2>1, <2>2, <2>3 DEF Made, BoughtBy, Possible, Terminal, OrderTypeOK
  <2>4. CASE id # moved
    BY <2>1, <2>2, <2>4 DEF Made, BoughtBy, OrderTypeOK
  <2> QED
    BY <2>3, <2>4
<1> QED
  BY <1>1, <1>2, <1>3 DEF BrokerStep

(***************************************************************************)
(* What has been heard, and when an answer is given.                       *)
(***************************************************************************)
LEMMA StepPending ==
  ASSUME Pending, [Next]_vars
  PROVE  Pending'
<1>1. CASE Refuse \/ Verdict \/ PollFails \/ Begin
  BY <1>1 DEF Refuse, Verdict, PollFails, Begin, Return, Pending
<1>2. CASE Submit
  BY <1>2 DEF Submit, Receive, Return, Pending
<1>3. CASE Unanswered
  BY <1>3 DEF Unanswered, Retry, GiveUp, Return, Pending
<1>4. CASE Poll
  BY <1>4 DEF Poll, Return, Pending
<1>5. CASE OrderMoves \/ LateArrival \/ LateLoss \/ Crash \/ Finished \/ UNCHANGED vars
  BY <1>5 DEF OrderMoves, LateArrival, LateLoss, Crash, Finished, vars, callVars, Pending
<1> QED
  BY <1>1, <1>2, <1>3, <1>4, <1>5 DEF Next, Tick

LEMMA StepHeard ==
  ASSUME OrderTypeOK, OneId, Heard, [Next]_vars
  PROVE  Heard'
<1> USE ZeroIsAnId
<1>1. CASE Refuse \/ Begin \/ Verdict \/ PollFails
  BY <1>1 DEF Refuse, Begin, Verdict, PollFails, Return, brokerVars, Heard
<1>2. CASE Submit
  <2>1. UNCHANGED <<late, unheard>> /\ pc' \in {"done", "poll"}
    BY <1>2 DEF Submit, Receive, Return
  <2>2. orders'[0] # NoOrder
    BY <1>2 DEF Submit, client_id, Takes, Possible, NoOrder, OrderTypeOK
  <2> QED
    BY <2>1, <2>2 DEF Heard
<1>3. CASE Unanswered
  BY <1>3 DEF Unanswered, Retry, GiveUp, Return, Heard
<1>4. CASE Poll
  BY <1>4 DEF Poll, Return, brokerVars, Heard
<1>5. CASE OrderMoves
  <2>1. UNCHANGED <<late, pc, unheard>> /\ MovedOn
    BY <1>5 DEF OrderMoves, MovedOn, callVars
  <2>2. orders[0] # NoOrder /\ orders'[0] # NoOrder
    BY <2>1 DEF MovedOn, OneId, Possible, NoOrder, OrderTypeOK
  <2> QED
    BY <2>1, <2>2 DEF Heard
<1>6. CASE LateArrival
  <2>1. unheard' /\ UNCHANGED pc
    BY <1>6 DEF LateArrival, Heard, callVars
  <2>2. orders[0] # NoOrder => orders'[0] # NoOrder
    BY <1>6 DEF LateArrival, Takes, Possible, NoOrder, OrderTypeOK
  <2> QED
    BY <2>1, <2>2 DEF Heard
<1>7. CASE LateLoss
  BY <1>7 DEF LateLoss, callVars, Heard
<1>8. CASE Crash
  <2>1. pc' = "call" /\ UNCHANGED orders /\ unheard' = (pc # "call" \/ unheard)
    BY <1>8 DEF Crash
  <2>2. late' # {} => late # {} \/ pc = "send"
    BY <1>8 DEF Crash
  <2> QED
    BY <2>1, <2>2 DEF Heard
<1>9. CASE Finished \/ UNCHANGED vars
  BY <1>9 DEF Finished, vars, brokerVars, callVars, Heard
<1> QED
  BY <1>1, <1>2, <1>3, <1>4, <1>5, <1>6, <1>7, <1>8, <1>9 DEF Next, Tick

(***************************************************************************)
(* What an answer says of the order.  It is true of what the broker has    *)
(* when it is given, and the order only moves on after that.               *)
(***************************************************************************)
GivesAnswer ==
    \/ answer' = answer
    \/ answer' = NoFill
    \/ answer' = Rejected
    \/ answer' = Record(orders'[0]) /\ 0 \in Made'

LEMMA StepGivesAnswer ==
  ASSUME OrderTypeOK, OneId, Heard, [Next]_vars
  PROVE  GivesAnswer
<1> USE ZeroIsAnId
<1>1. CASE Refuse \/ Verdict \/ PollFails \/ Begin
  BY <1>1 DEF Refuse, Verdict, PollFails, Begin, Return, GivesAnswer
<1>2. CASE Submit
  <2>1. orders'[0].status # "none"
    BY <1>2 DEF Submit, client_id, Takes, Possible, OrderTypeOK
  <2> QED
    BY <1>2, <2>1 DEF Submit, client_id, Receive, Return, GivesAnswer, Made
<1>3. CASE Unanswered
  BY <1>3 DEF Unanswered, Retry, GiveUp, Return, GivesAnswer
<1>4. CASE Poll
  <2>1. UNCHANGED orders /\ (answer' = answer \/ answer' = Record(orders[0]))
    BY <1>4 DEF Poll, client_id, Return, brokerVars
  <2>2. orders[0].status # "none"
    BY <1>4, MadeIsOrdered DEF Poll, Heard
  <2>3. 0 \in Made'
    BY <2>1, <2>2 DEF Made
  <2> QED
    BY <2>1, <2>3 DEF GivesAnswer
<1>5. CASE OrderMoves \/ LateArrival \/ LateLoss \/ Crash \/ Finished \/ UNCHANGED vars
  BY <1>5 DEF OrderMoves, LateArrival, LateLoss, Crash, Finished, vars, callVars, GivesAnswer
<1> QED
  BY <1>1, <1>2, <1>3, <1>4, <1>5 DEF Next, Tick

LEMMA StepKept ==
  ASSUME OrderTypeOK, OneId, Heard, KeptEntryIsReal, [Next]_vars
  PROVE  KeptEntryIsReal'
<1> USE ZeroIsAnId
<1>1. BrokerStep
  BY StepOfBroker
<1>2. CASE answer' = answer
  <2>1. ASSUME answer.status = "filled"
        PROVE  answer.quantity > 0 /\ \E id \in Made' : BoughtBy'[id] >= answer.quantity
    <3>1. PICK id \in Made : BoughtBy[id] >= answer.quantity
      BY <2>1 DEF KeptEntryIsReal
    <3>2. id \in Ids
      BY DEF Made
    <3>3. id \in Made' /\ BoughtBy'[id] >= BoughtBy[id]
      BY <1>1, <3>2, MadeStaysMade
    <3>4. BoughtBy[id] \in Nat /\ BoughtBy'[id] \in Nat /\ answer.quantity \in Nat
      BY <1>1, <3>2, BrokerStepType, RequestAssumption DEF BoughtBy, OrderTypeOK, Order, Fill
    <3> QED
      BY <2>1, <3>1, <3>3, <3>4 DEF KeptEntryIsReal
  <2>2. ASSUME answer.status = "no_fill"
        PROVE  Made' # {}
    <3>1. PICK id \in Made : TRUE
      BY <2>2 DEF KeptEntryIsReal
    <3> QED
      BY <1>1, <3>1, MadeStaysMade DEF Made
  <2> QED
    BY <1>2, <2>1, <2>2 DEF KeptEntryIsReal
<1>3. CASE answer' = NoFill \/ answer' = Rejected
  BY <1>3 DEF NoFill, Rejected, KeptEntryIsReal
<1>4. CASE answer' = Record(orders'[0]) /\ 0 \in Made'
  <2>1. orders'[0].bought \in Nat
    BY <1>1, BrokerStepType, RequestAssumption DEF Order
  <2>2. BoughtBy'[0] = orders'[0].bought
    BY DEF BoughtBy
  <2> QED
    BY <1>4, <2>1, <2>2 DEF Record, Rejected, KeptEntryIsReal
<1> QED
  BY <1>2, <1>3, <1>4, StepGivesAnswer DEF GivesAnswer

LEMMA StepRefusal ==
  ASSUME OrderTypeOK, OneId, Heard, Pending, RefusalIsFinal, [Next]_vars
  PROVE  RefusalIsFinal'
<1> USE ZeroIsAnId
<1>1. SUFFICES ASSUME answer' = Rejected, ~unheard'
               PROVE  \A id \in Made' : Terminal(orders'[id])
  BY DEF RefusalIsFinal
<1>2. BrokerStep /\ OneId'
  BY StepOfBroker, StepOneId
<1>3. SUFFICES orders'[0] # NoOrder => Terminal(orders'[0])
  BY <1>2 DEF OneId, Made, NoOrder
<1>4. CASE Refuse \/ Verdict
  BY <1>1, <1>4 DEF Refuse, Verdict, brokerVars, Heard
<1>5. CASE Submit
  <2>1. Receive(orders'[0])
    BY <1>5 DEF Submit, client_id
  <2>2. answer = NoFill
    BY <1>5 DEF Submit, Pending
  <2> QED
    BY <1>1, <2>1, <2>2 DEF Receive, Return, NoFill, Rejected
<1>6. CASE Poll
  <2>1. answer = NoFill
    BY <1>6 DEF Poll, Pending
  <2>2. Record(orders[0]) = Rejected /\ UNCHANGED orders
    BY <1>1, <1>6, <2>1 DEF Poll, client_id, Return, NoFill, Rejected, brokerVars
  <2> QED
    BY <2>2 DEF Record, Rejected, Terminal
<1>7. CASE Begin \/ Crash \/ Unanswered \/ PollFails
  BY <1>1, <1>7 DEF Begin, Crash, Unanswered, PollFails, Pending, NoFill, Rejected
<1>8. CASE OrderMoves \/ LateArrival \/ LateLoss \/ Finished \/ UNCHANGED vars
  <2>1. UNCHANGED <<answer, unheard>>
    BY <1>8 DEF OrderMoves, LateArrival, LateLoss, Finished, vars, callVars
  <2>2. late = {}
    BY <1>1, <2>1 DEF Heard
  <2>3. UNCHANGED orders \/ OrderMoves
    BY <1>8, <2>2 DEF LateArrival, LateLoss, Finished, vars, brokerVars
  <2>4. \A id \in Made : Terminal(orders[id])
    BY <1>1, <2>1 DEF RefusalIsFinal
  <2>5. UNCHANGED orders
    BY <2>3, <2>4 DEF OrderMoves, Made, Terminal
  <2> QED
    BY <2>4, <2>5, MadeIsOrdered DEF Made
<1> QED
  BY <1>4, <1>5, <1>6, <1>7, <1>8 DEF Next, Tick

(***************************************************************************)
(* The theorems.                                                           *)
(***************************************************************************)
LEMMA RequestInvariant == Spec => []RequestInv
<1>1. Init => RequestInv
  <2> SUFFICES ASSUME Init PROVE RequestInv
    OBVIOUS
  <2>1. OrderTypeOK
    BY InitTypeOK
  <2>2. OneId /\ Heard /\ Pending
    BY ZeroIsAnId DEF Init, OneId, Heard, Pending
  <2>3. KeptEntryIsReal /\ RefusalIsFinal
    BY DEF Init, NoFill, Rejected, KeptEntryIsReal, RefusalIsFinal
  <2> QED
    BY <2>1, <2>2, <2>3 DEF RequestInv
<1>2. RequestInv /\ [Next]_vars => RequestInv'
  BY StepTypeOK, StepOneId, StepHeard, StepPending, StepKept, StepRefusal DEF RequestInv
<1> QED
  BY <1>1, <1>2, PTL DEF Spec

\* Every variable keeps its type.
THEOREM OrderTypeCorrect == Spec => []OrderTypeOK
<1>1. RequestInv => OrderTypeOK
  BY DEF RequestInv
<1> QED
  BY <1>1, RequestInvariant, PTL

\* A position is kept only for an entry the broker has, with no more shares
\* than it has bought.
THEOREM KeptEntriesAreReal == Spec => []KeptEntryIsReal
<1>1. RequestInv => KeptEntryIsReal
  BY DEF RequestInv
<1> QED
  BY <1>1, RequestInvariant, PTL

\* A refusal heard in full is the end of the order.
THEOREM RefusalsAreFinal == Spec => []RefusalIsFinal
<1>1. RequestInv => RefusalIsFinal
  BY DEF RequestInv
<1> QED
  BY <1>1, RequestInvariant, PTL

LEMMA StepOfOneOrder ==
  ASSUME OrderTypeOK, OneId, BrokerStep
  PROVE  [Entry!Next]_<<Made, BoughtBy>>
<1> USE ZeroIsAnId
<1>1. \A id \in Ids \ {0} : BoughtBy'[id] = BoughtBy[id] /\ id \notin Made /\ id \notin Made'
  <2> SUFFICES ASSUME NEW id \in Ids \ {0}
               PROVE  BoughtBy'[id] = BoughtBy[id] /\ id \notin Made /\ id \notin Made'
    OBVIOUS
  <2>1. orders[id] = NoOrder /\ orders'[id] = NoOrder
    BY OrdersStayOneId DEF OneId
  <2> QED
    BY <2>1 DEF Made, BoughtBy, NoOrder
<1>2. (0 \in Made => 0 \in Made') /\ BoughtBy'[0] >= BoughtBy[0]
  BY MadeStaysMade
<1>3. Made \subseteq {0} /\ Made' \subseteq {0}
  BY <1>1 DEF Made
<1>4. CASE 0 \notin Made /\ 0 \in Made'
  <2>1. Entry!Make(0)
    BY <1>1, <1>3, <1>4 DEF Entry!Make
  <2> QED
    BY <2>1 DEF Entry!Next
<1>5. CASE Made' = Made /\ 0 \in Made /\ BoughtBy'[0] > BoughtBy[0]
  <2>1. Entry!Fill(0)
    BY <1>1, <1>5 DEF Entry!Fill
  <2> QED
    BY <2>1 DEF Entry!Next
<1>6. CASE Made' = Made /\ BoughtBy'[0] = BoughtBy[0]
  <2>1. BoughtBy' = [id \in Ids |-> BoughtBy'[id]] /\ BoughtBy = [id \in Ids |-> BoughtBy[id]]
    BY DEF BoughtBy
  <2>2. \A id \in Ids : BoughtBy'[id] = BoughtBy[id]
    BY <1>1, <1>6
  <2>3. BoughtBy' = BoughtBy
    BY <2>1, <2>2 DEF BoughtBy
  <2> QED
    BY <1>6, <2>3
<1>7. CASE 0 \notin Made /\ 0 \notin Made'
  <2>1. orders[0] = NoOrder /\ orders'[0] = NoOrder
    BY <1>7, OrdersStayOneId DEF OneId, Made, Possible
  <2>2. BoughtBy'[0] = BoughtBy[0]
    BY <2>1 DEF BoughtBy
  <2>3. Made' = {} /\ Made = {}
    BY <1>3, <1>7
  <2> QED
    BY <1>6, <2>2, <2>3
<1>8. BoughtBy[0] \in Nat /\ BoughtBy'[0] \in Nat
  BY BrokerStepType, RequestAssumption DEF BoughtBy, OrderTypeOK, Order
<1>9. CASE 0 \in Made
  <2>1. Made' = {0} /\ Made = {0}
    BY <1>2, <1>3, <1>9
  <2>2. BoughtBy'[0] = BoughtBy[0] \/ BoughtBy'[0] > BoughtBy[0]
    BY <1>2, <1>8
  <2> QED
    BY <1>5, <1>6, <1>9, <2>1, <2>2
<1> QED
  BY <1>4, <1>7, <1>9

\* Retries, late arrivals and restarts implement one order.
THEOREM RequestImplementsOneOrder == Spec => OneOrderPerIntent
<1>1. Init => Entry!Init
  BY DEF Init, Entry!Init, Made, BoughtBy, NoOrder
<1>2. RequestInv /\ [Next]_vars => [Entry!Next]_<<Made, BoughtBy>>
  BY StepOfBroker, StepOfOneOrder DEF RequestInv
<1> QED
  BY <1>1, <1>2, RequestInvariant, PTL DEF Spec, OneOrderPerIntent, Entry!Spec

-----------------------------------------------------------------------------

Level  == Int \union {None}
Levels == [Kinds -> Level]

ExitTypeOK ==
    /\ cfg \in Settings
    /\ paid \in Paid \union {None} /\ (Bought(orders) => paid \in Paid)
    /\ legs \in Levels /\ todo \in Levels
    /\ closed \in BOOLEAN /\ amiss \in BOOLEAN
    /\ stage \in {"look", "ask", "amend", "over"}
    /\ stage = "amend" => Bought(orders)

\* An entry is sent only where its exits can go with it.
SentWithExits == pc \in {"send", "poll"} \/ late # {} \/ Ordered(orders) => MaySend

\* An order that may have bought something has its legs until one closes it.
Guarded ==
    Bracketed /\ (Bought(orders) \/ Open(orders)) /\ ~closed => \A k \in Kinds : legs[k] # None

ProtectInv == ExitTypeOK /\ SentWithExits /\ Guarded

\* Where the levels are that were sent, and where those that are wanted.
AsSent(k)   == legs[k] \in {None, levels(Expected)[k]}
AsWanted(k) == legs[k] \in {None, levels(paid)[k]}

LegsOrigin ==
    /\ closed => Bought(orders) /\ legs = NoLegs
    /\ ~Bracketed => legs = NoLegs
    /\ ~Bought(orders) \/ stage = "ask" => \A k \in Kinds : AsSent(k)

\* The legs that are listed still are where they were listed, unless it has
\* been reported; those that are done with are where they should be.
Amending ==
    stage = "amend" =>
        /\ answer.status = "filled"
        /\ ~Bracketed => todo = NoLegs
        /\ ~amiss => \A k \in Kinds : IF todo[k] = None THEN AsWanted(k)
                                                         ELSE legs[k] \in {None, todo[k]}

Recorded ==
    /\ stage # "over" => disk = None
    /\ stage = "look" => pc = "call"
    /\ disk # None => Ordered(orders)
    /\ disk # None /\ ~amiss => \A k \in Kinds : legs[k] \in {None, disk.levels[k]}
    /\ stage = "over" /\ answer.status = "filled" /\ ~amiss =>
         Bought(orders) /\ \A k \in Kinds : AsWanted(k)

AgreeInv == LegsOrigin /\ Amending /\ Recorded

(***************************************************************************)
(* The levels, and what the broker may do to the legs.                     *)
(***************************************************************************)
LEMMA NoneIsNoLevel == None \notin Int /\ Expected \in Int /\ Paid \subseteq Int
  BY BracketAssumption

\* A price has its levels, and both of them where both are configured.
LEMMA LevelsOfPrice ==
  ASSUME cfg \in Settings, NEW price \in Int
  PROVE  /\ levels(price) \in Levels
         /\ Bracketed => \A k \in Kinds : levels(price)[k] \in Int
         /\ Bracketed => \A k \in Kinds : levels(price)[k] # None
         /\ levels(price) = NoLegs => ~Bracketed
<1>1. cfg.stop \in Nat /\ cfg.take \in Nat /\ cfg.short \in BOOLEAN
  BY BracketAssumption DEF Setting
<1>2. levels(price) \in Levels
  BY <1>1 DEF levels, Levels, Level, Kinds
<1>3. Bracketed => \A k \in Kinds : levels(price)[k] \in Int
  BY <1>1 DEF levels, Kinds, Bracketed
<1>4. Bracketed => \A k \in Kinds : levels(price)[k] # None
  BY <1>3, NoneIsNoLevel
<1>5. levels(price) = NoLegs => ~Bracketed
  BY <1>4 DEF NoLegs, Kinds
<1> QED
  BY <1>2, <1>3, <1>4, <1>5

LEMMA NoLegsType == NoLegs \in Levels /\ \A k \in Kinds : NoLegs[k] = None
  BY DEF NoLegs, Levels, Level

\* The order by its one id.
LEMMA TheOrder ==
  ASSUME OrderTypeOK, OneId
  PROVE  /\ Bought(orders) <=> orders[0].bought > 0
         /\ Ordered(orders) <=> orders[0] # NoOrder
         /\ Open(orders) <=> orders[0].status = "working"
         /\ Bought(orders) => Ordered(orders)
         /\ Made # {} => Ordered(orders)
<1>1. \A id \in Ids : id # 0 => orders[id] = NoOrder
  BY DEF OneId
<1>2. Bought(orders) <=> orders[0].bought > 0
  BY <1>1, ZeroIsAnId DEF Bought, NoOrder
<1>3. Ordered(orders) <=> orders[0] # NoOrder
  BY <1>1, ZeroIsAnId DEF Ordered
<1>4. Open(orders) <=> orders[0].status = "working"
  BY <1>1, ZeroIsAnId DEF Open, NoOrder
<1>5. Bought(orders) => Ordered(orders)
  BY DEF Bought, Ordered, NoOrder
<1>6. Made # {} => Ordered(orders)
  BY DEF Made, Ordered, NoOrder
<1> QED
  BY <1>2, <1>3, <1>4, <1>5, <1>6

\* An order moves one way: what was made and bought stays so, and what may
\* still buy something could have done so before.
LEMMA OrderGrows ==
  ASSUME OrderTypeOK, OneId, OrderTypeOK', OneId', BrokerStep
  PROVE  /\ Ordered(orders) => Ordered(orders)'
         /\ Bought(orders) => Bought(orders)'
         /\ Ordered(orders) /\ (Bought(orders) \/ Open(orders))' => Bought(orders) \/ Open(orders)
<1> USE ZeroIsAnId, RequestAssumption
<1>1. /\ Bought(orders) <=> orders[0].bought > 0
      /\ Ordered(orders) <=> orders[0] # NoOrder
      /\ Open(orders) <=> orders[0].status = "working"
  BY TheOrder
<1>2. /\ Bought(orders)' <=> orders'[0].bought > 0
      /\ Ordered(orders)' <=> orders'[0] # NoOrder
      /\ Open(orders)' <=> orders'[0].status = "working"
  <2>1. \A id \in Ids : id # 0 => orders'[id] = NoOrder
    BY DEF OneId
  <2> QED
    BY <2>1 DEF Bought, Ordered, Open, NoOrder
<1>3. orders[0].bought \in Nat /\ orders'[0].bought \in Nat
  BY DEF OrderTypeOK, Order
<1>4. CASE UNCHANGED orders
  BY <1>1, <1>2, <1>4
<1>5. CASE Made0
  <2>1. orders[0] = NoOrder /\ orders'[0] # NoOrder
    BY <1>5 DEF Made0, Possible, NoOrder, OrderTypeOK
  <2>2. orders[0].bought = 0
    BY <2>1 DEF NoOrder
  <2> QED
    BY <1>1, <1>2, <2>1, <2>2
<1>6. CASE MovedOn
  <2>1. orders[0].status = "working" /\ orders'[0].bought >= orders[0].bought /\ orders'[0] # NoOrder
    BY <1>6 DEF MovedOn, OneId, Possible, NoOrder, OrderTypeOK
  <2> QED
    BY <1>1, <1>2, <1>3, <2>1
<1> QED
  BY <1>4, <1>5, <1>6 DEF BrokerStep

(***************************************************************************)
(* Whatever happens to the bracket is a step of the request, or none.      *)
(***************************************************************************)
LEMMA StepOfRequest == [BracketNext]_bracketVars => [Next]_vars
<1> SUFFICES ASSUME [BracketNext]_bracketVars PROVE [Next]_vars
  OBVIOUS
<1>1. CASE Ask
  BY <1>1 DEF Ask, Next, Tick
<1>2. CASE World
  BY <1>2 DEF World, Next
<1>3. CASE Dies
  BY <1>3 DEF Dies, Next
<1>4. CASE Fires \/ Look \/ _act \/ save_state \/ adopt_broker_position \/ adopt_broker_exit
  BY <1>4 DEF Fires, Look, _act, save_state, adopt_broker_position, adopt_broker_exit
<1>5. CASE \E k \in Kinds : amend(k)
  BY <1>5 DEF amend
<1>6. CASE UNCHANGED bracketVars
  BY <1>6 DEF bracketVars
<1> QED
  BY <1>1, <1>2, <1>3, <1>4, <1>5, <1>6 DEF BracketNext, Progresses

THEOREM BracketImplementsRequest == BracketSpec => Spec
<1>1. BracketInit => Init
  BY DEF BracketInit
<1> QED
  BY <1>1, StepOfRequest, PTL DEF BracketSpec, Spec

\* What is known of the request before and after a step.
RequestStep == RequestInv /\ RequestInv' /\ [Next]_vars

LEMMA StepGrows ==
  ASSUME RequestStep
  PROVE  /\ Ordered(orders) => Ordered(orders)'
         /\ Bought(orders) => Bought(orders)'
         /\ Ordered(orders) /\ (Bought(orders) \/ Open(orders))' => Bought(orders) \/ Open(orders)
         /\ Bought(orders) => Ordered(orders)
         /\ Bought(orders)' => Ordered(orders)'
<1>1. OrderTypeOK /\ OneId /\ OrderTypeOK' /\ OneId'
  BY DEF RequestStep, RequestInv
<1>2. BrokerStep
  BY <1>1, StepOfBroker DEF RequestStep
<1>3. Bought(orders) => Ordered(orders)
  BY DEF Bought, Ordered, NoOrder
<1>4. Bought(orders)' => Ordered(orders)'
  BY DEF Bought, Ordered, NoOrder
<1> QED
  BY <1>1, <1>2, <1>3, <1>4, OrderGrows

\* A position that is kept has an order, and one that was filled has shares.
LEMMA KeptHasOrder ==
  ASSUME RequestInv
  PROVE  /\ answer.status = "filled" => Bought(orders)
         /\ answer.status \in {"filled", "no_fill"} => Ordered(orders)
<1>1. KeptEntryIsReal /\ OrderTypeOK
  BY DEF RequestInv
<1>2. ASSUME answer.status = "filled" PROVE Bought(orders)
  <2>1. PICK id \in Made : BoughtBy[id] >= answer.quantity
    BY <1>1, <1>2 DEF KeptEntryIsReal
  <2>2. id \in Ids /\ orders[id].bought \in Nat /\ answer.quantity \in Nat /\ answer.quantity > 0
    BY <1>1, <1>2, RequestAssumption DEF OrderTypeOK, Order, Fill, Made, KeptEntryIsReal
  <2>3. orders[id].bought > 0
    BY <2>1, <2>2 DEF BoughtBy
  <2> QED
    BY <2>2, <2>3 DEF Bought
<1>3. ASSUME answer.status = "no_fill" PROVE Ordered(orders)
  BY <1>1, <1>3 DEF KeptEntryIsReal, Made, Ordered, NoOrder
<1>4. Bought(orders) => Ordered(orders)
  BY DEF Bought, Ordered, NoOrder
<1> QED
  BY <1>2, <1>3, <1>4

(***************************************************************************)
(* The types.                                                              *)
(***************************************************************************)
LEMMA InitExitType == BracketInit => ExitTypeOK
<1> SUFFICES ASSUME BracketInit PROVE ExitTypeOK
  OBVIOUS
<1>1. ~Bought(orders) /\ ~Ordered(orders)
  BY DEF BracketInit, Init, Bought, Ordered, NoOrder
<1>2. cfg \in Settings /\ paid \in Paid \union {None} /\ closed \in BOOLEAN /\ amiss \in BOOLEAN
  BY DEF BracketInit
<1>3. legs \in Levels /\ todo \in Levels /\ stage \in {"look", "ask", "amend", "over"}
  BY NoLegsType DEF BracketInit
<1> QED
  BY <1>1, <1>2, <1>3 DEF BracketInit, ExitTypeOK

LEMMA BrokersType ==
  ASSUME ExitTypeOK, Brokers, UNCHANGED cfg
  PROVE  /\ paid' \in Paid \union {None} /\ (Bought(orders)' => paid' \in Paid)
         /\ legs' \in Levels /\ closed' = closed
<1>1. levels(Expected) \in Levels
  BY LevelsOfPrice, NoneIsNoLevel DEF ExitTypeOK
<1>2. legs' \in {NoLegs, levels(Expected), legs}
  BY DEF Brokers
<1>3. legs' \in Levels
  BY <1>1, <1>2, NoLegsType DEF ExitTypeOK
<1>4. paid' \in Paid \union {None} /\ (Bought(orders)' => paid' \in Paid)
  BY DEF Brokers, ExitTypeOK
<1> QED
  BY <1>3, <1>4 DEF Brokers

LEMMA StepExitType ==
  ASSUME RequestStep, ExitTypeOK, [BracketNext]_bracketVars
  PROVE  ExitTypeOK'
<1>1. CASE Ask \/ World
  <2>1. Brokers /\ UNCHANGED <<cfg, driverVars>>
    BY <1>1 DEF Ask, World
  <2> QED
    BY <2>1, BrokersType, StepGrows DEF ExitTypeOK, driverVars
<1>2. CASE Fires
  BY <1>2, NoLegsType DEF Fires, ExitTypeOK, driverVars, vars, brokerVars
<1>3. CASE Look \/ save_state \/ adopt_broker_position \/ adopt_broker_exit
  <2>1. UNCHANGED <<orders, cfg, paid, legs, closed>> /\ todo' \in {todo, NoLegs}
        /\ amiss' \in {amiss, TRUE} /\ stage' \in {"ask", "over"}
    BY <1>3 DEF Look, save_state, adopt_broker_position, adopt_broker_exit, Saves, vars,
                brokerVars, exitVars
  <2> QED
    BY <2>1, NoLegsType DEF ExitTypeOK
<1>4. CASE _act
  <2>1. UNCHANGED <<orders, cfg, paid, legs, closed>> /\ amiss' \in {amiss, TRUE}
    BY <1>4 DEF _act, Unread, Listed, vars, brokerVars, exitVars
  <2>2. \/ stage' = "over" /\ todo' = NoLegs
        \/ stage' = "amend" /\ todo' = legs /\ answer.status = "filled"
    BY <1>4 DEF _act, Unread, Listed, Saves
  <2>3. answer.status = "filled" => Bought(orders)
    BY KeptHasOrder DEF RequestStep
  <2> QED
    BY <2>1, <2>2, <2>3, NoLegsType DEF ExitTypeOK
<1>5. CASE \E k \in Kinds : amend(k)
  <2>1. PICK k \in Kinds : amend(k)
    BY <1>5
  <2>2. UNCHANGED <<orders, cfg, paid, closed, stage>> /\ amiss' \in {amiss, TRUE}
    BY <2>1 DEF amend, vars, brokerVars
  <2>3. todo' \in Levels
    BY <2>1 DEF amend, ExitTypeOK, Levels, Level
  <2>4. levels(paid)[k] \in Level
    <3>1. paid \in Int
      BY <2>1, NoneIsNoLevel DEF amend, ExitTypeOK
    <3> QED
      BY <3>1, LevelsOfPrice DEF ExitTypeOK, Levels
  <2>5. legs' \in {legs, [legs EXCEPT ![k] = levels(paid)[k]]}
    BY <2>1 DEF amend, Wanted, Repriced, _reprice_entry
  <2>6. legs' \in Levels
    BY <2>4, <2>5 DEF ExitTypeOK, Levels
  <2> QED
    BY <2>2, <2>3, <2>6 DEF ExitTypeOK
<1>6. CASE Dies
  BY <1>6, NoLegsType DEF Dies, Crash, ExitTypeOK, exitVars
<1>7. CASE UNCHANGED bracketVars
  BY <1>7 DEF bracketVars, vars, brokerVars, exitVars, driverVars, ExitTypeOK
<1> QED
  BY <1>1, <1>2, <1>3, <1>4, <1>5, <1>6, <1>7 DEF BracketNext, Progresses

(***************************************************************************)
(* No share without its exits.                                             *)
(***************************************************************************)
LEMMA StepSentWithExits ==
  ASSUME RequestStep, SentWithExits, [BracketNext]_bracketVars
  PROVE  SentWithExits'
<1>1. MaySend' = MaySend
  <2>1. UNCHANGED cfg
    BY DEF BracketNext, Progresses, Look, Ask, _act, save_state, amend, adopt_broker_position,
           adopt_broker_exit, World, Fires, Dies, bracketVars
  <2> QED
    BY <2>1 DEF MaySend, Bracketed
<1> SUFFICES ASSUME ~MaySend PROVE SentWithExits'
  BY <1>1 DEF SentWithExits
<1>2. pc \notin {"send", "poll"} /\ late = {} /\ ~Ordered(orders)
  BY DEF SentWithExits
<1>3. pc' \notin {"send", "poll"} /\ late' = {} /\ UNCHANGED orders
  <2>1. CASE Ask
    BY <1>2, <2>1 DEF Ask, Refuse, Submit, Verdict, Unanswered, Poll, PollFails, Return, brokerVars
  <2>2. CASE World
    <3>1. ~OrderMoves
      BY <1>2 DEF OrderMoves, Ordered, NoOrder
    <3> QED
      BY <1>2, <2>2, <3>1 DEF World, LateArrival, LateLoss
  <2>3. CASE Fires \/ Look \/ _act \/ save_state \/ adopt_broker_position \/ adopt_broker_exit
    BY <1>2, <2>3 DEF Fires, Look, _act, save_state, adopt_broker_position, adopt_broker_exit,
                      vars, brokerVars, callVars
  <2>4. CASE \E k \in Kinds : amend(k)
    BY <1>2, <2>4 DEF amend, vars, brokerVars, callVars
  <2>5. CASE Dies
    BY <1>2, <2>5 DEF Dies, Crash
  <2>6. CASE UNCHANGED bracketVars
    BY <1>2, <2>6 DEF bracketVars, vars, brokerVars, callVars
  <2> QED
    BY <2>1, <2>2, <2>3, <2>4, <2>5, <2>6 DEF BracketNext, Progresses
<1> QED
  BY <1>2, <1>3 DEF SentWithExits

\* Legs go only with an order that bought nothing, and come with one.
LEMMA BrokersGuard ==
  ASSUME RequestStep, ExitTypeOK, SentWithExits', Guarded, Brokers, UNCHANGED cfg
  PROVE  Guarded'
<1> SUFFICES ASSUME Bracketed, Bought(orders)' \/ Open(orders)', ~closed
             PROVE  \A k \in Kinds : legs'[k] # None
  BY DEF Guarded, Bracketed, Brokers
<1>1. Ordered(orders)'
  BY DEF Bought, Open, Ordered, NoOrder
<1>2. cfg.whole
  BY <1>1 DEF SentWithExits, MaySend, Bracketed
<1>3. CASE ~Ordered(orders)
  <2>1. legs' = levels(Expected)
    BY <1>1, <1>2, <1>3 DEF Brokers
  <2> QED
    BY <2>1, LevelsOfPrice, NoneIsNoLevel DEF ExitTypeOK
<1>4. CASE Ordered(orders)
  <2>1. legs' = legs
    BY <1>1, <1>4 DEF Brokers
  <2>2. Bought(orders) \/ Open(orders)
    BY <1>4, StepGrows
  <2> QED
    BY <2>1, <2>2 DEF Guarded
<1> QED
  BY <1>3, <1>4

LEMMA StepGuarded ==
  ASSUME RequestStep, ExitTypeOK, SentWithExits', Guarded, [BracketNext]_bracketVars
  PROVE  Guarded'
<1>1. CASE Ask \/ World
  BY <1>1, BrokersGuard DEF Ask, World
<1>2. CASE Fires
  BY <1>2 DEF Fires, Guarded
<1>3. CASE Look \/ _act \/ save_state \/ adopt_broker_position \/ adopt_broker_exit \/ Dies
           \/ UNCHANGED bracketVars
  <2>1. UNCHANGED <<orders, cfg, legs, closed>>
    BY <1>3 DEF Look, _act, save_state, adopt_broker_position, adopt_broker_exit, Dies, Crash,
                bracketVars, vars, brokerVars, exitVars
  <2> QED
    BY <2>1 DEF Guarded, Bracketed
<1>4. CASE \E k \in Kinds : amend(k)
  <2>1. PICK k \in Kinds : amend(k)
    BY <1>4
  <2>2. UNCHANGED <<orders, cfg, closed>>
    BY <2>1 DEF amend, vars, brokerVars
  <2>3. legs' \in {legs, [legs EXCEPT ![k] = Wanted(k)]} /\ Wanted(k) # None
    BY <2>1 DEF amend, Due
  <2>4. \A j \in Kinds : legs[j] # None => legs'[j] # None
    BY <2>3 DEF ExitTypeOK, Levels
  <2> QED
    BY <2>2, <2>4 DEF Guarded, Bracketed
<1> QED
  BY <1>1, <1>2, <1>3, <1>4 DEF BracketNext, Progresses

LEMMA ProtectInvariant == BracketSpec => []ProtectInv
<1>1. BracketInit => ProtectInv
  <2> SUFFICES ASSUME BracketInit PROVE ProtectInv
    OBVIOUS
  <2>1. ~Bought(orders) /\ ~Ordered(orders) /\ ~Open(orders)
    BY DEF BracketInit, Init, Bought, Ordered, Open, NoOrder
  <2>2. pc = "call" /\ late = {}
    BY DEF BracketInit, Init
  <2> QED
    BY <2>1, <2>2, InitExitType DEF ProtectInv, SentWithExits, Guarded
<1>2. RequestStep /\ ProtectInv /\ [BracketNext]_bracketVars => ProtectInv'
  BY StepExitType, StepSentWithExits, StepGuarded DEF ProtectInv
<1>3. RequestInv /\ RequestInv' /\ [BracketNext]_bracketVars => RequestStep
  BY StepOfRequest DEF RequestStep
<1> QED
  BY <1>1, <1>2, <1>3, BracketImplementsRequest, RequestInvariant, PTL DEF BracketSpec

\* Whatever is lost, retried, repeated or amended, a bracketed entry is never
\* held without both of its exits.
THEOREM NeverHeldNaked == BracketSpec => []NeverNaked
<1>1. ProtectInv => NeverNaked
  BY DEF ProtectInv, Guarded, NeverNaked, Holds
<1> QED
  BY <1>1, ProtectInvariant, PTL

(***************************************************************************)
(* The exits rest where the state file says.                               *)
(***************************************************************************)

\* What the broker does to the legs, apart from firing them.
LEMMA BrokersLegs ==
  ASSUME ExitTypeOK, Brokers, UNCHANGED cfg
  PROVE  /\ legs' \in {NoLegs, levels(Expected), legs}
         /\ Ordered(orders) => legs' \in {NoLegs, legs}
         /\ ~Bracketed => legs' \in {NoLegs, legs}
         /\ Bought(orders) => paid' = paid
         /\ UNCHANGED closed
<1>1. Bought(orders) => paid # None
  BY NoneIsNoLevel DEF ExitTypeOK
<1>2. Bought(orders) => paid' = paid
  BY <1>1 DEF Brokers
<1> QED
  BY <1>2 DEF Brokers

LEMMA StepOrigin ==
  ASSUME RequestStep, ExitTypeOK, LegsOrigin, [BracketNext]_bracketVars
  PROVE  LegsOrigin'
<1> USE NoLegsType
<1>1. CASE Ask \/ World
  <2>1. Brokers /\ UNCHANGED <<cfg, stage>>
    BY <1>1 DEF Ask, World, driverVars
  <2>2. /\ legs' \in {NoLegs, levels(Expected), legs}
        /\ Ordered(orders) => legs' \in {NoLegs, legs}
        /\ ~Bracketed => legs' \in {NoLegs, legs}
        /\ UNCHANGED closed
    BY <2>1, BrokersLegs
  <2>3. (Bought(orders) => Bought(orders)') /\ (Bought(orders) => Ordered(orders))
    BY StepGrows
  <2>4. closed' => Bought(orders)' /\ legs' = NoLegs
    BY <2>2, <2>3 DEF LegsOrigin
  <2>5. ~Bracketed' => legs' = NoLegs
    BY <2>1, <2>2 DEF LegsOrigin, Bracketed
  <2>6. levels(Expected)' = levels(Expected)
    BY <2>1 DEF levels
  <2>7. ~Bought(orders)' \/ stage' = "ask" => \A k \in Kinds : legs'[k] \in {None, levels(Expected)[k]}
    BY <2>1, <2>2, <2>3 DEF LegsOrigin, AsSent
  <2> QED
    BY <2>4, <2>5, <2>6, <2>7 DEF LegsOrigin, AsSent
<1>2. CASE Fires
  <2>1. legs' = NoLegs /\ closed' /\ Bought(orders) /\ UNCHANGED <<orders, cfg>>
    BY <1>2 DEF Fires, Holds, vars, brokerVars
  <2> QED
    BY <2>1 DEF LegsOrigin, AsSent
<1>3. CASE Look
  <2>1. UNCHANGED <<orders, cfg, legs, closed>> /\ ~Holds
    BY <1>3 DEF Look, vars, brokerVars, exitVars
  <2>2. \A k \in Kinds : AsSent(k)
    BY <2>1 DEF Holds, LegsOrigin, AsSent
  <2> QED
    BY <2>1, <2>2 DEF LegsOrigin, AsSent, Bracketed, levels
<1>4. CASE _act \/ save_state \/ adopt_broker_position \/ adopt_broker_exit \/ Dies
           \/ UNCHANGED bracketVars
  <2>1. UNCHANGED <<orders, cfg, legs, closed>> /\ stage' \in {stage, "amend", "over", "look"}
    BY <1>4 DEF _act, Unread, Listed, Saves, save_state, adopt_broker_position, adopt_broker_exit,
                Dies, Crash, bracketVars, vars, brokerVars, exitVars, driverVars
  <2> QED
    BY <2>1 DEF LegsOrigin, AsSent, Bracketed, levels
<1>5. CASE \E k \in Kinds : amend(k)
  <2>1. PICK k \in Kinds : amend(k)
    BY <1>5
  <2>2. UNCHANGED <<orders, cfg, closed, stage>> /\ stage = "amend" /\ Bought(orders)
    BY <2>1 DEF amend, vars, brokerVars, ExitTypeOK
  <2>3. legs' = legs \/ (legs[k] # None /\ legs # NoLegs)
    BY <2>1 DEF amend
  <2>4. legs = NoLegs => legs' = NoLegs
    BY <2>3
  <2> QED
    BY <2>2, <2>4 DEF LegsOrigin, Bracketed
<1> QED
  BY <1>1, <1>2, <1>3, <1>4, <1>5 DEF BracketNext, Progresses

LEMMA StepAmending ==
  ASSUME RequestStep, ExitTypeOK, LegsOrigin, Amending, [BracketNext]_bracketVars
  PROVE  Amending'
<1> USE NoLegsType
<1>1. CASE Ask \/ Look \/ save_state \/ adopt_broker_position \/ adopt_broker_exit \/ Dies
  <2>1. stage' # "amend"
    BY <1>1 DEF Ask, Look, save_state, adopt_broker_position, adopt_broker_exit, Dies, Saves,
                driverVars
  <2> QED
    BY <2>1 DEF Amending
<1>2. CASE World
  <2>1. Brokers /\ UNCHANGED <<cfg, stage, todo, amiss, answer>>
    BY <1>2 DEF World, driverVars, OrderMoves, LateArrival, LateLoss, callVars
  <2>2. stage = "amend" => legs' \in {NoLegs, legs} /\ paid' = paid
    BY <2>1, BrokersLegs, StepGrows DEF ExitTypeOK
  <2> QED
    BY <2>1, <2>2 DEF Amending, AsWanted, Bracketed, levels
<1>3. CASE Fires
  <2>1. legs' = NoLegs /\ UNCHANGED <<cfg, stage, todo, amiss, answer, paid>>
    BY <1>3 DEF Fires, driverVars, vars, callVars
  <2> QED
    BY <2>1 DEF Amending, AsWanted, Bracketed, levels
<1>4. CASE _act
  <2>1. UNCHANGED <<cfg, legs, paid, answer>>
    BY <1>4 DEF _act, vars, callVars, exitVars
  <2>2. stage' = "over" \/ (answer.status = "filled" /\ todo' = legs)
    BY <1>4 DEF _act, Unread, Listed, Saves
  <2> QED
    BY <2>1, <2>2 DEF Amending, AsWanted, Bracketed, LegsOrigin
<1>5. CASE \E k \in Kinds : amend(k)
  <2>1. PICK k \in Kinds : amend(k)
    BY <1>5
  <2>2. UNCHANGED <<cfg, paid, stage, answer>> /\ stage = "amend"
    BY <2>1 DEF amend, vars, callVars
  <2>3. todo' = [todo EXCEPT ![k] = None] /\ todo # NoLegs
    BY <2>1 DEF amend, Due
  <2>4. \/ legs' = [legs EXCEPT ![k] = levels(paid)[k]] /\ amiss' \in {amiss, TRUE}
        \/ amiss' = TRUE
    BY <2>1 DEF amend, Wanted, Repriced, _reprice_entry
  <2>5. levels(paid)' = levels(paid) /\ Bracketed' = Bracketed
    BY <2>2 DEF levels, Bracketed
  <2>6. ~amiss' => \A j \in Kinds : IF todo'[j] = None THEN legs'[j] \in {None, levels(paid)[j]}
                                                       ELSE legs'[j] \in {None, todo'[j]}
    <3> SUFFICES ASSUME ~amiss', NEW j \in Kinds
                 PROVE  IF todo'[j] = None THEN legs'[j] \in {None, levels(paid)[j]}
                                           ELSE legs'[j] \in {None, todo'[j]}
      OBVIOUS
    <3>1. legs' = [legs EXCEPT ![k] = levels(paid)[k]] /\ ~amiss
      BY <2>4 DEF ExitTypeOK
    <3>2. CASE j = k
      BY <2>3, <3>1, <3>2 DEF ExitTypeOK, Levels
    <3>3. CASE j # k
      BY <2>2, <2>3, <3>1, <3>3 DEF ExitTypeOK, Levels, Amending, AsWanted
    <3> QED
      BY <3>2, <3>3
  <2> QED
    BY <2>2, <2>3, <2>5, <2>6 DEF Amending, AsWanted
<1>6. CASE UNCHANGED bracketVars
  BY <1>6 DEF bracketVars, vars, callVars, exitVars, driverVars, Amending, AsWanted, Bracketed, levels
<1> QED
  BY <1>1, <1>2, <1>3, <1>4, <1>5, <1>6 DEF BracketNext, Progresses

\* Every leg that a tick has listed and no longer needs to move is in place.
LEMMA DealtWith ==
  ASSUME ExitTypeOK, LegsOrigin, Amending, stage = "amend", ~amiss, \A k \in Kinds : ~Due(k)
  PROVE  \A k \in Kinds : AsWanted(k)
<1> USE NoLegsType
<1> SUFFICES ASSUME NEW k \in Kinds PROVE AsWanted(k)
  OBVIOUS
<1>1. Wanted(k) = levels(paid)[k]
  BY DEF Wanted, Repriced, _reprice_entry
<1>2. CASE todo[k] = None
  BY <1>2 DEF Amending
<1>3. CASE todo[k] # None
  <2>1. Bracketed
    BY <1>3 DEF Amending
  <2>2. Wanted(k) # None
    BY <1>1, <2>1, LevelsOfPrice, NoneIsNoLevel DEF ExitTypeOK
  <2>3. todo[k] = levels(paid)[k]
    BY <1>1, <1>3, <2>2 DEF Due
  <2> QED
    BY <1>3, <2>3 DEF Amending, AsWanted
<1> QED
  BY <1>2, <1>3

LEMMA StepRecorded ==
  ASSUME RequestStep, ExitTypeOK, LegsOrigin, Amending, Recorded, [BracketNext]_bracketVars
  PROVE  Recorded'
<1> USE NoLegsType
<1>1. CASE Ask
  <2>1. stage' = "ask" /\ disk' = None
    BY <1>1 DEF Ask, driverVars, Recorded
  <2> QED
    BY <2>1 DEF Recorded
<1>2. CASE World
  <2>1. Brokers /\ UNCHANGED <<cfg, stage, disk, amiss, answer, pc>>
    BY <1>2 DEF World, driverVars, OrderMoves, LateArrival, LateLoss, callVars
  <2>2. /\ Ordered(orders) => legs' \in {NoLegs, legs}
        /\ Bought(orders) => paid' = paid
    BY <2>1, BrokersLegs
  <2>3. /\ Ordered(orders) => Ordered(orders)'
        /\ Bought(orders) => Bought(orders)' /\ Ordered(orders)
    BY StepGrows
  <2> QED
    BY <2>1, <2>2, <2>3 DEF Recorded, AsWanted, levels
<1>3. CASE Fires
  <2>1. legs' = NoLegs /\ UNCHANGED <<orders, cfg, stage, disk, amiss, answer, pc, paid>>
    BY <1>3 DEF Fires, driverVars, vars, callVars, brokerVars
  <2> QED
    BY <2>1 DEF Recorded, AsWanted, levels
<1>4. CASE _act
  <2>1. UNCHANGED <<orders, cfg, legs, paid, answer, pc>> /\ stage = "ask" /\ disk = None
    BY <1>4 DEF _act, vars, callVars, brokerVars, exitVars, Recorded
  <2>2. /\ answer.status = "filled" => Bought(orders)
        /\ answer.status \in {"filled", "no_fill"} => Ordered(orders)
    BY KeptHasOrder DEF RequestStep
  <2>3. CASE answer.status = "rejected" /\ Saves(None)
    BY <2>1, <2>3 DEF Saves, Recorded
  <2>4. CASE answer.status = "no_fill" /\ Saves(Entered(Expected))
    <3>1. disk'.levels = levels(Expected) /\ stage' = "over"
      BY <2>4 DEF Saves, Entered
    <3>2. \A k \in Kinds : legs'[k] \in {None, disk'.levels[k]}
      BY <2>1, <3>1 DEF LegsOrigin, AsSent
    <3> QED
      BY <2>1, <2>2, <2>4, <3>1, <3>2 DEF Recorded
  <2>5. CASE answer.status = "filled" /\ Repriced.levels = NoLegs /\ Saves(Repriced)
    <3>1. ~Bracketed
      BY <2>2, <2>5, LevelsOfPrice, NoneIsNoLevel DEF Repriced, _reprice_entry, ExitTypeOK
    <3>2. legs' = NoLegs /\ stage' = "over"
      BY <2>1, <2>5, <3>1 DEF LegsOrigin, Saves
    <3> QED
      BY <2>1, <2>2, <2>5, <3>2 DEF Recorded, AsWanted
  <2>6. CASE answer.status = "filled" /\ Unread
    BY <2>1, <2>2, <2>6 DEF Unread, Saves, Recorded
  <2>7. CASE Listed
    BY <2>1, <2>7 DEF Listed, Recorded
  <2> QED
    BY <1>4, <2>3, <2>4, <2>5, <2>6, <2>7 DEF _act
<1>5. CASE \E k \in Kinds : amend(k)
  <2>1. stage' = "amend" /\ disk' = None
    BY <1>5 DEF amend, Recorded
  <2> QED
    BY <2>1 DEF Recorded
<1>6. CASE save_state
  <2>1. UNCHANGED <<orders, cfg, legs, paid, answer, amiss>> /\ stage = "amend" /\ stage' = "over"
        /\ disk'.levels = levels(paid)
    BY <1>6 DEF save_state, Saves, vars, callVars, brokerVars, exitVars, Repriced, _reprice_entry
  <2>2. ~amiss => \A k \in Kinds : AsWanted(k)
    BY <1>6, <2>1, DealtWith DEF save_state
  <2>3. Bought(orders) /\ Ordered(orders)
    BY <2>1, StepGrows DEF ExitTypeOK
  <2> QED
    BY <2>1, <2>2, <2>3 DEF Recorded, AsWanted, levels
<1>7. CASE adopt_broker_position
  <2>1. UNCHANGED <<orders, cfg, legs, paid, answer>> /\ stage' = "over" /\ Bought(orders)
        /\ stage \in {"look", "over"}
    BY <1>7 DEF adopt_broker_position, Saves, Holds, vars, callVars, brokerVars, exitVars
  <2>2. Ordered(orders)
    BY <2>1, StepGrows
  <2>3. \/ amiss' = TRUE
        \/ disk'.levels = Adopted(legs) /\ UNCHANGED amiss
    BY <1>7 DEF adopt_broker_position, Saves
  <2>4. \A k \in Kinds : legs[k] \in {None, Adopted(legs)[k]}
    BY DEF Adopted
  <2>5. answer.status = "filled" => stage = "over"
    BY <2>1 DEF Recorded, RequestStep, RequestInv, Pending, NoFill
  <2> QED
    BY <2>1, <2>2, <2>3, <2>4, <2>5 DEF Recorded, AsWanted, levels
<1>8. CASE Look
  BY <1>8 DEF Look, Recorded
<1>9. CASE adopt_broker_exit
  <2>1. UNCHANGED <<orders, cfg, legs, paid, answer, amiss>> /\ stage' = "over" /\ disk' = None
        /\ stage = "over"
    BY <1>9 DEF adopt_broker_exit, Saves, vars, callVars, brokerVars, exitVars
  <2> QED
    BY <2>1 DEF Recorded, AsWanted, levels
<1>10. CASE Dies
  <2>1. stage' = "look" /\ pc' = "call" /\ disk' = None
    BY <1>10 DEF Dies, Crash, Recorded
  <2> QED
    BY <2>1 DEF Recorded
<1>11. CASE UNCHANGED bracketVars
  BY <1>11 DEF bracketVars, vars, callVars, brokerVars, exitVars, driverVars, Recorded, AsWanted, levels
<1> QED
  BY <1>1, <1>2, <1>3, <1>4, <1>5, <1>6, <1>7, <1>8, <1>9, <1>10, <1>11 DEF BracketNext, Progresses

LEMMA AgreeInvariant == BracketSpec => []AgreeInv
<1>1. BracketInit => AgreeInv
  <2> SUFFICES ASSUME BracketInit PROVE AgreeInv
    OBVIOUS
  <2>1. legs = NoLegs /\ closed = FALSE /\ stage = "look" /\ disk = None /\ pc = "call"
    BY DEF BracketInit, Init
  <2> QED
    BY <2>1, NoLegsType DEF AgreeInv, LegsOrigin, AsSent, Amending, Recorded
<1>2. RequestStep /\ ProtectInv /\ AgreeInv /\ [BracketNext]_bracketVars => AgreeInv'
  BY StepOrigin, StepAmending, StepRecorded DEF AgreeInv, ProtectInv
<1>3. RequestInv /\ RequestInv' /\ [BracketNext]_bracketVars => RequestStep
  BY StepOfRequest DEF RequestStep
<1> QED
  BY <1>1, <1>2, <1>3, BracketImplementsRequest, RequestInvariant, ProtectInvariant, PTL
     DEF BracketSpec

\* A level is matched by a leg that rests exactly there.
LEMMA MatchesItself == \A level \in Int : level # 0 => _match(level, level)
  BY DEF _match, LevelTolerance

\* Between ticks the state file and the broker's orders say the same levels,
\* and the panel calls a position with a bracket protected.
THEOREM StateAndOrdersAgree == BracketSpec => []LevelsAgree
<1>1. ProtectInv /\ AgreeInv => LevelsAgree
  <2> SUFFICES ASSUME ProtectInv, AgreeInv, disk # None, Holds, ~amiss
               PROVE  /\ \A k \in Kinds : legs[k] \in {None, disk.levels[k]}
                      /\ Bracketed /\ (\A k \in Kinds : disk.levels[k] # 0) => protection = "protected"
    BY DEF LevelsAgree
  <2>1. \A k \in Kinds : legs[k] \in {None, disk.levels[k]}
    BY DEF AgreeInv, Recorded
  <2>2. ASSUME Bracketed, \A k \in Kinds : disk.levels[k] # 0
        PROVE  protection = "protected"
    <3>1. \A k \in Kinds : legs[k] # None
      BY <2>2 DEF ProtectInv, Guarded, Holds
    <3>2. \A k \in Kinds : disk.levels[k] = legs[k] /\ legs[k] \in Int
      BY <2>1, <3>1 DEF ProtectInv, ExitTypeOK, Levels, Level
    <3>3. \A k \in Kinds : _match(legs[k], disk.levels[k])
      BY <2>2, <3>2, MatchesItself
    <3>4. {k \in Kinds : disk.levels[k] # None} # {}
      BY <3>1, <3>2 DEF Kinds
    <3> QED
      BY <3>1, <3>3, <3>4 DEF protection
  <2> QED
    BY <2>1, <2>2
<1> QED
  BY <1>1, ProtectInvariant, AgreeInvariant, PTL

\* An entry that was answered with its fill is stopped out from its own price.
THEOREM FilledIsRepriced == BracketSpec => []RiskIsAsSized
<1>1. ProtectInv /\ AgreeInv => RiskIsAsSized
  <2> SUFFICES ASSUME ProtectInv, AgreeInv, stage = "over", answer.status = "filled", Holds, ~amiss,
                      Bracketed
               PROVE  legs = levels(paid)
    BY DEF RiskIsAsSized
  <2>1. \A k \in Kinds : legs[k] # None /\ AsWanted(k)
    BY DEF ProtectInv, Guarded, Holds, AgreeInv, Recorded
  <2>2. \A k \in Kinds : legs[k] = levels(paid)[k]
    BY <2>1 DEF AsWanted
  <2>3. legs \in Levels /\ levels(paid) \in Levels
    BY LevelsOfPrice, NoneIsNoLevel DEF ProtectInv, ExitTypeOK, Holds
  <2> QED
    BY <2>2, <2>3 DEF Levels
<1> QED
  BY <1>1, ProtectInvariant, AgreeInvariant, PTL

\* What is proved of the request holds of the request with its bracket.
THEOREM BracketKeepsOneOrder == BracketSpec => OneOrderPerIntent
  BY BracketImplementsRequest, RequestImplementsOneOrder, PTL

THEOREM BracketKeepsAnswers == BracketSpec => [](KeptEntryIsReal /\ RefusalIsFinal)
  BY BracketImplementsRequest, KeptEntriesAreReal, RefusalsAreFinal, PTL

(***************************************************************************)
(* A tick takes a bounded number of steps, whatever the broker does        *)
(* meanwhile: each takes StepsLeft down and nothing takes it up, the death *)
(* of the process included.  It is what TickEnds is without its fairness.  *)
(***************************************************************************)

\* The most steps a tick takes: the look, the call, each attempt, each read,
\* the answer, the two legs and the end.
LongestTick == MaxReads + MaxRetries + 8

Listing(k) == IF todo[k] = None THEN 0 ELSE 1

\* What is left of it while it asks for an entry, and at any step.
StepsOfAsking ==
    CASE pc = "call" -> 7 + MaxReads + MaxRetries
      [] pc = "send" -> 6 + MaxReads + (MaxRetries - attempt)
      [] pc = "poll" -> 5 + (MaxReads - reads)
      [] pc = "done" -> 4

StepsOfTick ==
    IF stage = "over" THEN 0
    ELSE IF stage = "amend" THEN 1 + Listing("stop") + Listing("take")
    ELSE IF stage = "look" THEN LongestTick
    ELSE StepsOfAsking

CrashesLeft == MaxCrashes - crashes

\* Each of the crashes that are left starts a tick over.
StepsLeft == CrashesLeft * (LongestTick + 1) + StepsOfTick

LEMMA StepsOfTickRange ==
  ASSUME RequestInv, ExitTypeOK
  PROVE  /\ StepsOfTick \in 0..LongestTick /\ CrashesLeft \in 0..MaxCrashes
         /\ stage # "over" => StepsOfTick > 0
<1>1. /\ attempt \in 0..MaxRetries /\ reads \in 0..MaxReads /\ crashes \in 0..MaxCrashes
      /\ pc \in {"call", "send", "poll", "done"}
  BY DEF RequestInv, OrderTypeOK, Ids
<1>2. Listing("stop") \in {0, 1} /\ Listing("take") \in {0, 1}
  BY DEF Listing
<1>3. StepsOfAsking \in 1..LongestTick
  BY <1>1, RequestAssumption DEF StepsOfAsking, LongestTick
<1> QED
  BY <1>1, <1>2, <1>3, RequestAssumption DEF StepsOfTick, LongestTick, CrashesLeft

LEMMA StepsOfTickRangeNext ==
  ASSUME RequestInv', ExitTypeOK'
  PROVE  StepsOfTick' \in 0..LongestTick /\ CrashesLeft' \in 0..MaxCrashes
<1>1. /\ attempt' \in 0..MaxRetries /\ reads' \in 0..MaxReads
      /\ pc' \in {"call", "send", "poll", "done"}
  BY DEF RequestInv, OrderTypeOK, Ids
<1>2. crashes' \in 0..MaxCrashes
  BY DEF RequestInv, OrderTypeOK
<1>3. CrashesLeft' \in 0..MaxCrashes
  <2>1. CrashesLeft' = MaxCrashes - crashes'
    BY DEF CrashesLeft
  <2>2. \A n \in 0..MaxCrashes : MaxCrashes - n \in 0..MaxCrashes
    BY RequestAssumption
  <2> QED
    BY <1>2, <2>1, <2>2
<1>4. StepsOfTick' \in 0..LongestTick
  <2>1. CASE stage' \in {"over", "look"}
    BY <2>1, RequestAssumption DEF StepsOfTick, LongestTick
  <2>2. CASE stage' = "amend"
    BY <2>2, RequestAssumption DEF StepsOfTick, LongestTick, Listing
  <2>3. CASE stage' = "ask"
    <3>1. StepsOfTick' = StepsOfAsking'
      BY <2>3 DEF StepsOfTick
    <3>2. StepsOfAsking' \in 1..LongestTick
      BY <1>1, RequestAssumption DEF StepsOfAsking, LongestTick
    <3> QED
      BY <3>1, <3>2, RequestAssumption DEF LongestTick
  <2> QED
    BY <2>1, <2>2, <2>3 DEF ExitTypeOK
<1> QED
  BY <1>3, <1>4

\* Asking for an entry goes from the call to its answer, and never back.
LEMMA AskTakesDown ==
  ASSUME RequestInv, RequestInv', Ask
  PROVE  StepsOfTick' < StepsOfTick /\ UNCHANGED <<stage, crashes>>
<1> USE RequestAssumption
<1>1. stage = "ask" /\ UNCHANGED <<stage, crashes>>
  BY DEF Ask, driverVars, Begin, Refuse, Submit, Verdict, Unanswered, Poll, PollFails
<1>2. /\ attempt \in 0..MaxRetries /\ attempt' \in 0..MaxRetries
      /\ reads \in 0..MaxReads /\ reads' \in 0..MaxReads
  BY DEF RequestInv, OrderTypeOK, Ids
<1>3. CASE Begin
  <2>1. pc = "call" /\ pc' = "send"
    BY <1>3 DEF Begin
  <2> QED
    BY <1>1, <1>2, <2>1 DEF StepsOfTick, StepsOfAsking
<1>4. ASSUME pc \in {"call", "send", "poll"}, pc' = "done"
      PROVE  StepsOfTick' < StepsOfTick
  BY <1>1, <1>2, <1>4 DEF StepsOfTick, StepsOfAsking
<1>5. CASE Refuse \/ Verdict \/ PollFails
  <2>1. pc \in {"call", "send", "poll"} /\ pc' = "done"
    BY <1>5 DEF Refuse, Verdict, PollFails, Return
  <2> QED
    BY <1>1, <1>4, <2>1
<1>6. CASE Submit
  <2>1. pc = "send" /\ pc' \in {"done", "poll"}
    BY <1>6 DEF Submit, Receive, Return
  <2> QED
    BY <1>1, <1>2, <1>4, <2>1 DEF StepsOfTick, StepsOfAsking
<1>7. CASE Unanswered
  <2>1. pc = "send" /\ (pc' = "done" \/ (pc' = "send" /\ attempt' = attempt + 1))
    BY <1>7 DEF Unanswered, Retry, GiveUp, Return
  <2> QED
    BY <1>1, <1>2, <1>4, <2>1 DEF StepsOfTick, StepsOfAsking
<1>8. CASE Poll
  <2>1. pc = "poll" /\ (pc' = "done" \/ (pc' = "poll" /\ reads' = reads + 1))
    BY <1>8 DEF Poll, Return
  <2> QED
    BY <1>1, <1>2, <1>4, <2>1 DEF StepsOfTick, StepsOfAsking
<1> QED
  BY <1>1, <1>3, <1>5, <1>6, <1>7, <1>8 DEF Ask

\* A leg that was dealt with is not dealt with again.
LEMMA AmendTakesDown ==
  ASSUME ExitTypeOK, NEW k \in Kinds, amend(k)
  PROVE  StepsOfTick' < StepsOfTick /\ UNCHANGED <<stage, crashes>>
<1>1. stage = "amend" /\ todo[k] # None /\ todo' = [todo EXCEPT ![k] = None]
      /\ UNCHANGED <<stage, crashes>>
  BY DEF amend, Due, vars
<1>2. /\ Listing(k) = 1 /\ Listing(k)' = 0
      /\ \A j \in Kinds \ {k} : Listing(j)' = Listing(j)
      /\ \A j \in Kinds : Listing(j) \in {0, 1}
  BY <1>1 DEF Listing, ExitTypeOK, Levels
<1>3. CASE k = "stop"
  BY <1>1, <1>2, <1>3 DEF StepsOfTick, Kinds
<1>4. CASE k = "take"
  BY <1>1, <1>2, <1>4 DEF StepsOfTick, Kinds
<1> QED
  BY <1>3, <1>4 DEF Kinds

\* Every other step of the tick.
LEMMA DriverTakesDown ==
  ASSUME RequestInv, ExitTypeOK, Look \/ _act \/ save_state \/ adopt_broker_position
  PROVE  StepsOfTick' <= StepsOfTick /\ UNCHANGED crashes
         /\ (stage # "over" => StepsOfTick' < StepsOfTick)
<1> USE RequestAssumption
<1>1. StepsOfTick \in Nat /\ (stage # "over" => StepsOfTick > 0) /\ UNCHANGED crashes
  BY StepsOfTickRange DEF LongestTick, Look, _act, save_state, adopt_broker_position, vars
<1>2. CASE Look
  <2>1. stage = "look" /\ stage' = "ask" /\ UNCHANGED <<pc, attempt, reads>>
    BY <1>2 DEF Look, vars, callVars
  <2>2. /\ attempt \in 0..MaxRetries /\ reads \in 0..MaxReads
        /\ pc \in {"call", "send", "poll", "done"}
    BY DEF RequestInv, OrderTypeOK, Ids
  <2> QED
    BY <1>1, <2>1, <2>2 DEF StepsOfTick, StepsOfAsking, LongestTick
<1>3. CASE save_state \/ adopt_broker_position
  <2>1. stage' = "over"
    BY <1>3 DEF save_state, adopt_broker_position, Saves
  <2> QED
    BY <1>1, <2>1 DEF StepsOfTick
<1>4. CASE _act
  <2>1. stage = "ask" /\ pc = "done" /\ stage' \in {"over", "amend"}
    BY <1>4 DEF _act, Unread, Listed, Saves
  <2>2. StepsOfTick = 4
    BY <2>1 DEF StepsOfTick, StepsOfAsking
  <2>3. Listing("stop")' \in {0, 1} /\ Listing("take")' \in {0, 1}
    BY DEF Listing
  <2> QED
    BY <1>1, <2>1, <2>2, <2>3 DEF StepsOfTick
<1> QED
  BY <1>2, <1>3, <1>4

\* What happens outside a tick leaves it where it is.
LEMMA OthersLeaveIt ==
  ASSUME RequestInv, World \/ Fires \/ adopt_broker_exit \/ UNCHANGED bracketVars
  PROVE  UNCHANGED <<StepsOfTick, crashes>>
<1>1. CASE World \/ Fires \/ UNCHANGED bracketVars
  <2>1. UNCHANGED <<stage, todo, pc, attempt, reads, crashes>>
    BY <1>1 DEF World, OrderMoves, LateArrival, LateLoss, Fires, bracketVars, vars, callVars,
                driverVars
  <2> QED
    BY <2>1 DEF StepsOfTick, StepsOfAsking, Listing
<1>2. CASE adopt_broker_exit
  BY <1>2 DEF adopt_broker_exit, Saves, StepsOfTick, vars
<1> QED
  BY <1>1, <1>2

LEMMA OneCrashLess ==
  \A left, size, rank, full \in Nat :
      left > 0 /\ rank > 0 /\ full < size + 1 => (left - 1) * size + full < left * size + rank
<1> SUFFICES ASSUME NEW left \in Nat, NEW size \in Nat, NEW rank \in Nat, NEW full \in Nat,
                    left > 0, rank > 0, full < size + 1
             PROVE  (left - 1) * size + full < left * size + rank
  OBVIOUS
<1>1. left * size = (left - 1) * size + size
  OBVIOUS
<1>2. (left - 1) * size \in Int
  OBVIOUS
<1> QED
  BY <1>1, <1>2

LEMMA DeathTakesDown ==
  ASSUME RequestInv, RequestInv', ExitTypeOK, ExitTypeOK', Dies
  PROVE  StepsLeft' < StepsLeft
<1> USE RequestAssumption
<1>1. stage # "over" /\ stage' = "look" /\ crashes' = crashes + 1
  BY DEF Dies, Crash
<1>2. /\ StepsOfTick \in Nat /\ StepsOfTick > 0 /\ StepsOfTick' = LongestTick
      /\ CrashesLeft \in Nat /\ CrashesLeft' \in Nat /\ crashes \in Int
  BY <1>1, StepsOfTickRange, StepsOfTickRangeNext
     DEF StepsOfTick, CrashesLeft, LongestTick, RequestInv, OrderTypeOK
<1>3. CrashesLeft' = CrashesLeft - 1 /\ CrashesLeft > 0
  BY <1>1, <1>2 DEF CrashesLeft
<1>4. LongestTick \in Nat /\ LongestTick < (LongestTick + 1) + 1
  BY DEF LongestTick
<1>5. (CrashesLeft - 1) * (LongestTick + 1) + LongestTick
        < CrashesLeft * (LongestTick + 1) + StepsOfTick
  BY <1>2, <1>3, <1>4, OneCrashLess
<1> QED
  BY <1>2, <1>3, <1>5 DEF StepsLeft

\* A step of the tick, or the death of the process in it.
TickGoesOn == stage # "over" /\ (Progresses \/ Dies)

LEMMA StepsLeftRange ==
  ASSUME RequestInv, ExitTypeOK
  PROVE  StepsLeft \in Nat
<1>1. StepsOfTick \in Nat /\ CrashesLeft \in Nat /\ LongestTick \in Nat
  BY StepsOfTickRange, RequestAssumption DEF LongestTick
<1>2. CrashesLeft * (LongestTick + 1) \in Nat
  BY <1>1
<1> QED
  BY <1>1, <1>2 DEF StepsLeft

\* Where no crash is spent, it is the steps of the tick that count.
LEMMA SameCrashes ==
  ASSUME RequestInv, RequestInv', ExitTypeOK, ExitTypeOK', UNCHANGED crashes
  PROVE  /\ StepsOfTick' <= StepsOfTick => StepsLeft' <= StepsLeft
         /\ StepsOfTick' < StepsOfTick => StepsLeft' < StepsLeft /\ StepsLeft' <= StepsLeft
<1>1. StepsOfTick \in Nat /\ StepsOfTick' \in Nat /\ CrashesLeft \in Nat /\ LongestTick \in Nat
  BY StepsOfTickRange, StepsOfTickRangeNext, RequestAssumption DEF LongestTick
<1> DEFINE restarts == CrashesLeft * (LongestTick + 1)
<1>2. restarts \in Nat
  BY <1>1
<1>3. StepsLeft = restarts + StepsOfTick
  BY DEF StepsLeft
<1>4. CrashesLeft' = CrashesLeft
  BY DEF CrashesLeft
<1>5. StepsLeft' = restarts + StepsOfTick'
  BY <1>4 DEF StepsLeft, LongestTick
<1> HIDE DEF restarts
<1>6. \A r, new, old \in Nat :
        (new <= old => r + new <= r + old) /\ (new < old => r + new < r + old /\ r + new <= r + old)
  OBVIOUS
<1> QED
  BY <1>1, <1>2, <1>3, <1>5, <1>6

LEMMA StepTakesDown ==
  ASSUME RequestInv, RequestInv', ExitTypeOK, ExitTypeOK', [BracketNext]_bracketVars
  PROVE  StepsLeft' <= StepsLeft /\ (TickGoesOn => StepsLeft' < StepsLeft)
<1>1. CASE Ask
  BY <1>1, AskTakesDown, SameCrashes
<1>2. CASE \E k \in Kinds : amend(k)
  BY <1>2, AmendTakesDown, SameCrashes
<1>3. CASE Look \/ _act \/ save_state \/ adopt_broker_position
  BY <1>3, DriverTakesDown, SameCrashes DEF TickGoesOn
<1>4. CASE Dies
  <2>1. StepsLeft' < StepsLeft
    BY <1>4, DeathTakesDown
  <2>2. CrashesLeft' * (LongestTick + 1) \in Nat /\ StepsOfTick' \in Nat
    BY StepsOfTickRangeNext, RequestAssumption DEF LongestTick
  <2>3. StepsLeft \in Nat /\ StepsLeft' \in Nat
    BY <2>2, StepsLeftRange DEF StepsLeft, LongestTick
  <2> QED
    BY <2>1, <2>3
<1>5. CASE (World \/ Fires \/ adopt_broker_exit \/ UNCHANGED bracketVars) /\ ~TickGoesOn
  <2>1. UNCHANGED <<StepsOfTick, crashes>>
    BY <1>5, OthersLeaveIt
  <2>2. StepsOfTick \in Nat
    BY StepsOfTickRange, RequestAssumption DEF LongestTick
  <2> QED
    BY <1>5, <2>1, <2>2, SameCrashes
<1> QED
  BY <1>1, <1>2, <1>3, <1>4, <1>5 DEF BracketNext, Progresses, TickGoesOn

\* A tick takes no more steps than StepsLeft says, and once it is over it stays
\* so: no reading, retrying or polling goes round, and only a crash, of which
\* there are finitely many, has one decided again (execute_with_retry, poll).
THEOREM TickIsBounded ==
    BracketSpec => /\ [](StepsLeft \in Nat)
                   /\ [][StepsLeft' <= StepsLeft /\ (TickGoesOn => StepsLeft' < StepsLeft)]_bracketVars
<1>1. RequestInv /\ ProtectInv => StepsLeft \in Nat
  BY StepsLeftRange DEF ProtectInv
<1>2. RequestInv /\ RequestInv' /\ ProtectInv /\ ProtectInv' /\ [BracketNext]_bracketVars
        => [StepsLeft' <= StepsLeft /\ (TickGoesOn => StepsLeft' < StepsLeft)]_bracketVars
  BY StepTakesDown DEF ProtectInv
<1> QED
  BY <1>1, <1>2, BracketImplementsRequest, RequestInvariant, ProtectInvariant, PTL DEF BracketSpec

(***************************************************************************)
(* And there is always a next one.                                         *)
(***************************************************************************)

\* What each step that may come next waits for.
HasNext ==
    \/ stage = "look" /\ disk = None
    \/ stage = "ask" /\ pc \in {"call", "send", "poll"}
    \/ stage = "ask" /\ pc = "done" /\ answer.status \in {"filled", "no_fill", "rejected"}
    \/ stage = "amend"

Answered == pc = "done" => answer.status # "none"

LEMMA StepAnswered ==
  ASSUME Answered, [Next]_vars
  PROVE  Answered'
<1>1. \A o : Record(o).status # "none"
  BY DEF Record, Rejected
<1>2. CASE Refuse \/ Verdict \/ PollFails \/ Begin \/ Submit \/ Unanswered \/ Poll
  BY <1>1, <1>2 DEF Refuse, Verdict, PollFails, Begin, Submit, Receive, Unanswered, Retry, GiveUp,
     Poll, Return, Rejected, Answered
<1>3. CASE OrderMoves \/ LateArrival \/ LateLoss \/ Crash \/ Finished \/ UNCHANGED vars
  BY <1>3 DEF OrderMoves, LateArrival, LateLoss, Crash, Finished, vars, callVars, Answered
<1> QED
  BY <1>2, <1>3 DEF Next, Tick

\* A tick that is not over waits for nothing but its own next step: a tick that
\* looks knows of no position, and an answered one has an answer it can act on
\* (_act, on_bar_closed).
THEOREM TickHasNext == BracketSpec => [](stage # "over" => HasNext)
<1>1. Init => Answered
  BY DEF Init, Answered
<1>2. Spec => []Answered
  BY <1>1, StepAnswered, PTL DEF Spec
<1>3. RequestInv /\ ProtectInv /\ AgreeInv /\ Answered => (stage # "over" => HasNext)
  BY DEF RequestInv, OrderTypeOK, Fill, ProtectInv, ExitTypeOK, AgreeInv, Recorded, Answered, HasNext
<1> QED
  BY <1>2, <1>3, BracketImplementsRequest, RequestInvariant, ProtectInvariant, AgreeInvariant, PTL

=============================================================================
