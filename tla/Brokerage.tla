------------------------------ MODULE Brokerage ------------------------------
(***************************************************************************)
(* The broker account the strategy trades in, as much of it as             *)
(* src/execution uses: one instrument, whole positions counted in units of *)
(* one entry, orders named by a client order id the broker deduplicates    *)
(* on, bracket exits that rest at the broker, and the history of fills     *)
(* that closed_orders reads.  The account is outside the repository; every *)
(* operation here is what AlpacaClient and AlpacaExecutor ask of it.       *)
(***************************************************************************)
EXTENDS Integers, Sequences, FiniteSets

CONSTANTS
    MaxBar,     \* bars 1..MaxBar close during a behaviour
    Protect     \* the configured levels: "none", "single" or "bracket"

ASSUME BrokerageAssumption ==
    /\ MaxBar \in Nat \ {0}
    /\ Protect \in {"none", "single", "bracket"}

VARIABLES
    qty,        \* net position, in entries: positive long, negative short
    working,    \* entry orders accepted and not filled yet
    legs,       \* bracket exits resting behind a filled entry (an OCO pair is one)
    exitOrder,  \* the last liquidation order: working, filled, or dead ("none" before)
    seen,       \* client order ids the broker has accepted
    entries,    \* how many entry orders were accepted for each bar
    hist        \* fills, oldest first

brokerVars == <<qty, working, legs, exitOrder, seen, entries, hist>>

Bars   == 1..MaxBar
Order  == [bar : Bars, short : BOOLEAN]
CId    == Bars \X (0..1)    \* a bar makes at most two orders
\* A fill: its side, what filled, and the bar of the entry it belongs to.
Fill   == [buy : BOOLEAN, of : {"entry", "leg", "close"}, bar : Bars \union {0}]

BrokerTypeOK ==
    /\ qty \in Int
    /\ working \in SUBSET Order
    /\ legs \in SUBSET Order
    /\ exitOrder \in {"none", "working", "filled", "dead"}
    /\ seen \in SUBSET CId
    /\ entries \in [Bars -> Nat]
    /\ hist \in Seq(Fill)

Towards(short) == IF short THEN -1 ELSE 1
Flat == qty = 0

(***************************************************************************)
(* What the driver asks.                                                   *)
(***************************************************************************)

\* The newest fill on the side that closes a position: a long is closed by a
\* SELL, a short by a BUY.  Nothing relates it to the position asked about.
ClosingFills(short) == {i \in DOMAIN hist : hist[i].buy = short}

\* Defect: the history is read in the wrong order.
Oldest(S) == IF S = {} THEN 0 ELSE CHOOSE i \in S : \A j \in S : i <= j

Newest(S)           == IF S = {} THEN 0 ELSE CHOOSE i \in S : \A j \in S : j <= i
ClosingFill(short)  == Newest(ClosingFills(short))

\* The newest fill that could have opened a position: its avg_entry_price.
EntryFill(short) == Newest({i \in DOMAIN hist : hist[i].buy = ~short})

\* The fill of a bar's own entry, and of the last liquidation.
FillOfEntry(b) == Newest({i \in DOMAIN hist : hist[i].of = "entry" /\ hist[i].bar = b})
FillOfExit     == Newest({i \in DOMAIN hist : hist[i].of = "close"})

\* The most recent finished order that has a price, whichever side it was.
LastFill == Len(hist)

(***************************************************************************)
(* What an order does when it arrives.                                     *)
(***************************************************************************)

Rests(order) == IF Protect = "bracket" THEN legs \union {order} ELSE legs

Accept(order, cid) ==
    /\ cid \notin seen
    /\ seen' = seen \union {cid}
    /\ entries' = [entries EXCEPT ![order.bar] = @ + 1]

Filled(order) ==
    /\ qty' = qty + Towards(order.short)
    /\ hist' = Append(hist, [buy |-> ~order.short, of |-> "entry", bar |-> order.bar])
    /\ legs' = Rests(order)

\* The liquidation the broker builds itself from the position it holds.
Liquidate ==
    /\ qty' = 0
    /\ hist' = Append(hist, [buy |-> qty < 0, of |-> "close", bar |-> 0])
    /\ exitOrder' = "filled"

(***************************************************************************)
(* What the account does on its own, between any two calls.                *)
(***************************************************************************)

FillEntry ==
    \E order \in working :
        /\ Filled(order)
        /\ working' = working \ {order}
        /\ UNCHANGED <<exitOrder, seen, entries>>

\* A day order that never filled is gone at the close.
ExpireEntry ==
    \E order \in working :
        /\ working' = working \ {order}
        /\ UNCHANGED <<qty, legs, exitOrder, seen, entries, hist>>

\* A resting stop or take-profit triggers: its partner is cancelled, and the
\* order executes whether or not there is still a position for it to close.
FireLeg ==
    \E order \in legs :
        /\ qty' = qty - Towards(order.short)
        /\ hist' = Append(hist, [buy |-> order.short, of |-> "leg", bar |-> order.bar])
        /\ legs' = legs \ {order}
        /\ UNCHANGED <<working, exitOrder, seen, entries>>

FillExit ==
    /\ exitOrder = "working"
    /\ \/ ~Flat /\ Liquidate
       \/ Flat /\ exitOrder' = "dead" /\ UNCHANGED <<qty, hist>>
    /\ UNCHANGED <<working, legs, seen, entries>>

AccountMoves == FillEntry \/ ExpireEntry \/ FireLeg \/ FillExit

=============================================================================
