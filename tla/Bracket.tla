-------------------------------- MODULE Bracket --------------------------------
(***************************************************************************)
(* An entry with its exits, in prices: what the strategy's levels become   *)
(* at the broker and in the state file (AlpacaBroker._open, reprice_exits  *)
(* and resting_levels, AlpacaExecutor.amend_exits, LiveDriver._act and     *)
(* adopt_broker_position).                                                 *)
(*                                                                         *)
(* It is OrderRequest, which says how the entry is asked for and answered, *)
(* with a bracket that goes out beside it.  The bracket is made for the    *)
(* price that is expected; when the entry fills at another one its two     *)
(* legs are replaced, one call each, while either of them may fire, a call *)
(* may fail and the process may die.                                       *)
(***************************************************************************)
EXTENDS OrderRequest

CONSTANTS
    Settings,   \* what a strategy may have configured
    Expected,   \* the price its entry is sized for, in cents
    Paid,       \* the prices it may fill at
    None

Kinds == {"stop", "take"}

\* The distances to a stop and to a take, 0 for none; the side; and whether a
\* whole share can be had for the weight.
Setting == [stop : Nat, take : Nat, short : BOOLEAN, whole : BOOLEAN]

ASSUME BracketAssumption ==
    /\ Settings \subseteq Setting
    /\ Expected \in Nat /\ Paid \subseteq Nat /\ None \notin Int

VARIABLES
    cfg,      \* the settings, as they are all along
    paid,     \* the price the entry was filled at
    legs,     \* the resting exits at the broker
    closed,   \* has one of them closed the position?
    disk,     \* the position in the state file: its price and its levels
    stage,    \* of the tick: look, ask, amend, over
    todo,     \* the legs a tick has listed and not yet dealt with, at their levels
    amiss     \* has it been reported that a leg may not be where it should?

exitVars    == <<paid, legs, closed>>
driverVars  == <<disk, stage, todo, amiss>>
bracketVars == <<vars, cfg, exitVars, driverVars>>

NoLegs == [k \in Kinds |-> None]

\* Where an entry at this price is stopped out, and where it takes its profit.
levels(price) ==
    LET below(d) == IF d = 0 THEN None ELSE price - d
        above(d) == IF d = 0 THEN None ELSE price + d
    IN  IF cfg.short THEN [stop |-> above(cfg.stop), take |-> below(cfg.take)]
                     ELSE [stop |-> below(cfg.stop), take |-> above(cfg.take)]

Entered(price) == [price |-> price, levels |-> levels(price)]

\* One level alone is no bracket: nothing is sent with such an entry.
Bracketed == cfg.stop > 0 /\ cfg.take > 0

BracketInit ==
    /\ Init
    /\ cfg \in Settings
    /\ paid = None /\ legs = NoLegs /\ closed = FALSE
    /\ disk = None /\ stage = "look" /\ todo = NoLegs /\ amiss = FALSE

(***************************************************************************)
(* The broker.                                                             *)
(***************************************************************************)

Bought(o)  == \E id \in Ids : o[id].bought > 0
Ordered(o) == \E id \in Ids : o[id] # NoOrder
Open(o)    == \E id \in Ids : o[id].status = "working"
Holds      == Bought(orders) /\ ~closed

\* The legs come with the order, and go when it ends with nothing bought.
Brokers ==
    /\ IF paid = None /\ Bought(orders') THEN paid' \in Paid ELSE UNCHANGED paid
    /\ legs' = IF ~Ordered(orders') \/ (~Bought(orders') /\ ~Open(orders')) THEN NoLegs
               ELSE IF ~Ordered(orders) /\ Bracketed /\ cfg.whole THEN levels(Expected)
               ELSE legs
    /\ UNCHANGED closed

\* A leg closes the position, and the other one is cancelled.
Fires ==
    /\ Holds /\ ~Open(orders) /\ legs # NoLegs
    /\ closed' = TRUE /\ legs' = NoLegs
    /\ UNCHANGED <<vars, cfg, paid, driverVars>>

(***************************************************************************)
(* The entry.                                                              *)
(***************************************************************************)

\* Defect: the fraction goes out without its exits.
SendAnyway == TRUE

\* A fraction of a share cannot carry a bracket, and goes out without one or
\* not at all.
MaySend == cfg.whole \/ ~Bracketed

\* What a tick asks for an entry (OrderRequest).
Ask ==
    /\ stage = "ask"
    /\ (Begin /\ MaySend) \/ Refuse \/ Submit \/ Verdict \/ Unanswered \/ Poll \/ PollFails
    /\ Brokers
    /\ UNCHANGED <<cfg, driverVars>>

World ==
    /\ OrderMoves \/ LateArrival \/ LateLoss
    /\ Brokers
    /\ UNCHANGED <<cfg, driverVars>>

\* The tick is over, and what it has of a position is saved.
Saves(position) == disk' = position /\ stage' = "over" /\ todo' = NoLegs

(***************************************************************************)
(* The exits after the fill (_act, amend_exits).                           *)
(***************************************************************************)

\* Defect: the levels stay those of the price that was expected.
RepriceNothing(price) == levels(Expected)

\* The price that was paid is where the levels are measured from.
_reprice_entry(price) == levels(price)

Repriced == [price |-> paid, levels |-> _reprice_entry(paid)]

\* The orders cannot be read; or the legs among them are listed.
Unread == Saves(Repriced) /\ amiss' = TRUE
Listed == stage' = "amend" /\ todo' = legs /\ UNCHANGED <<disk, amiss>>

\* An entry that was refused leaves nothing, one that is working its order.
_act ==
    /\ stage = "ask" /\ pc = "done"
    /\ \/ answer.status = "rejected" /\ Saves(None) /\ UNCHANGED amiss
       \/ answer.status = "no_fill" /\ Saves(Entered(Expected)) /\ UNCHANGED amiss
       \/ answer.status = "filled" /\ Repriced.levels = NoLegs /\ Saves(Repriced) /\ UNCHANGED amiss
       \/ answer.status = "filled" /\ Repriced.levels # NoLegs /\ (Unread \/ Listed)
    /\ UNCHANGED <<vars, cfg, exitVars>>

Wanted(k) == Repriced.levels[k]
Due(k)    == todo[k] # None /\ Wanted(k) # None /\ todo[k] # Wanted(k)

\* A leg is replaced while it rests.  A reply that is lost makes a failure of
\* it, the leg that is asked for again being replaced by then; and a failure
\* leaves the leg where it is.
amend(k) ==
    /\ stage = "amend" /\ Due(k)
    /\ todo' = [todo EXCEPT ![k] = None]
    /\ \/ legs[k] # None /\ legs' = [legs EXCEPT ![k] = Wanted(k)] /\ amiss' \in {amiss, TRUE}
       \/ amiss' = TRUE /\ UNCHANGED legs
    /\ UNCHANGED <<vars, cfg, paid, closed, disk, stage>>

save_state ==
    /\ stage = "amend" /\ \A k \in Kinds : ~Due(k)
    /\ Saves(Repriced)
    /\ UNCHANGED <<vars, cfg, exitVars, amiss>>

(***************************************************************************)
(* The ticks before and after (on_bar_closed).                             *)
(***************************************************************************)

\* Defect: an adopted position is given the levels of the configuration.
AdoptDerived(known) == levels(paid)

\* The levels of the legs that rest, and where there are none the configured.
Adopted(known) ==
    [k \in Kinds |-> IF known[k] = None THEN levels(paid)[k] ELSE known[k]]

\* The account holds what the state file does not know.  If its orders cannot
\* be read there is nothing to go by but the configuration.  A tick that has
\* adopted a position opens none.
adopt_broker_position ==
    /\ stage \in {"look", "over"} /\ disk = None /\ Holds
    /\ \/ Saves([price |-> paid, levels |-> Adopted(legs)]) /\ UNCHANGED amiss
       \/ Saves([price |-> paid, levels |-> Adopted(NoLegs)]) /\ amiss' = TRUE
    /\ UNCHANGED <<vars, cfg, exitVars>>

Look ==
    /\ stage = "look" /\ ~Holds
    /\ stage' = "ask"
    /\ UNCHANGED <<vars, cfg, exitVars, disk, todo, amiss>>

\* A leg closed the position, or it was never opened.
adopt_broker_exit ==
    /\ stage = "over" /\ disk # None /\ ~Holds /\ ~Open(orders)
    /\ Saves(None)
    /\ UNCHANGED <<vars, cfg, exitVars, amiss>>

\* The process dies, and the bar it had not recorded is decided again.
Dies ==
    /\ stage # "over" /\ Crash
    /\ stage' = "look" /\ todo' = NoLegs /\ amiss' = FALSE
    /\ UNCHANGED <<cfg, exitVars, disk>>

(***************************************************************************)
(* The panel (loop_service.protection).                                    *)
(***************************************************************************)

\* In tenths of a percent of the level that is wanted; a level of 0 is no level.
LevelTolerance == 3

_match(resting, wanted) ==
    LET off  == IF resting < wanted THEN wanted - resting ELSE resting - wanted
        size == IF wanted < 0 THEN -wanted ELSE wanted
    IN  wanted # 0 /\ 1000 * off <= LevelTolerance * size

\* Is what the state file holds protected, by the levels it was opened with?
protection ==
    LET wanted    == {k \in Kinds : disk.levels[k] # None}
        uncovered == {k \in wanted : legs[k] = None \/ ~_match(legs[k], disk.levels[k])}
    IN  IF disk = None THEN "none"
        ELSE IF wanted = {} THEN "naked"
        ELSE IF uncovered = {} THEN "protected" ELSE "unprotected"

Progresses == Look \/ Ask \/ _act \/ save_state \/ (\E k \in Kinds : amend(k)) \/ adopt_broker_position

BracketNext == Progresses \/ adopt_broker_exit \/ World \/ Fires \/ Dies

BracketSpec == BracketInit /\ [][BracketNext]_bracketVars

\* Every request has a timeout, and a process that dies is started again.
BracketFair == BracketSpec /\ WF_bracketVars(Progresses)

=============================================================================
