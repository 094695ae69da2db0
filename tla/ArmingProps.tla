------------------------------ MODULE ArmingProps ------------------------------
(***************************************************************************)
(* What the gates between the store, the account and the switch are for.   *)
(***************************************************************************)
EXTENDS Arming

\* While trading is on, the active strategy, the account it routes to and the
\* pair it trades with are those that were checked, and for the live account
\* confirmed, when it was turned on: no edit, save of the account, resurrected
\* strategy or switch of instrument gets past the switch (turn_on,
\* require_trading_off, set_strategy_config).
ArmingHolds ==
    trading.on =>
        /\ trading.name = store.active
        /\ trading.env = resolve_effective(store).env
        /\ [name |-> store.active, env |-> trading.env, pair |-> keys[trading.env]] \in proven

\* A tick trades an account, with a pair, for a strategy that some arming has
\* checked, though the switch may have been flipped and everything edited since
\* it began (tick, src/scheduler/orchestrator.py).
TicksWereProven ==
    tick # None => [name |-> tick.name, env |-> tick.set.env, pair |-> tick.pair] \in proven

\* The environment is not switched while an account holds a position, though
\* the gate may answer from a reading made seconds ago: turn_off has looked
\* again.  Positions that a tick opened after it was stopped are the exception
\* (require_flat, turn_off, positions.snapshot).
EnvLeavesNothingBehind ==
    [][\A r \in Requests :
        Is(r, "env") /\ store' # store /\ job' # job => held \subseteq late]_vars

\* Deleting a strategy with its data keeps every dataset that a live strategy
\* runs on, of another bar size or not (delete_strategy).
LiveDataIsKept ==
    [][\A n \in Live(store)' : DataOf(store.of[n])' \notin files \ files']_vars

=============================================================================
