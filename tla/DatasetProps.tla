----------------------------- MODULE DatasetProps -----------------------------
(***************************************************************************)
(* What the dataset promises to those who decide on it.                    *)
(***************************************************************************)
EXTENDS Dataset

\* A decision is made on final prices: no bar of the window a tick decides on
\* holds what its price was while it was forming (orchestrator._window,
\* sync_missing_days).
DecidesOnFinalPrices ==
    Is(Loop, "window") /\ ~Stale(Loop) => \A b \in WindowOf(Loop) : file[b] = "final"

\* The frames a check may answer from: the range as cached, and what is new, as
\* cached or asked for again.
FramesOf(p) ==
    {f \in {span[p]} : Usable(f)} \union
    (IF p = "page" /\ tail # None THEN {tail}
     ELSE IF Stored(file) = {} THEN {} ELSE {Answer(DayOf(Newest(Stored(file))), LastDay)})

\* An interval is written off as untraded only where the provider was asked
\* about it after it had ended, and had nothing: a frame that is reused says
\* nothing of what closed since, and a fresh frame of the last day nothing of
\* the days before (_missing_bar_rows, ProviderFrame).
UntradedWasAsked ==
    \A p \in {"loop", "page"} : \A frames \in SUBSET FramesOf(p) :
        Stored(file) # {} =>
            \A b \in NoTrades(Stored(file), frames, {}, last_closed_bar(now)) :
                \E f \in frames : f.ok /\ b <= f.at /\ f.from <= DayOf(b) /\ b \notin f.bars

\* A hole that a sync was shown is filled when it has written, whichever part of
\* the range it asked for again and whoever wrote meanwhile (sync_missing_days).
HolesSeenAreFilled ==
    [][\A t \in Threads : Is(t, "write") /\ task'[t] # task[t] =>
           task[t].holes \subseteq Stored(file')]_vars

=============================================================================
