------------------------------ MODULE MCDailyTick ------------------------------
EXTENDS DailyTickProps

MCCriteria ==
    {[on |-> TRUE, enter |-> 1, mode |-> "not_in_list", flat |-> TRUE,  once |-> TRUE],
     [on |-> TRUE, enter |-> 2, mode |-> "not_first",   flat |-> FALSE, once |-> TRUE],
     [on |-> TRUE, enter |-> 1, mode |-> "margin",      flat |-> TRUE,  once |-> FALSE]}

\* A day that gained, one that is even, one at its limit.
MCLosses == {-1, 0, 2}
=============================================================================
