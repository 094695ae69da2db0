------------------------------- MODULE MCReplay -------------------------------
EXTENDS ReplayProps

\* Bars that reach a level from the open, from an older entry, or both at once.
MCCandles ==
    {[open |-> 5, high |-> 5, low |-> 5, close |-> 5],
     [open |-> 5, high |-> 7, low |-> 3, close |-> 4],
     [open |-> 6, high |-> 7, low |-> 6, close |-> 7],
     [open |-> 4, high |-> 4, low |-> 3, close |-> 3]}

MCConfig == [allow_short |-> TRUE, stop |-> 2, take |-> 2, cost |-> 1, volatility |-> TRUE, period |-> 2]
=============================================================================
