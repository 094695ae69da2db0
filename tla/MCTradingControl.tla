--------------------------- MODULE MCTradingControl ---------------------------
EXTENDS TradingControlProps, TLC

CONSTANTS p1, p2, p3, h1, r1, page

OneHost == [p \in Procs |-> h1]
Pids    == p1 :> 1 @@ p2 :> 2 @@ p3 :> 3

=============================================================================
