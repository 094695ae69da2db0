------------------------------ MODULE MCLoopLease ------------------------------
EXTENDS LoopLeaseProps, TLC

CONSTANTS p1, p2, p3, h1, h2

\* Two on one machine, and one in a container whose pids start over.
TwoHosts == p1 :> h1 @@ p2 :> h1 @@ p3 :> h2
SamePids == p1 :> 1 @@ p2 :> 2 @@ p3 :> 1

=============================================================================
