------------------------------- MODULE MCArming -------------------------------
EXTENDS ArmingProps, TLC

CONSTANTS a, b, r1

MCInsts   == {"X", "Y"}
MCBars    == {"1d", "1m"}
MCDefault == [env |-> "paper", inst |-> "X", bar |-> "1d"]

Symmetry == Permutations({a, b})

=============================================================================
