----------------------------- MODULE MCAuthSession -----------------------------
EXTENDS AuthSessionProps, TLC

CONSTANTS b1, b2, t1, t2, p1, p2

Symmetry == Permutations({b1, b2}) \union Permutations({t1, t2}) \union Permutations({p1, p2})

=============================================================================
