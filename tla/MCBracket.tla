------------------------------- MODULE MCBracket -------------------------------
EXTENDS BracketProps

\* A bracket, long and short; one for a share that is too dear; a stop alone.
MCSettings ==
    {[stop |-> 2, take |-> 3, short |-> FALSE, whole |-> TRUE],
     [stop |-> 2, take |-> 3, short |-> TRUE,  whole |-> TRUE],
     [stop |-> 2, take |-> 3, short |-> FALSE, whole |-> FALSE],
     [stop |-> 2, take |-> 0, short |-> FALSE, whole |-> TRUE]}
=============================================================================
