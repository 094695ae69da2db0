\* The account answers and fills at once; the process may still die.
CONSTANTS
    MaxBar = 3
    Protect = "bracket"
    AllowShort = TRUE
    Faults = {}
    MaxCrashes = 1
    MaxFlips = 0
    None = None
SPECIFICATION FairSpec
PROPERTIES PositionGetsManaged
INVARIANTS
    SignalHonoured
    LogMatchesAccount
\* The bars end at MaxBar: the loop then has nothing left to decide.
CHECK_DEADLOCK FALSE
