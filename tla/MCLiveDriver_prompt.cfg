\* Orders fill at once; requests may fail and replies may be lost.
CONSTANTS
    MaxBar = 3
    Protect = "bracket"
    AllowShort = TRUE
    Faults = {"api", "lost"}
    MaxCrashes = 1
    MaxFlips = 1
    None = None
SPECIFICATION Spec
INVARIANTS
    OnePosition
    RoundTripsInOrder
\* The bars end at MaxBar: the loop then has nothing left to decide.
CHECK_DEADLOCK FALSE
