\* Orders may still be working when polling gives up.
CONSTANTS
    MaxBar = 3
    Protect = "bracket"
    AllowShort = FALSE
    Faults = {"slow", "lost"}
    MaxCrashes = 1
    MaxFlips = 0
    None = None
SPECIFICATION Spec
INVARIANTS
    
    OneEntryPerBar
\* The bars end at MaxBar: the loop then has nothing left to decide.
CHECK_DEADLOCK FALSE
