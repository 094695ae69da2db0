\* An entry and its exits, filled as expected or a cent above, over a network
\* that loses anything.
CONSTANTS
    MaxRetries = 2
    MaxReads = 2
    Size = 2
    MaxCrashes = 2
    Settings <- MCSettings
    Expected = 10
    Paid = {10, 11}
    None = None
SPECIFICATION BracketFair
INVARIANTS
    KeptEntryIsReal
    RefusalIsFinal
    NeverNaked
    LevelsAgree
    
PROPERTIES
    OneOrderPerIntent
    TickEnds
\* The position is closed, or never opened: the day has nothing left to do.
CHECK_DEADLOCK FALSE
