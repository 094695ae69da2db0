CONSTANTS
    Loop = Loop
    Pages = {w}
    w = w
    Slots = 2
    Night = 1
    Window = 2
    Probe = 1
    LastTime = 5
    LateBars = {2}
    MidSession = FALSE
    None = None
SPECIFICATION Spec
INVARIANTS
    TypeOK
    
    
PROPERTIES
    HolesSeenAreFilled
CHECK_DEADLOCK FALSE
