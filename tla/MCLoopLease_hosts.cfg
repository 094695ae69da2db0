\* Two hosts and healthy loops: the clock keeps them apart.
CONSTANTS
    p1 = p1
    p2 = p2
    p3 = p3
    h1 = h1
    h2 = h2
    Procs = {p1, p2, p3}
    HostOf <- TwoHosts
    PidOf <- SamePids
    Grace = 4
    Lag = 1
    Period = 2
    MaxTick = 1
    MaxNow = 10
    Timely = TRUE
    Overlap = FALSE
    Recycling = TRUE
    None = None
SPECIFICATION Spec
INVARIANTS
    ClaimStands
PROPERTIES
    
    OneLoopAtATime
