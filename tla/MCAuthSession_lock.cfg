\* Two browsers, two requests at a time, heartbeats overlap everything.
CONSTANTS
    b1 = b1
    b2 = b2
    t1 = t1
    t2 = t2
    p1 = p1
    p2 = p2
    Browsers = {b1, b2}
    Terminal = Terminal
    Threads = {t1, t2}
    Pins = {p1, p2}
    Usable = {p1, p2}
    MaxAttempts = 2
    Lockout = 1
    Absolute = 1
    DefaultIdle = 1
    IdleMin = 2
    IdleMax = 2
    IdleInputs = {2}
    Overlap = FALSE
    MaxSecret = 2
    MaxSession = 2
    MaxTime = 2
    None = None
SPECIFICATION Spec
INVARIANTS
    RevokedStaysRevoked
    SessionsEnd
SYMMETRY Symmetry
CHECK_DEADLOCK FALSE
