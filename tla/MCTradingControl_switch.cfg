\* One machine; loops may hang, crash and fail to start.
CONSTANTS
    p1 = p1
    p2 = p2
    p3 = p3
    h1 = h1
    r1 = r1
    page = page
    Procs = {p1, p2}
    HostOf <- OneHost
    PidOf <- Pids
    Grace = 1
    Lag = 0
    Period = 1
    MaxTick = 0
    MaxNow = 2
    Timely = FALSE
    Overlap = FALSE
    Recycling = FALSE
    Requests = {r1}
    Page = page
    MaxFailures = 2
    None = None
SPECIFICATION ControlSpec
INVARIANTS
    RunningLoopHolds
PROPERTIES
    FollowsLease
    ArmedLoopRuns
    OffStopsTheLoop
