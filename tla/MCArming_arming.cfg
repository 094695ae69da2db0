\* Two strategies, one request at a time; the loop, the broker and the stop
\* button do not wait for it.
CONSTANTS
    a = a
    b = b
    Names = {a, b}
    r1 = r1
    Requests = {r1}
    Insts <- MCInsts
    Bars <- MCBars
    Default <- MCDefault
    Legacy = FALSE
    MaxStrategies = 1
    MaxRequests = 3
    None = None
SPECIFICATION Spec
INVARIANTS
    TypeOK
    ArmingHolds
    TicksWereProven
PROPERTIES
    EnvLeavesNothingBehind
    LiveDataIsKept
SYMMETRY Symmetry
CHECK_DEADLOCK FALSE
