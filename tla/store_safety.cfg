SPECIFICATION Spec
CONSTANTS
    a = a
    b = b
    p0 = p0
    p1 = p1
    Msgs = {a, b}
    Length <- TwoLengths
    Overhead = 2
    Pids = {p0, p1}
    PidOf <- FreshPids
    MaxRuns = 1
    Limits = {12}
    PipeCap = 2
    DiskFails = TRUE
    LimiterDrops = TRUE
    NoMsg = NoMsg
    NoPath = NoPath
    NoLimit = NoLimit
INVARIANTS TypeOK Durable
PROPERTIES StorageBounded ImplementsOutbox
CHECK_DEADLOCK FALSE
