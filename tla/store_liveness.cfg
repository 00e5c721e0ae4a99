SPECIFICATION FairSpec
CONSTANTS
    a = a
    b = b
    p0 = p0
    p1 = p1
    Msgs = {a, b}
    Length <- TwoLengths
    Overhead = 2
    Pids = {p0, p1}
    PidOf <- FreshPids
    MaxRuns = 1
    Limits = {12}
    PipeCap = 1
    DiskFails = FALSE
    LimiterDrops = TRUE
    NoMsg = NoMsg
    NoPath = NoPath
    NoLimit = NoLimit
PROPERTIES ConverterReturns LoaderReturns ImplementsOutbox
CHECK_DEADLOCK FALSE
