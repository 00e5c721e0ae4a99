SPECIFICATION ConnectedSpec
CONSTANTS
    a = a
    b = b
    p0 = p0
    p1 = p1
    Msgs = {a, b}
    Length <- TwoLengths
    Overhead = 2
    Pids = {p0, p1}
    PidOf <- OneRun
    MaxRuns = 0
    Limits = {NoLimit}
    PipeCap = 1
    DiskFails = FALSE
    LimiterDrops = FALSE
    NoMsg = NoMsg
    NoPath = NoPath
    NoLimit = NoLimit
PROPERTY UploadedOnceConnected
CHECK_DEADLOCK FALSE
