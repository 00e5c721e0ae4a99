SPECIFICATION Spec
CONSTANTS
    AgentKinds = {"event", "bad"}
    PointKinds = {"datapoint"}
    MaxSent = 2
    SocketCap = 2
    OutCap = 1
    Leftovers = 0
INVARIANT CrashReported
CHECK_DEADLOCK FALSE
