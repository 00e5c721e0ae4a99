SPECIFICATION Spec
CONSTANTS
    AgentKinds = {"event", "applog", "bad"}
    PointKinds = {"datapoint", "bad"}
    MaxSent = 2
    SocketCap = 2
    OutCap = 1
    Leftovers = 1
INVARIANTS TypeOK StreamsRelayed ExitReported ExitAwaited
PROPERTY ImplementsRelay
CHECK_DEADLOCK FALSE
