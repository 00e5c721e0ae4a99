SPECIFICATION FairSpec
CONSTANTS
    AgentKinds = {"event"}
    PointKinds = {"datapoint"}
    MaxSent = 4
    SocketCap = 1
    OutCap = 1
    Leftovers = 0
PROPERTIES ShutdownCompletes SocketsRead
CHECK_DEADLOCK FALSE
