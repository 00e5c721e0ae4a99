SPECIFICATION Spec
CONSTANTS
    Forms = {"client"}
    Arrivals = {"profile"}
    MaxArrivals = 1
    OutCap = 1
    Wrap = 2
    None = None
INVARIANT ErrorsReachBackend
CHECK_DEADLOCK FALSE
