SPECIFICATION FairSpec
CONSTANTS
    Forms = {"client", "serial", "dumper"}
    Arrivals = {"log", "event", "datapoint"}
    MaxArrivals = 2
    OutCap = 1
    Wrap = 2
    None = None
INVARIANTS TypeOK 
PROPERTIES RateIsTraffic RunEnds
CHECK_DEADLOCK FALSE
