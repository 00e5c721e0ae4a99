SPECIFICATION FairSpec
CONSTANTS
    Periods = {0, 60}
INVARIANTS TypeOK RequestsStop
PROPERTIES RequesterEnds ConfigFlows
CHECK_DEADLOCK FALSE
