SPECIFICATION FairSpec
CONSTANTS
    Sizes = {2}
    MaxSize = 2
    Configs <- ChangingPlan
    Unit = 3
    Month = 2
    MaxInt = 63
    MaxRestarts = 2
    CountCap = 5
    PeriodCap = 0
INVARIANTS TypeOK CountWithinBudget SentWithinBudget
PROPERTIES InputDrained DroppingEnds ShutdownCompletes
