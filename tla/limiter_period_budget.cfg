SPECIFICATION Spec
CONSTANTS
    Sizes = {3, 7}
    MaxSize = 7
    Configs <- SamePlan
    Unit = 10
    Month = 1
    MaxInt = 255
    MaxRestarts = 0
    CountCap = 21
    PeriodCap = 20
INVARIANT PeriodBudget
