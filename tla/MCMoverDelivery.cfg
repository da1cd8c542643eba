SPECIFICATION FairSpec
CONSTANTS
    Jobs = {film}
    KeepsIso = {film}
    MaxVariant = 2
    MaxActs = 3
INVARIANTS TypeOK MediaKept FiledOnce BudgetHolds GoneWasLinked
PROPERTIES FilingKept EverySettles
CHECK_DEADLOCK FALSE
