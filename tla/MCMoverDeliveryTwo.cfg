SPECIFICATION FairSpec
CONSTANTS
    Jobs = {film, disc2}
    KeepsIso = {disc2}
    MaxVariant = 2
    MaxActs = 1
INVARIANT OneName
PROPERTIES FilingKept EverySettles
CHECK_DEADLOCK FALSE
