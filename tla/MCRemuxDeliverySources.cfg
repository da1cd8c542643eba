SPECIFICATION Spec
CONSTANTS
    MaxFile = 3
    MaxIso = 2
    MaxLost = 1
    MaxAll = 4
    Interrupts = {"preempted"}
INVARIANTS
    LinkTellsTheTruth
PROPERTIES
    FreshOverwritesOwn
    NoSecondLanding
CHECK_DEADLOCK FALSE
