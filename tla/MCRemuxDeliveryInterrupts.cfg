SPECIFICATION Spec
CONSTANTS
    MaxFile = 2
    MaxIso = 1
    MaxLost = 1
    MaxAll = 4
    Interrupts = {"cancelled", "preempted", "stalled"}
INVARIANTS
    TypeOK
    KeptOffered
    NoDeadPath
    DoneHasLanded
    OwnLandingKnown
CHECK_DEADLOCK FALSE
