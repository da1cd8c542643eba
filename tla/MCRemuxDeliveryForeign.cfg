SPECIFICATION Spec
CONSTANTS
    MaxFile = 3
    MaxIso = 1
    MaxLost = 0
    MaxAll = 4
    Interrupts = {}
PROPERTIES
    OnlyOwnOverwritten
CHECK_DEADLOCK FALSE
