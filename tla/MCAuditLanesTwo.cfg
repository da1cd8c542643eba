SPECIFICATION Spec
CONSTANTS
    Files = {a, b}
    NoFile = none
    Silent = {1}
    Moves = {"stop", "setting", "reaudit"}
    MaxStamp = 1
    MaxFaults = 1
INVARIANT TypeOK
PROPERTY VerdictsKept
