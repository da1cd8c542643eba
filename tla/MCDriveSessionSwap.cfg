SPECIFICATION Spec
CONSTANTS
    OnInsert = {"nothing"}
    ImageOutput = FALSE
    Overtaken = FALSE
    MaxDiscs = 2
    MaxStops = 0
    MaxRequests = 2
    MaxFaults = 0
INVARIANTS
    SweepsItsDisc
