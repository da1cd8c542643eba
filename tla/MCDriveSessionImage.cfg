SPECIFICATION FairSpec
CONSTANTS
    OnInsert = {"rip"}
    ImageOutput = TRUE
    Overtaken = FALSE
    MaxDiscs = 1
    MaxStops = 0
    MaxRequests = 0
    MaxFaults = 1
PROPERTIES
    BusyEnds
