SPECIFICATION FairSpec
CONSTANTS
    OnInsert = {"nothing", "scan", "rip"}
    ImageOutput = FALSE
    Overtaken = FALSE
    MaxDiscs = 1
    MaxStops = 1
    MaxRequests = 1
    MaxFaults = 1
INVARIANTS
    TypeOK

     
