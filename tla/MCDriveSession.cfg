SPECIFICATION Spec
CONSTANTS
    OnInsert = {"rip"}
    ImageOutput = TRUE
    Overtaken = FALSE
    MaxDiscs = 2
    MaxStops = 1
    MaxRequests = 1
    MaxFaults = 1
INVARIANTS
    OneWorker   
PROPERTIES
    StoppedStaysStopped 
