SPECIFICATION FairSpec
CONSTANTS
    Files = {a}
    NoFile = none
    Silent = {}
    Moves = {"disks"}
    MaxStamp = 2
    MaxFaults = 1
INVARIANTS ShownIsOfTheFile LanesHoldOnce
PROPERTIES AllAudited QuickNeverWaits
