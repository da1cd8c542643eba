SPECIFICATION FairSpec
CONSTANTS
    Threads = {worker, web}
    Worker = worker
    NoThread = nobody
    Durables = {plan}
    Ordinaries = {}
    Claims = {claim}
    MaxGen = 3
INVARIANTS TypeOK AckSurvives
PROPERTIES PublishedStays ClaimOnlyConfirmed HeldFileUntouched LogKept 
