SPECIFICATION FairSpec
CONSTANTS
    NoJob = NoJob
    Job = {j1}
    Installs = {j1}
    Viewers = {}
    Outbox = 1
    MaxConn = 2
    MaxChunk = 2
    MaxOutput = 2
    MaxAsks = 1
    Sweeping = FALSE
    MaxFaults = 1

PROPERTIES LoopsReturn JobsReleased ResultArrives
CHECK_DEADLOCK FALSE
