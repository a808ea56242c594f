SPECIFICATION Spec
CONSTANTS
    NoJob = NoJob
    Job = {j1}
    Installs = {j1}
    Viewers = {v1}
    Outbox = 2
    MaxConn = 2
    MaxChunk = 3
    MaxOutput = 2
    MaxAsks = 0
    Sweeping = TRUE
    MaxFaults = 1

INVARIANTS TypeOK FinishedWhole OutputInOrder ToldIsOver
PROPERTY LifeButLateSweep
CHECK_DEADLOCK FALSE
