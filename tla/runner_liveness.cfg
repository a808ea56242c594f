SPECIFICATION FairSpec
CONSTANTS
    Cleanup = Cleanup
    NoTask = NoTask
    Sockets = {s1}
    Requests = {q1}
    Installs = {}
    Windows = {}
    Severities = {"other"}
    Wishes <- OnlyInstall
    Sweeping = TRUE
    MaxActions = 1
    MaxQueued = 1
    MaxJobs = 1
    MaxScans = 0
    MaxFaults = 1
INVARIANTS TypeOK TablesAgree
PROPERTIES LifeButLateSweep ActionCloses JobEnds LockTaken
