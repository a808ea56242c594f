SPECIFICATION Spec
CONSTANTS
    Cleanup = Cleanup
    NoTask = NoTask
    Sockets = {s1}
    Requests = {}
    Installs = {i1, i2}
    Windows = {}
    Severities = {"other"}
    Wishes <- OnlyInstall
    Sweeping = FALSE
    MaxActions = 0
    MaxQueued = 0
    MaxJobs = 2
    MaxScans = 0
    MaxFaults = 0
INVARIANT OneInstall
