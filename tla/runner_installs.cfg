SPECIFICATION Spec
CONSTANTS
    Cleanup = Cleanup
    NoTask = NoTask
    Sockets = {s1}
    Requests = {}
    Installs = {}
    Windows = {w1}
    Severities = {"other"}
    Wishes <- OnlyInstall
    Sweeping = FALSE
    MaxActions = 3
    MaxQueued = 2
    MaxJobs = 3
    MaxScans = 1
    MaxFaults = 0
INVARIANTS OneInstall RebootEarned
PROPERTY NoRebootDuringInstall
