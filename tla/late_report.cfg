SPECIFICATION Spec
CONSTANTS
    Cleanup = Cleanup
    NoTask = NoTask
    Sockets = {s1}
    Requests = {q1}
    Installs = {}
    Windows = {}
    Severities = {"other"}
    Wishes <- OnlyScript
    Sweeping = TRUE
    MaxActions = 1
    MaxQueued = 1
    MaxJobs = 1
    MaxScans = 0
    MaxFaults = 0
PROPERTY FollowsJobLife
