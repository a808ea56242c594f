SPECIFICATION Spec
CONSTANTS
    Cleanup = Cleanup
    NoTask = NoTask
    Sockets = {s1, s2}
    Requests = {q1}
    Installs = {i1}
    Windows = {}
    Severities = {"other"}
    Wishes <- OnlyScript
    Sweeping = FALSE
    MaxActions = 1
    MaxQueued = 1
    MaxJobs = 2
    MaxScans = 0
    MaxFaults = 0
INVARIANT NoDoubleSend
SYMMETRY SocketSymmetry
