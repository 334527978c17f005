CONSTANTS
    Clients = 2
    MaxFd = 7
    MaxWorkers = 1
SPECIFICATION Spec
INVARIANT ResourcesOutliveUsers
CHECK_DEADLOCK FALSE
