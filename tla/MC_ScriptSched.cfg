SPECIFICATION FairSpec
CONSTANTS
    Nodes = {n1, n2}
    None = None
    Budget = 2
    MaxThreads = 2
    EventMax = 1
    MaxHandlers = 1
    MaxTime = 1
    MaxInputs = 1
    MaxLoads = 1
INVARIANT NodesOwnedOnce
PROPERTY DueThreadRuns
CHECK_DEADLOCK FALSE
