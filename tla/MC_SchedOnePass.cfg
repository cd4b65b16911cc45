SPECIFICATION Spec
CONSTANTS
    Nodes = {n1, n2, n3}
    None = None
    Budget = 4
    MaxThreads = 2
    EventMax = 1
    MaxHandlers = 1
    MaxTime = 1
    MaxInputs = 1
    MaxLoads = 1
SYMMETRY NodeSymmetry
CHECK_DEADLOCK FALSE
INVARIANT OnePass
