SPECIFICATION FairSpec
CONSTANTS
    Topologies <- MCTopologies
    NameBytes = 5
    Addresses = {7}
    StopVeto = FALSE
    ConfigTries = 2
    MaxStarts = 2
    MaxQueries = 2
    MaxTransitions = 2
    MaxRefusals = 0
    MaxHidRequests = 1
    MaxRequests = 4
CHECK_DEADLOCK FALSE
INVARIANTS
    NeverUsedAfterFree
    BlocksReturned
    NameLeadsToAdapter
PROPERTIES
    RemovalEnds
    SystemPowerAnswered
