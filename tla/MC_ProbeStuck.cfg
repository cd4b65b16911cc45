SPECIFICATION FairSpec
CONSTANTS
    Threads = {}
    Requests = {}
    OutSteps = 2
    MaxFailures = 1
    AllocationFails = FALSE
PROPERTY ProbeIsRetried
