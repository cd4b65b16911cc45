SPECIFICATION FairSpec
CONSTANTS
    c1 = c1
    c2 = c2
    Callers = {c1}
    Kind <- OneQuery
    Core = Core
    Tick = Tick
    Dpcs = {d1, d2}
    Nobody = Nobody
    Together = 2
    DeferredTries = 1
    AllocationFails = TRUE
    InlineFailures = FALSE
PROPERTY RemovalEnds
CHECK_DEADLOCK FALSE
