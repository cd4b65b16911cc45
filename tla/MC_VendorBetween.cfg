SPECIFICATION Spec
CONSTANTS
    c1 = c1
    c2 = c2
    Callers = {c1}
    Kind <- OneCmd
    Core = Core
    Tick = Tick
    Dpcs = {d1, d2}
    Nobody = Nobody
    Together = 2
    DeferredTries = 1
    AllocationFails = FALSE
    InlineFailures = FALSE
PROPERTY NothingBetweenHalves
CHECK_DEADLOCK FALSE
