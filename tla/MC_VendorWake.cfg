SPECIFICATION Spec
CONSTANTS
    c1 = c1
    c2 = c2
    Callers = {c1, c2}
    Kind <- TwoSyncs
    Core = Core
    Tick = Tick
    Dpcs = {d1, d2}
    Nobody = Nobody
    Together = 2
    DeferredTries = 1
    AllocationFails = FALSE
    InlineFailures = FALSE
SYMMETRY Symmetry
INVARIANT WokenWhenOver
CHECK_DEADLOCK FALSE
