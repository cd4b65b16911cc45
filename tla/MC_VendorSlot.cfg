SPECIFICATION FairSpec
CONSTANTS
    c1 = c1
    c2 = c2
    Callers = {c1, c2}
    Kind <- CmdAndSync
    Core = Core
    Tick = Tick
    Dpcs = {d1}
    Nobody = Nobody
    Together = 1
    DeferredTries = 1
    AllocationFails = TRUE
    InlineFailures = FALSE
INVARIANT SlotMatchesBus
PROPERTY CallReturns
CHECK_DEADLOCK FALSE
