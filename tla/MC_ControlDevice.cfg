SPECIFICATION ControlFairSpec
CONSTANTS
    h1 = h1
    h2 = h2
    r1 = r1
    r2 = r2
    Adapters = {a1}
    Handles = {h1}
    Requests = {r1, r2}
    Client <- OneClient
    NotifyMax = 1
    Nobody = Nobody
    MaxEvents = 2
PROPERTY CancelledWaitReturns
PROPERTY LastDepartureReleases
CHECK_DEADLOCK FALSE
