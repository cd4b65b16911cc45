SPECIFICATION Spec
CONSTANTS
    Threads = {t1}
    Requests = {"kick", "on", "off", "raw"}
    OutSteps = 1
    MaxFailures = 1
    AllocationFails = TRUE
INVARIANT RoutedToIssuer
PROPERTY NothingLeftBehind
