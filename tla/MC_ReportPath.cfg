SPECIFICATION RemovalSpec
CONSTANTS
    Reads = {r1, r2}
    Sinks = {s1, s2}
    QueueMax = 1
    MaxReports = 3
    NoRead = NoRead
    NoReport = NoReport
PROPERTY CancelledReadReturns
PROPERTY ImplementsService
INVARIANT CompletedOnce
CHECK_DEADLOCK FALSE
