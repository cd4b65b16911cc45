SPECIFICATION FairSpec
CONSTANTS
    Dpcs = {d1}
    Pnp = Pnp
    Power = Power
    Worker = Worker
    Irps = {p1, p2}
    NoIrp = NoIrp
    NoSlot = NoSlot
    RecoverTries = 1
    MaxStarts = 1
    MaxUpsets = 2
INVARIANT OneReadPerSlot
INVARIANT RestartPinsDevice
PROPERTY StoppedReadsEnd
CHECK_DEADLOCK FALSE
