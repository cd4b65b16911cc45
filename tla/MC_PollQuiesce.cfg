SPECIFICATION Spec
CONSTANTS
    Dpcs = {d1, d2}
    Pnp = Pnp
    Power = Power
    Worker = Worker
    Irps = {p1, p2, p3}
    NoIrp = NoIrp
    NoSlot = NoSlot
    RecoverTries = 2
    MaxStarts = 1
    MaxUpsets = 1
SYMMETRY Symmetry
INVARIANT NothingInFlightWhenUnconfigured
CHECK_DEADLOCK FALSE
