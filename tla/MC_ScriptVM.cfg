SPECIFICATION Spec
CONSTANTS
    Threads = {t1, t2}
    VarCount = 1
    Locals = 2
    Unit = 3
    Operands <- MCOperands
    Budget = 6
INVARIANT NeverAstray
INVARIANT NeverTraps
PROPERTY FrameKept
PROPERTY RunEnds
CHECK_DEADLOCK FALSE
