SPECIFICATION FairSpec
CONSTANTS
    Users = {u1, u2, u3}
INVARIANT CountIsReferences
INVARIANT NoHolderAfterDrain
PROPERTY DrainCompletes
PROPERTY ImplementsGate
