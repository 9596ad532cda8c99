SPECIFICATION Spec
CONSTANTS
    Workers = {w1, w2}
    None = None
    MaxReqs = 4
    NFds = 1
    ClientOps = {}
    RIDICULOUS_LENGTH = 9
    Spurious = TRUE
SYMMETRY Symmetry
INVARIANTS
    TypeOK
    Conservation
    QueueLenExact
    ClosedOnlyOnce
    NoFdLeak
