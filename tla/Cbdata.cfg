SPECIFICATION FairSpec
CONSTANTS
    Ptrs = {a, b}
    Ops = {p, q, r}
    NULL = NULL
    MaxLife = 2
INVARIANTS
    TypeOK
    NoDanglingData
    LockAccounting
    LiveIffUsable
PROPERTIES
    FreedIsReclaimed
