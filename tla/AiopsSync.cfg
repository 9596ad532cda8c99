SPECIFICATION FairSpec
CONSTANTS
    Workers = {w1}
    None = None
    MaxReqs = 3
    NFds = 1
    ClientOps = {"READ", "PATH"}
    RIDICULOUS_LENGTH = 1
    Spurious = FALSE
INVARIANTS
    HandlerOnce
PROPERTIES
    SyncDone
    ResultsDelivered
    QueueDrains
