SPECIFICATION FairSpec
CONSTANTS
    Workers = {w1}
    None = None
    MaxReqs = 2
    NFds = 1
    ClientOps = {"PATH"}
    RIDICULOUS_LENGTH = 9
    Spurious = FALSE
PROPERTIES
    OverflowDrains
