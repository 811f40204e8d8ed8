CONSTANTS
    a = a
    b = b
    Ids = {a, b}
    Streams <- MCStreams
    Policies = {"raise", "log", "ignore"}
    MaxFaults = 2
    Overcounts = TRUE

SPECIFICATION FairSpec

INVARIANTS
    TypeOK
    CommittedRowsLanded
    LossIsReported
PROPERTY StreamDrains
CHECK_DEADLOCK FALSE
