CONSTANTS
    p1 = p1
    p2 = p2
    Partitions = {p1, p2}
    Frames <- MCFrames
    Configs <- MCConfigs
    SampleCap = 1
    MaxTaskFailures = 2
    Miscounted <- MCMiscounted

SPECIFICATION FairSpec

INVARIANTS
    TypeOK
    CleanResultLanded
    NullIdRaises
    LossNotCancelled
PROPERTIES
    ImplementsContract
    WriteEnds
CHECK_DEADLOCK FALSE
