CONSTANTS
    Docs <- MCDocs
    Shards = {1, 2}
    ShardOf <- MCShardOf
    SliceOf <- MCSliceOf
    Configs <- MCConfigs
    BatchSize = 2
    KeepAlive = 2
    Slots = 2
    MaxAttempts = 2
    Worlds <- MCWorlds
    MaxEvaluations = 2
    MaxFaults = 1

SPECIFICATION FairSpec

INVARIANTS
    TypeOK
    OnlyFailedShardsLoseRows
    UncoercibleFailsTheRead
    SlidingWindowSuffices
PROPERTIES
    EvaluationEnds
    ImplementsContract
CHECK_DEADLOCK FALSE
