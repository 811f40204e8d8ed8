CONSTANTS
    N = 2
    Configs <- MCConfigs
    SampleCap = 1
    Refusals = {400, 409, 429, 500}
    MalformedResponses = {TRUE, FALSE}
    MaxDocs = 3

SPECIFICATION FairSpec

INVARIANTS
    TypeOK
    Accounting
    NoSilentLoss
    RejectionsBalance
    TimeoutsDoNotStack
    BoundedDuplication
    ExactCreateCountsWhenKnown
PROPERTIES
    CountedLinesRest
    ImplementsContract
    Termination
CHECK_DEADLOCK FALSE
