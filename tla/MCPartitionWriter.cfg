CONSTANTS
    Configs <- MCConfigs
    Inputs <- MCInputs
    SampleCap = 1
    MalformedResponses = {TRUE, FALSE}

SPECIFICATION FairSpec

INVARIANTS
    RowsConserved
    CleanSummaryLanded
    NullLineFails
    InFlightBounded
    WorkersHaveTheirTools
    NothingLeaks
    NoLostWorker
PROPERTIES
    ImplementsContract
    WriterEnds
CHECK_DEADLOCK FALSE
