CONSTANTS
    N = 2
    Configs <- MCConfigs
    SampleCap = 1
    Refusals = {}
    MalformedResponses = {FALSE}
    MaxDocs = 2

SPECIFICATION Spec
INVARIANT ErrorsAreRejections
CHECK_DEADLOCK FALSE
