CONSTANTS
    NumRows = 4
    Ids = {a, b}
    Configs <- MCConfigs
    MaxLosses = 2
    MaxLate = 1
    MaxTaskRuns = 2
SPECIFICATION Spec
INVARIANT RowOrderKept
SYMMETRY MCSymmetry
CHECK_DEADLOCK FALSE
