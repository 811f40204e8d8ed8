CONSTANTS
    NumRows = 3
    Ids = {a, b}
    Configs <- MCConcurrent
    MaxLosses = 0
    MaxLate = 0
    MaxTaskRuns = 1
SPECIFICATION Spec
INVARIANT LaterRowWins
SYMMETRY MCSymmetry
CHECK_DEADLOCK FALSE
