CONSTANTS
    Jobs = {j1, j2}
    Threshold = 2
SPECIFICATION Spec
SYMMETRY MCSymmetry
INVARIANT CancelledIsNotDone
CHECK_DEADLOCK FALSE
