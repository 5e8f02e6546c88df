SPECIFICATION Spec
CONSTANTS
    Keys = {k1}
    Requests = {r1, r2}
    Intervals = {i1, i2}
    MaxTime = 2
    Idle = Idle
SYMMETRY Symmetry
INVARIANTS RevokedOut UseRecorded ExitRecorded
CHECK_DEADLOCK FALSE
