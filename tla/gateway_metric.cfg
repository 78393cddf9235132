SPECIFICATION Spec
CONSTANTS
    Request = {r1, r2}
    MaxConcurrent = 1
    Budget = 1
    Grace = 1
    MaxTime = 2
INVARIANT
    EveryExpiryCounted
CHECK_DEADLOCK FALSE
