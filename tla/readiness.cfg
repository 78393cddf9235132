SPECIFICATION Spec
CONSTANTS
    Check = {p1, p2}
    DefaultRoute = {t1}
    Timeout = 1
    CacheTtl = 2
    MaxTime = 4
SYMMETRY Symmetry
PROPERTIES
    DrainOverrides
    ReadyIsWarranted
CHECK_DEADLOCK FALSE
