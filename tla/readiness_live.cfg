SPECIFICATION FairSpec
CONSTANTS
    Check = {p1}
    DefaultRoute = {t1}
    Timeout = 1
    CacheTtl = 2
    MaxTime = 4
PROPERTY
    CheckEnds
CHECK_DEADLOCK FALSE
