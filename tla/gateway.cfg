SPECIFICATION FairSpec
CONSTANTS
    Request = {r1, r2}
    MaxConcurrent = 1
    Budget = 1
    Grace = 2
    MaxTime = 4
INVARIANTS
    PermitAccounting
    ExpiryCountedOnce
PROPERTIES
    DrainIsFinal
    GraceCoversAdmitted
    EveryRequestEnds
    SignalStops
CHECK_DEADLOCK FALSE
