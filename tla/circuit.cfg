SPECIFICATION FairSpec
CONSTANTS
    Caller = {c1, c2, c3}
    Target = {t1, t2}
    NoPermit = NoPermit
    FailureThreshold = 2
    Cooldown = 2
    MaxGeneration = 4
    MaxTime = 4
INVARIANTS
    TypeOK
    ProbeOwnership
    GenerationFixesPhase
    PhaseBounds
PROPERTIES
    ImplementsBreaker
    OpenIsLeft
CHECK_DEADLOCK FALSE
