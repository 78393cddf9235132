SPECIFICATION FairSpec
CONSTANTS
    t1 = t1
    t2 = t2
    t3 = t3
    r1 = r1
    r2 = r2
    Request = {r1, r2}
    Target = {t1, t2}
    NoPermit = NoPermit
    FailureThreshold = 1
    Cooldown = 1
    MaxGeneration = 20
    MaxTime = 3
    Route <- SharedRoute
    Supported <- SharedSupported
    Deadline <- SharedDeadline
    MaxRetries = 1
    MaxTotalAttempts = 2
    AttemptTimeout = 2
    BackoffBase = 1
    BackoffCap = 1
    Replies = {"ApiCallFailed", "Permanent"}
    RetryAfters <- SharedRetryAfters
INVARIANTS
    PermitDiscipline
PROPERTIES
    ThrottlingNeverOpens
    ImplementsCircuit
    Termination
CHECK_DEADLOCK FALSE
