SPECIFICATION Spec
CONSTANTS
    t1 = t1
    t2 = t2
    t3 = t3
    r1 = r1
    r2 = r2
    Request = {r1}
    Target = {t1, t2, t3}
    NoPermit = NoPermit
    FailureThreshold = 1
    Cooldown = 1
    MaxGeneration = 20
    MaxTime = 6
    Route <- ChainRoute
    Supported <- ChainSupported
    Deadline <- ChainDeadline
    MaxRetries = 2
    MaxTotalAttempts = 4
    AttemptTimeout = 2
    BackoffBase = 1
    BackoffCap = 2
    Replies = {"ApiCallFailed", "Permanent"}
    RetryAfters <- AllRetryAfters
INVARIANTS
    AttemptAccounting
    DeadlineCountedOnce
    ErrorIsGenuine
PROPERTIES
    DeadlineGoverns
    RetryAfterHonoured
    SwitchOnlyAfterTransient
CHECK_DEADLOCK FALSE
