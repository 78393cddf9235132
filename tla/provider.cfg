SPECIFICATION FairSpec
CONSTANTS
    None = None
    MaxBytes = 2
    MaxChunk = 2
    Cutoff = 4
    Deadline = 5
    RefinementCap = 1
    Seconds <- MCSeconds
    MaxTime = 6
INVARIANTS
    ThrottlingSurvives
    AnswerIsHonest
PROPERTY
    AttemptEnds
CHECK_DEADLOCK FALSE
