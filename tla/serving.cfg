SPECIFICATION Spec
CONSTANTS
    TargetIds = {t1, t2}
    RouteIds = {r1, r2}
    Models = {m1, m2}
    BadId = BadId
    Absent = Absent
    Malformed = Malformed
    Caps = {0, 1, 2}
    Tuned = {"max_attempt_timeout_ms", "max_fallback_targets", "max_prompt_chars"}
    MaxChain = 3
    Bodies <- MCBodies
SYMMETRY Symmetry
INVARIANTS
    DiagnosisIsTrue
    ListeningIsValid
    ServedPlansResolve
    TokenCapsHold
    InvalidMeansInvalid
CHECK_DEADLOCK FALSE
