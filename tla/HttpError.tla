------------------------------- MODULE HttpError ------------------------------
(***************************************************************************)
(* From typed errors to public answers: the code, its HTTP status and the  *)
(* Retry-After seconds (core/http_error.rs and the error types of the      *)
(* features).  Messages and the request id are text and left out.          *)
(***************************************************************************)
EXTENDS Integers

CONSTANT None   \* no Retry-After

\* ErrorCode::status.  SUCCESS is the answer of a generation and of a listing; a created
\* key answers 201 and a revoked one 204, which nothing here tells apart.
status ==
    [SUCCESS |-> 200, INVALID_REQUEST |-> 400, INVALID_JSON |-> 400, INVALID_PATH |-> 400,
     UNSUPPORTED_MEDIA_TYPE |-> 415, PAYLOAD_TOO_LARGE |-> 413, UNAUTHORIZED |-> 401,
     FORBIDDEN |-> 403, NOT_FOUND |-> 404, OVERLOADED |-> 429, DRAINING |-> 503,
     AUTH_DEPENDENCY_UNAVAILABLE |-> 503, UPSTREAM_ERROR |-> 502,
     UPSTREAM_AUTHENTICATION |-> 502, UPSTREAM_PROTOCOL |-> 502, UPSTREAM_RATE_LIMIT |-> 429,
     INTERNAL_ERROR |-> 500, DEADLINE_EXCEEDED |-> 504, CIRCUIT_OPEN |-> 503]

\* Mutant: milliseconds are cut down to seconds.
retry_after_secs_Floor(ms) == IF ms = None \/ ms = 0 THEN None ELSE ms \div 1000

\* Zero and missing waits give no header, others are rounded up.
retry_after_secs(ms) == IF ms = None \/ ms = 0 THEN None ELSE (ms + 999) \div 1000

\* ExecutorError::http_mapping.
executor_code ==
    [UnsupportedVendor |-> "INVALID_REQUEST", UnsupportedModel |-> "INVALID_REQUEST",
     InvalidPayload |-> "INVALID_REQUEST", AuthenticationFailed |-> "UPSTREAM_AUTHENTICATION",
     RateLimitExceeded |-> "UPSTREAM_RATE_LIMIT", ApiCallFailed |-> "UPSTREAM_ERROR",
     NetworkError |-> "UPSTREAM_ERROR", TimeoutError |-> "UPSTREAM_ERROR",
     UpstreamRejected |-> "UPSTREAM_ERROR", QuotaExceeded |-> "UPSTREAM_ERROR",
     JsonError |-> "UPSTREAM_PROTOCOL", InvalidUpstreamResult |-> "UPSTREAM_PROTOCOL",
     NoVendorsConfigured |-> "INTERNAL_ERROR", InvalidConfiguration |-> "INTERNAL_ERROR",
     MissingPricing |-> "INTERNAL_ERROR", DeadlineExceeded |-> "DEADLINE_EXCEEDED",
     CircuitOpen |-> "CIRCUIT_OPEN", Success |-> "SUCCESS"]

\* The answer to an executor result; only throttling and open circuits carry a wait.
executor_answer(kind, retry_after_ms) ==
    [code |-> executor_code[kind],
     retry_after |-> IF kind \in {"RateLimitExceeded", "CircuitOpen"}
                     THEN retry_after_secs(retry_after_ms) ELSE None]

\* AuthError::http_mapping.
auth_code ==
    [InvalidCredentials |-> "UNAUTHORIZED", CapabilityDenied |-> "FORBIDDEN",
     InvalidInput |-> "INVALID_REQUEST", KeyNotFound |-> "NOT_FOUND",
     StoreUnavailable |-> "AUTH_DEPENDENCY_UNAVAILABLE",
     DeadlineExceeded |-> "DEADLINE_EXCEEDED", Success |-> "SUCCESS"]
=============================================================================
