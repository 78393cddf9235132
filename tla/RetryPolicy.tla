------------------------------ MODULE RetryPolicy -----------------------------
(***************************************************************************)
(* Errors of a provider call, what the executor does about each kind       *)
(* (features/executor/service.rs), and how long it waits before a retry    *)
(* (features/executor/budget.rs, core/deadline.rs).                        *)
(***************************************************************************)
EXTENDS Integers

CONSTANTS
    BackoffBase,        \* window of the first retry: 1000 ms in the code
    BackoffCap          \* backoff_cap_ms of the configuration

ASSUME BackoffAssumption == BackoffBase \in Nat /\ BackoffCap \in Nat

None == -1              \* an absent Retry-After

\* ExecutorError.  "Permanent" stands for every kind no policy distinguishes:
\* credentials, quota, rejected requests, protocol faults, missing prices.
TransientKinds == {"NetworkError", "TimeoutError", "ApiCallFailed"}
ErrorKinds == TransientKinds \cup {"RateLimitExceeded", "CircuitOpen", "Permanent"}

Failure(kind) == [kind |-> kind, retry_after |-> None]
Throttling(d) == [kind |-> "RateLimitExceeded", retry_after |-> d]
CircuitOpen   == Failure("CircuitOpen")

is_retryable_error(e) == e.kind \in TransientKinds \cup {"RateLimitExceeded"}

is_circuit_failure(e) == e.kind \in TransientKinds

\* Mutant: throttling moves the request to the next model.
is_fallback_eligible_Throttling(e) ==
    e.kind \in TransientKinds \cup {"CircuitOpen", "RateLimitExceeded"}

is_fallback_eligible(e) == e.kind \in TransientKinds \cup {"CircuitOpen"}

----------------------------------------------------------------------------
min(a, b) == IF a < b THEN a ELSE b

\* RequestDeadline: expiry is inclusive, the remaining time saturates at zero.
is_expired(deadline, now) == now >= deadline
remaining(deadline, now) == IF now >= deadline THEN 0 ELSE deadline - now

\* The end of a call: the attempt's own limit or the deadline, whichever is first.
attempt_cutoff(deadline, now, max_attempt) == min(now + max_attempt, deadline)

\* Full jitter: any delay up to the window of this retry.
jittered_backoff(retry) == 0 .. min(BackoffBase * 2^(retry - 1), BackoffCap)

\* Mutant: the provider's minimum is clipped by the backoff cap.
plan_retry_delay_Capped(retry, provider) ==
    IF provider # None
    THEN {[delay |-> min(provider, BackoffCap), provider_minimum |-> TRUE]}
    ELSE {[delay |-> d, provider_minimum |-> FALSE] : d \in jittered_backoff(retry)}

\* The waits that may be planned before a retry.  RetryDelay::Immediate is a
\* wait of zero.
plan_retry_delay(retry, provider) ==
    IF provider # None
    THEN {[delay |-> provider, provider_minimum |-> provider > 0]}
    ELSE {[delay |-> d, provider_minimum |-> FALSE] : d \in jittered_backoff(retry)}

\* A planned wait runs in full, or not at all.
evaluate_retry_delay(plan, left) ==
    CASE plan.delay <= left                           -> "Sleep"
      [] plan.delay > left /\ plan.provider_minimum   -> "ProviderDelayCannotFit"
      [] plan.delay > left /\ ~plan.provider_minimum  -> "DeadlineExceeded"

provider_minimum_cannot_fit(e, left) ==
    /\ e.kind = "RateLimitExceeded"
    /\ e.retry_after > 0
    /\ evaluate_retry_delay([delay |-> e.retry_after, provider_minimum |-> TRUE], left)
         = "ProviderDelayCannotFit"
=============================================================================
