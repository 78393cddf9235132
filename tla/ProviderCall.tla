----------------------------- MODULE ProviderCall -----------------------------
(***************************************************************************)
(* One provider attempt in full: OpenAIVendor::execute_classified          *)
(* (features/executor/vendors/openai.rs), the bounded reading of the body, *)
(* the check of a completion, the window in which a 429 may be refined,    *)
(* the cutoff of the attempt and the request deadline around it, and the   *)
(* public answer should the attempt be the request's last.  Executor       *)
(* abstracts all of this to the outcome of a call.                         *)
(***************************************************************************)
EXTENDS HttpError

CONSTANTS
    MaxBytes,       \* max_upstream_response_bytes
    MaxChunk,       \* bound: the largest chunk the transport delivers
    Cutoff,         \* when the attempt is cut off
    Deadline,       \* when the request expires
    RefinementCap,  \* BODY_REFINEMENT_CAP
    Seconds,        \* the values of a numeric or dated Retry-After, in milliseconds
    MaxTime         \* bound: the clock stops here

ASSUME ProviderAssumption ==
    /\ {MaxBytes, MaxChunk, Cutoff, RefinementCap, MaxTime, Deadline} \subseteq Nat
    /\ Cutoff <= Deadline /\ Deadline <= MaxTime
    /\ Seconds \subseteq Nat /\ None \notin Nat

VARIABLES
    pc,         \* "send", "body", "refine" or "done"
    response,   \* what the provider answers, fixed when its headers arrive
    buffered,   \* bytes of the body read so far
    window_end, \* end of the refinement window of a 429
    observed,   \* AttemptContext::observed
    result,     \* the attempt's outcome
    answer,     \* what the client is told
    priced,     \* the target has a price
    now

vars == <<pc, response, buffered, window_end, observed, result, answer, priced, now>>

NoError == [kind |-> "none", retry_after_ms |-> None]

Error(kind) == [kind |-> kind, retry_after_ms |-> None]

StatusClasses == {"ok", "throttled", "credentials", "client_error", "other"}

\* A Retry-After header: missing, unusable, or a wait (a date is one from now on).
RetryAfterHeaders == [form : {"absent", "malformed"}, ms : {0}]
                     \cup [form : {"seconds", "date"}, ms : Seconds]
                     \cup [form : {"past_date"}, ms : {0}]

BodyKinds == {"completion", "not_json", "bad_shape", "bad_role", "bad_usage", "huge_cost",
              "quota"}

Responses == [status : StatusClasses, retry_after : RetryAfterHeaders, body : BodyKinds,
              content_length : {None} \cup 1 .. MaxBytes + 1]

Init ==
    /\ pc = "send" /\ response = None /\ buffered = 0 /\ window_end = 0
    /\ observed = NoError /\ result = NoError /\ answer = None
    /\ priced \in BOOLEAN
    /\ now = 0

-----------------------------------------------------------------------------

\* retry_after_header_ms: a date that is over is a wait of zero, not a malformed one.  The
\* wait until a date is cut down to whole milliseconds, the unit in which it is given here.
retry_after_header_ms(header) ==
    IF header.form \in {"absent", "malformed"} THEN None ELSE header.ms

remaining == IF now >= Cutoff THEN 0 ELSE Cutoff - now

Least(a, b) == IF a <= b THEN a ELSE b

body_refinement_window == Least(Least(remaining, RefinementCap), remaining \div 2)

quota_exhausted(body) == body = "quota"

classify_unsuccessful_status(s, body) ==
    CASE quota_exhausted(body) -> Error("QuotaExceeded")
      [] ~quota_exhausted(body) /\ s = "credentials" -> Error("AuthenticationFailed")
      [] ~quota_exhausted(body) /\ s = "client_error" -> Error("UpstreamRejected")
      [] OTHER -> Error("ApiCallFailed")

\* parse_successful_chat_completion: JSON, shape and role, usage, then the price.
parse_successful_chat_completion(body) ==
    CASE body = "not_json" -> Error("JsonError")
      [] body \in {"bad_shape", "bad_role", "bad_usage", "quota"} ->
            Error("InvalidUpstreamResult")
      [] body \in {"completion", "huge_cost"} /\ ~priced -> Error("MissingPricing")
      [] body = "huge_cost" /\ priced -> Error("InvalidUpstreamResult")
      [] OTHER -> Error("Success")

\* Mutant: an attempt that is cut off is a timeout, whatever was observed.
attempt_error_Timeout == Error("TimeoutError")

\* The outcome of an attempt that was cut off.
attempt_error == IF observed.kind # "none" THEN observed ELSE Error("TimeoutError")

\* The call returns e, or the cutoff ends it with e; an expired deadline comes first.
finish(e) ==
    LET final == IF now >= Deadline THEN Error("DeadlineExceeded") ELSE e
    IN  /\ pc' = "done"
        /\ result' = final
        /\ answer' = executor_answer(final.kind, final.retry_after_ms)

-----------------------------------------------------------------------------

\* send() fails: From<reqwest::Error>.
SendFailed ==
    /\ pc = "send"
    /\ \E kind \in {"TimeoutError", "NetworkError", "JsonError"} : finish(Error(kind))
    /\ UNCHANGED <<response, buffered, window_end, observed, priced, now>>

\* Headers of a 429: observed before the body is touched, refined only if there is time.
Throttled ==
    /\ pc = "send"
    /\ \E r \in Responses :
          LET throttling == [kind |-> "RateLimitExceeded",
                             retry_after_ms |-> retry_after_header_ms(r.retry_after)]
          IN  /\ r.status = "throttled"
              /\ response' = r
              /\ observed' = throttling
              /\ IF body_refinement_window = 0 \/ r.content_length = MaxBytes + 1
                 THEN finish(throttling) /\ UNCHANGED window_end
                 ELSE /\ pc' = "refine" /\ window_end' = now + body_refinement_window
                      /\ UNCHANGED <<result, answer>>
    /\ UNCHANGED <<buffered, priced, now>>

\* Headers of any other status, whose Retry-After nobody reads.  A body announced as
\* too large is not read at all: for a success that is the error, for another status
\* the body counts as empty.
Headers ==
    /\ pc = "send"
    /\ \E r \in Responses :
          /\ r.status # "throttled" /\ r.retry_after.form = "absent"
          /\ response' = r
          /\ IF r.content_length # MaxBytes + 1
             THEN pc' = "body" /\ UNCHANGED <<result, answer>>
             ELSE finish(IF r.status = "ok" THEN Error("InvalidUpstreamResult")
                         ELSE classify_unsuccessful_status(r.status, "empty"))
    /\ UNCHANGED <<buffered, window_end, observed, priced, now>>

\* How a body that could not be read ends each kind of response.
unreadable(e) ==
    CASE response.status = "ok" -> e
      [] response.status = "throttled" -> observed
      [] OTHER -> classify_unsuccessful_status(response.status, "empty")

Announced == IF response.content_length = None THEN MaxBytes + MaxChunk
             ELSE response.content_length

\* append_bounded: a chunk is copied only if the body still fits.
Chunk ==
    /\ pc \in {"body", "refine"}
    /\ \E n \in 1 .. MaxChunk :
          /\ buffered + n <= Announced
          /\ IF buffered + n > MaxBytes
             THEN finish(unreadable(Error("InvalidUpstreamResult"))) /\ UNCHANGED buffered
             ELSE buffered' = buffered + n /\ UNCHANGED <<pc, result, answer>>
    /\ UNCHANGED <<response, window_end, observed, priced, now>>

\* The transport fails in the middle of the body.
ReadFailed ==
    /\ pc \in {"body", "refine"}
    /\ \E kind \in {"TimeoutError", "NetworkError"} : finish(unreadable(Error(kind)))
    /\ UNCHANGED <<response, buffered, window_end, observed, priced, now>>

\* The body is complete: a success is parsed, a 429 may turn out to be exhausted quota.
EndOfBody ==
    /\ pc \in {"body", "refine"}
    /\ buffered > 0 \/ response.body = "not_json"
    /\ response.content_length # None => buffered = response.content_length
    /\ CASE response.status = "ok" ->
              finish(parse_successful_chat_completion(response.body)) /\ UNCHANGED observed
         [] response.status = "throttled" /\ quota_exhausted(response.body) ->
              finish(Error("QuotaExceeded")) /\ observed' = Error("QuotaExceeded")
         [] response.status = "throttled" /\ ~quota_exhausted(response.body) ->
              finish(observed) /\ UNCHANGED observed
         [] OTHER ->
              /\ finish(classify_unsuccessful_status(response.status, response.body))
              /\ UNCHANGED observed
    /\ UNCHANGED <<response, buffered, window_end, priced, now>>

WindowElapsed ==
    /\ pc = "refine" /\ now >= window_end
    /\ finish(observed)
    /\ UNCHANGED <<response, buffered, window_end, observed, priced, now>>

\* Mutant: the timer is armed once headers are there.
CutOff_BodyOnly ==
    /\ pc \notin {"send", "done"} /\ now >= Cutoff
    /\ finish(attempt_error)
    /\ UNCHANGED <<response, buffered, window_end, observed, priced, now>>

\* timeout_at polls the call first, but a call that has used up its share of the
\* scheduler is passed over: the cutoff may win against an elapsed window.
CutOff ==
    /\ pc # "done" /\ now >= Cutoff
    /\ finish(attempt_error)
    /\ UNCHANGED <<response, buffered, window_end, observed, priced, now>>

Tick ==
    /\ now < MaxTime
    /\ now' = now + 1
    /\ UNCHANGED <<pc, response, buffered, window_end, observed, result, answer, priced>>

Next ==
    \/ SendFailed \/ Throttled \/ Headers \/ Chunk \/ ReadFailed \/ EndOfBody
    \/ WindowElapsed \/ CutOff \/ Tick

Spec == Init /\ [][Next]_vars

(* The provider may never answer and never end a body; the clock runs, and *)
(* a timer that has elapsed wakes the task that waits for it.              *)
FairSpec == Spec /\ WF_vars(Tick) /\ WF_vars(WindowElapsed) /\ WF_vars(CutOff)

-----------------------------------------------------------------------------

(* Once a 429 has arrived the attempt is throttled: a body that stalls,     *)
(* breaks, grows or is cut off never turns it into a timeout or a protocol  *)
(* error, the wait the provider asked for is kept to the millisecond, and   *)
(* only a complete body that says so makes it exhausted quota.              *)
ThrottlingSurvives ==
    pc = "done" /\ response # None /\ result.kind # "DeadlineExceeded" =>
        (response.status = "throttled" =>
            \/ /\ result.kind = "RateLimitExceeded"
               /\ result.retry_after_ms =
                     IF response.retry_after.form \in {"seconds", "date", "past_date"}
                     THEN response.retry_after.ms ELSE None
            \/ /\ result.kind = "QuotaExceeded" /\ response.body = "quota"
               /\ 0 < buffered /\ buffered <= MaxBytes)

(* The public answer tells the truth about the provider: a success is a     *)
(* complete, checked body that fits the limit and is priced; a provider's   *)
(* fault is never the client's (no 400, 401, 403 or 404); a rate limit is   *)
(* the provider's, and a client that waits as told waits long enough.       *)
AnswerIsHonest ==
    pc = "done" =>
        /\ answer.code = "SUCCESS" =>
              /\ response.status = "ok" /\ response.body = "completion" /\ priced
              /\ buffered <= MaxBytes
        /\ status[answer.code] \notin {400, 401, 403, 404}
        /\ answer.code = "UPSTREAM_RATE_LIMIT" =>
              /\ response.status = "throttled"
              /\ LET header == response.retry_after
                     wait == IF header.form \in {"seconds", "date"} THEN header.ms ELSE 0
                 IN  IF wait = 0 THEN answer.retry_after = None
                     ELSE answer.retry_after # None /\ answer.retry_after * 1000 >= wait
        /\ answer.code # "UPSTREAM_RATE_LIMIT" => answer.retry_after = None

(* An attempt ends although its provider never answers, stalls in a body or *)
(* sends a body without an end.                                             *)
AttemptEnds == <>(pc = "done")
=============================================================================
