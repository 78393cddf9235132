-------------------------- MODULE ProviderCallProofs --------------------------
(***************************************************************************)
(* A provider attempt for every body limit, every chunk size, every cutoff *)
(* and deadline, every refinement window and every Retry-After: throttling *)
(* survives whatever happens to the body, and the public answer is honest. *)
(***************************************************************************)
EXTENDS ProviderCall, TLAPS

\* What a call can end with.
CallKinds == {"AuthenticationFailed", "RateLimitExceeded", "ApiCallFailed", "NetworkError",
              "TimeoutError", "UpstreamRejected", "QuotaExceeded", "JsonError",
              "InvalidUpstreamResult", "MissingPricing", "Success"}

CallErrors == [kind : CallKinds, retry_after_ms : Nat \cup {None}]

\* Each stage of the call and what has been seen of the response by then.
Stages ==
    /\ pc \in {"send", "body", "refine", "done"}
    /\ pc = "send" => response = None /\ observed = NoError
    /\ pc = "body" => /\ response \in Responses /\ response.status # "throttled"
                      /\ observed = NoError
    /\ pc = "refine" =>
         /\ response \in Responses /\ response.status = "throttled"
         /\ observed = [kind |-> "RateLimitExceeded",
                        retry_after_ms |-> retry_after_header_ms(response.retry_after)]

\* The buffer never outgrows the limit, whatever the transport delivers.
Buffered == buffered \in Nat /\ buffered <= MaxBytes

Inv ==
    /\ Stages /\ Buffered /\ now \in Nat /\ priced \in BOOLEAN
    /\ ThrottlingSurvives /\ AnswerIsHonest

----------------------------------------------------------------------------
\* No error of a call maps to a status that blames the client; success and rate
\* limits have codes of their own.
LEMMA CodesAreServers ==
  ASSUME NEW k \in CallKinds \cup {"DeadlineExceeded"}
  PROVE  /\ status[executor_code[k]] \notin {400, 401, 403, 404}
         /\ executor_code[k] = "SUCCESS" => k = "Success"
         /\ executor_code[k] = "UPSTREAM_RATE_LIMIT" => k = "RateLimitExceeded"
         /\ k = "RateLimitExceeded" => executor_code[k] = "UPSTREAM_RATE_LIMIT"
  BY DEF CallKinds, executor_code, status

\* Rounding up to seconds never tells a client to come back early.
LEMMA SecondsCover ==
  ASSUME NEW ms \in Nat, ms # 0
  PROVE  retry_after_secs(ms) \in Nat /\ retry_after_secs(ms) * 1000 >= ms
  BY ProviderAssumption DEF retry_after_secs

\* The wait read from a header is a number of milliseconds or absent.
LEMMA HeaderWait ==
  ASSUME NEW h \in RetryAfterHeaders
  PROVE  /\ retry_after_header_ms(h) \in Nat \cup {None}
         /\ retry_after_header_ms(h) = IF h.form \in {"seconds", "date", "past_date"}
                                       THEN h.ms ELSE None
         /\ h.ms \in Nat
         /\ h.form \notin {"seconds", "date"} => h.ms = 0
<1>1. \/ h \in [form : {"absent", "malformed"}, ms : {0}]
      \/ h \in [form : {"seconds", "date"}, ms : Seconds]
      \/ h \in [form : {"past_date"}, ms : {0}]
  BY DEF RetryAfterHeaders
<1>2. /\ h.form \in {"absent", "malformed", "seconds", "date", "past_date"}
      /\ h.ms \in {0} \cup Seconds
      /\ h.form \notin {"seconds", "date"} => h.ms = 0
  BY <1>1
<1>3. h.ms \in Nat
  <2>1. \A ms \in {0} \cup Seconds : ms \in Nat
    BY ProviderAssumption
  <2> QED
    BY <1>2, <2>1, Zenon
<1> QED
  BY <1>2, <1>3 DEF retry_after_header_ms

\* Classifying a status and parsing a success give errors a call may end with.
LEMMA ClassifyType ==
  ASSUME NEW s, NEW body
  PROVE  /\ classify_unsuccessful_status(s, body) \in CallErrors
         /\ classify_unsuccessful_status(s, body).kind \notin {"Success", "RateLimitExceeded"}
  BY DEF classify_unsuccessful_status, CallErrors, CallKinds, Error

\* Only a priced, complete and well-formed body is a success.
LEMMA ParseType ==
  ASSUME NEW body \in BodyKinds
  PROVE  /\ parse_successful_chat_completion(body) \in CallErrors
         /\ parse_successful_chat_completion(body).kind # "RateLimitExceeded"
         /\ parse_successful_chat_completion(body).kind = "Success" =>
              body = "completion" /\ priced
  BY DEF parse_successful_chat_completion, CallErrors, CallKinds, Error, BodyKinds

----------------------------------------------------------------------------
\* Ending a call with e is honest if a success is one, a rate limit is the
\* provider's with the provider's wait, and a 429 ends as throttling or as the
\* quota its body reports.
LEMMA FinishHonestly ==
  ASSUME NEW e \in CallErrors, finish(e), now \in Nat,
         UNCHANGED priced, Buffered',
         e.kind = "Success" =>
            response'.status = "ok" /\ response'.body = "completion" /\ priced,
         e.kind = "RateLimitExceeded" =>
            /\ response' \in Responses /\ response'.status = "throttled"
            /\ e.retry_after_ms = retry_after_header_ms(response'.retry_after),
         response' # None /\ response'.status = "throttled" =>
            \/ e.kind = "RateLimitExceeded"
            \/ e.kind = "QuotaExceeded" /\ response'.body = "quota" /\ 0 < buffered'
  PROVE  ThrottlingSurvives' /\ AnswerIsHonest'
<1>1. PICK final : /\ final = IF now >= Deadline THEN Error("DeadlineExceeded") ELSE e
                   /\ pc' = "done" /\ result' = final
                   /\ answer' = executor_answer(final.kind, final.retry_after_ms)
  BY DEF finish
<1>2. final.kind \in CallKinds \cup {"DeadlineExceeded"}
  BY <1>1 DEF Error, CallErrors
<1>3. final.kind # "DeadlineExceeded" => final = e
  BY <1>1 DEF Error
<1>4. ThrottlingSurvives'
  <2> SUFFICES ASSUME response' # None, result'.kind # "DeadlineExceeded",
                      response'.status = "throttled"
               PROVE  \/ /\ result'.kind = "RateLimitExceeded"
                         /\ result'.retry_after_ms =
                              IF response'.retry_after.form \in {"seconds", "date", "past_date"}
                              THEN response'.retry_after.ms ELSE None
                      \/ /\ result'.kind = "QuotaExceeded" /\ response'.body = "quota"
                         /\ 0 < buffered' /\ buffered' <= MaxBytes
    BY DEF ThrottlingSurvives
  <2>1. result' = e
    BY <1>1, <1>3
  <2>2. CASE e.kind = "RateLimitExceeded"
    <3>1. response'.retry_after \in RetryAfterHeaders
      BY <2>2 DEF Responses
    <3> QED
      BY <2>1, <2>2, <3>1, HeaderWait
  <2> QED
    BY <2>1, <2>2 DEF Buffered
<1>5. answer'.code = executor_code[final.kind]
  BY <1>1 DEF executor_answer
<1>6. answer'.code # "UPSTREAM_RATE_LIMIT" => answer'.retry_after = None
  <2>1. final.kind # "CircuitOpen"
    BY <1>2 DEF CallKinds
  <2> QED
    BY <1>1, <1>2, <1>5, <2>1, CodesAreServers DEF executor_answer
<1>7. ASSUME answer'.code = "UPSTREAM_RATE_LIMIT"
      PROVE  /\ response'.status = "throttled"
             /\ LET header == response'.retry_after
                    wait == IF header.form \in {"seconds", "date"} THEN header.ms ELSE 0
                IN  IF wait = 0 THEN answer'.retry_after = None
                    ELSE answer'.retry_after # None /\ answer'.retry_after * 1000 >= wait
  <2>1. final.kind = "RateLimitExceeded"
    <3>1. \A k \in CallKinds \cup {"DeadlineExceeded"} :
            executor_code[k] = "UPSTREAM_RATE_LIMIT" => k = "RateLimitExceeded"
      BY CodesAreServers
    <3> QED
      BY <1>2, <1>5, <1>7, <3>1
  <2>2. final = e
    BY <1>3, <2>1
  <2>3. response'.retry_after \in RetryAfterHeaders
    BY <2>1, <2>2 DEF Responses
  <2>4. answer'.retry_after = retry_after_secs(retry_after_header_ms(response'.retry_after))
    BY <1>1, <2>1, <2>2 DEF executor_answer
  <2> DEFINE h == response'.retry_after
  <2>5. h.ms = 0 \/ h.form \notin {"seconds", "date", "past_date"} => answer'.retry_after = None
    BY <2>3, <2>4, HeaderWait DEF retry_after_secs
  <2>6. h.ms # 0 /\ h.form \in {"seconds", "date", "past_date"} =>
          answer'.retry_after \in Nat /\ answer'.retry_after * 1000 >= h.ms
    BY <2>3, <2>4, HeaderWait, SecondsCover
  <2> QED
    BY <2>1, <2>2, <2>3, <2>5, <2>6, HeaderWait, ProviderAssumption
<1>8. answer'.code = "SUCCESS" =>
        /\ response'.status = "ok" /\ response'.body = "completion" /\ priced'
        /\ buffered' <= MaxBytes
  <2>1. \A k \in CallKinds \cup {"DeadlineExceeded"} :
          executor_code[k] = "SUCCESS" => k = "Success"
    BY CodesAreServers
  <2>2. answer'.code = "SUCCESS" => final.kind = "Success" /\ final = e
    BY <1>2, <1>3, <1>5, <2>1
  <2> QED
    BY <2>2 DEF Buffered
<1>9. status[answer'.code] \notin {400, 401, 403, 404}
  BY <1>2, <1>5, CodesAreServers
<1> QED
  BY <1>4, <1>6, <1>7, <1>8, <1>9 DEF AnswerIsHonest

----------------------------------------------------------------------------
\* A call that fails before headers arrive has seen no throttling.
LEMMA SendFailedInv == ASSUME Inv, SendFailed PROVE Inv'
<1>1. PICK kind \in {"TimeoutError", "NetworkError", "JsonError"} : finish(Error(kind))
  BY DEF SendFailed
<1>2. response' = None /\ Buffered' /\ now \in Nat /\ pc' = "done"
  BY <1>1 DEF SendFailed, Inv, Stages, Buffered, finish
<1>3. Error(kind) \in CallErrors /\ Error(kind).kind \notin {"Success", "RateLimitExceeded"}
  BY DEF Error, CallErrors, CallKinds
<1>4. ThrottlingSurvives' /\ AnswerIsHonest'
  BY <1>1, <1>2, <1>3, FinishHonestly DEF SendFailed
<1> QED
  BY <1>2, <1>4 DEF SendFailed, Inv, Stages

\* The headers of a 429 fix the outcome before the body is touched.
LEMMA ThrottledInv == ASSUME Inv, Throttled PROVE Inv'
<1> DEFINE throttling(r) == [kind |-> "RateLimitExceeded",
                             retry_after_ms |-> retry_after_header_ms(r.retry_after)]
<1>1. PICK r \in Responses :
         /\ r.status = "throttled" /\ response' = r /\ observed' = throttling(r)
         /\ \/ finish(throttling(r)) /\ pc' = "done"
            \/ pc' = "refine" /\ UNCHANGED <<result, answer>>
  BY DEF Throttled, finish
<1>2. Buffered' /\ now \in Nat /\ now' \in Nat /\ priced' \in BOOLEAN
  BY DEF Throttled, Inv, Buffered
<1>3. throttling(r) \in CallErrors /\ throttling(r).kind = "RateLimitExceeded"
  <2>1. r.retry_after \in RetryAfterHeaders
    BY DEF Responses
  <2> QED
    BY <2>1, HeaderWait DEF CallErrors, CallKinds
<1>4. Stages'
  BY <1>1 DEF Stages
<1>5. CASE finish(throttling(r)) /\ pc' = "done"
  <2>1. ThrottlingSurvives' /\ AnswerIsHonest'
    BY <1>1, <1>2, <1>3, <1>5, FinishHonestly DEF Throttled
  <2> QED
    BY <1>2, <1>4, <2>1 DEF Inv
<1>6. CASE pc' = "refine"
  <2>1. ThrottlingSurvives' /\ AnswerIsHonest'
    BY <1>6 DEF ThrottlingSurvives, AnswerIsHonest
  <2> QED
    BY <1>2, <1>4, <2>1 DEF Inv
<1> QED
  BY <1>1, <1>5, <1>6

\* The headers of any other status lead to the body, or to an error that is
\* neither a success nor a rate limit.
LEMMA HeadersInv == ASSUME Inv, Headers PROVE Inv'
<1> DEFINE error(r) == IF r.status = "ok" THEN Error("InvalidUpstreamResult")
                       ELSE classify_unsuccessful_status(r.status, "empty")
<1>1. PICK r \in Responses :
         /\ r.status # "throttled" /\ response' = r
         /\ \/ finish(error(r)) /\ pc' = "done"
            \/ pc' = "body" /\ UNCHANGED <<result, answer>>
  BY DEF Headers, finish
<1>2. Buffered' /\ now \in Nat /\ now' \in Nat /\ priced' \in BOOLEAN /\ observed' = NoError
  BY DEF Headers, Inv, Buffered, Stages
<1>3. error(r) \in CallErrors /\ error(r).kind \notin {"Success", "RateLimitExceeded"}
  <2>1. /\ Error("InvalidUpstreamResult") \in CallErrors
        /\ Error("InvalidUpstreamResult").kind = "InvalidUpstreamResult"
    BY DEF Error, CallErrors, CallKinds
  <2> QED
    BY <2>1, ClassifyType
<1>4. Stages'
  BY <1>1, <1>2 DEF Stages
<1> HIDE DEF error
<1>5. CASE finish(error(r)) /\ pc' = "done"
  <2>1. ThrottlingSurvives' /\ AnswerIsHonest'
    BY <1>1, <1>2, <1>3, <1>5, FinishHonestly DEF Headers
  <2> QED
    BY <1>2, <1>4, <2>1 DEF Inv
<1>6. CASE pc' = "body"
  <2>1. ThrottlingSurvives' /\ AnswerIsHonest'
    BY <1>6 DEF ThrottlingSurvives, AnswerIsHonest
  <2> QED
    BY <1>2, <1>4, <2>1 DEF Inv
<1> QED
  BY <1>1, <1>5, <1>6

\* While a body is read the response is known, and a 429 has been observed with
\* its wait.
LEMMA Reading ==
  ASSUME Inv, pc \in {"body", "refine"}
  PROVE  /\ response \in Responses
         /\ response.status = "throttled" =>
              observed = [kind |-> "RateLimitExceeded",
                          retry_after_ms |-> retry_after_header_ms(response.retry_after)]
         /\ response.status # "throttled" => observed = NoError
  BY DEF Inv, Stages

\* The observed throttling is an honest end of the call.
LEMMA ObservedThrottling ==
  ASSUME Inv, pc \in {"body", "refine"}, response.status = "throttled"
  PROVE  /\ observed \in CallErrors /\ observed.kind = "RateLimitExceeded"
         /\ observed.retry_after_ms = retry_after_header_ms(response.retry_after)
<1>1. response.retry_after \in RetryAfterHeaders
  BY Reading DEF Responses
<1> QED
  BY <1>1, Reading, HeaderWait DEF CallErrors, CallKinds

\* A body that cannot be read ends the call as the response deserves.
LEMMA UnreadableInv ==
  ASSUME Inv, pc \in {"body", "refine"},
         NEW kind \in {"TimeoutError", "NetworkError", "InvalidUpstreamResult"},
         finish(unreadable(Error(kind))),
         UNCHANGED <<response, buffered, observed, priced, now>>
  PROVE  Inv'
<1> DEFINE e == unreadable(Error(kind))
<1>1. Error(kind) \in CallErrors /\ Error(kind).kind = kind
  BY DEF Error, CallErrors, CallKinds
<1>2. /\ e \in CallErrors /\ e.kind # "Success"
      /\ e.kind = "RateLimitExceeded" =>
           /\ response.status = "throttled"
           /\ e.retry_after_ms = retry_after_header_ms(response.retry_after)
      /\ response.status = "throttled" => e.kind = "RateLimitExceeded"
  <2>1. CASE response.status = "ok"
    BY <1>1, <2>1 DEF unreadable
  <2>2. CASE response.status = "throttled"
    BY <2>2, ObservedThrottling DEF unreadable
  <2>3. CASE response.status \notin {"ok", "throttled"}
    BY <2>3, ClassifyType DEF unreadable
  <2> QED
    BY <2>1, <2>2, <2>3
<1>3. Buffered' /\ now \in Nat /\ now' \in Nat /\ priced' \in BOOLEAN /\ pc' = "done"
  BY DEF Inv, Buffered, finish
<1>4. finish(e)
  OBVIOUS
<1> HIDE DEF e
<1>5. ThrottlingSurvives' /\ AnswerIsHonest'
  BY <1>2, <1>3, <1>4, Reading, FinishHonestly
<1> QED
  BY <1>3, <1>5 DEF Inv, Stages

\* A chunk is kept only while the body fits.
LEMMA ChunkInv == ASSUME Inv, Chunk PROVE Inv'
<1>1. PICK n \in 1 .. MaxChunk :
         IF buffered + n > MaxBytes
         THEN finish(unreadable(Error("InvalidUpstreamResult"))) /\ UNCHANGED buffered
         ELSE buffered' = buffered + n /\ UNCHANGED <<pc, result, answer>>
  BY DEF Chunk
<1>2. CASE buffered + n > MaxBytes
  BY <1>1, <1>2, UnreadableInv DEF Chunk
<1>3. CASE ~(buffered + n > MaxBytes)
  <2>1. /\ buffered' = buffered + n /\ n \in Nat /\ pc' = pc /\ pc # "done"
        /\ UNCHANGED <<response, window_end, observed, priced, now>>
    BY <1>1, <1>3, ProviderAssumption DEF Chunk
  <2>2. Buffered'
    BY <1>3, <2>1, ProviderAssumption DEF Inv, Buffered
  <2>3. Stages'
    BY <2>1 DEF Inv, Stages
  <2>4. ThrottlingSurvives' /\ AnswerIsHonest'
    BY <2>1 DEF ThrottlingSurvives, AnswerIsHonest
  <2> QED
    BY <2>1, <2>2, <2>3, <2>4 DEF Inv
<1> QED
  BY <1>2, <1>3

\* A complete body: a success is parsed, a 429 is exhausted quota only if the
\* body that was read says so.
LEMMA EndOfBodyInv == ASSUME Inv, EndOfBody PROVE Inv'
<1> USE DEF EndOfBody
<1>0. /\ Buffered' /\ now \in Nat /\ now' \in Nat /\ priced' \in BOOLEAN
      /\ response \in Responses /\ UNCHANGED <<response, buffered, priced>>
  BY Reading DEF Inv, Buffered
<1>1. SUFFICES pc' = "done" /\ ThrottlingSurvives' /\ AnswerIsHonest'
  BY <1>0 DEF Inv, Stages
<1>2. CASE response.status = "ok"
  <2>1. finish(parse_successful_chat_completion(response.body)) /\ response.body \in BodyKinds
    BY <1>0, <1>2 DEF Responses
  <2> QED
    BY <1>0, <1>2, <2>1, ParseType, FinishHonestly DEF finish
<1>3. CASE response.status = "throttled" /\ quota_exhausted(response.body)
  <2>1. finish(Error("QuotaExceeded"))
    BY <1>3
  <2>2. Error("QuotaExceeded") \in CallErrors /\ Error("QuotaExceeded").kind = "QuotaExceeded"
    BY DEF Error, CallErrors, CallKinds
  <2>3. response.body = "quota" /\ 0 < buffered
    BY <1>3 DEF quota_exhausted, Inv, Buffered
  <2> QED
    BY <1>0, <2>1, <2>2, <2>3, FinishHonestly DEF finish
<1>4. CASE response.status = "throttled" /\ ~quota_exhausted(response.body)
  <2>1. finish(observed)
    BY <1>4
  <2> QED
    BY <1>0, <1>4, <2>1, ObservedThrottling, FinishHonestly DEF finish
<1>5. CASE response.status \notin {"ok", "throttled"}
  <2>1. finish(classify_unsuccessful_status(response.status, response.body))
    BY <1>5
  <2> QED
    BY <1>0, <1>5, <2>1, ClassifyType, FinishHonestly DEF finish
<1> QED
  BY <1>2, <1>3, <1>4, <1>5

\* The end of the refinement window, and the cutoff of the attempt, keep what was
\* observed.
LEMMA ElapsedInv == ASSUME Inv, WindowElapsed \/ CutOff PROVE Inv'
<1> USE DEF WindowElapsed, CutOff
<1>0. /\ UNCHANGED <<response, buffered, observed, priced, now>>
      /\ Buffered' /\ now \in Nat /\ now' \in Nat /\ priced' \in BOOLEAN
      /\ pc \in {"send", "body", "refine"}
  BY DEF Inv, Buffered, Stages
<1>1. SUFFICES pc' = "done" /\ ThrottlingSurvives' /\ AnswerIsHonest'
  BY <1>0 DEF Inv, Stages
<1>2. CASE pc = "refine"
  <2>1. response.status = "throttled" /\ response \in Responses
    BY <1>2 DEF Inv, Stages
  <2>2. observed \in CallErrors /\ observed.kind = "RateLimitExceeded"
    BY <1>2, <2>1, ObservedThrottling
  <2>3. finish(observed)
    BY <1>2, <2>2 DEF attempt_error
  <2> QED
    BY <1>0, <1>2, <2>1, <2>2, <2>3, ObservedThrottling, FinishHonestly DEF finish
<1>3. CASE pc \in {"send", "body"}
  <2>1. observed = NoError /\ (response = None \/ response.status # "throttled")
    BY <1>3 DEF Inv, Stages
  <2>2. finish(Error("TimeoutError"))
    BY <1>3, <2>1 DEF attempt_error, NoError
  <2>3. Error("TimeoutError") \in CallErrors /\ Error("TimeoutError").kind = "TimeoutError"
    BY DEF Error, CallErrors, CallKinds
  <2> QED
    BY <1>0, <2>1, <2>2, <2>3, FinishHonestly DEF finish
<1> QED
  BY <1>0, <1>2, <1>3

\* Every step of a call keeps the invariant.
LEMMA InvStep == Inv /\ [Next]_vars => Inv'
<1> SUFFICES ASSUME Inv, [Next]_vars PROVE Inv'
  OBVIOUS
<1>1. CASE ReadFailed
  BY <1>1, UnreadableInv DEF ReadFailed
<1>2. CASE Tick \/ UNCHANGED vars
  BY <1>2 DEF Tick, vars, Inv, Stages, Buffered, ThrottlingSurvives, AnswerIsHonest
<1> QED
  BY <1>1, <1>2, SendFailedInv, ThrottledInv, HeadersInv, ChunkInv, EndOfBodyInv, ElapsedInv
     DEF Next

\* Every reachable state of a call satisfies the invariant.
THEOREM ProviderCallInvariant == Spec => []Inv
<1>1. Init => Inv
  BY ProviderAssumption DEF Init, Inv, Stages, Buffered, ThrottlingSurvives, AnswerIsHonest
<1> QED
  BY <1>1, InvStep, PTL DEF Spec

\* A 429 is never lost to a stalled, broken, oversized or cut-off body.
THEOREM ThrottlingIsKept == Spec => []ThrottlingSurvives
<1>1. Inv => ThrottlingSurvives
  BY DEF Inv
<1> QED
  BY <1>1, ProviderCallInvariant, PTL

\* The client is told the truth about the provider, and to wait long enough.
THEOREM AnswersAreHonest == Spec => []AnswerIsHonest
<1>1. Inv => AnswerIsHonest
  BY DEF Inv
<1> QED
  BY <1>1, ProviderCallInvariant, PTL
=============================================================================
