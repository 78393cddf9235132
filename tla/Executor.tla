------------------------------- MODULE Executor -------------------------------
(***************************************************************************)
(* ExecutorService::execute (features/executor/service.rs): concurrent     *)
(* requests, each a task that walks its route (primary target, then the    *)
(* configured fallbacks), makes bounded attempts on every hop under one    *)
(* deadline and one attempt budget, and reports each hop to the circuit    *)
(* of its target.  A request's code between two reads of the clock is one  *)
(* step; the clock may move between any two steps, and a task can be       *)
(* dropped only where it awaits (the retry sleep and the provider call).   *)
(***************************************************************************)
EXTENDS RetryPolicy, Sequences

CONSTANTS
    Request, Target, NoPermit,
    FailureThreshold, Cooldown, MaxGeneration, MaxTime,
    Route,              \* Route[r]: primary target, then fallbacks in order
    Supported,          \* <<r, t>>: t's output cap covers r's max_tokens
    Deadline,           \* Deadline[r]: the instant request r expires
    MaxRetries,         \* retries on one hop with a closed circuit
    MaxTotalAttempts,   \* provider calls of one request over all its hops
    AttemptTimeout,     \* the longest a single call may run
    Replies,            \* error kinds a provider may answer with
    RetryAfters         \* Retry-After values of a 429 (None: header absent)

ASSUME ExecutorAssumption ==
    /\ Route \in [Request -> Seq(Target)] /\ \A r \in Request : Len(Route[r]) > 0
    /\ Supported \subseteq Request \X Target
    /\ Deadline \in [Request -> Nat]
    /\ MaxRetries \in Nat /\ MaxTotalAttempts \in Nat /\ AttemptTimeout \in Nat \ {0}
    /\ Replies \subseteq ErrorKinds \ {"RateLimitExceeded", "CircuitOpen"}
    /\ RetryAfters \subseteq Nat \cup {None}

VARIABLES
    circuit, permit, now,   \* the circuit registry, shared by all requests
    req,                    \* req[r]: the local state of r's task
    metrics,                \* metrics[r]: attempts and deadlines recorded for r
    seen                    \* seen[r]: history, what the provider told r

C == INSTANCE Circuit WITH Caller <- Request

ASSUME RegistryAssumption ==
    /\ FailureThreshold \in Nat /\ Cooldown \in Nat
    /\ NoPermit \notin C!Permits

vars == <<circuit, permit, now, req, metrics, seen>>

\* AttemptBudget never allows fewer than one call.
Budget == IF MaxTotalAttempts = 0 THEN 1 ELSE MaxTotalAttempts

NoError   == Failure("None")
Ok        == Failure("Ok")
Expired   == Failure("DeadlineExceeded")
Cancelled == Failure("Cancelled")
Malformed == Failure("InvalidPayload")

Pcs == {"idle", "hop", "admit", "loop", "delay", "sleep", "launch", "calling",
        "judge", "settle", "failed", "next", "done"}

Results == [kind : ErrorKinds \cup {"None", "Ok", "DeadlineExceeded", "Cancelled",
                                  "InvalidPayload"},
            retry_after : Nat \cup {None}]

Tasks == [pc : Pcs, hop : Nat, attempt : Nat, retries : Nat, started : Nat,
          err : Results, last : Results, primary : Results, observed : Results,
          wake : Nat, cutoff : Nat, result : Results]

Tallies == [attempts : Nat, deadlines : Nat]

Histories == [reply : Results, hop : Nat, throttled : BOOLEAN, not_before : Nat,
              primary : Results]

TypeOK ==
    /\ C!TypeOK
    /\ req \in [Request -> Tasks]
    /\ metrics \in [Request -> Tallies]
    /\ seen \in [Request -> Histories]

Init ==
    /\ C!Init
    /\ req = [r \in Request |->
         [pc |-> "idle", hop |-> 1, attempt |-> 0, retries |-> 0, started |-> 0,
          err |-> NoError, last |-> NoError, primary |-> NoError,
          observed |-> NoError, wake |-> 0, cutoff |-> 0, result |-> NoError]]
    /\ metrics = [r \in Request |-> [attempts |-> 0, deadlines |-> 0]]
    /\ seen = [r \in Request |->
         [reply |-> NoError, hop |-> 0, throttled |-> FALSE, not_before |-> 0,
          primary |-> NoError]]

----------------------------------------------------------------------------
at(r, pc) == req[r].pc = pc

expired(r) == is_expired(Deadline[r], now)

target(r) == Route[r][req[r].hop]

exhausted(r) == req[r].started >= Budget

Holds(r) == permit[r] # NoPermit

\* Mutant: the permit is forgotten without running its Drop.
drop_permit_Leaks(r) ==
    permit' = [permit EXCEPT ![r] = NoPermit] /\ UNCHANGED <<circuit, now>>

\* A hop's permit goes out of scope unsettled.
drop_permit(r) == IF Holds(r) THEN C!Drop(r) ELSE UNCHANGED <<circuit, permit, now>>

set(r, f) == req' = [req EXCEPT ![r] = f]

finish(r, result) == set(r, [req[r] EXCEPT !.pc = "done", !.result = result])

hop_error(r, e) == set(r, [req[r] EXCEPT !.pc = "failed", !.err = e])

\* The error of execute_attempts, before execute_hop reports it to the circuit.
attempts_error(r, e) == set(r, [req[r] EXCEPT !.pc = "settle", !.err = e])

\* Mutant: the deadline is answered without being counted.
deadline_exceeded_Uncounted(r) ==
    /\ finish(r, Expired)
    /\ drop_permit(r)
    /\ metrics' = metrics

\* deadline_exceeded and observe_terminal: count the expiry and give up.
deadline_exceeded(r) ==
    /\ finish(r, Expired)
    /\ drop_permit(r)
    /\ metrics' = [metrics EXCEPT ![r].deadlines = @ + 1]

----------------------------------------------------------------------------
Start(r) ==
    /\ at(r, "idle")
    /\ set(r, [req[r] EXCEPT !.pc = "hop"])
    /\ UNCHANGED <<circuit, permit, now, metrics, seen>>

\* extract_params: a payload without messages ends the request before any hop.
InvalidPayload(r) ==
    /\ at(r, "hop") /\ req[r].hop = 1
    /\ ~expired(r)
    /\ finish(r, Malformed)
    /\ UNCHANGED <<circuit, permit, now, metrics, seen>>

\* Mutant: nothing wakes a task whose deadline passes during its retry sleep.
Expire_NotAsleep(r) ==
    /\ \/ req[r].pc \in {"hop", "launch", "judge", "failed", "next"}
       \/ at(r, "loop") /\ req[r].attempt <= req[r].retries
    /\ expired(r)
    /\ deadline_exceeded(r)
    /\ UNCHANGED seen

\* Every check of is_expired outside the provider call: on entry to the request
\* and to a hop, before and after a retry sleep, in attempt_cutoff, in
\* terminate_for_provider_minimum and around the fallback loop.
Expire(r) ==
    /\ \/ req[r].pc \in {"hop", "sleep", "launch", "judge", "failed", "next"}
       \/ at(r, "loop") /\ req[r].attempt <= req[r].retries
    /\ expired(r)
    /\ deadline_exceeded(r)
    /\ UNCHANGED seen

\* execute_hop: without budget the hop fails like a transient provider error.
EnterHop(r) ==
    /\ at(r, "hop")
    /\ ~expired(r)
    /\ IF exhausted(r)
       THEN hop_error(r, Failure("ApiCallFailed"))
       ELSE set(r, [req[r] EXCEPT !.pc = "admit"])
    /\ UNCHANGED <<circuit, permit, now, metrics, seen>>

\* A closed circuit admits the hop with the configured retries, a probe gets one
\* attempt, and a rejected hop makes no call.
admitted(r, retries) ==
    set(r, [req[r] EXCEPT !.pc = "loop", !.attempt = 0, !.retries = retries,
                          !.last = NoError])

AdmitAllow(r) ==
    /\ at(r, "admit")
    /\ C!Allow(r, target(r))
    /\ admitted(r, MaxRetries)
    /\ UNCHANGED <<metrics, seen>>

\* Mutant: the recovery probe is retried like any other hop.
AdmitProbe_Retried(r) ==
    /\ at(r, "admit")
    /\ C!Probe(r, target(r))
    /\ admitted(r, MaxRetries)
    /\ UNCHANGED <<metrics, seen>>

AdmitProbe(r) ==
    /\ at(r, "admit")
    /\ C!Probe(r, target(r))
    /\ admitted(r, 0)
    /\ UNCHANGED <<metrics, seen>>

AdmitReject(r) ==
    /\ at(r, "admit")
    /\ C!admission(circuit[target(r)], now) = "Reject"
    /\ hop_error(r, CircuitOpen)
    /\ UNCHANGED <<circuit, permit, now, metrics, seen>>

\* The head of the attempt loop.  The loop also ends, without looking at the
\* clock, when its retries are used up.
BeginAttempt(r) ==
    /\ at(r, "loop")
    /\ req[r].attempt <= req[r].retries => ~expired(r)
    /\ LET over == req[r].attempt > req[r].retries \/ exhausted(r) IN
         CASE over -> attempts_error(r, IF req[r].last = NoError
                                        THEN Failure("ApiCallFailed")
                                        ELSE req[r].last)
           [] ~over /\ req[r].attempt = 0 -> set(r, [req[r] EXCEPT !.pc = "launch"])
           [] ~over /\ req[r].attempt > 0 -> set(r, [req[r] EXCEPT !.pc = "delay"])
    /\ UNCHANGED <<circuit, permit, now, metrics, seen>>

\* The wait before a retry: the provider's minimum as it is, else jitter.
PlanDelay(r) ==
    /\ at(r, "delay")
    /\ \E plan \in plan_retry_delay(req[r].attempt, req[r].last.retry_after) :
         LET verdict == evaluate_retry_delay(plan, remaining(Deadline[r], now)) IN
           \/ /\ verdict = "Sleep"
              /\ set(r, [req[r] EXCEPT !.pc = IF plan.delay = 0 THEN "launch" ELSE "sleep",
                                       !.wake = now + plan.delay])
              /\ UNCHANGED <<circuit, permit, now, metrics>>
           \/ /\ verdict = "ProviderDelayCannotFit"
              /\ attempts_error(r, req[r].last)
              /\ UNCHANGED <<circuit, permit, now, metrics>>
           \/ /\ verdict = "DeadlineExceeded"
              /\ deadline_exceeded(r)
    /\ UNCHANGED seen

Wake(r) ==
    /\ at(r, "sleep")
    /\ now >= req[r].wake
    /\ ~expired(r)
    /\ set(r, [req[r] EXCEPT !.pc = "launch"])
    /\ UNCHANGED <<circuit, permit, now, metrics, seen>>

\* A slot of the budget is taken and the call runs until its cutoff at most.
Launch(r) ==
    /\ at(r, "launch")
    /\ ~expired(r)
    /\ set(r, [req[r] EXCEPT !.pc = "calling", !.started = @ + 1,
                             !.observed = NoError,
                             !.cutoff = attempt_cutoff(Deadline[r], now, AttemptTimeout)])
    /\ seen' = [seen EXCEPT ![r].hop = req[r].hop, ![r].throttled = FALSE]
    /\ UNCHANGED <<circuit, permit, now, metrics>>

----------------------------------------------------------------------------
\* 429 headers arrive: throttling is saved before the body is read.
Observe(r) ==
    /\ at(r, "calling")
    /\ req[r].observed = NoError
    /\ \E d \in RetryAfters : set(r, [req[r] EXCEPT !.observed = Throttling(d)])
    /\ seen' = [seen EXCEPT ![r].throttled = TRUE]
    /\ UNCHANGED <<circuit, permit, now, metrics>>

\* Mutant: an attempt cut off while the body of a 429 is read is a timeout.
call_errors_ForgetsThrottling(r) ==
    (IF req[r].observed = NoError
     THEN {Failure(k) : k \in Replies}
     ELSE {req[r].observed, Failure("Permanent")})
    \cup (IF now >= req[r].cutoff THEN {Failure("TimeoutError")} ELSE {})

\* How a call may fail now: a provider answer, the cutoff, or, once 429 headers
\* were seen, that throttling unless the body turns it into an exhausted quota.
call_errors(r) ==
    IF req[r].observed = NoError
    THEN {Failure(k) : k \in Replies}
         \cup (IF now >= req[r].cutoff THEN {Failure("TimeoutError")} ELSE {})
    ELSE {req[r].observed, Failure("Permanent")}

record_attempt(r) == metrics' = [metrics EXCEPT ![r].attempts = @ + 1]

\* Overall expiry wins over every outcome of the call, success included.
CallExpired(r) ==
    /\ at(r, "calling")
    /\ expired(r)
    /\ finish(r, Expired)
    /\ drop_permit(r)
    /\ metrics' = [metrics EXCEPT ![r].attempts = @ + 1, ![r].deadlines = @ + 1]
    /\ UNCHANGED seen

\* Mutant: a result that is ready at expiry is delivered.
CallSucceeded_Late(r) ==
    /\ at(r, "calling")
    /\ req[r].observed = NoError
    /\ record_attempt(r)
    /\ attempts_error(r, Ok)
    /\ UNCHANGED <<circuit, permit, now, seen>>

CallSucceeded(r) ==
    /\ at(r, "calling")
    /\ ~expired(r)
    /\ req[r].observed = NoError
    /\ record_attempt(r)
    /\ attempts_error(r, Ok)
    /\ UNCHANGED <<circuit, permit, now, seen>>

\* The attempt's error: a retryable one is looked at once more, any other ends
\* the hop.
CallFailed(r) ==
    /\ at(r, "calling")
    /\ ~expired(r)
    /\ \E e \in call_errors(r) :
         /\ IF is_retryable_error(e)
            THEN set(r, [req[r] EXCEPT !.pc = "judge", !.err = e])
            ELSE attempts_error(r, e)
         /\ seen' = [seen EXCEPT
              ![r].reply = e,
              ![r].primary = IF req[r].hop = 1 THEN e ELSE @,
              ![r].not_before = IF e.retry_after > 0 THEN now + e.retry_after ELSE @]
    /\ record_attempt(r)
    /\ UNCHANGED <<circuit, permit, now>>

\* terminate_for_provider_minimum inside the loop, else the next attempt.
Judge(r) ==
    /\ at(r, "judge")
    /\ ~expired(r)
    /\ IF provider_minimum_cannot_fit(req[r].err, remaining(Deadline[r], now))
       THEN attempts_error(r, req[r].err)
       ELSE set(r, [req[r] EXCEPT !.pc = "loop", !.last = req[r].err, !.attempt = @ + 1])
    /\ UNCHANGED <<circuit, permit, now, metrics, seen>>

\* Success and transient failures settle the permit; any other error closes a
\* probed circuit and says nothing about a closed one.
report(r) ==
    CASE req[r].err = Ok                   -> C!Settle(r, "Success")
      [] is_circuit_failure(req[r].err)    -> C!Settle(r, "TransientFailure")
      [] permit[r].kind = "Probe" /\ req[r].err # Ok
           /\ ~is_circuit_failure(req[r].err) -> C!Settle(r, "Permanent")
      [] OTHER                             -> C!Drop(r)

\* execute_hop reports the hop to the circuit of its target.
Settle(r) ==
    /\ at(r, "settle")
    /\ report(r)
    /\ IF req[r].err = Ok
       THEN finish(r, Ok)
       ELSE set(r, [req[r] EXCEPT !.pc = "failed"])
    /\ UNCHANGED <<metrics, seen>>

\* Mutant: a failing fallback replaces the primary's error.
HopFailed_LastError(r) ==
    LET e == req[r].err
        fatal == provider_minimum_cannot_fit(e, remaining(Deadline[r], now))
    IN
    /\ at(r, "failed")
    /\ ~expired(r)
    /\ \/ /\ fatal \/ (req[r].hop = 1 /\ ~is_fallback_eligible(e))
          /\ finish(r, e)
       \/ /\ ~fatal /\ (req[r].hop > 1 \/ is_fallback_eligible(e))
          /\ set(r, [req[r] EXCEPT !.pc = "next", !.hop = @ + 1, !.primary = e])
    /\ UNCHANGED <<circuit, permit, now, metrics, seen>>

\* A failed hop ends the request (a provider minimum that cannot fit, or an error
\* that must not change the model) or hands over to the fallbacks.
HopFailed(r) ==
    LET e == req[r].err
        primary == IF req[r].hop = 1 THEN e ELSE req[r].primary
        fatal == provider_minimum_cannot_fit(e, remaining(Deadline[r], now))
    IN
    /\ at(r, "failed")
    /\ ~expired(r)
    /\ \/ /\ fatal \/ (req[r].hop = 1 /\ ~is_fallback_eligible(e))
          /\ finish(r, e)
       \/ /\ ~fatal /\ req[r].hop > 1 /\ ~is_fallback_eligible(e)
          /\ set(r, [req[r] EXCEPT !.pc = "next", !.hop = Len(Route[r]) + 1])
       \/ /\ ~fatal /\ is_fallback_eligible(e)
          /\ set(r, [req[r] EXCEPT !.pc = "next", !.hop = @ + 1, !.primary = primary])
    /\ UNCHANGED <<circuit, permit, now, metrics, seen>>

\* The fallback loop: skip targets that cannot serve the request; when the list
\* is over, the answer is the primary's error.
NextHop(r) ==
    /\ at(r, "next")
    /\ ~expired(r)
    /\ CASE req[r].hop > Len(Route[r]) -> finish(r, req[r].primary)
         [] req[r].hop <= Len(Route[r]) /\ <<r, target(r)>> \in Supported ->
              set(r, [req[r] EXCEPT !.pc = "hop"])
         [] req[r].hop <= Len(Route[r]) /\ <<r, target(r)>> \notin Supported ->
              set(r, [req[r] EXCEPT !.hop = @ + 1])
    /\ UNCHANGED <<circuit, permit, now, metrics, seen>>

\* Mutant: the attempt guard does not record a call whose task is dropped.
Cancel_Unrecorded(r) ==
    /\ req[r].pc \in {"sleep", "calling"}
    /\ finish(r, Cancelled)
    /\ drop_permit(r)
    /\ UNCHANGED <<metrics, seen>>

\* The client disconnects, or the deadline middleware or the drain drops the
\* task, while it awaits: both guards run their Drop.
Cancel(r) ==
    /\ req[r].pc \in {"sleep", "calling"}
    /\ finish(r, Cancelled)
    /\ drop_permit(r)
    /\ metrics' = IF at(r, "calling")
                  THEN [metrics EXCEPT ![r].attempts = @ + 1]
                  ELSE metrics
    /\ UNCHANGED seen

Tick == C!Tick /\ UNCHANGED <<req, metrics, seen>>

Step(r) ==
    \/ InvalidPayload(r) \/ Expire(r) \/ EnterHop(r)
    \/ AdmitAllow(r) \/ AdmitProbe(r) \/ AdmitReject(r)
    \/ BeginAttempt(r) \/ PlanDelay(r) \/ Wake(r) \/ Launch(r)
    \/ CallExpired(r) \/ CallSucceeded(r) \/ CallFailed(r)
    \/ Judge(r) \/ Settle(r) \/ HopFailed(r) \/ NextHop(r)

Next ==
    \/ \E r \in Request : Start(r) \/ Step(r) \/ Observe(r) \/ Cancel(r)
    \/ Tick

Spec == Init /\ [][Next]_vars

\* The runtime polls every task that can run and time passes.  A provider owes
\* no answer: a call is only sure to end at its cutoff.
Run(r) == Step(r) /\ (at(r, "calling") => now >= req[r].cutoff)

Fairness == (\A r \in Request : WF_vars(Run(r))) /\ WF_vars(Tick)

FairSpec == Spec /\ Fairness

----------------------------------------------------------------------------
\* Every started call is recorded exactly once, however it ends (an answer, the
\* cutoff, the deadline, a dropped task), and the budget covers all hops.
AttemptAccounting ==
    \A r \in Request :
      /\ req[r].started = metrics[r].attempts + (IF at(r, "calling") THEN 1 ELSE 0)
      /\ req[r].started <= Budget

\* The deadline counter and the 504 answers agree request by request, over all
\* the places where an expiry is noticed: none is missed, none counted twice.
DeadlineCountedOnce ==
    \A r \in Request :
      metrics[r].deadlines = IF req[r].result = Expired THEN 1 ELSE 0

\* A permit lives no longer than the hop it was issued for: no finished, failed
\* or cancelled request holds one, so a half-open circuit with a probe in flight
\* always has a running owner, which is on its first and only call.
PermitDiscipline ==
    \A r \in Request : Holds(r) =>
      /\ req[r].pc \in {"loop", "delay", "sleep", "launch", "calling", "judge", "settle"}
      /\ permit[r].target = target(r)
      /\ permit[r].kind = "Probe" =>
           req[r].pc \notin {"delay", "sleep"} /\ (at(r, "calling") => req[r].attempt = 0)

\* The client learns an error that really happened: the primary target's last
\* error, or throttling by the target called last; a fallback's own failure
\* never replaces it.
ErrorIsGenuine ==
    \A r \in Request : at(r, "done") =>
      /\ req[r].result.kind \in TransientKinds \cup {"Permanent"} =>
           req[r].result = seen[r].primary
      /\ req[r].result.kind = "RateLimitExceeded" => req[r].result = seen[r].reply

\* No call starts, and no result is accepted, at or after the deadline.
DeadlineGoverns ==
    [][\A r \in Request :
         \/ req'[r].started > req[r].started
         \/ req'[r].err = Ok /\ req[r].err # Ok
         => now < Deadline[r]]_vars

\* A provider's Retry-After is never shortened: no later call of the request
\* starts before the minimum has passed.
RetryAfterHonoured ==
    [][\A r \in Request :
         req'[r].started > req[r].started => now >= seen[r].not_before]_vars

\* A request changes target only after a transient failure of its last call;
\* throttling, quota and permanent errors never switch models.
SwitchOnlyAfterTransient ==
    [][\A r \in Request :
         req'[r].started > req[r].started /\ seen[r].hop \notin {0, req[r].hop} =>
           seen[r].reply.kind \in TransientKinds]_vars

\* A circuit opens only on a transient failure of a call that saw no 429: an
\* attempt cut off while reading the body of a 429 is throttling, not a timeout.
ThrottlingNeverOpens ==
    [][\A t \in Target :
         circuit'[t].phase = "Open" /\ circuit[t].phase # "Open" =>
           \E r \in Request :
             /\ Holds(r) /\ permit[r].target = t /\ permit'[r] = NoPermit
             /\ seen[r].hop = req[r].hop /\ ~seen[r].throttled
             /\ seen[r].reply.kind \in TransientKinds]_vars

\* The executor uses the registry only through its operations, so what is proved
\* of Circuit holds of every execution.
ImplementsCircuit == C!Spec

\* Every request is answered, whatever the providers do.
Termination == \A r \in Request : ~at(r, "idle") ~> at(r, "done")
=============================================================================
