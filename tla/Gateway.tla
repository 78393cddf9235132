-------------------------------- MODULE Gateway -------------------------------
(***************************************************************************)
(* A protected request on its way through the gateway: the deadline and    *)
(* authentication middleware, body extraction, generation admission        *)
(* (core/admission.rs), the handler and the work behind it; and the        *)
(* process around it: the shutdown signal, the drain and the grace period  *)
(* (core/lifecycle.rs).  Requests are concurrent tasks.  The store and the *)
(* executor are seen through their outcomes; AuthStore and Executor model  *)
(* them.                                                                   *)
(***************************************************************************)
EXTENDS Integers, FiniteSets

CONSTANTS
    Request,
    MaxConcurrent,      \* max_concurrent_generations
    Budget,             \* protected_request_deadline
    Grace,              \* SERVER_SHUTDOWN_TIMEOUT
    MaxTime             \* bound: the clock stops here but for a grace period that
                        \* is running, no request arrives whose deadline lies beyond

ASSUME GatewayAssumption ==
    /\ IsFiniteSet(Request)
    /\ MaxConcurrent \in Nat /\ Budget \in Nat /\ Grace \in Nat /\ MaxTime \in Nat

VARIABLES
    req,        \* req[r]: the task of request r
    free,       \* unused permits of the generation semaphore
    closed,     \* the semaphore has been closed
    draining,   \* the drain flag every task can read
    proc,       \* the process: signal handler, listener, grace timer
    metrics,    \* metrics[r]: how often r counted an expiry or an overload
    now

vars == <<req, free, closed, draining, proc, metrics, now>>

Pcs == {"idle", "auth", "body", "admitted", "running", "managing", "done"}

\* How a request ended.  "Dropped": no answer, the task was cancelled.
Answers == {"none", "Ok", "Unauthorized", "StoreUnavailable", "Forbidden", "Invalid",
            "Draining", "Overloaded", "Deadline", "Failed", "Dropped"}

NotYet == -1

Tasks == [pc : Pcs, deadline : Nat, permit : BOOLEAN, answer : Answers, ended_in : Pcs]

TypeOK ==
    /\ req \in [Request -> Tasks]
    /\ free \in 0 .. MaxConcurrent
    /\ closed \in BOOLEAN /\ draining \in BOOLEAN
    /\ proc \in [signal : {"waiting", "marking", "done"}, listening : BOOLEAN,
                 grace_at : Nat \cup {NotYet}, up : BOOLEAN]
    /\ metrics \in [Request -> [deadlines : Nat, overloads : Nat]]
    /\ now \in Nat

Init ==
    /\ req = [r \in Request |-> [pc |-> "idle", deadline |-> 0, permit |-> FALSE,
                                 answer |-> "none", ended_in |-> "idle"]]
    /\ free = MaxConcurrent
    /\ closed = FALSE /\ draining = FALSE
    /\ proc = [signal |-> "waiting", listening |-> TRUE, grace_at |-> NotYet, up |-> TRUE]
    /\ metrics = [r \in Request |-> [deadlines |-> 0, overloads |-> 0]]
    /\ now = 0

----------------------------------------------------------------------------
at(r, pc) == req[r].pc = pc

expired(r) == now >= req[r].deadline

Active(r) == req[r].pc \notin {"idle", "done"}

Holds(r) == req[r].permit

ended(r, answer) ==
    [req[r] EXCEPT !.pc = "done", !.answer = answer, !.ended_in = req[r].pc,
                   !.permit = FALSE]

\* Mutant: an answer other than the handler's own forgets the permit.
finish_Leaks(r, answer) ==
    /\ req' = [req EXCEPT ![r] = ended(r, answer)]
    /\ free' = IF Holds(r) /\ at(r, "running") THEN free + 1 ELSE free

\* The task ends; GenerationPermit's Drop gives its slot back on every path.
finish(r, answer) ==
    /\ req' = [req EXCEPT ![r] = ended(r, answer)]
    /\ free' = IF Holds(r) THEN free + 1 ELSE free

goto(r, pc) == req' = [req EXCEPT ![r].pc = pc] /\ UNCHANGED free

record_deadline_exceeded(r) == metrics' = [metrics EXCEPT ![r].deadlines = @ + 1]

process == <<closed, draining, proc>>

----------------------------------------------------------------------------
\* deadline_middleware: the deadline starts before authentication.
Arrive(r) ==
    /\ at(r, "idle")
    /\ proc.listening /\ proc.up
    /\ now + Budget <= MaxTime
    /\ req' = [req EXCEPT ![r].pc = "auth", ![r].deadline = now + Budget]
    /\ UNCHANGED <<free, process, metrics, now>>

\* Mutant: the deadline starts after the body has been read.
MiddlewareExpired_NotBody(r) ==
    /\ req[r].pc \in {"auth", "running", "managing"}
    /\ expired(r)
    /\ finish(r, "Deadline")
    /\ record_deadline_exceeded(r)
    /\ UNCHANGED <<process, now>>

\* The deadline passes while the request awaits: the inner work is dropped.
\* The inner future is polled first, so inside a task either side may notice.
MiddlewareExpired(r) ==
    /\ req[r].pc \in {"auth", "body", "running", "managing"}
    /\ expired(r)
    /\ finish(r, "Deadline")
    /\ record_deadline_exceeded(r)
    /\ UNCHANGED <<process, now>>

\* auth_middleware: no usable header, an unknown or revoked key, or no store.
AuthRefused(r) ==
    /\ at(r, "auth")
    /\ \E answer \in {"Unauthorized", "StoreUnavailable"} : finish(r, answer)
    /\ UNCHANGED <<process, metrics, now>>

\* authenticate_with_deadline: its own expiry answers 504.
AuthExpired(r) ==
    /\ at(r, "auth")
    /\ expired(r)
    /\ finish(r, "Deadline")
    /\ UNCHANGED <<process, metrics, now>>

AuthPassed(r) ==
    /\ at(r, "auth")
    /\ goto(r, "body")
    /\ UNCHANGED <<process, metrics, now>>

\* ApiJson: the body is too large, of the wrong type or not JSON.
BodyRefused(r) ==
    /\ at(r, "body")
    /\ finish(r, "Invalid")
    /\ UNCHANGED <<process, metrics, now>>

\* ingress_handler, and alike the management handlers: the key has the wrong kind,
\* or the request is not valid.
Rejected(r) ==
    /\ at(r, "body")
    /\ \E answer \in {"Forbidden", "Invalid"} : finish(r, answer)
    /\ UNCHANGED <<process, metrics, now>>

\* AdmissionLimiter::try_acquire: a closed semaphore answers Closed even when
\* it has no permit left.
try_acquire == IF closed THEN "Closed" ELSE IF free = 0 THEN "NoPermits" ELSE "Permit"

\* ingress_handler: a valid generation request asks for a slot and never waits.
Admitted(r) ==
    /\ at(r, "body")
    /\ try_acquire = "Permit"
    /\ req' = [req EXCEPT ![r].pc = "admitted", ![r].permit = TRUE]
    /\ free' = free - 1
    /\ UNCHANGED <<process, metrics, now>>

NotAdmitted(r) ==
    /\ at(r, "body")
    /\ \/ /\ try_acquire = "Closed"
          /\ finish(r, "Draining")
          /\ UNCHANGED metrics
       \/ /\ try_acquire = "NoPermits"
          /\ finish(r, "Overloaded")
          /\ metrics' = [metrics EXCEPT ![r].overloads = @ + 1]
    /\ UNCHANGED <<process, now>>

\* process_request: expiry, an unknown route or a token cap the primary cannot
\* satisfy end the request before provider access.
ProcessRequest(r) ==
    /\ at(r, "admitted")
    /\ IF expired(r)
       THEN finish(r, "Deadline")
       ELSE finish(r, "Invalid") \/ goto(r, "running")
    /\ UNCHANGED <<process, metrics, now>>

\* ExecutorService::execute ends before the deadline with a result or an error.
Executed(r) ==
    /\ at(r, "running")
    /\ ~expired(r)
    /\ \E answer \in {"Ok", "Failed"} : finish(r, answer)
    /\ UNCHANGED <<process, metrics, now>>

\* Mutant: the executor's expiry is left to the middleware to count.
ExecutorExpired_Uncounted(r) ==
    /\ at(r, "running")
    /\ finish(r, "Deadline")
    /\ UNCHANGED <<process, metrics, now>>

\* The executor notices the expiry itself, or sees that no backoff fits any more.
ExecutorExpired(r) ==
    /\ at(r, "running")
    /\ finish(r, "Deadline")
    /\ record_deadline_exceeded(r)
    /\ UNCHANGED <<process, now>>

\* Management handlers work on the store, outside generation admission.
Manage(r) ==
    /\ at(r, "body")
    /\ goto(r, "managing")
    /\ UNCHANGED <<process, metrics, now>>

Managed(r) ==
    /\ at(r, "managing")
    /\ \E answer \in {"Ok", "Failed", "StoreUnavailable"} : finish(r, answer)
    /\ UNCHANGED <<process, metrics, now>>

\* The client goes away: the connection's task is dropped where it awaits.
Disconnect(r) ==
    /\ req[r].pc \in {"auth", "body", "running", "managing"}
    /\ finish(r, "Dropped")
    /\ UNCHANGED <<process, metrics, now>>

----------------------------------------------------------------------------
\* Mutant: the flag is published before the limiter is closed.
mark_draining_PublishFirst ==
    \/ proc.signal = "waiting" /\ closed' = closed /\ draining' = TRUE
    \/ proc.signal = "marking" /\ closed' = TRUE /\ draining' = draining

\* Mutant: the limiter is closed and nobody is told.
mark_draining_Unpublished ==
    /\ proc.signal \in {"waiting", "marking"}
    /\ closed' = TRUE /\ draining' = draining

\* ShutdownState::mark_draining: first the limiter, then the flag.
mark_draining ==
    \/ proc.signal = "waiting" /\ closed' = TRUE /\ draining' = draining
    \/ proc.signal = "marking" /\ closed' = closed /\ draining' = TRUE

\* spawn_signal_handler on SIGTERM or SIGINT: two steps, visible to every task.
\* Later signals change nothing.
Signal ==
    /\ proc.up
    /\ mark_draining
    /\ proc' = [proc EXCEPT !.signal = IF @ = "waiting" THEN "marking" ELSE "done"]
    /\ UNCHANGED <<req, free, metrics, now>>

\* The server's graceful shutdown stops accepting once it sees the flag.
StopListening ==
    /\ draining /\ proc.listening /\ proc.up
    /\ proc' = [proc EXCEPT !.listening = FALSE]
    /\ UNCHANGED <<req, free, closed, draining, metrics, now>>

\* serve_until_shutdown starts the grace timer when it sees the flag.
StartGrace ==
    /\ draining /\ proc.grace_at = NotYet /\ proc.up
    /\ proc' = [proc EXCEPT !.grace_at = now + Grace]
    /\ UNCHANGED <<req, free, closed, draining, metrics, now>>

\* The server future completes when no connection is left.  The connection of a request
\* that is answered may stay open as long as its client likes, so that this may happen
\* at any time after the last request, or never.
ServerDone ==
    /\ ~proc.listening /\ proc.up
    /\ \A r \in Request : ~Active(r)
    /\ proc' = [proc EXCEPT !.up = FALSE]
    /\ UNCHANGED <<req, free, closed, draining, metrics, now>>

\* Mutant: the grace timer counts from the start of the process.
GraceElapsed_FromStart ==
    /\ draining /\ now >= Grace /\ proc.up
    /\ proc' = [proc EXCEPT !.up = FALSE]
    /\ req' = [r \in Request |-> IF Active(r) THEN ended(r, "Dropped") ELSE req[r]]
    /\ free' = free + Cardinality({r \in Request : Holds(r)})
    /\ UNCHANGED <<closed, draining, metrics, now>>

\* The grace period is over: main returns and every task left is cancelled.
GraceElapsed ==
    /\ proc.grace_at # NotYet /\ now >= proc.grace_at /\ proc.up
    /\ proc' = [proc EXCEPT !.up = FALSE]
    /\ req' = [r \in Request |-> IF Active(r) THEN ended(r, "Dropped") ELSE req[r]]
    /\ free' = free + Cardinality({r \in Request : Holds(r)})
    /\ UNCHANGED <<closed, draining, metrics, now>>

\* The clock is bounded by MaxTime, or by the end of the grace period if that is later.
Tick ==
    /\ now < MaxTime \/ (proc.grace_at # NotYet /\ now < proc.grace_at)
    /\ now' = now + 1
    /\ UNCHANGED <<req, free, process, metrics>>

Work(r) ==
    \/ MiddlewareExpired(r) \/ AuthRefused(r) \/ AuthExpired(r) \/ AuthPassed(r)
    \/ BodyRefused(r) \/ Rejected(r) \/ Admitted(r) \/ NotAdmitted(r) \/ ProcessRequest(r)
    \/ Executed(r) \/ ExecutorExpired(r) \/ Manage(r) \/ Managed(r)

Lifecycle == StopListening \/ StartGrace \/ ServerDone \/ GraceElapsed

Next ==
    \/ \E r \in Request : Arrive(r) \/ Work(r) \/ Disconnect(r)
    \/ Signal \/ Lifecycle \/ Tick

Spec == Init /\ [][Next]_vars

\* Timers fire, an admitted handler runs on without waiting, the signal handler
\* finishes what it began and the server task is polled.  Neither the store, the
\* client's body nor the executor owes an answer, and no client closes its connection.
Fairness ==
    /\ \A r \in Request : WF_vars(MiddlewareExpired(r)) /\ WF_vars(ProcessRequest(r))
    /\ WF_vars(Signal /\ proc.signal = "marking")
    /\ WF_vars(StopListening) /\ WF_vars(StartGrace) /\ WF_vars(GraceElapsed) /\ WF_vars(Tick)

FairSpec == Spec /\ Fairness

----------------------------------------------------------------------------
\* No slot is lost or given back twice on any path out of the handler, an
\* expired, disconnected or cancelled one included.
PermitAccounting ==
    /\ free + Cardinality({r \in Request : Holds(r)}) = MaxConcurrent
    /\ \A r \in Request : Holds(r) <=> req[r].pc \in {"admitted", "running"}

\* Once any task can see the drain flag, no generation is admitted, and none is
\* told to try this process again.
DrainIsFinal ==
    [][draining => \A r \in Request :
         /\ Holds(r)' => Holds(r)
         /\ req'[r].answer = "Overloaded" => req[r].answer = "Overloaded"]_vars

\* An expiry is counted at most once although the executor and the middleware
\* both watch it, only for a 504, and always when it falls into the reading of
\* the body, the execution or a management operation.
ExpiryCountedOnce ==
    \A r \in Request :
      /\ metrics[r].deadlines <= 1
      /\ metrics[r].deadlines = 1 => req[r].answer = "Deadline"
      /\ req[r].answer = "Deadline" /\ req[r].ended_in \in {"running", "managing", "body"} =>
           metrics[r].deadlines = 1

\* A grace period at least as long as the request deadline never cuts off an
\* admitted generation that still has time left.
GraceCoversAdmitted ==
    [][Grace >= Budget /\ proc.up /\ ~proc'.up =>
         \A r \in Request : Holds(r) => expired(r)]_vars

\* Every protected request ends, even if the store, the client's body and the
\* provider all hang.
EveryRequestEnds == \A r \in Request : at(r, "auth") ~> at(r, "done")

\* A shutdown signal stops the process although requests may still be arriving, hang, or
\* leave connections open that no client closes.
SignalStops == (proc.signal # "waiting") ~> ~proc.up

\* The deadline counter as its description has it: overall protected-request
\* deadline expirations, one for every 504.
EveryExpiryCounted ==
    \A r \in Request : req[r].answer = "Deadline" => metrics[r].deadlines = 1
=============================================================================
