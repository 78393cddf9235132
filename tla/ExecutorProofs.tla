---------------------------- MODULE ExecutorProofs ----------------------------
(***************************************************************************)
(* The executor for every set of requests, routes, deadlines, budgets and  *)
(* retry policies.  A task shares nothing with the others but the circuit  *)
(* registry, so the invariant says, for each request, how its program      *)
(* counter, its counters, its permit and what its providers told it hang   *)
(* together.                                                               *)
(***************************************************************************)
EXTENDS Executor, TLAPS

\* The stages of a hop that has its permit.
Running == {"loop", "delay", "sleep", "launch", "calling", "judge", "settle"}

\* The errors a provider call can end with.
Faults ==
    {e \in Results :
       /\ e.kind \in TransientKinds \cup {"Permanent", "RateLimitExceeded"}
       /\ e.retry_after # None => e.kind = "RateLimitExceeded"}

\* Before the first call of a hop, and after a call that may be repeated.
fresh(q) ==
    \/ q.pc \in {"idle", "hop", "admit"}
    \/ q.pc \in {"loop", "launch"} /\ q.attempt = 0

retrying(q) == q.pc \in {"loop", "delay", "sleep", "launch", "calling"} /\ q.attempt > 0

\* e is what the current hop's last call told the request.
Reported(e, q, w) ==
    e \in Faults /\ e = w.reply /\ w.hop = q.hop /\ (q.hop = 1 => e = w.primary)

----------------------------------------------------------------------------
\* The parts of the invariant relate a task q, its metrics m, what it has seen w,
\* its permit p and the time n.

\* A call is recorded when it ends, and one is prepared only within the budget.
Accounted(q, m) ==
    /\ q.started = m.attempts + (IF q.pc = "calling" THEN 1 ELSE 0)
    /\ q.started <= Budget
    /\ q.pc \in {"admit", "delay", "sleep", "launch"} \/ (q.pc = "loop" /\ q.attempt = 0) =>
         q.started < Budget
    /\ q.pc \in {"idle", "hop"} /\ q.hop = 1 => q.started = 0

\* An expiry is counted with the answer, and never before.
Counts(result, n) == n = IF result = Expired THEN 1 ELSE 0

Expiries(q, m) ==
    /\ Counts(q.result, m.deadlines)
    /\ q.pc # "done" => q.result = NoError

OnRoute(r, q) ==
    /\ q.hop >= 1
    /\ q.pc \notin {"next", "done"} => q.hop <= Len(Route[r])
    /\ q.pc = "next" => q.hop > 1
    /\ q.pc \in {"delay", "sleep"} => q.attempt > 0

\* The permit is the current hop's, and a probe never gets to a second call.
Permitted(r, q, p) ==
    /\ p # NoPermit <=> q.pc \in Running
    /\ p # NoPermit =>
         /\ p.target = Route[r][q.hop]
         /\ p.kind = "Probe" => /\ q.retries = 0 /\ q.pc \notin {"delay", "sleep"}
                                /\ q.pc \in {"launch", "calling", "judge"} => q.attempt = 0

\* Where the errors that a task carries come from.
Provenance(q, w) ==
    /\ fresh(q) \/ q.pc = "next" => w.hop < q.hop
    /\ q.pc = "calling" => w.hop = q.hop
    /\ retrying(q) => Reported(q.last, q, w)
    /\ q.pc = "judge" => Reported(q.err, q, w)
    /\ q.pc = "settle" => w.hop = q.hop /\ (q.err = Ok \/ Reported(q.err, q, w))
    /\ q.pc = "failed" =>
         \/ Reported(q.err, q, w)
         \/ /\ w.hop < q.hop
            /\ q.err = CircuitOpen \/ (q.hop > 1 /\ q.err = Failure("ApiCallFailed"))
    /\ q.hop > 1 =>
         /\ q.primary.kind \in TransientKinds \cup {"CircuitOpen"}
         /\ q.primary.kind \in TransientKinds => q.primary = w.primary

\* A 429's headers are known to the attempt, and it can then not end as transient.
Throttled(q, w) ==
    /\ q.observed \in {NoError} \cup {Throttling(d) : d \in RetryAfters}
    /\ q.pc = "calling" => (w.throttled <=> q.observed # NoError)
    /\ q.pc \in {"judge", "settle"} \/ (q.pc # "calling" /\ retrying(q)) =>
         (w.reply.kind \in TransientKinds => ~w.throttled)

\* Behind a switch of targets there is a transient failure.
Switched(r, q, w) ==
    q.pc # "done" /\ q.hop <= Len(Route[r]) /\ w.hop \notin {0, q.hop} =>
      w.reply.kind \in TransientKinds

\* A provider's minimum has passed, is being slept through, is still to be slept
\* through from now on, or will end the request.
owed(e, w, n) == e.kind = "RateLimitExceeded" /\ e.retry_after > 0 /\ w.not_before <= n + e.retry_after

Patient(r, q, w, n) ==
    /\ q.pc \in {"idle", "hop", "admit", "launch", "calling"} => w.not_before <= n
    /\ q.pc = "sleep" => w.not_before <= q.wake
    /\ q.pc \in {"loop", "delay"} =>
         w.not_before <= n \/ (q.attempt > 0 /\ owed(q.last, w, n))
    /\ q.pc = "judge" => w.not_before <= n \/ owed(q.err, w, n)
    /\ q.pc \in {"settle", "failed"} => w.not_before <= n \/ q.err.kind = "RateLimitExceeded"
    /\ q.pc = "next" => w.not_before <= n \/ q.hop > Len(Route[r])

\* An answer that the request may get.
Answerable(result, w) ==
    /\ result.kind \in TransientKinds \cup {"Permanent"} => result = w.primary
    /\ result.kind = "RateLimitExceeded" => result = w.reply

Honest(q, w) == q.pc = "done" => Answerable(q.result, w)

Sound(r, q, m, w, p, n) ==
    /\ Accounted(q, m) /\ Expiries(q, m) /\ OnRoute(r, q) /\ Permitted(r, q, p)
    /\ Provenance(q, w) /\ Throttled(q, w) /\ Switched(r, q, w)
    /\ Patient(r, q, w, n) /\ Honest(q, w)

Inv ==
    /\ TypeOK
    /\ \A r \in Request : Sound(r, req[r], metrics[r], seen[r], permit[r], now)

----------------------------------------------------------------------------
\* What every step of a task starts from.
LEMMA Facts ==
  ASSUME Inv, NEW r \in Request
  PROVE  /\ req[r] \in Tasks /\ metrics[r] \in Tallies /\ seen[r] \in Histories
         /\ permit[r] \in C!Permits \cup {NoPermit} /\ now \in Nat
         /\ Sound(r, req[r], metrics[r], seen[r], permit[r], now)
         /\ Deadline[r] \in Nat /\ Len(Route[r]) \in Nat /\ Len(Route[r]) >= 1
<1>1. Route[r] \in Seq(Target) /\ Len(Route[r]) > 0
  BY ExecutorAssumption
<1>2. Len(Route[r]) \in Nat
  BY <1>1
<1> QED
  BY <1>1, <1>2, ExecutorAssumption DEF Inv, TypeOK, C!TypeOK

\* The budget is at least one call, whatever is configured.
LEMMA BudgetPositive == Budget \in Nat /\ Budget >= 1 /\ MaxRetries \in Nat
  BY ExecutorAssumption DEF Budget

\* The errors and results that the executor makes up have their type.
LEMMA MadeUp ==
  /\ NoError \in Results /\ Ok \in Results /\ Expired \in Results /\ Cancelled \in Results
  /\ Malformed \in Results /\ CircuitOpen \in Results
  /\ \A k \in ErrorKinds : Failure(k) \in Results
  BY DEF NoError, Ok, Expired, Cancelled, Malformed, CircuitOpen, Failure, Results, ErrorKinds, None

\* Counting keeps a tally's type.
LEMMA Counting ==
  \A t \in Tallies :
    /\ [t EXCEPT !.attempts = @ + 1] \in Tallies
    /\ [t EXCEPT !.deadlines = @ + 1] \in Tallies
    /\ [t EXCEPT !.attempts = @ + 1, !.deadlines = @ + 1] \in Tallies
<1>1. \A t \in Tallies : t.attempts + 1 \in Nat /\ t.deadlines + 1 \in Nat
  BY DEF Tallies
<1>2. \A t \in Tallies, a, d \in Nat :
        /\ [t EXCEPT !.attempts = a] \in Tallies
        /\ [t EXCEPT !.deadlines = d] \in Tallies
        /\ [t EXCEPT !.attempts = a, !.deadlines = d] \in Tallies
  BY DEF Tallies
<1> QED
  BY <1>1, <1>2

\* A step of one task keeps the invariant if the task is sound after it: the
\* others' states and permits are not its to change.
LEMMA OwnStep ==
  ASSUME Inv, NEW r \in Request, now' = now, C!TypeOK',
         \A o \in Request : o # r => permit'[o] = permit[o],
         NEW q \in Tasks, req' = [req EXCEPT ![r] = q],
         NEW m \in Tallies, metrics' = [metrics EXCEPT ![r] = m],
         NEW w \in Histories, seen' = [seen EXCEPT ![r] = w],
         Sound(r, q, m, w, permit'[r], now)
  PROVE  Inv'
<1>1. TypeOK'
  BY DEF Inv, TypeOK
<1>2. req'[r] = q /\ metrics'[r] = m /\ seen'[r] = w
  BY DEF Inv, TypeOK
<1>3. ASSUME NEW o \in Request, o # r
      PROVE  Sound(o, req'[o], metrics'[o], seen'[o], permit'[o], now')
  <2>1. req'[o] = req[o] /\ metrics'[o] = metrics[o] /\ seen'[o] = seen[o] /\ permit'[o] = permit[o]
    BY <1>3 DEF Inv, TypeOK
  <2> QED
    BY <2>1 DEF Inv
<1>4. \A o \in Request : Sound(o, req'[o], metrics'[o], seen'[o], permit'[o], now')
  BY <1>2, <1>3
<1> QED
  BY <1>1, <1>4 DEF Inv

\* The same for a step that changes nothing but the task.
LEMMA TaskStep ==
  ASSUME Inv, NEW r \in Request, UNCHANGED <<circuit, permit, now, metrics, seen>>,
         NEW q \in Tasks, set(r, q), Sound(r, q, metrics[r], seen[r], permit[r], now)
  PROVE  Inv'
<1>1. C!TypeOK'
  BY DEF Inv, TypeOK, C!TypeOK
<1>2. metrics' = [metrics EXCEPT ![r] = metrics[r]] /\ seen' = [seen EXCEPT ![r] = seen[r]]
  BY DEF Inv, TypeOK
<1>3. metrics[r] \in Tallies /\ seen[r] \in Histories /\ req' = [req EXCEPT ![r] = q]
  BY DEF Inv, TypeOK, set
<1> QED
  BY <1>1, <1>2, <1>3, OwnStep

----------------------------------------------------------------------------
\* A hop is entered with budget left, or fails without having called anyone.
LEMMA EnterHopInv == ASSUME Inv, NEW r \in Request, EnterHop(r) PROVE Inv'
<1>0. PICK q \in Tasks, m \in Tallies, w \in Histories, p \in C!Permits \cup {NoPermit}, n \in Nat :
        /\ q = req[r] /\ m = metrics[r] /\ w = seen[r] /\ p = permit[r] /\ n = now
        /\ Sound(r, q, m, w, p, n)
  BY Facts
<1>1. q.pc = "hop" /\ UNCHANGED <<circuit, permit, now, metrics, seen>>
  BY <1>0 DEF EnterHop, at
<1>2. CASE ~exhausted(r) /\ set(r, [req[r] EXCEPT !.pc = "admit"])
  <2>1. [q EXCEPT !.pc = "admit"] \in Tasks
    BY DEF Tasks, Pcs
  <2>2. Sound(r, [q EXCEPT !.pc = "admit"], m, w, p, n)
    BY <1>0, <1>1, <1>2, BudgetPositive DEF exhausted, Sound, Accounted, Expiries, Counts, OnRoute, Permitted, Running, Provenance, fresh, retrying, Throttled, Switched, Patient, Honest, Tasks, Histories, Tallies
  <2> QED
    BY <1>0, <1>1, <1>2, <2>1, <2>2, TaskStep
<1>3. CASE exhausted(r) /\ hop_error(r, Failure("ApiCallFailed"))
  <2> DEFINE e == Failure("ApiCallFailed")
  <2>1. e \in Results
    BY MadeUp DEF ErrorKinds, TransientKinds
  <2>2. [q EXCEPT !.pc = "failed", !.err = e] \in Tasks
    BY <2>1 DEF Tasks, Pcs
  <2>4. q.hop > 1
    BY <1>0, <1>1, <1>3, BudgetPositive DEF exhausted, Sound, Accounted, Tasks, OnRoute
  <2>3. Sound(r, [q EXCEPT !.pc = "failed", !.err = e], m, w, p, n)
    BY <1>0, <1>1, <2>1, <2>4, BudgetPositive DEF Sound, Accounted, Expiries, Counts, OnRoute, Permitted, Running, Provenance, fresh, retrying, Throttled, Switched, Patient, Honest, Tasks, Histories, Tallies
  <2> QED
    BY <1>0, <1>1, <1>3, <2>2, <2>3, TaskStep DEF hop_error
<1> QED
  BY <1>2, <1>3 DEF EnterHop

----------------------------------------------------------------------------
\* The circuit operations keep the types of the registry.
LEMMA CompleteType ==
  ASSUME NEW s \in C!CircuitStates, NEW g \in Nat, NEW kind \in {"Closed", "Probe"},
         NEW outcome \in C!Outcomes, NEW n \in Nat
  PROVE  C!complete(s, g, kind, outcome, n) \in C!CircuitStates
<1>1. C!settled(s, kind, outcome, n) \in C!CircuitStates
  BY RegistryAssumption DEF C!settled, C!set_open, C!close_circuit, C!trips, C!Threshold,
     C!CircuitStates, C!Phases, C!Outcomes
<1> QED
  BY <1>1 DEF C!complete

\* The permit of r is gone; nobody else's has changed.
Released(r) ==
    /\ C!TypeOK' /\ now' = now /\ permit'[r] = NoPermit
    /\ \A o \in Request : o # r => permit'[o] = permit[o]

\* Every way to give a permit back does so.
LEMMA Releases ==
  ASSUME Inv, NEW r \in Request,
         \/ drop_permit(r) \/ C!Drop(r) \/ \E outcome \in C!Outcomes : C!Settle(r, outcome)
  PROVE  Released(r)
<1>0. C!TypeOK
  BY DEF Inv, TypeOK
<1>1. CASE C!Drop(r)
  <2>1. permit[r] \in C!Permits
    BY <1>0, <1>1 DEF C!Drop, C!Holds, C!TypeOK
  <2>2. C!release_probe(circuit[permit[r].target], permit[r].generation) \in C!CircuitStates
    BY <1>0, <2>1 DEF C!release_probe, C!CircuitStates, C!Phases, C!TypeOK, C!Permits
  <2> QED
    BY <1>0, <1>1, <2>2 DEF Released, C!Drop, C!TypeOK
<1>2. ASSUME NEW outcome \in C!Outcomes, C!Settle(r, outcome) PROVE Released(r)
  <2>1. permit[r] \in C!Permits
    BY <1>0, <1>2 DEF C!Settle, C!Holds, C!TypeOK
  <2>2. C!complete(circuit[permit[r].target], permit[r].generation, permit[r].kind, outcome, now)
          \in C!CircuitStates
    BY <1>0, <2>1, CompleteType DEF C!TypeOK, C!Permits
  <2> QED
    BY <1>0, <1>2, <2>2 DEF Released, C!Settle, C!TypeOK
<1>3. CASE UNCHANGED <<circuit, permit, now>> /\ ~Holds(r)
  BY <1>0, <1>3 DEF Released, Holds, C!TypeOK
<1> QED
  BY <1>1, <1>2, <1>3 DEF drop_permit

\* A task that ends, has its last call recorded, counts its expiry and answers
\* honestly leaves everything in order.
LEMMA EndStep ==
  ASSUME Inv, NEW r \in Request, Released(r), UNCHANGED seen,
         NEW result \in Results, finish(r, result),
         NEW m \in Tallies, metrics' = [metrics EXCEPT ![r] = m],
         m.attempts = req[r].started, Counts(result, m.deadlines), Answerable(result, seen[r])
  PROVE  Inv'
<1>0. PICK q \in Tasks, w \in Histories, p \in C!Permits \cup {NoPermit}, n \in Nat :
        /\ q = req[r] /\ w = seen[r] /\ p = permit[r] /\ n = now
        /\ Sound(r, q, metrics[r], w, p, n)
  BY Facts
<1>1. PICK f \in Tasks : f = [q EXCEPT !.pc = "done", !.result = result]
  BY DEF Tasks, Pcs
<1>2. Accounted(f, m) /\ Expiries(f, m)
  <2>1. Accounted(f, m)
    BY <1>0, <1>1, BudgetPositive DEF Sound, Accounted, Tallies, Tasks
  <2>2. Expiries(f, m)
    BY <1>0, <1>1, BudgetPositive DEF Sound, Expiries, Counts, Tallies, Tasks
  <2> QED
    BY <2>1, <2>2
<1>3. OnRoute(r, f) /\ Permitted(r, f, NoPermit) /\ Switched(r, f, w)
  BY <1>0, <1>1 DEF Sound, OnRoute, Permitted, Running, Switched, Tasks
<1>4. Provenance(f, w) /\ Throttled(f, w)
  <2>1. Provenance(f, w)
    BY <1>0, <1>1 DEF Sound, Provenance, fresh, retrying, Tasks
  <2>2. Throttled(f, w)
    BY <1>0, <1>1 DEF Sound, Throttled, retrying, Tasks
  <2> QED
    BY <2>1, <2>2
<1>5. Patient(r, f, w, n) /\ Honest(f, w)
  BY <1>0, <1>1 DEF Sound, Patient, Honest, Answerable, Tasks
<1>6. seen' = [seen EXCEPT ![r] = w] /\ req' = [req EXCEPT ![r] = f]
  BY <1>0, <1>1 DEF Inv, TypeOK, finish, set
<1> QED
  BY <1>0, <1>2, <1>3, <1>4, <1>5, <1>6, OwnStep DEF Released, Sound

\* Every expiry noticed outside a call is answered and counted.
LEMMA DeadlineExceededInv ==
  ASSUME Inv, NEW r \in Request, req[r].pc \notin {"done", "calling"},
         deadline_exceeded(r), UNCHANGED seen
  PROVE  Inv'
<1>0. req[r] \in Tasks /\ metrics[r] \in Tallies /\ Accounted(req[r], metrics[r]) /\ Expiries(req[r], metrics[r])
  BY Facts DEF Sound
<1>1. PICK m \in Tallies : m = [metrics[r] EXCEPT !.deadlines = @ + 1]
  BY <1>0, Counting
<1>2. metrics' = [metrics EXCEPT ![r] = m]
  BY <1>1 DEF deadline_exceeded
<1>3. m.attempts = req[r].started
  BY <1>0, <1>1 DEF Accounted, Tallies, Tasks
<1>4. Counts(Expired, m.deadlines)
  BY <1>0, <1>1 DEF Counts, Expiries, NoError, Expired, Failure, Tallies
<1>5. finish(r, Expired) /\ Released(r) /\ Expired \in Results
  BY Releases, MadeUp DEF deadline_exceeded
<1>6. Expired.kind = "DeadlineExceeded"
  BY DEF Expired, Failure
<1>7. Answerable(Expired, seen[r])
  BY <1>6 DEF Answerable, TransientKinds
<1> QED
  BY <1>2, <1>3, <1>4, <1>5, <1>7, EndStep

\* An expiry during a call also ends the call; a dropped task only ends it.
LEMMA CallEndsInv ==
  ASSUME Inv, NEW r \in Request, CallExpired(r) \/ Cancel(r)
  PROVE  Inv'
<1>0. /\ req[r] \in Tasks /\ metrics[r] \in Tallies
      /\ Accounted(req[r], metrics[r]) /\ Expiries(req[r], metrics[r])
  BY Facts DEF Sound
<1>1. UNCHANGED seen /\ drop_permit(r) /\ req[r].pc \in {"calling", "sleep"}
  BY DEF CallExpired, Cancel, at
<1>2. Released(r)
  BY <1>1, Releases
<1>3. Expired \in Results /\ Cancelled \in Results /\ Expired # Cancelled
  BY MadeUp DEF Expired, Cancelled, Failure
<1>4. /\ Answerable(Expired, seen[r]) /\ Counts(Expired, 1)
      /\ Answerable(Cancelled, seen[r]) /\ Counts(Cancelled, 0)
  BY <1>3 DEF Answerable, Counts, Expired, Cancelled, Failure, TransientKinds
<1>5. metrics[r].deadlines = 0
  BY <1>0, <1>1 DEF Expiries, Counts, NoError, Expired, Failure
<1>6. CASE CallExpired(r)
  <2>1. PICK m \in Tallies : m = [metrics[r] EXCEPT !.attempts = @ + 1, !.deadlines = @ + 1]
    BY <1>0, Counting
  <2>2. metrics' = [metrics EXCEPT ![r] = m]
    BY <1>0, <1>6, <2>1 DEF CallExpired, Inv, TypeOK, Tallies
  <2>3. m.attempts = req[r].started /\ m.deadlines = 1
    BY <1>0, <1>5, <1>6, <2>1 DEF CallExpired, at, Accounted, Tallies, Tasks
  <2>4. finish(r, Expired)
    BY <1>6 DEF CallExpired
  <2> QED
    BY <1>1, <1>2, <1>3, <1>4, <2>2, <2>3, <2>4, EndStep
<1>7. CASE Cancel(r)
  <2>1. PICK m \in Tallies : m = IF at(r, "calling") THEN [metrics[r] EXCEPT !.attempts = @ + 1] ELSE metrics[r]
    BY <1>0, Counting
  <2>2. metrics' = [metrics EXCEPT ![r] = m]
    BY <1>7, <2>1 DEF Cancel, Inv, TypeOK
  <2>3. m.attempts = req[r].started /\ m.deadlines = 0
    BY <1>0, <1>1, <1>5, <2>1 DEF at, Accounted, Tallies, Tasks
  <2>4. finish(r, Cancelled)
    BY <1>7 DEF Cancel
  <2> QED
    BY <1>1, <1>2, <1>3, <1>4, <2>2, <2>3, <2>4, EndStep
<1> QED
  BY <1>6, <1>7

\* A task that ends with no permit and nothing left to record.
LEMMA PlainEnd ==
  ASSUME Inv, NEW r \in Request, UNCHANGED <<circuit, permit, now, metrics, seen>>,
         req[r].pc \notin {"done", "calling"} \cup Running,
         NEW result \in Results, result # Expired, finish(r, result), Answerable(result, seen[r])
  PROVE  Inv'
<1>0. /\ req[r] \in Tasks /\ metrics[r] \in Tallies
      /\ Accounted(req[r], metrics[r]) /\ Expiries(req[r], metrics[r]) /\ ~Holds(r)
  BY Facts DEF Sound, Permitted, Holds
<1>1. drop_permit(r)
  BY <1>0 DEF drop_permit
<1>2. Released(r)
  BY <1>1, Releases
<1>3. metrics' = [metrics EXCEPT ![r] = metrics[r]]
  BY DEF Inv, TypeOK
<1>4. metrics[r].attempts = req[r].started /\ Counts(result, metrics[r].deadlines)
  BY <1>0 DEF Counts, Accounted, Expiries, NoError, Expired, Failure, Tallies, Tasks
<1> QED
  BY <1>0, <1>2, <1>3, <1>4, EndStep

----------------------------------------------------------------------------
\* A request starts, wakes up, or is turned away by an open circuit.
LEMMA PlainStepsInv ==
  ASSUME Inv, NEW r \in Request, Start(r) \/ Wake(r) \/ AdmitReject(r)
  PROVE  Inv'
<1>0. PICK q \in Tasks, m \in Tallies, w \in Histories, p \in C!Permits \cup {NoPermit}, n \in Nat :
        /\ q = req[r] /\ m = metrics[r] /\ w = seen[r] /\ p = permit[r] /\ n = now
        /\ Sound(r, q, m, w, p, n)
  BY Facts
<1>1. UNCHANGED <<circuit, permit, now, metrics, seen>>
  BY DEF Start, Wake, AdmitReject
<1>2. CASE Start(r)
  <2>1. PICK f \in Tasks : f = [q EXCEPT !.pc = "hop"]
    BY DEF Tasks, Pcs
  <2>2. Sound(r, f, m, w, p, n)
    BY <1>0, <1>2, <2>1 DEF Start, at, Sound, Accounted, Expiries, OnRoute, Permitted, Running, Provenance,
       fresh, retrying, Throttled, Switched, Patient, Honest, Tasks, Histories
  <2> QED
    BY <1>0, <1>1, <1>2, <2>1, <2>2, TaskStep DEF Start
<1>3. CASE Wake(r)
  <2>1. PICK f \in Tasks : f = [q EXCEPT !.pc = "launch"]
    BY DEF Tasks, Pcs
  <2>0. q.pc = "sleep" /\ n >= q.wake
    BY <1>0, <1>3 DEF Wake, at
  <2>2. Sound(r, f, m, w, p, n)
    <3>1. Accounted(f, m) /\ Expiries(f, m) /\ OnRoute(r, f) /\ Permitted(r, f, p) /\ Honest(f, w)
      <4>1. Accounted(f, m)
        BY <1>0, <2>0, <2>1 DEF Sound, Accounted, Tasks
      <4>2. Expiries(f, m)
        BY <1>0, <2>0, <2>1 DEF Sound, Expiries, Tasks
      <4>3. OnRoute(r, f)
        BY <1>0, <2>0, <2>1 DEF Sound, OnRoute, Tasks
      <4>4. Permitted(r, f, p)
        BY <1>0, <2>0, <2>1 DEF Sound, Permitted, Running, Tasks
      <4>5. Honest(f, w)
        BY <1>0, <2>0, <2>1 DEF Sound, Honest, Tasks
      <4> QED
        BY <4>1, <4>2, <4>3, <4>4, <4>5
    <3>2. Provenance(f, w) /\ Throttled(f, w) /\ Switched(r, f, w)
      <4>1. Provenance(f, w)
        BY <1>0, <2>0, <2>1 DEF Sound, Provenance, Reported, fresh, retrying, Tasks, OnRoute
      <4>2. Throttled(f, w)
        BY <1>0, <2>0, <2>1 DEF Sound, Throttled, retrying, Tasks, OnRoute
      <4>3. Switched(r, f, w)
        BY <1>0, <2>0, <2>1 DEF Sound, Switched, Tasks, OnRoute
      <4> QED
        BY <4>1, <4>2, <4>3
    <3>3. Patient(r, f, w, n)
      BY <1>0, <2>0, <2>1 DEF Sound, Patient, Tasks, Histories
    <3> QED
      BY <3>1, <3>2, <3>3 DEF Sound
  <2> QED
    BY <1>0, <1>1, <1>3, <2>1, <2>2, TaskStep DEF Wake
<1>4. CASE AdmitReject(r)
  <2>1. PICK f \in Tasks : f = [q EXCEPT !.pc = "failed", !.err = CircuitOpen]
    BY MadeUp DEF Tasks, Pcs
  <2>2. Sound(r, f, m, w, p, n)
    BY <1>0, <1>4, <2>1 DEF AdmitReject, at, Sound, Accounted, Expiries, OnRoute, Permitted, Running, Provenance,
       fresh, retrying, Throttled, Switched, Patient, Honest, Tasks, Histories
  <2> QED
    BY <1>0, <1>1, <1>4, <2>1, <2>2, TaskStep DEF AdmitReject, hop_error
<1> QED
  BY <1>2, <1>3, <1>4

\* Admission hands the hop a permit of its target; a probe comes without retries.
LEMMA AdmitInv ==
  ASSUME Inv, NEW r \in Request, AdmitAllow(r) \/ AdmitProbe(r)
  PROVE  Inv'
<1>0. PICK q \in Tasks, m \in Tallies, w \in Histories, p \in C!Permits \cup {NoPermit}, n \in Nat :
        /\ q = req[r] /\ m = metrics[r] /\ w = seen[r] /\ p = permit[r] /\ n = now
        /\ Sound(r, q, m, w, p, n)
  BY Facts
<1>1. /\ q.pc = "admit" /\ target(r) = Route[r][q.hop] /\ target(r) \in Target
      /\ UNCHANGED <<now, metrics, seen>> /\ C!TypeOK
  <2>1. q.pc = "admit" /\ UNCHANGED <<now, metrics, seen>>
    BY <1>0 DEF AdmitAllow, AdmitProbe, at, C!Allow, C!Probe
  <2>2. q.hop \in 1 .. Len(Route[r])
    BY <1>0, <2>1, Facts DEF Sound, OnRoute, Tasks
  <2>3. Route[r] \in Seq(Target)
    BY ExecutorAssumption
  <2> QED
    BY <1>0, <2>1, <2>2, <2>3 DEF target, Inv, TypeOK
<1>2. PICK g \in C!Permits, retries \in Nat :
        /\ g.target = target(r) /\ permit' = [permit EXCEPT ![r] = g] /\ C!TypeOK'
        /\ g.kind = "Probe" => retries = 0
        /\ admitted(r, retries)
  <2>1. CASE AdmitAllow(r)
    <3>1. PICK g \in C!Permits : g = [target |-> target(r), generation |-> circuit[target(r)].generation, kind |-> "Closed"]
      BY <1>1 DEF C!TypeOK, C!Permits, C!CircuitStates
    <3>2. permit' = [permit EXCEPT ![r] = g] /\ UNCHANGED <<circuit, now>> /\ admitted(r, MaxRetries)
      BY <2>1, <3>1 DEF AdmitAllow, C!Allow
    <3>3. C!TypeOK'
      BY <1>1, <3>2 DEF C!TypeOK
    <3>4. g.target = target(r) /\ g.kind = "Closed"
      BY <3>1
    <3> QED
      BY <3>2, <3>3, <3>4, BudgetPositive
  <2>2. CASE AdmitProbe(r)
    <3>0. circuit[target(r)].generation + 1 \in Nat
      BY <1>1 DEF C!TypeOK, C!CircuitStates
    <3>1. PICK g \in C!Permits : g = [target |-> target(r), generation |-> circuit[target(r)].generation + 1, kind |-> "Probe"]
      BY <1>1, <3>0 DEF C!Permits
    <3>2. /\ permit' = [permit EXCEPT ![r] = g] /\ now' = now /\ admitted(r, 0)
          /\ circuit' = [circuit EXCEPT ![target(r)] = C!start_probe(circuit[target(r)])]
      BY <2>2, <3>1 DEF AdmitProbe, C!Probe
    <3>3. \A s \in C!CircuitStates : C!start_probe(s) \in C!CircuitStates
      BY DEF C!start_probe, C!CircuitStates, C!Phases
    <3>4. C!TypeOK'
      BY <1>1, <3>2, <3>3 DEF C!TypeOK
    <3>5. g.target = target(r)
      BY <3>1
    <3> QED
      BY <3>2, <3>4, <3>5
  <2> QED
    BY <2>1, <2>2
<1>3. PICK f \in Tasks : f = [q EXCEPT !.pc = "loop", !.attempt = 0, !.retries = retries, !.last = NoError]
  BY MadeUp DEF Tasks, Pcs
<1>4. Sound(r, f, m, w, g, n)
  <2>1. g # NoPermit
    BY RegistryAssumption
  <2>2. Permitted(r, f, g)
    BY <1>0, <1>1, <1>2, <1>3, <2>1 DEF Sound, Permitted, Running, Tasks
  <2>3. Accounted(f, m) /\ Expiries(f, m) /\ OnRoute(r, f) /\ Honest(f, w)
    <3>1. Accounted(f, m)
      BY <1>0, <1>1, <1>3 DEF Sound, Accounted, Tasks
    <3>2. Expiries(f, m)
      BY <1>0, <1>1, <1>3 DEF Sound, Expiries, Tasks
    <3>3. OnRoute(r, f)
      BY <1>0, <1>1, <1>3 DEF Sound, OnRoute, Tasks
    <3>4. Honest(f, w)
      BY <1>0, <1>1, <1>3 DEF Sound, Honest, Tasks
    <3> QED
      BY <3>1, <3>2, <3>3, <3>4
  <2>4. Provenance(f, w) /\ Throttled(f, w) /\ Switched(r, f, w) /\ Patient(r, f, w, n)
    <3>1. Provenance(f, w)
      BY <1>0, <1>1, <1>3 DEF Sound, Provenance, fresh, retrying, Tasks
    <3>2. Throttled(f, w)
      BY <1>0, <1>1, <1>3 DEF Sound, Throttled, retrying, Tasks
    <3>3. Switched(r, f, w)
      BY <1>0, <1>1, <1>3 DEF Sound, Switched, Tasks
    <3>4. Patient(r, f, w, n)
      BY <1>0, <1>1, <1>3 DEF Sound, Patient, Tasks
    <3> QED
      BY <3>1, <3>2, <3>3, <3>4
  <2> QED
    BY <2>2, <2>3, <2>4 DEF Sound
<1>5. permit'[r] = g /\ \A o \in Request : o # r => permit'[o] = permit[o]
  BY <1>1, <1>2 DEF C!TypeOK
<1>6. /\ req' = [req EXCEPT ![r] = f] /\ metrics' = [metrics EXCEPT ![r] = m]
      /\ seen' = [seen EXCEPT ![r] = w]
  BY <1>0, <1>1, <1>2, <1>3 DEF admitted, set, Inv, TypeOK
<1>7. Sound(r, f, m, w, permit'[r], now)
  BY <1>0, <1>4, <1>5
<1> QED
  BY <1>1, <1>2, <1>5, <1>6, <1>7, OwnStep

\* The attempt loop calls again only within retries and budget; when it gives up
\* it has an error of this hop to give, for the first call always fits.
LEMMA BeginAttemptInv == ASSUME Inv, NEW r \in Request, BeginAttempt(r) PROVE Inv'
<1>0. PICK q \in Tasks, m \in Tallies, w \in Histories, p \in C!Permits \cup {NoPermit}, n \in Nat :
        /\ q = req[r] /\ m = metrics[r] /\ w = seen[r] /\ p = permit[r] /\ n = now
        /\ Sound(r, q, m, w, p, n)
  BY Facts
<1>1. q.pc = "loop" /\ UNCHANGED <<circuit, permit, now, metrics, seen>>
  BY <1>0 DEF BeginAttempt, at
<1> DEFINE over == q.attempt > q.retries \/ q.started >= Budget
<1>2. CASE over
  <2>1. q.attempt > 0
    BY <1>0, <1>1, <1>2, BudgetPositive DEF Sound, Accounted, Tasks
  <2>2. Reported(q.last, q, w)
    BY <1>0, <1>1, <2>1 DEF Sound, Provenance, retrying
  <2>3. q.last # NoError
    BY <2>2 DEF Reported, Faults, NoError, Failure, TransientKinds
  <2>4. attempts_error(r, q.last)
    BY <1>0, <1>2, <2>3 DEF BeginAttempt, exhausted
  <2>5. PICK f \in Tasks : f = [q EXCEPT !.pc = "settle", !.err = q.last]
    BY DEF Tasks, Pcs
  <2>6. Accounted(f, m) /\ Expiries(f, m) /\ OnRoute(r, f) /\ Permitted(r, f, p) /\ Honest(f, w)
    <3>1. Accounted(f, m)
      BY <1>0, <1>1, <2>5 DEF Sound, Accounted, Tasks
    <3>2. Expiries(f, m)
      BY <1>0, <1>1, <2>5 DEF Sound, Expiries, Tasks
    <3>3. OnRoute(r, f)
      BY <1>0, <1>1, <2>5 DEF Sound, OnRoute, Tasks
    <3>4. Permitted(r, f, p)
      BY <1>0, <1>1, <2>5 DEF Sound, Permitted, Running, Tasks
    <3>5. Honest(f, w)
      BY <1>0, <1>1, <2>5 DEF Sound, Honest, Tasks
    <3> QED
      BY <3>1, <3>2, <3>3, <3>4, <3>5
  <2>7. Provenance(f, w) /\ Throttled(f, w) /\ Switched(r, f, w) /\ Patient(r, f, w, n)
    <3>1. Provenance(f, w)
      BY <1>0, <1>1, <2>1, <2>2, <2>5 DEF Sound, Provenance, Reported, fresh, retrying, Tasks
    <3>2. Throttled(f, w)
      BY <1>0, <1>1, <2>1, <2>2, <2>5 DEF Sound, Throttled, retrying, Tasks
    <3>3. Switched(r, f, w)
      BY <1>0, <1>1, <2>1, <2>2, <2>5 DEF Sound, Switched, Tasks
    <3>4. Patient(r, f, w, n)
      BY <1>0, <1>1, <2>1, <2>2, <2>5 DEF Sound, Patient, owed, Tasks
    <3> QED
      BY <3>1, <3>2, <3>3, <3>4
  <2> QED
    BY <1>0, <1>1, <2>4, <2>5, <2>6, <2>7, TaskStep DEF attempts_error, Sound
<1>3. ASSUME ~over, NEW pc \in {"launch", "delay"}, pc = "launch" <=> q.attempt = 0,
             set(r, [q EXCEPT !.pc = pc])
      PROVE  Inv'
  <2>1. PICK f \in Tasks : f = [q EXCEPT !.pc = pc]
    BY DEF Tasks, Pcs
  <2>2. Accounted(f, m)
    BY <1>0, <1>1, <1>3, <2>1, BudgetPositive DEF Sound, Accounted, Tasks
  <2>5. Expiries(f, m) /\ OnRoute(r, f) /\ Honest(f, w)
    <3>1. Expiries(f, m)
      BY <1>0, <1>1, <1>3, <2>1 DEF Sound, Expiries, Tasks
    <3>2. OnRoute(r, f)
      BY <1>0, <1>1, <1>3, <2>1 DEF Sound, OnRoute, Tasks
    <3>3. Honest(f, w)
      BY <1>0, <1>1, <1>3, <2>1 DEF Sound, Honest, Tasks
    <3> QED
      BY <3>1, <3>2, <3>3
  <2>3. Permitted(r, f, p)
    BY <1>0, <1>1, <1>3, <2>1 DEF Sound, Permitted, Running, Tasks
  <2>4. Provenance(f, w) /\ Throttled(f, w) /\ Switched(r, f, w) /\ Patient(r, f, w, n)
    <3>1. Provenance(f, w)
      BY <1>0, <1>1, <1>3, <2>1 DEF Sound, Provenance, Reported, fresh, retrying, Tasks
    <3>2. Throttled(f, w)
      BY <1>0, <1>1, <1>3, <2>1 DEF Sound, Throttled, retrying, Tasks
    <3>3. Switched(r, f, w)
      BY <1>0, <1>1, <1>3, <2>1 DEF Sound, Switched, Tasks
    <3>4. Patient(r, f, w, n)
      <4>1. w.not_before <= n \/ (q.attempt > 0 /\ owed(q.last, w, n))
        BY <1>0, <1>1 DEF Sound, Patient
      <4>2. /\ f.pc \in {"launch", "delay"} /\ f.last = q.last /\ f.attempt = q.attempt
            /\ f.pc = "launch" => ~(q.attempt > 0)
        BY <1>3, <2>1 DEF Tasks
      <4> QED
        BY <4>1, <4>2 DEF Patient
    <3> QED
      BY <3>1, <3>2, <3>3, <3>4
  <2> QED
    BY <1>0, <1>1, <1>3, <2>1, <2>2, <2>3, <2>4, <2>5, TaskStep DEF Sound
<1>4. CASE ~over
  <2>1. q.attempt \in Nat /\ ~(req[r].attempt > req[r].retries \/ exhausted(r))
    BY <1>0, <1>4 DEF Tasks, exhausted
  <2>2. CASE q.attempt = 0
    <3>1. set(r, [q EXCEPT !.pc = "launch"])
      BY <1>0, <2>1, <2>2 DEF BeginAttempt
    <3> QED
      BY <1>3, <1>4, <2>2, <3>1
  <2>3. CASE q.attempt > 0
    <3>0. req[r].attempt # 0 /\ req[r].attempt > 0
      BY <1>0, <2>1, <2>3
    <3>1. set(r, [q EXCEPT !.pc = "delay"])
      BY <1>0, <2>1, <3>0 DEF BeginAttempt
    <3> QED
      BY <1>3, <1>4, <2>1, <2>3, <3>1
  <2> QED
    BY <2>1, <2>2, <2>3
<1> QED
  BY <1>2, <1>4

----------------------------------------------------------------------------
\* A planned wait is a provider's minimum as it was given, or some time of our own.
LEMMA Plans ==
  ASSUME NEW a \in Nat, NEW d \in Nat \cup {None}, NEW plan \in plan_retry_delay(a, d)
  PROVE  /\ plan.delay \in Nat
         /\ d # None => plan.delay = d
         /\ plan.provider_minimum => d > 0
<1>1. CASE d # None
  <2>1. PICK b \in BOOLEAN : b <=> d > 0
    OBVIOUS
  <2>2. plan = [delay |-> d, provider_minimum |-> b]
    <3>1. plan = [delay |-> d, provider_minimum |-> d > 0]
      BY <1>1 DEF plan_retry_delay
    <3>2. b = (d > 0)
      BY <2>1
    <3> QED
      BY <3>1, <3>2, Zenon
  <2> QED
    BY <1>1, <2>1, <2>2
<1>2. CASE d = None
  <2>1. PICK x \in jittered_backoff(a) : plan = [delay |-> x, provider_minimum |-> FALSE]
    BY <1>2 DEF plan_retry_delay
  <2>2. x \in Nat
    BY DEF jittered_backoff
  <2> QED
    BY <1>2, <2>1, <2>2
<1> QED
  BY <1>1, <1>2

\* A retry sleeps at least through the provider's minimum, or does not happen.
LEMMA PlanDelayInv == ASSUME Inv, NEW r \in Request, PlanDelay(r) PROVE Inv'
<1>0. PICK q \in Tasks, m \in Tallies, w \in Histories, p \in C!Permits \cup {NoPermit}, n \in Nat :
        /\ q = req[r] /\ m = metrics[r] /\ w = seen[r] /\ p = permit[r] /\ n = now
        /\ Sound(r, q, m, w, p, n)
  BY Facts
<1>1. q.pc = "delay" /\ q.attempt > 0 /\ UNCHANGED seen
  BY <1>0 DEF PlanDelay, at, Sound, OnRoute
<1>2. Reported(q.last, q, w) /\ q.last \in Results /\ q.last.retry_after \in Nat \cup {None}
  BY <1>0, <1>1 DEF Sound, Provenance, retrying, Tasks, Results
<1>3. PICK plan \in plan_retry_delay(q.attempt, q.last.retry_after) :
         LET verdict == evaluate_retry_delay(plan, remaining(Deadline[r], now)) IN
           \/ /\ verdict = "Sleep"
              /\ set(r, [req[r] EXCEPT !.pc = IF plan.delay = 0 THEN "launch" ELSE "sleep",
                                       !.wake = now + plan.delay])
              /\ UNCHANGED <<circuit, permit, now, metrics>>
           \/ /\ verdict = "ProviderDelayCannotFit"
              /\ attempts_error(r, req[r].last)
              /\ UNCHANGED <<circuit, permit, now, metrics>>
           \/ /\ verdict = "DeadlineExceeded"
              /\ deadline_exceeded(r)
  BY <1>0 DEF PlanDelay
<1>4. /\ plan.delay \in Nat
      /\ q.last.retry_after # None => plan.delay = q.last.retry_after
  BY <1>2, Plans DEF Tasks
<1>5. CASE /\ set(r, [req[r] EXCEPT !.pc = IF plan.delay = 0 THEN "launch" ELSE "sleep",
                                    !.wake = now + plan.delay])
           /\ UNCHANGED <<circuit, permit, now, metrics>>
  <2>1. PICK pc \in {"launch", "sleep"}, wake \in Nat :
          /\ pc = IF plan.delay = 0 THEN "launch" ELSE "sleep"
          /\ wake = n + plan.delay
    BY <1>4
  <2>2. PICK f \in Tasks : f = [q EXCEPT !.pc = pc, !.wake = wake]
    BY DEF Tasks, Pcs
  <2>3. Accounted(f, m) /\ Expiries(f, m) /\ OnRoute(r, f) /\ Honest(f, w)
    <3>1. Accounted(f, m)
      BY <1>0, <1>1, <2>2 DEF Sound, Accounted, Tasks
    <3>2. Expiries(f, m)
      BY <1>0, <1>1, <2>2 DEF Sound, Expiries, Tasks
    <3>3. OnRoute(r, f)
      BY <1>0, <1>1, <2>2 DEF Sound, OnRoute, Tasks
    <3>4. Honest(f, w)
      BY <1>0, <1>1, <2>2 DEF Sound, Honest, Tasks
    <3> QED
      BY <3>1, <3>2, <3>3, <3>4
  <2>4. Permitted(r, f, p)
    BY <1>0, <1>1, <2>2 DEF Sound, Permitted, Running, Tasks
  <2>5. Provenance(f, w) /\ Throttled(f, w) /\ Switched(r, f, w)
    <3>1. Provenance(f, w)
      BY <1>0, <1>1, <1>2, <2>2 DEF Sound, Provenance, Reported, fresh, retrying, Tasks
    <3>2. Throttled(f, w)
      BY <1>0, <1>1, <1>2, <2>2 DEF Sound, Throttled, retrying, Tasks
    <3>3. Switched(r, f, w)
      BY <1>0, <1>1, <1>2, <2>2 DEF Sound, Switched, Tasks
    <3> QED
      BY <3>1, <3>2, <3>3
  <2>6. w.not_before <= n \/ w.not_before <= n + plan.delay
    BY <1>0, <1>1, <1>2, <1>4 DEF Sound, Patient, owed, None
  <2>7. plan.delay = 0 => w.not_before <= n
    BY <1>0, <1>1, <1>2, <1>4 DEF Sound, Patient, owed, None
  <2>8. Patient(r, f, w, n)
    BY <1>1, <1>4, <2>1, <2>2, <2>6, <2>7 DEF Patient, Tasks, Histories
  <2>9. set(r, f) /\ Sound(r, f, m, w, p, n)
    BY <1>0, <1>5, <2>1, <2>2, <2>3, <2>4, <2>5, <2>8 DEF Sound
  <2> QED
    BY <1>0, <1>1, <1>5, <2>9, TaskStep
<1>6. CASE attempts_error(r, req[r].last) /\ UNCHANGED <<circuit, permit, now, metrics>>
  <2>1. PICK f \in Tasks : f = [q EXCEPT !.pc = "settle", !.err = q.last]
    BY <1>2 DEF Tasks, Pcs
  <2>2. Accounted(f, m) /\ Expiries(f, m) /\ OnRoute(r, f) /\ Permitted(r, f, p) /\ Honest(f, w)
    <3>1. Accounted(f, m)
      BY <1>0, <1>1, <2>1 DEF Sound, Accounted, Tasks
    <3>2. Expiries(f, m)
      BY <1>0, <1>1, <2>1 DEF Sound, Expiries, Tasks
    <3>3. OnRoute(r, f)
      BY <1>0, <1>1, <2>1 DEF Sound, OnRoute, Tasks
    <3>4. Permitted(r, f, p)
      BY <1>0, <1>1, <2>1 DEF Sound, Permitted, Running, Tasks
    <3>5. Honest(f, w)
      BY <1>0, <1>1, <2>1 DEF Sound, Honest, Tasks
    <3> QED
      BY <3>1, <3>2, <3>3, <3>4, <3>5
  <2>3. Provenance(f, w) /\ Throttled(f, w) /\ Switched(r, f, w) /\ Patient(r, f, w, n)
    <3>1. Provenance(f, w)
      BY <1>0, <1>1, <1>2, <2>1 DEF Sound, Provenance, Reported, fresh, retrying, Tasks
    <3>2. Throttled(f, w)
      BY <1>0, <1>1, <1>2, <2>1 DEF Sound, Throttled, retrying, Tasks
    <3>3. Switched(r, f, w)
      BY <1>0, <1>1, <1>2, <2>1 DEF Sound, Switched, Tasks
    <3>4. Patient(r, f, w, n)
      BY <1>0, <1>1, <1>2, <2>1 DEF Sound, Patient, owed, Tasks
    <3> QED
      BY <3>1, <3>2, <3>3, <3>4
  <2> QED
    BY <1>0, <1>1, <1>6, <2>1, <2>2, <2>3, TaskStep DEF attempts_error, Sound
<1>7. CASE deadline_exceeded(r)
  BY <1>0, <1>1, <1>7, DeadlineExceededInv
<1> QED
  BY <1>3, <1>5, <1>6, <1>7

\* A call starts within the budget; what it sees replaces what the last one saw.
LEMMA LaunchInv == ASSUME Inv, NEW r \in Request, Launch(r) PROVE Inv'
<1>0. PICK q \in Tasks, m \in Tallies, w \in Histories, p \in C!Permits \cup {NoPermit}, n \in Nat :
        /\ q = req[r] /\ m = metrics[r] /\ w = seen[r] /\ p = permit[r] /\ n = now
        /\ Sound(r, q, m, w, p, n)
  BY Facts
<1>1. q.pc = "launch" /\ UNCHANGED <<circuit, permit, now, metrics>>
  BY <1>0 DEF Launch, at
<1>2. PICK cutoff \in Nat : cutoff = attempt_cutoff(Deadline[r], now, AttemptTimeout)
  BY Facts, ExecutorAssumption DEF attempt_cutoff, min
<1>3. PICK f \in Tasks : f = [q EXCEPT !.pc = "calling", !.started = @ + 1, !.observed = NoError,
                                       !.cutoff = cutoff]
  <2>1. q.started + 1 \in Nat
    BY DEF Tasks
  <2>2. \A k \in Nat : [q EXCEPT !.pc = "calling", !.started = k, !.observed = NoError, !.cutoff = cutoff] \in Tasks
    BY MadeUp DEF Tasks, Pcs
  <2> QED
    BY <2>1, <2>2
<1>4. PICK v \in Histories : v = [w EXCEPT !.hop = q.hop, !.throttled = FALSE]
  BY DEF Histories, Tasks
<1>5. Accounted(f, m)
  BY <1>0, <1>1, <1>3, BudgetPositive DEF Sound, Accounted, Tasks, Tallies
<1>6. Expiries(f, m) /\ OnRoute(r, f) /\ Permitted(r, f, p) /\ Honest(f, v)
  <2>1. Expiries(f, m)
    BY <1>0, <1>1, <1>3 DEF Sound, Expiries, Tasks
  <2>2. OnRoute(r, f)
    BY <1>0, <1>1, <1>3 DEF Sound, OnRoute, Tasks
  <2>3. Permitted(r, f, p)
    BY <1>0, <1>1, <1>3 DEF Sound, Permitted, Running, Tasks
  <2>4. Honest(f, v)
    BY <1>0, <1>1, <1>3 DEF Sound, Honest, Tasks
  <2> QED
    BY <2>1, <2>2, <2>3, <2>4
<1>7. Provenance(f, v)
  BY <1>0, <1>1, <1>3, <1>4 DEF Sound, Provenance, Reported, fresh, retrying, Tasks, Histories
<1>8. Throttled(f, v) /\ Switched(r, f, v)
  BY <1>0, <1>1, <1>3, <1>4 DEF Sound, Throttled, retrying, Switched, Tasks, Histories
<1>9. Patient(r, f, v, n)
  BY <1>0, <1>1, <1>3, <1>4 DEF Sound, Patient, Tasks, Histories
<1>10. req' = [req EXCEPT ![r] = f] /\ metrics' = [metrics EXCEPT ![r] = m] /\ C!TypeOK'
  BY <1>0, <1>1, <1>2, <1>3 DEF Launch, set, Inv, TypeOK, C!TypeOK
<1>11. seen' = [seen EXCEPT ![r] = v]
  BY <1>0, <1>4 DEF Launch, Inv, TypeOK, Histories
<1>12. Sound(r, f, m, v, permit'[r], now)
  BY <1>0, <1>1, <1>5, <1>6, <1>7, <1>8, <1>9 DEF Sound
<1> QED
  BY <1>1, <1>10, <1>11, <1>12, OwnStep

\* Throttling is known to the attempt as soon as its headers are.
LEMMA ObserveInv == ASSUME Inv, NEW r \in Request, Observe(r) PROVE Inv'
<1>0. PICK q \in Tasks, m \in Tallies, w \in Histories, p \in C!Permits \cup {NoPermit}, n \in Nat :
        /\ q = req[r] /\ m = metrics[r] /\ w = seen[r] /\ p = permit[r] /\ n = now
        /\ Sound(r, q, m, w, p, n)
  BY Facts
<1>1. q.pc = "calling" /\ UNCHANGED <<circuit, permit, now, metrics>>
  BY <1>0 DEF Observe, at
<1>2. PICK d \in RetryAfters : set(r, [req[r] EXCEPT !.observed = Throttling(d)])
  BY DEF Observe
<1>3. PICK o \in Results : o = Throttling(d) /\ o # NoError
  <2>1. d \in Nat \cup {None}
    BY ExecutorAssumption
  <2>2. Throttling(d) \in Results
    BY <2>1 DEF Throttling, Results, ErrorKinds
  <2>3. Throttling(d).kind # NoError.kind
    BY DEF Throttling, NoError, Failure
  <2> QED
    BY <2>2, <2>3
<1>4. PICK f \in Tasks : f = [q EXCEPT !.observed = o]
  BY DEF Tasks
<1>5. PICK v \in Histories : v = [w EXCEPT !.throttled = TRUE]
  BY DEF Histories
<1>6. Accounted(f, m) /\ Expiries(f, m) /\ OnRoute(r, f) /\ Permitted(r, f, p) /\ Honest(f, v)
  <2>1. Accounted(f, m)
    BY <1>0, <1>1, <1>4 DEF Sound, Accounted, Tasks
  <2>2. Expiries(f, m)
    BY <1>0, <1>1, <1>4 DEF Sound, Expiries, Tasks
  <2>3. OnRoute(r, f)
    BY <1>0, <1>1, <1>4 DEF Sound, OnRoute, Tasks
  <2>4. Permitted(r, f, p)
    BY <1>0, <1>1, <1>4 DEF Sound, Permitted, Running, Tasks
  <2>5. Honest(f, v)
    BY <1>0, <1>1, <1>4 DEF Sound, Honest, Tasks
  <2> QED
    BY <2>1, <2>2, <2>3, <2>4, <2>5
<1>7. Provenance(f, v) /\ Switched(r, f, v) /\ Patient(r, f, v, n)
  <2>1. Provenance(f, v)
    BY <1>0, <1>1, <1>4, <1>5 DEF Sound, Provenance, Reported, fresh, retrying, Tasks, Histories
  <2>2. Switched(r, f, v)
    BY <1>0, <1>1, <1>4, <1>5 DEF Sound, Switched, Tasks, Histories
  <2>3. Patient(r, f, v, n)
    BY <1>0, <1>1, <1>4, <1>5 DEF Sound, Patient, Tasks, Histories
  <2> QED
    BY <2>1, <2>2, <2>3
<1>8. Throttled(f, v)
  BY <1>1, <1>3, <1>4, <1>5 DEF Throttled, Tasks, Histories
<1>9. /\ req' = [req EXCEPT ![r] = f] /\ metrics' = [metrics EXCEPT ![r] = m]
      /\ seen' = [seen EXCEPT ![r] = v] /\ C!TypeOK'
  BY <1>0, <1>1, <1>2, <1>3, <1>4, <1>5 DEF Observe, set, Inv, TypeOK, C!TypeOK
<1>10. Sound(r, f, m, v, permit'[r], now)
  BY <1>0, <1>1, <1>6, <1>7, <1>8 DEF Sound
<1> QED
  BY <1>1, <1>9, <1>10, OwnStep

----------------------------------------------------------------------------
\* A success in time is recorded and ends the hop.
LEMMA CallSucceededInv == ASSUME Inv, NEW r \in Request, CallSucceeded(r) PROVE Inv'
<1>0. PICK q \in Tasks, m \in Tallies, w \in Histories, p \in C!Permits \cup {NoPermit}, n \in Nat :
        /\ q = req[r] /\ m = metrics[r] /\ w = seen[r] /\ p = permit[r] /\ n = now
        /\ Sound(r, q, m, w, p, n)
  BY Facts
<1>1. q.pc = "calling" /\ q.observed = NoError /\ UNCHANGED <<circuit, permit, now, seen>>
  BY <1>0 DEF CallSucceeded, at
<1>2. PICK f \in Tasks : f = [q EXCEPT !.pc = "settle", !.err = Ok]
  BY MadeUp DEF Tasks, Pcs
<1>3. PICK k \in Tallies : k = [m EXCEPT !.attempts = @ + 1]
  BY Counting
<1>4. Accounted(f, k) /\ Expiries(f, k)
  <2>1. Accounted(f, k)
    BY <1>0, <1>1, <1>2, <1>3, BudgetPositive DEF Sound, Accounted, Tallies, Tasks
  <2>2. Expiries(f, k)
    BY <1>0, <1>1, <1>2, <1>3, BudgetPositive DEF Sound, Expiries, Tallies, Tasks
  <2> QED
    BY <2>1, <2>2
<1>5. OnRoute(r, f) /\ Permitted(r, f, p) /\ Honest(f, w) /\ Switched(r, f, w) /\ Patient(r, f, w, n)
  BY <1>0, <1>1, <1>2 DEF Sound, OnRoute, Permitted, Running, Honest, Switched, Patient, Tasks
<1>6. Provenance(f, w) /\ Throttled(f, w)
  <2>1. Provenance(f, w)
    BY <1>0, <1>1, <1>2 DEF Sound, Provenance, fresh, retrying, Tasks
  <2>2. Throttled(f, w)
    BY <1>0, <1>1, <1>2 DEF Sound, Throttled, retrying, Tasks
  <2> QED
    BY <2>1, <2>2
<1>7. /\ req' = [req EXCEPT ![r] = f] /\ metrics' = [metrics EXCEPT ![r] = k]
      /\ seen' = [seen EXCEPT ![r] = w] /\ C!TypeOK'
  BY <1>0, <1>1, <1>2, <1>3 DEF CallSucceeded, attempts_error, record_attempt, set, Inv, TypeOK, C!TypeOK
<1>8. Sound(r, f, k, w, permit'[r], now)
  BY <1>0, <1>1, <1>4, <1>5, <1>6 DEF Sound
<1> QED
  BY <1>1, <1>7, <1>8, OwnStep

\* A failing call ends with a provider's error, the cutoff, or the throttling it
\* has already seen, which is never taken for a transient failure.
LEMMA CallErrors ==
  ASSUME NEW r \in Request, req[r].observed \in {NoError} \cup {Throttling(d) : d \in RetryAfters},
         NEW e \in call_errors(r)
  PROVE  e \in Faults /\ (req[r].observed # NoError => e.kind \notin TransientKinds)
<1>1. \A k \in TransientKinds \cup {"Permanent"} : Failure(k) \in Faults
  BY DEF Failure, Faults, Results, ErrorKinds
<1>2. CASE req[r].observed = NoError
  <2>1. PICK k \in TransientKinds \cup {"Permanent"} : e = Failure(k)
    BY <1>2, ExecutorAssumption DEF call_errors, ErrorKinds, TransientKinds
  <2> QED
    BY <1>1, <1>2, <2>1
<1>3. CASE req[r].observed # NoError
  <2>1. PICK d \in RetryAfters : req[r].observed = Throttling(d)
    BY <1>3
  <2>2. e = Throttling(d) \/ e = Failure("Permanent")
    BY <1>3, <2>1 DEF call_errors
  <2>3. d \in Nat \cup {None}
    BY ExecutorAssumption
  <2>4. Throttling(d) \in Faults
    BY <2>3 DEF Throttling, Faults, Results, ErrorKinds
  <2>5. /\ Throttling(d).kind = "RateLimitExceeded" /\ Failure("Permanent").kind = "Permanent"
        /\ {"RateLimitExceeded", "Permanent"} \cap TransientKinds = {}
    BY DEF Throttling, Failure, TransientKinds
  <2> QED
    BY <1>1, <2>2, <2>4, <2>5
<1> QED
  BY <1>2, <1>3

\* A failed call is recorded, and its error is the request's to carry.
LEMMA CallFailedInv == ASSUME Inv, NEW r \in Request, CallFailed(r) PROVE Inv'
<1>0. PICK q \in Tasks, m \in Tallies, w \in Histories, p \in C!Permits \cup {NoPermit}, n \in Nat :
        /\ q = req[r] /\ m = metrics[r] /\ w = seen[r] /\ p = permit[r] /\ n = now
        /\ Sound(r, q, m, w, p, n)
  BY Facts
<1>1. q.pc = "calling" /\ UNCHANGED <<circuit, permit, now>> /\ record_attempt(r)
  BY <1>0 DEF CallFailed, at
<1>2. PICK e \in call_errors(r) :
         /\ IF is_retryable_error(e)
            THEN set(r, [req[r] EXCEPT !.pc = "judge", !.err = e])
            ELSE attempts_error(r, e)
         /\ seen' = [seen EXCEPT
              ![r].reply = e,
              ![r].primary = IF req[r].hop = 1 THEN e ELSE @,
              ![r].not_before = IF e.retry_after > 0 THEN now + e.retry_after ELSE @]
  BY DEF CallFailed
<1>3. e \in Faults /\ (q.observed # NoError => e.kind \notin TransientKinds)
  BY <1>0, CallErrors DEF Sound, Throttled
<1>4. PICK not_before \in Nat : not_before = IF e.retry_after > 0 THEN n + e.retry_after ELSE w.not_before
  BY <1>3 DEF Faults, Results, Histories, None
<1>5. PICK primary \in Results : primary = IF q.hop = 1 THEN e ELSE w.primary
  BY <1>3 DEF Faults, Histories
<1>6. PICK v \in Histories : v = [w EXCEPT !.reply = e, !.primary = primary, !.not_before = not_before]
  BY <1>3 DEF Faults, Histories
<1>7. PICK pc \in {"judge", "settle"} :
        /\ pc = IF is_retryable_error(e) THEN "judge" ELSE "settle"
        /\ set(r, [q EXCEPT !.pc = pc, !.err = e])
  BY <1>0, <1>2 DEF attempts_error
<1>8. PICK f \in Tasks : f = [q EXCEPT !.pc = pc, !.err = e]
  BY <1>3 DEF Faults, Tasks, Pcs
<1>9. PICK k \in Tallies : k = [m EXCEPT !.attempts = @ + 1]
  BY Counting
<1>10. Accounted(f, k) /\ Expiries(f, k)
  <2>1. Accounted(f, k)
    BY <1>0, <1>1, <1>8, <1>9, BudgetPositive DEF Sound, Accounted, Tallies, Tasks
  <2>2. Expiries(f, k)
    BY <1>0, <1>1, <1>8, <1>9, BudgetPositive DEF Sound, Expiries, Tallies, Tasks
  <2> QED
    BY <2>1, <2>2
<1>11. OnRoute(r, f) /\ Permitted(r, f, p) /\ Honest(f, v)
  BY <1>0, <1>1, <1>8 DEF Sound, OnRoute, Permitted, Running, Honest, Tasks
<1>12. /\ v.hop = q.hop /\ v.reply = e /\ v.primary = primary /\ v.not_before = not_before
       /\ f.hop = q.hop /\ f.err = e /\ f.pc = pc /\ f.primary = q.primary
  BY <1>0, <1>1, <1>6, <1>8 DEF Sound, Provenance, Tasks, Histories
<1>13. Reported(f.err, f, v)
  BY <1>3, <1>5, <1>6, <1>12 DEF Reported, Histories
<1>14. Provenance(f, v) /\ Switched(r, f, v)
  <2>1. q.hop > 1 => q.hop # 1 /\ primary = w.primary
    BY <1>5 DEF Tasks
  <2>2. q.hop > 1 => /\ f.primary.kind \in TransientKinds \cup {"CircuitOpen"}
                     /\ f.primary.kind \in TransientKinds => f.primary = v.primary
    BY <1>0, <1>12, <2>1 DEF Sound, Provenance
  <2> QED
    BY <1>12, <1>13, <2>2 DEF Provenance, Switched, fresh, retrying
<1>15. Throttled(f, v)
  BY <1>0, <1>1, <1>3, <1>6, <1>8, <1>12 DEF Sound, Throttled, retrying, Tasks, Histories
<1>16. Patient(r, f, v, n)
  <2>1. w.not_before <= n
    BY <1>0, <1>1 DEF Sound, Patient
  <2>2. e.retry_after > 0 => e.kind = "RateLimitExceeded" /\ pc = "judge"
    BY <1>3, <1>7 DEF Faults, None, is_retryable_error
  <2>3. e.retry_after \in Int
    BY <1>3 DEF Faults, Results, None
  <2>4. v.not_before <= n \/ (pc = "judge" /\ owed(e, v, n))
    <3>1. CASE e.retry_after > 0
      BY <1>4, <1>12, <2>2, <2>3, <3>1 DEF owed
    <3>2. CASE ~(e.retry_after > 0)
      BY <1>4, <1>12, <2>1, <3>2
    <3> QED
      BY <3>1, <3>2
  <2> QED
    BY <1>12, <2>4 DEF Patient
<1>17. req' = [req EXCEPT ![r] = f] /\ metrics' = [metrics EXCEPT ![r] = k] /\ C!TypeOK'
  BY <1>0, <1>1, <1>7, <1>8, <1>9 DEF record_attempt, set, Inv, TypeOK, C!TypeOK
<1>18. seen' = [seen EXCEPT ![r] = v]
  BY <1>0, <1>2, <1>4, <1>5, <1>6 DEF Inv, TypeOK, Histories
<1>19. Sound(r, f, k, v, permit'[r], now)
  BY <1>0, <1>1, <1>10, <1>11, <1>14, <1>15, <1>16 DEF Sound
<1> QED
  BY <1>1, <1>17, <1>18, <1>19, OwnStep

\* A retryable error ends the hop if the provider's minimum cannot fit, else it
\* is kept for the next attempt.
LEMMA JudgeInv == ASSUME Inv, NEW r \in Request, Judge(r) PROVE Inv'
<1>0. PICK q \in Tasks, m \in Tallies, w \in Histories, p \in C!Permits \cup {NoPermit}, n \in Nat :
        /\ q = req[r] /\ m = metrics[r] /\ w = seen[r] /\ p = permit[r] /\ n = now
        /\ Sound(r, q, m, w, p, n)
  BY Facts
<1>1. q.pc = "judge" /\ UNCHANGED <<circuit, permit, now, metrics, seen>>
  BY <1>0 DEF Judge, at
<1>2. CASE attempts_error(r, req[r].err)
  <2>1. PICK f \in Tasks : f = [q EXCEPT !.pc = "settle", !.err = q.err]
    BY DEF Tasks, Pcs
  <2>2. Accounted(f, m) /\ Expiries(f, m) /\ OnRoute(r, f) /\ Permitted(r, f, p) /\ Honest(f, w)
    <3>1. Accounted(f, m)
      BY <1>0, <1>1, <2>1 DEF Sound, Accounted, Tasks
    <3>2. Expiries(f, m)
      BY <1>0, <1>1, <2>1 DEF Sound, Expiries, Tasks
    <3>3. OnRoute(r, f)
      BY <1>0, <1>1, <2>1 DEF Sound, OnRoute, Tasks
    <3>4. Permitted(r, f, p)
      BY <1>0, <1>1, <2>1 DEF Sound, Permitted, Running, Tasks
    <3>5. Honest(f, w)
      BY <1>0, <1>1, <2>1 DEF Sound, Honest, Tasks
    <3> QED
      BY <3>1, <3>2, <3>3, <3>4, <3>5
  <2>3. Provenance(f, w) /\ Throttled(f, w) /\ Switched(r, f, w) /\ Patient(r, f, w, n)
    <3>1. Provenance(f, w)
      BY <1>0, <1>1, <2>1 DEF Sound, Provenance, Reported, fresh, retrying, Tasks
    <3>2. Throttled(f, w)
      BY <1>0, <1>1, <2>1 DEF Sound, Throttled, retrying, Tasks
    <3>3. Switched(r, f, w)
      BY <1>0, <1>1, <2>1 DEF Sound, Switched, Tasks
    <3>4. Patient(r, f, w, n)
      BY <1>0, <1>1, <2>1 DEF Sound, Patient, owed, Tasks
    <3> QED
      BY <3>1, <3>2, <3>3, <3>4
  <2> QED
    BY <1>0, <1>1, <1>2, <2>1, <2>2, <2>3, TaskStep DEF attempts_error, Sound
<1>3. CASE set(r, [req[r] EXCEPT !.pc = "loop", !.last = req[r].err, !.attempt = @ + 1])
  <2>1. PICK k \in Nat : k = q.attempt + 1 /\ k > 0
    BY DEF Tasks
  <2>2. PICK f \in Tasks : f = [q EXCEPT !.pc = "loop", !.last = q.err, !.attempt = k]
    BY DEF Tasks, Pcs
  <2>3. Accounted(f, m) /\ Expiries(f, m) /\ OnRoute(r, f) /\ Permitted(r, f, p) /\ Honest(f, w)
    <3>1. Accounted(f, m)
      BY <1>0, <1>1, <2>1, <2>2 DEF Sound, Accounted, Tasks
    <3>2. Expiries(f, m)
      BY <1>0, <1>1, <2>1, <2>2 DEF Sound, Expiries, Tasks
    <3>3. OnRoute(r, f)
      BY <1>0, <1>1, <2>1, <2>2 DEF Sound, OnRoute, Tasks
    <3>4. Permitted(r, f, p)
      BY <1>0, <1>1, <2>1, <2>2 DEF Sound, Permitted, Running, Tasks
    <3>5. Honest(f, w)
      BY <1>0, <1>1, <2>1, <2>2 DEF Sound, Honest, Tasks
    <3> QED
      BY <3>1, <3>2, <3>3, <3>4, <3>5
  <2>4. Provenance(f, w) /\ Throttled(f, w) /\ Switched(r, f, w) /\ Patient(r, f, w, n)
    <3>1. Provenance(f, w)
      BY <1>0, <1>1, <2>1, <2>2 DEF Sound, Provenance, Reported, fresh, retrying, Tasks
    <3>2. Throttled(f, w)
      BY <1>0, <1>1, <2>1, <2>2 DEF Sound, Throttled, retrying, Tasks
    <3>3. Switched(r, f, w)
      BY <1>0, <1>1, <2>1, <2>2 DEF Sound, Switched, Tasks
    <3>4. Patient(r, f, w, n)
      BY <1>0, <1>1, <2>1, <2>2 DEF Sound, Patient, owed, Tasks
    <3> QED
      BY <3>1, <3>2, <3>3, <3>4
  <2>5. set(r, f)
    BY <1>0, <1>3, <2>1, <2>2
  <2> QED
    BY <1>0, <1>1, <2>3, <2>4, <2>5, TaskStep DEF Sound
<1> QED
  BY <1>2, <1>3 DEF Judge

\* A hop reports to its circuit once: it settles its permit or drops it.
LEMMA ReportCases ==
  ASSUME Inv, NEW r \in Request, report(r)
  PROVE  /\ C!Drop(r) \/ \E outcome \in C!Outcomes : C!Settle(r, outcome)
         /\ C!Settle(r, "TransientFailure") \/ ~is_circuit_failure(req[r].err)
<1>1. {"Success", "TransientFailure", "Permanent"} = C!Outcomes
  BY DEF C!Outcomes
<1>2. CASE req[r].err = Ok
  <2>1. ~is_circuit_failure(req[r].err)
    BY <1>2 DEF Ok, Failure, is_circuit_failure, TransientKinds
  <2> QED
    BY <1>1, <1>2, <2>1 DEF report
<1>3. CASE req[r].err # Ok /\ is_circuit_failure(req[r].err)
  BY <1>1, <1>3 DEF report
<1>4. CASE req[r].err # Ok /\ ~is_circuit_failure(req[r].err)
  BY <1>1, <1>4 DEF report
<1> QED
  BY <1>2, <1>3, <1>4

\* A settled hop has given its permit back, and the request ends or looks on.
LEMMA SettleInv == ASSUME Inv, NEW r \in Request, Settle(r) PROVE Inv'
<1>0. PICK q \in Tasks, m \in Tallies, w \in Histories, p \in C!Permits \cup {NoPermit}, n \in Nat :
        /\ q = req[r] /\ m = metrics[r] /\ w = seen[r] /\ p = permit[r] /\ n = now
        /\ Sound(r, q, m, w, p, n)
  BY Facts
<1>1. q.pc = "settle" /\ UNCHANGED <<metrics, seen>> /\ report(r)
  BY <1>0 DEF Settle, at
<1>2. Released(r)
  BY <1>1, ReportCases, Releases
<1>3. metrics' = [metrics EXCEPT ![r] = m] /\ seen' = [seen EXCEPT ![r] = w]
  BY <1>0, <1>1 DEF Inv, TypeOK
<1>4. CASE finish(r, Ok)
  <2>1. m.attempts = req[r].started
    BY <1>0, <1>1 DEF Sound, Accounted, Tallies, Tasks
  <2>2. Counts(Ok, m.deadlines) /\ Answerable(Ok, seen[r]) /\ Ok \in Results
    BY <1>0, <1>1, MadeUp DEF Sound, Expiries, Counts, Answerable, Ok, Expired, NoError, Failure, TransientKinds
  <2> QED
    BY <1>1, <1>2, <1>3, <1>4, <2>1, <2>2, EndStep
<1>5. CASE q.err # Ok /\ set(r, [req[r] EXCEPT !.pc = "failed"])
  <2>1. PICK f \in Tasks : f = [q EXCEPT !.pc = "failed"]
    BY DEF Tasks, Pcs
  <2>2. Accounted(f, m) /\ Expiries(f, m) /\ OnRoute(r, f) /\ Permitted(r, f, NoPermit) /\ Honest(f, w)
    <3>1. Accounted(f, m)
      BY <1>0, <1>1, <2>1 DEF Sound, Accounted, Tasks
    <3>2. Expiries(f, m)
      BY <1>0, <1>1, <2>1 DEF Sound, Expiries, Tasks
    <3>3. OnRoute(r, f)
      BY <1>0, <1>1, <2>1 DEF Sound, OnRoute, Tasks
    <3>4. Permitted(r, f, NoPermit)
      BY <1>0, <1>1, <2>1 DEF Sound, Permitted, Running, Tasks
    <3>5. Honest(f, w)
      BY <1>0, <1>1, <2>1 DEF Sound, Honest, Tasks
    <3> QED
      BY <3>1, <3>2, <3>3, <3>4, <3>5
  <2>3. Provenance(f, w) /\ Throttled(f, w) /\ Switched(r, f, w) /\ Patient(r, f, w, n)
    <3>1. Provenance(f, w)
      BY <1>0, <1>1, <1>5, <2>1 DEF Sound, Provenance, Reported, fresh, retrying, Tasks
    <3>2. Throttled(f, w)
      BY <1>0, <1>1, <1>5, <2>1 DEF Sound, Throttled, retrying, Tasks
    <3>3. Switched(r, f, w)
      BY <1>0, <1>1, <1>5, <2>1 DEF Sound, Switched, Tasks
    <3>4. Patient(r, f, w, n)
      BY <1>0, <1>1, <1>5, <2>1 DEF Sound, Patient, Tasks
    <3> QED
      BY <3>1, <3>2, <3>3, <3>4
  <2>4. req' = [req EXCEPT ![r] = f]
    BY <1>0, <1>5, <2>1 DEF set
  <2>5. Sound(r, f, m, w, permit'[r], now)
    BY <1>0, <1>2, <2>2, <2>3 DEF Sound, Released
  <2> QED
    BY <1>2, <1>3, <2>4, <2>5, OwnStep DEF Released
<1> QED
  BY <1>0, <1>4, <1>5 DEF Settle

\* A failed hop ends the request with an error of its own, or hands over to the
\* fallbacks with the primary's error kept.
LEMMA HopFailedInv == ASSUME Inv, NEW r \in Request, HopFailed(r) PROVE Inv'
<1>0. PICK q \in Tasks, m \in Tallies, w \in Histories, p \in C!Permits \cup {NoPermit}, n \in Nat :
        /\ q = req[r] /\ m = metrics[r] /\ w = seen[r] /\ p = permit[r] /\ n = now
        /\ Sound(r, q, m, w, p, n)
  BY Facts
<1> DEFINE e == q.err
           first == IF q.hop = 1 THEN e ELSE q.primary
<1>1. q.pc = "failed" /\ UNCHANGED <<circuit, permit, now, metrics, seen>>
  BY <1>0 DEF HopFailed, at
<1>2. \/ Reported(e, q, w)
      \/ /\ w.hop < q.hop
         /\ e = CircuitOpen \/ (q.hop > 1 /\ e = Failure("ApiCallFailed"))
  BY <1>0, <1>1 DEF Sound, Provenance
<1>3. /\ q.hop \in Nat /\ q.hop >= 1 /\ q.hop <= Len(Route[r]) /\ e \in Results /\ q.primary \in Results
      /\ Len(Route[r]) \in Nat /\ w.hop \in Nat
  BY <1>0, <1>1, Facts DEF Sound, OnRoute, Tasks, Histories
<1>4. CircuitOpen.kind = "CircuitOpen" /\ Failure("ApiCallFailed").kind = "ApiCallFailed"
  BY DEF CircuitOpen, Failure
<1>5. CASE /\ e.kind = "RateLimitExceeded" \/ (q.hop = 1 /\ ~is_fallback_eligible(e))
           /\ finish(r, e)
  <2>1. Reported(e, q, w)
    BY <1>2, <1>4, <1>5 DEF is_fallback_eligible, TransientKinds
  <2>2. e # Expired
    BY <2>1 DEF Reported, Faults, Expired, Failure, TransientKinds
  <2>3. Answerable(e, w)
    BY <1>5, <2>1 DEF Reported, Answerable, is_fallback_eligible, TransientKinds
  <2> QED
    BY <1>0, <1>1, <1>3, <1>5, <2>2, <2>3, PlainEnd DEF Running
<1>6. ASSUME NEW hop \in Nat, hop > q.hop, NEW primary \in Results,
             hop <= Len(Route[r]) => is_fallback_eligible(e),
             primary.kind \in TransientKinds \cup {"CircuitOpen"},
             primary.kind \in TransientKinds => primary = w.primary,
             set(r, [q EXCEPT !.pc = "next", !.hop = hop, !.primary = primary])
      PROVE  Inv'
  <2>1. PICK f \in Tasks : f = [q EXCEPT !.pc = "next", !.hop = hop, !.primary = primary]
    BY DEF Tasks, Pcs
  <2>2. /\ f.pc = "next" /\ f.hop = hop /\ f.err = e /\ f.primary = primary /\ f.observed = q.observed
        /\ f.started = q.started /\ f.result = q.result
    BY <2>1 DEF Tasks
  <2>3. Accounted(f, m) /\ Expiries(f, m) /\ Permitted(r, f, p) /\ Honest(f, w)
    <3>1. Accounted(f, m)
      BY <1>0, <1>1, <2>2 DEF Sound, Accounted
    <3>2. Expiries(f, m)
      BY <1>0, <1>1, <2>2 DEF Sound, Expiries
    <3>3. Permitted(r, f, p)
      BY <1>0, <1>1, <2>2 DEF Sound, Permitted, Running
    <3>4. Honest(f, w)
      BY <1>0, <1>1, <2>2 DEF Sound, Honest
    <3> QED
      BY <3>1, <3>2, <3>3, <3>4
  <2>9. OnRoute(r, f)
    BY <1>3, <1>6, <2>2 DEF OnRoute
  <2>4. w.hop < hop
    BY <1>2, <1>3, <1>6 DEF Reported
  <2>5. Provenance(f, w) /\ Throttled(f, w)
    <3>1. Provenance(f, w)
      BY <1>0, <1>6, <2>2, <2>4 DEF Sound, Provenance, fresh, retrying
    <3>2. Throttled(f, w)
      BY <1>0, <1>6, <2>2, <2>4 DEF Sound, Throttled, retrying
    <3> QED
      BY <3>1, <3>2
  <2>6. Switched(r, f, w)
    <3>1. SUFFICES ASSUME hop <= Len(Route[r]), w.hop # 0, w.hop # hop PROVE w.reply.kind \in TransientKinds
      BY <2>2 DEF Switched
    <3>2. CASE Reported(e, q, w)
      BY <1>6, <3>1, <3>2 DEF Reported, Faults, is_fallback_eligible
    <3>3. CASE w.hop < q.hop
      BY <1>0, <1>1, <1>3, <3>1, <3>3 DEF Sound, Switched
    <3> QED
      BY <1>2, <3>2, <3>3
  <2>7. Patient(r, f, w, n)
    <3>1. hop <= Len(Route[r]) => e.kind # "RateLimitExceeded"
      BY <1>6 DEF is_fallback_eligible, TransientKinds
    <3>2. w.not_before <= n \/ e.kind = "RateLimitExceeded"
      BY <1>0, <1>1 DEF Sound, Patient
    <3> QED
      BY <1>3, <1>6, <2>2, <3>1, <3>2 DEF Patient
  <2>8. Sound(r, f, m, w, p, n)
    BY <2>3, <2>5, <2>6, <2>7, <2>9 DEF Sound
  <2> QED
    BY <1>0, <1>1, <1>6, <2>1, <2>8, TaskStep
<1>7. CASE q.hop > 1 /\ set(r, [q EXCEPT !.pc = "next", !.hop = Len(Route[r]) + 1])
  <2>1. /\ q.primary.kind \in TransientKinds \cup {"CircuitOpen"}
        /\ q.primary.kind \in TransientKinds => q.primary = w.primary
    BY <1>0, <1>7 DEF Sound, Provenance
  <2>2. PICK hop \in Nat : hop = Len(Route[r]) + 1 /\ hop > q.hop /\ ~(hop <= Len(Route[r]))
    BY <1>3
  <2>3. [q EXCEPT !.pc = "next", !.hop = hop] = [q EXCEPT !.pc = "next", !.hop = hop, !.primary = q.primary]
    BY DEF Tasks
  <2>4. set(r, [q EXCEPT !.pc = "next", !.hop = hop, !.primary = q.primary])
    BY <1>7, <2>2, <2>3
  <2> QED
    BY <1>3, <1>6, <2>1, <2>2, <2>4
<1>8. CASE /\ is_fallback_eligible(e)
           /\ set(r, [q EXCEPT !.pc = "next", !.hop = @ + 1, !.primary = first])
  <2>1. PICK primary \in Results : primary = first
    BY <1>3
  <2>2. /\ primary.kind \in TransientKinds \cup {"CircuitOpen"}
        /\ primary.kind \in TransientKinds => primary = w.primary
    <3>1. CASE q.hop = 1
      BY <1>2, <1>4, <1>8, <2>1, <3>1 DEF is_fallback_eligible, Reported, TransientKinds
    <3>2. CASE q.hop > 1
      BY <1>0, <1>3, <2>1, <3>2 DEF Sound, Provenance
    <3> QED
      BY <1>3, <3>1, <3>2
  <2>3. PICK hop \in Nat : hop = q.hop + 1 /\ hop > q.hop
    <3>1. q.hop + 1 \in Nat /\ q.hop + 1 > q.hop
      BY <1>3
    <3> QED
      BY <3>1
  <2>4. set(r, [q EXCEPT !.pc = "next", !.hop = hop, !.primary = primary])
    BY <1>8, <2>1, <2>3
  <2> QED
    BY <1>6, <1>8, <2>2, <2>3, <2>4
<1>9. provider_minimum_cannot_fit(e, remaining(Deadline[r], now)) => e.kind = "RateLimitExceeded"
  BY DEF provider_minimum_cannot_fit
<1> QED
  BY <1>0, <1>5, <1>7, <1>8, <1>9 DEF HopFailed

\* The fallback loop skips what cannot serve the request, and ends with the
\* primary's error.
LEMMA NextHopInv == ASSUME Inv, NEW r \in Request, NextHop(r) PROVE Inv'
<1>0. PICK q \in Tasks, m \in Tallies, w \in Histories, p \in C!Permits \cup {NoPermit}, n \in Nat :
        /\ q = req[r] /\ m = metrics[r] /\ w = seen[r] /\ p = permit[r] /\ n = now
        /\ Sound(r, q, m, w, p, n)
  BY Facts
<1>1. /\ q.pc = "next" /\ UNCHANGED <<circuit, permit, now, metrics, seen>>
      /\ q.hop \in Nat /\ q.hop > 1 /\ Len(Route[r]) \in Nat /\ w.hop \in Nat /\ w.hop < q.hop
  BY <1>0, Facts DEF NextHop, at, Sound, OnRoute, Provenance, Tasks, Histories
<1>2. CASE finish(r, q.primary)
  <2>1. /\ q.primary.kind \in TransientKinds \cup {"CircuitOpen"} /\ q.primary \in Results
        /\ q.primary.kind \in TransientKinds => q.primary = w.primary
    BY <1>0, <1>1 DEF Sound, Provenance, Tasks
  <2>2. q.primary # Expired /\ Answerable(q.primary, w)
    BY <2>1 DEF Expired, Failure, Answerable, TransientKinds
  <2> QED
    BY <1>0, <1>1, <1>2, <2>1, <2>2, PlainEnd DEF Running
<1>3. CASE q.hop <= Len(Route[r]) /\ set(r, [q EXCEPT !.pc = "hop"])
  <2>1. PICK f \in Tasks : f = [q EXCEPT !.pc = "hop"]
    BY DEF Tasks, Pcs
  <2>2. Accounted(f, m) /\ Expiries(f, m) /\ OnRoute(r, f) /\ Permitted(r, f, p) /\ Honest(f, w)
    <3>1. Accounted(f, m)
      <4>1. Accounted(q, m) /\ q.pc = "next" /\ f.pc = "hop" /\ f.started = q.started
        BY <1>0, <1>1, <2>1 DEF Sound, Tasks
      <4>2. q.hop > 1 /\ f.hop = q.hop
        BY <1>0, <1>1, <2>1 DEF Sound, OnRoute, Tasks
      <4> QED
        BY <4>1, <4>2 DEF Accounted
    <3>2. Expiries(f, m)
      BY <1>0, <1>1, <1>3, <2>1 DEF Sound, Expiries, Tasks
    <3>3. OnRoute(r, f)
      BY <1>0, <1>1, <1>3, <2>1 DEF Sound, OnRoute, Tasks
    <3>4. Permitted(r, f, p)
      BY <1>0, <1>1, <1>3, <2>1 DEF Sound, Permitted, Running, Tasks
    <3>5. Honest(f, w)
      BY <1>0, <1>1, <1>3, <2>1 DEF Sound, Honest, Tasks
    <3> QED
      BY <3>1, <3>2, <3>3, <3>4, <3>5
  <2>3. Provenance(f, w) /\ Throttled(f, w) /\ Switched(r, f, w) /\ Patient(r, f, w, n)
    <3>1. Provenance(f, w)
      BY <1>0, <1>1, <1>3, <2>1 DEF Sound, Provenance, fresh, retrying, Tasks
    <3>2. Throttled(f, w)
      BY <1>0, <1>1, <1>3, <2>1 DEF Sound, Throttled, retrying, Tasks
    <3>3. Switched(r, f, w)
      BY <1>0, <1>1, <1>3, <2>1 DEF Sound, Switched, Tasks
    <3>4. Patient(r, f, w, n)
      <4>0. Patient(r, q, w, n)
        BY <1>0 DEF Sound
      <4>1. w.not_before <= n
        <5>1. q.hop \in Nat /\ Len(Route[r]) \in Nat
          BY ExecutorAssumption DEF Tasks
        <5> QED
          BY <1>1, <1>3, <4>0, <5>1 DEF Patient
      <4>2. f.pc = "hop"
        BY <2>1 DEF Tasks
      <4> QED
        BY <4>1, <4>2 DEF Patient
    <3> QED
      BY <3>1, <3>2, <3>3, <3>4
  <2> QED
    BY <1>0, <1>1, <1>3, <2>1, <2>2, <2>3, TaskStep DEF Sound
<1>4. CASE q.hop <= Len(Route[r]) /\ set(r, [q EXCEPT !.hop = @ + 1])
  <2>0. PICK hop \in Nat : hop = q.hop + 1
    BY <1>1
  <2>1. PICK f \in Tasks : f = [q EXCEPT !.hop = hop]
    BY DEF Tasks
  <2>6. /\ f.pc = "next" /\ f.hop = hop /\ f.primary = q.primary /\ f.observed = q.observed
        /\ f.started = q.started /\ f.result = q.result
    BY <1>1, <2>1 DEF Tasks
  <2>7. hop > 1 /\ w.hop < hop /\ w.hop # q.hop
    BY <1>1, <2>0
  <2>2. Accounted(f, m) /\ Expiries(f, m) /\ OnRoute(r, f) /\ Permitted(r, f, p) /\ Honest(f, w)
    <3>1. Accounted(f, m)
      BY <1>0, <1>1, <2>6, <2>7 DEF Sound, Accounted
    <3>2. Expiries(f, m)
      BY <1>0, <1>1, <2>6, <2>7 DEF Sound, Expiries
    <3>3. OnRoute(r, f)
      BY <1>0, <1>1, <2>6, <2>7 DEF Sound, OnRoute
    <3>4. Permitted(r, f, p)
      BY <1>0, <1>1, <2>6, <2>7 DEF Sound, Permitted, Running
    <3>5. Honest(f, w)
      BY <1>0, <1>1, <2>6, <2>7 DEF Sound, Honest
    <3> QED
      BY <3>1, <3>2, <3>3, <3>4, <3>5
  <2>3. Provenance(f, w) /\ Throttled(f, w)
    <3>1. Provenance(f, w)
      BY <1>0, <1>1, <2>6, <2>7 DEF Sound, Provenance, fresh, retrying
    <3>2. Throttled(f, w)
      BY <1>0, <1>1, <2>6, <2>7 DEF Sound, Throttled, retrying
    <3> QED
      BY <3>1, <3>2
  <2>4. Switched(r, f, w) /\ Patient(r, f, w, n)
    BY <1>0, <1>1, <1>4, <2>6, <2>7 DEF Sound, Switched, Patient
  <2>5. set(r, f)
    BY <1>4, <2>0, <2>1
  <2> QED
    BY <1>0, <1>1, <2>2, <2>3, <2>4, <2>5, TaskStep DEF Sound
<1>5. q.hop > Len(Route[r]) \/ q.hop <= Len(Route[r])
  BY <1>1
<1> QED
  BY <1>0, <1>1, <1>2, <1>3, <1>4, <1>5 DEF NextHop

----------------------------------------------------------------------------
\* Every step keeps the invariant.
LEMMA InvStep == Inv /\ [Next]_vars => Inv'
<1> SUFFICES ASSUME Inv, [Next]_vars PROVE Inv'
  OBVIOUS
<1>1. ASSUME NEW r \in Request, InvalidPayload(r) PROVE Inv'
  <2>1. Malformed \in Results /\ Malformed # Expired /\ Answerable(Malformed, seen[r])
    BY MadeUp DEF Malformed, Expired, Failure, Answerable, TransientKinds
  <2> QED
    BY <1>1, <2>1, PlainEnd DEF InvalidPayload, at, Running
<1>2. ASSUME NEW r \in Request, Expire(r) PROVE Inv'
  <2>1. req[r].pc \notin {"done", "calling"} /\ deadline_exceeded(r) /\ UNCHANGED seen
    BY <1>2 DEF Expire, at
  <2> QED
    BY <2>1, DeadlineExceededInv
<1>3. CASE Tick
  <2>1. now \in Nat /\ now' = now + 1 /\ UNCHANGED <<circuit, permit, req, metrics, seen>>
    BY <1>3 DEF Tick, C!Tick, Inv, TypeOK, C!TypeOK
  <2>2. TypeOK'
    BY <2>1 DEF Inv, TypeOK, C!TypeOK
  <2>3. ASSUME NEW r \in Request PROVE Sound(r, req[r], metrics[r], seen[r], permit[r], now')
    <3>1. PICK q \in Tasks, w \in Histories : q = req[r] /\ w = seen[r]
      BY Facts
    <3>2. Patient(r, q, w, now) /\ w.not_before \in Nat /\ q.last.retry_after \in Int /\ q.err.retry_after \in Int
      <4>1. \A e \in Results : e.retry_after \in Int
        BY DEF Results, None
      <4>2. q.last \in Results /\ q.err \in Results /\ w.not_before \in Nat
        BY DEF Tasks, Histories
      <4> QED
        BY <3>1, <4>1, <4>2, Facts DEF Sound
    <3>3. /\ w.not_before <= now => w.not_before <= now'
          /\ owed(q.last, w, now) => owed(q.last, w, now')
          /\ owed(q.err, w, now) => owed(q.err, w, now')
      BY <2>1, <3>2 DEF owed
    <3>4. Patient(r, q, w, now')
      BY <3>2, <3>3 DEF Patient
    <3> QED
      BY <3>1, <3>4, Facts DEF Sound
  <2> QED
    BY <2>1, <2>2, <2>3 DEF Inv
<1>4. CASE UNCHANGED vars
  BY <1>4 DEF vars, Inv, TypeOK, C!TypeOK
<1>5. ASSUME NEW r \in Request, Step(r) PROVE Inv'
  BY <1>1, <1>2, <1>5, EnterHopInv, AdmitInv, PlainStepsInv, BeginAttemptInv, PlanDelayInv, LaunchInv,
     CallEndsInv, CallSucceededInv, CallFailedInv, JudgeInv, SettleInv, HopFailedInv, NextHopInv
     DEF Step
<1> QED
  BY <1>3, <1>4, <1>5, PlainStepsInv, ObserveInv, CallEndsInv DEF Next

\* Every reachable state of the executor satisfies the invariant.
THEOREM ExecutorInvariant == Spec => []Inv
<1>1. Init => Inv
  <2> SUFFICES ASSUME Init PROVE Inv
    OBVIOUS
  <2>1. C!TypeOK
    BY DEF Init, C!Init, C!TypeOK, C!DefaultCircuit, C!CircuitStates, C!Phases
  <2>2. TypeOK
    BY <2>1, MadeUp DEF Init, TypeOK, Tasks, Tallies, Histories, Pcs
  <2>3. ASSUME NEW r \in Request PROVE Sound(r, req[r], metrics[r], seen[r], permit[r], now)
    <3>1. /\ req[r].pc = "idle" /\ req[r].hop = 1 /\ req[r].started = 0 /\ req[r].result = NoError
          /\ req[r].observed = NoError /\ metrics[r].attempts = 0 /\ metrics[r].deadlines = 0
          /\ seen[r].hop = 0 /\ seen[r].not_before = 0 /\ permit[r] = NoPermit /\ now = 0
      BY DEF Init, C!Init
    <3>2. Len(Route[r]) \in Nat /\ Len(Route[r]) >= 1
      <4>1. Route[r] \in Seq(Target) /\ Len(Route[r]) > 0
        BY ExecutorAssumption
      <4> QED
        BY <4>1
    <3>3. NoError # Expired
      BY DEF NoError, Expired, Failure
    <3> QED
      BY <3>1, <3>2, <3>3, BudgetPositive DEF Sound, Accounted, Expiries, Counts, OnRoute, Permitted, Running,
         Provenance, fresh, retrying, Throttled, Switched, Patient, Honest
  <2> QED
    BY <2>2, <2>3 DEF Inv
<1> QED
  BY <1>1, InvStep, PTL DEF Spec

\* Every call of every request is recorded exactly once, and no request calls
\* more often than its budget, over all its hops and retries.
THEOREM AttemptsAreAccounted == Spec => []AttemptAccounting
<1>1. Inv => AttemptAccounting
  BY DEF Inv, AttemptAccounting, Sound, Accounted, at
<1> QED
  BY <1>1, ExecutorInvariant, PTL

\* The deadline counter agrees with the 504 answers, request by request.
THEOREM DeadlinesAreCountedOnce == Spec => []DeadlineCountedOnce
<1>1. Inv => DeadlineCountedOnce
  BY DEF Inv, DeadlineCountedOnce, Sound, Expiries, Counts
<1> QED
  BY <1>1, ExecutorInvariant, PTL

\* A permit lives no longer than its hop, and a probe makes a single call.
THEOREM PermitsAreDisciplined == Spec => []PermitDiscipline
<1>1. Inv => PermitDiscipline
  BY DEF Inv, PermitDiscipline, Sound, Permitted, Running, Holds, at, target
<1> QED
  BY <1>1, ExecutorInvariant, PTL

\* The error a client learns is one that its request really met.
THEOREM ErrorsAreGenuine == Spec => []ErrorIsGenuine
<1>1. Inv => ErrorIsGenuine
  BY DEF Inv, ErrorIsGenuine, Sound, Honest, Answerable, at
<1> QED
  BY <1>1, ExecutorInvariant, PTL

----------------------------------------------------------------------------
\* A step starts no call of r and accepts no result for it; of a step of r the
\* other tasks see nothing either.
Keeps(r) == req'[r].started = req[r].started /\ (req'[r].err = Ok => req[r].err = Ok)

Carries(r) == Keeps(r) /\ \A o \in Request : o # r => req'[o] = req[o]

\* A task whose new state carries over what it started and accepted.
LEMMA Carry ==
  ASSUME Inv, NEW r \in Request, NEW f, set(r, f), f.started = req[r].started,
         f.err = Ok => req[r].err = Ok
  PROVE  Carries(r)
<1>1. req'[r] = f /\ \A o \in Request : o # r => req'[o] = req[o]
  BY DEF set, Inv, TypeOK
<1> QED
  BY <1>1 DEF Carries, Keeps

\* Only Launch starts a call, and only CallSucceeded accepts a result.
LEMMA OwnEffects ==
  ASSUME Inv, NEW r \in Request, Start(r) \/ Step(r) \/ Observe(r) \/ Cancel(r)
  PROVE  Launch(r) \/ CallSucceeded(r) \/ Carries(r)
<1>0. PICK q \in Tasks, w \in Histories :
        /\ q = req[r] /\ w = seen[r] /\ Provenance(q, w) /\ Throttled(q, w)
        /\ q.pc \in {"delay", "sleep"} => q.attempt > 0
  BY Facts DEF Sound, OnRoute
<1>1. Failure("ApiCallFailed") # Ok /\ CircuitOpen # Ok /\ \A e \in Faults : e # Ok
  BY DEF Failure, CircuitOpen, Ok, Faults, TransientKinds
<1>2. ASSUME NEW pc, set(r, [q EXCEPT !.pc = pc]) PROVE Carries(r)
  <2>1. [q EXCEPT !.pc = pc].started = q.started /\ [q EXCEPT !.pc = pc].err = q.err
    BY DEF Tasks
  <2> QED
    BY <1>0, <1>2, <2>1, Carry
<1>3. ASSUME NEW pc, NEW e, e # Ok \/ e = q.err, set(r, [q EXCEPT !.pc = pc, !.err = e]) PROVE Carries(r)
  <2>1. PICK f : f = [q EXCEPT !.pc = pc, !.err = e]
    OBVIOUS
  <2>2. f.started = q.started /\ f.err = e
    BY <2>1 DEF Tasks
  <2> QED
    BY <1>0, <1>3, <2>1, <2>2, Carry
<1>4. ASSUME NEW result, finish(r, result) PROVE Carries(r)
  <2>1. PICK f : f = [q EXCEPT !.pc = "done", !.result = result]
    OBVIOUS
  <2>2. f.started = q.started /\ f.err = q.err
    BY <2>1 DEF Tasks
  <2> QED
    BY <1>0, <1>4, <2>1, <2>2, Carry DEF finish
<1>5. CASE Start(r) \/ Wake(r)
  BY <1>0, <1>2, <1>5 DEF Start, Wake
<1>6. CASE EnterHop(r) \/ AdmitReject(r)
  BY <1>0, <1>1, <1>2, <1>3, <1>6 DEF EnterHop, AdmitReject, hop_error
<1>7. CASE InvalidPayload(r) \/ Expire(r) \/ CallExpired(r) \/ Cancel(r)
  BY <1>4, <1>7 DEF InvalidPayload, Expire, deadline_exceeded, CallExpired, Cancel
<1>8. CASE AdmitAllow(r) \/ AdmitProbe(r)
  <2>1. PICK k : admitted(r, k)
    BY <1>8 DEF AdmitAllow, AdmitProbe
  <2>2. PICK f : f = [q EXCEPT !.pc = "loop", !.attempt = 0, !.retries = k, !.last = NoError]
    OBVIOUS
  <2>3. f.started = q.started /\ f.err = q.err
    BY <2>2 DEF Tasks
  <2> QED
    BY <1>0, <2>1, <2>2, <2>3, Carry DEF admitted
<1>9. CASE BeginAttempt(r)
  <2>1. q.pc = "loop" /\ q.attempt \in Nat
    BY <1>0, <1>9 DEF BeginAttempt, at, Tasks
  <2>2. q.attempt > 0 => q.last # Ok
    BY <1>0, <1>1, <2>1 DEF Provenance, retrying, Reported
  <2>3. CASE req[r].attempt > req[r].retries \/ exhausted(r)
    <3>1. PICK e : /\ e = IF req[r].last = NoError THEN Failure("ApiCallFailed") ELSE req[r].last
                   /\ attempts_error(r, e)
      BY <1>9, <2>3 DEF BeginAttempt
    <3>2. q.attempt > 0
      BY <1>0, <2>1, <2>3, Facts, BudgetPositive DEF Sound, Accounted, exhausted, Tasks
    <3> QED
      BY <1>0, <1>1, <1>3, <2>2, <3>1, <3>2 DEF attempts_error
  <2>4. CASE ~(req[r].attempt > req[r].retries \/ exhausted(r))
    <3>1. CASE req[r].attempt = 0
      BY <1>0, <1>2, <1>9, <2>4, <3>1 DEF BeginAttempt
    <3>2. CASE req[r].attempt > 0 /\ req[r].attempt # 0
      BY <1>0, <1>2, <1>9, <2>4, <3>2 DEF BeginAttempt
    <3> QED
      BY <1>0, <2>1, <3>1, <3>2
  <2> QED
    BY <2>3, <2>4
<1>10. CASE PlanDelay(r)
  <2>1. q.last # Ok
    BY <1>0, <1>1, <1>10 DEF PlanDelay, at, Provenance, retrying, Reported
  <2>2. \/ \E pc, wake : set(r, [req[r] EXCEPT !.pc = pc, !.wake = wake])
        \/ attempts_error(r, req[r].last)
        \/ deadline_exceeded(r)
    BY <1>10 DEF PlanDelay
  <2>3. ASSUME NEW pc, NEW wake, set(r, [req[r] EXCEPT !.pc = pc, !.wake = wake]) PROVE Carries(r)
    <3>1. PICK f : f = [q EXCEPT !.pc = pc, !.wake = wake]
      OBVIOUS
    <3>2. f.started = q.started /\ f.err = q.err
      BY <3>1 DEF Tasks
    <3> QED
      BY <1>0, <2>3, <3>1, <3>2, Carry
  <2> QED
    BY <1>0, <1>3, <1>4, <2>1, <2>2, <2>3 DEF attempts_error, deadline_exceeded
<1>11. CASE Observe(r)
  <2>1. PICK o : set(r, [req[r] EXCEPT !.observed = o])
    BY <1>11 DEF Observe
  <2>2. PICK f : f = [q EXCEPT !.observed = o]
    OBVIOUS
  <2>3. f.started = q.started /\ f.err = q.err
    BY <2>2 DEF Tasks
  <2> QED
    BY <1>0, <2>1, <2>2, <2>3, Carry
<1>12. CASE CallFailed(r)
  <2>1. PICK e \in call_errors(r) : \E pc : set(r, [req[r] EXCEPT !.pc = pc, !.err = e])
    BY <1>12 DEF CallFailed, attempts_error
  <2>2. e # Ok
    BY <1>0, <1>1, CallErrors DEF Throttled
  <2> QED
    BY <1>0, <1>3, <2>1, <2>2
<1>13. CASE Judge(r)
  <2>1. CASE attempts_error(r, req[r].err)
    BY <1>0, <1>3, <2>1 DEF attempts_error
  <2>2. CASE set(r, [req[r] EXCEPT !.pc = "loop", !.last = req[r].err, !.attempt = @ + 1])
    <3>1. PICK f : f = [q EXCEPT !.pc = "loop", !.last = q.err, !.attempt = @ + 1]
      OBVIOUS
    <3>2. f.started = q.started /\ f.err = q.err
      BY <3>1 DEF Tasks
    <3> QED
      BY <1>0, <2>2, <3>1, <3>2, Carry
  <2> QED
    BY <1>13, <2>1, <2>2 DEF Judge
<1>14. CASE Settle(r)
  BY <1>0, <1>2, <1>4, <1>14 DEF Settle
<1>15. ASSUME NEW pc, NEW hop, NEW primary,
              set(r, [q EXCEPT !.pc = pc, !.hop = hop, !.primary = primary])
       PROVE  Carries(r)
  <2>1. PICK f : f = [q EXCEPT !.pc = pc, !.hop = hop, !.primary = primary]
    OBVIOUS
  <2>2. f.started = q.started /\ f.err = q.err
    BY <2>1 DEF Tasks
  <2> QED
    BY <1>0, <1>15, <2>1, <2>2, Carry
<1>16. ASSUME NEW pc, NEW hop, set(r, [q EXCEPT !.pc = pc, !.hop = hop]) PROVE Carries(r)
  <2>1. PICK f : f = [q EXCEPT !.pc = pc, !.hop = hop]
    OBVIOUS
  <2>2. f.started = q.started /\ f.err = q.err
    BY <2>1 DEF Tasks
  <2> QED
    BY <1>0, <1>16, <2>1, <2>2, Carry
<1>17. CASE HopFailed(r)
  BY <1>0, <1>4, <1>15, <1>16, <1>17 DEF HopFailed
<1>18. CASE NextHop(r)
  <2>1. CASE set(r, [q EXCEPT !.hop = @ + 1])
    <3>1. [q EXCEPT !.hop = @ + 1] = [q EXCEPT !.pc = q.pc, !.hop = q.hop + 1]
      BY DEF Tasks
    <3> QED
      BY <1>16, <2>1, <3>1
  <2>2. req[r].hop > Len(Route[r]) \/ req[r].hop <= Len(Route[r])
    BY <1>0, Facts DEF Tasks
  <2> QED
    BY <1>0, <1>2, <1>4, <1>18, <2>1, <2>2 DEF NextHop
<1> QED
  BY <1>5, <1>6, <1>7, <1>8, <1>9, <1>10, <1>11, <1>12, <1>13, <1>14, <1>17, <1>18 DEF Step

\* A step of one task, or of the clock, is no event of another.
LEMMA StepEffects ==
  ASSUME Inv, [Next]_vars, NEW r \in Request
  PROVE  Launch(r) \/ CallSucceeded(r) \/ Keeps(r)
<1>1. ASSUME NEW o \in Request, o # r, Start(o) \/ Step(o) \/ Observe(o) \/ Cancel(o)
      PROVE  Keeps(r)
  <2>1. CASE Launch(o) \/ CallSucceeded(o)
    BY <1>1, <2>1 DEF Launch, CallSucceeded, attempts_error, set, Keeps, Inv, TypeOK
  <2>2. CASE Carries(o)
    BY <1>1, <2>2 DEF Carries, Keeps
  <2> QED
    BY <1>1, <2>1, <2>2, OwnEffects
<1>2. CASE Tick \/ UNCHANGED vars
  BY <1>2 DEF Tick, vars, Keeps
<1>3. ASSUME Start(r) \/ Step(r) \/ Observe(r) \/ Cancel(r)
      PROVE  Launch(r) \/ CallSucceeded(r) \/ Keeps(r)
  BY <1>3, OwnEffects DEF Carries
<1> QED
  BY <1>1, <1>2, <1>3 DEF Next

\* A call that starts, or a result that is accepted, is in time; a call starts
\* where the plan of the request allows it.
LEMMA LaunchFacts ==
  ASSUME Inv, [Next]_vars, NEW r \in Request
  PROVE  /\ req'[r].started > req[r].started =>
              /\ now < Deadline[r] /\ now >= seen[r].not_before
              /\ seen[r].hop \notin {0, req[r].hop} => seen[r].reply.kind \in TransientKinds
         /\ req'[r].err = Ok /\ req[r].err # Ok => now < Deadline[r]
<1>0. /\ now \in Nat /\ Deadline[r] \in Nat /\ req[r] \in Tasks /\ seen[r] \in Histories
      /\ Sound(r, req[r], metrics[r], seen[r], permit[r], now)
  BY Facts
<1>1. CASE Launch(r)
  <2>1. req[r].pc = "launch" /\ ~(now >= Deadline[r])
    BY <1>1 DEF Launch, at, expired, is_expired
  <2>2. seen[r].not_before <= now /\ seen[r].not_before \in Nat
    BY <1>0, <2>1 DEF Sound, Patient, Histories
  <2>3. seen[r].hop \notin {0, req[r].hop} => seen[r].reply.kind \in TransientKinds
    BY <1>0, <2>1, Facts DEF Sound, OnRoute, Switched
  <2> QED
    BY <1>0, <2>1, <2>2, <2>3
<1>2. CASE CallSucceeded(r)
  <2>1. ~(now >= Deadline[r])
    BY <1>2 DEF CallSucceeded, expired, is_expired
  <2>2. req'[r].started = req[r].started
    <3>1. PICK f : f = [req[r] EXCEPT !.pc = "settle", !.err = Ok]
      OBVIOUS
    <3>2. req'[r] = f
      BY <1>2, <3>1 DEF CallSucceeded, attempts_error, set, Inv, TypeOK
    <3> QED
      BY <1>0, <3>1, <3>2 DEF Tasks
  <2>3. req[r].started \in Nat
    BY <1>0 DEF Tasks
  <2> QED
    BY <1>0, <2>1, <2>2, <2>3
<1>3. CASE Keeps(r)
  <2>1. req[r].started \in Nat
    BY <1>0 DEF Tasks
  <2> QED
    BY <1>3, <2>1 DEF Keeps
<1> QED
  BY <1>1, <1>2, <1>3, StepEffects

\* No call starts and no result is accepted at or after the deadline.
THEOREM DeadlineAlwaysGoverns == Spec => DeadlineGoverns
<1> DEFINE InTime == \A r \in Request :
         \/ req'[r].started > req[r].started
         \/ req'[r].err = Ok /\ req[r].err # Ok
         => now < Deadline[r]
<1>1. Inv /\ [Next]_vars => InTime
  BY LaunchFacts
<1>2. Inv /\ [Next]_vars => [InTime]_vars
  BY <1>1
<1> QED
  BY <1>2, ExecutorInvariant, PTL DEF Spec, DeadlineGoverns

\* Whatever the jitter, the cap and the deadline, a Retry-After is never cut short.
THEOREM RetryAfterIsHonoured == Spec => RetryAfterHonoured
<1> DEFINE Waits == \A r \in Request : req'[r].started > req[r].started => now >= seen[r].not_before
<1>1. Inv /\ [Next]_vars => Waits
  BY LaunchFacts
<1>2. Inv /\ [Next]_vars => [Waits]_vars
  BY <1>1
<1> QED
  BY <1>2, ExecutorInvariant, PTL DEF Spec, RetryAfterHonoured

\* A request is never moved to another target by throttling, a quota, or a
\* permanent error.
THEOREM SwitchesFollowTransients == Spec => SwitchOnlyAfterTransient
<1> DEFINE Earned == \A r \in Request :
         req'[r].started > req[r].started /\ seen[r].hop \notin {0, req[r].hop} =>
           seen[r].reply.kind \in TransientKinds
<1>1. Inv /\ [Next]_vars => Earned
  BY LaunchFacts
<1>2. Inv /\ [Next]_vars => [Earned]_vars
  BY <1>1
<1> QED
  BY <1>2, ExecutorInvariant, PTL DEF Spec, SwitchOnlyAfterTransient

----------------------------------------------------------------------------
\* What a step does to the registry is an operation of the registry.
LEMMA RegistryStep ==
  ASSUME Inv, [Next]_vars
  PROVE  \/ UNCHANGED <<circuit, permit, now>>
         \/ C!Tick
         \/ \E r \in Request : AdmitAllow(r) \/ AdmitProbe(r) \/ C!Drop(r) \/ Settle(r)
<1>1. ASSUME NEW r \in Request, drop_permit(r)
      PROVE  C!Drop(r) \/ UNCHANGED <<circuit, permit, now>>
  BY <1>1 DEF drop_permit
<1>2. ASSUME NEW r \in Request, Expire(r) \/ CallExpired(r) \/ Cancel(r) \/ PlanDelay(r)
      PROVE  C!Drop(r) \/ UNCHANGED <<circuit, permit, now>>
  <2>1. CASE Expire(r) \/ CallExpired(r)
    BY <1>1, <2>1 DEF Expire, CallExpired, deadline_exceeded
  <2>2. CASE Cancel(r)
    BY <1>1, <2>2 DEF Cancel
  <2>3. CASE PlanDelay(r)
    BY <1>1, <2>3 DEF PlanDelay, deadline_exceeded
  <2> QED
    BY <1>2, <2>1, <2>2, <2>3
<1>3. ASSUME NEW r \in Request,
             \/ Start(r) \/ InvalidPayload(r) \/ EnterHop(r) \/ AdmitReject(r) \/ BeginAttempt(r)
             \/ Wake(r) \/ Launch(r) \/ Observe(r) \/ CallSucceeded(r) \/ CallFailed(r) \/ Judge(r)
             \/ HopFailed(r) \/ NextHop(r)
      PROVE  UNCHANGED <<circuit, permit, now>>
  <2>1. CASE Start(r) \/ InvalidPayload(r) \/ EnterHop(r) \/ AdmitReject(r) \/ BeginAttempt(r)
    BY <2>1, Zenon DEF Start, InvalidPayload, EnterHop, AdmitReject, BeginAttempt
  <2>2. CASE Wake(r) \/ Launch(r) \/ Observe(r) \/ CallSucceeded(r) \/ CallFailed(r)
    BY <2>2, Zenon DEF Wake, Launch, Observe, CallSucceeded, CallFailed
  <2>3. CASE Judge(r) \/ HopFailed(r) \/ NextHop(r)
    BY <2>3, Zenon DEF Judge, HopFailed, NextHop
  <2> QED
    BY <1>3, <2>1, <2>2, <2>3
<1> QED
  BY <1>2, <1>3 DEF Next, Step, Tick, vars

\* A circuit opens only when a hop reports the transient failure of a call whose
\* answer was no 429.
THEOREM ThrottlingOpensNothing == Spec => ThrottlingNeverOpens
<1> DEFINE Warranted == \A t \in Target :
         circuit'[t].phase = "Open" /\ circuit[t].phase # "Open" =>
           \E r \in Request :
             /\ Holds(r) /\ permit[r].target = t /\ permit'[r] = NoPermit
             /\ seen[r].hop = req[r].hop /\ ~seen[r].throttled
             /\ seen[r].reply.kind \in TransientKinds
<1>1. ASSUME Inv, [Next]_vars, NEW t \in Target, circuit'[t].phase = "Open", circuit[t].phase # "Open"
      PROVE  \E r \in Request :
             /\ Holds(r) /\ permit[r].target = t /\ permit'[r] = NoPermit
             /\ seen[r].hop = req[r].hop /\ ~seen[r].throttled
             /\ seen[r].reply.kind \in TransientKinds
  <2>0. C!TypeOK
    BY <1>1 DEF Inv, TypeOK
  <2>1. ASSUME NEW r \in Request, AdmitProbe(r) PROVE FALSE
    <3>1. circuit' = [circuit EXCEPT ![target(r)] = C!start_probe(circuit[target(r)])]
      BY <2>1 DEF AdmitProbe, C!Probe
    <3>2. circuit'[t] = circuit[t] \/ circuit'[t] = C!start_probe(circuit[target(r)])
      BY <2>0, <3>1 DEF C!TypeOK
    <3> QED
      BY <1>1, <3>2 DEF C!start_probe
  <2>2. ASSUME NEW r \in Request, C!Drop(r) PROVE FALSE
    <3>1. PICK p \in C!Permits : p = permit[r]
      BY <2>0, <2>2 DEF C!Drop, C!Holds, C!TypeOK
    <3>2. circuit'[t] = circuit[t] \/ circuit'[t] = C!release_probe(circuit[t], p.generation)
      BY <2>0, <2>2, <3>1 DEF C!Drop, C!TypeOK
    <3> QED
      BY <1>1, <2>0, <3>2 DEF C!release_probe, C!TypeOK, C!CircuitStates
  <2>3. PICK r \in Request : Settle(r)
    <3>1. circuit' # circuit
      BY <1>1
    <3>2. ASSUME NEW r \in Request, AdmitAllow(r) PROVE FALSE
      BY <3>1, <3>2 DEF AdmitAllow, C!Allow
    <3> QED
      BY <1>1, <2>1, <2>2, <3>1, <3>2, RegistryStep DEF C!Tick
  <2>4. report(r) /\ req[r].pc = "settle"
    BY <2>3 DEF Settle, at
  <2>5. PICK outcome \in C!Outcomes : C!Settle(r, outcome)
    BY <1>1, <2>2, <2>4, ReportCases
  <2>6. PICK p \in C!Permits : p = permit[r] /\ Holds(r)
    BY <2>0, <2>5 DEF C!Settle, C!Holds, Holds, C!TypeOK
  <2>7. permit[r].target = t /\ permit'[r] = NoPermit
    <3>1. p.target # t => circuit'[t] = circuit[t]
      BY <2>0, <2>5, <2>6 DEF C!Settle, C!TypeOK
    <3>2. permit'[r] = NoPermit
      BY <2>0, <2>5 DEF C!Settle, C!TypeOK
    <3> QED
      BY <1>1, <2>6, <3>1, <3>2
  <2>8. is_circuit_failure(req[r].err)
    <3>1. SUFFICES ASSUME ~is_circuit_failure(req[r].err) PROVE FALSE
      OBVIOUS
    <3>2. C!Settle(r, "Success") \/ C!Settle(r, "Permanent")
      BY <1>1, <2>2, <2>4, <3>1 DEF report
    <3>3. \/ circuit'[t] = C!complete(circuit[t], p.generation, p.kind, "Success", now)
          \/ circuit'[t] = C!complete(circuit[t], p.generation, p.kind, "Permanent", now)
      BY <2>0, <2>6, <2>7, <3>2 DEF C!Settle, C!TypeOK
    <3>4. circuit[t] \in C!CircuitStates
      BY <2>0 DEF C!TypeOK
    <3> QED
      BY <1>1, <3>3, <3>4 DEF C!complete, C!settled, C!close_circuit, C!CircuitStates
  <2>9. /\ Provenance(req[r], seen[r]) /\ Throttled(req[r], seen[r])
    BY <1>1, Facts DEF Sound
  <2>10. req[r].err # Ok
    BY <2>8 DEF is_circuit_failure, Ok, Failure, TransientKinds
  <2>11. Reported(req[r].err, req[r], seen[r])
    BY <2>4, <2>9, <2>10 DEF Provenance
  <2>12. seen[r].hop = req[r].hop /\ seen[r].reply.kind \in TransientKinds
    BY <2>8, <2>11 DEF Reported, is_circuit_failure
  <2>13. ~seen[r].throttled
    BY <2>4, <2>9, <2>12 DEF Throttled
  <2> QED
    BY <2>6, <2>7, <2>12, <2>13
<1>2. Inv /\ [Next]_vars => [Warranted]_vars
  BY <1>1
<1> QED
  BY <1>2, ExecutorInvariant, PTL DEF Spec, ThrottlingNeverOpens

\* The executor is a client of the registry: whatever its tasks do, the registry
\* behaves as Circuit says, with the requests as its callers.
THEOREM ExecutorImplementsCircuit == Spec => ImplementsCircuit
<1>1. Init => C!Init
  BY DEF Init
<1>2. Inv /\ [Next]_vars => [C!Next]_(C!vars)
  <2> SUFFICES ASSUME Inv, [Next]_vars PROVE [C!Next]_(C!vars)
    OBVIOUS
  <2>1. ASSUME NEW r \in Request, AdmitAllow(r) \/ AdmitProbe(r) PROVE C!Next
    <3>1. req[r].pc = "admit" /\ (C!Allow(r, target(r)) \/ C!Probe(r, target(r)))
      BY <2>1 DEF AdmitAllow, AdmitProbe, at
    <3>2. req[r].hop \in 1 .. Len(Route[r])
      BY <3>1, Facts DEF Sound, OnRoute, Tasks
    <3>3. Route[r] \in Seq(Target)
      BY ExecutorAssumption
    <3>4. target(r) \in Target
      BY <3>2, <3>3 DEF target
    <3> QED
      BY <3>1, <3>4 DEF C!Next
  <2>2. ASSUME NEW r \in Request, Settle(r) PROVE C!Next
    BY <2>2, ReportCases DEF Settle, C!Next
  <2> QED
    BY <2>1, <2>2, RegistryStep DEF C!Next, C!vars
<1> QED
  BY <1>1, <1>2, ExecutorInvariant, PTL DEF Spec, ImplementsCircuit, C!Spec
=============================================================================
