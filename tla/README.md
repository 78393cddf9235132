# Opmux gateway: TLA+ models, checks and proofs

The gateway (`src/gateway`) accepts authenticated generation requests, routes them to
provider models with retries, fallbacks and circuit breakers under one deadline, and
manages the API keys of its tenants in PostgreSQL. This directory models the parts of it
where order, time and failure matter, model-checks them with TLC on small instances, and
proves with TLAPS, for every value of the constants, the safety properties of the circuit
registry, the executor, the pipeline, readiness, the provider call, the key store and key
administration.

## The system

| Part | State it keeps | Operations | Hard behaviour | Must hold |
|---|---|---|---|---|
| Circuit registry (`features/executor/circuit.rs`) | per target: generation and phase, under a mutex | admit, settle, drop of a permit | hops settle long after admission; the probe's owner may vanish | one probe per target, stale outcomes ignored, no target rejected for ever |
| Executor (`features/executor/service.rs`, `budget.rs`, `attempt.rs`) | per request: hop, attempt, budget, last and primary error | hops, attempts, retry sleeps, fallbacks | deadline at any point, cancellation at any await, shared circuits | calls and expiries counted once, Retry-After kept, the genuine error reported |
| Provider adapter (`features/executor/vendors`, `openai_response.rs`, `bounded_body.rs`, ...) | what a 429 has already told, the body read so far | one HTTP call | cut off between headers and body, bodies that stall, break or never end | throttling is not a fault of the target, the public answer is true |
| Pipeline and admission (`middleware/*`, `features/ingress`, `core/admission.rs`) | deadline, identity, generation permit | authenticate, extract, validate, admit, execute | expiry noticed by several layers, disconnects | no slot lost, every request ends |
| Lifecycle (`core/lifecycle.rs`, `main.rs`) | drain flag, semaphore, grace timer | signal, drain, stop | races with arrivals and admissions | nothing admitted once the drain is visible, the process stops |
| Readiness (`features/health`) | time of the last success per dependency | check | drain, circuits and dependencies change during the probes | a draining process is never ready, ready rests on recent answers |
| Key store (`features/auth/persist`, `features/auth/service.rs`) | rows of tenants and keys | authenticate, revoke, issue, provision, list | several processes, row locks, lost acknowledgements, abandoned transactions | a revoked key stays out, rows only move forward |
| Key administration (`features/auth/handler.rs`, `provision.rs`, `opmux-admin`) | none of its own | create, list and revoke keys over HTTP, create tenants and keys from the command line | several agents at once, lost acknowledgements, inventories read in several statements | authority of the caller's tenant only, a secret shown once, complete inventories |
| Startup and configuration (`main.rs`, `app.rs`, `core/config/*`, `core/db.rs`) | the validated catalog and limits | load, override, validate, build, bind | layers merged in steps, hash maps in any order, failure at any stage | a true diagnosis, nothing unsound ever listens |
| Request rules (`features/ingress/validate.rs`, `routing.rs`, `service.rs`) | none | validate, resolve a plan, cap tokens | checked against the primary, used for every fallback | a 400 is the client's mistake, no call exceeds its target |
| Error mapping (`core/http_error.rs`, `*/error.rs`) | none | pure functions | rounding, several layers | codes, statuses and waits as promised |
| Metrics, tracing, correlation ids | counters | record | | counters agree with what happened |

A protected request passes the deadline middleware, the authentication middleware (one
store transaction), body extraction, the handler (kind, validation, admission) and the
executor, which calls the registry around every hop and the provider adapter in every attempt. The signal handler closes the
admission limiter and publishes the drain flag, which the server, the grace timer and
readiness read. Readiness also reads the circuits, without touching them.

## Modules

| Module | Models | Built from |
|---|---|---|
| `CircuitOps` | the transitions of one circuit as operators | |
| `Breaker` | what a breaker promises, without generations | |
| `Circuit` | the registry shared by concurrent hops | `CircuitOps`; refines `Breaker` |
| `CircuitProofs`, `ExecutorProofs`, `GatewayProofs`, `ReadinessProofs`, `AuthStoreProofs`, `ProviderCallProofs`, `KeyAdminProofs`, `ServingProofs` | theorems about the module of that name | that module |
| `RetryPolicy` | error classes, planned delays, deadline arithmetic as operators | |
| `Executor` | `ExecutorService::execute` for concurrent requests | `RetryPolicy`, an instance of `Circuit` |
| `Gateway` | pipeline, admission, drain, grace period | |
| `Readiness` | `check_readiness` | |
| `KeyRegistry` | what the key store promises: atomic operations | |
| `AuthStore` | store operations as transactions on PostgreSQL | refines `KeyRegistry` |
| `Settings` | limits, catalog rules and process settings as operators | |
| `Startup` | the stages of `main` up to the listener | `Settings` |
| `Serving` | validation, routing and hops of a request on the gateway that `Startup` made | `Startup` |
| `HttpError` | errors to codes, statuses and Retry-After as operators | |
| `ProviderCall` | one provider attempt from send to the public answer | `HttpError` |
| `KeyAdmin` | HTTP handlers and operator commands on keys | `HttpError`; uses store operations as `KeyRegistry` promises them |
| `MC*` | instances for TLC | |

Operators carry the names of the functions they model. A definition whose comment starts
with "Mutant:" is a wrong variant of the one after it; it is used only to see that
a property notices the difference.

### Circuit

`circuit[t]` is the `CircuitState` of a target: `HalfOpen { in_flight: true }` is the phase
"Probing", `HalfOpen { in_flight: false }` is "HalfOpen", and a field that the phase does not
carry is zero. `permit[c]` is the `CircuitPermit` a hop owns. `Allow` and `Probe` are the two
admitting answers of `admit` (a rejection changes nothing), `Settle` is `success`,
`transient_failure` and `ignore_permanent`, `Drop` is the permit's `Drop`. Each is one step
because the registry holds its mutex throughout. An absent map entry is the default state.

### Executor

`req[r]` is the state of a request's task, `pc` the place between two reads of the clock or
two awaits. The clock may move between any two steps. `Expire` stands for all the
`is_expired` checks outside the provider call, `CallExpired` for the one that overrides
a finished call. The call may fail in any way the adapter reports; `Observe` is the moment
429 headers have been classified and saved in the `AttemptContext` and the body is still
unread. `Cancel` is a dropped task (disconnect, middleware timeout, end of grace) and runs both guards, the
permit's and the `StartedAttempt`'s. `metrics[r]` counts recorded attempts and expiries;
`seen[r]` is history for the properties and no guard reads it. Kinds of errors that no
policy tells apart are one kind, "Permanent".

### Gateway

Requests are tasks that end in one answer. `finish` includes the drop of the
`GenerationPermit`. Nothing is awaited between admission and the first check of
`process_request`, hence no expiry or disconnect at "admitted". The store and the executor
appear through their outcomes. `mark_draining` is two steps, because other threads may run
between the closing of the semaphore and the publication of the flag. `GraceElapsed` drops
every task that is left, as the return of `main` does. `ServerDone` has no fairness: a client may
keep the connection of an answered request open for ever, and then only the grace timer ends the process.

### Readiness

A check's two probes run concurrently; each looks into the cache, is sent, answered (or not)
and ends at its timeout at the latest. `last_up` is history. Timers are punctual: time does
not pass a due timeout (`Tick`), otherwise no bound on the age of an answer could hold.

### AuthStore

A session runs one operation. `lock[k]` is the row lock, taken by `SELECT ... FOR UPDATE`
and by an `UPDATE` until the end of the transaction; a waiting statement sees the row as last
committed (READ COMMITTED). The write of an open transaction is `written(s)` and becomes
`rows[k]` in `Commit`. `Fail` is any failing statement or connection, `LoseReply` a commit
without acknowledgement, `Cancel` a caller that gives up (its connection is detached with
the transaction open), `Reap` the server's end of it, which a commit under way may forestall.
Stamps are taken from clocks that may differ by `Skew`, before the database is reached.

### Startup and Serving

A stage of `main` reads its input when it is reached: the catalog file, then one target or route
at a time in any order (they come out of hash maps), the raw limits, the environment, the
database settings, the metrics path, the port. `input` is history: what the last stage read.
`category` is the diagnostic token of `ConfigError`, `DatabaseConfigError` or `ListenError`, or
"panic" for the router. Each input group has at most one member away from its default, so
that a stage's errors are met one by one; a target or route may be wrong in any combination.
`CatalogDefects` and `ProcessDefects` say what is wrong with an input without the code's
order of checks, and `DiagnosisIsTrue` compares the two. For the document as a whole, the input is
the first fault the deserializer meets (`DocumentFaults`: what is wrong, with which field, and which
phrase a message quotes from the document). `serde_error` says what serde_json makes of it,
`map_serde_error` looks for phrases in the order of the code, and `DocumentDefects` goes by the meaning
that `core/config/error.rs` documents for each category and knows no message. The two do not always
agree: `Misnamed` lists the documents whose category is false, see below. The listening gateway then takes one
request: `Submit` is the handler up to the service, `ProcessRequest` the service up to the
executor, `Hop` one target of the plan through the repository. What happens inside a hop is the
subject of `Executor`.

### ProviderCall

`response` is fixed when the headers arrive; the body comes in chunks that the transport
chooses. A 429 is observed before its body is touched, then refined within a window of the time
that is left. Every read may fail, stall or never end. `CutOff` is the elapsed `timeout_at` around
the call, `finish` includes the check of the request's deadline that overrides any outcome, and
the mapping of the result to the public answer, as if the attempt were the last one. A body is
classified (a completion, JSON of another shape, no JSON, the quota error, a completion whose
cost is not finite). `Executor` abstracts all of this to `call_errors` and `Observe`.

### KeyAdmin

`req[a]` is the request or command of an agent. A key is identified with its row and credential:
hashing is taken to be injective and secrets fresh. `Key` numbers the rows by their place in the order
of listings; since `created_at` comes from clocks that disagree, a new key may take any free place. An
authentication, an insert and a revocation are one step, as `KeyRegistry` promises and
`AuthStore` is shown to implement; `ListPage` and `Peek` are the two statements of `list_keys`.
`Abandon` is a request that is dropped (deadline, disconnect, a killed command); the statement it
left under way may still take effect (`Adrift`). `NextPage` is the client that follows `has_more`.
`missing` and `shown` are history.

## Runs

| Run | Instance | Shows |
|---|---|---|
| `circuit` | 3 hops, 2 targets, threshold 2, cooldown 2, 4 generations, 4 ticks | `ProbeOwnership`, `GenerationFixesPhase`, `PhaseBounds`, refinement of `Breaker`, open circuits are left |
| `executor_chain` | 1 request, primary and two fallbacks (one too small), 2 retries, budget 4, Retry-After absent, 0, fitting and not fitting | accounting of attempts and expiries, the error reported, deadline, Retry-After, model switches |
| `executor_shared` | 2 requests with one primary, one of them with a fallback, threshold 1, cooldown 1 | permits end with their hop, throttling never opens a circuit, `Circuit` is implemented, every request is answered |
| `gateway` | 2 requests, 1 slot, deadline 1, grace 2 | slots, drain, grace, expiry counter; requests end, a signal stops the process |
| `gateway_metric` | 2 requests | violated: see Finding |
| `readiness` | 2 checks, timeout 1, TTL 2 | drain overrides, ready is warranted |
| `readiness_live` | 1 check | checks end |
| `authstore` | 2 sessions, tenant with two keys, a stranger, 2 instants | authentication, monotone rows |
| `authstore_refines` | 2 sessions, one key, one id never issued, clock skew 1 | refinement of `KeyRegistry`, operations end |
| `serving` | 2 targets, 2 routes, chains of up to 3, caps 0 to 2, three limits that are set, one request | startup diagnoses, validity of what listens, plans, token caps, refusals |
| `provider` | bodies of 2 bytes at most, chunks of 1 and 2, cutoff 4, deadline 5 | throttling survives, answers are true, attempts end |
| `keyadmin` | 3 keys, 2 tenants, 2 agents of whom one lists, pages of 1 and 2 | inventories are complete, authority, secrets |

### Bounds

`MaxTime` stops the clock (in `gateway`, at the end of a running grace period if that is later), `MaxGeneration` stops admissions to an old circuit; every other
constant is a setting of the program. Four generations are an opening, a probe, its failure
or success and one more transition, and a permit may be stale by any of them. Three hops are
a probe owner, a rival and a holder of a stale permit. The budget
runs out inside the fallback's hop in the chain run and on entry to it in the shared one, and
the clock can pass every deadline. Two requests on one slot give a holder and one that is turned
away, expires, or arrives during the drain. Two sessions suffice for the store, because
row locks relate two transactions at a time. In `serving`, two targets and a chain of three
give every kind of duplicate, `Tuned` holds a limit with four environment names, the one that the
routes depend on and one that requests meet, and values lie on and next to every bound; the
other limits go through the same operators with the numbers of `Bounds`. In `provider`, a body may
end below, at and above its limit, and the refinement window may be empty, end before the cutoff,
or be overtaken by it. In `keyadmin`, three keys are two pages and a new key that lands
before, between or behind them; one agent lists (`Lister`) while the other does everything else, because a walk
is disturbed by writers only. `MaxOffset` stands for the largest `i64`. In `executor_*`, `MaxGeneration` is never reached.
Deadlock is not checked: a system without clients, or whose clock has reached its bound, may
rest. Symmetry is used only in safety runs, over sets of interchangeable tasks.

### Fairness

Fairness says only that the runtime polls tasks that can run, that timers fire and that
time passes. A provider, a client's body and a dependency owe no answer: a provider call is only
sure to end at its cutoff (`Run`), a request at its deadline (`MiddlewareExpired`), a probe at
its timeout, a signalled process at the end of its grace period (`GraceElapsed`), an attempt at its cutoff (`CutOff`; chunks, ends of bodies and headers have no
fairness). In `circuit` traffic is assumed (strong fairness of `Probe`), since a circuit
is only left through a request. In `authstore_refines` the server executes statements,
grants row locks in the order of waiting and ends abandoned transactions (closed connection or
`statement_timeout`). `OpenIsLeft` and `CheckEnds` except the end of the bounded clock. In
`Executor`, the clock's bound lies at or beyond every deadline, so that `Termination` has
no exception.

### Finding

`gateway_metric`: the counter described as "Overall protected-request deadline expirations."
(`src/gateway/src/core/metrics/execution.rs:21`) does not count an expiry that
`authenticate_with_deadline` or the first check of `process_request` notices: both answer
504 from inside the middleware's future, so the middleware's own branch does not run.
`ExpiryCountedOnce` states what does hold.

### Misnamed catalogs

`DiagnosisIsTrue` holds with exceptions, which it states exactly: a refused document has a false
category if and only if it is `Misnamed`. `map_serde_error` (`core/config/catalog.rs:357`) goes by the text
of a message, and serde names no field whose value is bad. Compared with the meanings in
`core/config/error.rs`:

* A number that no float holds is `catalog_invalid_price` wherever it stands, in a limit,
  `max_output_tokens` or the version too; the category means prices (`error.rs:41`).
* A missing field other than the version and the prices is `catalog_invalid_type`, which means
  the wrong JSON type (`error.rs:43`).
* A field given twice, or a list too short for a struct, is `catalog_malformed_json` although the bytes are
  JSON (`error.rs:15`).
* A message about a wrong type or an unknown field quotes the document; if the quoted text
  holds a phrase looked for earlier, that phrase decides (a limit of `"version"` is reported as an
  unsupported version).

An integer that its field cannot hold is taken for one of the wrong type. A version of the wrong
type is `catalog_invalid_type`, one that is missing or another number
`catalog_unsupported_version`; both are true of it.

## Proofs

Every invariant and action property that a passing run checks is a theorem. Every `*Proofs` module defines
an inductive invariant `Inv`, proves in a lemma per action that the
action keeps it, combines these in `InvStep` and the theorem `<Module>Invariant` (`Spec => []Inv`), and
derives the properties. An invariant was checked with TLC on the module's run before it was
proved. No theorem bounds the sets or numbers of an instance; `MaxTime` and
`MaxGeneration` are any natural numbers. What is assumed of the constants is stated next to their
declaration (`CircuitAssumption`, `GatewayAssumption`, ...), and TLC evaluates it on every run.

### Circuit (`CircuitProofs`)

Assumed: threshold, cooldown and bounds are natural numbers and "no permit" is not a permit.

* `CircuitInvariant`: `TypeOK`, `ProbeOwnership`, `GenerationFixesPhase`, `PhaseBounds` and `Canonical`.
  The parts need each other: that
  a second probe permit cannot exist rests on every probe permit being current; that
  a dropped probe leaves no closed permit in a wrong phase rests on `GenerationFixesPhase`; the
  refinement needs `Canonical` (absent fields are zero) for equality of abstract states. A
  settlement is split by the lemma `CompleteCases` into the five things it can do.
* `CircuitTypeOK`, `SingleProbe`, `CurrentPermitFits`, `BoundedPhases`: its consequences.
* `CircuitRefinesBreaker`: `Spec => ImplementsBreaker`. A hold is live while its
  generation is current (`AbsLive`); each action maps to one action of `Breaker`, by the lemmas
  `RefinesAllow`, `RefinesProbe`, `RefinesSettle` and `RefinesDrop`.

### Executor (`ExecutorProofs`)

Assumed: routes are non-empty, deadlines and budgets are natural numbers, a provider call may
take some time (`AttemptTimeout` is not zero, `LimitBound` in the code), the kinds the adapter reports
leave out those only the executor makes.

* `Inv` is `TypeOK` and, for each request alone, `Sound`: the tasks share only the registry, so a step
  disturbs one instance of it (`TaskStep`). `Accounted` and `Expiries` tie the counters to the program
  counter; `Permitted` says which stages own a permit and that a probe never retries; `Provenance`
  follows `last`, `err` and `primary` back to what a provider really said; `Throttled` says
  that observed 429 headers exclude a transient outcome; `Switched` and `Patient` keep, from the moment
  of a reply to the next call, why a switch is allowed and where the Retry-After is still owed (slept
  through, planned, or ending the request).
* `AttemptsAreAccounted`, `DeadlinesAreCountedOnce`, `PermitsAreDisciplined`, `ErrorsAreGenuine` state the
  invariants of the runs. `DeadlineAlwaysGoverns`, `RetryAfterIsHonoured`,
  `SwitchesFollowTransients` and `ThrottlingOpensNothing` state the action properties: `StepEffects` says
  what a step may do to its task, and `RegistryStep` what it may do to a circuit.
* `ExecutorImplementsCircuit`: `Spec => ImplementsCircuit`. A step either leaves the registry alone, moves
  the clock, or is one of its operations for a request that may call it. So the results on `Circuit` and
  `Breaker` hold of concurrent executions.

The proof shows that the default of `last_error.unwrap_or(ApiCallFailed)` is
never taken on entry to an attempt.

### Gateway (`GatewayProofs`)

Assumed: finitely many requests; slots, deadline and grace are natural numbers.

* `Inv` adds to the types, `PermitAccounting` and `ExpiryCountedOnce`: `Unanswered` (an unfinished
  request has no answer and has counted nothing), `SignalOrder` (the limiter is closed before the flag is
  visible: `DrainIsFinal` fails without it) and `DeadlineAhead` (a deadline is at most one budget
  ahead, and of the holders at most one budget past the start of the grace timer).
* `SlotsAreConserved` is an induction on the set of holders: each step adds or removes at most one
  element, or all of them at the end of the process. `ExpiriesAreCountedOnce`, `DrainsAreFinal`, `GraceIsEnough`.

### Readiness (`ReadinessProofs`)

Assumed: a timeout of at least one, a natural cache lifetime.

* `Inv` says that history is current (`UpIsNow`), that a cached success was an answer at most one
  timeout old (`CacheIsRecent`), and that both probes of a check were looked up at one instant at most
  one timeout ago (`ProbesShareAStart`). The last one gives the age of a ready answer: the second
  probe may come in a timeout after the first.
* `DrainsOverride`, `ReadinessIsWarranted`.

### Provider call (`ProviderCallProofs`)

Assumed: limits and instants are natural numbers, the cutoff lies before the deadline, Retry-After
values are natural numbers.

* `Inv`: `Stages` (what has been observed at each stage of the call), `Buffered` (the buffer within its limit)
  and the two properties. Everything ends in `finish`, which the lemma `FinishHonestly` treats once for all
  callers; `CodesAreServers` is the table of codes and statuses, `SecondsCover` the rounding of waits.
* `ThrottlingIsKept`, `AnswersAreHonest`.

### Key store (`AuthStoreProofs`)

Assumed: every key has an owner, "no session" is not a session, skew and bounds are natural numbers.

* `Inv`: per session `Local`, what a transaction may rely on between its statements. `WriterHoldsLock` is
  the heart: from its read to its commit a writer holds the lock and the row is the active one it read, so that
  READ COMMITTED loses no update. `CreatorIsFresh` and `CreatorsDiffer` say that nobody
  else knows a new id; `RevokerKnows` that an UPDATE that matched nothing is explained by what the
  following SELECT sees; `UseIsSound` is the property with its history.
* `AuthenticationSound`, `RowsAlwaysMoveForward`.
* `AuthStoreRefinesRegistry`: `Spec => ImplementsRegistry`. Operations take effect in `Commit`, or in the
  SELECT that finds nothing to revoke; all other statements stutter or end a call (`QuietStep`,
  `StatementStep`, `RefinesCommit`, `RefinesEnd`).

### Key administration (`KeyAdminProofs`)

Assumed: finitely many keys, numbered by natural numbers, no more of them than the largest offset
(`Cardinality(Key) <= MaxOffset`: a listing has fewer than 2^63 rows); "none" is neither a key nor a tenant.

* The lemmas on listings hold for every finite set of keys: places grow with the set (`PositionsOnlyGrow`),
  are distinct (`PositionsDiffer`) and leave no gap (`PositionsAreDense`), so that a page followed by
  more is full (`PagesAreFull`). The last two argue by a least counterexample (`WFMin`).
* `Inv`: `Stored` is the foreign key of the rows; `Sound` follows each request: who vouched for it
  (`Vouched`, `Ordered`, `Revoking`), what its answer discloses (`Secret`), and that what a walk has yet
  to show lies at or behind the offset it asks for next (`Walking`), which an insert anywhere
  preserves, because it only moves places up; `Disclosed` keeps a secret in one
  answer at most.
* `WalksAreComplete`, `SecretsStayPrivate`, `ChangesAreVouchedFor`.

### Startup and serving (`ServingProofs`)

Assumed: an absent variable and a malformed text are two things and no numbers; caps are natural
numbers, tuned limits are limits; a prompt has at least one byte per character.

* The lemmas on `first_error` turn each reader into the chain of conditions that it is, and those on
  `validate_route_error`, `env_u64`, `check_bound` and the environment groups compare it with `Defects`,
  which knows no order. `Judged` puts the two together for one stage.
* `Messages` computes the category of every fault of a document, and `DocumentDiagnosis` compares it with
  `DocumentDefects`: it is false exactly for the documents listed by `Misnamed`.
* `Inv` is `StartupInv` and `RequestInv`. The first says what is validated before which stage
  (`CatalogSound`: every route taken is a chain of known distinct targets, the default route exists;
  `LimitsSound`: in bounds from the overrides on, fitted by the routes after them; `VendorSound`: the
  executor's models and prices are the catalog's). The second follows one request: what is left of its
  plan is a non-empty part of its chain (`PlanSound`), the tokens suit the head of that plan
  (`TokensSound`), and a request in the hops breaks no rule.
* `DiagnosesAreTrue`, `ListeningGatewaysAreValid`, `PlansResolve`, `CapsHold`, `RefusalsAreDeserved` hold
  for catalogs of any size and bodies of any kind. What a stage reads of the environment stays
  restricted to the classes of values that `Startup` lists: the theorems are about these classes.

### Only model-checked

* Liveness (`OpenIsLeft`, `Termination`, `CheckEnds`, `OperationsEnd` and the others): fairness and
  ENABLED are outside the prover's reach.
* The circuits' other properties proved of `Circuit` are not restated for `Executor`: the prover cannot cite
  theorems through an instance.

## Not modelled

* `retry_after_ms` hints of rejected hops; retry, fallback, usage and circuit-state metrics.
* Text: wording of messages, JSON layout, the grammar of HTTP dates and URLs, digits of numbers
  (a malformed number is one value), correlation ids, spans and log fields. Which of several faults of
  one request body is worded first depends on the order of its keys; all are the same 400.
* A wait until a date is cut down to whole milliseconds (`executor/budget.rs:300`), the unit of the model.
* Documents with several faults: the deserializer stops at the first it meets, and the model has only that one.
* The amount of a cost: nothing depends on it but whether it is finite.
* The store functions without production callers (`touch_last_used`, `find_key_by_digest`).
* The connection pool's size. A cancelled authentication detaches its connection
  (`postgres.rs:246`), so the server may for a while hold more sessions than the pool allows.
* Generation of random secrets and their hash: secrets are fresh and digests differ.
* Logging and service settings, which fall back to defaults and cannot fail.
* The wrap-around of the 64-bit generation.
* While draining, the details of a readiness answer show cached successes of any age
  (`features/health/service.rs:412`); the verdict does not depend on them.
* The simulator, the shell scripts and the historical documents under `src/specs`.

## Plan

1. Done: the circuit with its proofs, then executor, gateway, readiness, key store.
2. Done: configuration and startup through to served requests, the provider call with the public
   answers, key administration over the registry.
3. Done: proofs of every invariant and of the action properties of the components, with the refinements of
   `Breaker`, `Circuit` and `KeyRegistry`.
4. Next: the measures behind termination (each step of an execution or a provider call lowers one, so that
   only fairness is left to TLC), and the properties of `Circuit` restated for the executor.
