------------------------------- MODULE Readiness ------------------------------
(***************************************************************************)
(* HealthService::check_readiness (features/health/service.rs): concurrent *)
(* readiness checks that probe the authentication database and the         *)
(* upstream under a timeout, share a cache of recent successes, look at    *)
(* the circuits of the default route, and must never report a draining     *)
(* process as ready.  The drain, the circuits and the dependencies change  *)
(* at any time.                                                            *)
(***************************************************************************)
EXTENDS Integers

CONSTANTS
    Check,          \* concurrent /ready requests
    DefaultRoute,   \* the targets of the default route, primary and fallbacks
    Timeout,        \* HEALTH_CHECK_TIMEOUT (the code uses at least one)
    CacheTtl,       \* HEALTH_CHECK_CACHE_TTL_SECS; zero disables the cache
    MaxTime         \* bound: the clock stops here

ASSUME ReadinessAssumption ==
    Timeout \in Nat \ {0} /\ CacheTtl \in Nat /\ MaxTime \in Nat

VARIABLES
    check,      \* check[p]: a readiness check and the probes it has joined
    success_at, \* success_at[d]: when a probe of d last succeeded, or Never
    draining,   \* the drain flag
    usable,     \* the default-route targets whose circuit is closed
    up,         \* the dependencies that answer now
    last_up,    \* history: the last instant a dependency answered
    now

vars == <<check, success_at, draining, usable, up, last_up, now>>

Dependency == {"database", "upstream"}

Never == -1

\* A probe is looked up in the cache, sent, answered by the dependency, and over.
ProbeStates == [state : {"lookup", "sent", "answered", "healthy", "unhealthy"},
                since : Nat]

Unprobed == [d \in Dependency |-> [state |-> "lookup", since |-> 0]]

NotReady == [ready |-> FALSE, draining |-> FALSE]

Checks == [pc : {"idle", "probing", "done"}, probe : [Dependency -> ProbeStates],
           answer : [ready : BOOLEAN, draining : BOOLEAN]]

TypeOK ==
    /\ check \in [Check -> Checks]
    /\ success_at \in [Dependency -> Nat \cup {Never}]
    /\ draining \in BOOLEAN
    /\ usable \in SUBSET DefaultRoute /\ up \in SUBSET Dependency
    /\ last_up \in [Dependency -> Nat]
    /\ now \in Nat

Init ==
    /\ check = [p \in Check |->
         [pc |-> "idle", answer |-> NotReady, probe |-> Unprobed]]
    /\ success_at = [d \in Dependency |-> Never]
    /\ draining = FALSE
    /\ usable = DefaultRoute
    /\ up = Dependency
    /\ last_up = [d \in Dependency |-> 0]
    /\ now = 0

----------------------------------------------------------------------------
world == <<draining, usable, up, last_up, now>>

\* Mutant: a success exactly as old as the TTL is still used.
cache_is_fresh_Inclusive(d) ==
    CacheTtl > 0 /\ success_at[d] # Never /\ now - success_at[d] <= CacheTtl

cache_is_fresh(d) ==
    CacheTtl > 0 /\ success_at[d] # Never /\ now - success_at[d] < CacheTtl

default_route_has_usable_target == usable # {}

probe_is(p, d, s) == check[p].pc = "probing" /\ check[p].probe[d].state = s

set_probe(p, d, s) ==
    check' = [check EXCEPT ![p].probe[d] =
                [state |-> s,
                 since |-> CASE s = "sent" -> now [] s = "answered" -> @.since
                             [] OTHER -> 0]]

----------------------------------------------------------------------------
\* The first drain snapshot: a draining process answers without probing.
CheckReadiness(p) ==
    /\ check[p].pc \in {"idle", "done"}
    /\ check' = [check EXCEPT ![p] =
         IF draining
         THEN [@ EXCEPT !.pc = "done", !.answer = [ready |-> FALSE, draining |-> TRUE]]
         ELSE [@ EXCEPT !.pc = "probing", !.answer = NotReady]]
    /\ UNCHANGED <<success_at, world>>

\* probe_database and probe_upstream: a fresh success is reused.
Lookup(p, d) ==
    /\ probe_is(p, d, "lookup")
    /\ set_probe(p, d, IF cache_is_fresh(d) THEN "healthy" ELSE "sent")
    /\ UNCHANGED <<success_at, world>>

\* The dependency answers a probe; the answer is on its way.
Answer(p, d) ==
    /\ probe_is(p, d, "sent")
    /\ d \in up
    /\ set_probe(p, d, "answered")
    /\ UNCHANGED <<success_at, world>>

\* Only a success is stored.
Succeed(p, d) ==
    /\ probe_is(p, d, "answered")
    /\ set_probe(p, d, "healthy")
    /\ success_at' = [success_at EXCEPT ![d] = now]
    /\ UNCHANGED world

due(p, d) == now >= check[p].probe[d].since + Timeout

\* Mutant: a probe runs without a timeout.
Fail_NoTimeout(p, d) ==
    /\ probe_is(p, d, "sent") /\ d \notin up
    /\ set_probe(p, d, "unhealthy")
    /\ UNCHANGED <<success_at, world>>

\* A refused probe, or one that is still out at the timeout.
Fail(p, d) ==
    /\ \/ probe_is(p, d, "sent") /\ (d \notin up \/ due(p, d))
       \/ probe_is(p, d, "answered") /\ due(p, d)
    /\ set_probe(p, d, "unhealthy")
    /\ UNCHANGED <<success_at, world>>

settled(p) ==
    /\ check[p].pc = "probing"
    /\ \A d \in Dependency : check[p].probe[d].state \in {"healthy", "unhealthy"}

verdict(p) ==
    /\ \A d \in Dependency : check[p].probe[d].state = "healthy"
    /\ default_route_has_usable_target

\* Mutant: the drain is not looked at again after the probes.
Report_FirstSnapshot(p) ==
    /\ settled(p)
    /\ check' = [check EXCEPT
         ![p] = [pc |-> "done", probe |-> Unprobed,
                 answer |-> [ready |-> verdict(p), draining |-> FALSE]]]
    /\ UNCHANGED <<success_at, world>>

\* After the probes, the circuits and then the drain flag decide.
Report(p) ==
    /\ settled(p)
    /\ check' = [check EXCEPT
         ![p] = [pc |-> "done", probe |-> Unprobed,
                 answer |-> [ready |-> ~draining /\ verdict(p), draining |-> draining]]]
    /\ UNCHANGED <<success_at, world>>

----------------------------------------------------------------------------
Drain ==
    /\ ~draining
    /\ draining' = TRUE
    /\ UNCHANGED <<check, success_at, usable, up, last_up, now>>

\* Generation opens and closes circuits (see Circuit).
CircuitMoves ==
    /\ \E t \in DefaultRoute :
         usable' = IF t \in usable THEN usable \ {t} ELSE usable \cup {t}
    /\ UNCHANGED <<check, success_at, draining, up, last_up, now>>

DependencyMoves ==
    /\ \E d \in Dependency :
         /\ up' = IF d \in up THEN up \ {d} ELSE up \cup {d}
         /\ last_up' = [last_up EXCEPT ![d] = now]
    /\ UNCHANGED <<check, success_at, draining, usable, now>>

\* Timers are taken to fire, and local steps to run, within one unit of the
\* clock: time does not pass a probe's timeout or a check that need not wait.
Tick ==
    /\ now < MaxTime
    /\ \A p \in Check :
         /\ ~settled(p)
         /\ \A d \in Dependency :
              /\ ~probe_is(p, d, "lookup")
              /\ probe_is(p, d, "sent") \/ probe_is(p, d, "answered") => ~due(p, d)
    /\ now' = now + 1
    /\ last_up' = [d \in Dependency |-> IF d \in up THEN now + 1 ELSE last_up[d]]
    /\ UNCHANGED <<check, success_at, draining, usable, up>>

Next ==
    \/ \E p \in Check : CheckReadiness(p) \/ Report(p)
    \/ \E p \in Check, d \in Dependency :
         Lookup(p, d) \/ Answer(p, d) \/ Succeed(p, d) \/ Fail(p, d)
    \/ Drain \/ CircuitMoves \/ DependencyMoves \/ Tick

Spec == Init /\ [][Next]_vars

\* Every check in progress is polled; a probe ends at its timeout at the latest;
\* time does not stand still because checks keep coming (hence the strong
\* fairness of Tick).
Fairness ==
    /\ \A p \in Check :
         /\ WF_vars(Report(p))
         /\ \A d \in Dependency :
              WF_vars(Lookup(p, d)) /\ WF_vars((Succeed(p, d) \/ Fail(p, d)) /\ due(p, d))
    /\ SF_vars(Tick)

FairSpec == Spec /\ Fairness

----------------------------------------------------------------------------
Reports(p) == check[p].pc # "done" /\ check'[p].pc = "done"

\* A check that ends after the drain began says so, even if it began before and
\* all its probes and cached successes are healthy.
DrainOverrides ==
    [][\A p \in Check : Reports(p) =>
         /\ check'[p].answer.draining = draining
         /\ draining => ~check'[p].answer.ready]_vars

\* A ready answer is never based on old news: each dependency really answered
\* less than the cache TTL and two probe timeouts ago (the probe whose success
\* was cached, then the other probe this check had to wait for), and a target of
\* the default route is closed now.
ReadyIsWarranted ==
    [][\A p \in Check : Reports(p) /\ check'[p].answer.ready =>
         /\ usable # {}
         /\ \A d \in Dependency :
              now - last_up[d] <= 2 * Timeout + (IF CacheTtl = 0 THEN 0 ELSE CacheTtl - 1)]_vars

\* A readiness check ends whatever its dependencies do.
CheckEnds ==
    \A p \in Check : check[p].pc = "probing" ~> check[p].pc = "done" \/ now = MaxTime
=============================================================================
