--------------------------- MODULE ReadinessProofs ----------------------------
(***************************************************************************)
(* Readiness for every number of concurrent checks, every timeout and      *)
(* cache TTL: a drain overrides whatever the probes found, and a ready     *)
(* answer rests on news that is at most two timeouts and one TTL old.      *)
(***************************************************************************)
EXTENDS Readiness, TLAPS

\* The oldest age at which a cached success is still used.
StalestHit == IF CacheTtl = 0 THEN 0 ELSE CacheTtl - 1

\* The history variable is up to date.
UpIsNow ==
    \A d \in Dependency : last_up[d] <= now /\ (d \in up => last_up[d] = now)

\* A cached success was answered at most one timeout before it was stored.
CacheIsRecent ==
    \A d \in Dependency : success_at[d] # Never =>
        success_at[d] <= now /\ success_at[d] <= last_up[d] + Timeout

\* A check in progress looked up both its probes at one instant b, at most one
\* timeout ago.  What it then calls healthy answered after b, or was cached by
\* then and is as old as a cache hit may be.
Began(p, b) ==
    /\ b <= now /\ now <= b + Timeout
    /\ \A d \in Dependency :
         LET probe == check[p].probe[d]
         IN  /\ probe.state = "lookup" => b = now
             /\ probe.state \in {"sent", "answered"} => probe.since = b
             /\ probe.state = "answered" => b <= last_up[d]
             /\ probe.state = "healthy" => b <= last_up[d] + Timeout + StalestHit

ProbesShareAStart ==
    \A p \in Check :
      IF check[p].pc = "probing" THEN \E b \in Nat : Began(p, b)
      ELSE check[p].probe = Unprobed

Inv == TypeOK /\ UpIsNow /\ CacheIsRecent /\ ProbesShareAStart

----------------------------------------------------------------------------
\* The age bound of a cache hit is a number.
LEMMA StalestHitType == StalestHit \in Nat
  BY ReadinessAssumption DEF StalestHit

\* Moving one probe of one check: what changes and what does not.
LEMMA SetProbe ==
  ASSUME TypeOK, NEW p \in Check, NEW d \in Dependency,
         NEW s \in {"sent", "answered", "healthy", "unhealthy"}, set_probe(p, d, s)
  PROVE  /\ check' \in [Check -> Checks]
         /\ \A q \in Check : q # p => check'[q] = check[q]
         /\ check'[p].pc = check[p].pc
         /\ \A e \in Dependency : e # d => check'[p].probe[e] = check[p].probe[e]
         /\ check'[p].probe[d].state = s
         /\ s = "sent" => check'[p].probe[d].since = now
         /\ s = "answered" => check'[p].probe[d].since = check[p].probe[d].since
<1> DEFINE new == [state |-> s, since |-> CASE s = "sent" -> now
                                            [] s = "answered" -> check[p].probe[d].since
                                            [] OTHER -> 0]
<1>1. check[p] \in Checks /\ check[p].probe \in [Dependency -> ProbeStates]
  BY DEF TypeOK, Checks
<1>2. new \in ProbeStates
  BY <1>1 DEF TypeOK, ProbeStates
<1>3. check' = [check EXCEPT ![p] = [check[p] EXCEPT !.probe = [@ EXCEPT ![d] = new]]]
  BY <1>1 DEF set_probe, TypeOK, Checks
<1>4. [check[p] EXCEPT !.probe = [@ EXCEPT ![d] = new]] \in Checks
  BY <1>1, <1>2 DEF Checks
<1>5. check' \in [Check -> Checks]
  BY <1>3, <1>4 DEF TypeOK
<1>6. check'[p] = [check[p] EXCEPT !.probe = [@ EXCEPT ![d] = new]]
  BY <1>3 DEF TypeOK
<1>7. check'[p].pc = check[p].pc /\ check'[p].probe = [check[p].probe EXCEPT ![d] = new]
  BY <1>1, <1>6 DEF Checks
<1>8. check'[p].probe[d] = new
  BY <1>1, <1>7
<1>9. \A q \in Check : q # p => check'[q] = check[q]
  BY <1>3 DEF TypeOK
<1> HIDE DEF new
<1>10. \A e \in Dependency : e # d => check'[p].probe[e] = check[p].probe[e]
  BY <1>1, <1>7
<1>11. /\ new.state = s
       /\ s = "sent" => new.since = now
       /\ s = "answered" => new.since = check[p].probe[d].since
  BY DEF new
<1> QED
  BY <1>5, <1>7, <1>8, <1>9, <1>10, <1>11

\* The state of a probe does not matter for the checks that are not concerned.
LEMMA OtherChecks ==
  ASSUME Inv, NEW q \in Check, check'[q] = check[q], UNCHANGED <<last_up, now>>
  PROVE  IF check'[q].pc = "probing" THEN \E b \in Nat : Began(q, b)'
         ELSE check'[q].probe = Unprobed
  BY DEF Inv, ProbesShareAStart, Began

----------------------------------------------------------------------------
\* A check that begins has looked up nothing yet, so it begins now.
LEMMA CheckReadinessInv == ASSUME Inv, NEW p \in Check, CheckReadiness(p) PROVE Inv'
<1> USE ReadinessAssumption DEF CheckReadiness, world
<1>0. check[p] \in Checks /\ check[p].probe = Unprobed /\ now \in Nat
  BY DEF Inv, TypeOK, ProbesShareAStart
<1>1. /\ check'[p].probe = Unprobed /\ check'[p].pc \in {"probing", "done"}
      /\ check'[p] \in Checks
  BY <1>0 DEF Inv, TypeOK, Checks, NotReady
<1>2. TypeOK'
  <2>1. check' \in [Check -> Checks]
    BY <1>1 DEF Inv, TypeOK
  <2> QED
    BY <2>1 DEF Inv, TypeOK
<1>3. UpIsNow' /\ CacheIsRecent'
  BY DEF Inv, UpIsNow, CacheIsRecent
<1>4. Began(p, now)'
  BY <1>0, <1>1 DEF Began, Unprobed
<1>5. ASSUME NEW q \in Check, q # p PROVE check'[q] = check[q]
  BY <1>5 DEF Inv, TypeOK
<1>6. ProbesShareAStart'
  BY <1>0, <1>1, <1>4, <1>5, OtherChecks DEF ProbesShareAStart
<1> QED
  BY <1>2, <1>3, <1>6 DEF Inv

\* A lookup happens at the instant the check began: a hit is as old as the cache
\* allows, a miss is a probe sent now.
LEMMA LookupInv ==
  ASSUME Inv, NEW p \in Check, NEW d \in Dependency, Lookup(p, d) PROVE Inv'
<1> USE ReadinessAssumption, StalestHitType DEF Lookup, world, probe_is
<1> DEFINE s == IF cache_is_fresh(d) THEN "healthy" ELSE "sent"
<1>0. TypeOK /\ now \in Nat /\ last_up \in [Dependency -> Nat]
      /\ success_at \in [Dependency -> Nat \cup {Never}]
  BY DEF Inv, TypeOK
<1>1. s \in {"sent", "healthy"} /\ set_probe(p, d, s)
  OBVIOUS
<1> HIDE DEF s
<1>2. /\ check' \in [Check -> Checks]
      /\ \A q \in Check : q # p => check'[q] = check[q]
      /\ check'[p].pc = "probing"
      /\ \A e \in Dependency : e # d => check'[p].probe[e] = check[p].probe[e]
      /\ check'[p].probe[d].state = s
      /\ s = "sent" => check'[p].probe[d].since = now
  BY <1>0, <1>1, SetProbe
<1>3. TypeOK'
  BY <1>2 DEF Inv, TypeOK
<1>4. UpIsNow' /\ CacheIsRecent'
  BY DEF Inv, UpIsNow, CacheIsRecent
<1>5. PICK b \in Nat : Began(p, b)
  BY DEF Inv, ProbesShareAStart
<1>6. b = now
  BY <1>5 DEF Began
<1>7. s = "healthy" => b <= last_up[d] + Timeout + StalestHit
  <2>1. SUFFICES ASSUME cache_is_fresh(d) PROVE now <= last_up[d] + Timeout + StalestHit
    BY <1>6 DEF s
  <2>2. success_at[d] # Never /\ now - success_at[d] < CacheTtl /\ CacheTtl > 0
    BY <2>1 DEF cache_is_fresh
  <2>3. success_at[d] <= last_up[d] + Timeout
    BY <2>2 DEF Inv, CacheIsRecent
  <2> QED
    BY <1>0, <2>2, <2>3 DEF StalestHit
<1>8. Began(p, b)'
  BY <1>0, <1>1, <1>2, <1>5, <1>6, <1>7 DEF Began
<1>9. ProbesShareAStart'
  BY <1>2, <1>8, OtherChecks DEF ProbesShareAStart
<1> QED
  BY <1>3, <1>4, <1>9 DEF Inv

\* An answer comes from a dependency that is up, after its probe was sent.
LEMMA AnswerInv ==
  ASSUME Inv, NEW p \in Check, NEW d \in Dependency, Answer(p, d) PROVE Inv'
<1> USE ReadinessAssumption, StalestHitType DEF Answer, world, probe_is
<1>0. TypeOK /\ now \in Nat /\ last_up[d] = now
  BY DEF Inv, TypeOK, UpIsNow
<1>2. /\ check' \in [Check -> Checks]
      /\ \A q \in Check : q # p => check'[q] = check[q]
      /\ check'[p].pc = "probing"
      /\ \A e \in Dependency : e # d => check'[p].probe[e] = check[p].probe[e]
      /\ check'[p].probe[d].state = "answered"
      /\ check'[p].probe[d].since = check[p].probe[d].since
  BY <1>0, SetProbe
<1>3. TypeOK'
  BY <1>2 DEF Inv, TypeOK
<1>4. UpIsNow' /\ CacheIsRecent'
  BY DEF Inv, UpIsNow, CacheIsRecent
<1>5. PICK b \in Nat : Began(p, b)
  BY DEF Inv, ProbesShareAStart
<1>6. Began(p, b)'
  BY <1>0, <1>2, <1>5 DEF Began
<1>7. ProbesShareAStart'
  BY <1>2, <1>6, OtherChecks DEF ProbesShareAStart
<1> QED
  BY <1>3, <1>4, <1>7 DEF Inv

\* A success is stored and believed at most one timeout after the answer.
LEMMA SucceedInv ==
  ASSUME Inv, NEW p \in Check, NEW d \in Dependency, Succeed(p, d) PROVE Inv'
<1> USE ReadinessAssumption, StalestHitType DEF Succeed, world, probe_is
<1>0. TypeOK /\ now \in Nat /\ last_up \in [Dependency -> Nat]
  BY DEF Inv, TypeOK
<1>2. /\ check' \in [Check -> Checks]
      /\ \A q \in Check : q # p => check'[q] = check[q]
      /\ check'[p].pc = "probing"
      /\ \A e \in Dependency : e # d => check'[p].probe[e] = check[p].probe[e]
      /\ check'[p].probe[d].state = "healthy"
  BY <1>0, SetProbe
<1>3. TypeOK'
  BY <1>2 DEF Inv, TypeOK
<1>4. PICK b \in Nat : Began(p, b)
  BY DEF Inv, ProbesShareAStart
<1>5. b <= last_up[d] /\ now <= last_up[d] + Timeout
  BY <1>0, <1>4 DEF Began
<1>6. UpIsNow' /\ CacheIsRecent'
  BY <1>0, <1>5 DEF Inv, TypeOK, UpIsNow, CacheIsRecent
<1>7. Began(p, b)'
  BY <1>0, <1>2, <1>4, <1>5 DEF Began
<1>8. ProbesShareAStart'
  BY <1>2, <1>7, OtherChecks DEF ProbesShareAStart
<1> QED
  BY <1>3, <1>6, <1>8 DEF Inv

\* A failed probe proves nothing and stores nothing.
LEMMA FailInv ==
  ASSUME Inv, NEW p \in Check, NEW d \in Dependency, Fail(p, d) PROVE Inv'
<1> USE ReadinessAssumption, StalestHitType DEF Fail, world, probe_is
<1>0. TypeOK /\ now \in Nat
  BY DEF Inv, TypeOK
<1>2. /\ check' \in [Check -> Checks]
      /\ \A q \in Check : q # p => check'[q] = check[q]
      /\ check'[p].pc = "probing"
      /\ \A e \in Dependency : e # d => check'[p].probe[e] = check[p].probe[e]
      /\ check'[p].probe[d].state = "unhealthy"
  BY <1>0, SetProbe
<1>3. TypeOK'
  BY <1>2 DEF Inv, TypeOK
<1>4. UpIsNow' /\ CacheIsRecent'
  BY DEF Inv, UpIsNow, CacheIsRecent
<1>5. PICK b \in Nat : Began(p, b)
  BY DEF Inv, ProbesShareAStart
<1>6. Began(p, b)'
  BY <1>0, <1>2, <1>5 DEF Began
<1>7. ProbesShareAStart'
  BY <1>2, <1>6, OtherChecks DEF ProbesShareAStart
<1> QED
  BY <1>3, <1>4, <1>7 DEF Inv

\* A report throws the check's probes away.
LEMMA ReportInv == ASSUME Inv, NEW p \in Check, Report(p) PROVE Inv'
<1> USE ReadinessAssumption DEF Report, world
<1>0. check[p] \in Checks /\ draining \in BOOLEAN
  BY DEF Inv, TypeOK
<1>1. check'[p].pc = "done" /\ check'[p].probe = Unprobed /\ check'[p] \in Checks
  <2>1. Unprobed \in [Dependency -> ProbeStates]
    BY DEF Unprobed, ProbeStates
  <2>2. (~draining /\ verdict(p)) \in BOOLEAN
    BY DEF verdict, default_route_has_usable_target
  <2> QED
    BY <1>0, <2>1, <2>2 DEF Inv, TypeOK, Checks
<1>2. TypeOK'
  <2>1. check' \in [Check -> Checks]
    BY <1>1 DEF Inv, TypeOK
  <2> QED
    BY <2>1 DEF Inv, TypeOK
<1>3. UpIsNow' /\ CacheIsRecent'
  BY DEF Inv, UpIsNow, CacheIsRecent
<1>4. ASSUME NEW q \in Check, q # p PROVE check'[q] = check[q]
  BY <1>4 DEF Inv, TypeOK
<1>5. ProbesShareAStart'
  BY <1>1, <1>4, OtherChecks DEF ProbesShareAStart
<1> QED
  BY <1>2, <1>3, <1>5 DEF Inv

\* A dependency that comes or goes answered at this instant.
LEMMA DependencyMovesInv == ASSUME Inv, DependencyMoves PROVE Inv'
<1> USE ReadinessAssumption, StalestHitType DEF DependencyMoves
<1>0. /\ last_up \in [Dependency -> Nat] /\ now \in Nat
      /\ success_at \in [Dependency -> Nat \cup {Never}]
  BY DEF Inv, TypeOK
<1>1. PICK e \in Dependency : /\ up' = IF e \in up THEN up \ {e} ELSE up \cup {e}
                              /\ last_up' = [last_up EXCEPT ![e] = now]
  OBVIOUS
<1>2. TypeOK'
  BY <1>0, <1>1 DEF Inv, TypeOK
<1>3. UpIsNow'
  BY <1>0, <1>1 DEF Inv, UpIsNow
<1>4. \A d \in Dependency : last_up[d] \in Nat /\ last_up'[d] \in Nat /\ last_up[d] <= last_up'[d]
  BY <1>0, <1>1 DEF Inv, UpIsNow
<1>5. CacheIsRecent'
  BY <1>0, <1>4 DEF Inv, CacheIsRecent
<1>6. ASSUME NEW q \in Check, NEW b \in Nat, Began(q, b) PROVE Began(q, b)'
  BY <1>0, <1>4, <1>6 DEF Began
<1>7. ProbesShareAStart'
  BY <1>6 DEF Inv, ProbesShareAStart
<1> QED
  BY <1>2, <1>3, <1>5, <1>7 DEF Inv

\* Time passes only while each check in progress waits for a probe that is not
\* due, so never beyond one timeout after the check's lookups.
LEMMA TickInv == ASSUME Inv, Tick PROVE Inv'
<1> USE ReadinessAssumption, StalestHitType DEF Tick
<1>0. /\ last_up \in [Dependency -> Nat] /\ now \in Nat /\ now' \in Nat
      /\ success_at \in [Dependency -> Nat \cup {Never}]
      /\ check \in [Check -> Checks]
  BY DEF Inv, TypeOK
<1>1. last_up' \in [Dependency -> Nat]
  BY <1>0
<1>2. \A d \in Dependency : last_up[d] \in Nat /\ last_up'[d] \in Nat /\ last_up[d] <= last_up'[d]
                            /\ last_up'[d] <= now'
                            /\ (d \in up => last_up'[d] = now')
  BY <1>0, <1>1 DEF Inv, UpIsNow
<1>3. TypeOK'
  BY <1>0, <1>1 DEF Inv, TypeOK
<1>4. UpIsNow'
  BY <1>0, <1>2 DEF Inv, UpIsNow
<1>5. CacheIsRecent'
  BY <1>0, <1>2 DEF Inv, CacheIsRecent
<1>6. ASSUME NEW q \in Check, NEW b \in Nat, Began(q, b), check[q].pc = "probing"
      PROVE  Began(q, b)'
  <2>1. PICK d \in Dependency : check[q].probe[d].state \notin {"healthy", "unhealthy"}
    BY <1>6 DEF settled
  <2>2. check[q].probe[d].state \in {"sent", "answered"}
    BY <1>0, <1>6, <2>1 DEF probe_is, Checks, ProbeStates
  <2>3. check[q].probe[d].since = b /\ now < b + Timeout
    BY <1>0, <1>6, <2>2 DEF Began, due, probe_is
  <2>4. \A e \in Dependency : check[q].probe[e].state # "lookup"
    BY <1>6 DEF probe_is
  <2> QED
    BY <1>0, <1>2, <1>6, <2>3, <2>4 DEF Began
<1>7. ProbesShareAStart'
  BY <1>6 DEF Inv, ProbesShareAStart
<1> QED
  BY <1>3, <1>4, <1>5, <1>7 DEF Inv

\* Every step keeps the invariant.
LEMMA InvStep == Inv /\ [Next]_vars => Inv'
<1> SUFFICES ASSUME Inv, [Next]_vars PROVE Inv'
  OBVIOUS
<1>1. CASE Drain \/ CircuitMoves
  <2>1. TypeOK'
    BY <1>1 DEF Drain, CircuitMoves, Inv, TypeOK
  <2> QED
    BY <1>1, <2>1 DEF Drain, CircuitMoves, Inv, UpIsNow, CacheIsRecent, ProbesShareAStart, Began
<1>2. CASE UNCHANGED vars
  BY <1>2 DEF vars, Inv, TypeOK, UpIsNow, CacheIsRecent, ProbesShareAStart, Began
<1> QED
  BY <1>1, <1>2, CheckReadinessInv, ReportInv, LookupInv, AnswerInv, SucceedInv, FailInv,
     DependencyMovesInv, TickInv DEF Next

\* Every reachable state satisfies the invariant.
THEOREM ReadinessInvariant == Spec => []Inv
<1>1. Init => Inv
  <2> SUFFICES ASSUME Init PROVE Inv
    OBVIOUS
  <2> USE DEF Init
  <2>1. check \in [Check -> Checks]
    BY DEF Checks, ProbeStates, Unprobed, NotReady
  <2>2. TypeOK
    BY <2>1 DEF TypeOK
  <2>3. UpIsNow /\ CacheIsRecent /\ ProbesShareAStart
    BY DEF UpIsNow, CacheIsRecent, ProbesShareAStart
  <2> QED
    BY <2>2, <2>3 DEF Inv
<1> QED
  BY <1>1, InvStep, PTL DEF Spec

----------------------------------------------------------------------------
\* Only two actions end a check: CheckReadiness when the process is draining,
\* and Report.
LEMMA WhoReports ==
  ASSUME TypeOK, [Next]_vars, NEW p \in Check, Reports(p)
  PROVE  Report(p) \/ (draining /\ check'[p].answer = [ready |-> FALSE, draining |-> TRUE])
<1> USE DEF Reports
<1>1. ASSUME NEW q \in Check, CheckReadiness(q)
      PROVE  draining /\ check'[p].answer = [ready |-> FALSE, draining |-> TRUE]
  <2>1. q = p
    BY <1>1 DEF CheckReadiness, TypeOK
  <2> QED
    BY <1>1, <2>1 DEF CheckReadiness, TypeOK, Checks
<1>2. ASSUME NEW q \in Check, Report(q) PROVE Report(p)
  <2>1. q = p
    BY <1>2 DEF Report, TypeOK
  <2> QED
    BY <1>2, <2>1
<1>3. ASSUME NEW q \in Check, NEW d \in Dependency, NEW s \in {"sent", "answered", "healthy", "unhealthy"},
             set_probe(q, d, s)
      PROVE  FALSE
  BY <1>3, SetProbe
<1>4. ASSUME NEW q \in Check, NEW d \in Dependency,
             Lookup(q, d) \/ Answer(q, d) \/ Succeed(q, d) \/ Fail(q, d)
      PROVE  FALSE
  BY <1>3, <1>4 DEF Lookup, Answer, Succeed, Fail
<1>5. CASE Drain \/ CircuitMoves \/ DependencyMoves \/ Tick \/ UNCHANGED vars
  BY <1>5 DEF Drain, CircuitMoves, DependencyMoves, Tick, vars
<1> QED
  BY <1>1, <1>2, <1>4, <1>5 DEF Next

\* A draining process is never reported as ready, however the checks, their
\* probes and the signal interleave.
THEOREM DrainsOverride == Spec => DrainOverrides
<1> DEFINE Told == \A p \in Check : Reports(p) =>
                     /\ check'[p].answer.draining = draining
                     /\ draining => ~check'[p].answer.ready
<1>1. ASSUME Inv, [Next]_vars, NEW p \in Check, Reports(p)
      PROVE  /\ check'[p].answer.draining = draining
             /\ draining => ~check'[p].answer.ready
  <2>0. TypeOK
    BY <1>1 DEF Inv
  <2>1. CASE Report(p)
    BY <2>0, <2>1 DEF Report, TypeOK
  <2>2. CASE draining /\ check'[p].answer = [ready |-> FALSE, draining |-> TRUE]
    BY <2>0, <2>2 DEF TypeOK
  <2> QED
    BY <1>1, <2>0, <2>1, <2>2, WhoReports
<1>2. Inv /\ [Next]_vars => [Told]_vars
  BY <1>1
<1> QED
  BY <1>2, ReadinessInvariant, PTL DEF Spec, DrainOverrides

\* A ready answer rests on a closed target and on dependencies that answered no
\* longer ago than two timeouts and the oldest usable cache entry.
THEOREM ReadinessIsWarranted == Spec => ReadyIsWarranted
<1> DEFINE Warranted == \A p \in Check : Reports(p) /\ check'[p].answer.ready =>
         /\ usable # {}
         /\ \A d \in Dependency :
              now - last_up[d] <= 2 * Timeout + (IF CacheTtl = 0 THEN 0 ELSE CacheTtl - 1)
<1>1. ASSUME Inv, [Next]_vars, NEW p \in Check, Reports(p), check'[p].answer.ready
      PROVE  /\ usable # {}
             /\ \A d \in Dependency : now - last_up[d] <= 2 * Timeout + StalestHit
  <2>0. TypeOK /\ now \in Nat /\ last_up \in [Dependency -> Nat]
    BY <1>1 DEF Inv, TypeOK
  <2>1. Report(p)
    BY <1>1, <2>0, WhoReports
  <2>2. check[p].pc = "probing" /\ verdict(p)
    BY <1>1, <2>0, <2>1 DEF Report, settled, TypeOK
  <2>3. PICK b \in Nat : Began(p, b)
    BY <1>1, <2>2 DEF Inv, ProbesShareAStart
  <2>4. ASSUME NEW d \in Dependency PROVE now - last_up[d] <= 2 * Timeout + StalestHit
    <3>1. b <= last_up[d] + Timeout + StalestHit /\ now <= b + Timeout
      BY <2>2, <2>3 DEF Began, verdict
    <3> QED
      BY <2>0, <3>1, ReadinessAssumption, StalestHitType
  <2> QED
    BY <2>2, <2>4 DEF verdict, default_route_has_usable_target
<1>2. Inv /\ [Next]_vars => [Warranted]_vars
  BY <1>1 DEF StalestHit
<1> QED
  BY <1>2, ReadinessInvariant, PTL DEF Spec, ReadyIsWarranted
=============================================================================
