---------------------------- MODULE GatewayProofs -----------------------------
(***************************************************************************)
(* The request pipeline for every finite set of requests, every number of  *)
(* slots, every deadline and every grace period: the slots of the          *)
(* generation semaphore are conserved, an expiry is counted once, a drain  *)
(* is final, and a long enough grace period cuts off nobody in time.       *)
(***************************************************************************)
EXTENDS Gateway, FiniteSetTheorems, TLAPS

Holders == {r \in Request : Holds(r)}

\* A request that has not ended was not answered and has counted nothing.
Unanswered ==
    \A r \in Request : ~at(r, "done") => req[r].answer = "none" /\ metrics[r].deadlines = 0

\* The signal handler's progress and what it has made visible: the flag is
\* never up over an open limiter.
SignalOrder ==
    /\ closed <=> proc.signal # "waiting"
    /\ draining <=> proc.signal = "done"

\* A deadline lies at most one budget ahead, and once the grace timer runs, at
\* most one budget after the moment it was started.
DeadlineAhead ==
    /\ \A r \in Request : Active(r) => req[r].deadline <= now + Budget
    /\ proc.grace_at # NotYet =>
         /\ draining
         /\ \A r \in Request : Holds(r) => req[r].deadline + Grace <= proc.grace_at + Budget

Inv ==
    /\ TypeOK /\ PermitAccounting /\ ExpiryCountedOnce
    /\ Unanswered /\ SignalOrder /\ DeadlineAhead

----------------------------------------------------------------------------
\* How a task of its own leaves the pipeline, with what it counts on the way.
Ends(r, answer) ==
    /\ Active(r)
    /\ finish(r, answer)
    /\ \/ /\ UNCHANGED metrics
          /\ answer = "Deadline" => req[r].pc \in {"auth", "admitted"}
          /\ answer # "Overloaded"
       \/ answer = "Deadline" /\ record_deadline_exceeded(r)
       \/ /\ answer = "Overloaded" /\ ~closed
          /\ metrics' = [metrics EXCEPT ![r].overloads = @ + 1]

\* How it moves on without touching the semaphore: into the handler's work only
\* with a permit, elsewhere only without.
Moves(r, pc) ==
    /\ \/ at(r, "auth") /\ pc = "body"
       \/ at(r, "body") /\ pc = "managing"
       \/ at(r, "admitted") /\ pc = "running"
    /\ goto(r, pc)
    /\ UNCHANGED metrics

\* Every step of a request's task after its arrival is an admission, an end or
\* a move, and leaves the process alone.
LEMMA TaskSteps ==
  ASSUME TypeOK, NEW r \in Request, Work(r) \/ Disconnect(r)
  PROVE  /\ UNCHANGED <<closed, draining, proc, now>>
         /\ \/ Admitted(r)
            \/ \E answer \in Answers \ {"none"} : Ends(r, answer)
            \/ \E pc \in {"body", "running", "managing"} : Moves(r, pc)
<1> USE DEF Ends, Active, Answers, at, process
<1>1. CASE MiddlewareExpired(r)
  BY <1>1 DEF MiddlewareExpired
<1>2. CASE AuthRefused(r)
  <2>1. PICK answer \in {"Unauthorized", "StoreUnavailable"} : finish(r, answer)
    BY <1>2 DEF AuthRefused
  <2>2. Ends(r, answer)
    BY <1>2, <2>1 DEF AuthRefused
  <2> QED
    BY <1>2, <2>2 DEF AuthRefused
<1>3. CASE AuthExpired(r)
  BY <1>3 DEF AuthExpired
<1>4. CASE AuthPassed(r)
  BY <1>4 DEF AuthPassed, Moves
<1>5. CASE BodyRefused(r)
  BY <1>5 DEF BodyRefused
<1>6. CASE Rejected(r)
  <2>1. PICK answer \in {"Forbidden", "Invalid"} : finish(r, answer)
    BY <1>6 DEF Rejected
  <2>2. Ends(r, answer)
    BY <1>6, <2>1 DEF Rejected
  <2> QED
    BY <1>6, <2>2 DEF Rejected
<1>7. CASE Admitted(r)
  BY <1>7 DEF Admitted
<1>8. CASE NotAdmitted(r)
  BY <1>8 DEF NotAdmitted, try_acquire
<1>9. CASE ProcessRequest(r)
  BY <1>9 DEF ProcessRequest, Moves
<1>10. CASE Executed(r)
  <2>1. PICK answer \in {"Ok", "Failed"} : finish(r, answer)
    BY <1>10 DEF Executed
  <2>2. Ends(r, answer)
    BY <1>10, <2>1 DEF Executed
  <2> QED
    BY <1>10, <2>2 DEF Executed
<1>11. CASE ExecutorExpired(r)
  BY <1>11 DEF ExecutorExpired
<1>12. CASE Manage(r)
  BY <1>12 DEF Manage, Moves
<1>13. CASE Managed(r)
  <2>1. PICK answer \in {"Ok", "Failed", "StoreUnavailable"} : finish(r, answer)
    BY <1>13 DEF Managed
  <2>2. Ends(r, answer)
    BY <1>13, <2>1 DEF Managed
  <2> QED
    BY <1>13, <2>2 DEF Managed
<1>14. CASE Disconnect(r)
  BY <1>14 DEF Disconnect
<1> QED
  BY <1>1, <1>2, <1>3, <1>4, <1>5, <1>6, <1>7, <1>8, <1>9, <1>10, <1>11, <1>12, <1>13, <1>14
     DEF Work

\* The requests that hold a slot are finitely many.
LEMMA HoldersFinite == IsFiniteSet(Holders) /\ Cardinality(Holders) \in Nat
<1>1. Holders \in SUBSET Request
  BY DEF Holders
<1>2. IsFiniteSet(Holders)
  BY <1>1, FS_Subset, GatewayAssumption
<1> QED
  BY <1>2, FS_CardinalityType

----------------------------------------------------------------------------
\* An arrival keeps the invariant: the newcomer's deadline is one budget ahead.
LEMMA ArriveInv == ASSUME Inv, NEW r \in Request, Arrive(r) PROVE Inv'
<1> USE GatewayAssumption DEF Arrive, process, at
<1>1. TypeOK'
  <2>1. req[r] \in Tasks /\ now + Budget \in Nat
    BY DEF Inv, TypeOK
  <2>2. [req[r] EXCEPT !.pc = "auth", !.deadline = now + Budget] \in Tasks
    BY <2>1 DEF Tasks, Pcs
  <2>3. req' \in [Request -> Tasks]
    BY <2>2 DEF Inv, TypeOK
  <2> QED
    BY <2>3 DEF Inv, TypeOK
<1>2. Holders' = Holders
  BY DEF Inv, TypeOK, Tasks, Holders, Holds
<1>3. PermitAccounting'
  <2>1. free + Cardinality(Holders) = MaxConcurrent
    BY DEF Inv, PermitAccounting, Holders
  <2>2. \A q \in Request : Holds(q)' <=> req'[q].pc \in {"admitted", "running"}
    BY DEF Inv, TypeOK, Tasks, PermitAccounting, Holds
  <2> QED
    BY <1>2, <2>1, <2>2 DEF PermitAccounting, Holders
<1>4. ExpiryCountedOnce' /\ Unanswered'
  BY DEF Inv, TypeOK, Tasks, ExpiryCountedOnce, Unanswered
<1>5. SignalOrder' /\ DeadlineAhead'
  BY DEF Inv, TypeOK, Tasks, SignalOrder, DeadlineAhead, Active, Holds
<1> QED
  BY <1>1, <1>3, <1>4, <1>5 DEF Inv

\* An admission takes one slot for one new holder.
LEMMA AdmittedInv == ASSUME Inv, NEW r \in Request, Admitted(r) PROVE Inv'
<1> USE GatewayAssumption DEF Admitted, process, at
<1>0. ~closed /\ free # 0 /\ free \in Nat /\ req[r] \in Tasks
  BY DEF try_acquire, Inv, TypeOK
<1>1. req' \in [Request -> Tasks]
  <2>1. [req[r] EXCEPT !.pc = "admitted", !.permit = TRUE] \in Tasks
    BY <1>0 DEF Tasks, Pcs
  <2> QED
    BY <2>1 DEF Inv, TypeOK
<1>2. ~Holds(r) /\ Holders' = Holders \cup {r}
  BY DEF Inv, TypeOK, PermitAccounting, Holders, Holds, Tasks
<1>3. Cardinality(Holders') = Cardinality(Holders) + 1
  BY <1>2, HoldersFinite, FS_AddElement DEF Holders
<1>4. free + Cardinality(Holders) = MaxConcurrent
  BY DEF Inv, PermitAccounting, Holders
<1>5. PermitAccounting'
  <2>1. \A q \in Request : Holds(q)' <=> req'[q].pc \in {"admitted", "running"}
    BY DEF Inv, TypeOK, PermitAccounting, Holds, Tasks
  <2>2. free' + Cardinality(Holders') = MaxConcurrent
    BY <1>0, <1>3, <1>4, HoldersFinite
  <2> QED
    BY <2>1, <2>2 DEF PermitAccounting, Holders
<1>6. TypeOK'
  <2>1. free \in 1 .. MaxConcurrent
    BY <1>0 DEF Inv, TypeOK
  <2>2. free' = free - 1
    OBVIOUS
  <2>3. free' \in 0 .. MaxConcurrent
    BY <2>1, <2>2
  <2> QED
    BY <1>1, <2>3 DEF Inv, TypeOK
<1>7. ExpiryCountedOnce' /\ Unanswered'
  BY DEF Inv, TypeOK, Tasks, ExpiryCountedOnce, Unanswered
<1>8. SignalOrder' /\ DeadlineAhead'
  <2>1. proc.grace_at = NotYet
    BY <1>0 DEF Inv, SignalOrder, DeadlineAhead
  <2> QED
    BY <2>1 DEF Inv, TypeOK, Tasks, SignalOrder, DeadlineAhead, Active
<1> QED
  BY <1>5, <1>6, <1>7, <1>8 DEF Inv

\* A move neither takes nor gives back a slot.
LEMMA MovesInv ==
  ASSUME Inv, NEW r \in Request, NEW pc \in {"body", "running", "managing"},
         Moves(r, pc), UNCHANGED <<closed, draining, proc, now>>
  PROVE  Inv'
<1> USE GatewayAssumption DEF Moves, goto, at
<1>1. TypeOK'
  <2>1. [req[r] EXCEPT !.pc = pc] \in Tasks
    BY DEF Inv, TypeOK, Tasks, Pcs
  <2> QED
    BY <2>1 DEF Inv, TypeOK
<1>2. Holders' = Holders
  BY DEF Inv, TypeOK, Holders, Holds, Tasks
<1>3. PermitAccounting'
  <2>1. free + Cardinality(Holders) = MaxConcurrent
    BY DEF Inv, PermitAccounting, Holders
  <2>2. \A q \in Request : Holds(q)' <=> req'[q].pc \in {"admitted", "running"}
    BY DEF Inv, TypeOK, PermitAccounting, Holds, Tasks
  <2> QED
    BY <1>2, <2>1, <2>2 DEF PermitAccounting, Holders
<1>4. ExpiryCountedOnce' /\ Unanswered'
  BY DEF Inv, TypeOK, Tasks, ExpiryCountedOnce, Unanswered
<1>5. SignalOrder' /\ DeadlineAhead'
  BY DEF Inv, TypeOK, Tasks, SignalOrder, DeadlineAhead, Active, Holds
<1> QED
  BY <1>1, <1>3, <1>4, <1>5 DEF Inv

\* The end of a task gives back the slot it held, and only that one; what it
\* counts is decided by where it ended.
LEMMA EndsInv ==
  ASSUME Inv, NEW r \in Request, NEW answer \in Answers \ {"none"},
         Ends(r, answer), UNCHANGED <<closed, draining, proc, now>>
  PROVE  Inv'
<1> USE GatewayAssumption DEF Ends, finish, ended, at
<1>0. free \in Nat /\ MaxConcurrent \in Nat /\ req[r] \in Tasks
  BY DEF Inv, TypeOK
<1>1. req' \in [Request -> Tasks]
  <2>1. ended(r, answer) \in Tasks
    BY <1>0 DEF Tasks, Pcs
  <2> QED
    BY <2>1 DEF Inv, TypeOK
<1>2. Holders' = Holders \ {r}
  BY DEF Inv, TypeOK, Holders, Holds, Tasks
<1>3. Cardinality(Holders') = IF Holds(r) THEN Cardinality(Holders) - 1 ELSE Cardinality(Holders)
  BY <1>2, HoldersFinite, FS_RemoveElement DEF Holders
<1>4. free + Cardinality(Holders) = MaxConcurrent
  BY DEF Inv, PermitAccounting, Holders
<1>5. free' + Cardinality(Holders') = MaxConcurrent /\ free' \in Nat
  BY <1>0, <1>3, <1>4, HoldersFinite
<1>6. IsFiniteSet(Holders') /\ Cardinality(Holders') \in Nat
  BY <1>2, HoldersFinite, FS_RemoveElement, FS_CardinalityType
<1>7. PermitAccounting'
  <2>1. \A q \in Request : Holds(q)' <=> req'[q].pc \in {"admitted", "running"}
    BY DEF Inv, TypeOK, PermitAccounting, Holds, Tasks
  <2> QED
    BY <1>5, <2>1 DEF PermitAccounting, Holders
<1>8. TypeOK'
  <2>1. free' \in 0 .. MaxConcurrent
    BY <1>5, <1>6
  <2>2. metrics' \in [Request -> [deadlines : Nat, overloads : Nat]]
    BY DEF Inv, TypeOK, record_deadline_exceeded
  <2> QED
    BY <1>1, <2>1, <2>2 DEF Inv, TypeOK
<1>9. ExpiryCountedOnce' /\ Unanswered'
  BY DEF Inv, TypeOK, Tasks, ExpiryCountedOnce, Unanswered, record_deadline_exceeded, Active
<1>10. SignalOrder' /\ DeadlineAhead'
  BY DEF Inv, TypeOK, Tasks, SignalOrder, DeadlineAhead, Active, Holds
<1> QED
  BY <1>7, <1>8, <1>9, <1>10 DEF Inv

----------------------------------------------------------------------------
\* The signal handler keeps the invariant: it closes the limiter first.
LEMMA SignalInv == ASSUME Inv, Signal PROVE Inv'
<1> USE DEF Signal, mark_draining
<1>1. TypeOK'
  BY DEF Inv, TypeOK
<1>2. PermitAccounting' /\ ExpiryCountedOnce' /\ Unanswered'
  BY DEF Inv, PermitAccounting, Holds, ExpiryCountedOnce, Unanswered, at
<1>3. SignalOrder'
  BY DEF Inv, TypeOK, SignalOrder
<1>4. DeadlineAhead'
  BY DEF Inv, TypeOK, DeadlineAhead, SignalOrder, Active, Holds
<1> QED
  BY <1>1, <1>2, <1>3, <1>4 DEF Inv

\* Closing the listener and the completion of the server change no request.
LEMMA ListenerInv == ASSUME Inv, StopListening \/ ServerDone PROVE Inv'
<1> USE DEF StopListening, ServerDone
<1>1. TypeOK'
  BY DEF Inv, TypeOK
<1>2. PermitAccounting' /\ ExpiryCountedOnce' /\ Unanswered'
  <2>1. PermitAccounting'
    BY DEF Inv, PermitAccounting, Holds
  <2>2. ExpiryCountedOnce'
    BY DEF Inv, ExpiryCountedOnce
  <2>3. Unanswered'
    BY DEF Inv, Unanswered, at
  <2> QED
    BY <2>1, <2>2, <2>3
<1>3. SignalOrder' /\ DeadlineAhead'
  BY DEF Inv, TypeOK, SignalOrder, DeadlineAhead, Active, Holds
<1> QED
  BY <1>1, <1>2, <1>3 DEF Inv

\* When the grace timer starts, whoever holds a slot is active, so its deadline
\* is at most one budget away.
LEMMA StartGraceInv == ASSUME Inv, StartGrace PROVE Inv'
<1> USE GatewayAssumption DEF StartGrace
<1>0. now + Grace \in Nat
  BY DEF Inv, TypeOK
<1>1. TypeOK'
  BY <1>0 DEF Inv, TypeOK
<1>2. PermitAccounting' /\ ExpiryCountedOnce' /\ Unanswered'
  BY DEF Inv, PermitAccounting, Holds, ExpiryCountedOnce, Unanswered, at
<1>3. SignalOrder'
  BY DEF Inv, TypeOK, SignalOrder
<1>4. DeadlineAhead'
  <2>1. proc'.grace_at = now + Grace
    BY DEF Inv, TypeOK
  <2>2. ASSUME NEW r \in Request, Holds(r)
        PROVE  req[r].deadline <= now + Budget /\ req[r].deadline \in Nat
    BY <2>2 DEF Inv, TypeOK, Tasks, DeadlineAhead, PermitAccounting, Active, Holds
  <2>3. \A r \in Request : Holds(r) => req[r].deadline + Grace <= now + Grace + Budget
    BY <2>2 DEF Inv, TypeOK
  <2> QED
    BY <2>1, <2>3 DEF Inv, DeadlineAhead, Active, Holds
<1> QED
  BY <1>1, <1>2, <1>3, <1>4 DEF Inv

\* The end of the grace period cancels every task: all slots come back at once.
LEMMA GraceElapsedInv == ASSUME Inv, GraceElapsed PROVE Inv'
<1> USE GatewayAssumption DEF GraceElapsed
<1>1. \A r \in Request : req[r] \in Tasks /\ (Holds(r) => Active(r))
  BY DEF Inv, TypeOK, PermitAccounting, Holds, Active
<1>2. \A r \in Request : ended(r, "Dropped") \in Tasks
  BY <1>1 DEF ended, Tasks, Pcs, Answers
<1>3. req' \in [Request -> Tasks]
  BY <1>1, <1>2
<1>4. \A r \in Request :
        req'[r] = IF Active(r) THEN ended(r, "Dropped") ELSE req[r]
  OBVIOUS
<1>5. \A r \in Request : ~Holds(r)' /\ req'[r].pc \notin {"admitted", "running"}
  BY <1>1, <1>4 DEF ended, Holds, Active, Tasks
<1>6. Cardinality(Holders') = 0
  <2>1. Holders' = {}
    BY <1>5 DEF Holders
  <2> QED
    BY <2>1, FS_EmptySet
<1>7. free' = MaxConcurrent
  BY DEF Inv, PermitAccounting, Holders
<1>8. PermitAccounting'
  <2>1. free' + Cardinality(Holders') = MaxConcurrent
    BY <1>6, <1>7
  <2> QED
    BY <1>5, <2>1 DEF PermitAccounting, Holders
<1>9. TypeOK'
  <2>1. free' \in 0 .. MaxConcurrent
    BY <1>7
  <2> QED
    BY <1>3, <2>1 DEF Inv, TypeOK
<1>10. ExpiryCountedOnce' /\ Unanswered'
  <2>1. ASSUME NEW r \in Request, Active(r)
        PROVE  /\ req'[r].pc = "done" /\ req'[r].answer = "Dropped"
               /\ metrics'[r] = metrics[r] /\ metrics[r].deadlines = 0
    BY <1>1, <1>4, <2>1 DEF Inv, TypeOK, Tasks, Unanswered, ended, Active, at
  <2>2. \A r \in Request : ~Active(r) => req'[r] = req[r]
    BY <1>4
  <2>3. Unanswered'
    BY <2>1, <2>2 DEF Inv, Unanswered, at
  <2> QED
    BY <2>1, <2>2, <2>3 DEF Inv, ExpiryCountedOnce
<1>11. SignalOrder' /\ DeadlineAhead'
  BY <1>1, <1>4, <1>5 DEF Inv, TypeOK, Tasks, SignalOrder, DeadlineAhead, Active, ended
<1> QED
  BY <1>8, <1>9, <1>10, <1>11 DEF Inv

\* Time only moves deadlines closer.
LEMMA TickInv == ASSUME Inv, Tick PROVE Inv'
<1> USE GatewayAssumption DEF Tick, process
<1>1. TypeOK'
  BY DEF Inv, TypeOK
<1>2. PermitAccounting' /\ ExpiryCountedOnce' /\ Unanswered' /\ SignalOrder'
  BY DEF Inv, PermitAccounting, Holds, ExpiryCountedOnce, Unanswered, SignalOrder, at
<1>3. DeadlineAhead'
  BY DEF Inv, TypeOK, Tasks, DeadlineAhead, Active, Holds
<1> QED
  BY <1>1, <1>2, <1>3 DEF Inv

\* A step that changes nothing keeps it.
LEMMA StutterInv == ASSUME Inv, UNCHANGED vars PROVE Inv'
  BY DEF vars, Inv, TypeOK, PermitAccounting, ExpiryCountedOnce, Unanswered, SignalOrder,
     DeadlineAhead, Holds, Active, at

\* Every step keeps the invariant.
LEMMA InvStep == Inv /\ [Next]_vars => Inv'
<1> SUFFICES ASSUME Inv, [Next]_vars PROVE Inv'
  OBVIOUS
<1>1. ASSUME NEW r \in Request, Work(r) \/ Disconnect(r) PROVE Inv'
  <2>1. TypeOK
    BY DEF Inv
  <2> QED
    BY <1>1, <2>1, TaskSteps, AdmittedInv, EndsInv, MovesInv
<1> QED
  BY <1>1, ArriveInv, SignalInv, ListenerInv, StartGraceInv, GraceElapsedInv, TickInv,
     StutterInv DEF Next, Lifecycle

\* The pipeline starts with every slot free and nothing answered.
LEMMA InvInit == Init => Inv
<1> SUFFICES ASSUME Init PROVE Inv
  OBVIOUS
<1> USE GatewayAssumption DEF Init
<1>1. TypeOK
  <2>1. free \in 0 .. MaxConcurrent
    OBVIOUS
  <2>2. req \in [Request -> Tasks]
    BY DEF Tasks, Pcs, Answers
  <2> QED
    BY <2>1, <2>2 DEF TypeOK
<1>2. PermitAccounting
  <2>1. Holders = {}
    BY DEF Holders, Holds
  <2>2. Cardinality(Holders) = 0
    BY <2>1, FS_EmptySet
  <2>3. free + Cardinality(Holders) = MaxConcurrent
    BY <2>2
  <2> QED
    BY <2>3 DEF PermitAccounting, Holds, Holders
<1>3. ExpiryCountedOnce /\ Unanswered /\ SignalOrder /\ DeadlineAhead
  BY DEF ExpiryCountedOnce, Unanswered, SignalOrder, DeadlineAhead, Active, at, NotYet
<1> QED
  BY <1>1, <1>2, <1>3 DEF Inv

\* Every reachable state of the pipeline satisfies the invariant.
THEOREM GatewayInvariant == Spec => []Inv
  BY InvInit, InvStep, PTL DEF Spec

\* No generation slot is ever lost or given back twice, whatever mix of answers,
\* refusals, expiries, disconnects and cancellations ends the requests that held
\* them.
THEOREM SlotsAreConserved == Spec => []PermitAccounting
<1>1. Inv => PermitAccounting
  BY DEF Inv
<1> QED
  BY <1>1, GatewayInvariant, PTL

\* The middleware and the executor never both count the expiry of one request,
\* and the expiry of a body read, an execution or a management operation never
\* goes uncounted.
THEOREM ExpiriesAreCountedOnce == Spec => []ExpiryCountedOnce
<1>1. Inv => ExpiryCountedOnce
  BY DEF Inv
<1> QED
  BY <1>1, GatewayInvariant, PTL

\* Under a visible drain flag nothing is admitted and nobody is told to retry,
\* because the limiter is closed before the flag is raised.
THEOREM DrainsAreFinal == Spec => DrainIsFinal
<1> DEFINE Kept(r) == /\ Holds(r)' => Holds(r)
                      /\ req'[r].answer = "Overloaded" => req[r].answer = "Overloaded"
<1>1. ASSUME Inv, draining, [Next]_vars PROVE \A r \in Request : Kept(r)
  <2>0. closed /\ TypeOK
    BY <1>1 DEF Inv, SignalOrder
  <2>1. ASSUME NEW q \in Request, Arrive(q) PROVE \A r \in Request : Kept(r)
    BY <2>0, <2>1 DEF Arrive, TypeOK, Tasks, Holds
  <2>2. ASSUME NEW q \in Request, Work(q) \/ Disconnect(q) PROVE \A r \in Request : Kept(r)
    <3>1. ~Admitted(q)
      BY <2>0 DEF Admitted, try_acquire
    <3>2. ASSUME NEW answer \in Answers \ {"none"}, Ends(q, answer)
          PROVE  \A r \in Request : Kept(r)
      BY <2>0, <3>2 DEF Ends, finish, ended, TypeOK, Tasks, Holds
    <3>3. ASSUME NEW pc \in {"body", "running", "managing"}, Moves(q, pc)
          PROVE  \A r \in Request : Kept(r)
      BY <2>0, <3>3 DEF Moves, goto, TypeOK, Tasks, Holds
    <3> QED
      BY <2>0, <2>2, <3>1, <3>2, <3>3, TaskSteps
  <2>3. CASE GraceElapsed
    BY <2>0, <2>3 DEF GraceElapsed, ended, Holds, TypeOK, Tasks
  <2>4. CASE Signal \/ StopListening \/ StartGrace \/ ServerDone \/ Tick \/ UNCHANGED vars
    BY <2>4 DEF Signal, StopListening, StartGrace, ServerDone, Tick, vars, Holds
  <2> QED
    BY <1>1, <2>1, <2>2, <2>3, <2>4 DEF Next, Lifecycle
<1>2. Inv /\ [Next]_vars => [draining => \A r \in Request : Kept(r)]_vars
  BY <1>1
<1> QED
  BY <1>2, GatewayInvariant, PTL DEF Spec, DrainIsFinal

\* If the grace period is no shorter than the request deadline, every generation
\* that is still admitted when the process goes down has expired by then.
THEOREM GraceIsEnough == Spec => GraceCoversAdmitted
<1> DEFINE Covered == Grace >= Budget /\ proc.up /\ ~proc'.up =>
                        \A r \in Request : Holds(r) => expired(r)
<1>1. ASSUME Inv, [Next]_vars, Grace >= Budget, proc.up, ~proc'.up,
             NEW r \in Request, Holds(r)
      PROVE  expired(r)
  <2>0. TypeOK /\ Active(r)
    BY <1>1 DEF Inv, PermitAccounting, Active
  <2>1. CASE GraceElapsed
    <3>1. req[r].deadline + Grace <= proc.grace_at + Budget /\ now >= proc.grace_at
      BY <1>1, <2>1 DEF GraceElapsed, Inv, DeadlineAhead
    <3>2. req[r].deadline \in Nat /\ now \in Nat /\ proc.grace_at \in Nat
      BY <2>0, <2>1 DEF GraceElapsed, TypeOK, Tasks
    <3> QED
      BY <1>1, <3>1, <3>2, GatewayAssumption DEF expired
  <2>2. ~ServerDone
    BY <2>0 DEF ServerDone
  <2>3. ASSUME NEW q \in Request, Arrive(q) \/ Work(q) \/ Disconnect(q) PROVE FALSE
    BY <1>1, <2>0, <2>3, TaskSteps DEF Arrive, process
  <2>4. CASE Signal \/ StopListening \/ StartGrace \/ Tick \/ UNCHANGED vars
    BY <1>1, <2>0, <2>4 DEF Signal, StopListening, StartGrace, Tick, vars, process, TypeOK
  <2> QED
    BY <1>1, <2>1, <2>2, <2>3, <2>4 DEF Next, Lifecycle
<1>2. Inv /\ [Next]_vars => [Covered]_vars
  BY <1>1
<1> QED
  BY <1>2, GatewayInvariant, PTL DEF Spec, GraceCoversAdmitted
=============================================================================
