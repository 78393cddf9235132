------------------------------- MODULE Circuit --------------------------------
(***************************************************************************)
(* TargetCircuitRegistry (features/executor/circuit.rs): one circuit per   *)
(* catalog target, shared by concurrent hops.  A hop asks for admission,   *)
(* calls the provider, and settles or drops the permit it was given,       *)
(* possibly long after the circuit has moved on.                           *)
(***************************************************************************)
EXTENDS CircuitOps

CONSTANTS
    Caller,         \* hops running concurrently; each holds at most one permit
    Target,         \* catalog targets
    NoPermit,       \* the permit of a hop that holds none
    MaxGeneration,  \* bound: no admission once a circuit is this old
    MaxTime         \* bound: the clock stops here

Permits == [target : Target, generation : Nat, kind : {"Closed", "Probe"}]

\* What a permit is to the abstract breaker: the generation is its representation.
HoldKinds == [target : Target, kind : {"Closed", "Probe"}]

ASSUME PermitAssumption == NoPermit \notin Permits /\ NoPermit \notin HoldKinds
ASSUME BoundAssumption == MaxGeneration \in Nat /\ MaxTime \in Nat

VARIABLES
    circuit,    \* circuit[t]: the registry's entry for target t
    permit,     \* permit[c]: the CircuitPermit hop c holds, or NoPermit
    now         \* the InstantClock

vars == <<circuit, permit, now>>

TypeOK ==
    /\ circuit \in [Target -> CircuitStates]
    /\ permit \in [Caller -> Permits \cup {NoPermit}]
    /\ now \in Nat

Init ==
    /\ circuit = [t \in Target |-> DefaultCircuit]
    /\ permit = [c \in Caller |-> NoPermit]
    /\ now = 0

----------------------------------------------------------------------------
Holds(c) == permit[c] # NoPermit

\* admit: a closed circuit issues a permit of its generation, a circuit that is
\* due for a probe advances and issues the probe permit, any other rejects.
Allow(c, t) ==
    /\ ~Holds(c)
    /\ circuit[t].generation < MaxGeneration
    /\ admission(circuit[t], now) = "Allow"
    /\ permit' = [permit EXCEPT ![c] =
         [target |-> t, generation |-> circuit[t].generation, kind |-> "Closed"]]
    /\ UNCHANGED <<circuit, now>>

Probe(c, t) ==
    /\ ~Holds(c)
    /\ circuit[t].generation < MaxGeneration
    /\ admission(circuit[t], now) = "Probe"
    /\ circuit' = [circuit EXCEPT ![t] = start_probe(circuit[t])]
    /\ permit' = [permit EXCEPT ![c] =
         [target |-> t, generation |-> circuit[t].generation + 1, kind |-> "Probe"]]
    /\ UNCHANGED now

\* success, transient_failure and ignore_permanent consume the permit.
Settle(c, outcome) ==
    /\ Holds(c)
    /\ LET p == permit[c] IN
         circuit' = [circuit EXCEPT ![p.target] =
                       complete(circuit[p.target], p.generation, p.kind, outcome, now)]
    /\ permit' = [permit EXCEPT ![c] = NoPermit]
    /\ UNCHANGED now

\* A permit dropped unsettled: a deadline, a cancelled request, or an error of a
\* closed hop that says nothing about the target's health.
Drop(c) ==
    /\ Holds(c)
    /\ LET p == permit[c] IN
         circuit' = IF p.kind = "Probe"
                    THEN [circuit EXCEPT ![p.target] =
                            release_probe(circuit[p.target], p.generation)]
                    ELSE circuit
    /\ permit' = [permit EXCEPT ![c] = NoPermit]
    /\ UNCHANGED now

Tick ==
    /\ now < MaxTime
    /\ now' = now + 1
    /\ UNCHANGED <<circuit, permit>>

Next ==
    \/ \E c \in Caller, t \in Target : Allow(c, t) \/ Probe(c, t)
    \/ \E c \in Caller, outcome \in Outcomes : Settle(c, outcome)
    \/ \E c \in Caller : Drop(c)
    \/ Tick

Spec == Init /\ [][Next]_vars

\* Every hop ends (its request has a deadline and its permit is dropped with the
\* request), time passes, and traffic keeps asking each target for admission.
\* Hops are not a scarce resource in the program, so the small set Caller must not
\* starve a target: hence the strong fairness of Probe.
Fairness ==
    /\ \A c \in Caller :
         WF_vars(Drop(c) \/ \E outcome \in Outcomes : Settle(c, outcome))
    /\ \A t \in Target : SF_vars(\E c \in Caller : Probe(c, t))
    /\ WF_vars(Tick)

FairSpec == Spec /\ Fairness

----------------------------------------------------------------------------
Current(c) == Holds(c) /\ permit[c].generation = circuit[permit[c].target].generation

OwnsProbe(c, t) == Holds(c) /\ permit[c].kind = "Probe" /\ permit[c].target = t

\* At most one recovery probe is in flight per target, and the in_flight flag is
\* exact: it is raised exactly while some hop holds a probe permit, that permit
\* is of the current generation, and no second one exists.
ProbeOwnership ==
    \A t \in Target :
      /\ \A c \in Caller : OwnsProbe(c, t) => Current(c) /\ circuit[t].phase = "Probing"
      /\ circuit[t].phase = "Probing" =>
           \E c \in Caller : OwnsProbe(c, t)
      /\ \A c, d \in Caller : OwnsProbe(c, t) /\ OwnsProbe(d, t) => c = d

\* A permit that still has its circuit's generation finds the phase it was issued
\* in, so complete never meets its catch-all arm with a current permit; and no
\* permit is ahead of its circuit.
GenerationFixesPhase ==
    \A c \in Caller : Holds(c) =>
      LET s == circuit[permit[c].target] IN
        /\ permit[c].generation <= s.generation
        /\ permit[c].generation = s.generation =>
             s.phase = IF permit[c].kind = "Closed" THEN "Closed" ELSE "Probing"

\* A closed circuit is always short of its threshold: the failure that reaches it
\* opens the circuit in the same step.  An open one rejects for at most a cooldown.
PhaseBounds ==
    \A t \in Target :
      /\ circuit[t].phase = "Closed" => circuit[t].failures < Threshold
      /\ circuit[t].phase = "Open" => circuit[t].opened_until <= now + Cooldown

\* The refinement mapping: a hold is live while its generation is current.
AbsStatus == [t \in Target |-> [phase    |-> circuit[t].phase,
                                failures |-> circuit[t].failures,
                                until    |-> circuit[t].opened_until]]

AbsHold == [c \in Caller |->
              IF Holds(c)
              THEN [target |-> permit[c].target, kind |-> permit[c].kind]
              ELSE NoPermit]

AbsLive == {c \in Caller : Current(c)}

Abstract == INSTANCE Breaker WITH
    NoHold <- NoPermit, Limit <- Threshold, clock <- now,
    status <- AbsStatus, hold <- AbsHold, live <- AbsLive

\* The generation tokens implement revocation: a hop's completion counts exactly
\* when no opening, probe or recovery of its target has happened since its
\* admission, and no generation or phase is left for the caller to look at.
ImplementsBreaker == Abstract!Spec

\* With traffic, an open or abandoned half-open circuit gets a probe: no target is
\* rejected for ever (until the bounds on the clock or the generation stop the run).
OpenIsLeft ==
    \A t \in Target :
      circuit[t].phase \in {"Open", "HalfOpen"} ~>
        \/ circuit[t].phase \notin {"Open", "HalfOpen"}
        \/ circuit[t].generation >= MaxGeneration
        \/ circuit[t].phase = "Open" /\ MaxTime < circuit[t].opened_until
=============================================================================
