---------------------------- MODULE CircuitProofs -----------------------------
(***************************************************************************)
(* The circuit registry for every set of hops and targets, every threshold *)
(* and every cooldown: its invariants are inductive together, and its      *)
(* generation tokens implement the revocable holds of Breaker.             *)
(***************************************************************************)
EXTENDS Circuit, TLAPS

\* The fields that a phase does not carry are zero (the payload of a Rust enum
\* variant is gone when the variant changes).
Canonical ==
    \A t \in Target :
      /\ circuit[t].phase # "Closed" => circuit[t].failures = 0
      /\ circuit[t].phase # "Open" => circuit[t].opened_until = 0

Inv == TypeOK /\ ProbeOwnership /\ GenerationFixesPhase /\ PhaseBounds /\ Canonical

----------------------------------------------------------------------------
\* The effective threshold is a positive number, whatever is configured.
LEMMA ThresholdPositive == Threshold \in Nat /\ Threshold >= 1
  BY CircuitAssumption DEF Threshold

\* A settlement leaves a circuit state.
LEMMA SettledType ==
  ASSUME NEW s \in CircuitStates, NEW kind \in {"Closed", "Probe"},
         NEW outcome \in Outcomes, NEW n \in Nat
  PROVE  settled(s, kind, outcome, n) \in CircuitStates
  BY CircuitAssumption, ThresholdPositive
     DEF settled, set_open, close_circuit, trips, CircuitStates, Phases, Outcomes

\* So does a completion, stale or not.
LEMMA CompleteType ==
  ASSUME NEW s \in CircuitStates, NEW g \in Nat, NEW kind \in {"Closed", "Probe"},
         NEW outcome \in Outcomes, NEW n \in Nat
  PROVE  complete(s, g, kind, outcome, n) \in CircuitStates
  BY SettledType DEF complete

\* Giving a probe back leaves a circuit state.
LEMMA ReleaseType ==
  ASSUME NEW s \in CircuitStates, NEW g \in Nat
  PROVE  release_probe(s, g) \in CircuitStates
  BY DEF release_probe, CircuitStates, Phases

\* Starting a probe leaves a circuit state.
LEMMA StartProbeType ==
  ASSUME NEW s \in CircuitStates
  PROVE  start_probe(s) \in CircuitStates
  BY DEF start_probe, CircuitStates, Phases

\* Every step keeps the types of the registry's structures.
LEMMA CircuitTypeStep == TypeOK /\ [Next]_vars => TypeOK'
<1> SUFFICES ASSUME TypeOK, [Next]_vars PROVE TypeOK'
  OBVIOUS
<1>1. ASSUME NEW c \in Caller, NEW t \in Target, Allow(c, t) PROVE TypeOK'
  BY <1>1 DEF Allow, TypeOK, Permits, CircuitStates
<1>2. ASSUME NEW c \in Caller, NEW t \in Target, Probe(c, t) PROVE TypeOK'
  BY <1>2, StartProbeType DEF Probe, TypeOK, Permits, CircuitStates
<1>3. ASSUME NEW c \in Caller, NEW outcome \in Outcomes, Settle(c, outcome)
      PROVE  TypeOK'
  <2>1. permit[c] \in Permits
    BY <1>3 DEF Settle, Holds, TypeOK
  <2>2. circuit[permit[c].target] \in CircuitStates
    BY <2>1 DEF TypeOK, Permits
  <2>3. complete(circuit[permit[c].target], permit[c].generation,
                 permit[c].kind, outcome, now) \in CircuitStates
    BY <2>1, <2>2, CompleteType DEF TypeOK, Permits
  <2> QED
    BY <1>3, <2>3 DEF Settle, TypeOK
<1>4. ASSUME NEW c \in Caller, Drop(c) PROVE TypeOK'
  <2>1. permit[c] \in Permits
    BY <1>4 DEF Drop, Holds, TypeOK
  <2>2. release_probe(circuit[permit[c].target], permit[c].generation)
          \in CircuitStates
    BY <2>1, ReleaseType DEF TypeOK, Permits
  <2> QED
    BY <1>4, <2>2 DEF Drop, TypeOK
<1>5. CASE Tick
  BY <1>5 DEF Tick, TypeOK
<1>6. CASE UNCHANGED vars
  BY <1>6 DEF vars, TypeOK
<1> QED
  BY <1>1, <1>2, <1>3, <1>4, <1>5, <1>6 DEF Next

\* Every reachable state has the types of the registry's structures.
THEOREM CircuitTypeOK == Spec => []TypeOK
<1>1. Init => TypeOK
  BY DEF Init, TypeOK, DefaultCircuit, CircuitStates, Phases
<1> QED
  BY <1>1, CircuitTypeStep, PTL DEF Spec

----------------------------------------------------------------------------
\* What a settlement does to the circuit the permit belongs to, for the shape
\* of state that the invariant guarantees.
LEMMA CompleteCases ==
  ASSUME NEW s \in CircuitStates, NEW g \in Nat, NEW kind \in {"Closed", "Probe"},
         NEW outcome \in Outcomes, NEW n \in Nat,
         g = s.generation => s.phase = IF kind = "Closed" THEN "Closed" ELSE "Probing"
  PROVE  \/ /\ complete(s, g, kind, outcome, n) = s
            /\ g = s.generation => kind = "Closed"
         \/ /\ g = s.generation /\ kind = "Closed" /\ outcome = "Success"
            /\ complete(s, g, kind, outcome, n) = [s EXCEPT !.failures = 0]
         \/ /\ g = s.generation /\ kind = "Closed" /\ s.failures + 1 < Threshold
            /\ complete(s, g, kind, outcome, n) = [s EXCEPT !.failures = s.failures + 1]
         \/ /\ g = s.generation
            /\ kind = "Closed" => s.failures + 1 >= Threshold
            /\ complete(s, g, kind, outcome, n) = set_open(s, n)
         \/ /\ g = s.generation /\ kind = "Probe"
            /\ complete(s, g, kind, outcome, n) = close_circuit(s)
  BY ThresholdPositive DEF complete, settled, trips, Outcomes, CircuitStates

\* Every step keeps the invariants.  A settlement is the hard case: CompleteCases
\* splits it into the five things it can do to the circuit.
LEMMA InvStep == Inv /\ [Next]_vars => Inv'
<1> SUFFICES ASSUME Inv, [Next]_vars PROVE Inv'
  OBVIOUS
<1>0. TypeOK /\ TypeOK'
  BY CircuitTypeStep DEF Inv
<1> USE <1>0, ThresholdPositive, CircuitAssumption
<1>1. ASSUME NEW c \in Caller, NEW t \in Target, Allow(c, t) PROVE Inv'
  <2> USE <1>1
  <2>1. ProbeOwnership'
    BY PermitAssumption DEF Allow, Inv, ProbeOwnership, OwnsProbe, Current, Holds, TypeOK, Permits
  <2>2. GenerationFixesPhase'
    BY PermitAssumption DEF Allow, admission, Inv, GenerationFixesPhase, Holds, TypeOK, Permits,
       CircuitStates, Phases
  <2>3. PhaseBounds' /\ Canonical'
    BY DEF Allow, Inv, PhaseBounds, Canonical
  <2> QED
    BY <2>1, <2>2, <2>3 DEF Inv
<1>2. ASSUME NEW c \in Caller, NEW t \in Target, Probe(c, t) PROVE Inv'
  <2> USE <1>2
  <2>0. circuit[t].phase \in {"Open", "HalfOpen"}
    BY DEF Probe, admission, TypeOK, CircuitStates, Phases
  <2>1. ProbeOwnership'
    BY <2>0, PermitAssumption DEF Probe, start_probe, Inv, ProbeOwnership, OwnsProbe,
       Current, Holds, TypeOK, Permits, CircuitStates
  <2>2. GenerationFixesPhase'
    BY <2>0, PermitAssumption DEF Probe, start_probe, Inv, GenerationFixesPhase,
       Holds, TypeOK, Permits, CircuitStates
  <2>3. PhaseBounds' /\ Canonical'
    BY DEF Probe, start_probe, Inv, PhaseBounds, Canonical, TypeOK
  <2> QED
    BY <2>1, <2>2, <2>3 DEF Inv
<1>3. ASSUME NEW c \in Caller, NEW outcome \in Outcomes, Settle(c, outcome) PROVE Inv'
  <2> USE <1>3
  <2> DEFINE p == permit[c]
             t == p.target
             s == circuit[t]
             u == complete(s, p.generation, p.kind, outcome, now)
  <2>1. p \in Permits /\ t \in Target /\ s \in CircuitStates /\ p.generation \in Nat
        /\ p.kind \in {"Closed", "Probe"} /\ now \in Nat
    BY DEF Settle, Holds, TypeOK, Permits
  <2>2. p.generation = s.generation =>
          s.phase = IF p.kind = "Closed" THEN "Closed" ELSE "Probing"
    BY DEF Settle, Inv, GenerationFixesPhase, Holds
  <2>3. /\ circuit' = [circuit EXCEPT ![t] = u]
        /\ permit' = [permit EXCEPT ![c] = NoPermit]
        /\ now' = now
    BY DEF Settle
  <2>4. OwnsProbe(c, t) => p.generation = s.generation /\ s.phase = "Probing"
    BY <2>1 DEF Inv, ProbeOwnership, Current
  <2>5. p.kind = "Probe" => OwnsProbe(c, t)
    BY DEF OwnsProbe, Settle
  <2> HIDE DEF u
  <2>6. CASE u = s /\ p.kind = "Closed"
    <3>1. circuit' = circuit
      BY <2>3, <2>6, <2>1 DEF TypeOK
    <3> QED
      BY <3>1, <2>3, <2>6, <2>1, PermitAssumption DEF Inv, ProbeOwnership, OwnsProbe, Current,
         Holds, GenerationFixesPhase, PhaseBounds, Canonical, TypeOK, Permits
  <2>7. CASE /\ p.generation = s.generation /\ p.kind = "Closed"
             /\ \/ u = [s EXCEPT !.failures = 0]
                \/ s.failures + 1 < Threshold /\ u = [s EXCEPT !.failures = s.failures + 1]
    <3>1. /\ s.phase = "Closed" /\ u.phase = "Closed" /\ u.generation = s.generation
          /\ u.opened_until = s.opened_until /\ u.failures < Threshold
      BY <2>7, <2>2, <2>1 DEF CircuitStates
    <3>2. ProbeOwnership'
      BY <3>1, <2>1, <2>3, <2>7, PermitAssumption DEF Inv, ProbeOwnership, OwnsProbe, Current,
         Holds, TypeOK, Permits
    <3>3. GenerationFixesPhase'
      BY <3>1, <2>1, <2>3, PermitAssumption DEF Inv, GenerationFixesPhase, Holds, TypeOK, Permits
    <3>4. PhaseBounds' /\ Canonical'
      BY <3>1, <2>1, <2>3 DEF Inv, PhaseBounds, Canonical, TypeOK
    <3> QED
      BY <3>2, <3>3, <3>4 DEF Inv
  <2>8. CASE p.generation = s.generation /\ u \in {set_open(s, now), close_circuit(s)}
    <3>1. /\ u.phase \in {"Open", "Closed"} /\ u.generation = s.generation + 1
          /\ u.failures = 0 /\ u.opened_until <= now + Cooldown
          /\ u.phase = "Closed" => u.opened_until = 0
      BY <2>8, <2>1 DEF set_open, close_circuit
    <3>2. \A d \in Caller : d # c => ~OwnsProbe(d, t)
      <4> SUFFICES ASSUME NEW d \in Caller, d # c, OwnsProbe(d, t) PROVE FALSE
        OBVIOUS
      <4>1. s.phase = "Probing"
        BY <2>1 DEF Inv, ProbeOwnership
      <4>2. OwnsProbe(c, t)
        BY <4>1, <2>1, <2>2, <2>8, <2>5
      <4> QED
        BY <4>2, <2>1 DEF Inv, ProbeOwnership
    <3>3. ProbeOwnership'
      BY <3>1, <3>2, <2>1, <2>3, PermitAssumption DEF Inv, ProbeOwnership, OwnsProbe, Current,
         Holds, TypeOK, Permits
    <3>4. GenerationFixesPhase'
      BY <3>1, <2>1, <2>3, PermitAssumption DEF Inv, GenerationFixesPhase, Holds, TypeOK, Permits,
         CircuitStates
    <3>5. PhaseBounds' /\ Canonical'
      BY <3>1, <2>1, <2>3 DEF Inv, PhaseBounds, Canonical, TypeOK
    <3> QED
      BY <3>3, <3>4, <3>5 DEF Inv
  <2> QED
    <3>1. \/ u = s /\ (p.generation = s.generation => p.kind = "Closed")
          \/ /\ p.generation = s.generation /\ p.kind = "Closed"
             /\ \/ u = [s EXCEPT !.failures = 0]
                \/ s.failures + 1 < Threshold /\ u = [s EXCEPT !.failures = s.failures + 1]
          \/ p.generation = s.generation /\ u \in {set_open(s, now), close_circuit(s)}
      BY <2>1, <2>2, CompleteCases DEF u
    <3>2. p.kind = "Probe" => p.generation = s.generation
      BY <2>4, <2>5
    <3> QED
      BY <3>1, <3>2, <2>1, <2>6, <2>7, <2>8
<1>4. ASSUME NEW c \in Caller, Drop(c) PROVE Inv'
  <2> USE <1>4
  <2> DEFINE p == permit[c]
             t == p.target
             s == circuit[t]
  <2>1. p \in Permits /\ t \in Target /\ s \in CircuitStates /\ p.generation \in Nat
        /\ p.kind \in {"Closed", "Probe"}
    BY DEF Drop, Holds, TypeOK, Permits
  <2>2. permit' = [permit EXCEPT ![c] = NoPermit] /\ now' = now
    BY DEF Drop
  <2>3. CASE p.kind = "Closed"
    <3>1. circuit' = circuit
      BY <2>3 DEF Drop
    <3> QED
      BY <3>1, <2>1, <2>2, <2>3, PermitAssumption DEF Inv, ProbeOwnership, OwnsProbe, Current,
         Holds, GenerationFixesPhase, PhaseBounds, Canonical, TypeOK, Permits
  <2>4. CASE p.kind = "Probe"
    <3>1. OwnsProbe(c, t) /\ p.generation = s.generation /\ s.phase = "Probing"
      BY <2>1, <2>4 DEF Drop, OwnsProbe, Inv, ProbeOwnership, Current
    <3>2. circuit' = [circuit EXCEPT ![t] = [s EXCEPT !.phase = "HalfOpen"]]
      BY <2>4, <3>1 DEF Drop, release_probe
    <3>3. \A d \in Caller : d # c => ~OwnsProbe(d, t)
      BY <3>1, <2>1 DEF Inv, ProbeOwnership
    <3>4. ProbeOwnership'
      BY <3>1, <3>2, <3>3, <2>1, <2>2, PermitAssumption DEF Inv, ProbeOwnership, OwnsProbe,
         Current, Holds, TypeOK, Permits, CircuitStates
    <3>5. GenerationFixesPhase'
      <4> SUFFICES ASSUME NEW d \in Caller, permit[d] # NoPermit, d # c
                   PROVE  /\ permit[d].generation <= circuit'[permit[d].target].generation
                          /\ permit[d].generation = circuit'[permit[d].target].generation =>
                               circuit'[permit[d].target].phase =
                                 IF permit[d].kind = "Closed" THEN "Closed" ELSE "Probing"
        BY <2>2 DEF GenerationFixesPhase, Holds, TypeOK
      <4>1. permit[d] \in Permits
        BY DEF TypeOK
      <4>2. CASE permit[d].target = t
        <5>1. permit[d].kind = "Closed"
          BY <3>3, <4>1, <4>2 DEF OwnsProbe, Holds, Permits
        <5>2. permit[d].generation # s.generation
          BY <5>1, <3>1, <4>2 DEF Inv, GenerationFixesPhase, Holds
        <5> QED
          BY <5>2, <3>2, <4>1, <4>2, <2>1 DEF Inv, GenerationFixesPhase, Holds, TypeOK,
             CircuitStates, Permits
      <4>3. CASE permit[d].target # t
        BY <3>2, <4>1, <4>3, <2>1 DEF Inv, GenerationFixesPhase, Holds, TypeOK, Permits
      <4> QED
        BY <4>2, <4>3
    <3>6. PhaseBounds' /\ Canonical'
      BY <3>1, <3>2, <2>1, <2>2 DEF Inv, PhaseBounds, Canonical, TypeOK, CircuitStates
    <3> QED
      BY <3>4, <3>5, <3>6 DEF Inv
  <2> QED
    BY <2>1, <2>3, <2>4
<1>5. CASE Tick
  <2>1. circuit' = circuit /\ permit' = permit /\ now' = now + 1
    BY <1>5 DEF Tick
  <2>2. PhaseBounds'
    BY <2>1 DEF Inv, PhaseBounds, TypeOK, CircuitStates
  <2> QED
    BY <2>1, <2>2 DEF Inv, ProbeOwnership, OwnsProbe, Current, Holds, GenerationFixesPhase,
       Canonical
<1>6. CASE UNCHANGED vars
  BY <1>6 DEF vars, Inv, ProbeOwnership, OwnsProbe, Current, Holds, GenerationFixesPhase,
     PhaseBounds, Canonical
<1> QED
  BY <1>1, <1>2, <1>3, <1>4, <1>5, <1>6 DEF Next

\* The registry's invariants, for any number of hops and targets.
THEOREM CircuitInvariant == Spec => []Inv
<1>1. Init => Inv
  BY ThresholdPositive, CircuitAssumption, PermitAssumption
     DEF Init, Inv, TypeOK, DefaultCircuit, CircuitStates, Phases, ProbeOwnership, OwnsProbe,
         Current, Holds, GenerationFixesPhase, PhaseBounds, Canonical
<1> QED
  BY <1>1, InvStep, PTL DEF Spec

\* At most one recovery probe is in flight per target, and in_flight is exact.
THEOREM SingleProbe == Spec => []ProbeOwnership
<1>1. Inv => ProbeOwnership
  BY DEF Inv
<1> QED
  BY <1>1, CircuitInvariant, PTL

\* A permit of the current generation finds the phase it was issued in.
THEOREM CurrentPermitFits == Spec => []GenerationFixesPhase
<1>1. Inv => GenerationFixesPhase
  BY DEF Inv
<1> QED
  BY <1>1, CircuitInvariant, PTL

\* Closed circuits stay below the threshold and open ones end within a cooldown.
THEOREM BoundedPhases == Spec => []PhaseBounds
<1>1. Inv => PhaseBounds
  BY DEF Inv
<1> QED
  BY <1>1, CircuitInvariant, PTL

----------------------------------------------------------------------------
(***************************************************************************)
(* Refinement.  The initial states map to initial states; each action maps *)
(* to the action of Breaker that its case of settled stands for.           *)
(***************************************************************************)

\* A fresh registry is a fresh breaker: all closed, no holds.
LEMMA RefinesInit == Init => Abstract!Init
<1> SUFFICES ASSUME Init PROVE Abstract!Init
  OBVIOUS
<1>1. AbsStatus = [t \in Target |-> Abstract!Closed(0)]
  BY DEF Init, AbsStatus, Abstract!Closed, DefaultCircuit
<1>2. AbsHold = [c \in Caller |-> NoPermit] /\ AbsLive = {}
  BY DEF Init, AbsHold, AbsLive, Current, Holds
<1> QED
  BY <1>1, <1>2 DEF Init, Abstract!Init

\* Reading the mapped state.
LEMMA Mapped ==
  ASSUME TypeOK
  PROVE  /\ \A t \in Target : /\ AbsStatus[t].phase = circuit[t].phase
                              /\ AbsStatus[t].failures = circuit[t].failures
                              /\ AbsStatus[t].until = circuit[t].opened_until
         /\ \A c \in Caller : Holds(c) <=> AbsHold[c] # NoPermit
         /\ \A c \in Caller : Holds(c) =>
               /\ AbsHold[c].target = permit[c].target
               /\ AbsHold[c].kind = permit[c].kind
         /\ \A c \in Caller : c \in AbsLive <=> Current(c)
<1>1. \A t \in Target : /\ AbsStatus[t].phase = circuit[t].phase
                       /\ AbsStatus[t].failures = circuit[t].failures
                       /\ AbsStatus[t].until = circuit[t].opened_until
  BY DEF AbsStatus
<1>2. \A c \in Caller : ~Holds(c) => AbsHold[c] = NoPermit
  BY DEF AbsHold
<1>3. \A c \in Caller : Holds(c) => AbsHold[c] = [target |-> permit[c].target, kind |-> permit[c].kind]
  BY DEF AbsHold
<1>4. \A c \in Caller : Holds(c) => AbsHold[c] # NoPermit
  <2> SUFFICES ASSUME NEW c \in Caller, Holds(c) PROVE AbsHold[c] # NoPermit
    OBVIOUS
  <2>1. permit[c] \in Permits
    BY DEF Holds, TypeOK
  <2>2. [target |-> permit[c].target, kind |-> permit[c].kind] \in HoldKinds
    BY <2>1 DEF Permits, HoldKinds
  <2> QED
    BY <2>2, <1>3, PermitAssumption
<1>5. \A c \in Caller : c \in AbsLive <=> Current(c)
  BY DEF AbsLive
<1>6. \A c \in Caller : Holds(c) => /\ AbsHold[c].target = permit[c].target
                                   /\ AbsHold[c].kind = permit[c].kind
  <2> SUFFICES ASSUME NEW c \in Caller, Holds(c)
               PROVE  AbsHold[c].target = permit[c].target /\ AbsHold[c].kind = permit[c].kind
    OBVIOUS
  <2>1. AbsHold[c] = [target |-> permit[c].target, kind |-> permit[c].kind]
    BY <1>3
  <2> QED
    BY <2>1
<1> QED
  BY <1>1, <1>2, <1>4, <1>5, <1>6

\* A hop that gives its permit back gives its hold back.
LEMMA MappedRelease ==
  ASSUME TypeOK, NEW c \in Caller, permit' = [permit EXCEPT ![c] = NoPermit]
  PROVE  AbsHold' = [AbsHold EXCEPT ![c] = NoPermit]
  BY DEF AbsHold, Holds, TypeOK

\* A hop that is given a permit is given the hold it maps to.
LEMMA MappedAdmit ==
  ASSUME TypeOK, NEW c \in Caller, NEW p \in Permits, permit' = [permit EXCEPT ![c] = p]
  PROVE  AbsHold' = [AbsHold EXCEPT ![c] = [target |-> p.target, kind |-> p.kind]]
<1>1. permit'[c] = p /\ p # NoPermit
  BY PermitAssumption DEF TypeOK
<1>2. \A d \in Caller : d # c => permit'[d] = permit[d]
  BY DEF TypeOK
<1> QED
  BY <1>1, <1>2 DEF AbsHold, Holds

\* A step that changes one circuit changes one status.
LEMMA MappedCircuit ==
  ASSUME TypeOK, NEW t \in Target, NEW u, circuit' = [circuit EXCEPT ![t] = u]
  PROVE  AbsStatus' = [AbsStatus EXCEPT ![t] =
           [phase |-> u.phase, failures |-> u.failures, until |-> u.opened_until]]
  BY DEF AbsStatus, TypeOK

\* A closed admission is an admission of the closed breaker.
LEMMA RefinesAllow ==
  ASSUME Inv, NEW c \in Caller, NEW t \in Target, Allow(c, t)
  PROVE  Abstract!AdmitClosed(c, t)
<1>1. TypeOK
  BY DEF Inv
<1>2. circuit[t].phase = "Closed"
  BY <1>1 DEF Allow, admission, TypeOK, CircuitStates, Phases
<1>3. AbsHold[c] = NoPermit /\ AbsStatus[t].phase = "Closed"
  BY <1>1, <1>2, Mapped DEF Allow
<1>4. AbsStatus' = AbsStatus /\ now' = now
  BY DEF Allow, AbsStatus
<1>5. AbsHold' = [AbsHold EXCEPT ![c] = [target |-> t, kind |-> "Closed"]]
  <2> DEFINE p == [target |-> t, generation |-> circuit[t].generation, kind |-> "Closed"]
  <2>1. p \in Permits /\ p.target = t /\ p.kind = "Closed"
    BY <1>1 DEF TypeOK, Permits, CircuitStates
  <2>2. permit' = [permit EXCEPT ![c] = p]
    BY DEF Allow
  <2> HIDE DEF p
  <2>3. AbsHold' = [AbsHold EXCEPT ![c] = [target |-> p.target, kind |-> p.kind]]
    BY <1>1, <2>1, <2>2, MappedAdmit
  <2> QED
    BY <2>1, <2>3
<1>6. AbsLive' = AbsLive \cup {c}
  BY <1>1, PermitAssumption DEF Allow, AbsLive, Current, Holds, TypeOK, Permits, CircuitStates
<1> QED
  BY <1>3, <1>4, <1>5, <1>6 DEF Abstract!AdmitClosed

\* The holders of a target are the hops with a permit for it.
LEMMA MappedHolders ==
  ASSUME TypeOK, NEW t \in Target
  PROVE  Abstract!Holders(t) = {c \in Caller : Holds(c) /\ permit[c].target = t}
  BY Mapped DEF Abstract!Holders

\* A probe admission revokes every earlier hold on the target.
LEMMA RefinesProbe ==
  ASSUME Inv, NEW c \in Caller, NEW t \in Target, Probe(c, t)
  PROVE  Abstract!AdmitProbe(c, t)
<1>1. TypeOK /\ GenerationFixesPhase
  BY DEF Inv
<1>2. \/ circuit[t].phase = "Open" /\ circuit[t].opened_until <= now
      \/ circuit[t].phase = "HalfOpen"
  BY <1>1 DEF Probe, admission, TypeOK, CircuitStates, Phases
<1>3. /\ AbsHold[c] = NoPermit
      /\ \/ AbsStatus[t].phase = "Open" /\ AbsStatus[t].until <= now
         \/ AbsStatus[t].phase = "HalfOpen"
  BY <1>1, <1>2, Mapped DEF Probe
<1>4. AbsStatus' = [AbsStatus EXCEPT ![t] = Abstract!Probing] /\ now' = now
  <2> DEFINE u == start_probe(circuit[t])
  <2>1. u.phase = "Probing" /\ u.failures = 0 /\ u.opened_until = 0
    BY DEF start_probe
  <2>2. circuit' = [circuit EXCEPT ![t] = u] /\ now' = now
    BY DEF Probe
  <2> HIDE DEF u
  <2>3. AbsStatus' = [AbsStatus EXCEPT ![t] =
          [phase |-> u.phase, failures |-> u.failures, until |-> u.opened_until]]
    BY <1>1, <2>2, MappedCircuit
  <2> QED
    BY <2>1, <2>2, <2>3 DEF Abstract!Probing
<1>5. AbsHold' = [AbsHold EXCEPT ![c] = [target |-> t, kind |-> "Probe"]]
  <2> DEFINE p == [target |-> t, generation |-> circuit[t].generation + 1, kind |-> "Probe"]
  <2>1. p \in Permits /\ p.target = t /\ p.kind = "Probe"
    BY <1>1 DEF TypeOK, Permits, CircuitStates
  <2>2. permit' = [permit EXCEPT ![c] = p]
    BY DEF Probe
  <2> HIDE DEF p
  <2>3. AbsHold' = [AbsHold EXCEPT ![c] = [target |-> p.target, kind |-> p.kind]]
    BY <1>1, <2>1, <2>2, MappedAdmit
  <2> QED
    BY <2>1, <2>3
<1>6. AbsLive' = (AbsLive \ Abstract!Holders(t)) \cup {c}
  <2>1. Current(c)'
    BY <1>1, PermitAssumption DEF Probe, start_probe, Current, Holds, TypeOK, Permits, CircuitStates
  <2>2. ASSUME NEW d \in Caller, d # c, Holds(d), permit[d].target = t PROVE ~Current(d)'
    BY <2>2, <1>1 DEF GenerationFixesPhase, Probe, start_probe, Current, Holds, TypeOK, Permits,
       CircuitStates
  <2>3. ASSUME NEW d \in Caller, d # c, ~(Holds(d) /\ permit[d].target = t)
        PROVE  Current(d)' <=> Current(d)
    BY <2>3, <1>1 DEF Probe, Current, Holds, TypeOK, Permits
  <2> QED
    BY <2>1, <2>2, <2>3, <1>1, MappedHolders DEF AbsLive
<1> QED
  BY <1>3, <1>4, <1>5, <1>6 DEF Abstract!AdmitProbe

\* Other hops keep a current permit exactly while their circuit keeps its
\* generation; a step to the next generation revokes every hold on the target.
LEMMA LiveKept ==
  ASSUME TypeOK, NEW c \in Caller, NEW t \in Target, NEW u \in CircuitStates,
         circuit' = [circuit EXCEPT ![t] = u], u.generation = circuit[t].generation,
         permit' = [permit EXCEPT ![c] = NoPermit]
  PROVE  AbsLive' = AbsLive \ {c}
<1>1. ASSUME NEW d \in Caller, d # c PROVE Current(d)' <=> Current(d)
  BY <1>1 DEF Current, Holds, TypeOK, Permits
<1>2. ~Current(c)'
  BY DEF Current, Holds, TypeOK
<1> QED
  BY <1>1, <1>2 DEF AbsLive

\* The other half: a new generation leaves no live hold on the target.
LEMMA LiveRevoked ==
  ASSUME TypeOK, GenerationFixesPhase, NEW c \in Caller, NEW t \in Target,
         NEW u \in CircuitStates,
         circuit' = [circuit EXCEPT ![t] = u], u.generation = circuit[t].generation + 1,
         permit' = [permit EXCEPT ![c] = NoPermit], Holds(c), permit[c].target = t
  PROVE  AbsLive' = AbsLive \ Abstract!Holders(t)
<1>1. ~Current(c)'
  BY DEF Current, Holds, TypeOK
<1>2. ASSUME NEW d \in Caller, d # c, Holds(d), permit[d].target = t PROVE ~Current(d)'
  BY <1>2 DEF GenerationFixesPhase, Current, Holds, TypeOK, Permits, CircuitStates
<1>3. ASSUME NEW d \in Caller, d # c, ~(Holds(d) /\ permit[d].target = t)
      PROVE  Current(d)' <=> Current(d)
  BY <1>3 DEF Current, Holds, TypeOK, Permits
<1> QED
  BY <1>1, <1>2, <1>3, MappedHolders DEF AbsLive

\* A settlement is the end of a hold without a trace, or the report of its success,
\* of a failure, of an opening or of a recovery.
LEMMA RefinesSettle ==
  ASSUME Inv, NEW c \in Caller, NEW outcome \in Outcomes, Settle(c, outcome)
  PROVE  Abstract!Next
<1> DEFINE p == permit[c]
           t == p.target
           s == circuit[t]
           u == complete(s, p.generation, p.kind, outcome, now)
<1>1. TypeOK /\ GenerationFixesPhase /\ ProbeOwnership /\ Canonical
  BY DEF Inv
<1>2. /\ p \in Permits /\ t \in Target /\ s \in CircuitStates /\ p.generation \in Nat
      /\ p.kind \in {"Closed", "Probe"} /\ now \in Nat /\ Holds(c)
  BY <1>1 DEF Settle, Holds, TypeOK, Permits
<1>3. /\ circuit' = [circuit EXCEPT ![t] = u]
      /\ permit' = [permit EXCEPT ![c] = NoPermit]
      /\ now' = now
  BY DEF Settle
<1>4. u \in CircuitStates
  BY <1>2, CompleteType
<1>5. p.generation = s.generation =>
        s.phase = IF p.kind = "Closed" THEN "Closed" ELSE "Probing"
  BY <1>1, <1>2 DEF GenerationFixesPhase
<1>6. /\ AbsHold[c] # NoPermit /\ AbsHold[c].target = t /\ AbsHold[c].kind = p.kind
      /\ c \in AbsLive <=> p.generation = s.generation
      /\ AbsStatus[t].failures = s.failures
  BY <1>1, <1>2, Mapped DEF Current
<1>7. AbsHold' = [AbsHold EXCEPT ![c] = NoPermit]
  BY <1>1, <1>3, MappedRelease
<1>8. AbsStatus' = [AbsStatus EXCEPT ![t] =
        [phase |-> u.phase, failures |-> u.failures, until |-> u.opened_until]]
  BY <1>1, <1>2, <1>3, MappedCircuit
<1>9. s.phase = "Closed" => s.opened_until = 0
  BY <1>1, <1>2 DEF Canonical
<1> HIDE DEF u
<1>a. CASE u = s /\ (p.generation = s.generation => p.kind = "Closed")
  <2>1. AbsStatus' = AbsStatus
    BY <1>1, <1>2, <1>3, <1>a DEF AbsStatus, TypeOK
  <2>2. AbsLive' = AbsLive \ {c}
    BY <1>1, <1>2, <1>3, <1>4, <1>a, LiveKept
  <2>3. Abstract!End(c)
    BY <2>1, <2>2, <1>3, <1>6, <1>7, <1>a DEF Abstract!End
  <2> QED
    BY <2>3 DEF Abstract!Next
<1>b. CASE p.generation = s.generation /\ p.kind = "Closed" /\ u = [s EXCEPT !.failures = 0]
  <2>1. u.phase = "Closed" /\ u.failures = 0 /\ u.opened_until = 0
        /\ u.generation = s.generation
    BY <1>2, <1>5, <1>9, <1>b DEF CircuitStates
  <2>2. AbsLive' = AbsLive \ {c}
    BY <1>1, <1>2, <1>3, <1>4, <2>1, LiveKept
  <2>3. Abstract!Healthy(c)
    BY <2>1, <2>2, <1>3, <1>6, <1>7, <1>8, <1>b DEF Abstract!Healthy, Abstract!Closed
  <2> QED
    BY <2>3 DEF Abstract!Next
<1>c. CASE /\ p.generation = s.generation /\ p.kind = "Closed" /\ s.failures + 1 < Threshold
           /\ u = [s EXCEPT !.failures = s.failures + 1]
  <2>1. u.phase = "Closed" /\ u.failures = s.failures + 1 /\ u.opened_until = 0
        /\ u.generation = s.generation
    BY <1>2, <1>5, <1>9, <1>c DEF CircuitStates
  <2>2. AbsLive' = AbsLive \ {c}
    BY <1>1, <1>2, <1>3, <1>4, <2>1, LiveKept
  <2>3. Abstract!Degrade(c)
    BY <2>1, <2>2, <1>3, <1>6, <1>7, <1>8, <1>c DEF Abstract!Degrade, Abstract!Closed
  <2> QED
    BY <2>3 DEF Abstract!Next
<1>d. CASE /\ p.generation = s.generation
           /\ p.kind = "Closed" => s.failures + 1 >= Threshold
           /\ u = set_open(s, now)
  <2>1. u.phase = "Open" /\ u.failures = 0 /\ u.opened_until = now + Cooldown
        /\ u.generation = s.generation + 1
    BY <1>d DEF set_open
  <2>2. AbsLive' = AbsLive \ Abstract!Holders(t)
    BY <1>1, <1>2, <1>3, <1>4, <2>1, LiveRevoked
  <2>3. Abstract!Trip(c)
    BY <2>1, <2>2, <1>3, <1>6, <1>7, <1>8, <1>d DEF Abstract!Trip, Abstract!Open
  <2> QED
    BY <2>3 DEF Abstract!Next
<1>e. CASE p.generation = s.generation /\ p.kind = "Probe" /\ u = close_circuit(s)
  <2>1. u.phase = "Closed" /\ u.failures = 0 /\ u.opened_until = 0
        /\ u.generation = s.generation + 1
    BY <1>e DEF close_circuit
  <2>2. AbsLive' = AbsLive \ Abstract!Holders(t)
    BY <1>1, <1>2, <1>3, <1>4, <2>1, LiveRevoked
  <2>3. Abstract!Recover(c)
    BY <2>1, <2>2, <1>3, <1>6, <1>7, <1>8, <1>e DEF Abstract!Recover, Abstract!Closed
  <2> QED
    BY <2>3 DEF Abstract!Next
<1> QED
  BY <1>2, <1>5, <1>a, <1>b, <1>c, <1>d, <1>e, CompleteCases DEF u

\* A dropped permit ends a closed hold or abandons the probe.
LEMMA RefinesDrop ==
  ASSUME Inv, NEW c \in Caller, Drop(c)
  PROVE  Abstract!Next
<1> DEFINE p == permit[c]
           t == p.target
           s == circuit[t]
<1>1. TypeOK /\ GenerationFixesPhase /\ ProbeOwnership /\ Canonical
  BY DEF Inv
<1>2. /\ p \in Permits /\ t \in Target /\ s \in CircuitStates
      /\ p.kind \in {"Closed", "Probe"} /\ Holds(c)
  BY <1>1 DEF Drop, Holds, TypeOK, Permits
<1>3. permit' = [permit EXCEPT ![c] = NoPermit] /\ now' = now
  BY DEF Drop
<1>4. /\ AbsHold[c] # NoPermit /\ AbsHold[c].target = t /\ AbsHold[c].kind = p.kind
      /\ c \in AbsLive <=> p.generation = s.generation
  BY <1>1, <1>2, Mapped DEF Current
<1>5. AbsHold' = [AbsHold EXCEPT ![c] = NoPermit]
  BY <1>1, <1>3, MappedRelease
<1>6. CASE p.kind = "Closed"
  <2>1. circuit' = circuit
    BY <1>6 DEF Drop
  <2>2. circuit' = [circuit EXCEPT ![t] = s]
    BY <2>1, <1>1, <1>2 DEF TypeOK
  <2>3. AbsStatus' = AbsStatus
    BY <2>1 DEF AbsStatus
  <2>4. AbsLive' = AbsLive \ {c}
    BY <1>1, <1>2, <1>3, <2>2, LiveKept
  <2>5. Abstract!End(c)
    BY <2>3, <2>4, <1>3, <1>4, <1>5, <1>6 DEF Abstract!End
  <2> QED
    BY <2>5 DEF Abstract!Next
<1>7. CASE p.kind = "Probe"
  <2> DEFINE u == [s EXCEPT !.phase = "HalfOpen"]
  <2>1. OwnsProbe(c, t)
    BY <1>2, <1>7 DEF OwnsProbe
  <2>2. p.generation = s.generation /\ s.phase = "Probing"
    BY <2>1, <1>1, <1>2 DEF ProbeOwnership, Current
  <2>3. circuit' = [circuit EXCEPT ![t] = u]
    BY <1>7, <2>2 DEF Drop, release_probe
  <2>4. /\ u \in CircuitStates /\ u.generation = s.generation /\ u.phase = "HalfOpen"
        /\ u.failures = 0 /\ u.opened_until = 0
    BY <1>1, <1>2, <2>2 DEF Canonical, CircuitStates, Phases
  <2> HIDE DEF u
  <2>5. AbsStatus' = [AbsStatus EXCEPT ![t] =
          [phase |-> u.phase, failures |-> u.failures, until |-> u.opened_until]]
    BY <1>1, <1>2, <2>3, MappedCircuit
  <2>6. AbsLive' = AbsLive \ {c}
    BY <1>1, <1>2, <1>3, <2>3, <2>4, LiveKept
  <2>7. Abstract!Abandon(c)
    BY <2>2, <2>4, <2>5, <2>6, <1>3, <1>4, <1>5, <1>7 DEF Abstract!Abandon, Abstract!HalfOpen
  <2> QED
    BY <2>7 DEF Abstract!Next
<1> QED
  BY <1>2, <1>6, <1>7

\* Every step of the registry is a step of the abstract breaker or a stutter.
THEOREM CircuitRefinesBreaker == Spec => ImplementsBreaker
<1>1. Inv /\ [Next]_vars => [Abstract!Next]_(Abstract!bvars)
  <2> SUFFICES ASSUME Inv, [Next]_vars PROVE [Abstract!Next]_(Abstract!bvars)
    OBVIOUS
  <2>1. ASSUME NEW c \in Caller, NEW t \in Target, Allow(c, t) PROVE Abstract!Next
    BY <2>1, RefinesAllow DEF Abstract!Next
  <2>2. ASSUME NEW c \in Caller, NEW t \in Target, Probe(c, t) PROVE Abstract!Next
    BY <2>2, RefinesProbe DEF Abstract!Next
  <2>3. CASE Tick
    <3>1. AbsStatus' = AbsStatus /\ AbsHold' = AbsHold /\ AbsLive' = AbsLive
      BY <2>3 DEF Tick, AbsStatus, AbsHold, AbsLive, Current, Holds
    <3> QED
      BY <2>3, <3>1 DEF Tick, Abstract!Next, Abstract!Elapse
  <2>4. CASE UNCHANGED vars
    BY <2>4 DEF vars, Abstract!bvars, AbsStatus, AbsHold, AbsLive, Current, Holds
  <2> QED
    BY <2>1, <2>2, <2>3, <2>4, RefinesSettle, RefinesDrop DEF Next
<1> QED
  BY <1>1, RefinesInit, CircuitInvariant, PTL DEF Spec, ImplementsBreaker, Abstract!Spec
=============================================================================
