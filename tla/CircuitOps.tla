------------------------------ MODULE CircuitOps ------------------------------
(***************************************************************************)
(* The transitions of one target's circuit breaker, as functions of its    *)
(* state (features/executor/circuit.rs).  The registry runs each of them   *)
(* under one mutex, so each is one atomic step of whoever calls it.        *)
(***************************************************************************)
EXTENDS Naturals

CONSTANTS
    FailureThreshold,   \* circuit_failure_threshold of the configuration
    Cooldown            \* circuit_cooldown_ms, in clock units

ASSUME CircuitAssumption == FailureThreshold \in Nat /\ Cooldown \in Nat

\* The registry never uses a threshold below one.
Threshold == IF FailureThreshold = 0 THEN 1 ELSE FailureThreshold

\* CircuitPhase: HalfOpen { in_flight: true } is "Probing", HalfOpen
\* { in_flight: false } is "HalfOpen".
Phases == {"Closed", "Open", "Probing", "HalfOpen"}

\* A field that the current phase does not carry is zero.  The u64 generation
\* wraps only after 2^64 transitions of one target and is a natural number here.
CircuitStates ==
    [generation : Nat, phase : Phases, failures : Nat, opened_until : Nat]

DefaultCircuit ==
    [generation |-> 0, phase |-> "Closed", failures |-> 0, opened_until |-> 0]

Outcomes == {"Success", "TransientFailure", "Permanent"}

\* Readiness looks at the phase without starting a probe.
target_is_usable(s) == s.phase = "Closed"

----------------------------------------------------------------------------
start_probe(s) ==
    [generation |-> s.generation + 1, phase |-> "Probing",
     failures |-> 0, opened_until |-> 0]

\* Mutant: the circuit opens without a new generation, so closed admissions
\* issued before the opening still own it.
set_open_SameGeneration(s, now) ==
    [generation |-> s.generation, phase |-> "Open",
     failures |-> 0, opened_until |-> now + Cooldown]

\* Mutant: the end of the open period is computed backwards.
set_open_Backwards(s, now) ==
    [generation |-> s.generation + 1, phase |-> "Open",
     failures |-> 0, opened_until |-> now - Cooldown]

set_open(s, now) ==
    [generation |-> s.generation + 1, phase |-> "Open",
     failures |-> 0, opened_until |-> now + Cooldown]

close_circuit(s) ==
    [generation |-> s.generation + 1, phase |-> "Closed",
     failures |-> 0, opened_until |-> 0]

\* Mutant: a half-open circuit whose probe was abandoned rejects like one whose
\* probe is in flight.
admission_HalfOpenRejects(s, now) ==
    CASE s.phase = "Closed"                          -> "Allow"
      [] s.phase = "Open" /\ ~(now < s.opened_until) -> "Probe"
      [] OTHER                                       -> "Reject"

\* What admit answers: a closed permit, the probe permit, or a rejection.
admission(s, now) ==
    CASE s.phase = "Closed"                          -> "Allow"
      [] s.phase = "Open" /\ now < s.opened_until    -> "Reject"
      [] s.phase = "Open" /\ ~(now < s.opened_until) -> "Probe"
      [] s.phase = "Probing"                         -> "Reject"
      [] s.phase = "HalfOpen"                        -> "Probe"

\* Mutant: the circuit opens one failure too late.
trips_Late(failures) == failures + 1 > Threshold

trips(failures) == failures + 1 >= Threshold

\* The match of complete on the permit's kind, the phase and the outcome.
settled(s, kind, outcome, now) ==
    CASE kind = "Closed" /\ s.phase = "Closed" /\ outcome = "Success" ->
           [s EXCEPT !.failures = 0]
      [] kind = "Closed" /\ s.phase = "Closed" /\ outcome = "TransientFailure" ->
           IF trips(s.failures)
           THEN set_open(s, now)
           ELSE [s EXCEPT !.failures = @ + 1]
      [] kind = "Probe" /\ s.phase \in {"Probing", "HalfOpen"}
           /\ outcome \in {"Success", "Permanent"} -> close_circuit(s)
      [] kind = "Probe" /\ s.phase \in {"Probing", "HalfOpen"}
           /\ outcome = "TransientFailure" -> set_open(s, now)
      [] OTHER -> s

\* Mutant: a completion is applied whatever generation issued its permit.
complete_AnyGeneration(s, generation, kind, outcome, now) ==
    settled(s, kind, outcome, now)

\* A permit settles: nothing happens unless the circuit is still in the
\* generation that issued it.
complete(s, generation, kind, outcome, now) ==
    IF s.generation # generation THEN s ELSE settled(s, kind, outcome, now)

\* Mutant: an unsettled probe permit is dropped without giving the probe back.
release_probe_Forgotten(s, generation) == s

\* Drop of an unsettled probe permit.
release_probe(s, generation) ==
    IF s.generation = generation /\ s.phase \in {"Probing", "HalfOpen"}
    THEN [s EXCEPT !.phase = "HalfOpen"]
    ELSE s
=============================================================================
