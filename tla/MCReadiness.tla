------------------------------ MODULE MCReadiness -----------------------------
(* Readiness for TLC: the checks are interchangeable. *)
EXTENDS Readiness, TLC

Symmetry == Permutations(Check)
=============================================================================
