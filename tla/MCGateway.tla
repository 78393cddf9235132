------------------------------- MODULE MCGateway ------------------------------
(* Gateway for TLC: requests are interchangeable. *)
EXTENDS Gateway, TLC

Symmetry == Permutations(Request)
=============================================================================
