------------------------------ MODULE MCCircuit -------------------------------
(* Circuit for TLC: three hops over two targets, and a smaller instance for   *)
(* the liveness properties.                                                   *)
EXTENDS Circuit
=============================================================================
