----------------------------- MODULE MCProviderCall ---------------------------
(* ProviderCall for TLC: waits on both sides of a whole second. *)
EXTENDS ProviderCall

MCSeconds == {0, 999, 1000, 1001}
=============================================================================
