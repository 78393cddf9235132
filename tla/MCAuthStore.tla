------------------------------ MODULE MCAuthStore -----------------------------
(* AuthStore for TLC.  Sessions are interchangeable. *)
EXTENDS AuthStore, TLC

CONSTANTS k1, k2, a, b

\* A tenant with its first key and one issued later; b is a stranger.
SameOwner == (k1 :> a) @@ (k2 :> a)

\* A tenant with one key, and an id that nobody ever creates.
OneOwner == (k1 :> a) @@ (k2 :> b)

Symmetry == Permutations(Session)
=============================================================================
