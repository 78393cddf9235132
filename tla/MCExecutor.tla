------------------------------ MODULE MCExecutor ------------------------------
(* Instances of Executor for TLC. *)
EXTENDS Executor, TLC

CONSTANTS t1, t2, t3, r1, r2

\* Two requests with the same primary, one of which has a fallback.
SharedRoute == (r1 :> <<t1, t2>>) @@ (r2 :> <<t1>>)
SharedRetryAfters == {1}

SharedDeadline == (r1 :> 3) @@ (r2 :> 2)
SharedSupported == {<<r1, t1>>, <<r1, t2>>, <<r2, t1>>}

\* One request over three targets, the second of which is too small for it.
ChainRoute == (r1 :> <<t1, t2, t3>>)
AllRetryAfters == {None, 0, 2, 5}

ChainDeadline == (r1 :> 5)
ChainSupported == {<<r1, t1>>, <<r1, t3>>}
=============================================================================
