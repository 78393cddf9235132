------------------------------- MODULE Breaker --------------------------------
(***************************************************************************)
(* What a target-scoped circuit breaker promises, without generations: a   *)
(* caller's hold either counts (it is live) or has been revoked.  Every    *)
(* change of phase revokes all the holds on the target, and only a live    *)
(* hold may change the breaker.                                            *)
(***************************************************************************)
EXTENDS Naturals

CONSTANTS
    Caller, Target,
    NoHold,             \* the hold of a caller that has none
    Limit,              \* consecutive failures that open a closed breaker
    Cooldown            \* how long an open breaker rejects

VARIABLES
    status,     \* status[t]: phase, failure count and end of the open period
    hold,       \* hold[c]: the target and kind of the admission c works under
    live,       \* the callers whose hold still counts
    clock

bvars == <<status, hold, live, clock>>

Closed(n)   == [phase |-> "Closed",   failures |-> n, until |-> 0]
Open(u)     == [phase |-> "Open",     failures |-> 0, until |-> u]
Probing     == [phase |-> "Probing",  failures |-> 0, until |-> 0]
HalfOpen    == [phase |-> "HalfOpen", failures |-> 0, until |-> 0]

Holders(t) == {c \in Caller : hold[c] # NoHold /\ hold[c].target = t}

Init ==
    /\ status = [t \in Target |-> Closed(0)]
    /\ hold = [c \in Caller |-> NoHold]
    /\ live = {}
    /\ clock = 0

\* A closed breaker admits any number of callers.
AdmitClosed(c, t) ==
    /\ hold[c] = NoHold
    /\ status[t].phase = "Closed"
    /\ hold' = [hold EXCEPT ![c] = [target |-> t, kind |-> "Closed"]]
    /\ live' = live \cup {c}
    /\ UNCHANGED <<status, clock>>

\* Past the cooldown, or after an abandoned probe, one caller owns the probe.
AdmitProbe(c, t) ==
    /\ hold[c] = NoHold
    /\ \/ status[t].phase = "Open" /\ status[t].until <= clock
       \/ status[t].phase = "HalfOpen"
    /\ status' = [status EXCEPT ![t] = Probing]
    /\ hold' = [hold EXCEPT ![c] = [target |-> t, kind |-> "Probe"]]
    /\ live' = (live \ Holders(t)) \cup {c}
    /\ UNCHANGED clock

\* A revoked hold ends without a trace; so does a closed hold that is given up
\* or that reports a permanent error.
End(c) ==
    /\ hold[c] # NoHold
    /\ c \in live => hold[c].kind = "Closed"
    /\ hold' = [hold EXCEPT ![c] = NoHold]
    /\ live' = live \ {c}
    /\ UNCHANGED <<status, clock>>

\* A live closed hold reports success: the run of failures is over.
Healthy(c) ==
    /\ c \in live
    /\ hold[c].kind = "Closed"
    /\ status' = [status EXCEPT ![hold[c].target] = Closed(0)]
    /\ hold' = [hold EXCEPT ![c] = NoHold]
    /\ live' = live \ {c}
    /\ UNCHANGED clock

\* A live closed hold reports one more transient failure below the limit.
Degrade(c) ==
    /\ c \in live
    /\ hold[c].kind = "Closed"
    /\ LET t == hold[c].target IN
         /\ status[t].failures + 1 < Limit
         /\ status' = [status EXCEPT ![t] = Closed(status[t].failures + 1)]
    /\ hold' = [hold EXCEPT ![c] = NoHold]
    /\ live' = live \ {c}
    /\ UNCHANGED clock

\* The limit is reached, or the probe failed: the breaker opens for a cooldown.
Trip(c) ==
    /\ c \in live
    /\ LET t == hold[c].target IN
         /\ hold[c].kind = "Closed" => status[t].failures + 1 >= Limit
         /\ status' = [status EXCEPT ![t] = Open(clock + Cooldown)]
         /\ live' = live \ Holders(t)
    /\ hold' = [hold EXCEPT ![c] = NoHold]
    /\ UNCHANGED clock

\* The probe reached the provider: the breaker closes.
Recover(c) ==
    /\ c \in live
    /\ hold[c].kind = "Probe"
    /\ status' = [status EXCEPT ![hold[c].target] = Closed(0)]
    /\ live' = live \ Holders(hold[c].target)
    /\ hold' = [hold EXCEPT ![c] = NoHold]
    /\ UNCHANGED clock

\* The probe ended without an answer: any caller may probe next.
Abandon(c) ==
    /\ c \in live
    /\ hold[c].kind = "Probe"
    /\ status' = [status EXCEPT ![hold[c].target] = HalfOpen]
    /\ hold' = [hold EXCEPT ![c] = NoHold]
    /\ live' = live \ {c}
    /\ UNCHANGED clock

Elapse ==
    /\ clock' = clock + 1
    /\ UNCHANGED <<status, hold, live>>

Next ==
    \/ \E c \in Caller, t \in Target : AdmitClosed(c, t) \/ AdmitProbe(c, t)
    \/ \E c \in Caller :
         End(c) \/ Healthy(c) \/ Degrade(c) \/ Trip(c) \/ Recover(c) \/ Abandon(c)
    \/ Elapse

Spec == Init /\ [][Next]_bvars
=============================================================================
