------------------------------ MODULE KeyRegistry -----------------------------
(***************************************************************************)
(* What the key store promises its clients: every operation takes effect   *)
(* at one instant between its call and its answer, on the tenant's own     *)
(* keys only, and a revoked key stays revoked.  A caller that gives up     *)
(* does not learn whether its operation still takes effect.                *)
(***************************************************************************)
EXTENDS Integers

CONSTANTS
    Session, Key, Client, Owner,
    Stamp,      \* the times callers may stamp an operation with
    Never       \* the time of what did not happen yet

VARIABLES
    status,     \* status[k]: absent, active or revoked
    used,       \* used[k]: the latest use recorded for k
    call,       \* call[s]: the operation session s works on
    known       \* the tenants

kvars == <<status, used, call, known>>

Ops == {"authenticate", "revoke", "issue", "provision"}

Idle == [op |-> "none"]

Init ==
    /\ status = [k \in Key |-> "absent"]
    /\ used = [k \in Key |-> Never]
    /\ call = [s \in Session |-> Idle]
    /\ known = {}

Pending(s, op) == call[s] # Idle /\ call[s].op = op /\ call[s].outcome = "pending"

resolve(s, outcome) == call' = [call EXCEPT ![s].outcome = outcome]

Invoke(s) ==
    /\ call[s] = Idle
    /\ call'[s] \in [op : Ops, key : Key, client : Client, stamp : Stamp,
                      outcome : {"pending"}]
    /\ call' = [call EXCEPT ![s] = call'[s]]
    /\ UNCHANGED <<status, used, known>>

Latest(a, b) == IF a = Never \/ a < b THEN b ELSE a

\* An active key is let in and its use recorded, in one step.
Grant(s) ==
    /\ Pending(s, "authenticate")
    /\ LET k == call[s].key IN
         /\ status[k] = "active"
         /\ used' = [used EXCEPT ![k] = Latest(@, call[s].stamp)]
    /\ resolve(s, "Ok")
    /\ UNCHANGED <<status, known>>

Deny(s) ==
    /\ Pending(s, "authenticate")
    /\ status[call[s].key] # "active"
    /\ resolve(s, "Invalid")
    /\ UNCHANGED <<status, used, known>>

Revoke(s) ==
    /\ Pending(s, "revoke")
    /\ LET k == call[s].key IN
         /\ Owner[k] = call[s].client
         /\ status[k] = "active"
         /\ status' = [status EXCEPT ![k] = "revoked"]
    /\ resolve(s, "Revoked")
    /\ UNCHANGED <<used, known>>

\* A key of the tenant that is already revoked, or no key of the tenant.
RevokeNothing(s) ==
    /\ Pending(s, "revoke")
    /\ LET k == call[s].key
           mine == Owner[k] = call[s].client
       IN \/ mine /\ status[k] = "revoked" /\ resolve(s, "AlreadyRevoked")
          \/ (~mine \/ status[k] = "absent") /\ resolve(s, "NotFound")
    /\ UNCHANGED <<status, used, known>>

\* A new key of a known tenant, or a new tenant with its first key.
Create(s) ==
    /\ \/ Pending(s, "issue") /\ Owner[call[s].key] \in known
       \/ Pending(s, "provision") /\ Owner[call[s].key] \notin known
    /\ status[call[s].key] = "absent"
    /\ status' = [status EXCEPT ![call[s].key] = "active"]
    /\ known' = known \cup {Owner[call[s].key]}
    /\ resolve(s, "Created")
    /\ UNCHANGED used

\* An operation may fail without effect, and an answer may be lost after it.
Refuse(s) ==
    /\ call[s] # Idle
    /\ resolve(s, "Unavailable")
    /\ UNCHANGED <<status, used, known>>

Return(s) ==
    /\ call[s] # Idle
    /\ call' = [call EXCEPT ![s] = Idle]
    /\ UNCHANGED <<status, used, known>>

Next ==
    \E s \in Session :
      \/ Invoke(s) \/ Grant(s) \/ Deny(s) \/ Revoke(s) \/ RevokeNothing(s)
      \/ Create(s) \/ Refuse(s) \/ Return(s)

Spec == Init /\ [][Next]_kvars
=============================================================================
