------------------------------- MODULE AuthStore ------------------------------
(***************************************************************************)
(* PostgresAuthStore (features/auth/persist/postgres.rs) and the service   *)
(* operations over it: key authentication, revocation and issuance as      *)
(* transactions of concurrent gateway processes on one database, with row  *)
(* locks, read-committed visibility, clocks that disagree between          *)
(* processes, failing connections, and callers that give up while a        *)
(* transaction is still open on the server.                                *)
(***************************************************************************)
EXTENDS Integers

CONSTANTS
    Session,        \* database sessions; each runs one operation at a time
    Key,            \* key rows, identified by id and, alike, by digest
    Client,         \* tenants
    Owner,          \* Owner[k]: the immutable client_id of row k
    Unissued,       \* keys a caller may name that no one ever creates
    NoSession,
    Skew,           \* how far a process's Utc::now() may be from the true time
    MaxTime         \* bound: the clock stops here

ASSUME StoreAssumption ==
    /\ Key # {} /\ Owner \in [Key -> Client] /\ Unissued \in SUBSET Key
    /\ NoSession \notin Session /\ Skew \in Nat /\ MaxTime \in Nat

VARIABLES
    rows,       \* rows[k]: the committed row of key k
    clients,    \* the committed client rows
    lock,       \* lock[k]: the session that holds the row lock of k
    txn,        \* txn[s]: the operation session s runs
    now

vars == <<rows, clients, lock, txn, now>>

Never == -1         \* an SQL NULL timestamp

Ops == {"authenticate", "revoke", "issue", "provision"}

\* The service answers a success, a definite refusal, or an error that leaves
\* the caller in doubt.  "pending" is not an answer yet.
Results == {"pending", "Ok", "Invalid", "Revoked", "AlreadyRevoked", "NotFound",
            "Created", "Unavailable"}

\* The results that a commit brings into effect.
Effects == {"Ok", "Revoked", "Created"}

Rows == [exists : BOOLEAN, created_at : Nat, last_used_at : Nat \cup {Never},
         revoked_at : Nat \cup {Never}]

NoRow == [exists |-> FALSE, created_at |-> 0, last_used_at |-> Never,
          revoked_at |-> Never]

Txns == [pc : {"idle", "begun", "locked", "select", "commit", "reply"}, op : Ops,
         key : Key, client : Client, stamp : Nat, result : Results,
         orphan : BOOLEAN, dead : BOOLEAN]

TypeOK ==
    /\ rows \in [Key -> Rows]
    /\ clients \in SUBSET Client
    /\ lock \in [Key -> Session \cup {NoSession}]
    /\ txn \in [Session -> Txns]
    /\ now \in Nat

NoTxn == [pc |-> "idle", op |-> "authenticate", key |-> CHOOSE k \in Key : TRUE,
          client |-> CHOOSE c \in Client : TRUE, stamp |-> 0, result |-> "pending",
          orphan |-> FALSE, dead |-> FALSE]

Init ==
    /\ rows = [k \in Key |-> NoRow]
    /\ clients = {}
    /\ lock = [k \in Key |-> NoSession]
    /\ txn = [s \in Session |-> NoTxn]
    /\ now = 0

----------------------------------------------------------------------------
is_revoked(row) == row.revoked_at # Never

active(row) == row.exists /\ ~is_revoked(row)

Clocks == {t \in (now - Skew) .. (now + Skew) : t >= 0}

row(s) == rows[txn[s].key]

runs(s, op, pc) == txn[s].op = op /\ txn[s].pc = pc

step(s, pc, result) == txn' = [txn EXCEPT ![s].pc = pc, ![s].result = result]

unlocked(s) == [k \in Key |-> IF lock[k] = s THEN NoSession ELSE lock[k]]

\* A statement fails: rollback_err ends the transaction without a trace.
rollback(s) == step(s, "reply", "Unavailable") /\ lock' = unlocked(s)

\* The table's CHECK constraints: no use and no revocation before creation.
ordered(r) ==
    /\ r.last_used_at # Never => r.last_used_at >= r.created_at
    /\ r.revoked_at # Never => r.revoked_at >= r.created_at

\* Mutant: the use is written without comparing it.
used_row_Overwrites(r, t) == [r EXCEPT !.last_used_at = t]

\* UPDATE last_used_at of an active row, only forward.
used_row(r, t) ==
    IF active(r) /\ (r.last_used_at = Never \/ r.last_used_at < t)
    THEN [r EXCEPT !.last_used_at = t]
    ELSE r

\* INSERT: a new key has neither been used nor revoked.
inserted_row(t) ==
    [exists |-> TRUE, created_at |-> t, last_used_at |-> Never, revoked_at |-> Never]

\* The row that the transaction has written and not yet committed.
written(s) ==
    CASE txn[s].result = "Ok" -> used_row(row(s), txn[s].stamp)
      [] txn[s].result = "Revoked" -> [row(s) EXCEPT !.revoked_at = txn[s].stamp]
      [] txn[s].result = "Created" -> inserted_row(txn[s].stamp)
      [] OTHER -> row(s)

----------------------------------------------------------------------------
\* A caller starts an operation; its time stamp is taken before it reaches the
\* database.  Ids are random: a new row or client has a fresh one, and a caller
\* names an existing row or one that never will exist.
Begin(s) ==
    /\ txn[s].pc = "idle"
    /\ \E op \in Ops, k \in Key, c \in Client, t \in Clocks :
         /\ op \in {"issue", "provision"} =>
              /\ ~rows[k].exists /\ k \notin Unissued /\ c = Owner[k]
              /\ \A r \in Session : txn[r].pc # "idle" => txn[r].key # k
         /\ op = "provision" =>
              /\ c \notin clients
              /\ \A r \in Session : txn[r].pc # "idle" => txn[r].client # c
         /\ op = "revoke" => rows[k].exists \/ k \in Unissued
         /\ op = "authenticate" => c = Owner[k]
         /\ txn' = [txn EXCEPT ![s] =
              [pc |-> "begun", op |-> op, key |-> k, client |-> c, stamp |-> t,
               result |-> "pending", orphan |-> FALSE,
               dead |-> op = "authenticate" /\ is_revoked(rows[k])]]
    /\ UNCHANGED <<rows, clients, lock, now>>

\* Mutant: the row is read without a lock.
SelectForUpdate_NoLock(s) ==
    /\ runs(s, "authenticate", "begun")
    /\ IF active(row(s)) THEN step(s, "locked", "Ok") ELSE step(s, "commit", "Invalid")
    /\ UNCHANGED <<rows, clients, lock, now>>

\* authenticate_digest_on: SELECT ... FOR UPDATE waits for the row lock; an
\* unknown or revoked key is answered without a write.
SelectForUpdate(s) ==
    /\ runs(s, "authenticate", "begun")
    /\ IF row(s).exists
       THEN /\ lock[txn[s].key] = NoSession
            /\ lock' = [lock EXCEPT ![txn[s].key] = s]
            /\ IF is_revoked(row(s))
               THEN step(s, "commit", "Invalid")
               ELSE step(s, "locked", "Ok")
       ELSE step(s, "commit", "Invalid") /\ UNCHANGED lock
    /\ UNCHANGED <<rows, clients, now>>

\* The UPDATE of last_used_at, which the CHECK on its order may refuse.
TouchLastUsed(s) ==
    /\ runs(s, "authenticate", "locked")
    /\ IF ordered(written(s))
       THEN step(s, "commit", "Ok") /\ UNCHANGED lock
       ELSE rollback(s)
    /\ UNCHANGED <<rows, clients, now>>

\* Mutant: the UPDATE does not filter on the tenant.
matches_AnyTenant(s) == active(row(s))

\* WHERE id = $1 AND client_id = $2 AND revoked_at IS NULL.
matches(s) == active(row(s)) /\ Owner[txn[s].key] = txn[s].client

\* revoke_key: the UPDATE waits for the lock and sees the row as last committed;
\* if nothing matches, the row is looked up.
UpdateRevoked(s) ==
    /\ runs(s, "revoke", "begun")
    /\ IF matches(s)
       THEN /\ lock[txn[s].key] = NoSession
            /\ IF ordered([row(s) EXCEPT !.revoked_at = txn[s].stamp])
               THEN /\ step(s, "commit", "Revoked")
                    /\ lock' = [lock EXCEPT ![txn[s].key] = s]
               ELSE rollback(s)
       ELSE step(s, "select", "pending") /\ UNCHANGED lock
    /\ UNCHANGED <<rows, clients, now>>

SelectExisting(s) ==
    /\ runs(s, "revoke", "select")
    /\ step(s, "commit", IF row(s).exists /\ Owner[txn[s].key] = txn[s].client
                         THEN "AlreadyRevoked" ELSE "NotFound")
    /\ UNCHANGED <<rows, clients, lock, now>>

\* insert_key and provision_client_with_key: the foreign key of an issued key
\* wants a committed client.
Insert(s) ==
    /\ txn[s].op \in {"issue", "provision"} /\ txn[s].pc = "begun"
    /\ IF txn[s].op = "issue" => txn[s].client \in clients
       THEN step(s, "commit", "Created") /\ UNCHANGED lock
       ELSE rollback(s)
    /\ UNCHANGED <<rows, clients, now>>

\* COMMIT on the server: the write becomes visible and the lock is released.
Commit(s) ==
    /\ txn[s].pc = "commit"
    /\ rows' = [rows EXCEPT ![txn[s].key] = written(s)]
    /\ clients' = IF txn[s].op = "provision" THEN clients \cup {txn[s].client} ELSE clients
    /\ lock' = unlocked(s)
    /\ step(s, "reply", txn[s].result)
    /\ UNCHANGED now

\* A statement, a connection or the pool fails; before the commit nothing remains.
Fail(s) ==
    /\ txn[s].pc \in {"begun", "locked", "select", "commit"}
    /\ ~txn[s].orphan
    /\ rollback(s)
    /\ UNCHANGED <<rows, clients, now>>

\* The commit happened, but its acknowledgement is lost.
LoseReply(s) ==
    /\ txn[s].pc = "reply" /\ txn[s].result # "Unavailable"
    /\ step(s, "reply", "Unavailable")
    /\ UNCHANGED <<rows, clients, lock, now>>

Reply(s) ==
    /\ txn[s].pc = "reply"
    /\ txn' = [txn EXCEPT ![s] = NoTxn]
    /\ UNCHANGED <<rows, clients, lock, now>>

\* The caller's deadline passes, or it disconnects: the connection is detached
\* with its transaction open, and the row lock with it.
Cancel(s) ==
    /\ txn[s].pc \in {"begun", "locked", "select", "commit"}
    /\ ~txn[s].orphan
    /\ txn' = [txn EXCEPT ![s].orphan = TRUE]
    /\ UNCHANGED <<rows, clients, lock, now>>

\* Mutant: the lock of an abandoned transaction is not given up.
Reap_KeepsLock(s) ==
    /\ txn[s].orphan /\ txn[s].pc # "reply"
    /\ txn' = [txn EXCEPT ![s] = NoTxn]
    /\ UNCHANGED <<rows, clients, lock, now>>

\* The server notices the closed connection and rolls back; a COMMIT under way
\* may win.
Reap(s) ==
    /\ txn[s].orphan /\ txn[s].pc # "reply"
    /\ txn' = [txn EXCEPT ![s] = NoTxn]
    /\ lock' = unlocked(s)
    /\ UNCHANGED <<rows, clients, now>>

Tick == now < MaxTime /\ now' = now + 1 /\ UNCHANGED <<rows, clients, lock, txn>>

\* The client's statements, as long as there is a client.
Work(s) ==
    /\ ~txn[s].orphan
    /\ \/ SelectForUpdate(s) \/ TouchLastUsed(s) \/ UpdateRevoked(s)
       \/ SelectExisting(s) \/ Insert(s)

Next ==
    \/ \E s \in Session :
         \/ Begin(s) \/ Work(s) \/ Commit(s) \/ Reply(s)
         \/ Fail(s) \/ LoseReply(s) \/ Cancel(s) \/ Reap(s)
    \/ Tick

Spec == Init /\ [][Next]_vars

\* Statements are executed, the server ends abandoned transactions (it sees the
\* closed connection, or the statement timeout passes), and row locks are granted
\* in the order of the waiting, so that no waiter is overtaken for ever.
Fairness ==
    \A s \in Session :
      /\ SF_vars(Work(s))
      /\ WF_vars(Commit(s)) /\ WF_vars(Reply(s)) /\ WF_vars(Reap(s))

FairSpec == Spec /\ Fairness

----------------------------------------------------------------------------
answered(s, op, results) == runs(s, op, "reply") /\ txn[s].result \in results

\* A key whose revocation was committed before an authentication began is never
\* accepted, by no process; one that is accepted has this use, or a later one,
\* on record before the request goes on.
AuthenticationIsSound ==
    \A s \in Session : answered(s, "authenticate", {"Ok"}) =>
      ~txn[s].dead /\ row(s).last_used_at >= txn[s].stamp

\* Rows only move forward although stamps of different processes do not: a use
\* never goes back, a revocation is never lifted or redated, and a revoked key
\* is not used any more.
RowsMoveForward ==
    [][\A k \in Key : rows[k].exists =>
         /\ rows'[k].exists /\ rows'[k].created_at = rows[k].created_at
         /\ rows'[k].last_used_at >= rows[k].last_used_at
         /\ is_revoked(rows[k]) => rows'[k] = rows[k]]_vars

\* The refinement mapping: an operation that only reads has its effect when it
\* reads, one that writes when it commits.
AbsStatus == [k \in Key |-> IF ~rows[k].exists THEN "absent"
                            ELSE IF is_revoked(rows[k]) THEN "revoked" ELSE "active"]

AbsUsed == [k \in Key |-> rows[k].last_used_at]

AbsOutcome(s) ==
    IF \/ txn[s].pc \in {"begun", "locked", "select"}
       \/ txn[s].pc = "commit" /\ txn[s].result \in Effects
    THEN "pending"
    ELSE txn[s].result

AbsCall == [s \in Session |->
              IF txn[s].pc = "idle"
              THEN [op |-> "none"]
              ELSE [op |-> txn[s].op, key |-> txn[s].key, client |-> txn[s].client,
                    stamp |-> txn[s].stamp, outcome |-> AbsOutcome(s)]]

Registry == INSTANCE KeyRegistry WITH
    Stamp <- 0 .. (MaxTime + Skew), status <- AbsStatus, used <- AbsUsed, call <- AbsCall, known <- clients

\* The transactions, locks and retries of the store behave like one atomic
\* operation each, whatever fails and whoever gives up.
ImplementsRegistry == Registry!Spec

\* No operation waits for ever, not even behind the lock of a caller that is gone.
OperationsEnd == \A s \in Session : txn[s].pc # "idle" ~> txn[s].pc = "idle"
=============================================================================
