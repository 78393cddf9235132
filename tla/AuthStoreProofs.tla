--------------------------- MODULE AuthStoreProofs ----------------------------
(***************************************************************************)
(* The key store for every set of sessions, keys and tenants, and clocks   *)
(* that disagree by any amount: what a transaction may rely on between its *)
(* statements is inductive, so authentication is sound, rows move forward, *)
(* and the transactions implement the atomic operations of KeyRegistry.    *)
(***************************************************************************)
EXTENDS AuthStore, TLAPS

\* The answers an operation has for its caller once it has committed.
Answers(op) ==
    CASE op = "authenticate" -> {"Ok", "Invalid"}
      [] op = "revoke" -> {"Revoked", "AlreadyRevoked", "NotFound"}
      [] OTHER -> {"Created"}

\* A transaction that has read an active row it means to change.
writing(s) ==
    \/ txn[s].pc = "locked"
    \/ txn[s].pc = "commit" /\ txn[s].result \in {"Ok", "Revoked"}

\* A transaction that is about to add a row.
creating(s) ==
    txn[s].op \in {"issue", "provision"} /\ txn[s].pc \in {"begun", "commit"}

founding(s) == creating(s) /\ txn[s].op = "provision"

----------------------------------------------------------------------------
ResultFits(s) ==
    LET t == txn[s] IN
      /\ t.pc \in {"begun", "select"} => t.result = "pending"
      /\ t.pc = "select" => t.op = "revoke"
      /\ t.pc = "locked" => t.op = "authenticate" /\ t.result = "Ok"
      /\ t.pc = "commit" => t.result \in Answers(t.op)
      /\ t.pc = "reply" => t.result \in Answers(t.op) \cup {"Unavailable"}

\* Between its read and its commit a writer holds the row lock, and the row is
\* still the active one it read.
WriterHoldsLock(s) ==
    writing(s) => /\ lock[txn[s].key] = s
                  /\ active(row(s))
                  /\ txn[s].op = "revoke" => Owner[txn[s].key] = txn[s].client

\* Until its commit nobody else knows a new id.
CreatorIsFresh(s) ==
    creating(s) =>
      /\ ~row(s).exists /\ txn[s].key \notin Unissued
      /\ txn[s].client = Owner[txn[s].key]
      /\ txn[s].op = "provision" => txn[s].client \notin clients
      /\ txn[s].op = "issue" /\ txn[s].pc = "commit" => txn[s].client \in clients

\* A revocation never waits for a row to come into being, so what its UPDATE did
\* not match, its SELECT finds revoked, foreign or missing.
RevokerKnows(s) ==
    /\ txn[s].op = "revoke" /\ txn[s].pc \in {"begun", "select"} =>
         row(s).exists \/ txn[s].key \in Unissued
    /\ txn[s].pc = "select" => ~matches(s)

UseIsSound(s) ==
    /\ txn[s].op = "authenticate" /\ txn[s].dead =>
         row(s).exists /\ is_revoked(row(s)) /\ txn[s].result # "Ok"
    /\ answered(s, "authenticate", {"Ok"}) =>
         row(s).exists /\ row(s).last_used_at >= txn[s].stamp

Local(s) ==
    ResultFits(s) /\ WriterHoldsLock(s) /\ CreatorIsFresh(s) /\ RevokerKnows(s) /\ UseIsSound(s)

\* Two transactions never create the same row or the same tenant.
CreatorsDiffer ==
    \A s, r \in Session : s # r /\ creating(s) /\ creating(r) =>
      /\ txn[s].key # txn[r].key
      /\ founding(s) /\ founding(r) => txn[s].client # txn[r].client

AbsentRows ==
    \A k \in Key : /\ ~rows[k].exists => rows[k] = NoRow
                   /\ k \in Unissued => ~rows[k].exists

Inv ==
    /\ TypeOK /\ now <= MaxTime
    /\ AbsentRows /\ CreatorsDiffer
    /\ \A s \in Session : Local(s)

----------------------------------------------------------------------------
\* A statement moves its own session only, and of that the stage and the result.
LEMMA StepTxn ==
  ASSUME TypeOK, NEW s \in Session, NEW pc \in {"locked", "select", "commit", "reply"},
         NEW result \in Results, step(s, pc, result)
  PROVE  /\ txn' \in [Session -> Txns]
         /\ \A r \in Session : r # s => txn'[r] = txn[r]
         /\ txn'[s].pc = pc /\ txn'[s].result = result
         /\ txn'[s].op = txn[s].op /\ txn'[s].key = txn[s].key
         /\ txn'[s].client = txn[s].client /\ txn'[s].stamp = txn[s].stamp
         /\ txn'[s].dead = txn[s].dead
<1>1. txn[s] \in Txns
  BY DEF TypeOK
<1>2. txn' = [txn EXCEPT ![s] = [txn[s] EXCEPT !.pc = pc, !.result = result]]
  BY <1>1 DEF step, TypeOK, Txns
<1>3. \A t \in Txns : [t EXCEPT !.pc = pc, !.result = result] \in Txns
  BY DEF Txns
<1>4. /\ txn' \in [Session -> Txns]
      /\ \A r \in Session : r # s => txn'[r] = txn[r]
  BY <1>1, <1>2, <1>3 DEF TypeOK
<1>5. txn'[s] = [txn[s] EXCEPT !.pc = pc, !.result = result]
  BY <1>2 DEF TypeOK
<1> QED
  BY <1>1, <1>4, <1>5 DEF Txns

\* Giving up one's locks leaves the others' in place.
LEMMA Unlocked ==
  ASSUME TypeOK, NEW s \in Session
  PROVE  /\ unlocked(s) \in [Key -> Session \cup {NoSession}]
         /\ \A k \in Key : lock[k] # s => unlocked(s)[k] = lock[k]
  BY DEF TypeOK, unlocked

\* A step of one session that writes nothing, takes no lock from another and
\* starts no creation keeps the invariant if it keeps that session's part of it.
LEMMA LocalStep ==
  ASSUME Inv, NEW s \in Session, UNCHANGED <<rows, clients, now>>,
         txn' \in [Session -> Txns], \A r \in Session : r # s => txn'[r] = txn[r],
         lock' \in [Key -> Session \cup {NoSession}],
         \A k \in Key : lock[k] \notin {s, NoSession} => lock'[k] = lock[k],
         creating(s)' => /\ creating(s) /\ txn'[s].key = txn[s].key
                         /\ txn'[s].client = txn[s].client /\ txn'[s].op = txn[s].op,
         Local(s)'
  PROVE  Inv'
<1>1. TypeOK' /\ (now <= MaxTime)' /\ AbsentRows'
  BY DEF Inv, TypeOK, AbsentRows
<1>2. ASSUME NEW r \in Session, r # s PROVE Local(r)'
  <2>1. txn'[r] = txn[r] /\ Local(r) /\ txn[r].key \in Key
    BY <1>2 DEF Inv, TypeOK, Txns
  <2>2. row(r)' = row(r)
    BY <2>1 DEF row
  <2>3. writing(r) => lock'[txn[r].key] = r
    <3>1. SUFFICES ASSUME writing(r) PROVE lock'[txn[r].key] = r
      OBVIOUS
    <3>2. lock[txn[r].key] = r /\ r # NoSession
      BY <2>1, <3>1, StoreAssumption DEF Local, WriterHoldsLock
    <3> QED
      BY <1>2, <2>1, <3>2
  <2>4. ResultFits(r)' /\ CreatorIsFresh(r)' /\ RevokerKnows(r)' /\ UseIsSound(r)'
    BY <2>1, <2>2 DEF Local, ResultFits, CreatorIsFresh, creating, RevokerKnows, matches,
       UseIsSound, answered, runs
  <2>5. WriterHoldsLock(r)'
    BY <2>1, <2>2, <2>3 DEF Local, WriterHoldsLock, writing
  <2> QED
    BY <2>4, <2>5 DEF Local
<1>3. CreatorsDiffer'
  BY DEF Inv, CreatorsDiffer, creating, founding
<1> QED
  BY <1>1, <1>2, <1>3 DEF Inv

----------------------------------------------------------------------------
\* The parts of the invariant a session's next statement starts from.
LEMMA LocalFacts ==
  ASSUME Inv, NEW s \in Session
  PROVE  /\ TypeOK /\ Local(s) /\ txn[s] \in Txns /\ txn[s].key \in Key /\ row(s) \in Rows
         /\ s # NoSession
  BY StoreAssumption DEF Inv, TypeOK, Txns, row

\* A rolled back transaction answers without effect and gives up its lock.
LEMMA RollbackInv ==
  ASSUME Inv, NEW s \in Session, txn[s].pc # "idle", rollback(s), UNCHANGED <<rows, clients, now>>
  PROVE  Inv'
<1>0. /\ TypeOK /\ Local(s) /\ step(s, "reply", "Unavailable") /\ "Unavailable" \in Results
      /\ lock' = unlocked(s)
  BY LocalFacts DEF rollback, Results
<1>1. /\ txn' \in [Session -> Txns]
      /\ \A r \in Session : r # s => txn'[r] = txn[r]
      /\ txn'[s].pc = "reply" /\ txn'[s].result = "Unavailable"
      /\ txn'[s].op = txn[s].op /\ txn'[s].key = txn[s].key /\ txn'[s].dead = txn[s].dead
  BY <1>0, StepTxn
<1>2. /\ lock' \in [Key -> Session \cup {NoSession}]
      /\ \A k \in Key : lock[k] \notin {s, NoSession} => lock'[k] = lock[k]
  BY <1>0, Unlocked
<1>3. Local(s)'
  BY <1>0, <1>1 DEF Local, ResultFits, WriterHoldsLock, writing, CreatorIsFresh, creating,
     RevokerKnows, UseIsSound, answered, runs, row
<1>4. ~creating(s)'
  BY <1>1 DEF creating
<1> QED
  BY <1>1, <1>2, <1>3, <1>4, LocalStep

\* Authentication's SELECT takes the lock of an active row, or answers at once.
LEMMA SelectForUpdateInv == ASSUME Inv, NEW s \in Session, SelectForUpdate(s) PROVE Inv'
<1> USE DEF SelectForUpdate, runs
<1>0. /\ TypeOK /\ Local(s) /\ txn[s].key \in Key /\ s # NoSession
      /\ {"Ok", "Invalid"} \subseteq Results
      /\ txn[s].op = "authenticate" /\ txn[s].pc = "begun"
  BY LocalFacts DEF Results
<1>1. /\ lock' \in [Key -> Session \cup {NoSession}]
      /\ \A k \in Key : lock[k] \notin {s, NoSession} => lock'[k] = lock[k]
      /\ row(s).exists => lock'[txn[s].key] = s
  BY <1>0 DEF TypeOK
<1>2. PICK pc \in {"locked", "commit"}, result \in {"Ok", "Invalid"} :
         /\ step(s, pc, result)
         /\ pc = "locked" => result = "Ok" /\ active(row(s))
         /\ pc = "commit" => result = "Invalid"
  BY DEF active
<1>3. /\ txn' \in [Session -> Txns]
      /\ \A r \in Session : r # s => txn'[r] = txn[r]
      /\ txn'[s].pc = pc /\ txn'[s].result = result
      /\ txn'[s].op = txn[s].op /\ txn'[s].key = txn[s].key /\ txn'[s].dead = txn[s].dead
  BY <1>0, <1>2, StepTxn
<1>4. row(s)' = row(s)
  BY <1>3 DEF row
<1>5. Local(s)'
  BY <1>0, <1>1, <1>2, <1>3, <1>4 DEF Local, ResultFits, Answers, WriterHoldsLock, writing,
     CreatorIsFresh, creating, RevokerKnows, UseIsSound, answered, active
<1>6. ~creating(s)'
  BY <1>0, <1>3 DEF creating
<1> QED
  BY <1>1, <1>3, <1>5, <1>6, LocalStep

\* The UPDATE of the last use happens under the lock the SELECT took.
LEMMA TouchLastUsedInv == ASSUME Inv, NEW s \in Session, TouchLastUsed(s) PROVE Inv'
<1> USE DEF TouchLastUsed, runs
<1>0. /\ TypeOK /\ Local(s) /\ "Ok" \in Results
      /\ txn[s].op = "authenticate" /\ txn[s].pc = "locked"
  BY LocalFacts DEF Results
<1>1. CASE rollback(s)
  BY <1>0, <1>1, RollbackInv
<1>2. CASE step(s, "commit", "Ok") /\ UNCHANGED lock
  <2>1. /\ txn' \in [Session -> Txns]
        /\ \A r \in Session : r # s => txn'[r] = txn[r]
        /\ txn'[s].pc = "commit" /\ txn'[s].result = "Ok"
        /\ txn'[s].op = txn[s].op /\ txn'[s].key = txn[s].key /\ txn'[s].dead = txn[s].dead
    BY <1>0, <1>2, StepTxn
  <2>2. row(s)' = row(s)
    BY <2>1 DEF row
  <2>3. Local(s)'
    BY <1>0, <1>2, <2>1, <2>2 DEF Local, ResultFits, Answers, WriterHoldsLock, writing,
       CreatorIsFresh, creating, RevokerKnows, UseIsSound, answered
  <2>4. ~creating(s)'
    BY <1>0, <2>1 DEF creating
  <2>5. lock' \in [Key -> Session \cup {NoSession}]
    BY <1>0, <1>2 DEF TypeOK
  <2> QED
    BY <1>2, <2>1, <2>3, <2>4, <2>5, LocalStep
<1> QED
  BY <1>1, <1>2

\* A revocation's UPDATE locks the active row of the tenant, or finds none.
LEMMA UpdateRevokedInv == ASSUME Inv, NEW s \in Session, UpdateRevoked(s) PROVE Inv'
<1> USE DEF UpdateRevoked, runs
<1>0. /\ TypeOK /\ Local(s) /\ txn[s].key \in Key /\ s # NoSession
      /\ {"Revoked", "pending"} \subseteq Results
      /\ txn[s].op = "revoke" /\ txn[s].pc = "begun"
  BY LocalFacts DEF Results
<1>1. CASE rollback(s)
  BY <1>0, <1>1, RollbackInv
<1>2. ASSUME NEW pc \in {"commit", "select"}, NEW result \in {"Revoked", "pending"},
             step(s, pc, result),
             pc = "commit" => /\ matches(s) /\ result = "Revoked"
                              /\ lock[txn[s].key] = NoSession
                              /\ lock' = [lock EXCEPT ![txn[s].key] = s],
             pc = "select" => ~matches(s) /\ result = "pending" /\ lock' = lock
      PROVE  Inv'
  <2>1. /\ txn' \in [Session -> Txns]
        /\ \A r \in Session : r # s => txn'[r] = txn[r]
        /\ txn'[s].pc = pc /\ txn'[s].result = result
        /\ txn'[s].op = txn[s].op /\ txn'[s].key = txn[s].key
        /\ txn'[s].client = txn[s].client /\ txn'[s].dead = txn[s].dead
    BY <1>0, <1>2, StepTxn
  <2>2. /\ lock' \in [Key -> Session \cup {NoSession}]
        /\ \A k \in Key : lock[k] \notin {s, NoSession} => lock'[k] = lock[k]
        /\ pc = "commit" => lock'[txn[s].key] = s
    BY <1>0, <1>2 DEF TypeOK
  <2>3. row(s)' = row(s)
    BY <2>1 DEF row
  <2>4. Local(s)'
    BY <1>0, <1>2, <2>1, <2>2, <2>3 DEF Local, ResultFits, Answers, WriterHoldsLock, writing,
       CreatorIsFresh, creating, RevokerKnows, matches, UseIsSound, answered
  <2>5. ~creating(s)'
    BY <1>0, <2>1 DEF creating
  <2> QED
    BY <2>1, <2>2, <2>4, <2>5, LocalStep
<1> QED
  BY <1>1, <1>2

\* The second look of a revocation only chooses the answer.
LEMMA SelectExistingInv == ASSUME Inv, NEW s \in Session, SelectExisting(s) PROVE Inv'
<1> USE DEF SelectExisting, runs
<1>0. /\ TypeOK /\ Local(s) /\ {"AlreadyRevoked", "NotFound"} \subseteq Results
      /\ txn[s].op = "revoke" /\ txn[s].pc = "select"
  BY LocalFacts DEF Results
<1>1. PICK result \in {"AlreadyRevoked", "NotFound"} : step(s, "commit", result)
  OBVIOUS
<1>2. /\ txn' \in [Session -> Txns]
      /\ \A r \in Session : r # s => txn'[r] = txn[r]
      /\ txn'[s].pc = "commit" /\ txn'[s].result = result
      /\ txn'[s].op = txn[s].op /\ txn'[s].key = txn[s].key
  BY <1>0, <1>1, StepTxn
<1>3. row(s)' = row(s)
  BY <1>2 DEF row
<1>4. Local(s)'
  BY <1>0, <1>2, <1>3 DEF Local, ResultFits, Answers, WriterHoldsLock, writing,
     CreatorIsFresh, creating, RevokerKnows, matches, UseIsSound, answered
<1>5. ~creating(s)'
  BY <1>0, <1>2 DEF creating
<1>6. lock' \in [Key -> Session \cup {NoSession}]
  BY <1>0 DEF TypeOK
<1> QED
  BY <1>2, <1>4, <1>5, <1>6, LocalStep

\* An INSERT of a key of an unknown tenant is rolled back.
LEMMA InsertInv == ASSUME Inv, NEW s \in Session, Insert(s) PROVE Inv'
<1> USE DEF Insert
<1>0. /\ TypeOK /\ Local(s) /\ "Created" \in Results
      /\ txn[s].op \in {"issue", "provision"} /\ txn[s].pc = "begun"
  BY LocalFacts DEF Results
<1>1. CASE rollback(s)
  BY <1>0, <1>1, RollbackInv
<1>2. CASE step(s, "commit", "Created") /\ UNCHANGED lock /\ (txn[s].op = "issue" => txn[s].client \in clients)
  <2>1. /\ txn' \in [Session -> Txns]
        /\ \A r \in Session : r # s => txn'[r] = txn[r]
        /\ txn'[s].pc = "commit" /\ txn'[s].result = "Created"
        /\ txn'[s].op = txn[s].op /\ txn'[s].key = txn[s].key
        /\ txn'[s].client = txn[s].client
    BY <1>0, <1>2, StepTxn
  <2>2. row(s)' = row(s)
    BY <2>1 DEF row
  <2>3. creating(s) /\ creating(s)'
    BY <1>0, <2>1 DEF creating
  <2>4. Local(s)'
    BY <1>0, <1>2, <2>1, <2>2, <2>3 DEF Local, ResultFits, Answers, WriterHoldsLock, writing,
       CreatorIsFresh, RevokerKnows, UseIsSound, answered, runs
  <2>5. lock' \in [Key -> Session \cup {NoSession}]
    BY <1>0, <1>2 DEF TypeOK
  <2> QED
    BY <1>2, <2>1, <2>3, <2>4, <2>5, LocalStep
<1> QED
  BY <1>1, <1>2

\* A session without an operation relies on nothing.
LEMMA NoTxnLocal ==
  ASSUME NEW s \in Session, txn'[s] = NoTxn
  PROVE  Local(s)' /\ ~creating(s)'
  BY DEF NoTxn, Local, ResultFits, WriterHoldsLock, writing, CreatorIsFresh, creating,
     RevokerKnows, UseIsSound, answered, runs

\* The empty operation has the type of one.
LEMMA NoTxnType == NoTxn \in Txns
<1>1. (CHOOSE k \in Key : TRUE) \in Key
  BY StoreAssumption
<1>2. (CHOOSE c \in Client : TRUE) \in Client
  <2>1. PICK k \in Key : TRUE
    BY StoreAssumption
  <2>2. Owner[k] \in Client
    BY StoreAssumption
  <2> QED
    BY <2>2
<1> QED
  BY <1>1, <1>2 DEF NoTxn, Txns, Ops, Results

\* The ends of an operation: its answer is lost, taken, or never wanted.
LEMMA EndInv ==
  ASSUME Inv, NEW s \in Session, Reply(s) \/ Reap(s) \/ LoseReply(s) \/ Cancel(s)
  PROVE  Inv'
<1>0. TypeOK /\ Local(s) /\ txn[s] \in Txns
  BY LocalFacts
<1>1. CASE Reply(s) \/ Reap(s)
  <2>1. txn' = [txn EXCEPT ![s] = NoTxn] /\ UNCHANGED <<rows, clients, now>>
    BY <1>1 DEF Reply, Reap
  <2>2. /\ txn' \in [Session -> Txns] /\ txn'[s] = NoTxn
        /\ \A r \in Session : r # s => txn'[r] = txn[r]
    BY <1>0, <2>1, NoTxnType DEF TypeOK
  <2>3. /\ lock' \in [Key -> Session \cup {NoSession}]
        /\ \A k \in Key : lock[k] \notin {s, NoSession} => lock'[k] = lock[k]
    BY <1>0, <1>1, Unlocked DEF Reply, Reap, TypeOK
  <2> QED
    BY <2>1, <2>2, <2>3, NoTxnLocal, LocalStep
<1>2. CASE LoseReply(s)
  <2>0. step(s, "reply", "Unavailable") /\ "Unavailable" \in Results /\ txn[s].pc = "reply"
    BY <1>2 DEF LoseReply, Results
  <2>1. /\ txn' \in [Session -> Txns]
        /\ \A r \in Session : r # s => txn'[r] = txn[r]
        /\ txn'[s].pc = "reply" /\ txn'[s].result = "Unavailable"
        /\ txn'[s].op = txn[s].op /\ txn'[s].key = txn[s].key /\ txn'[s].dead = txn[s].dead
    BY <1>0, <2>0, StepTxn
  <2>2. Local(s)' /\ ~creating(s)'
    BY <1>0, <1>2, <2>1 DEF LoseReply, Local, ResultFits, WriterHoldsLock, writing,
       CreatorIsFresh, creating, RevokerKnows, UseIsSound, answered, runs, row
  <2>3. lock' \in [Key -> Session \cup {NoSession}]
    BY <1>0, <1>2 DEF LoseReply, TypeOK
  <2> QED
    BY <1>2, <2>1, <2>2, <2>3, LocalStep DEF LoseReply
<1>3. CASE Cancel(s)
  <2>1. /\ txn'[s] \in Txns /\ txn'[s].pc = txn[s].pc /\ txn'[s].result = txn[s].result
        /\ txn'[s].op = txn[s].op /\ txn'[s].key = txn[s].key /\ txn'[s].client = txn[s].client
        /\ txn'[s].stamp = txn[s].stamp /\ txn'[s].dead = txn[s].dead
    BY <1>0, <1>3 DEF Cancel, TypeOK, Txns
  <2>2. /\ txn' \in [Session -> Txns]
        /\ \A r \in Session : r # s => txn'[r] = txn[r]
    BY <1>0, <1>3, <2>1 DEF Cancel, TypeOK
  <2>3. Local(s)'
    BY <1>0, <1>3, <2>1 DEF Cancel, Local, ResultFits, WriterHoldsLock, writing,
       CreatorIsFresh, creating, RevokerKnows, matches, UseIsSound, answered, runs, row
  <2>4. creating(s)' => creating(s)
    BY <2>1 DEF creating
  <2>5. lock' \in [Key -> Session \cup {NoSession}]
    BY <1>0, <1>3 DEF Cancel, TypeOK
  <2> QED
    BY <1>3, <2>1, <2>2, <2>3, <2>4, <2>5, LocalStep DEF Cancel
<1> QED
  BY <1>1, <1>2, <1>3

\* What a session that begins an operation knows and runs.
LEMMA BeginTxn ==
  ASSUME TypeOK, NEW s \in Session, Begin(s)
  PROVE  \E op \in Ops, k \in Key, c \in Client, t \in Nat :
           /\ op \in {"issue", "provision"} =>
                /\ ~rows[k].exists /\ k \notin Unissued /\ c = Owner[k]
                /\ \A r \in Session : txn[r].pc # "idle" => txn[r].key # k
           /\ op = "provision" =>
                /\ c \notin clients
                /\ \A r \in Session : txn[r].pc # "idle" => txn[r].client # c
           /\ op = "revoke" => rows[k].exists \/ k \in Unissued
           /\ t <= now + Skew
           /\ txn' \in [Session -> Txns]
           /\ \A r \in Session : r # s => txn'[r] = txn[r]
           /\ txn'[s].pc = "begun" /\ txn'[s].op = op /\ txn'[s].key = k
           /\ txn'[s].client = c /\ txn'[s].stamp = t /\ txn'[s].result = "pending"
           /\ txn'[s].dead => is_revoked(rows[k])
<1>1. PICK op \in Ops, k \in Key, c \in Client, t \in Clocks :
         /\ op \in {"issue", "provision"} =>
              /\ ~rows[k].exists /\ k \notin Unissued /\ c = Owner[k]
              /\ \A r \in Session : txn[r].pc # "idle" => txn[r].key # k
         /\ op = "provision" =>
              /\ c \notin clients
              /\ \A r \in Session : txn[r].pc # "idle" => txn[r].client # c
         /\ op = "revoke" => rows[k].exists \/ k \in Unissued
         /\ op = "authenticate" => c = Owner[k]
         /\ txn' = [txn EXCEPT ![s] =
              [pc |-> "begun", op |-> op, key |-> k, client |-> c, stamp |-> t,
               result |-> "pending", orphan |-> FALSE,
               dead |-> op = "authenticate" /\ is_revoked(rows[k])]]
  BY DEF Begin
<1>2. t \in Nat /\ t <= now + Skew
  BY StoreAssumption DEF Clocks, TypeOK
<1>3. /\ txn'[s] \in Txns /\ txn'[s].pc = "begun" /\ txn'[s].op = op /\ txn'[s].key = k
      /\ txn'[s].client = c /\ txn'[s].stamp = t /\ txn'[s].result = "pending"
      /\ txn'[s].dead => is_revoked(rows[k])
  <2> DEFINE d == op = "authenticate" /\ is_revoked(rows[k])
  <2>1. d \in BOOLEAN /\ (d => is_revoked(rows[k]))
    BY DEF is_revoked
  <2>2. txn'[s] = [pc |-> "begun", op |-> op, key |-> k, client |-> c, stamp |-> t,
                   result |-> "pending", orphan |-> FALSE, dead |-> d]
    BY <1>1 DEF TypeOK
  <2> HIDE DEF d
  <2> QED
    BY <1>2, <2>1, <2>2 DEF Txns, Results
<1>4. /\ txn' \in [Session -> Txns]
      /\ \A r \in Session : r # s => txn'[r] = txn[r]
  BY <1>1, <1>3 DEF TypeOK
<1> QED
  BY <1>1, <1>2, <1>3, <1>4

\* A new operation names a fresh row, an existing one, or one that never will be.
LEMMA BeginInv == ASSUME Inv, NEW s \in Session, Begin(s) PROVE Inv'
<1>0. TypeOK /\ UNCHANGED <<rows, clients, lock, now>>
  BY LocalFacts DEF Begin
<1>1. PICK op \in Ops, k \in Key, c \in Client, t \in Nat :
           /\ op \in {"issue", "provision"} =>
                /\ ~rows[k].exists /\ k \notin Unissued /\ c = Owner[k]
                /\ \A r \in Session : txn[r].pc # "idle" => txn[r].key # k
           /\ op = "provision" =>
                /\ c \notin clients
                /\ \A r \in Session : txn[r].pc # "idle" => txn[r].client # c
           /\ op = "revoke" => rows[k].exists \/ k \in Unissued
           /\ txn' \in [Session -> Txns]
           /\ \A r \in Session : r # s => txn'[r] = txn[r]
           /\ txn'[s].pc = "begun" /\ txn'[s].op = op /\ txn'[s].key = k
           /\ txn'[s].client = c /\ txn'[s].result = "pending"
           /\ txn'[s].dead => is_revoked(rows[k])
  BY <1>0, BeginTxn
<1>3. /\ txn'[s].pc = "begun" /\ txn'[s].op = op /\ txn'[s].key = k
      /\ txn'[s].client = c /\ txn'[s].result = "pending"
      /\ txn'[s].dead => is_revoked(rows[k])
  BY <1>1
<1>4. /\ txn' \in [Session -> Txns]
      /\ \A r \in Session : r # s => txn'[r] = txn[r]
  BY <1>1
<1>5. Local(s)'
  <2>1. row(s)' = rows[k]
    BY <1>0, <1>3 DEF row
  <2>2. is_revoked(rows[k]) => rows[k].exists
    BY DEF Inv, AbsentRows, NoRow, is_revoked
  <2>3. ResultFits(s)' /\ WriterHoldsLock(s)'
    BY <1>3 DEF ResultFits, WriterHoldsLock, writing
  <2>4. CreatorIsFresh(s)' /\ RevokerKnows(s)'
    BY <1>0, <1>1, <1>3, <2>1 DEF CreatorIsFresh, creating, RevokerKnows
  <2>5. UseIsSound(s)'
    BY <1>3, <2>1, <2>2 DEF UseIsSound, answered, runs
  <2> QED
    BY <2>3, <2>4, <2>5 DEF Local
<1>6. ASSUME NEW r \in Session, r # s PROVE Local(r)'
  <2>1. txn'[r] = txn[r] /\ Local(r)
    BY <1>4, <1>6 DEF Inv
  <2> QED
    BY <1>0, <2>1 DEF Local, ResultFits, WriterHoldsLock, writing, CreatorIsFresh, creating,
       RevokerKnows, matches, UseIsSound, answered, runs, row
<1>7. CreatorsDiffer'
  <2>1. ASSUME NEW r \in Session, r # s, creating(r)'
        PROVE  /\ creating(s)' => txn'[r].key # k
               /\ founding(s)' => txn'[r].client # c
    <3>1. txn'[r] = txn[r] /\ txn[r].pc # "idle"
      BY <1>4, <2>1 DEF creating
    <3> QED
      BY <1>1, <1>3, <3>1 DEF creating, founding
  <2>2. ASSUME NEW q \in Session, NEW r \in Session, q # s, r # s, q # r, creating(q)', creating(r)'
        PROVE  /\ txn'[q].key # txn'[r].key
               /\ founding(q)' /\ founding(r)' => txn'[q].client # txn'[r].client
    <3>1. txn'[q] = txn[q] /\ txn'[r] = txn[r]
      BY <1>4, <2>2
    <3> QED
      BY <2>2, <3>1 DEF Inv, CreatorsDiffer, creating, founding
  <2>3. txn'[s].key = k /\ txn'[s].client = c
    BY <1>3
  <2> QED
    BY <2>1, <2>2, <2>3 DEF CreatorsDiffer, founding
<1> QED
  BY <1>0, <1>4, <1>5, <1>6, <1>7 DEF Inv, TypeOK, AbsentRows

----------------------------------------------------------------------------
\* What a transaction at its commit has written: the later use or the revocation
\* of an active row, a new row, or nothing.
LEMMA WrittenCases ==
  ASSUME Inv, NEW s \in Session, txn[s].pc = "commit"
  PROVE  /\ written(s) \in Rows
         /\ \/ /\ txn[s].op = "authenticate" /\ txn[s].result = "Ok" /\ active(row(s))
               /\ written(s) = used_row(row(s), txn[s].stamp)
            \/ /\ txn[s].op = "revoke" /\ txn[s].result = "Revoked" /\ active(row(s))
               /\ Owner[txn[s].key] = txn[s].client
               /\ written(s) = [row(s) EXCEPT !.revoked_at = txn[s].stamp]
            \/ /\ creating(s) /\ txn[s].result = "Created" /\ ~row(s).exists
               /\ written(s) = inserted_row(txn[s].stamp)
            \/ /\ txn[s].result \in {"Invalid", "AlreadyRevoked", "NotFound"}
               /\ ~creating(s) /\ written(s) = row(s)
<1>0. /\ Local(s) /\ row(s) \in Rows /\ txn[s].stamp \in Nat
      /\ txn[s].op \in Ops /\ txn[s].result \in Answers(txn[s].op)
  BY LocalFacts DEF Txns, Local, ResultFits
<1>1. CASE txn[s].op = "authenticate"
  <2>1. CASE txn[s].result = "Ok"
    <3>1. active(row(s)) /\ written(s) = used_row(row(s), txn[s].stamp)
      BY <1>0, <2>1 DEF Local, WriterHoldsLock, writing, written
    <3>2. used_row(row(s), txn[s].stamp) \in Rows
      BY <1>0 DEF used_row, Rows
    <3> QED
      BY <1>1, <2>1, <3>1, <3>2
  <2>2. CASE txn[s].result = "Invalid"
    BY <1>0, <1>1, <2>2 DEF written, creating
  <2> QED
    BY <1>0, <1>1, <2>1, <2>2 DEF Answers
<1>2. CASE txn[s].op = "revoke"
  <2>1. CASE txn[s].result = "Revoked"
    <3>1. /\ active(row(s)) /\ Owner[txn[s].key] = txn[s].client
          /\ written(s) = [row(s) EXCEPT !.revoked_at = txn[s].stamp]
      BY <1>0, <1>2, <2>1 DEF Local, WriterHoldsLock, writing, written
    <3>2. [row(s) EXCEPT !.revoked_at = txn[s].stamp] \in Rows
      BY <1>0 DEF Rows
    <3> QED
      BY <1>2, <2>1, <3>1, <3>2
  <2>2. CASE txn[s].result \in {"AlreadyRevoked", "NotFound"}
    BY <1>0, <1>2, <2>2 DEF written, creating
  <2> QED
    BY <1>0, <1>2, <2>1, <2>2 DEF Answers
<1>3. CASE txn[s].op \in {"issue", "provision"}
  <2>1. txn[s].result = "Created" /\ creating(s)
    BY <1>0, <1>3 DEF Answers, creating
  <2>2. written(s) = inserted_row(txn[s].stamp) /\ ~row(s).exists
    BY <1>0, <2>1 DEF written, Local, CreatorIsFresh
  <2>3. inserted_row(txn[s].stamp) \in Rows
    BY <1>0 DEF inserted_row, Rows
  <2> QED
    BY <2>1, <2>2, <2>3
<1> QED
  BY <1>0, <1>1, <1>2, <1>3 DEF Ops

\* A commit moves its row forward and leaves all others alone.
LEMMA CommitRows ==
  ASSUME Inv, NEW s \in Session, Commit(s)
  PROVE  /\ rows' \in [Key -> Rows] /\ rows'[txn[s].key] = written(s)
         /\ \A k \in Key : k # txn[s].key => rows'[k] = rows[k]
         /\ \A k \in Key : rows[k].exists =>
              /\ rows'[k].exists /\ rows'[k].created_at = rows[k].created_at
              /\ rows'[k].last_used_at >= rows[k].last_used_at
              /\ is_revoked(rows[k]) => rows'[k] = rows[k]
<1> DEFINE key == txn[s].key
<1>0. TypeOK /\ key \in Key /\ row(s) \in Rows /\ txn[s].stamp \in Nat /\ txn[s].pc = "commit"
  BY LocalFacts DEF Txns, Commit
<1>1. written(s) \in Rows
  BY <1>0, WrittenCases
<1>2. /\ rows' \in [Key -> Rows] /\ rows'[key] = written(s)
      /\ \A k \in Key : k # key => rows'[k] = rows[k]
  BY <1>0, <1>1 DEF Commit, TypeOK
<1>3. row(s).exists =>
        /\ written(s).exists /\ written(s).created_at = row(s).created_at
        /\ written(s).last_used_at >= row(s).last_used_at
        /\ is_revoked(row(s)) => written(s) = row(s)
  BY <1>0, WrittenCases DEF used_row, active, is_revoked, Rows, Never
<1>4. \A k \in Key : rows[k].last_used_at >= rows[k].last_used_at
  BY <1>0 DEF TypeOK, Rows, Never
<1> QED
  BY <1>0, <1>2, <1>3, <1>4 DEF row

\* A commit keeps the invariant: whoever else relies on the row would hold its
\* lock, and whoever else is creating is creating something else.
LEMMA CommitInv == ASSUME Inv, NEW s \in Session, Commit(s) PROVE Inv'
<1> DEFINE key == txn[s].key
<1>0. /\ TypeOK /\ Local(s) /\ key \in Key /\ txn[s].pc = "commit" /\ s # NoSession
      /\ row(s) \in Rows /\ txn[s].stamp \in Nat /\ row(s) = rows[key]
      /\ txn[s].result \in Results /\ txn[s].client \in Client /\ txn[s].op \in Ops
  BY LocalFacts DEF Txns, Commit, row
<1>1. /\ txn' \in [Session -> Txns]
      /\ \A r \in Session : r # s => txn'[r] = txn[r]
      /\ txn'[s].pc = "reply" /\ txn'[s].result = txn[s].result
      /\ txn'[s].op = txn[s].op /\ txn'[s].key = key /\ txn'[s].stamp = txn[s].stamp
      /\ txn'[s].dead = txn[s].dead
  BY <1>0, StepTxn DEF Commit
<1>2. /\ lock' \in [Key -> Session \cup {NoSession}]
      /\ \A k \in Key : lock[k] # s => lock'[k] = lock[k]
  BY <1>0, Unlocked DEF Commit
<1>3. /\ rows' \in [Key -> Rows] /\ rows'[key] = written(s)
      /\ \A k \in Key : k # key => rows'[k] = rows[k]
      /\ \A k \in Key : rows[k].exists =>
           /\ rows'[k].exists /\ rows'[k].created_at = rows[k].created_at
           /\ rows'[k].last_used_at >= rows[k].last_used_at
           /\ is_revoked(rows[k]) => rows'[k] = rows[k]
  BY CommitRows
<1>4. /\ clients \subseteq clients' /\ clients' \subseteq Client
      /\ \A c : c \in clients' /\ c \notin clients => founding(s) /\ c = txn[s].client
  BY <1>0 DEF Commit, TypeOK, founding, creating
<1>5. TypeOK' /\ (now <= MaxTime)'
  BY <1>1, <1>2, <1>3, <1>4 DEF Commit, Inv, TypeOK
<1>6. /\ ~written(s).exists => written(s) = row(s)
      /\ written(s).exists /\ ~row(s).exists => creating(s)
  BY <1>0, WrittenCases DEF used_row, active, inserted_row, Rows
<1>7. AbsentRows'
  <2>1. ASSUME NEW k \in Key, k # key PROVE (~rows[k].exists => rows[k] = NoRow)'
                                            /\ (k \in Unissued => ~rows'[k].exists)
    BY <1>3, <2>1 DEF Inv, AbsentRows, NoRow
  <2>2. ~rows'[key].exists => rows'[key] = NoRow
    BY <1>0, <1>3, <1>6 DEF Inv, AbsentRows
  <2>3. key \in Unissued => ~rows'[key].exists
    BY <1>0, <1>3, <1>6 DEF Inv, AbsentRows, Local, CreatorIsFresh
  <2>4. NoRow' = NoRow
    BY DEF NoRow
  <2> QED
    BY <2>1, <2>2, <2>3, <2>4 DEF AbsentRows
<1>8. Local(s)'
  <2>1. row(s)' = written(s)
    BY <1>1, <1>3 DEF row
  <2>2. ResultFits(s)' /\ WriterHoldsLock(s)' /\ CreatorIsFresh(s)' /\ RevokerKnows(s)'
    BY <1>0, <1>1 DEF Local, ResultFits, WriterHoldsLock, writing, CreatorIsFresh, creating,
       RevokerKnows
  <2>3. txn[s].op = "authenticate" /\ txn[s].result = "Ok" =>
          written(s).exists /\ written(s).last_used_at >= txn[s].stamp
    <3>1. SUFFICES ASSUME txn[s].op = "authenticate", txn[s].result = "Ok"
                   PROVE  written(s).exists /\ written(s).last_used_at >= txn[s].stamp
      OBVIOUS
    <3>2. written(s) = used_row(row(s), txn[s].stamp) /\ active(row(s))
      BY <1>0, <3>1, WrittenCases DEF creating
    <3> QED
      BY <1>0, <3>2 DEF used_row, active, Rows, Never
  <2>4. UseIsSound(s)'
    <3>1. row(s).exists /\ is_revoked(row(s)) => written(s).exists /\ is_revoked(written(s))
      BY <1>0, <1>3
    <3> QED
      BY <1>0, <1>1, <2>1, <2>3, <3>1 DEF Local, UseIsSound, answered, runs
  <2> QED
    BY <2>2, <2>4 DEF Local
<1>9. ASSUME NEW r \in Session, r # s PROVE Local(r)'
  <2>0. /\ txn'[r] = txn[r] /\ Local(r) /\ txn[r].key \in Key /\ r # NoSession
        /\ row(r) = rows[txn[r].key] /\ row(r)' = rows'[txn[r].key]
        /\ txn[r].stamp \in Nat /\ row(r) \in Rows /\ row(r)' \in Rows
    BY <1>1, <1>3, <1>9, LocalFacts DEF row, Txns
  <2>1. ResultFits(r)'
    BY <2>0 DEF Local, ResultFits
  <2>2. WriterHoldsLock(r)'
    <3>1. SUFFICES ASSUME writing(r)
                   PROVE  /\ lock'[txn[r].key] = r /\ row(r)' = row(r)
      BY <2>0 DEF Local, WriterHoldsLock, writing
    <3>2. lock[txn[r].key] = r /\ active(row(r))
      BY <2>0, <3>1 DEF Local, WriterHoldsLock
    <3>3. ASSUME txn[r].key = key PROVE written(s) = row(s)
      <4>1. ~writing(s)
        BY <1>0, <1>9, <3>2, <3>3 DEF Local, WriterHoldsLock
      <4>2. ~creating(s)
        BY <1>0, <2>0, <3>2, <3>3 DEF Local, CreatorIsFresh, active
      <4> QED
        BY <1>0, <4>1, <4>2, WrittenCases DEF writing
    <3> QED
      BY <1>0, <1>2, <1>3, <1>9, <2>0, <3>2, <3>3
  <2>3. CreatorIsFresh(r)'
    <3>1. SUFFICES ASSUME creating(r) PROVE CreatorIsFresh(r)'
      BY <2>0 DEF CreatorIsFresh, creating
    <3>2. ~row(r).exists /\ txn[r].key \notin Unissued /\ txn[r].client = Owner[txn[r].key]
      BY <2>0, <3>1 DEF Local, CreatorIsFresh
    <3>3. creating(s) => txn[r].key # key /\ (founding(s) /\ founding(r) => txn[s].client # txn[r].client)
      BY <1>9, <3>1 DEF Inv, CreatorsDiffer
    <3>4. ~row(r)'.exists
      BY <1>0, <1>3, <1>6, <2>0, <3>2, <3>3
    <3>5. txn[r].op = "provision" => txn[r].client \notin clients'
      BY <1>4, <2>0, <3>1, <3>3 DEF Local, CreatorIsFresh, founding
    <3>6. txn[r].op = "issue" /\ txn[r].pc = "commit" => txn[r].client \in clients'
      BY <1>4, <2>0, <3>1 DEF Local, CreatorIsFresh
    <3> QED
      BY <2>0, <3>2, <3>4, <3>5, <3>6 DEF CreatorIsFresh
  <2>4. RevokerKnows(r)'
    <3>1. txn[r].op = "revoke" /\ txn[r].pc \in {"begun", "select"} =>
            row(r)'.exists \/ txn[r].key \in Unissued
      BY <1>3, <2>0 DEF Local, RevokerKnows
    <3>2. ASSUME txn[r].pc = "select" PROVE ~matches(r)'
      <4>1. ~matches(r) /\ (row(r).exists \/ txn[r].key \in Unissued)
        BY <2>0, <3>2 DEF Local, RevokerKnows, ResultFits
      <4>2. active(row(r)') => active(row(r))
        BY <1>3, <1>7, <2>0, <4>1 DEF active, AbsentRows
      <4> QED
        BY <2>0, <4>1, <4>2 DEF matches
    <3> QED
      BY <2>0, <3>1, <3>2 DEF RevokerKnows
  <2>5. UseIsSound(r)'
    <3>1. row(r).exists => row(r)'.exists /\ row(r)'.last_used_at >= row(r).last_used_at
                           /\ (is_revoked(row(r)) => row(r)' = row(r))
      BY <1>3, <2>0
    <3>2. row(r).last_used_at \in Int /\ row(r)'.last_used_at \in Int
      BY <2>0 DEF Rows, Never
    <3> QED
      BY <2>0, <3>1, <3>2 DEF Local, UseIsSound, answered, runs
  <2> QED
    BY <2>1, <2>2, <2>3, <2>4, <2>5 DEF Local
<1>10. CreatorsDiffer'
  <2>1. ~creating(s)'
    BY <1>1 DEF creating
  <2>2. \A r \in Session : creating(r)' => r # s /\ creating(r) /\ txn'[r] = txn[r]
    BY <1>1, <2>1 DEF creating
  <2> QED
    BY <2>2 DEF Inv, CreatorsDiffer, founding
<1> QED
  BY <1>5, <1>7, <1>8, <1>9, <1>10 DEF Inv

----------------------------------------------------------------------------
\* Every step keeps the invariant.
LEMMA InvStep == Inv /\ [Next]_vars => Inv'
<1> SUFFICES ASSUME Inv, [Next]_vars PROVE Inv'
  OBVIOUS
<1>1. ASSUME NEW s \in Session, Work(s) PROVE Inv'
  BY <1>1, SelectForUpdateInv, TouchLastUsedInv, UpdateRevokedInv, SelectExistingInv, InsertInv
     DEF Work
<1>2. ASSUME NEW s \in Session, Fail(s) PROVE Inv'
  BY <1>2, RollbackInv DEF Fail
<1>3. CASE Tick \/ UNCHANGED vars
  <2>1. UNCHANGED <<rows, clients, lock, txn>> /\ now' \in Nat /\ now' <= MaxTime
    BY <1>3, StoreAssumption DEF Tick, vars, Inv, TypeOK
  <2> QED
    BY <2>1 DEF Inv, TypeOK, AbsentRows, CreatorsDiffer, founding, Local, ResultFits,
       WriterHoldsLock, writing, CreatorIsFresh, creating, RevokerKnows, matches, UseIsSound,
       answered, runs, row
<1> QED
  BY <1>1, <1>2, <1>3, BeginInv, CommitInv, EndInv DEF Next

\* Every reachable state of the store satisfies the invariant.
THEOREM AuthStoreInvariant == Spec => []Inv
<1>1. Init => Inv
  <2> SUFFICES ASSUME Init PROVE Inv
    OBVIOUS
  <2>1. NoRow \in Rows
    BY DEF NoRow, Rows
  <2>2. TypeOK /\ now <= MaxTime
    BY <2>1, NoTxnType, StoreAssumption DEF Init, TypeOK
  <2>3. AbsentRows
    BY DEF Init, AbsentRows, NoRow
  <2>4. \A s \in Session : txn[s].pc = "idle" /\ txn[s].dead = FALSE
    BY DEF Init, NoTxn
  <2> QED
    BY <2>2, <2>3, <2>4 DEF Inv, CreatorsDiffer, Local, ResultFits, WriterHoldsLock, writing,
       CreatorIsFresh, creating, RevokerKnows, UseIsSound, answered, runs
<1> QED
  BY <1>1, InvStep, PTL DEF Spec

\* No process accepts a key that was revoked before the authentication began,
\* and an accepted use is on record, for any number of processes and keys.
THEOREM AuthenticationSound == Spec => []AuthenticationIsSound
<1>1. Inv => AuthenticationIsSound
  BY DEF Inv, AuthenticationIsSound, Local, UseIsSound, answered, runs
<1> QED
  BY <1>1, AuthStoreInvariant, PTL

\* Uses never go back and revocations are final, although the stamps of
\* different processes are not ordered.
THEOREM RowsAlwaysMoveForward == Spec => RowsMoveForward
<1> DEFINE Forward == \A k \in Key : rows[k].exists =>
         /\ rows'[k].exists /\ rows'[k].created_at = rows[k].created_at
         /\ rows'[k].last_used_at >= rows[k].last_used_at
         /\ is_revoked(rows[k]) => rows'[k] = rows[k]
<1>1. ASSUME Inv, [Next]_vars PROVE Forward
  <2>1. ASSUME NEW s \in Session, Commit(s) PROVE Forward
    BY <1>1, <2>1, CommitRows
  <2>2. CASE rows' = rows
    <3>1. \A k \in Key : rows[k].last_used_at \in Int
      BY <1>1 DEF Inv, TypeOK, Rows, Never
    <3> QED
      BY <2>2, <3>1
  <2> QED
    BY <1>1, <2>1, <2>2 DEF Next, Begin, Work, SelectForUpdate, TouchLastUsed, UpdateRevoked,
       SelectExisting, Insert, Reply, Fail, LoseReply, Cancel, Reap, Tick, vars
<1>2. Inv /\ [Next]_vars => [Forward]_vars
  BY <1>1
<1> QED
  BY <1>2, AuthStoreInvariant, PTL DEF Spec, RowsMoveForward

----------------------------------------------------------------------------
\* A running operation as the registry sees it.
LEMMA MappedCall ==
  ASSUME TypeOK, NEW s \in Session
  PROVE  /\ txn[s].pc = "idle" => AbsCall[s] = Registry!Idle
         /\ txn[s].pc # "idle" =>
              /\ AbsCall[s] = [op |-> txn[s].op, key |-> txn[s].key, client |-> txn[s].client,
                               stamp |-> txn[s].stamp, outcome |-> AbsOutcome(s)]
              /\ AbsCall[s] # Registry!Idle
              /\ AbsCall[s].op = txn[s].op /\ AbsCall[s].key = txn[s].key
              /\ AbsCall[s].client = txn[s].client /\ AbsCall[s].stamp = txn[s].stamp
              /\ AbsCall[s].outcome = AbsOutcome(s)
<1>1. txn[s].op # "none"
  BY DEF TypeOK, Txns, Ops
<1>2. txn[s].pc # "idle" =>
        AbsCall[s] = [op |-> txn[s].op, key |-> txn[s].key, client |-> txn[s].client,
                      stamp |-> txn[s].stamp, outcome |-> AbsOutcome(s)]
  BY DEF AbsCall
<1>3. txn[s].pc = "idle" => AbsCall[s] = Registry!Idle
  BY DEF AbsCall, Registry!Idle
<1>4. Registry!Idle.op = "none"
  BY DEF Registry!Idle
<1> QED
  BY <1>1, <1>2, <1>3, <1>4

\* The status and the latest use of one row.
LEMMA MappedRow ==
  ASSUME NEW k \in Key
  PROVE  /\ AbsStatus[k] = IF ~rows[k].exists THEN "absent"
                           ELSE IF is_revoked(rows[k]) THEN "revoked" ELSE "active"
         /\ AbsUsed[k] = rows[k].last_used_at
         /\ AbsStatus[k] = "active" <=> active(rows[k])
  BY DEF AbsStatus, AbsUsed, active

\* A step of one session resolves its operation with the outcome it shows.
LEMMA Resolves ==
  ASSUME TypeOK, TypeOK', NEW s \in Session,
         \A r \in Session : r # s => txn'[r] = txn[r],
         txn[s].pc # "idle", txn'[s].pc # "idle",
         txn'[s].op = txn[s].op, txn'[s].key = txn[s].key,
         txn'[s].client = txn[s].client, txn'[s].stamp = txn[s].stamp
  PROVE  /\ AbsCall' = [AbsCall EXCEPT ![s].outcome = AbsOutcome(s)']
         /\ AbsOutcome(s)' = AbsOutcome(s) => AbsCall' = AbsCall
<1>1. \A r \in Session : r # s => AbsCall'[r] = AbsCall[r]
  BY DEF AbsCall, AbsOutcome
<1>2. AbsCall'[s] = [op |-> txn[s].op, key |-> txn[s].key, client |-> txn[s].client,
                     stamp |-> txn[s].stamp, outcome |-> AbsOutcome(s)']
  BY DEF AbsCall
<1>3. AbsCall[s] = [op |-> txn[s].op, key |-> txn[s].key, client |-> txn[s].client,
                    stamp |-> txn[s].stamp, outcome |-> AbsOutcome(s)]
  BY DEF AbsCall
<1>4. AbsCall'[s] = [AbsCall[s] EXCEPT !.outcome = AbsOutcome(s)']
  BY <1>2, <1>3
<1>5. AbsCall' = [r \in Session |-> AbsCall'[r]] /\ AbsCall = [r \in Session |-> AbsCall[r]]
  BY DEF AbsCall
<1> QED
  BY <1>1, <1>2, <1>3, <1>4, <1>5

\* A step that writes no row and shows the same outcome is a stutter, one that
\* shows "Unavailable" a refusal.
LEMMA QuietStep ==
  ASSUME TypeOK, TypeOK', NEW s \in Session, UNCHANGED <<rows, clients>>,
         \A r \in Session : r # s => txn'[r] = txn[r],
         txn[s].pc # "idle", txn'[s].pc # "idle",
         txn'[s].op = txn[s].op, txn'[s].key = txn[s].key,
         txn'[s].client = txn[s].client, txn'[s].stamp = txn[s].stamp,
         AbsOutcome(s)' \in {AbsOutcome(s), "Unavailable"}
  PROVE  [Registry!Next]_(Registry!kvars)
<1>1. AbsStatus' = AbsStatus /\ AbsUsed' = AbsUsed
  BY DEF AbsStatus, AbsUsed
<1>2. CASE AbsOutcome(s)' = AbsOutcome(s)
  BY <1>1, <1>2, Resolves DEF Registry!kvars
<1>3. CASE AbsOutcome(s)' = "Unavailable"
  <2>1. AbsCall' = [AbsCall EXCEPT ![s].outcome = "Unavailable"]
    BY <1>3, Resolves
  <2>2. Registry!Refuse(s)
    BY <1>1, <2>1, MappedCall DEF Registry!Refuse, Registry!resolve
  <2> QED
    BY <2>2 DEF Registry!Next
<1> QED
  BY <1>2, <1>3

\* A statement that ends in step(s, pc, result), seen by the registry.
LEMMA StatementStep ==
  ASSUME Inv, TypeOK', NEW s \in Session, txn[s].pc # "idle",
         NEW pc \in {"locked", "select", "commit", "reply"}, NEW result \in Results,
         step(s, pc, result)
  PROVE  /\ AbsOutcome(s)' = IF pc \in {"locked", "select"} \/ (pc = "commit" /\ result \in Effects)
                             THEN "pending" ELSE result
         /\ AbsCall' = [AbsCall EXCEPT ![s].outcome = AbsOutcome(s)']
         /\ /\ UNCHANGED <<rows, clients>>
            /\ AbsOutcome(s)' \in {AbsOutcome(s), "Unavailable"}
            => [Registry!Next]_(Registry!kvars)
<1>0. TypeOK
  BY DEF Inv
<1>1. /\ \A r \in Session : r # s => txn'[r] = txn[r]
      /\ txn'[s].pc = pc /\ txn'[s].result = result
      /\ txn'[s].op = txn[s].op /\ txn'[s].key = txn[s].key
      /\ txn'[s].client = txn[s].client /\ txn'[s].stamp = txn[s].stamp
  BY <1>0, StepTxn
<1>2. AbsOutcome(s)' = IF pc \in {"locked", "select"} \/ (pc = "commit" /\ result \in Effects)
                       THEN "pending" ELSE result
  BY <1>1 DEF AbsOutcome
<1>3. txn'[s].pc # "idle"
  BY <1>1
<1> HIDE DEF AbsOutcome
<1> QED
  BY <1>0, <1>1, <1>2, <1>3, Resolves, QuietStep

\* A rollback is a refusal.
LEMMA RefinesRollback ==
  ASSUME Inv, Inv', NEW s \in Session, txn[s].pc # "idle", rollback(s), UNCHANGED <<rows, clients>>
  PROVE  [Registry!Next]_(Registry!kvars)
<1>1. step(s, "reply", "Unavailable") /\ "Unavailable" \in Results /\ TypeOK'
  BY DEF rollback, Results, Inv
<1> QED
  BY <1>1, StatementStep

\* The beginning of a transaction is an invocation with a stamp of some clock.
LEMMA RefinesBegin ==
  ASSUME Inv, Inv', NEW s \in Session, Begin(s)
  PROVE  Registry!Invoke(s)
<1>0. TypeOK /\ TypeOK' /\ txn[s].pc = "idle" /\ UNCHANGED <<rows, clients>> /\ now <= MaxTime
  BY DEF Inv, Begin
<1>1. PICK op \in Ops, k \in Key, c \in Client, t \in Nat :
         /\ t <= now + Skew
         /\ \A r \in Session : r # s => txn'[r] = txn[r]
         /\ txn'[s].pc = "begun" /\ txn'[s].op = op /\ txn'[s].key = k
         /\ txn'[s].client = c /\ txn'[s].stamp = t
  BY <1>0, BeginTxn
<1>2. /\ \A r \in Session : r # s => txn'[r] = txn[r]
      /\ txn'[s].pc = "begun" /\ txn'[s].op = op /\ txn'[s].key = k
      /\ txn'[s].client = c /\ txn'[s].stamp = t
  BY <1>1
<1>3. t \in 0 .. (MaxTime + Skew)
  BY <1>0, <1>1, StoreAssumption DEF TypeOK
<1>4. AbsOutcome(s)' = "pending"
  BY <1>2 DEF AbsOutcome
<1>5. AbsCall'[s] = [op |-> op, key |-> k, client |-> c, stamp |-> t, outcome |-> "pending"]
  BY <1>2, <1>4 DEF AbsCall
<1>6. AbsCall'[s] \in [op : Registry!Ops, key : Key, client : Client,
                       stamp : 0 .. (MaxTime + Skew), outcome : {"pending"}]
  BY <1>3, <1>5 DEF Registry!Ops, Ops
<1>7. \A r \in Session : r # s => AbsCall'[r] = AbsCall[r]
  BY <1>2 DEF AbsCall, AbsOutcome
<1>8. AbsCall' = [AbsCall EXCEPT ![s] = AbsCall'[s]]
  <2>1. AbsCall' = [r \in Session |-> AbsCall'[r]] /\ AbsCall = [r \in Session |-> AbsCall[r]]
    BY DEF AbsCall
  <2> QED
    BY <1>7, <2>1
<1>9. AbsStatus' = AbsStatus /\ AbsUsed' = AbsUsed
  BY <1>0 DEF AbsStatus, AbsUsed
<1> QED
  BY <1>0, <1>6, <1>8, <1>9, MappedCall DEF Registry!Invoke

\* Authentication reads an inactive row: a denial.  Else nothing shows yet.
LEMMA RefinesSelectForUpdate ==
  ASSUME Inv, Inv', NEW s \in Session, SelectForUpdate(s)
  PROVE  [Registry!Next]_(Registry!kvars)
<1> USE DEF SelectForUpdate, runs
<1>0. /\ TypeOK /\ TypeOK' /\ txn[s].key \in Key /\ {"Ok", "Invalid"} \subseteq Results
      /\ txn[s].op = "authenticate" /\ txn[s].pc = "begun" /\ UNCHANGED <<rows, clients>>
  BY LocalFacts DEF Results, Inv
<1>1. AbsOutcome(s) = "pending"
  BY <1>0 DEF AbsOutcome
<1>2. CASE step(s, "locked", "Ok")
  BY <1>0, <1>1, <1>2, StatementStep
<1>3. CASE step(s, "commit", "Invalid") /\ ~active(row(s))
  <2>1. AbsCall' = [AbsCall EXCEPT ![s].outcome = "Invalid"]
    <3>1. AbsCall' = [AbsCall EXCEPT ![s].outcome = AbsOutcome(s)'] /\ AbsOutcome(s)' = "Invalid"
      BY <1>0, <1>3, StatementStep DEF Effects
    <3> QED
      BY <3>1
  <2>2. AbsStatus[txn[s].key] # "active"
    BY <1>0, <1>3, MappedRow DEF row
  <2>3. AbsStatus' = AbsStatus /\ AbsUsed' = AbsUsed
    BY <1>0 DEF AbsStatus, AbsUsed
  <2>4. Registry!Deny(s)
    BY <1>0, <1>1, <2>1, <2>2, <2>3, MappedCall
       DEF Registry!Deny, Registry!Pending, Registry!resolve
  <2> QED
    BY <2>4 DEF Registry!Next
<1> QED
  BY <1>2, <1>3 DEF active

\* The writing statements show nothing before their commit.
LEMMA RefinesWrites ==
  ASSUME Inv, Inv', NEW s \in Session, TouchLastUsed(s) \/ UpdateRevoked(s) \/ Insert(s)
  PROVE  [Registry!Next]_(Registry!kvars)
<1>0. /\ TypeOK' /\ {"Ok", "Revoked", "Created", "pending"} \subseteq Results
      /\ txn[s].pc \in {"begun", "locked"} /\ UNCHANGED <<rows, clients>>
  BY DEF Results, Inv, TouchLastUsed, UpdateRevoked, Insert, runs
<1>1. AbsOutcome(s) = "pending"
  BY <1>0 DEF AbsOutcome
<1>2. CASE rollback(s)
  BY <1>0, <1>2, RefinesRollback
<1>3. ASSUME NEW result \in {"Ok", "Revoked", "Created"}, step(s, "commit", result)
      PROVE  [Registry!Next]_(Registry!kvars)
  BY <1>0, <1>1, <1>3, StatementStep DEF Effects
<1>4. CASE step(s, "select", "pending")
  BY <1>0, <1>1, <1>4, StatementStep
<1> QED
  BY <1>2, <1>3, <1>4 DEF TouchLastUsed, UpdateRevoked, Insert

\* The second look of a revocation finds the tenant's key revoked, or no key of
\* the tenant: the row cannot have become active since the UPDATE missed it.
LEMMA RefinesSelectExisting ==
  ASSUME Inv, Inv', NEW s \in Session, SelectExisting(s)
  PROVE  Registry!RevokeNothing(s)
<1> USE DEF SelectExisting, runs
<1> DEFINE mine == Owner[txn[s].key] = txn[s].client
           result == IF row(s).exists /\ mine THEN "AlreadyRevoked" ELSE "NotFound"
<1>0. /\ TypeOK /\ TypeOK' /\ Local(s) /\ txn[s].key \in Key
      /\ {"AlreadyRevoked", "NotFound"} \subseteq Results
      /\ txn[s].op = "revoke" /\ txn[s].pc = "select" /\ UNCHANGED <<rows, clients>>
  BY LocalFacts DEF Results, Inv
<1>1. AbsOutcome(s) = "pending" /\ ~matches(s)
  BY <1>0 DEF AbsOutcome, Local, RevokerKnows
<1>2. result \in {"AlreadyRevoked", "NotFound"} /\ step(s, "commit", result)
  OBVIOUS
<1>3. AbsCall' = [AbsCall EXCEPT ![s].outcome = result]
  <2> HIDE DEF result
  <2>1. AbsCall' = [AbsCall EXCEPT ![s].outcome = AbsOutcome(s)'] /\ AbsOutcome(s)' = result
    BY <1>0, <1>2, StatementStep DEF Effects
  <2> QED
    BY <2>1
<1>4. AbsStatus' = AbsStatus /\ AbsUsed' = AbsUsed
  BY <1>0 DEF AbsStatus, AbsUsed
<1>5. CASE row(s).exists /\ mine
  <2>1. AbsStatus[txn[s].key] = "revoked"
    BY <1>0, <1>1, <1>5, MappedRow DEF matches, active, row
  <2>2. result = "AlreadyRevoked"
    BY <1>5
  <2> QED
    BY <1>0, <1>1, <1>3, <1>4, <1>5, <2>1, <2>2, MappedCall
       DEF Registry!RevokeNothing, Registry!Pending, Registry!resolve
<1>6. CASE ~(row(s).exists /\ mine)
  <2>1. ~mine \/ AbsStatus[txn[s].key] = "absent"
    BY <1>0, <1>6, MappedRow DEF row
  <2>2. result = "NotFound"
    BY <1>6
  <2> QED
    BY <1>0, <1>1, <1>3, <1>4, <2>1, <2>2, MappedCall
       DEF Registry!RevokeNothing, Registry!Pending, Registry!resolve
<1> QED
  BY <1>5, <1>6

\* A commit changes the registry's view of its own row only.
LEMMA MappedWrite ==
  ASSUME NEW key \in Key, \A k \in Key : k # key => rows'[k] = rows[k]
  PROVE  /\ AbsStatus' = [AbsStatus EXCEPT ![key] = AbsStatus'[key]]
         /\ AbsUsed' = [AbsUsed EXCEPT ![key] = AbsUsed'[key]]
         /\ AbsStatus'[key] = AbsStatus[key] => AbsStatus' = AbsStatus
         /\ AbsUsed'[key] = AbsUsed[key] => AbsUsed' = AbsUsed
<1>1. \A k \in Key : k # key => AbsStatus'[k] = AbsStatus[k] /\ AbsUsed'[k] = AbsUsed[k]
  BY DEF AbsStatus, AbsUsed, is_revoked
<1>2. /\ AbsStatus' = [k \in Key |-> AbsStatus'[k]] /\ AbsStatus = [k \in Key |-> AbsStatus[k]]
      /\ AbsUsed' = [k \in Key |-> AbsUsed'[k]] /\ AbsUsed = [k \in Key |-> AbsUsed[k]]
  BY DEF AbsStatus, AbsUsed
<1> QED
  BY <1>1, <1>2

\* COMMIT is the instant at which a grant, a revocation or a creation happens.
LEMMA RefinesCommit ==
  ASSUME Inv, Inv', NEW s \in Session, Commit(s)
  PROVE  [Registry!Next]_(Registry!kvars)
<1> DEFINE key == txn[s].key
           result == txn[s].result
<1>0. /\ TypeOK /\ TypeOK' /\ Local(s) /\ key \in Key /\ txn[s].pc = "commit"
      /\ row(s) \in Rows /\ txn[s].stamp \in Nat /\ row(s) = rows[key]
      /\ result \in Results /\ step(s, "reply", result)
  BY LocalFacts DEF Txns, Commit, row, Inv
<1>1. AbsCall' = [AbsCall EXCEPT ![s].outcome = result]
  <2>1. AbsCall' = [AbsCall EXCEPT ![s].outcome = AbsOutcome(s)'] /\ AbsOutcome(s)' = result
    BY <1>0, StatementStep
  <2> QED
    BY <2>1
<1>2. /\ AbsCall[s] # Registry!Idle /\ AbsCall[s].op = txn[s].op /\ AbsCall[s].key = key
      /\ AbsCall[s].client = txn[s].client /\ AbsCall[s].stamp = txn[s].stamp
      /\ AbsCall[s].outcome = AbsOutcome(s)
  BY <1>0, MappedCall
<1>3. rows'[key] = written(s) /\ \A k \in Key : k # key => rows'[k] = rows[k]
  BY CommitRows
<1>4. /\ AbsStatus' = [AbsStatus EXCEPT ![key] = AbsStatus'[key]]
      /\ AbsUsed' = [AbsUsed EXCEPT ![key] = AbsUsed'[key]]
      /\ AbsStatus'[key] = AbsStatus[key] => AbsStatus' = AbsStatus
      /\ AbsUsed'[key] = AbsUsed[key] => AbsUsed' = AbsUsed
  BY <1>0, <1>3, MappedWrite
<1>5. /\ AbsStatus[key] = IF ~row(s).exists THEN "absent"
                          ELSE IF is_revoked(row(s)) THEN "revoked" ELSE "active"
      /\ AbsUsed[key] = row(s).last_used_at
  BY <1>0, MappedRow
<1>6. /\ AbsStatus'[key] = IF ~written(s).exists THEN "absent"
                           ELSE IF is_revoked(written(s)) THEN "revoked" ELSE "active"
      /\ AbsUsed'[key] = written(s).last_used_at
  BY <1>0, <1>3 DEF AbsStatus, AbsUsed, is_revoked
<1>7. result \in Effects => AbsOutcome(s) = "pending"
  BY <1>0 DEF AbsOutcome
<1>8. CASE /\ txn[s].op = "authenticate" /\ result = "Ok" /\ active(row(s))
           /\ written(s) = used_row(row(s), txn[s].stamp)
  <2>1. AbsStatus[key] = "active" /\ AbsStatus'[key] = "active"
    BY <1>0, <1>5, <1>6, <1>8 DEF used_row, active, is_revoked, Rows
  <2>2. AbsUsed'[key] = Registry!Latest(AbsUsed[key], txn[s].stamp)
    BY <1>0, <1>5, <1>6, <1>8 DEF used_row, Registry!Latest, Rows
  <2>3. clients' = clients
    BY <1>8 DEF Commit
  <2>4. Registry!Grant(s)
    BY <1>1, <1>2, <1>4, <1>7, <1>8, <2>1, <2>2, <2>3
       DEF Registry!Grant, Registry!Pending, Registry!resolve, Effects
  <2> QED
    BY <2>4 DEF Registry!Next
<1>9. CASE /\ txn[s].op = "revoke" /\ result = "Revoked" /\ active(row(s))
           /\ Owner[key] = txn[s].client
           /\ written(s) = [row(s) EXCEPT !.revoked_at = txn[s].stamp]
  <2>1. /\ AbsStatus[key] = "active" /\ AbsStatus'[key] = "revoked"
        /\ AbsUsed'[key] = AbsUsed[key]
    BY <1>0, <1>5, <1>6, <1>9 DEF active, is_revoked, Rows, Never
  <2>2. clients' = clients
    BY <1>9 DEF Commit
  <2>3. Registry!Revoke(s)
    BY <1>1, <1>2, <1>4, <1>7, <1>9, <2>1, <2>2
       DEF Registry!Revoke, Registry!Pending, Registry!resolve, Effects
  <2> QED
    BY <2>3 DEF Registry!Next
<1>10. CASE /\ creating(s) /\ result = "Created" /\ ~row(s).exists
            /\ written(s) = inserted_row(txn[s].stamp)
  <2>1. /\ AbsStatus[key] = "absent" /\ AbsStatus'[key] = "active"
    BY <1>5, <1>6, <1>10 DEF inserted_row, is_revoked
  <2>2. row(s) = NoRow
    BY <1>0, <1>10 DEF Inv, AbsentRows
  <2>3. AbsUsed'[key] = AbsUsed[key]
    BY <1>5, <1>6, <1>10, <2>2 DEF inserted_row, NoRow
  <2>4. txn[s].client = Owner[key]
    BY <1>0, <1>10 DEF Local, CreatorIsFresh
  <2>5. \/ txn[s].op = "issue" /\ Owner[key] \in clients /\ clients' = clients
        \/ txn[s].op = "provision" /\ Owner[key] \notin clients /\ clients' = clients \cup {Owner[key]}
    BY <1>0, <1>10, <2>4 DEF Local, CreatorIsFresh, creating, Commit
  <2>6. clients' = clients \cup {Owner[key]}
    BY <2>5
  <2>7. Registry!Create(s)
    BY <1>1, <1>2, <1>4, <1>7, <1>10, <2>1, <2>3, <2>5, <2>6
       DEF Registry!Create, Registry!Pending, Registry!resolve, Effects
  <2> QED
    BY <2>7 DEF Registry!Next
<1>11. CASE /\ result \in {"Invalid", "AlreadyRevoked", "NotFound"}
            /\ ~creating(s) /\ written(s) = row(s)
  <2>1. rows' = rows
    BY <1>0, <1>3, <1>11 DEF TypeOK
  <2>2. clients' = clients
    BY <1>0, <1>11 DEF Commit, creating
  <2>3. AbsOutcome(s) = result
    BY <1>0, <1>11 DEF AbsOutcome, Effects
  <2>4. AbsOutcome(s)' = result
    BY <1>0, StatementStep
  <2> HIDE DEF result
  <2> QED
    BY <1>0, <2>1, <2>2, <2>3, <2>4, StatementStep
<1> QED
  BY <1>0, <1>8, <1>9, <1>10, <1>11, WrittenCases

\* The ends of an operation are its return, a lost answer, or nothing to see.
LEMMA RefinesEnd ==
  ASSUME Inv, Inv', NEW s \in Session, Reply(s) \/ Reap(s) \/ LoseReply(s) \/ Cancel(s)
  PROVE  [Registry!Next]_(Registry!kvars)
<1>0. TypeOK /\ TypeOK' /\ UNCHANGED <<rows, clients>> /\ txn[s] \in Txns
  BY LocalFacts DEF Inv, Reply, Reap, LoseReply, Cancel
<1>1. AbsStatus' = AbsStatus /\ AbsUsed' = AbsUsed
  BY <1>0 DEF AbsStatus, AbsUsed
<1>2. CASE Reply(s) \/ Reap(s)
  <2>1. txn' = [txn EXCEPT ![s] = NoTxn]
    BY <1>2 DEF Reply, Reap
  <2>2. txn'[s].pc = "idle" /\ \A r \in Session : r # s => txn'[r] = txn[r]
    BY <1>0, <2>1 DEF TypeOK, NoTxn
  <2>3. \A r \in Session : r # s => AbsCall'[r] = AbsCall[r]
    BY <2>2 DEF AbsCall, AbsOutcome
  <2>4. AbsCall'[s] = Registry!Idle
    BY <2>2 DEF AbsCall, Registry!Idle
  <2>5. AbsCall' = [r \in Session |-> AbsCall'[r]] /\ AbsCall = [r \in Session |-> AbsCall[r]]
    BY DEF AbsCall
  <2>6. AbsCall' = [AbsCall EXCEPT ![s] = Registry!Idle]
    BY <2>3, <2>4, <2>5
  <2>7. CASE AbsCall[s] = Registry!Idle
    <3>1. AbsCall' = AbsCall
      BY <2>3, <2>4, <2>5, <2>7
    <3> QED
      BY <1>0, <1>1, <3>1 DEF Registry!kvars
  <2>8. CASE AbsCall[s] # Registry!Idle
    BY <1>0, <1>1, <2>6, <2>8 DEF Registry!Return, Registry!Next
  <2> QED
    BY <2>7, <2>8
<1>3. CASE LoseReply(s)
  <2>1. step(s, "reply", "Unavailable") /\ "Unavailable" \in Results /\ txn[s].pc = "reply"
    BY <1>3 DEF LoseReply, Results
  <2> QED
    BY <1>0, <2>1, StatementStep
<1>4. CASE Cancel(s)
  <2>1. /\ txn'[s].pc = txn[s].pc /\ txn'[s].result = txn[s].result /\ txn[s].pc # "idle"
        /\ txn'[s].op = txn[s].op /\ txn'[s].key = txn[s].key /\ txn'[s].client = txn[s].client
        /\ txn'[s].stamp = txn[s].stamp
        /\ \A r \in Session : r # s => txn'[r] = txn[r]
    BY <1>0, <1>4 DEF Cancel, TypeOK, Txns
  <2>2. AbsOutcome(s)' = AbsOutcome(s)
    BY <2>1 DEF AbsOutcome
  <2> QED
    BY <1>0, <2>1, <2>2, QuietStep
<1> QED
  BY <1>2, <1>3, <1>4

\* Every behaviour of the store, with its locks, failures and abandoned
\* transactions, is one of atomic operations on the registry.
THEOREM AuthStoreRefinesRegistry == Spec => ImplementsRegistry
<1>1. Init => Registry!Init
  BY DEF Init, NoRow, NoTxn, Registry!Init, Registry!Idle, AbsStatus, AbsUsed, AbsCall
<1>2. Inv /\ Inv' /\ [Next]_vars => [Registry!Next]_(Registry!kvars)
  <2> SUFFICES ASSUME Inv, Inv', [Next]_vars PROVE [Registry!Next]_(Registry!kvars)
    OBVIOUS
  <2>1. ASSUME NEW s \in Session, Begin(s) PROVE [Registry!Next]_(Registry!kvars)
    BY <2>1, RefinesBegin DEF Registry!Next
  <2>2. ASSUME NEW s \in Session, Work(s) PROVE [Registry!Next]_(Registry!kvars)
    <3>1. CASE SelectExisting(s)
      BY <3>1, RefinesSelectExisting DEF Registry!Next
    <3> QED
      BY <2>2, <3>1, RefinesSelectForUpdate, RefinesWrites DEF Work
  <2>3. ASSUME NEW s \in Session, Fail(s) PROVE [Registry!Next]_(Registry!kvars)
    BY <2>3, RefinesRollback DEF Fail
  <2>4. CASE Tick \/ UNCHANGED vars
    <3>1. UNCHANGED <<rows, clients, txn>>
      BY <2>4 DEF Tick, vars
    <3> QED
      BY <3>1 DEF Registry!kvars, AbsStatus, AbsUsed, AbsCall, AbsOutcome
  <2> QED
    BY <2>1, <2>2, <2>3, <2>4, RefinesCommit, RefinesEnd DEF Next
<1> QED
  BY <1>1, <1>2, AuthStoreInvariant, PTL DEF Spec, ImplementsRegistry, Registry!Spec
=============================================================================
