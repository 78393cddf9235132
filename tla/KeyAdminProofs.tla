---------------------------- MODULE KeyAdminProofs ----------------------------
(***************************************************************************)
(* Proofs about KeyAdmin, for every number of keys, tenants, agents, bodies *)
(* and queries.                                                            *)
(***************************************************************************)
EXTENDS KeyAdmin, FiniteSetTheorems, WellFoundedInduction, TLAPS

-----------------------------------------------------------------------------
(* Positions *)

(* Every set of numbers that is not empty has a least member. *)
LEMMA LeastMember ==
    ASSUME NEW T, T \subseteq Nat, T # {}
    PROVE  \E m \in T : \A n \in T : m <= n
<1>1. PICK m \in T : \A n \in T : ~(<<n, m>> \in OpToRel(<, Nat))
  BY NatLessThanWellFounded, WFMin
<1>2. \A n \in T : ~(n < m)
  BY <1>1 DEF OpToRel
<1> QED
  BY <1>2

(* A key that joins the inventory never moves another key forward. *)
LEMMA PositionsOnlyGrow ==
    ASSUME NEW K, NEW L, K \subseteq L, L \subseteq Nat, IsFiniteSet(L), NEW k \in K
    PROVE  /\ position(k, K) \in Nat
           /\ position(k, K) <= position(k, L)
<1> DEFINE A == {j \in K : j > k}
           B == {j \in L : j > k}
<1>1. A \subseteq B /\ B \subseteq L
  OBVIOUS
<1>2. IsFiniteSet(B)
  BY <1>1, FS_Subset
<1>3. IsFiniteSet(A) /\ Cardinality(A) <= Cardinality(B)
  BY <1>1, <1>2, FS_Subset
<1> QED
  BY <1>3, FS_CardinalityType DEF position

(* Two keys of an inventory never share a position. *)
LEMMA PositionsDiffer ==
    ASSUME NEW K, K \subseteq Nat, IsFiniteSet(K), NEW i \in K, NEW k \in K, i < k
    PROVE  position(k, K) < position(i, K)
<1> DEFINE A == {j \in K : j > k}
           B == {j \in K : j > i}
<1>0. i \in Nat /\ k \in Nat /\ \A j \in K : j \in Nat
  OBVIOUS
<1>1. A \subseteq B /\ B \subseteq K /\ k \in B /\ k \notin A
  <2>1. \A j \in K : j > k => j > i
    BY <1>0
  <2>2. k > i /\ ~(k > k)
    BY <1>0
  <2> QED
    BY <2>1, <2>2
<1>2. IsFiniteSet(B)
  BY <1>1, FS_Subset
<1>3. IsFiniteSet(A) /\ Cardinality(A) <= Cardinality(B) /\ Cardinality(A) # Cardinality(B)
  BY <1>1, <1>2, FS_Subset
<1>4. Cardinality(A) \in Nat /\ Cardinality(B) \in Nat
  BY <1>2, <1>3, FS_CardinalityType
<1> QED
  BY <1>3, <1>4 DEF position

(* The key before the one at a position that is not the first. *)
LEMMA Predecessor ==
    ASSUME NEW K, K \subseteq Nat, IsFiniteSet(K), NEW k \in K, position(k, K) > 0
    PROVE  \E j \in K : position(j, K) = position(k, K) - 1
<1> DEFINE A == {j \in K : j > k}
<1>1. IsFiniteSet(A) /\ A \subseteq Nat
  BY FS_Subset
<1>2. A # {}
  BY FS_EmptySet DEF position
<1>3. PICK j \in A : \A n \in A : j <= n
  BY <1>1, <1>2, LeastMember
<1> DEFINE B == {n \in K : n > j}
<1>4. B = A \ {j}
  <2>1. \A n \in K : n \in Nat
    OBVIOUS
  <2>2. \A n \in K : n > j <=> n > k /\ n # j
    BY <1>3, <2>1
  <2> QED
    BY <2>2
<1>5. Cardinality(B) = Cardinality(A) - 1
  BY <1>1, <1>4, FS_RemoveElement
<1> QED
  BY <1>3, <1>5 DEF position

(* An inventory has no holes: with a position, the ones before it are taken too. *)
LEMMA PositionsAreDense ==
    ASSUME NEW K, K \subseteq Nat, IsFiniteSet(K), NEW k \in K,
           NEW p \in Nat, p <= position(k, K)
    PROVE  \E j \in K : position(j, K) = p
<1> DEFINE T == {n \in Nat : p <= n /\ \E j \in K : position(j, K) = n}
<1>1. \A j \in K : position(j, K) \in Nat
  BY PositionsOnlyGrow
<1>2. T # {}
  BY <1>1
<1>3. PICK m \in T : \A n \in T : m <= n
  BY <1>2, LeastMember
<1>4. PICK j \in K : position(j, K) = m
  BY <1>3
<1>5. CASE m = p
  BY <1>4, <1>5
<1>6. CASE m # p
  <2>1. m > 0 /\ m - 1 \in Nat /\ p <= m - 1
    BY <1>3, <1>6
  <2>2. PICK i \in K : position(i, K) = m - 1
    BY <1>4, <2>1, Predecessor
  <2>3. m - 1 \in T
    BY <2>1, <2>2
  <2> QED
    BY <1>3, <2>1, <2>3
<1> QED
  BY <1>5, <1>6

(* A page behind which there are keys is full. *)
LEMMA PagesAreFull ==
    ASSUME NEW K, K \subseteq Nat, IsFiniteSet(K), NEW k \in K,
           NEW offset \in Nat, NEW limit \in Nat, offset + limit <= position(k, K)
    PROVE  Cardinality({j \in K : position(j, K) \in offset .. offset + limit - 1}) = limit
<1> DEFINE I == offset .. offset + limit - 1
           P == {j \in K : position(j, K) \in I}
           f == [j \in P |-> position(j, K)]
<1>1. IsFiniteSet(P)
  BY FS_Subset
<1>2. f \in [P -> I]
  OBVIOUS
<1>3. \A i, j \in P : f[i] = f[j] => i = j
  <2> SUFFICES ASSUME NEW i \in P, NEW j \in P, f[i] = f[j], i # j
               PROVE  FALSE
    OBVIOUS
  <2>1. i < j \/ j < i
    OBVIOUS
  <2>2. /\ i \in K /\ j \in K
        /\ position(i, K) = position(j, K) /\ position(i, K) \in Nat
    OBVIOUS
  <2>3. ASSUME i < j PROVE FALSE
    <3>1. position(j, K) < position(i, K)
      BY <2>2, <2>3, PositionsDiffer
    <3> QED
      BY <2>2, <3>1
  <2>4. ASSUME j < i PROVE FALSE
    <3>1. position(i, K) < position(j, K)
      BY <2>2, <2>4, PositionsDiffer
    <3> QED
      BY <2>2, <3>1
  <2> QED
    BY <2>1, <2>3, <2>4
<1>4. \A p \in I : \E j \in P : f[j] = p
  <2> SUFFICES ASSUME NEW p \in I PROVE \E j \in P : f[j] = p
    OBVIOUS
  <2>1. position(k, K) \in Nat
    BY PositionsOnlyGrow
  <2>2. p \in Nat /\ p <= position(k, K)
    BY <2>1
  <2> QED
    BY <2>2, PositionsAreDense
<1>5. f \in Bijection(P, I)
  BY <1>2, <1>3, <1>4 DEF Bijection, Injection, Surjection, IsInjective
<1>6. Cardinality(I) = Cardinality(P)
  BY <1>1, <1>5, FS_Bijection DEF ExistsBijection
<1>7. Cardinality(I) = limit
  BY FS_Interval
<1> QED
  BY <1>6, <1>7

-----------------------------------------------------------------------------
(* The inductive invariant *)

\* Rows are never removed and keep their tenant and kind.
Grows(rw, rx) ==
    /\ DOMAIN rw \subseteq DOMAIN rx
    /\ \A k \in DOMAIN rw : rx[k].client = rw[k].client /\ rx[k].kind = rw[k].kind

\* inventory, of the rows rw.
owned(client, kind, rw) ==
    {k \in DOMAIN rw : rw[k].client = client /\ kind \in {None, rw[k].kind}}

Fields == {"pc", "op", "credential", "actor", "order", "answer", "missing"}

\* A request has all its fields once it is there.
Shaped(q) ==
    /\ DOMAIN q = Fields /\ DOMAIN q.answer = {"code", "key", "keys", "has_more"}
    /\ q.pc \in {"handler", "insert", "page", "peek", "revoke", "respond", "done", "adrift"}

\* What the middleware let in still is who it was: rows keep tenant and kind.
Vouched(q, rw) ==
    q.pc \in {"handler", "page", "peek", "revoke"} \/ q.op = "list"
       \/ (q.pc = "adrift" /\ q.op = "revoke") =>
      /\ q.credential \in DOMAIN rw
      /\ q.actor = [client |-> rw[q.credential].client, kind |-> rw[q.credential].kind]

\* An insert on its way is the operator's, or one of the caller's own tenant.
Ordered(q, rw) ==
    q.pc = "insert" \/ (q.pc = "adrift" /\ q.op # "revoke") =>
      /\ q.op \in {"tenant", "issue", "create"}
      /\ q.op = "tenant" => q.order.client = None
      /\ q.op = "create" =>
            /\ q.credential \in DOMAIN rw
            /\ rw[q.credential].kind = "management"
            /\ q.order.client = rw[q.credential].client

\* A revocation on its way was asked for with a management key.
Revoking(q) ==
    /\ q.pc = "revoke" => q.op = "revoke"
    /\ q.pc = "revoke" \/ (q.pc = "adrift" /\ q.op = "revoke") => q.actor.kind = "management"

\* A secret that is, or was, in an answer is that of a row as it was asked for.
Secret(q, rw) ==
    q.answer.key # None =>
      /\ q.pc \in {"respond", "done"}
      /\ q.answer.key \in DOMAIN rw
      /\ q.answer.code = "SUCCESS"
      /\ rw[q.answer.key].kind = q.order.kind
      /\ q.order.client \in {None, rw[q.answer.key].client}
      /\ q.op = "create" => /\ q.credential \in DOMAIN rw
                           /\ rw[q.answer.key].client = rw[q.credential].client

\* The keys of K are in an inventory, at offset n or behind.
Ahead(keys, K, n) == K \subseteq keys /\ \A k \in K : position(k, keys) >= n

Asked(order) ==
    /\ DOMAIN order = {"limit", "offset", "kind"}
    /\ order.limit \in Nat /\ order.offset \in Nat

\* Where a walk stands: what it has yet to show is behind what was asked for.
Walking(q, rw) ==
    LET keys == owned(q.actor.client, q.order.kind, rw) IN
    /\ q.pc \in {"page", "peek"} \/ q.answer.has_more => q.op = "list"
    /\ q.op = "list" =>
         /\ q.pc \in {"handler", "page", "peek", "respond", "done"}
         /\ (q.pc = "handler" /\ q.order # None) \/ q.pc = "page" =>
               Asked(q.order) /\ Ahead(keys, q.missing, q.order.offset)
         /\ q.pc \in {"peek", "respond", "done"} =>
               /\ Asked(q.order)
               /\ Ahead(keys, q.missing \ q.answer.keys, q.order.offset + q.order.limit)
               /\ q.answer.keys \subseteq keys
         /\ q.pc \in {"respond", "done"} /\ ~q.answer.has_more =>
               q.missing \subseteq q.answer.keys
         /\ q.pc = "done" => q.missing \cap q.answer.keys = {}

Sound(q, rw) ==
    \/ q = Idle
    \/ /\ Shaped(q) /\ Vouched(q, rw) /\ Ordered(q, rw) /\ Revoking(q)
       /\ Secret(q, rw) /\ Walking(q, rw)

\* The store keeps its foreign key.
Stored ==
    /\ clients \subseteq Client /\ DOMAIN rows \subseteq Key
    /\ \A k \in DOMAIN rows :
          DOMAIN rows[k] = {"client", "kind", "revoked"} /\ rows[k].client \in clients

Offers(q, k) == q.pc = "respond" /\ q.answer.key = k

\* A secret in an answer that was not sent yet was shown to nobody, and is in no
\* other answer.
Disclosed ==
    /\ shown \in [Key -> {0, 1}]
    /\ \A k \in Key : shown[k] = 1 => k \in DOMAIN rows
    /\ \A a \in Agent, k \in Key : Offers(req[a], k) => shown[k] = 0
    /\ \A a, b \in Agent, k \in Key : Offers(req[a], k) /\ Offers(req[b], k) => a = b

Inv ==
    /\ DOMAIN req = Agent
    /\ Stored
    /\ \A a \in Agent : Sound(req[a], rows)
    /\ Disclosed

-----------------------------------------------------------------------------
(* Lemmas on the helpers *)

\* Only the request of agent a changes.
Moved(a) == DOMAIN req' = Agent /\ \A b \in Agent \ {a} : req'[b] = req[b]

(* The keys of a tenant are numbers, and finitely many. *)
LEMMA OwnedIsFinite ==
    ASSUME NEW rw, DOMAIN rw \subseteq Key, NEW client, NEW kind
    PROVE  LET keys == owned(client, kind, rw)
           IN  keys \subseteq Key /\ keys \subseteq Nat /\ IsFiniteSet(keys)
<1>1. owned(client, kind, rw) \subseteq Key
  BY DEF owned
<1> QED
  BY <1>1, AdminAssumption, FS_Subset

(* What lies ahead of a walk stays ahead when keys join the inventory. *)
LEMMA AheadKept ==
    ASSUME NEW A, NEW B, A \subseteq B, B \subseteq Nat, IsFiniteSet(B),
           NEW n \in Nat, NEW K, Ahead(A, K, n)
    PROVE  Ahead(B, K, n)
<1>1. K \subseteq A /\ \A k \in K : position(k, A) >= n
  BY DEF Ahead
<1>2. ASSUME NEW k \in K PROVE position(k, B) >= n
  <2>1. /\ position(k, A) \in Nat /\ position(k, B) \in Nat
        /\ position(k, A) <= position(k, B)
    BY <1>1, PositionsOnlyGrow
  <2>2. position(k, A) >= n
    BY <1>1
  <2> QED
    BY <2>1, <2>2
<1> QED
  BY <1>1, <1>2 DEF Ahead

(* A request stays sound when rows are added or revoked. *)
LEMMA SoundKept ==
    ASSUME NEW q, NEW rw, NEW rx, Sound(q, rw), Grows(rw, rx), DOMAIN rx \subseteq Key
    PROVE  Sound(q, rx)
<1>1. CASE q = Idle
  BY <1>1 DEF Sound
<1>2. CASE q # Idle
  <2>1. /\ Shaped(q) /\ Vouched(q, rw) /\ Ordered(q, rw) /\ Revoking(q)
        /\ Secret(q, rw) /\ Walking(q, rw)
    BY <1>2 DEF Sound
  <2>2. Vouched(q, rx)
    BY <2>1 DEF Vouched, Grows
  <2>3. Ordered(q, rx)
    BY <2>1 DEF Ordered, Grows
  <2>4. Secret(q, rx)
    BY <2>1 DEF Secret, Grows
  <2>5. Walking(q, rx)
    <3>1. ASSUME Asked(q.order)
          PROVE  /\ q.order.offset \in Nat /\ q.order.offset + q.order.limit \in Nat
      BY <3>1 DEF Asked
    <3>2. owned(q.actor.client, q.order.kind, rw) \subseteq owned(q.actor.client, q.order.kind, rx)
      BY DEF owned, Grows
    <3>3. \A K, n : n \in Nat /\ Ahead(owned(q.actor.client, q.order.kind, rw), K, n)
                    => Ahead(owned(q.actor.client, q.order.kind, rx), K, n)
      BY <3>2, OwnedIsFinite, AheadKept
    <3> QED
      BY <2>1, <3>1, <3>2, <3>3 DEF Walking
  <2> QED
    BY <2>1, <2>2, <2>3, <2>4, <2>5 DEF Sound
<1> QED
  BY <1>1, <1>2

(* An answer that says nothing but its code is sound whatever the store holds. *)
LEMMA Refusal ==
    ASSUME DOMAIN req = Agent, NEW a \in Agent, NEW code, refuse(a, code)
    PROVE  /\ Moved(a)
           /\ req'[a].pc = "done"
           /\ \A rw : Sound(req'[a], rw)
<1> DEFINE q == [Fresh("none") EXCEPT !.answer.code = code]
<1>1. Moved(a) /\ req'[a] = q
  BY DEF refuse, Moved
<1>2. /\ DOMAIN q = Fields /\ q.pc = "done" /\ q.op = "none"
      /\ q.answer = [NoAnswer EXCEPT !.code = code]
  BY DEF Fresh, Fields
<1>3. /\ DOMAIN q.answer = {"code", "key", "keys", "has_more"}
      /\ q.answer.key = None /\ q.answer.has_more = FALSE
  BY <1>2 DEF NoAnswer
<1> HIDE DEF q
<1>4. Shaped(q)
  BY <1>2, <1>3 DEF Shaped
<1>5. ASSUME NEW rw
      PROVE  Vouched(q, rw) /\ Ordered(q, rw) /\ Revoking(q) /\ Secret(q, rw) /\ Walking(q, rw)
  BY <1>2, <1>3 DEF Vouched, Ordered, Revoking, Secret, Walking
<1>6. \A rw : Sound(q, rw)
  BY <1>4, <1>5 DEF Sound
<1> QED
  BY <1>1, <1>2, <1>6

(* A step that leaves the store alone and puts no secret in an answer. *)
LEMMA QuietStep ==
    ASSUME Inv, NEW a \in Agent, UNCHANGED <<rows, clients, shown>>, Moved(a),
           Sound(req'[a], rows), req'[a].pc = "respond" => req'[a].answer.key = None
    PROVE  Inv'
<1>1. DOMAIN req' = Agent /\ Stored'
  BY DEF Inv, Moved, Stored
<1>2. \A b \in Agent : Sound(req'[b], rows')
  BY DEF Inv, Moved
<1>3. \A b \in Agent, k \in Key : Offers(req'[b], k) => b # a /\ Offers(req[b], k)
  BY AdminAssumption DEF Moved, Offers
<1>4. Disclosed'
  BY <1>3 DEF Inv, Disclosed
<1> QED
  BY <1>1, <1>2, <1>4 DEF Inv

(* A request that only moves on keeps everything else. *)
LEMMA Going ==
    ASSUME DOMAIN req = Agent, NEW a \in Agent, Shaped(req[a]), NEW pc, goto(a, pc)
    PROVE  /\ Moved(a)
           /\ DOMAIN req'[a] = Fields
           /\ req'[a].pc = pc /\ req'[a].answer = req[a].answer /\ req'[a].op = req[a].op
           /\ req'[a].credential = req[a].credential /\ req'[a].actor = req[a].actor
           /\ req'[a].order = req[a].order /\ req'[a].missing = req[a].missing
BY DEF goto, Shaped, Fields, Moved

(* A request that is not idle has its parts in order. *)
LEMMA Parts ==
    ASSUME Inv, NEW a \in Agent, ~at(a, "idle")
    PROVE  /\ Shaped(req[a]) /\ Vouched(req[a], rows) /\ Ordered(req[a], rows)
           /\ Revoking(req[a]) /\ Secret(req[a], rows) /\ Walking(req[a], rows)
BY DEF Inv, Sound, Idle, at

(* Issuing a key: a sound insert on its way, or a refusal. *)
LEMMA Issuing ==
    ASSUME DOMAIN req = Agent, NEW a \in Agent, NEW op, NEW client, NEW kind, NEW name,
           NEW rw, issue(a, op, client, kind, name),
           op \in {"tenant", "issue", "create"}, op = "tenant" => client = None,
           op = "create" => /\ req[a].credential \in DOMAIN rw
                            /\ rw[req[a].credential].kind = "management"
                            /\ client = rw[req[a].credential].client
    PROVE  Moved(a) /\ Sound(req'[a], rw) /\ req'[a].pc # "respond"
<1>1. CASE \E code : refuse(a, code)
  BY <1>1, Refusal
<1>2. CASE ~\E code : refuse(a, code)
  <2> DEFINE q == [Fresh(op) EXCEPT !.pc = "insert",
                     !.credential = IF op = "create" THEN req[a].credential ELSE None,
                     !.order = [client |-> client, kind |-> kind]]
  <2>1. req' = [req EXCEPT ![a] = q]
    BY <1>2 DEF issue, refuse_provision
  <2>2. Moved(a) /\ req'[a] = q
    BY <2>1 DEF Moved
  <2>3. /\ DOMAIN q = Fields /\ q.pc = "insert" /\ q.op = op /\ q.answer = NoAnswer
        /\ q.order = [client |-> client, kind |-> kind]
        /\ op = "create" => q.credential = req[a].credential
    BY DEF Fresh, Fields
  <2>4. /\ DOMAIN q.answer = {"code", "key", "keys", "has_more"}
        /\ q.answer.key = None /\ q.answer.has_more = FALSE
    BY <2>3 DEF NoAnswer
  <2> HIDE DEF q
  <2>5. Shaped(q) /\ Vouched(q, rw) /\ Revoking(q) /\ Secret(q, rw) /\ Walking(q, rw)
    BY <2>3, <2>4 DEF Shaped, Vouched, Revoking, Secret, Walking
  <2>6. Ordered(q, rw)
    BY <2>3 DEF Ordered
  <2> QED
    BY <2>2, <2>3, <2>5, <2>6 DEF Sound
<1> QED
  BY <1>1, <1>2

(* The middleware: a request that is let in carries the row of its credential. *)
LEMMA Authenticating ==
    ASSUME Inv, NEW a \in Agent, NEW k, NEW request, authenticate(a, k, request),
           DOMAIN request = Fields, request.answer = NoAnswer,
           active(k) /\ request.op = "list" /\ request.order # None =>
             /\ Asked(request.order)
             /\ Ahead(owned(rows[k].client, request.order.kind, rows), request.missing,
                      request.order.offset)
    PROVE  Moved(a) /\ Sound(req'[a], rows) /\ req'[a].pc # "respond"
<1>0. DOMAIN req = Agent
  BY DEF Inv
<1>1. CASE \E code : refuse(a, code)
  BY <1>0, <1>1, Refusal
<1>2. CASE ~\E code : refuse(a, code)
  <2> DEFINE q == [request EXCEPT !.pc = "handler", !.credential = k,
                     !.actor = [client |-> rows[k].client, kind |-> rows[k].kind]]
  <2>1. active(k) /\ req' = [req EXCEPT ![a] = q]
    BY <1>2 DEF authenticate
  <2>2. Moved(a) /\ req'[a] = q
    BY <1>0, <2>1 DEF Moved
  <2>3. /\ DOMAIN q = Fields /\ q.pc = "handler" /\ q.op = request.op /\ q.answer = NoAnswer
        /\ q.order = request.order /\ q.missing = request.missing /\ q.credential = k
        /\ q.actor = [client |-> rows[k].client, kind |-> rows[k].kind]
    BY DEF Fields
  <2>4. /\ DOMAIN q.answer = {"code", "key", "keys", "has_more"}
        /\ q.answer.key = None /\ q.answer.has_more = FALSE
    BY <2>3 DEF NoAnswer
  <2> HIDE DEF q
  <2>5. Shaped(q) /\ Ordered(q, rows) /\ Revoking(q) /\ Secret(q, rows)
    BY <2>3, <2>4 DEF Shaped, Ordered, Revoking, Secret
  <2>6. Vouched(q, rows)
    BY <2>1, <2>3 DEF Vouched, active
  <2>7. Walking(q, rows)
    <3>1. q.actor.client = rows[k].client
      BY <2>3
    <3> QED
      BY <2>1, <2>3, <2>4, <3>1 DEF Walking
  <2> QED
    BY <2>2, <2>3, <2>5, <2>6, <2>7 DEF Sound
<1> QED
  BY <1>1, <1>2

-----------------------------------------------------------------------------
(* The steps that leave the store alone *)

(* A request comes in. *)
LEMMA RequestStep ==
    ASSUME Inv, NEW a \in Agent, Request(a)
    PROVE  Inv'
<1>1. PICK k \in Presentable, op \in {"create", "list", "revoke"} :
        authenticate(a, k, Fresh(op))
  BY DEF Request
<1>2. /\ DOMAIN Fresh(op) = Fields /\ Fresh(op).answer = NoAnswer /\ Fresh(op).order = None
  BY DEF Fresh, Fields
<1>3. Moved(a) /\ Sound(req'[a], rows) /\ req'[a].pc # "respond"
  BY <1>1, <1>2, Authenticating
<1> QED
  BY <1>3, QuietStep DEF Request

(* The operator runs a command. *)
LEMMA CommandStep ==
    ASSUME Inv, NEW a \in Agent, Command(a)
    PROVE  Inv'
<1>0. DOMAIN req = Agent
  BY DEF Inv
<1>1. Moved(a) /\ Sound(req'[a], rows) /\ req'[a].pc # "respond"
  <2>1. CASE refuse(a, "FAILED")
    BY <1>0, <2>1, Refusal
  <2>2. ASSUME NEW name \in {0, MaxName}, issue(a, "tenant", None, "management", name)
        PROVE  Moved(a) /\ Sound(req'[a], rows) /\ req'[a].pc # "respond"
    BY <1>0, <2>2, Issuing
  <2>3. ASSUME NEW name \in {0, MaxName}, NEW c \in Client, NEW kind \in Kinds,
               issue(a, "issue", c, kind, name)
        PROVE  Moved(a) /\ Sound(req'[a], rows) /\ req'[a].pc # "respond"
    BY <1>0, <2>3, Issuing
  <2> QED
    BY <2>1, <2>2, <2>3 DEF Command
<1> QED
  BY <1>1, QuietStep DEF Command

(* A request asks for a key of the caller's own tenant. *)
LEMMA CreateStep ==
    ASSUME Inv, NEW a \in Agent, create_api_key(a)
    PROVE  Inv'
<1>0. DOMAIN req = Agent
  BY DEF Inv
<1>1. at(a, "handler") /\ ~at(a, "idle")
  BY DEF create_api_key, at
<1>2. /\ req[a].credential \in DOMAIN rows
      /\ req[a].actor = [client |-> rows[req[a].credential].client,
                         kind |-> rows[req[a].credential].kind]
  BY <1>1, Parts DEF Vouched, at
<1>3. Moved(a) /\ Sound(req'[a], rows) /\ req'[a].pc # "respond"
  <2>1. CASE \E code : refuse(a, code)
    BY <1>0, <2>1, Refusal
  <2>2. CASE ~\E code : refuse(a, code)
    <3>1. PICK body \in Bodies :
            /\ require_management(req[a].actor)
            /\ issue(a, "create", req[a].actor.client, body.kind, body.name)
      BY <2>2 DEF create_api_key
    <3>2. /\ req[a].actor.client = rows[req[a].credential].client
          /\ rows[req[a].credential].kind = "management"
      BY <1>2, <3>1 DEF require_management
    <3> QED
      BY <1>0, <1>2, <3>1, <3>2, Issuing
  <2> QED
    BY <2>1, <2>2
<1> QED
  BY <1>3, QuietStep DEF create_api_key

(* A query that passes asks for a page somewhere in the inventory. *)
LEMMA QueriesAsk ==
    ASSUME NEW query, parse_list_keys_query_ok(query)
    PROVE  Asked(parse_list_keys_query(query))
<1>1. MaxLimit \in Nat /\ MaxOffset \in Nat
  BY AdminAssumption
<1>2. \A i \in DOMAIN query :
        /\ query[i].name = "limit" => query[i].value \in 1 .. MaxLimit
        /\ query[i].name = "offset" => query[i].value \in 0 .. MaxOffset
  BY DEF parse_list_keys_query_ok
<1>3. given(query, "limit", MaxLimit) \in Nat
  <2>1. CASE \E i \in DOMAIN query : query[i].name = "limit"
    <3> DEFINE i == CHOOSE i \in DOMAIN query : query[i].name = "limit"
    <3>1. i \in DOMAIN query /\ query[i].name = "limit"
      BY <2>1
    <3>2. given(query, "limit", MaxLimit) = query[i].value
      BY <2>1 DEF given
    <3> QED
      BY <1>1, <1>2, <3>1, <3>2
  <2> QED
    BY <1>1, <2>1 DEF given
<1>4. given(query, "offset", 0) \in Nat
  <2>1. CASE \E i \in DOMAIN query : query[i].name = "offset"
    <3> DEFINE i == CHOOSE i \in DOMAIN query : query[i].name = "offset"
    <3>1. i \in DOMAIN query /\ query[i].name = "offset"
      BY <2>1
    <3>2. given(query, "offset", 0) = query[i].value
      BY <2>1 DEF given
    <3> QED
      BY <1>1, <1>2, <3>1, <3>2
  <2> QED
    BY <2>1 DEF given
<1> QED
  BY <1>3, <1>4 DEF Asked, parse_list_keys_query

(* A request to list goes to the store, or is refused. *)
LEMMA ListStep ==
    ASSUME Inv, NEW a \in Agent, list_api_keys(a)
    PROVE  Inv'
<1>0. DOMAIN req = Agent /\ DOMAIN rows \subseteq Key
  BY DEF Inv, Stored
<1>1. at(a, "handler") /\ req[a].op = "list" /\ ~at(a, "idle")
  BY DEF list_api_keys, at
<1>2. /\ Shaped(req[a]) /\ Vouched(req[a], rows) /\ Secret(req[a], rows)
      /\ Walking(req[a], rows)
  BY <1>1, Parts
<1>3. req[a].answer.key = None
  BY <1>1, <1>2 DEF Secret, at
<1>4. Moved(a) /\ Sound(req'[a], rows) /\ req'[a].pc # "respond"
  <2>1. CASE \E code : refuse(a, code)
    BY <1>0, <2>1, Refusal
  <2>2. CASE req[a].order # None /\ goto(a, "page")
    <3> DEFINE q == req'[a]
    <3>1. /\ Moved(a)
          /\ DOMAIN q = Fields
          /\ q.pc = "page" /\ q.answer = req[a].answer /\ q.op = "list"
          /\ q.credential = req[a].credential /\ q.actor = req[a].actor
          /\ q.order = req[a].order /\ q.missing = req[a].missing
      BY <1>0, <1>1, <1>2, <2>2, Going
    <3> HIDE DEF q
    <3>2. Shaped(q) /\ Vouched(q, rows) /\ Ordered(q, rows) /\ Revoking(q) /\ Secret(q, rows)
      BY <1>1, <1>2, <1>3, <3>1 DEF Shaped, Vouched, Ordered, Revoking, Secret
    <3>3. Walking(q, rows)
      BY <1>1, <1>2, <2>2, <3>1 DEF Walking, at
    <3> QED
      BY <3>1, <3>2, <3>3 DEF Sound, q
  <2>3. CASE req[a].order = None /\ ~\E code : refuse(a, code)
    <3> DEFINE q == req'[a]
    <3>0. ~goto(a, "page") \/ req[a].order = None
      BY <2>3
    <3>1. PICK query \in Queries :
            /\ parse_list_keys_query_ok(query)
            /\ req' = [req EXCEPT ![a].pc = "page", ![a].order = parse_list_keys_query(query),
                         ![a].missing = IF parse_list_keys_query(query).offset # 0 THEN {}
                           ELSE inventory(req[a].actor.client, parse_list_keys_query(query).kind)]
      BY <2>3 DEF list_api_keys
    <3>2. PICK order : order = parse_list_keys_query(query)
      OBVIOUS
    <3>3. Asked(order)
      BY <3>1, <3>2, QueriesAsk
    <3> DEFINE keys == owned(req[a].actor.client, order.kind, rows)
    <3>4. /\ Moved(a)
          /\ DOMAIN q = Fields
          /\ q.pc = "page" /\ q.answer = req[a].answer /\ q.op = "list"
          /\ q.credential = req[a].credential /\ q.actor = req[a].actor
          /\ q.order = order
          /\ q.missing = IF order.offset # 0 THEN {} ELSE keys
      BY <1>0, <1>1, <1>2, <3>1, <3>2 DEF Shaped, Fields, Moved, inventory, owned
    <3>5. Ahead(keys, q.missing, order.offset)
      <4>1. \A k \in keys : position(k, keys) \in Nat
        BY <1>0, OwnedIsFinite, PositionsOnlyGrow
      <4> HIDE DEF keys, q
      <4> QED
        BY <3>4, <4>1 DEF Ahead
    <3> HIDE DEF q
    <3>6. Shaped(q) /\ Vouched(q, rows) /\ Ordered(q, rows) /\ Revoking(q) /\ Secret(q, rows)
      BY <1>1, <1>2, <1>3, <3>4 DEF Shaped, Vouched, Ordered, Revoking, Secret
    <3>7. Walking(q, rows)
      BY <3>3, <3>4, <3>5 DEF Walking
    <3> QED
      BY <3>4, <3>6, <3>7 DEF Sound, q
  <2> QED
    BY <2>1, <2>2, <2>3 DEF list_api_keys
<1> QED
  BY <1>4, QuietStep DEF list_api_keys

\* list_keys_for_client, of an inventory.
Page(keys, offset, limit) ==
    {k \in keys : position(k, keys) \in offset .. offset + limit - 1}

(* A key that a page does not show, although it was ahead, is behind the page; and  *)
(* then the page is full and its offset not the last.                               *)
LEMMA BehindThePage ==
    ASSUME NEW keys, keys \subseteq Key, NEW K, NEW offset \in Nat, NEW limit \in Nat,
           Ahead(keys, K, offset)
    PROVE  LET page == Page(keys, offset, limit)
           IN  /\ Ahead(keys, K \ page, offset + limit)
               /\ K \ page # {} =>
                     Cardinality(page) = limit /\ offset + limit <= MaxOffset
<1> DEFINE page == Page(keys, offset, limit)
<1>0. page = {k \in keys : position(k, keys) \in offset .. offset + limit - 1}
  BY DEF Page
<1> HIDE DEF page
<1>1. keys \subseteq Nat /\ IsFiniteSet(keys) /\ IsFiniteSet(Key)
  BY AdminAssumption, FS_Subset
<1>2. ASSUME NEW k \in K \ page
      PROVE  k \in keys /\ position(k, keys) \in Nat /\ offset + limit <= position(k, keys)
  <2>1. k \in keys /\ position(k, keys) >= offset
    BY DEF Ahead
  <2>2. position(k, keys) \in Nat
    BY <1>1, <2>1, PositionsOnlyGrow
  <2>3. position(k, keys) \notin offset .. offset + limit - 1
    BY <1>0, <2>1
  <2> QED
    BY <2>1, <2>2, <2>3
<1>3. Ahead(keys, K \ page, offset + limit)
  BY <1>2 DEF Ahead
<1>4. ASSUME NEW k \in K \ page
      PROVE  Cardinality(page) = limit /\ offset + limit <= MaxOffset
  <2>1. Cardinality(page) = limit
    BY <1>0, <1>1, <1>2, PagesAreFull
  <2>2. position(k, keys) <= Cardinality(Key)
    <3>1. {j \in keys : j > k} \in SUBSET Key
      OBVIOUS
    <3> QED
      BY <1>1, <3>1, FS_Subset DEF position
  <2>3. Cardinality(Key) \in Nat /\ MaxOffset \in Nat /\ Cardinality(Key) <= MaxOffset
    BY <1>1, FS_CardinalityType, AdminAssumption
  <2> QED
    BY <1>2, <2>1, <2>2, <2>3
<1> QED
  BY <1>3, <1>4 DEF page

(* The page is read. *)
LEMMA ListPageStep ==
    ASSUME Inv, NEW a \in Agent, ListPage(a)
    PROVE  Inv'
<1>0. DOMAIN req = Agent /\ DOMAIN rows \subseteq Key
  BY DEF Inv, Stored
<1>1. at(a, "page") /\ ~at(a, "idle")
  BY DEF ListPage, at
<1>2. /\ Shaped(req[a]) /\ Vouched(req[a], rows) /\ Walking(req[a], rows)
  BY <1>1, Parts
<1> DEFINE order == req[a].order
           all == owned(req[a].actor.client, order.kind, rows)
           keys == Page(all, order.offset, order.limit)
           page == [NoAnswer EXCEPT !.code = "SUCCESS", !.keys = keys]
           q == req'[a]
<1>3. req[a].op = "list" /\ Asked(order) /\ Ahead(all, req[a].missing, order.offset)
  BY <1>1, <1>2 DEF Walking, at
<1>4. /\ Ahead(all, req[a].missing \ keys, order.offset + order.limit)
      /\ req[a].missing \ keys # {} =>
            Cardinality(keys) = order.limit /\ order.offset + order.limit <= MaxOffset
  <2>1. all \subseteq Key
    BY <1>0, OwnedIsFinite
  <2>2. order.offset \in Nat /\ order.limit \in Nat
    BY <1>3 DEF Asked
  <2> HIDE DEF all, order
  <2> QED
    BY <1>3, <2>1, <2>2, BehindThePage
<1>5. keys = list_keys_for_client(req[a].actor.client, order.limit, order.offset, order.kind)
  BY DEF list_keys_for_client, inventory, owned, Page
<1>6. /\ DOMAIN page = {"code", "key", "keys", "has_more"}
      /\ page.key = None /\ page.has_more = FALSE /\ page.keys = keys
  BY DEF NoAnswer
<1>7. ASSUME NEW pc \in {"peek", "respond"},
             pc = "respond" => req[a].missing \subseteq keys,
             req' = [req EXCEPT ![a].pc = pc, ![a].answer = page]
      PROVE  Moved(a) /\ Sound(q, rows) /\ q.answer.key = None
  <2>0. req[a].op = "list"
    BY <1>3
  <2> HIDE DEF page
  <2>1. /\ Moved(a)
        /\ DOMAIN q = Fields
        /\ q.pc = pc /\ q.answer = page /\ q.op = "list"
        /\ q.credential = req[a].credential /\ q.actor = req[a].actor
        /\ q.order = order /\ q.missing = req[a].missing
    BY <1>0, <1>2, <1>7, <2>0 DEF Shaped, Fields, Moved
  <2> HIDE DEF q
  <2>2. Shaped(q) /\ Vouched(q, rows) /\ Ordered(q, rows) /\ Revoking(q) /\ Secret(q, rows)
    BY <1>2, <1>3, <1>6, <2>1 DEF Shaped, Vouched, Ordered, Revoking, Secret
  <2>3. keys \subseteq all
    BY DEF Page
  <2> HIDE DEF keys, all
  <2>4. Walking(q, rows)
    BY <1>3, <1>4, <1>6, <1>7, <2>1, <2>3 DEF Walking, all
  <2> QED
    BY <1>6, <2>1, <2>2, <2>4 DEF Sound
<1>8. Moved(a) /\ Sound(q, rows) /\ (q.pc = "respond" => q.answer.key = None)
  <2>1. CASE refuse(a, auth_code["StoreUnavailable"])
    BY <1>0, <2>1, Refusal
  <2>2. CASE /\ Cardinality(keys) = order.limit /\ order.offset + order.limit <= MaxOffset
             /\ req' = [req EXCEPT ![a].pc = "peek", ![a].answer = page]
    BY <1>7, <2>2
  <2>3. CASE /\ ~(Cardinality(keys) = order.limit /\ order.offset + order.limit <= MaxOffset)
             /\ respond(a, page)
    <3>1. req[a].missing \subseteq keys
      BY <1>4, <2>3
    <3> QED
      BY <1>7, <2>3, <3>1 DEF respond
  <2> HIDE DEF q
  <2> QED
    BY <1>5, <2>1, <2>2, <2>3 DEF ListPage
<1> QED
  BY <1>8, QuietStep DEF ListPage

(* The look behind the page: when nothing is there the walk has shown everything. *)
LEMMA PeekStep ==
    ASSUME Inv, NEW a \in Agent, Peek(a)
    PROVE  Inv'
<1>0. DOMAIN req = Agent /\ DOMAIN rows \subseteq Key
  BY DEF Inv, Stored
<1>1. at(a, "peek") /\ ~at(a, "idle")
  BY DEF Peek, at
<1>2. /\ Shaped(req[a]) /\ Vouched(req[a], rows) /\ Secret(req[a], rows)
      /\ Walking(req[a], rows)
  BY <1>1, Parts
<1> DEFINE order == req[a].order
           all == owned(req[a].actor.client, order.kind, rows)
           end == order.offset + order.limit
           behind == {k \in all : position(k, all) \in end .. end + 1 - 1}
           answer == [req[a].answer EXCEPT !.has_more = behind # {}]
           rest == req[a].missing \ req[a].answer.keys
           q == req'[a]
<1>3. /\ req[a].op = "list" /\ Asked(order) /\ Ahead(all, rest, end)
      /\ req[a].answer.keys \subseteq all
  BY <1>1, <1>2 DEF Walking, at
<1>4. end \in Nat
  BY <1>3 DEF Asked
<1>5. ASSUME behind = {} PROVE rest = {}
  <2> SUFFICES ASSUME NEW k \in rest PROVE FALSE
    OBVIOUS
  <2>1. k \in all /\ position(k, all) >= end
    BY <1>3 DEF Ahead
  <2>2. all \subseteq Nat /\ IsFiniteSet(all)
    BY <1>0, OwnedIsFinite
  <2> HIDE DEF all, end, rest
  <2>3. position(k, all) \in Nat
    BY <2>1, <2>2, PositionsOnlyGrow
  <2>4. PICK j \in all : position(j, all) = end
    BY <1>4, <2>1, <2>2, <2>3, PositionsAreDense
  <2>5. end \in end .. end + 1 - 1
    BY <1>4
  <2> QED
    BY <1>5, <2>4, <2>5
<1>6. behind = list_keys_for_client(req[a].actor.client, 1, end, order.kind)
  BY DEF list_keys_for_client, inventory, owned
<1>7. /\ DOMAIN answer = {"code", "key", "keys", "has_more"}
      /\ answer.key = None /\ answer.has_more = (behind # {})
      /\ answer.keys = req[a].answer.keys
  BY <1>1, <1>2 DEF Shaped, Secret, at
<1>8. Moved(a) /\ Sound(q, rows) /\ (q.pc = "respond" => q.answer.key = None)
  <2>1. CASE refuse(a, auth_code["StoreUnavailable"])
    BY <1>0, <2>1, Refusal
  <2>2. CASE respond(a, answer)
    <3>0. req[a].op = "list" /\ req' = [req EXCEPT ![a].pc = "respond", ![a].answer = answer]
      BY <1>3, <2>2 DEF respond
    <3> HIDE DEF answer
    <3>1. /\ Moved(a)
          /\ DOMAIN q = Fields
          /\ q.pc = "respond" /\ q.answer = answer /\ q.op = "list"
          /\ q.credential = req[a].credential /\ q.actor = req[a].actor
          /\ q.order = order /\ q.missing = req[a].missing
      BY <1>0, <1>2, <3>0 DEF Shaped, Fields, Moved
    <3> HIDE DEF q
    <3>2. Shaped(q) /\ Vouched(q, rows) /\ Ordered(q, rows) /\ Revoking(q) /\ Secret(q, rows)
      BY <1>2, <1>3, <1>7, <3>1 DEF Shaped, Vouched, Ordered, Revoking, Secret
    <3>3. q.missing \ q.answer.keys = rest /\ (~q.answer.has_more => rest = {})
      BY <1>5, <1>7, <3>1
    <3>4. ~q.answer.has_more => q.missing \subseteq q.answer.keys
      BY <3>3
    <3> HIDE DEF rest, behind
    <3>5. Walking(q, rows)
      BY <1>3, <1>7, <3>1, <3>3, <3>4 DEF Walking
    <3> QED
      BY <1>7, <3>1, <3>2, <3>5 DEF Sound
  <2> HIDE DEF q
  <2> QED
    BY <1>6, <2>1, <2>2 DEF Peek
<1> QED
  BY <1>8, QuietStep DEF Peek

(* A request to revoke goes to the store with a management key, or is refused. *)
LEMMA RevokeRequestStep ==
    ASSUME Inv, NEW a \in Agent, revoke_api_key(a)
    PROVE  Inv'
<1>0. DOMAIN req = Agent
  BY DEF Inv
<1>1. at(a, "handler") /\ req[a].op = "revoke" /\ ~at(a, "idle")
  BY DEF revoke_api_key, at
<1>2. /\ Shaped(req[a]) /\ Vouched(req[a], rows) /\ Secret(req[a], rows)
      /\ Walking(req[a], rows)
  BY <1>1, Parts
<1> DEFINE q == req'[a]
<1>3. Moved(a) /\ Sound(q, rows) /\ q.pc # "respond"
  <2>1. CASE \E code : refuse(a, code)
    BY <1>0, <2>1, Refusal
  <2>2. CASE ~\E code : refuse(a, code)
    <3>1. PICK target : /\ require_management(req[a].actor)
                        /\ req' = [req EXCEPT ![a].pc = "revoke", ![a].order = target]
      BY <2>2 DEF revoke_api_key
    <3>2. /\ Moved(a)
          /\ DOMAIN q = Fields
          /\ q.pc = "revoke" /\ q.answer = req[a].answer /\ q.op = "revoke"
          /\ q.credential = req[a].credential /\ q.actor = req[a].actor
      BY <1>0, <1>1, <1>2, <3>1 DEF Shaped, Fields, Moved
    <3> HIDE DEF q
    <3>3. Shaped(q) /\ Vouched(q, rows) /\ Ordered(q, rows)
      BY <1>1, <1>2, <3>2 DEF Shaped, Vouched, Ordered, at
    <3>4. Revoking(q)
      BY <3>1, <3>2 DEF Revoking, require_management
    <3>5. Secret(q, rows) /\ Walking(q, rows)
      BY <1>1, <1>2, <3>2 DEF Secret, Walking, at
    <3> QED
      BY <3>2, <3>3, <3>4, <3>5 DEF Sound
  <2> QED
    BY <2>1, <2>2
<1> QED
  BY <1>3, QuietStep DEF revoke_api_key

(* A deadline, a client that goes away, a command that is killed. *)
LEMMA AbandonStep ==
    ASSUME Inv, NEW a \in Agent, Abandon(a)
    PROVE  Inv'
<1>0. DOMAIN req = Agent
  BY DEF Inv
<1>1. ~at(a, "idle")
  BY DEF Abandon, at
<1>2. /\ Shaped(req[a]) /\ Vouched(req[a], rows) /\ Ordered(req[a], rows)
      /\ Revoking(req[a]) /\ Secret(req[a], rows) /\ Walking(req[a], rows)
  BY <1>1, Parts
<1> DEFINE q == req'[a]
<1>3. Moved(a) /\ Sound(q, rows) /\ q.pc # "respond"
  <2>1. CASE \E code : refuse(a, code)
    BY <1>0, <2>1, Refusal
  <2>2. CASE ~\E code : refuse(a, code)
    <3>1. req[a].pc \in {"insert", "revoke"} /\ goto(a, "adrift")
      BY <2>2 DEF Abandon
    <3>2. /\ Moved(a)
          /\ DOMAIN q = Fields
          /\ q.pc = "adrift" /\ q.answer = req[a].answer /\ q.op = req[a].op
          /\ q.credential = req[a].credential /\ q.actor = req[a].actor
          /\ q.order = req[a].order
      BY <1>0, <1>2, <3>1, Going
    <3> HIDE DEF q
    <3>3. Shaped(q)
      BY <1>2, <3>2 DEF Shaped
    <3>4. Vouched(q, rows)
      BY <1>2, <3>1, <3>2 DEF Vouched, Ordered, Revoking
    <3>5. Ordered(q, rows)
      BY <1>2, <3>1, <3>2 DEF Ordered, Revoking
    <3>6. Revoking(q)
      BY <1>2, <3>1, <3>2 DEF Ordered, Revoking
    <3>7. Secret(q, rows) /\ Walking(q, rows)
      BY <1>2, <3>1, <3>2 DEF Secret, Walking
    <3> QED
      BY <3>2, <3>3, <3>4, <3>5, <3>6, <3>7 DEF Sound
  <2> QED
    BY <2>1, <2>2
<1> QED
  BY <1>3, QuietStep DEF Abandon

(* The agent turns to something else. *)
LEMMA FinishStep ==
    ASSUME Inv, NEW a \in Agent, Finish(a)
    PROVE  Inv'
<1>1. Moved(a) /\ req'[a] = Idle
  BY DEF Inv, Finish, Moved
<1>2. Sound(req'[a], rows) /\ req'[a].pc # "respond"
  BY <1>1 DEF Sound, Idle
<1> QED
  BY <1>1, <1>2, QuietStep DEF Finish

(* The next page: the walk goes on behind what was shown, with the same credential. *)
LEMMA NextPageStep ==
    ASSUME Inv, NEW a \in Agent, NextPage(a)
    PROVE  Inv'
<1>1. at(a, "done") /\ ~at(a, "idle") /\ req[a].answer.has_more
  BY DEF NextPage, at
<1>2. /\ Shaped(req[a]) /\ Vouched(req[a], rows) /\ Walking(req[a], rows)
  BY <1>1, Parts
<1> DEFINE order == req[a].order
           next == [req[a] EXCEPT !.answer = NoAnswer, !.order.offset = @ + order.limit]
<1>3. /\ req[a].op = "list" /\ Asked(order)
      /\ Ahead(owned(req[a].actor.client, order.kind, rows), req[a].missing \ req[a].answer.keys,
               order.offset + order.limit)
      /\ req[a].missing \cap req[a].answer.keys = {}
      /\ req[a].actor.client = rows[req[a].credential].client
  BY <1>1, <1>2 DEF Walking, Vouched, at
<1>4. req[a].missing \ req[a].answer.keys = req[a].missing
  BY <1>3
<1>5. /\ DOMAIN next = Fields /\ next.answer = NoAnswer /\ next.missing = req[a].missing
      /\ next.order = [order EXCEPT !.offset = order.offset + order.limit]
  BY <1>2 DEF Shaped, Fields
<1>6. /\ DOMAIN next.order = {"limit", "offset", "kind"}
      /\ next.order.offset = order.offset + order.limit
      /\ next.order.limit = order.limit /\ next.order.kind = order.kind
  BY <1>3, <1>5 DEF Asked
<1>7. /\ Asked(next.order)
      /\ Ahead(owned(rows[req[a].credential].client, next.order.kind, rows), next.missing,
               next.order.offset)
  <2> HIDE DEF next, order
  <2>1. order.offset \in Nat /\ order.limit \in Nat
    BY <1>3 DEF Asked
  <2>2. Asked(next.order)
    BY <1>6, <2>1 DEF Asked
  <2>3. next.missing = req[a].missing \ req[a].answer.keys
    BY <1>4, <1>5
  <2>4. owned(rows[req[a].credential].client, next.order.kind, rows)
          = owned(req[a].actor.client, order.kind, rows)
    BY <1>3, <1>6
  <2> QED
    BY <1>3, <1>6, <2>2, <2>3, <2>4
<1>8. authenticate(a, req[a].credential, next)
  BY DEF NextPage
<1> HIDE DEF next
<1>9. Moved(a) /\ Sound(req'[a], rows) /\ req'[a].pc # "respond"
  BY <1>5, <1>7, <1>8, Authenticating
<1> QED
  BY <1>9, QuietStep DEF NextPage

-----------------------------------------------------------------------------
(* The steps that change the store, and the one that shows a secret *)

(* A step that changes rows may put the secret of a row that was not there yet in  *)
(* the answer of the agent that takes it.                                          *)
LEMMA StoreStep ==
    ASSUME Inv, NEW a \in Agent, Moved(a), Stored', Grows(rows, rows'), UNCHANGED shown,
           Sound(req'[a], rows'),
           \A k \in Key : Offers(req'[a], k) => k \notin DOMAIN rows
    PROVE  Inv'
<1>0. DOMAIN rows' \subseteq Key
  BY DEF Stored
<1>1. \A b \in Agent : Sound(req'[b], rows')
  BY <1>0, SoundKept DEF Inv, Moved
<1>2. \A b \in Agent, k \in Key : Offers(req[b], k) => k \in DOMAIN rows
  BY AdminAssumption DEF Inv, Sound, Idle, Secret, Offers
<1>3. \A b \in Agent, k \in Key :
        b # a /\ Offers(req'[b], k) => Offers(req[b], k) /\ k \in DOMAIN rows
  BY <1>2 DEF Moved, Offers
<1>4. \A k \in Key : shown'[k] = 1 => k \in DOMAIN rows'
  BY DEF Inv, Disclosed, Grows
<1>5. \A b \in Agent, k \in Key : Offers(req'[b], k) => shown'[k] = 0
  BY <1>3 DEF Inv, Disclosed
<1>6. \A b, c \in Agent, k \in Key : Offers(req'[b], k) /\ Offers(req'[c], k) => b = c
  BY <1>3 DEF Inv, Disclosed
<1>7. Disclosed'
  BY <1>4, <1>5, <1>6 DEF Inv, Disclosed
<1> QED
  BY <1>1, <1>7 DEF Inv, Moved

(* An insert adds one row, as it was asked for. *)
LEMMA Storing ==
    ASSUME Inv, NEW a \in Agent, NEW k \in Key \ DOMAIN rows, stored(a, k)
    PROVE  /\ Stored' /\ Grows(rows, rows')
           /\ DOMAIN rows' = DOMAIN rows \cup {k}
           /\ \A j \in DOMAIN rows : rows'[j] = rows[j]
           /\ rows'[k].kind = req[a].order.kind
           /\ req[a].order.client # None => rows'[k].client = req[a].order.client
           /\ req[a].order.client = None => rows'[k].client \notin clients
<1> DEFINE order == req[a].order
<1>1. PICK c \in IF order.client = None THEN Client \ clients ELSE {order.client} :
        /\ order.client # None => c \in clients
        /\ clients' = clients \cup {c}
        /\ rows' = [j \in DOMAIN rows \cup {k} |->
              IF j = k THEN [client |-> c, kind |-> order.kind, revoked |-> FALSE]
              ELSE rows[j]]
  BY DEF stored
<1>2. clients \subseteq Client /\ c \in Client
  BY <1>1 DEF Inv, Stored
<1>3. /\ DOMAIN rows' = DOMAIN rows \cup {k}
      /\ \A j \in DOMAIN rows : rows'[j] = rows[j]
      /\ rows'[k] = [client |-> c, kind |-> order.kind, revoked |-> FALSE]
  BY <1>1
<1>4. Stored'
  BY <1>1, <1>2, <1>3 DEF Inv, Stored
<1>5. Grows(rows, rows')
  BY <1>3 DEF Grows
<1> QED
  BY <1>1, <1>3, <1>4, <1>5

(* A revocation changes a row of the caller's tenant, if any, and no tenant or kind. *)
LEMMA Withdrawing ==
    ASSUME Inv, NEW a \in Agent, revoked(a), UNCHANGED clients
    PROVE  /\ Stored' /\ Grows(rows, rows')
           /\ DOMAIN rows' = DOMAIN rows
           /\ \A j \in DOMAIN rows :
                rows'[j] # rows[j] => rows'[j].client = req[a].actor.client
<1> DEFINE k == req[a].order
<1>1. CASE active(k) /\ rows[k].client = req[a].actor.client
  <2>1. k \in DOMAIN rows /\ rows' = [rows EXCEPT ![k].revoked = TRUE]
    BY <1>1 DEF revoked, active
  <2>2. DOMAIN rows[k] = {"client", "kind", "revoked"}
    BY <2>1 DEF Inv, Stored
  <2>3. /\ DOMAIN rows' = DOMAIN rows
        /\ \A j \in DOMAIN rows : j # k => rows'[j] = rows[j]
        /\ DOMAIN rows'[k] = {"client", "kind", "revoked"}
        /\ rows'[k].client = rows[k].client /\ rows'[k].kind = rows[k].kind
    BY <2>1, <2>2
  <2>4. \A j \in DOMAIN rows :
          /\ DOMAIN rows'[j] = {"client", "kind", "revoked"}
          /\ rows'[j].client = rows[j].client /\ rows'[j].kind = rows[j].kind
    BY <2>3 DEF Inv, Stored
  <2>5. Stored' /\ Grows(rows, rows')
    BY <2>3, <2>4 DEF Inv, Stored, Grows
  <2> QED
    BY <1>1, <2>3, <2>5
<1>2. CASE ~(active(k) /\ rows[k].client = req[a].actor.client)
  <2>1. UNCHANGED rows
    BY <1>2 DEF revoked
  <2> QED
    BY <2>1 DEF Inv, Stored, Grows
<1> QED
  BY <1>1, <1>2

(* The insert, acknowledged or not. *)
LEMMA InsertStep ==
    ASSUME Inv, NEW a \in Agent, Insert(a)
    PROVE  Inv'
<1>0. DOMAIN req = Agent
  BY DEF Inv
<1>1. at(a, "insert") /\ ~at(a, "idle")
  BY DEF Insert, at
<1>2. /\ Shaped(req[a]) /\ Ordered(req[a], rows) /\ Walking(req[a], rows)
  BY <1>1, Parts
<1> DEFINE q == req'[a]
<1>3. CASE (\E code : refuse(a, code)) /\ UNCHANGED <<rows, clients>>
  <2>1. UNCHANGED <<rows, clients, shown>>
    BY <1>3 DEF Insert
  <2> QED
    BY <1>0, <1>3, <2>1, Refusal, QuietStep
<1>4. ASSUME NEW k \in Key \ DOMAIN rows, stored(a, k),
             (\E code : refuse(a, code))
               \/ respond(a, [NoAnswer EXCEPT !.code = "SUCCESS", !.key = k])
      PROVE  Inv'
  <2>1. /\ Stored' /\ Grows(rows, rows')
        /\ DOMAIN rows' = DOMAIN rows \cup {k}
        /\ \A j \in DOMAIN rows : rows'[j] = rows[j]
        /\ rows'[k].kind = req[a].order.kind
        /\ req[a].order.client # None => rows'[k].client = req[a].order.client
    BY <1>4, Storing
  <2>2. CASE \E code : refuse(a, code)
    <3>1. Moved(a) /\ Sound(q, rows') /\ \A j \in Key : ~Offers(q, j)
      BY <1>0, <2>2, Refusal DEF Offers
    <3> QED
      BY <2>1, <3>1, StoreStep DEF Insert
  <2>3. CASE respond(a, [NoAnswer EXCEPT !.code = "SUCCESS", !.key = k])
    <3> DEFINE answer == [NoAnswer EXCEPT !.code = "SUCCESS", !.key = k]
    <3>1. /\ DOMAIN answer = {"code", "key", "keys", "has_more"}
          /\ answer.key = k /\ answer.has_more = FALSE /\ answer.code = "SUCCESS"
      BY DEF NoAnswer
    <3>2. req' = [req EXCEPT ![a].pc = "respond", ![a].answer = answer]
      BY <2>3 DEF respond
    <3> HIDE DEF answer
    <3>3. /\ Moved(a)
          /\ DOMAIN q = Fields
          /\ q.pc = "respond" /\ q.answer = answer /\ q.op = req[a].op
          /\ q.credential = req[a].credential /\ q.order = req[a].order
      BY <1>0, <1>2, <3>2 DEF Shaped, Fields, Moved
    <3> HIDE DEF q
    <3>4. q.op \in {"tenant", "issue", "create"}
      BY <1>1, <1>2, <3>3 DEF Ordered, at
    <3>5. /\ Shaped(q) /\ Vouched(q, rows') /\ Ordered(q, rows') /\ Revoking(q)
          /\ Walking(q, rows')
      BY <3>1, <3>3, <3>4 DEF Shaped, Vouched, Ordered, Revoking, Walking
    <3>6. Secret(q, rows')
      <4>1. ASSUME q.op = "create"
            PROVE  q.credential \in DOMAIN rows' /\ rows'[k].client = rows'[q.credential].client
        <5>1. /\ req[a].credential \in DOMAIN rows
              /\ req[a].order.client = rows[req[a].credential].client
          BY <1>1, <1>2, <3>3, <4>1 DEF Ordered, at
        <5>2. req[a].order.client # None
          BY <5>1, AdminAssumption DEF Inv, Stored
        <5> QED
          BY <2>1, <3>3, <5>1, <5>2
      <4> QED
        BY <2>1, <3>1, <3>3, <4>1 DEF Secret
    <3>7. \A j \in Key : Offers(q, j) => j \notin DOMAIN rows
      BY <1>4, <3>1, <3>3 DEF Offers
    <3>8. Sound(q, rows')
      BY <3>5, <3>6 DEF Sound
    <3> QED
      BY <2>1, <3>3, <3>7, <3>8, StoreStep DEF Insert, q
  <2> QED
    BY <1>4, <2>2, <2>3
<1> QED
  BY <1>3, <1>4 DEF Insert, refuse_provision

(* The update of a revocation. *)
LEMMA RevokeStep ==
    ASSUME Inv, NEW a \in Agent, Revoke(a)
    PROVE  Inv'
<1>1. (\E code : refuse(a, code)) /\ (revoked(a) \/ UNCHANGED rows)
      /\ UNCHANGED <<clients, shown>>
  BY DEF Revoke
<1>2. Moved(a) /\ Sound(req'[a], rows) /\ Sound(req'[a], rows') /\ req'[a].pc = "done"
  BY <1>1, Refusal DEF Inv
<1>3. CASE UNCHANGED rows
  BY <1>1, <1>2, <1>3, QuietStep
<1>4. CASE revoked(a)
  <2>1. Stored' /\ Grows(rows, rows')
    BY <1>1, <1>4, Withdrawing
  <2> QED
    BY <1>1, <1>2, <2>1, StoreStep DEF Offers
<1> QED
  BY <1>1, <1>3, <1>4

(* What the store still executes when nobody waits for it. *)
LEMMA AdriftStep ==
    ASSUME Inv, NEW a \in Agent, Adrift(a)
    PROVE  Inv'
<1> DEFINE q == Fresh("none")
<1>1. /\ DOMAIN q = Fields /\ q.pc = "done" /\ q.op = "none" /\ q.answer = NoAnswer
  BY DEF Fresh, Fields
<1>2. /\ DOMAIN q.answer = {"code", "key", "keys", "has_more"}
      /\ q.answer.key = None /\ q.answer.has_more = FALSE
  BY <1>1 DEF NoAnswer
<1>3. Moved(a) /\ req'[a] = q /\ UNCHANGED shown
  BY DEF Inv, Adrift, Moved
<1> HIDE DEF q
<1>4. \A rw : Sound(q, rw)
  <2>1. ASSUME NEW rw
        PROVE  /\ Shaped(q) /\ Vouched(q, rw) /\ Ordered(q, rw) /\ Revoking(q)
               /\ Secret(q, rw) /\ Walking(q, rw)
    BY <1>1, <1>2 DEF Shaped, Vouched, Ordered, Revoking, Secret, Walking
  <2> QED
    BY <2>1 DEF Sound
<1>5. CASE UNCHANGED <<rows, clients>>
  BY <1>1, <1>3, <1>4, <1>5, QuietStep
<1>6. CASE revoked(a) /\ UNCHANGED clients
  <2>1. Stored' /\ Grows(rows, rows')
    BY <1>6, Withdrawing
  <2> QED
    BY <1>1, <1>3, <1>4, <2>1, StoreStep DEF Offers
<1>7. ASSUME NEW k \in Key \ DOMAIN rows, stored(a, k)
      PROVE  Inv'
  <2>1. Stored' /\ Grows(rows, rows')
    BY <1>7, Storing
  <2> QED
    BY <1>1, <1>3, <1>4, <2>1, StoreStep DEF Offers
<1> QED
  BY <1>5, <1>6, <1>7 DEF Adrift

(* An answer is sent, and a secret with it. *)
LEMMA RespondStep ==
    ASSUME Inv, NEW a \in Agent, Respond(a)
    PROVE  Inv'
<1>0. DOMAIN req = Agent
  BY DEF Inv
<1>1. at(a, "respond") /\ ~at(a, "idle") /\ UNCHANGED <<rows, clients>>
  BY DEF Respond, at
<1>2. /\ Shaped(req[a]) /\ Vouched(req[a], rows) /\ Ordered(req[a], rows)
      /\ Revoking(req[a]) /\ Secret(req[a], rows) /\ Walking(req[a], rows)
  BY <1>1, Parts
<1> DEFINE q == req'[a]
           key == req[a].answer.key
<1>3. /\ Moved(a)
      /\ DOMAIN q = Fields
      /\ q.pc = "done" /\ q.answer = req[a].answer /\ q.op = req[a].op
      /\ q.credential = req[a].credential /\ q.actor = req[a].actor
      /\ q.order = req[a].order /\ q.missing = req[a].missing \ req[a].answer.keys
  BY <1>0, <1>2 DEF Respond, Shaped, Fields, Moved
<1> HIDE DEF q
<1>4. /\ Shaped(q) /\ Vouched(q, rows) /\ Ordered(q, rows) /\ Revoking(q)
      /\ Secret(q, rows)
  BY <1>1, <1>2, <1>3 DEF Shaped, Vouched, Ordered, Revoking, Secret, at
<1>5. Walking(q, rows)
  <2>1. /\ q.missing \ q.answer.keys = req[a].missing \ req[a].answer.keys
        /\ q.missing \cap q.answer.keys = {}
        /\ q.missing \subseteq req[a].missing
    BY <1>3
  <2> QED
    BY <1>1, <1>2, <1>3, <2>1 DEF Walking, at
<1>6. Sound(q, rows)
  BY <1>4, <1>5 DEF Sound
<1>7. \A b \in Agent : Sound(req'[b], rows')
  BY <1>1, <1>3, <1>6 DEF Inv, Moved, q
<1>8. \A b \in Agent, k \in Key : Offers(req'[b], k) => b # a /\ Offers(req[b], k)
  BY <1>3 DEF Offers, Moved, q
<1>9. key \in Key => key \in DOMAIN rows /\ Offers(req[a], key)
  BY <1>1, <1>2, AdminAssumption DEF Secret, Offers, at
<1>10. shown' = [k \in Key |-> IF k = key THEN shown[k] + 1 ELSE shown[k]]
  BY DEF Respond
<1>11. \A k \in Key : shown'[k] = IF k = key THEN 1 ELSE shown[k]
  BY <1>9, <1>10 DEF Inv, Disclosed
<1>12. shown' \in [Key -> {0, 1}]
  BY <1>10, <1>11 DEF Inv, Disclosed
<1>13. \A k \in Key : shown'[k] = 1 => k \in DOMAIN rows'
  BY <1>1, <1>9, <1>11 DEF Inv, Disclosed
<1>14. \A b \in Agent, k \in Key : Offers(req'[b], k) => shown'[k] = 0
  BY <1>8, <1>9, <1>11 DEF Inv, Disclosed
<1>15. \A b, c \in Agent, k \in Key : Offers(req'[b], k) /\ Offers(req'[c], k) => b = c
  BY <1>8 DEF Inv, Disclosed
<1>16. Disclosed'
  BY <1>12, <1>13, <1>14, <1>15 DEF Disclosed
<1> QED
  BY <1>1, <1>3, <1>7, <1>16 DEF Inv, Moved, Stored

-----------------------------------------------------------------------------
(* The theorems *)

(* Every step of every agent preserves the invariant. *)
LEMMA StepKeepsInv ==
    ASSUME Inv, [Next]_vars
    PROVE  Inv'
<1>1. CASE UNCHANGED vars
  BY <1>1 DEF vars, Inv, Stored, Disclosed
<1>2. CASE Next
  <2>1. PICK a \in Agent :
          \/ Request(a) \/ Command(a)
          \/ create_api_key(a) \/ Insert(a)
          \/ list_api_keys(a) \/ ListPage(a) \/ Peek(a)
          \/ revoke_api_key(a) \/ Revoke(a)
          \/ Respond(a) \/ Abandon(a) \/ Adrift(a) \/ Finish(a) \/ NextPage(a)
    BY <1>2 DEF Next
  <2> QED
    BY <2>1, RequestStep, CommandStep, CreateStep, InsertStep, ListStep, ListPageStep,
       PeekStep, RevokeRequestStep, RevokeStep, RespondStep, AbandonStep, AdriftStep,
       FinishStep, NextPageStep
<1> QED
  BY <1>1, <1>2

(* The store keeps its foreign key, requests on their way are backed by the rows  *)
(* that let them in, secrets in answers are unshown, and what a walk has yet to    *)
(* show is behind its offset.                                                      *)
THEOREM KeyAdminInvariant == Spec => []Inv
<1>1. Init => Inv
  BY DEF Init, Inv, Stored, Sound, Disclosed, Offers, Idle
<1>2. Inv /\ [Next]_vars => Inv'
  BY StepKeepsInv
<1> QED
  BY <1>1, <1>2, PTL DEF Spec

(* A client that pages until it is told that nothing is left has seen every key of *)
(* its tenant and kind that was there when it began, and nobody else's: however     *)
(* many keys, tenants and administrators there are, and whatever they create and    *)
(* revoke in between (list_api_keys, list_keys_for_client).                         *)
THEOREM WalksAreComplete == Spec => []WalkIsComplete
<1>1. Inv => WalkIsComplete
  <2> SUFFICES ASSUME Inv, NEW a \in Agent,
                      at(a, "done") /\ req[a].op = "list" /\ req[a].answer.code = "SUCCESS"
               PROVE  /\ req[a].answer.keys
                            \subseteq inventory(req[a].actor.client, req[a].order.kind)
                      /\ ~req[a].answer.has_more => req[a].missing = {}
    BY DEF WalkIsComplete
  <2>1. Walking(req[a], rows)
    BY Parts DEF at
  <2> QED
    BY <2>1 DEF Walking, at, inventory, owned
<1> QED
  BY <1>1, KeyAdminInvariant, PTL

(* A secret is shown at most once, in the answer of the request or command that     *)
(* created its key, for a stored row with the tenant and kind that were asked for   *)
(* (created_key_response, print_json).                                              *)
THEOREM SecretsStayPrivate == Spec => []SecretsAreShownOnce
<1>1. Inv => SecretsAreShownOnce
  <2> SUFFICES ASSUME Inv PROVE SecretsAreShownOnce
    OBVIOUS
  <2>1. \A k \in Key : shown[k] <= 1 /\ (shown[k] = 1 => k \in DOMAIN rows)
    <3>1. \A k \in Key : shown[k] \in {0, 1} /\ (shown[k] = 1 => k \in DOMAIN rows)
      BY DEF Inv, Disclosed
    <3> QED
      BY <3>1
  <2>2. \A a \in Agent : at(a, "done") => Secret(req[a], rows)
    BY Parts DEF at
  <2> QED
    BY <2>1, <2>2 DEF SecretsAreShownOnce, Secret
<1> QED
  BY <1>1, KeyAdminInvariant, PTL

(* A key is created or revoked by the operator or by a request that came with a      *)
(* management credential of the same tenant, however long the store takes and        *)
(* whether or not somebody still waits for it (create_api_key, revoke_api_key).      *)
THEOREM ChangesAreVouchedFor == Spec => KeysAreVouchedFor
<1> DEFINE Vouching(k) ==
             \E a \in Agent :
               /\ req'[a] # req[a]
               /\ \/ req[a].op = "tenant" /\ rows'[k].client \notin clients
                  \/ req[a].op = "issue" /\ k \notin DOMAIN rows
                  \/ req[a].credential \in inventory(rows'[k].client, "management")
           Changed(k) == k \notin DOMAIN rows \/ rows'[k] # rows[k]
<1>1. ASSUME Inv, NEW a \in Agent, NEW k \in Key \ DOMAIN rows, stored(a, k),
             at(a, "insert") \/ (at(a, "adrift") /\ req[a].op # "revoke"),
             req'[a] # req[a]
      PROVE  \A j \in DOMAIN rows' : Changed(j) => Vouching(j)
  <2>1. /\ DOMAIN rows' = DOMAIN rows \cup {k}
        /\ \A j \in DOMAIN rows : rows'[j] = rows[j]
        /\ req[a].order.client # None => rows'[k].client = req[a].order.client
        /\ req[a].order.client = None => rows'[k].client \notin clients
    BY <1>1, Storing
  <2>2. Ordered(req[a], rows)
    BY <1>1, Parts DEF at
  <2>3. /\ req[a].op \in {"tenant", "issue", "create"}
        /\ req[a].op = "tenant" => req[a].order.client = None
        /\ req[a].op = "create" =>
              /\ req[a].credential \in DOMAIN rows
              /\ rows[req[a].credential].kind = "management"
              /\ req[a].order.client = rows[req[a].credential].client
    BY <1>1, <2>2 DEF Ordered, at
  <2>4. CASE req[a].op = "create"
    <3>1. req[a].order.client # None
      BY <1>1, <2>3, <2>4, AdminAssumption DEF Stored, Inv
    <3>2. req[a].credential \in inventory(rows'[k].client, "management")
      BY <2>1, <2>3, <2>4, <3>1 DEF inventory
    <3> QED
      BY <1>1, <2>1, <3>2
  <2>5. CASE req[a].op \in {"tenant", "issue"}
    BY <1>1, <2>1, <2>3, <2>5
  <2> QED
    BY <2>3, <2>4, <2>5
<1>2. ASSUME Inv, NEW a \in Agent, revoked(a), UNCHANGED clients,
             at(a, "revoke") \/ (at(a, "adrift") /\ req[a].op = "revoke"),
             req'[a] # req[a]
      PROVE  \A j \in DOMAIN rows' : Changed(j) => Vouching(j)
  <2>1. /\ DOMAIN rows' = DOMAIN rows
        /\ \A j \in DOMAIN rows :
              rows'[j] # rows[j] => rows'[j].client = req[a].actor.client
    BY <1>2, Withdrawing
  <2>2. Vouched(req[a], rows) /\ Revoking(req[a])
    BY <1>2, Parts DEF at
  <2>3. /\ req[a].credential \in DOMAIN rows
        /\ req[a].actor.client = rows[req[a].credential].client
        /\ rows[req[a].credential].kind = "management"
    BY <1>2, <2>2 DEF Vouched, Revoking, at
  <2> QED
    BY <1>2, <2>1, <2>3 DEF inventory
<1>3. ASSUME Inv, NEW a \in Agent, \E code : refuse(a, code), req[a].pc # "done"
      PROVE  req'[a] # req[a]
  BY <1>3, Refusal DEF Inv
<1>4. ASSUME Inv, [Next]_vars
      PROVE  \A j \in DOMAIN rows' : Changed(j) => Vouching(j)
  <2>1. CASE UNCHANGED rows
    BY <2>1
  <2>2. ASSUME NEW a \in Agent, Insert(a), ~UNCHANGED rows
        PROVE  \A j \in DOMAIN rows' : Changed(j) => Vouching(j)
    <3>1. /\ at(a, "insert") /\ ~at(a, "idle")
          /\ \E k \in Key \ DOMAIN rows : stored(a, k)
      BY <2>2 DEF Insert, at
    <3>2. req'[a] # req[a]
      <4>1. CASE \E code : refuse(a, code)
        BY <1>3, <1>4, <3>1, <4>1 DEF at
      <4>2. CASE \E answer : respond(a, answer)
        <5>1. Shaped(req[a])
          BY <1>4, <3>1, Parts
        <5>2. req'[a].pc = "respond"
          BY <1>4, <4>2, <5>1 DEF respond, Shaped, Fields, Inv
        <5> QED
          BY <3>1, <5>2 DEF at
      <4> QED
        BY <2>2, <4>1, <4>2 DEF Insert, refuse_provision
    <3> QED
      BY <1>1, <1>4, <3>1, <3>2
  <2>3. ASSUME NEW a \in Agent, Revoke(a), ~UNCHANGED rows
        PROVE  \A j \in DOMAIN rows' : Changed(j) => Vouching(j)
    <3>1. /\ at(a, "revoke") /\ revoked(a) /\ UNCHANGED clients
          /\ \E code : refuse(a, code)
      BY <2>3 DEF Revoke
    <3>2. req'[a] # req[a]
      BY <1>3, <1>4, <3>1 DEF at
    <3> QED
      BY <1>2, <1>4, <3>1, <3>2
  <2>4. ASSUME NEW a \in Agent, Adrift(a), ~UNCHANGED rows
        PROVE  \A j \in DOMAIN rows' : Changed(j) => Vouching(j)
    <3>1. at(a, "adrift")
      BY <2>4 DEF Adrift
    <3>2. req'[a] # req[a]
      <4>1. req' = [req EXCEPT ![a] = Fresh("none")]
        BY <2>4 DEF Adrift
      <4> QED
        BY <1>4, <3>1, <4>1 DEF Fresh, at, Inv
    <3> HIDE DEF Changed, Vouching
    <3>3. CASE req[a].op = "revoke" /\ revoked(a) /\ UNCHANGED clients
      BY <1>2, <1>4, <3>1, <3>2, <3>3, Zenon
    <3>4. CASE req[a].op # "revoke" /\ \E k \in Key \ DOMAIN rows : stored(a, k)
      <4>1. PICK k \in Key \ DOMAIN rows : stored(a, k)
        BY <3>4
      <4> QED
        BY <1>1, <1>4, <3>1, <3>2, <3>4, <4>1, Zenon
    <3> QED
      BY <2>4, <3>3, <3>4 DEF Adrift
  <2>5. \/ UNCHANGED rows
        \/ \E a \in Agent : Insert(a) \/ Revoke(a) \/ Adrift(a)
    BY <1>4, Zenon DEF Next, vars, Request, Command, create_api_key, list_api_keys, ListPage, Peek,
       revoke_api_key, Respond, Abandon, Finish, NextPage
  <2> QED
    BY <2>1, <2>2, <2>3, <2>4, <2>5
<1>5. Inv /\ [Next]_vars =>
        [\A k \in DOMAIN rows' :
           k \notin DOMAIN rows \/ rows'[k] # rows[k] =>
             \E a \in Agent :
               /\ req'[a] # req[a]
               /\ \/ req[a].op = "tenant" /\ rows'[k].client \notin clients
                  \/ req[a].op = "issue" /\ k \notin DOMAIN rows
                  \/ req[a].credential \in inventory(rows'[k].client, "management")]_vars
  BY <1>4
<1> QED
  BY <1>5, KeyAdminInvariant, PTL DEF Spec, KeysAreVouchedFor
=============================================================================
