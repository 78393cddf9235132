---------------------------- MODULE ServingProofs -----------------------------
(***************************************************************************)
(* Startup and serving for every catalog, every value of file and          *)
(* environment and every request: what a stage has validated stays valid,  *)
(* so that a process that exits tells the truth about its input, what      *)
(* listens is sound, and a served request stays within what was validated. *)
(***************************************************************************)
EXTENDS Serving, FiniteSetTheorems, SequenceTheorems, WellFoundedInduction, TLAPS

-----------------------------------------------------------------------------
(* Lemmas on the helpers *)

(* The stages follow each other in the order of main. *)
LEMMA StageOrder ==
    /\ After("config_file") = "document" /\ After("document") = "targets"
    /\ After("targets") = "routes" /\ After("routes") = "limits"
    /\ After("limits") = "overrides" /\ After("overrides") = "provider"
    /\ After("provider") = "server" /\ After("server") = "http_client"
    /\ After("http_client") = "database" /\ After("database") = "application"
    /\ After("application") = "router" /\ After("router") = "bind"
    /\ After("bind") = "listening"
<1>1. DOMAIN Stages = 1 .. 14
  BY DEF Stages
<1>2. /\ Stages[1] = "config_file" /\ Stages[2] = "document" /\ Stages[3] = "targets"
      /\ Stages[4] = "routes" /\ Stages[5] = "limits" /\ Stages[6] = "overrides"
      /\ Stages[7] = "provider" /\ Stages[8] = "server" /\ Stages[9] = "http_client"
      /\ Stages[10] = "database" /\ Stages[11] = "application" /\ Stages[12] = "router"
      /\ Stages[13] = "bind" /\ Stages[14] = "listening"
  BY DEF Stages
<1>3. ASSUME NEW n \in 1 .. 13
      PROVE  After(Stages[n]) = Stages[n + 1]
  <2>1. \A i \in 1 .. 14 : Stages[i] = Stages[n] => i = n
    BY <1>2
  <2>2. (CHOOSE i \in DOMAIN Stages : Stages[i] = Stages[n]) = n
    BY <1>1, <2>1
  <2> QED
    BY <2>2 DEF After
<1> QED
  BY <1>2, <1>3

(* Every set of numbers that is not empty has a least member. *)
LEMMA LeastMember ==
    ASSUME NEW T, T \subseteq Nat, T # {}
    PROVE  Min(T) \in T /\ \A n \in T : Min(T) <= n
<1>1. PICK m \in T : \A n \in T : ~(<<n, m>> \in OpToRel(<, Nat))
  BY NatLessThanWellFounded, WFMin
<1>2. \A n \in T : ~(n < m)
  BY <1>1 DEF OpToRel
<1>3. \A n \in T : m <= n
  BY <1>2
<1> QED
  BY <1>1, <1>3 DEF Min

(* The `?` operator returns the first error, or there is none. *)
LEMMA FirstError ==
    ASSUME NEW results, DOMAIN results \subseteq Nat
    PROVE  \/ first_error(results) = Ok /\ \A i \in DOMAIN results : results[i] = Ok
           \/ /\ first_error(results) # Ok
              /\ \E i \in DOMAIN results :
                    /\ results[i] = first_error(results)
                    /\ \A j \in DOMAIN results : j < i => results[j] = Ok
<1> DEFINE failed == {i \in DOMAIN results : results[i] # Ok}
<1>1. CASE failed = {}
  BY <1>1 DEF first_error
<1>2. CASE failed # {}
  <2>1. Min(failed) \in failed /\ \A i \in failed : Min(failed) <= i
    BY <1>2, LeastMember
  <2>2. first_error(results) = results[Min(failed)]
    BY <1>2 DEF first_error
  <2> QED
    BY <2>1, <2>2
<1> QED
  BY <1>1, <1>2

(* first_error of two results. *)
LEMMA FirstOfTwo ==
    ASSUME NEW a, NEW b
    PROVE  first_error(<<a, b>>) =
             IF a # Ok THEN a ELSE b
<1> DEFINE results == <<a, b>>
<1>1. /\ DOMAIN results = {1, 2}
      /\ results[1] = a /\ results[2] = b
  OBVIOUS
<1> HIDE DEF results
<1>2. first_error(results) =
        IF a # Ok THEN a ELSE b
  BY <1>1, FirstError
<1> QED
  BY <1>2 DEF results

(* A finite sequence has as many members as places exactly if none is repeated. *)
LEMMA Distinctness ==
    ASSUME NEW n \in Nat, NEW f, f = [i \in 1 .. n |-> f[i]]
    PROVE  Cardinality({f[i] : i \in 1 .. n}) = n
             <=> \A i \in 1 .. n : \A j \in 1 .. i - 1 : f[j] # f[i]
<1> DEFINE T == {f[i] : i \in 1 .. n}
<1>1. IsFiniteSet(1 .. n) /\ Cardinality(1 .. n) = n
  BY FS_Interval
<1>2. f \in Surjection(1 .. n, T)
  BY DEF Surjection
<1>3. Cardinality(T) = n <=> f \in Injection(1 .. n, T)
  BY <1>1, <1>2, FS_Surjection
<1>4. f \in Injection(1 .. n, T) <=> \A i, j \in 1 .. n : f[i] = f[j] => i = j
  BY <1>2 DEF Injection, Surjection, IsInjective
<1>5. (\A i, j \in 1 .. n : f[i] = f[j] => i = j)
        <=> \A i \in 1 .. n : \A j \in 1 .. i - 1 : f[j] # f[i]
  <2>1. ASSUME \A i, j \in 1 .. n : f[i] = f[j] => i = j, NEW i \in 1 .. n, NEW j \in 1 .. i - 1
        PROVE  f[j] # f[i]
    BY <2>1
  <2>2. ASSUME \A i \in 1 .. n : \A j \in 1 .. i - 1 : f[j] # f[i],
               NEW i \in 1 .. n, NEW j \in 1 .. n, f[i] = f[j], i # j
        PROVE  FALSE
    <3>1. j \in 1 .. i - 1 \/ i \in 1 .. j - 1
      BY <2>2
    <3> QED
      BY <2>2, <3>1
  <2> QED
    BY <2>1, <2>2
<1> QED
  BY <1>3, <1>4, <1>5

(* first_error of three results. *)
LEMMA FirstOfThree ==
    ASSUME NEW a, NEW b, NEW c
    PROVE  first_error(<<a, b, c>>) =
             IF a # Ok THEN a ELSE IF b # Ok THEN b ELSE c
<1> DEFINE results == <<a, b, c>>
<1>1. /\ DOMAIN results = {1, 2, 3}
      /\ results[1] = a /\ results[2] = b /\ results[3] = c
  OBVIOUS
<1> HIDE DEF results
<1>2. first_error(results) =
        IF a # Ok THEN a ELSE IF b # Ok THEN b ELSE c
  BY <1>1, FirstError
<1> QED
  BY <1>2 DEF results

(* first_error of five results. *)
LEMMA FirstOfFive ==
    ASSUME NEW a, NEW b, NEW c, NEW d, NEW e
    PROVE  first_error(<<a, b, c, d, e>>) =
             IF a # Ok THEN a ELSE IF b # Ok THEN b ELSE IF c # Ok THEN c
             ELSE IF d # Ok THEN d ELSE e
<1> DEFINE results == <<a, b, c, d, e>>
<1>1. /\ DOMAIN results = {1, 2, 3, 4, 5}
      /\ results[1] = a /\ results[2] = b /\ results[3] = c /\ results[4] = d
      /\ results[5] = e
  OBVIOUS
<1> HIDE DEF results
<1>2. first_error(results) =
        IF a # Ok THEN a ELSE IF b # Ok THEN b ELSE IF c # Ok THEN c
         ELSE IF d # Ok THEN d ELSE e
  BY <1>1, FirstError
<1> QED
  BY <1>2 DEF results

(* first_error of ten results. *)
LEMMA FirstOfTen ==
    ASSUME NEW a, NEW b, NEW c, NEW d, NEW e, NEW f, NEW g, NEW h, NEW i, NEW j
    PROVE  first_error(<<a, b, c, d, e, f, g, h, i, j>>) =
             IF a # Ok THEN a ELSE IF b # Ok THEN b ELSE IF c # Ok THEN c
             ELSE IF d # Ok THEN d ELSE IF e # Ok THEN e ELSE IF f # Ok THEN f
             ELSE IF g # Ok THEN g ELSE IF h # Ok THEN h ELSE IF i # Ok THEN i ELSE j
<1> DEFINE results == <<a, b, c, d, e, f, g, h, i, j>>
<1>1. /\ DOMAIN results = {1, 2, 3, 4, 5, 6, 7, 8, 9, 10}
      /\ results[1] = a /\ results[2] = b /\ results[3] = c /\ results[4] = d
      /\ results[5] = e /\ results[6] = f /\ results[7] = g /\ results[8] = h
      /\ results[9] = i /\ results[10] = j
  OBVIOUS
<1> HIDE DEF results
<1>2. first_error(results) =
        IF a # Ok THEN a ELSE IF b # Ok THEN b ELSE IF c # Ok THEN c
        ELSE IF d # Ok THEN d ELSE IF e # Ok THEN e ELSE IF f # Ok THEN f
        ELSE IF g # Ok THEN g ELSE IF h # Ok THEN h ELSE IF i # Ok THEN i ELSE j
  BY <1>1, FirstError
<1> QED
  BY <1>2 DEF results

(* first_error of seven results. *)
LEMMA FirstOfSeven ==
    ASSUME NEW a, NEW b, NEW c, NEW d, NEW e, NEW f, NEW g
    PROVE  first_error(<<a, b, c, d, e, f, g>>) =
             IF a # Ok THEN a ELSE IF b # Ok THEN b ELSE IF c # Ok THEN c
             ELSE IF d # Ok THEN d ELSE IF e # Ok THEN e ELSE IF f # Ok THEN f ELSE g
<1> DEFINE results == <<a, b, c, d, e, f, g>>
<1>1. /\ DOMAIN results = {1, 2, 3, 4, 5, 6, 7}
      /\ results[1] = a /\ results[2] = b /\ results[3] = c /\ results[4] = d
      /\ results[5] = e /\ results[6] = f /\ results[7] = g
  OBVIOUS
<1> HIDE DEF results
<1>2. first_error(results) =
        IF a # Ok THEN a ELSE IF b # Ok THEN b ELSE IF c # Ok THEN c
         ELSE IF d # Ok THEN d ELSE IF e # Ok THEN e ELSE IF f # Ok THEN f ELSE g
  BY <1>1, FirstError
<1> QED
  BY <1>2 DEF results

-----------------------------------------------------------------------------
(* The catalog rules *)

\* A list of n targets that are in the catalog, none of them twice.
Chain(targets, chain) ==
    \E n \in Nat \ {0} :
        /\ chain \in [1 .. n -> DOMAIN targets]
        /\ \A i \in 1 .. n : \A j \in 1 .. i - 1 : chain[j] # chain[i]

(* A chain as a sequence. *)
LEMMA ChainIsASeq ==
    ASSUME NEW targets, NEW chain, Chain(targets, chain)
    PROVE  /\ chain \in Seq(DOMAIN targets) /\ Len(chain) \in Nat \ {0}
           /\ DOMAIN chain = 1 .. Len(chain)
           /\ chain # <<>>
           /\ Head(chain) = chain[1] /\ Len(Tail(chain)) = Len(chain) - 1
           /\ Cardinality({chain[i] : i \in DOMAIN chain}) = Len(chain)
<1>1. PICK n \in Nat \ {0} :
        /\ chain \in [1 .. n -> DOMAIN targets]
        /\ \A i \in 1 .. n : \A j \in 1 .. i - 1 : chain[j] # chain[i]
  BY DEF Chain
<1>2. chain \in Seq(DOMAIN targets)
  BY <1>1, SeqDef
<1>3. DOMAIN chain = 1 .. n /\ Len(chain) = n
  BY <1>1, <1>2, LenProperties
<1>4. chain # <<>>
  BY <1>2, <1>3, EmptySeq
<1>5. Cardinality({chain[i] : i \in 1 .. n}) = n
  BY <1>1, Distinctness
<1>6. Len(Tail(chain)) = Len(chain) - 1
  BY <1>2, <1>4, HeadTailProperties
<1>7. Head(chain) = chain[1]
  BY <1>2, <1>4
<1> QED
  BY <1>2, <1>3, <1>4, <1>5, <1>6, <1>7

(* A route that validate_route accepts is a chain, and what it says of another *)
(* one is so.                                                                  *)
LEMMA ValidateRoute ==
    ASSUME NEW targets, NEW n \in Nat \ {0}, NEW chain \in [1 .. n -> TargetIds \cup {BadId}]
    PROVE  LET e == validate_route_error(targets, chain)
               named == {chain[i] : i \in DOMAIN chain}
           IN  /\ e = Ok => /\ Chain(targets, chain)
                            /\ BadId \notin named /\ named \subseteq DOMAIN targets
                            /\ Cardinality(named) = Len(chain)
               /\ e # Ok => \/ e = "catalog_empty_identifier" /\ BadId \in named
                            \/ /\ e = "catalog_unknown_target_reference"
                               /\ ~(named \ {BadId} \subseteq DOMAIN targets)
                            \/ /\ e = "catalog_duplicate_chain_target"
                               /\ Cardinality(named) # Len(chain)
<1> DEFINE link(i) ==
      first_error(<< require(chain[i] # BadId, "catalog_empty_identifier"),
                     require(chain[i] \in DOMAIN targets, "catalog_unknown_target_reference"),
                     require(\A j \in 1 .. i - 1 : chain[j] # chain[i],
                             "catalog_duplicate_chain_target") >>)
           results == [i \in DOMAIN chain |-> link(i)]
           named == {chain[i] : i \in DOMAIN chain}
           e == validate_route_error(targets, chain)
<1>1. DOMAIN chain = 1 .. n /\ Len(chain) = n
  <2>1. chain \in Seq(TargetIds \cup {BadId})
    BY SeqDef
  <2> QED
    BY <2>1, LenProperties
<1>2. e = first_error(results)
  BY DEF validate_route_error
<1>3. ASSUME NEW i \in 1 .. n
      PROVE  /\ link(i) = Ok => /\ chain[i] # BadId /\ chain[i] \in DOMAIN targets
                                /\ \A j \in 1 .. i - 1 : chain[j] # chain[i]
             /\ link(i) # Ok => \/ chain[i] = BadId /\ link(i) = "catalog_empty_identifier"
                                \/ /\ link(i) = "catalog_unknown_target_reference"
                                   /\ chain[i] \notin DOMAIN targets /\ chain[i] # BadId
                                \/ /\ link(i) = "catalog_duplicate_chain_target"
                                   /\ ~(\A j \in 1 .. i - 1 : chain[j] # chain[i])
  <2> DEFINE a == require(chain[i] # BadId, "catalog_empty_identifier")
             b == require(chain[i] \in DOMAIN targets, "catalog_unknown_target_reference")
             c == require(\A j \in 1 .. i - 1 : chain[j] # chain[i],
                          "catalog_duplicate_chain_target")
  <2> DEFINE e3 == first_error(<<a, b, c>>)
  <2>1. link(i) = e3
    OBVIOUS
  <2>2. /\ a = IF chain[i] # BadId THEN Ok ELSE "catalog_empty_identifier"
        /\ b = IF chain[i] \in DOMAIN targets THEN Ok ELSE "catalog_unknown_target_reference"
        /\ c = IF \A j \in 1 .. i - 1 : chain[j] # chain[i] THEN Ok
                ELSE "catalog_duplicate_chain_target"
    BY DEF require
  <2> HIDE DEF a, b, c
  <2>3. e3 = IF a # Ok THEN a ELSE IF b # Ok THEN b ELSE c
    BY FirstOfThree
  <2> HIDE DEF link, e3
  <2> QED
    BY <2>1, <2>2, <2>3 DEF Ok
<1> HIDE DEF link
<1>4. \/ e = Ok /\ \A i \in 1 .. n : link(i) = Ok
      \/ e # Ok /\ \E i \in 1 .. n : link(i) = e
  <2>1. DOMAIN results = 1 .. n /\ \A i \in 1 .. n : results[i] = link(i)
    BY <1>1
  <2> HIDE DEF results, e
  <2> QED
    BY <1>2, <2>1, FirstError
<1> HIDE DEF e
<1>5. Cardinality(named) = Len(chain)
        <=> \A i \in 1 .. n : \A j \in 1 .. i - 1 : chain[j] # chain[i]
  BY <1>1, Distinctness
<1>6. ASSUME e = Ok
      PROVE  /\ Chain(targets, chain)
             /\ BadId \notin named /\ named \subseteq DOMAIN targets
             /\ Cardinality(named) = Len(chain)
  <2>1. \A i \in 1 .. n : /\ chain[i] # BadId /\ chain[i] \in DOMAIN targets
                          /\ \A j \in 1 .. i - 1 : chain[j] # chain[i]
    BY <1>3, <1>4, <1>6
  <2>2. chain \in [1 .. n -> DOMAIN targets]
    BY <2>1
  <2> QED
    BY <1>1, <1>5, <2>1, <2>2 DEF Chain
<1>7. ASSUME e # Ok
      PROVE  \/ e = "catalog_empty_identifier" /\ BadId \in named
             \/ /\ e = "catalog_unknown_target_reference"
                /\ ~(named \ {BadId} \subseteq DOMAIN targets)
             \/ /\ e = "catalog_duplicate_chain_target"
                /\ Cardinality(named) # Len(chain)
  <2>1. PICK i \in 1 .. n : link(i) = e
    BY <1>4, <1>7
  <2>2. CASE chain[i] = BadId /\ e = "catalog_empty_identifier"
    BY <1>1, <2>2
  <2>3. CASE chain[i] \notin DOMAIN targets /\ chain[i] # BadId
               /\ e = "catalog_unknown_target_reference"
    BY <1>1, <2>3
  <2>4. CASE ~(\A j \in 1 .. i - 1 : chain[j] # chain[i])
               /\ e = "catalog_duplicate_chain_target"
    BY <1>5, <2>4
  <2> QED
    BY <1>3, <1>7, <2>1, <2>2, <2>3, <2>4
<1> QED
  BY <1>6, <1>7 DEF e

-----------------------------------------------------------------------------
(* The limits *)

(* Every bound is an interval of numbers with its default inside. *)
LEMMA BoundsAreIntervals ==
    /\ \A n \in LimitNames :
          /\ Bounds[n].min \in Nat /\ Bounds[n].max \in Nat
          /\ Bounds[n].default \in Bounds[n].min .. Bounds[n].max
    /\ {"max_fallback_targets", "max_attempt_timeout_ms"} \subseteq LimitNames
    /\ Bounds["max_attempt_timeout_ms"].min = 1
<1>1. \A n \in LimitNames :
        /\ Bounds[n].min \in Nat /\ Bounds[n].max \in Nat
        /\ Bounds[n].min <= Bounds[n].default /\ Bounds[n].default <= Bounds[n].max
        /\ Bounds[n].default \in Nat
  BY DEF LimitNames, Bounds, LimitBound
<1>2. /\ {"max_fallback_targets", "max_attempt_timeout_ms"} \subseteq LimitNames
      /\ Bounds["max_attempt_timeout_ms"].min = 1
  BY DEF LimitNames, Bounds, LimitBound
<1> QED
  BY <1>1, <1>2

InBounds(l) == \A n \in LimitNames : l[n] \in Bounds[n].min .. Bounds[n].max

(* A number or a malformed text is out of bounds exactly if check_bound says so. *)
LEMMA CheckBound ==
    ASSUME NEW n \in LimitNames, NEW v \in Nat \cup {Malformed}
    PROVE  OutOfBounds(Bounds[n], v) <=> ~check_bound(Bounds[n], v)
  BY BoundsAreIntervals, SettingsAssumption DEF OutOfBounds, check_bound

(* The environment names override in their order. *)
LEMMA EnvLookup ==
    ASSUME NEW n \in Nat, NEW names, DOMAIN names = 1 .. n, NEW before
    PROVE  /\ (\A i \in 1 .. n : names[i] = Absent) => env_u64(names) = Absent
           /\ env_u64(names) # Absent => env_u64(names) \in {names[i] : i \in 1 .. n}
           /\ Layered(names, before) = IF env_u64(names) = Absent THEN before ELSE env_u64(names)
<1> DEFINE present == {i \in DOMAIN names : names[i] # Absent}
<1>1. CASE present = {}
  BY <1>1 DEF env_u64, Layered
<1>2. CASE present # {}
  <2>1. Min(present) \in present /\ \A i \in present : Min(present) <= i
    BY <1>2, LeastMember
  <2> DEFINE m == Min(present)
  <2> HIDE DEF m
  <2>2. env_u64(names) = names[m]
    BY <1>2 DEF env_u64, m
  <2>3. m \in 1 .. n /\ names[m] # Absent
    BY <2>1 DEF m
  <2>4. \A j \in DOMAIN names : j < m => names[j] = Absent
    <3> SUFFICES ASSUME NEW j \in DOMAIN names, j < m, j \in present PROVE FALSE
      OBVIOUS
    <3>1. m <= j
      BY <2>1 DEF m
    <3> QED
      BY <2>3, <3>1
  <2> DEFINE first(v) == /\ v # Absent
                         /\ \E i \in DOMAIN names :
                               names[i] = v /\ \A j \in DOMAIN names : j < i => names[j] = Absent
             V == {names[i] : i \in DOMAIN names}
  <2>5. names[m] \in V /\ first(names[m])
    BY <2>3, <2>4
  <2>6. ASSUME NEW v \in V, first(v)
        PROVE  v = names[m]
    <3>1. PICK i \in DOMAIN names :
             names[i] = v /\ \A j \in DOMAIN names : j < i => names[j] = Absent
      BY <2>6
    <3>2. ~(m < i) /\ ~(i < m)
      BY <2>3, <2>4, <2>6, <3>1
    <3> QED
      BY <2>3, <3>1, <3>2
  <2> HIDE DEF first, V
  <2>7. (CHOOSE v \in V : first(v)) = names[m]
    BY <2>5, <2>6
  <2>8. Layered(names, before) = CHOOSE v \in V : first(v)
    BY <2>3 DEF Layered, first, V
  <2> QED
    BY <2>2, <2>3, <2>7, <2>8
<1> QED
  BY <1>1, <1>2

(* How many names a limit has is a number. *)
LEMMA AliasesType == \A n \in LimitNames : Aliases(n) \in Nat
  BY DEF Aliases

\* The environment in which only one limit is overridden.
OnlyOne(name, names) ==
    [n \in LimitNames |-> IF n = name THEN names ELSE [i \in 1 .. Aliases(n) |-> Absent]]

(* An override replaces its limit by the value of the first name, and no other. *)
LEMMA Overriding ==
    ASSUME NEW l, NEW name \in LimitNames, NEW names, DOMAIN names = 1 .. Aliases(name)
    PROVE  LET new == apply_env_overrides(l, OnlyOne(name, names))
           IN  /\ new[name] = Layered(names, l[name])
               /\ \A n \in LimitNames \ {name} : new[n] = l[n]
<1> DEFINE env == OnlyOne(name, names)
           new == apply_env_overrides(l, env)
<1>1. \A n \in LimitNames : new[n] = IF env_u64(env[n]) = Absent THEN l[n] ELSE env_u64(env[n])
  BY DEF apply_env_overrides
<1>2. env[name] = names
  BY DEF OnlyOne
<1>3. ASSUME NEW n \in LimitNames \ {name}
      PROVE  env_u64(env[n]) = Absent
  <2> DEFINE absent == [i \in 1 .. Aliases(n) |-> Absent]
  <2>1. env[n] = absent
    BY DEF OnlyOne
  <2>2. DOMAIN absent = 1 .. Aliases(n) /\ \A i \in 1 .. Aliases(n) : absent[i] = Absent
    OBVIOUS
  <2> HIDE DEF absent
  <2> QED
    BY <2>1, <2>2, AliasesType, EnvLookup
<1>4. Layered(names, l[name]) = IF env_u64(names) = Absent THEN l[name] ELSE env_u64(names)
  BY AliasesType, EnvLookup
<1> HIDE DEF new, env
<1> QED
  BY <1>1, <1>2, <1>3, <1>4 DEF new, env

-----------------------------------------------------------------------------
(* The inductive invariant of startup *)

Early == {"config_file", "document", "targets"}

Unlimited == Early \cup {"routes", "limits", "exited"}

StageNames ==
    Unlimited \cup {"overrides", "provider", "server", "http_client", "database", "application",
                    "router", "bind", "listening"}

\* What has been validated of the catalog c before stage s.
CatalogSound(c, s) ==
    /\ c = [targets |-> c.targets, routes |-> c.routes, default_route |-> c.default_route]
    /\ IsFiniteSet(DOMAIN c.targets)
    /\ \A t \in DOMAIN c.targets : c.targets[t].max_output_tokens \in Nat
    /\ s \in Early => DOMAIN c.routes = {}
    /\ BadId \notin DOMAIN c.routes
    /\ \A r \in DOMAIN c.routes : Chain(c.targets, c.routes[r])
    /\ s \notin Early \cup {"routes", "exited"} => c.default_route \in DOMAIN c.routes

\* The limits are within their bounds, after the overrides the routes fit them.
LimitsSound(l, c, s) ==
    /\ s \notin Unlimited => InBounds(l)
    /\ s \notin Unlimited \cup {"overrides"} =>
          \A r \in DOMAIN c.routes : Len(c.routes[r]) - 1 <= l.max_fallback_targets

VendorSound(v, c, s) ==
    s \in {"router", "bind", "listening"} => v = from_settings(c.targets)

OverrideIsFirst ==
    stage = "provider" => limits[input.name] = Layered(input.names, input.before)

StartupInv ==
    /\ stage \in StageNames
    /\ CatalogSound(catalog, stage)
    /\ LimitsSound(limits, catalog, stage)
    /\ VendorSound(vendor, catalog, stage)
    /\ DiagnosisIsTrue
    /\ OverrideIsFirst

(* What a stage that has judged its input leaves. *)
LEMMA Judged ==
    ASSUME NEW i, NEW e, NEW s, judge(i, e, s), i.kind # "document", s # "exited",
           e = Ok => Defects' = {}, e # Ok => e \in Defects'
    PROVE  DiagnosisIsTrue' /\ stage' = IF e = Ok THEN s ELSE "exited"
  BY DEF judge, DiagnosisIsTrue, InputMisnamed

(* A stage that stores nothing may be left for the next one, or for the exit. *)
LEMMA Onward ==
    ASSUME StartupInv, UNCHANGED <<catalog, limits, vendor>>,
           stage \in {"config_file", "document", "targets", "provider", "server", "http_client",
                      "database", "router", "bind"},
           stage' \in {After(stage), "exited"}, DiagnosisIsTrue'
    PROVE  StartupInv'
<1>1. stage' \in StageNames
  BY StageOrder DEF StageNames, Unlimited, Early
<1>2. stage' # "provider"
  BY StageOrder
<1>3. CatalogSound(catalog, stage')
  <2>1. CatalogSound(catalog, stage)
    BY DEF StartupInv
  <2>2. /\ stage' \in Early => stage \in Early
        /\ stage' \notin Early \cup {"routes", "exited"} => stage \notin Early \cup {"routes", "exited"}
    BY StageOrder DEF Early
  <2> QED
    BY <2>1, <2>2 DEF CatalogSound
<1>4. LimitsSound(limits, catalog, stage')
  <2>1. LimitsSound(limits, catalog, stage)
    BY DEF StartupInv
  <2>2. /\ stage' \notin Unlimited => stage \notin Unlimited \cup {"overrides"}
    BY StageOrder DEF Unlimited, Early
  <2> QED
    BY <2>1, <2>2 DEF LimitsSound
<1>5. VendorSound(vendor, catalog, stage')
  <2>1. VendorSound(vendor, catalog, stage)
    BY DEF StartupInv
  <2>2. stage' \in {"router", "bind", "listening"} => stage \in {"router", "bind", "listening"}
    BY StageOrder
  <2> QED
    BY <2>1, <2>2 DEF VendorSound
<1> QED
  BY <1>1, <1>2, <1>3, <1>4, <1>5 DEF StartupInv, OverrideIsFirst

-----------------------------------------------------------------------------
(* The stages *)

(* A path that leads to no file ends the process, and is the reason given. *)
LEMMA LocateCatalogInv == ASSUME StartupInv, LocateCatalog PROVE StartupInv'
<1>1. PICK path \in {"absent", "blank", "unreadable", "readable"} :
          judge([kind |-> "file", path |-> path],
                first_error(<< require(path \notin {"absent", "blank"}, "missing_config_file"),
                               require(path # "unreadable", "catalog_unreadable") >>),
                After(stage))
  BY DEF LocateCatalog
<1> DEFINE e == first_error(<< require(path \notin {"absent", "blank"}, "missing_config_file"),
                               require(path # "unreadable", "catalog_unreadable") >>)
<1>2. e = IF path \in {"absent", "blank"} THEN "missing_config_file"
          ELSE IF path = "unreadable" THEN "catalog_unreadable" ELSE Ok
  BY FirstOfTwo DEF require, Ok
<1>3. input'.kind = "file" /\ input'.path = path
  BY <1>1 DEF judge
<1>4. Defects' = {blame(path \in {"absent", "blank"}, "missing_config_file"),
                  blame(path = "unreadable", "catalog_unreadable")} \ {Ok}
  BY <1>3 DEF Defects, CatalogDefects, ProcessDefects
<1>5. (e = Ok => Defects' = {}) /\ (e # Ok => e \in Defects')
  BY <1>2, <1>4 DEF blame, Ok
<1> HIDE DEF e
<1>6. DiagnosisIsTrue' /\ stage' \in {After(stage), "exited"}
  BY <1>1, <1>5, Judged, StageOrder DEF LocateCatalog, e
<1> QED
  BY <1>6, Onward DEF LocateCatalog

(* What map_serde_error makes of a fault, message by message. *)
LEMMA Messages ==
    ASSUME NEW fault \in DocumentFaults
    PROVE  LET q == fault.quotes
           IN  map_serde_error(serde_error(fault)) =
        IF fault.what \in {"syntax", "repeated_field", "short_list"} THEN "catalog_malformed_json"
        ELSE IF fault.what = "out_of_range" THEN "catalog_invalid_price"
        ELSE IF fault.what = "bad_integer" THEN "catalog_invalid_type"
        ELSE IF fault.what = "missing" THEN
               IF fault.field = "version" THEN "catalog_unsupported_version"
               ELSE IF fault.field \in {"pricing", "price"} THEN "catalog_incomplete_pricing"
               ELSE "catalog_invalid_type"
        ELSE IF fault.what = "duplicate_target" \/ q = "duplicate target identifier"
             THEN "catalog_duplicate_target"
        ELSE IF fault.what = "duplicate_route" \/ q = "duplicate route identifier"
             THEN "catalog_duplicate_route"
        ELSE IF fault.what = "nested_chain" \/ q = "nested chain" THEN "catalog_nested_chain"
        ELSE IF fault.what = "unknown_field" \/ q = "unknown field" THEN "catalog_unknown_field"
        ELSE IF q \in {"missing version", "version"} THEN "catalog_unsupported_version"
        ELSE IF q \in {"missing pricing", "missing price"} THEN "catalog_incomplete_pricing"
        ELSE IF q = "number out of range" THEN "catalog_invalid_price"
        ELSE "catalog_invalid_type"
<1> DEFINE err == serde_error(fault)
           says(p) == p \in err.says
           e == map_serde_error(err)
<1>1. e = IF says("duplicate target identifier") THEN "catalog_duplicate_target"
          ELSE IF says("duplicate route identifier") THEN "catalog_duplicate_route"
          ELSE IF says("nested chain") THEN "catalog_nested_chain"
          ELSE IF says("unknown field") THEN "catalog_unknown_field"
          ELSE IF says("missing version") \/ (says("invalid type") /\ says("version"))
               THEN "catalog_unsupported_version"
          ELSE IF says("missing pricing") \/ says("missing price")
               THEN "catalog_incomplete_pricing"
          ELSE IF says("number out of range") THEN "catalog_invalid_price"
          ELSE IF err.syntax THEN "catalog_malformed_json"
          ELSE IF says("invalid type") \/ says("invalid value") \/ says("missing field")
               THEN "catalog_invalid_type"
          ELSE "catalog_malformed_json"
  <2> HIDE DEF err
  <2>1. names_version(err.says)
          <=> (says("missing version") \/ (says("invalid type") /\ says("version")))
    BY DEF names_version
  <2>2. misses_pricing(err.says) <=> (says("missing pricing") \/ says("missing price"))
    BY DEF misses_pricing
  <2>3. {"invalid type", "invalid value", "missing field"} \cap err.says = {}
          <=> ~(says("invalid type") \/ says("invalid value") \/ says("missing field"))
    OBVIOUS
  <2> DEFINE r1 == require(~says("duplicate target identifier"), "catalog_duplicate_target")
             r2 == require(~says("duplicate route identifier"), "catalog_duplicate_route")
             r3 == require(~says("nested chain"), "catalog_nested_chain")
             r4 == require(~says("unknown field"), "catalog_unknown_field")
             r5 == require(~names_version(err.says), "catalog_unsupported_version")
             r6 == require(~misses_pricing(err.says), "catalog_incomplete_pricing")
             r7 == require(~says("number out of range"), "catalog_invalid_price")
             r8 == require(~err.syntax, "catalog_malformed_json")
             r9 == require({"invalid type", "invalid value", "missing field"} \cap err.says = {},
                           "catalog_invalid_type")
             r10 == "catalog_malformed_json"
  <2>4. e = first_error(<<r1, r2, r3, r4, r5, r6, r7, r8, r9, r10>>)
    BY DEF map_serde_error
  <2>5. /\ r1 = IF says("duplicate target identifier") THEN "catalog_duplicate_target" ELSE Ok
        /\ r2 = IF says("duplicate route identifier") THEN "catalog_duplicate_route" ELSE Ok
        /\ r3 = IF says("nested chain") THEN "catalog_nested_chain" ELSE Ok
        /\ r4 = IF says("unknown field") THEN "catalog_unknown_field" ELSE Ok
    BY DEF require
  <2>6. /\ r5 = IF names_version(err.says) THEN "catalog_unsupported_version" ELSE Ok
        /\ r6 = IF misses_pricing(err.says) THEN "catalog_incomplete_pricing" ELSE Ok
        /\ r7 = IF says("number out of range") THEN "catalog_invalid_price" ELSE Ok
        /\ r8 = IF err.syntax THEN "catalog_malformed_json" ELSE Ok
    BY DEF require
  <2>7. r9 = IF {"invalid type", "invalid value", "missing field"} \cap err.says = {}
             THEN Ok ELSE "catalog_invalid_type"
    BY DEF require
  <2> HIDE DEF says, e, r1, r2, r3, r4, r5, r6, r7, r8, r9
  <2>8. e = IF r1 # Ok THEN r1 ELSE IF r2 # Ok THEN r2 ELSE IF r3 # Ok THEN r3
            ELSE IF r4 # Ok THEN r4 ELSE IF r5 # Ok THEN r5 ELSE IF r6 # Ok THEN r6
            ELSE IF r7 # Ok THEN r7 ELSE IF r8 # Ok THEN r8 ELSE IF r9 # Ok THEN r9 ELSE r10
    BY <2>4, FirstOfTen
  <2> QED
    BY <2>1, <2>2, <2>3, <2>5, <2>6, <2>7, <2>8 DEF Ok
<1>2. err.syntax <=> fault.what \in {"syntax", "out_of_range"}
  BY DEF serde_error
<1>3. err.says = {fault.quotes} \cup serde_phrases(fault)
  BY DEF serde_error
<1>4. CASE fault.what \in {"wrong_type", "unknown_field"}
  <2>1. /\ fault.what = "wrong_type" => serde_phrases(fault) = {"invalid type"}
        /\ fault.what = "unknown_field" => serde_phrases(fault) = {"unknown field"}
    BY DEF serde_phrases
  <2>2. fault.quotes \in Phrases \cup {"nothing"}
    BY <1>4 DEF DocumentFaults
  <2>3. \A p : says(p) <=> p = fault.quotes \/ p \in serde_phrases(fault)
    BY <1>3
  <2> HIDE DEF err, says, e
  <2>4. CASE fault.what = "wrong_type"
    BY <1>1, <1>2, <2>1, <2>2, <2>3, <2>4 DEF Phrases, e, err
  <2>5. CASE fault.what = "unknown_field"
    BY <1>1, <1>2, <2>1, <2>2, <2>3, <2>5 DEF Phrases, e, err
  <2> QED
    BY <1>4, <2>4, <2>5
<1>5. CASE fault.what = "missing"
  <2>1. fault.field \in Fields /\ fault.quotes = "nothing"
    BY <1>5 DEF DocumentFaults
  <2>2. /\ fault.field = "version" =>
             serde_phrases(fault) = {"missing field", "missing version", "version"}
        /\ fault.field = "pricing" => serde_phrases(fault) = {"missing field", "missing pricing"}
        /\ fault.field = "price" => serde_phrases(fault) = {"missing field", "missing price"}
        /\ fault.field \in {"limit", "other"} => serde_phrases(fault) = {"missing field"}
    BY <1>5 DEF serde_phrases
  <2>3. \A p : says(p) <=> p = "nothing" \/ p \in serde_phrases(fault)
    BY <1>3, <2>1
  <2> HIDE DEF err, says, e
  <2> QED
    BY <1>1, <1>2, <1>5, <2>1, <2>2, <2>3 DEF Fields, e, err
<1>6. CASE fault.what \notin {"missing", "wrong_type", "unknown_field"}
  <2>1. fault.quotes = "nothing" /\ fault.what \in
          {"syntax", "duplicate_target", "duplicate_route", "nested_chain", "repeated_field",
           "short_list", "out_of_range", "bad_integer"}
    BY <1>6 DEF DocumentFaults
  <2>2. /\ fault.what = "duplicate_target" => serde_phrases(fault) = {"duplicate target identifier"}
        /\ fault.what = "duplicate_route" => serde_phrases(fault) = {"duplicate route identifier"}
        /\ fault.what = "nested_chain" => serde_phrases(fault) = {"nested chain"}
        /\ fault.what = "bad_integer" => serde_phrases(fault) = {"invalid value"}
        /\ fault.what = "out_of_range" => serde_phrases(fault) = {"number out of range"}
        /\ fault.what \in {"syntax", "repeated_field", "short_list"} => serde_phrases(fault) = {}
    BY DEF serde_phrases
  <2>3. \A p : says(p) <=> p = "nothing" \/ p \in serde_phrases(fault)
    BY <1>3, <2>1
  <2> HIDE DEF err, says, e
  <2> QED
    BY <1>1, <1>2, <2>1, <2>2, <2>3 DEF e, err
<1> QED
  BY <1>4, <1>5, <1>6

(* A document that is refused is misnamed exactly if it is one of those listed. *)
LEMMA DocumentDiagnosis ==
    ASSUME NEW fault \in DocumentFaults
    PROVE  LET e == map_serde_error(serde_error(fault))
           IN  e # Ok /\ (Misnamed(fault) <=> e \notin DocumentDefects(fault) \ {Ok})
<1> DEFINE e == map_serde_error(serde_error(fault))
           true == e \in DocumentDefects(fault) \ {Ok}
<1>1. true <=>
        /\ e # Ok
        /\ \/ fault.what = "syntax" /\ e = "catalog_malformed_json"
           \/ fault.what = "duplicate_target" /\ e = "catalog_duplicate_target"
           \/ fault.what = "duplicate_route" /\ e = "catalog_duplicate_route"
           \/ fault.what = "nested_chain" /\ e = "catalog_nested_chain"
           \/ fault.what = "unknown_field" /\ e = "catalog_unknown_field"
           \/ fault.what \in {"wrong_type", "bad_integer"} /\ e = "catalog_invalid_type"
           \/ /\ fault.what = "missing" /\ fault.field \in {"pricing", "price"}
              /\ e = "catalog_incomplete_pricing"
           \/ fault.what = "out_of_range" /\ fault.field = "price" /\ e = "catalog_invalid_price"
           \/ fault.field = "version" /\ e = "catalog_unsupported_version"
  <2> HIDE DEF e
  <2> QED
    BY DEF DocumentDefects, blame
<1>2. e = map_serde_error(serde_error(fault))
  OBVIOUS
<1> HIDE DEF e, true
<1>3. CASE fault.what = "wrong_type"
  <2> DEFINE q == fault.quotes
  <2>1. q \in Phrases \cup {"nothing"}
    BY <1>3 DEF DocumentFaults
  <2>2. e = IF q = "duplicate target identifier" THEN "catalog_duplicate_target"
            ELSE IF q = "duplicate route identifier" THEN "catalog_duplicate_route"
            ELSE IF q = "nested chain" THEN "catalog_nested_chain"
            ELSE IF q = "unknown field" THEN "catalog_unknown_field"
            ELSE IF q \in {"missing version", "version"} THEN "catalog_unsupported_version"
            ELSE IF q \in {"missing pricing", "missing price"} THEN "catalog_incomplete_pricing"
            ELSE IF q = "number out of range" THEN "catalog_invalid_price"
            ELSE "catalog_invalid_type"
    BY <1>2, <1>3, Messages
  <2>3. e # Ok
    BY <2>2 DEF Ok
  <2>4. true <=> e = "catalog_invalid_type"
                 \/ (fault.field = "version" /\ e = "catalog_unsupported_version")
    BY <1>1, <1>3, <2>3
  <2>5. Misnamed(fault) <=>
          /\ q \in Phrases \ {"invalid type", "invalid value", "missing field"}
          /\ ~(fault.field = "version" /\ q \in {"missing version", "version"})
    BY <1>3 DEF Misnamed
  <2> HIDE DEF q
  <2>6. Misnamed(fault) <=> ~true
    BY <2>1, <2>2, <2>4, <2>5 DEF Phrases
  <2> QED
    BY <2>3, <2>6 DEF true, e
<1>4. CASE fault.what = "unknown_field"
  <2>1. fault.quotes \in Phrases \cup {"nothing"} /\ fault.field = "other"
    BY <1>4 DEF DocumentFaults
  <2> QED
    BY <1>1, <1>2, <1>4, <2>1, Messages DEF Misnamed, Ok, true, e
<1>5. CASE fault.what = "missing"
  <2>1. fault.field \in Fields
    BY <1>5 DEF DocumentFaults
  <2> QED
    BY <1>1, <1>2, <1>5, <2>1, Messages DEF Misnamed, Fields, Ok, true, e
<1>6. CASE fault.what \in {"bad_integer", "out_of_range"}
  BY <1>1, <1>2, <1>6, Messages DEF Misnamed, Ok, true, e
<1>7. CASE fault.what \notin {"wrong_type", "unknown_field", "missing", "bad_integer", "out_of_range"}
  <2>1. /\ fault.quotes = "nothing" /\ fault.field = "other"
        /\ fault.what \in {"syntax", "duplicate_target", "duplicate_route", "nested_chain",
                           "repeated_field", "short_list"}
    BY <1>7 DEF DocumentFaults
  <2> QED
    BY <1>1, <1>2, <1>7, <2>1, Messages DEF Misnamed, Ok, true, e
<1> QED
  BY <1>3, <1>4, <1>5, <1>6, <1>7

(* Every fault that serde reports has a category, and a version is 1 or refused. *)
LEMMA DeserializeInv == ASSUME StartupInv, Deserialize PROVE StartupInv'
<1>1. stage = "document" /\ UNCHANGED <<catalog, limits, vendor>>
  BY DEF Deserialize
<1>2. ASSUME NEW fault \in DocumentFaults,
             judge([kind |-> "document", fault |-> fault],
                   map_serde_error(serde_error(fault)), After(stage))
      PROVE  StartupInv'
  <2> DEFINE e == map_serde_error(serde_error(fault))
  <2>1. input'.kind = "document" /\ input'.fault = fault
    BY <1>2 DEF judge
  <2>2. Defects' = DocumentDefects(fault) \ {Ok}
    BY <2>1 DEF Defects, CatalogDefects, ProcessDefects
  <2>3. e # Ok /\ (Misnamed(fault) <=> e \notin DocumentDefects(fault) \ {Ok})
    BY DocumentDiagnosis
  <2> HIDE DEF e
  <2>4. category' = e /\ stage' = "exited"
    BY <1>2, <2>3 DEF judge, e
  <2>5. InputMisnamed' <=> Misnamed(fault)
    BY <2>1 DEF InputMisnamed
  <2>6. DiagnosisIsTrue'
    BY <2>2, <2>3, <2>4, <2>5 DEF DiagnosisIsTrue
  <2> QED
    BY <1>1, <2>4, <2>6, Onward
<1>3. ASSUME NEW version \in 0 .. 2,
             judge([kind |-> "version", version |-> version],
                   require(version = 1, "catalog_unsupported_version"), After(stage))
      PROVE  StartupInv'
  <2> DEFINE e == require(version = 1, "catalog_unsupported_version")
  <2>1. input'.kind = "version" /\ input'.version = version
    BY <1>3 DEF judge
  <2>2. Defects' = {blame(version # 1, "catalog_unsupported_version")} \ {Ok}
    BY <2>1 DEF Defects, CatalogDefects, ProcessDefects
  <2>3. (e = Ok => Defects' = {}) /\ (e # Ok => e \in Defects')
    BY <2>2 DEF require, blame, Ok
  <2> HIDE DEF e
  <2>4. DiagnosisIsTrue' /\ stage' \in {After(stage), "exited"}
    BY <1>1, <1>3, <2>3, Judged, StageOrder DEF e
  <2> QED
    BY <1>1, <2>4, Onward
<1> QED
  BY <1>2, <1>3 DEF Deserialize

(* A target that is taken keeps its rules; one that breaks several is refused for *)
(* one of them.                                                                   *)
LEMMA ParseTargetInv == ASSUME StartupInv, ParseTarget PROVE StartupInv'
<1>1. PICK id \in (TargetIds \cup {BadId}) \ DOMAIN catalog.targets, raw \in RawTargets(Caps) :
          /\ judge([kind |-> "target", id |-> id, raw |-> raw],
                   parse_target_error(id, raw), stage)
          /\ catalog' = IF parse_target_error(id, raw) # Ok THEN catalog ELSE
                [catalog EXCEPT !.targets =
                    [t \in DOMAIN @ \cup {id} |-> IF t = id THEN parse_target(raw) ELSE @[t]]]
  BY DEF ParseTarget
<1>2. stage = "targets" /\ UNCHANGED <<limits, vendor>>
  BY DEF ParseTarget
<1> DEFINE e == parse_target_error(id, raw)
<1>3. /\ raw.vendor \in {"omitted", "openai", "other"} /\ raw.price \in {"valid", "out_of_range"}
      /\ raw.max_output_tokens \in Nat
  BY StartupAssumption DEF RawTargets
<1>4. e = IF id = BadId THEN "catalog_empty_identifier"
          ELSE IF raw.vendor = "other" THEN "catalog_unsupported_vendor"
          ELSE IF raw.model = BadId THEN "catalog_empty_identifier"
          ELSE IF ~check_bound(MAX_OUTPUT_TOKENS, raw.max_output_tokens) THEN "invalid_limit"
          ELSE IF raw.price # "valid" THEN "catalog_invalid_price" ELSE Ok
  BY <1>3, FirstOfFive DEF parse_target_error, require, Ok
<1>5. input'.kind = "target" /\ input'.id = id /\ input'.raw = raw
  BY <1>1 DEF judge
<1>6. Defects' = {blame(BadId \in {id, raw.model}, "catalog_empty_identifier"),
                  blame(raw.vendor = "other", "catalog_unsupported_vendor"),
                  blame(raw.price # "valid", "catalog_invalid_price"),
                  blame(OutOfBounds(MAX_OUTPUT_TOKENS, raw.max_output_tokens),
                        "invalid_limit")} \ {Ok}
  BY <1>5 DEF Defects, CatalogDefects, ProcessDefects
<1>7. OutOfBounds(MAX_OUTPUT_TOKENS, raw.max_output_tokens)
        <=> ~check_bound(MAX_OUTPUT_TOKENS, raw.max_output_tokens)
  BY <1>3, SettingsAssumption DEF OutOfBounds, check_bound, MAX_OUTPUT_TOKENS, LimitBound
<1>8. (e = Ok => Defects' = {}) /\ (e # Ok => e \in Defects')
  BY <1>4, <1>6, <1>7 DEF blame, Ok
<1> HIDE DEF e
<1>9. DiagnosisIsTrue' /\ stage' \in {stage, "exited"}
  BY <1>1, <1>2, <1>8, Judged DEF e
<1>10. CatalogSound(catalog', stage')
  <2>1. CatalogSound(catalog, stage) /\ DOMAIN catalog.routes = {}
    BY <1>2 DEF StartupInv, CatalogSound, Early
  <2>2. CASE e # Ok
    BY <1>1, <1>2, <1>9, <2>1, <2>2 DEF CatalogSound, Early, e
  <2>3. CASE e = Ok
    <3> DEFINE more == [t \in DOMAIN catalog.targets \cup {id} |->
                          IF t = id THEN parse_target(raw) ELSE catalog.targets[t]]
    <3>1. catalog' = [targets |-> more, routes |-> catalog.routes,
                      default_route |-> catalog.default_route]
      BY <1>1, <2>1, <2>3 DEF e, CatalogSound
    <3>2. IsFiniteSet(DOMAIN more)
      BY <2>1, FS_AddElement DEF CatalogSound
    <3>3. \A t \in DOMAIN more : more[t].max_output_tokens \in Nat
      BY <1>3, <2>1 DEF CatalogSound, parse_target
    <3> HIDE DEF more
    <3> QED
      BY <1>2, <1>9, <2>1, <3>1, <3>2, <3>3 DEF CatalogSound, Early
  <2> QED
    BY <2>2, <2>3
<1>11. /\ stage' \in StageNames /\ stage' \in Unlimited /\ stage' # "provider"
       /\ stage' \notin {"router", "bind", "listening"}
  BY <1>2, <1>9 DEF StageNames, Unlimited, Early
<1> QED
  BY <1>2, <1>9, <1>10, <1>11 DEF StartupInv, LimitsSound, VendorSound, OverrideIsFirst

(* A catalog without targets is refused. *)
LEMMA TargetsDoneInv == ASSUME StartupInv, TargetsDone PROVE StartupInv'
<1> DEFINE e == require(DOMAIN catalog.targets # {}, "catalog_empty_identifier")
           n == Cardinality(DOMAIN catalog.targets)
<1>1. /\ stage = "targets" /\ UNCHANGED <<catalog, limits, vendor>>
      /\ judge([kind |-> "targets", count |-> n], e, After(stage))
  BY DEF TargetsDone
<1>2. n = 0 <=> DOMAIN catalog.targets = {}
  BY FS_EmptySet DEF StartupInv, CatalogSound
<1>3. input'.kind = "targets" /\ input'.count = n
  BY <1>1 DEF judge
<1>4. Defects' = {blame(n = 0, "catalog_empty_identifier")} \ {Ok}
  BY <1>3 DEF Defects, CatalogDefects, ProcessDefects
<1>5. (e = Ok => Defects' = {}) /\ (e # Ok => e \in Defects')
  BY <1>2, <1>4 DEF require, blame, Ok
<1> HIDE DEF e, n
<1>6. DiagnosisIsTrue' /\ stage' \in {After(stage), "exited"}
  BY <1>1, <1>5, Judged, StageOrder
<1> QED
  BY <1>1, <1>6, Onward

(* A route that is taken is a chain, and one that is refused breaks the rule named. *)
LEMMA ParseRouteInv == ASSUME StartupInv, ParseRoute PROVE StartupInv'
<1> DEFINE v(chain) == validate_route_error(catalog.targets, chain)
           err(id, chain) ==
             first_error(<< require(id # BadId, "catalog_empty_identifier"), v(chain) >>)
           more(id, chain) ==
             [r \in DOMAIN catalog.routes \cup {id} |->
                IF r = id THEN chain ELSE catalog.routes[r]]
<1>1. PICK id \in (RouteIds \cup {BadId}) \ DOMAIN catalog.routes, n \in 1 .. MaxChain :
        \E chain \in [1 .. n -> TargetIds \cup {BadId}] :
          /\ judge([kind |-> "route", id |-> id, chain |-> chain], err(id, chain), stage)
          /\ catalog' = IF err(id, chain) # Ok THEN catalog
                        ELSE [catalog EXCEPT !.routes = more(id, chain)]
  BY DEF ParseRoute
<1>2. PICK chain \in [1 .. n -> TargetIds \cup {BadId}] :
          /\ judge([kind |-> "route", id |-> id, chain |-> chain], err(id, chain), stage)
          /\ catalog' = IF err(id, chain) # Ok THEN catalog
                        ELSE [catalog EXCEPT !.routes = more(id, chain)]
  BY <1>1
<1>3. stage = "routes" /\ UNCHANGED <<limits, vendor>>
  BY DEF ParseRoute
<1> DEFINE e == err(id, chain)
           named == {chain[i] : i \in DOMAIN chain}
<1>4. e = IF id = BadId THEN "catalog_empty_identifier" ELSE v(chain)
  BY FirstOfTwo DEF require, Ok
<1>5. CatalogSound(catalog, "routes")
  BY <1>3 DEF StartupInv
<1>6. n \in Nat \ {0}
  BY StartupAssumption
<1>7. catalog'.targets = catalog.targets
  BY <1>2, <1>5 DEF CatalogSound
<1>8. input'.kind = "route" /\ input'.id = id /\ input'.chain = chain
  BY <1>2 DEF judge
<1>9. Defects' = {blame(BadId \in named \cup {id}, "catalog_empty_identifier"),
                  blame(~(named \ {BadId} \subseteq DOMAIN catalog.targets),
                        "catalog_unknown_target_reference"),
                  blame(Cardinality(named) # Len(chain), "catalog_duplicate_chain_target")} \ {Ok}
  BY <1>7, <1>8 DEF Defects, CatalogDefects, ProcessDefects
<1> DEFINE ve == v(chain)
           short == Cardinality(named) # Len(chain)
           unknown == ~(named \ {BadId} \subseteq DOMAIN catalog.targets)
           bad == BadId \in named
<1>10. /\ ve = Ok => ~bad /\ ~unknown /\ ~short /\ Chain(catalog.targets, chain)
       /\ ve # Ok => \/ ve = "catalog_empty_identifier" /\ bad
                     \/ ve = "catalog_unknown_target_reference" /\ unknown
                     \/ ve = "catalog_duplicate_chain_target" /\ short
  <2>1. ve = Ok => /\ Chain(catalog.targets, chain) /\ ~bad
                   /\ named \subseteq DOMAIN catalog.targets /\ ~short
    BY <1>6, ValidateRoute, ZenonT(30)
  <2>2. ve # Ok => \/ ve = "catalog_empty_identifier" /\ bad
                   \/ ve = "catalog_unknown_target_reference" /\ unknown
                   \/ ve = "catalog_duplicate_chain_target" /\ short
    BY <1>6, ValidateRoute
  <2> HIDE DEF ve, bad, short
  <2> QED
    BY <2>1, <2>2
<1>11. Defects' = {blame(bad \/ id = BadId, "catalog_empty_identifier"),
                   blame(unknown, "catalog_unknown_target_reference"),
                   blame(short, "catalog_duplicate_chain_target")} \ {Ok}
  <2>1. blame(BadId \in named \cup {id}, "catalog_empty_identifier")
          = blame(bad \/ id = BadId, "catalog_empty_identifier")
    BY DEF blame
  <2> QED
    BY <1>9, <2>1
<1>12. e = IF id = BadId THEN "catalog_empty_identifier" ELSE ve
  BY <1>4
<1> HIDE DEF ve, bad, short, unknown, e, named
<1>13. (e = Ok => Defects' = {}) /\ (e # Ok => e \in Defects')
  BY <1>10, <1>11, <1>12 DEF blame, Ok
<1>14. DiagnosisIsTrue' /\ stage' \in {stage, "exited"} /\ (e # Ok => stage' = "exited")
  BY <1>2, <1>3, <1>13, Judged DEF e
<1>15. CatalogSound(catalog', stage')
  <2>1. CASE e # Ok
    BY <1>2, <1>14, <1>5, <2>1 DEF CatalogSound, Early, e
  <2>2. CASE e = Ok
    <3> DEFINE routes == more(id, chain)
    <3>1. catalog' = [targets |-> catalog.targets, routes |-> routes,
                      default_route |-> catalog.default_route]
      BY <1>2, <1>5, <2>2 DEF CatalogSound, e
    <3>2. id # BadId /\ Chain(catalog.targets, chain)
      BY <1>10, <1>12, <2>2 DEF Ok
    <3>3. BadId \notin DOMAIN routes
      BY <1>5, <3>2 DEF CatalogSound
    <3>4. \A r \in DOMAIN routes : Chain(catalog.targets, routes[r])
      BY <1>5, <3>2 DEF CatalogSound
    <3> HIDE DEF routes
    <3> QED
      BY <1>3, <1>5, <1>14, <3>1, <3>3, <3>4 DEF CatalogSound, Early
  <2> QED
    BY <2>1, <2>2
<1>16. /\ stage' \in StageNames /\ stage' \in Unlimited /\ stage' # "provider"
       /\ stage' \notin {"router", "bind", "listening"}
  BY <1>3, <1>14 DEF StageNames, Unlimited, Early
<1> QED
  BY <1>14, <1>15, <1>16 DEF StartupInv, LimitsSound, VendorSound, OverrideIsFirst

(* The default route is one of those that were taken. *)
LEMMA RoutesDoneInv == ASSUME StartupInv, RoutesDone PROVE StartupInv'
<1>1. PICK id \in RouteIds \cup {BadId} :
        /\ judge([kind |-> "default_route", id |-> id],
                 default_route_error(catalog.routes, id), After(stage))
        /\ catalog' = IF default_route_error(catalog.routes, id) = Ok
                      THEN [catalog EXCEPT !.default_route = id] ELSE catalog
  BY DEF RoutesDone
<1>2. stage = "routes" /\ UNCHANGED <<limits, vendor>>
  BY DEF RoutesDone
<1> DEFINE e == default_route_error(catalog.routes, id)
<1>3. e = IF DOMAIN catalog.routes = {} THEN "catalog_missing_default_route"
          ELSE IF id = BadId THEN "catalog_empty_identifier"
          ELSE IF id \notin DOMAIN catalog.routes THEN "catalog_missing_default_route" ELSE Ok
  BY FirstOfThree DEF default_route_error, require, Ok
<1>4. CatalogSound(catalog, "routes")
  BY <1>2 DEF StartupInv
<1>5. input'.kind = "default_route" /\ input'.id = id /\ catalog'.routes = catalog.routes
  BY <1>1, <1>4 DEF judge, CatalogSound
<1>6. Defects' = {blame(id = BadId, "catalog_empty_identifier"),
                  blame(id \notin DOMAIN catalog.routes, "catalog_missing_default_route")} \ {Ok}
  BY <1>5 DEF Defects, CatalogDefects, ProcessDefects
<1>7. (e = Ok => Defects' = {} /\ id \in DOMAIN catalog.routes) /\ (e # Ok => e \in Defects')
  BY <1>3, <1>6 DEF blame, Ok
<1>8. After(stage) = "limits"
  BY <1>2, StageOrder
<1> HIDE DEF e
<1>9. DiagnosisIsTrue' /\ stage' = IF e = Ok THEN "limits" ELSE "exited"
  BY <1>1, <1>7, <1>8, Judged DEF e
<1>10. catalog' = IF e = Ok THEN [targets |-> catalog.targets, routes |-> catalog.routes,
                                  default_route |-> id]
                  ELSE catalog
  BY <1>1, <1>4 DEF CatalogSound, e
<1>11. CatalogSound(catalog', stage')
  BY <1>4, <1>7, <1>9, <1>10 DEF CatalogSound, Early
<1>12. /\ stage' \in StageNames /\ stage' \in Unlimited /\ stage' # "provider"
       /\ stage' \notin {"router", "bind", "listening"}
  BY <1>9 DEF StageNames, Unlimited, Early
<1> QED
  BY <1>9, <1>11, <1>12 DEF StartupInv, LimitsSound, VendorSound, OverrideIsFirst

(* The limits of the file are within their bounds, or the process exits. *)
LEMMA RawLimitsInv == ASSUME StartupInv, RawLimits PROVE StartupInv'
<1>1. PICK name \in Tuned : \E value \in Edges(name) \cup {Absent} :
        /\ judge([kind |-> "limits", name |-> name, value |-> value],
                 from_raw_error([NoLimits EXCEPT ![name] = value]), After(stage))
        /\ limits' = from_raw([NoLimits EXCEPT ![name] = value])
  BY DEF RawLimits
<1>2. PICK value \in Edges(name) \cup {Absent} :
        /\ judge([kind |-> "limits", name |-> name, value |-> value],
                 from_raw_error([NoLimits EXCEPT ![name] = value]), After(stage))
        /\ limits' = from_raw([NoLimits EXCEPT ![name] = value])
  BY <1>1
<1>3. stage = "limits" /\ UNCHANGED <<catalog, vendor>>
  BY DEF RawLimits
<1> DEFINE raw == [NoLimits EXCEPT ![name] = value]
           e == from_raw_error(raw)
<1>4. name \in LimitNames /\ value \in Nat \cup {Absent}
  BY StartupAssumption DEF Edges
<1>5. \A n \in LimitNames : limits'[n] = IF n = name /\ value # Absent THEN value
                                         ELSE Bounds[n].default
  BY <1>2, <1>4 DEF from_raw, NoLimits
<1>6. from_raw_error(raw) =
        IF \A n \in LimitNames : check_bound(Bounds[n], limits'[n]) THEN Ok ELSE "invalid_limit"
  BY <1>2 DEF from_raw_error, require
<1>7. \A n \in LimitNames : n # name \/ value = Absent => check_bound(Bounds[n], limits'[n])
  BY <1>5, BoundsAreIntervals DEF check_bound
<1>8. value # Absent => (OutOfBounds(Bounds[name], value) <=> ~check_bound(Bounds[name], value))
  BY <1>4, CheckBound
<1>9. e = IF value # Absent /\ OutOfBounds(Bounds[name], value) THEN "invalid_limit" ELSE Ok
  BY <1>4, <1>5, <1>6, <1>7, <1>8
<1>10. input'.kind = "limits" /\ input'.name = name /\ input'.value = value
  BY <1>2 DEF judge
<1>11. Defects' = {blame(value # Absent /\ OutOfBounds(Bounds[name], value), "invalid_limit")}
                    \ {Ok}
  BY <1>10 DEF Defects, CatalogDefects, ProcessDefects
<1>12. (e = Ok => Defects' = {}) /\ (e # Ok => e \in Defects')
  BY <1>9, <1>11 DEF blame, Ok
<1>13. e = Ok => InBounds(limits')
  BY <1>6 DEF InBounds, check_bound, Ok
<1>14. After(stage) = "overrides"
  BY <1>3, StageOrder
<1> HIDE DEF e
<1>15. DiagnosisIsTrue' /\ stage' = IF e = Ok THEN "overrides" ELSE "exited"
  BY <1>2, <1>12, <1>14, Judged DEF e
<1>16. CatalogSound(catalog', stage')
  BY <1>3, <1>15 DEF StartupInv, CatalogSound, Early
<1>17. LimitsSound(limits', catalog', stage')
  BY <1>13, <1>15 DEF LimitsSound, Unlimited
<1>18. /\ stage' \in StageNames /\ stage' # "provider"
       /\ stage' \notin {"router", "bind", "listening"}
  BY <1>15 DEF StageNames, Unlimited, Early
<1> QED
  BY <1>15, <1>16, <1>17, <1>18 DEF StartupInv, VendorSound, OverrideIsFirst

(* A limit that is overridden is the value of its first name, within its bound, and *)
(* the routes fit what results.                                                     *)
LEMMA EnvOverridesInv == ASSUME StartupInv, EnvOverrides PROVE StartupInv'
<1> DEFINE value(name) == {Absent, Malformed, Bounds[name].min, Bounds[name].max + 1}
           after(name, names) == apply_env_overrides(limits, OnlyOne(name, names))
           bound_error(name, names) == apply_env_error(limits, OnlyOne(name, names))
           err(name, names) ==
             IF bound_error(name, names) # Ok THEN bound_error(name, names)
             ELSE apply_limit_to_routes_error(catalog.routes,
                                              after(name, names).max_fallback_targets)
           outcome(name, names) ==
             /\ judge([kind |-> "overrides", name |-> name, names |-> names,
                       before |-> limits[name]], err(name, names), After(stage))
             /\ limits' = IF err(name, names) = Ok THEN after(name, names) ELSE limits
<1>1. PICK name \in Tuned : \E names \in [1 .. Aliases(name) -> value(name)] :
        outcome(name, names)
  BY DEF EnvOverrides, OnlyOne
<1>2. PICK names \in [1 .. Aliases(name) -> value(name)] : outcome(name, names)
  BY <1>1
<1>3. stage = "overrides" /\ UNCHANGED <<catalog, vendor>>
  BY DEF EnvOverrides
<1>4. name \in LimitNames /\ DOMAIN names = 1 .. Aliases(name) /\ Aliases(name) \in Nat
  BY StartupAssumption, AliasesType
<1> DEFINE new == after(name, names)
           e == err(name, names)
           before == limits[name]
           bound == Bounds[name]
           b_error == bound_error(name, names)
<1>5. InBounds(limits) /\ CatalogSound(catalog, "overrides")
  BY <1>3 DEF StartupInv, LimitsSound, Unlimited, Early
<1>6. new[name] = Layered(names, before) /\ \A n \in LimitNames \ {name} : new[n] = limits[n]
  BY <1>4, Overriding
<1>7. new[name] \in Nat \cup {Malformed}
  <2>1. before \in Nat /\ bound.min \in Nat /\ bound.max \in Nat
    BY <1>4, <1>5, BoundsAreIntervals DEF InBounds
  <2>2. \A i \in 1 .. Aliases(name) : names[i] \in Nat \cup {Malformed, Absent}
    BY <2>1
  <2>3. Layered(names, before) = IF env_u64(names) = Absent THEN before ELSE env_u64(names)
    BY <1>4, EnvLookup
  <2>4. env_u64(names) # Absent => env_u64(names) \in {names[i] : i \in 1 .. Aliases(name)}
    BY <1>4, EnvLookup
  <2> QED
    BY <1>6, <2>1, <2>2, <2>3, <2>4
<1>8. b_error = IF OutOfBounds(bound, new[name]) THEN "invalid_limit" ELSE Ok
  <2>1. b_error = IF \A n \in LimitNames : check_bound(Bounds[n], new[n]) THEN Ok
                  ELSE "invalid_limit"
    BY DEF apply_env_error, require
  <2>2. \A n \in LimitNames \ {name} : check_bound(Bounds[n], new[n])
    BY <1>5, <1>6 DEF InBounds, check_bound
  <2>3. OutOfBounds(bound, new[name]) <=> ~check_bound(bound, new[name])
    BY <1>4, <1>7, CheckBound
  <2> HIDE DEF new, b_error, bound
  <2> QED
    BY <1>4, <2>1, <2>2, <2>3 DEF bound
<1>9. ~OutOfBounds(bound, new[name]) => InBounds(new)
  <2>1. OutOfBounds(bound, new[name]) <=> ~check_bound(bound, new[name])
    BY <1>4, <1>7, CheckBound
  <2>2. \A n \in LimitNames \ {name} : new[n] \in Bounds[n].min .. Bounds[n].max
    BY <1>5, <1>6 DEF InBounds
  <2> HIDE DEF new
  <2> QED
    BY <1>4, <2>1, <2>2 DEF InBounds, check_bound
<1> DEFINE fallbacks == new.max_fallback_targets
           long(m) == \E r \in DOMAIN catalog.routes : Len(catalog.routes[r]) - 1 > m
<1>10. InBounds(new) => fallbacks \in Nat
  BY BoundsAreIntervals DEF InBounds
<1>11. fallbacks \in Nat =>
         apply_limit_to_routes_error(catalog.routes, fallbacks)
           = IF long(fallbacks) THEN "catalog_fallback_limit" ELSE Ok
  <2>1. \A r \in DOMAIN catalog.routes : Len(catalog.routes[r]) \in Nat
    BY <1>5, ChainIsASeq DEF CatalogSound
  <2> HIDE DEF fallbacks
  <2> QED
    BY <2>1 DEF apply_limit_to_routes_error, require
<1>12. input'.kind = "overrides" /\ input'.name = name /\ input'.names = names
         /\ input'.before = before
  BY <1>2 DEF judge
<1>13. name # "max_fallback_targets" => limits'.max_fallback_targets = fallbacks
  BY <1>2, <1>6, BoundsAreIntervals
<1>14. Defects' = {blame(OutOfBounds(bound, new[name]), "invalid_limit"),
                   blame(\E r \in DOMAIN catalog.routes :
                           fallbacks # Malformed /\ Len(Tail(catalog.routes[r])) > fallbacks,
                         "catalog_fallback_limit")} \ {Ok}
  <2> DEFINE given == IF input'.name = "max_fallback_targets"
                      THEN Layered(input'.names, input'.before)
                      ELSE limits'.max_fallback_targets
  <2>1. Defects' = {blame(OutOfBounds(Bounds[input'.name],
                                      Layered(input'.names, input'.before)), "invalid_limit"),
                    blame(\E r \in DOMAIN catalog'.routes :
                            given # Malformed /\ Len(Tail(catalog'.routes[r])) > given,
                          "catalog_fallback_limit")} \ {Ok}
    BY <1>12 DEF Defects, CatalogDefects, ProcessDefects
  <2>2. given = fallbacks
    BY <1>6, <1>12, <1>13
  <2> HIDE DEF given, new
  <2> QED
    BY <1>3, <1>6, <1>12, <2>1, <2>2
<1>15. fallbacks \in Nat =>
         ((\E r \in DOMAIN catalog.routes :
             fallbacks # Malformed /\ Len(Tail(catalog.routes[r])) > fallbacks)
            <=> long(fallbacks))
  <2>1. \A r \in DOMAIN catalog.routes :
          Len(Tail(catalog.routes[r])) = Len(catalog.routes[r]) - 1
    BY <1>5, ChainIsASeq DEF CatalogSound
  <2> HIDE DEF fallbacks
  <2> QED
    BY <2>1, SettingsAssumption
<1> DEFINE out == OutOfBounds(bound, new[name])
           too_long == \E r \in DOMAIN catalog.routes :
                          fallbacks # Malformed /\ Len(Tail(catalog.routes[r])) > fallbacks
<1>16. /\ ~out => (e = IF too_long THEN "catalog_fallback_limit" ELSE Ok)
       /\ out => e = "invalid_limit"
  <2>1. e = IF b_error # Ok THEN b_error
            ELSE apply_limit_to_routes_error(catalog.routes, fallbacks)
    OBVIOUS
  <2> DEFINE r_error == apply_limit_to_routes_error(catalog.routes, fallbacks)
  <2>2. ~out => r_error = IF too_long THEN "catalog_fallback_limit" ELSE Ok
    BY <1>9, <1>10, <1>11, <1>15
  <2>3. b_error = IF out THEN "invalid_limit" ELSE Ok
    BY <1>8
  <2> HIDE DEF e, b_error, out, too_long, r_error
  <2> QED
    BY <2>1, <2>2, <2>3 DEF Ok, r_error
<1>17. Defects' = {blame(out, "invalid_limit"), blame(too_long, "catalog_fallback_limit")} \ {Ok}
  BY <1>14
<1>18. e = Ok => /\ InBounds(new) /\ limits' = new
                 /\ \A r \in DOMAIN catalog.routes : Len(catalog.routes[r]) - 1 <= fallbacks
  <2> SUFFICES ASSUME e = Ok PROVE /\ InBounds(new) /\ limits' = new
                 /\ \A r \in DOMAIN catalog.routes : Len(catalog.routes[r]) - 1 <= fallbacks
    OBVIOUS
  <2>1. ~out /\ ~too_long
    <3> HIDE DEF e, out, too_long
    <3> QED
      BY <1>16 DEF Ok
  <2>2. InBounds(new) /\ fallbacks \in Nat /\ limits' = new
    BY <1>2, <1>9, <1>10, <2>1
  <2>3. ~long(fallbacks)
    BY <1>15, <2>1, <2>2
  <2>4. \A r \in DOMAIN catalog.routes : Len(catalog.routes[r]) \in Nat
    BY <1>5, ChainIsASeq DEF CatalogSound
  <2> HIDE DEF fallbacks, e, new
  <2> QED
    BY <2>2, <2>3, <2>4
<1>19. After(stage) = "provider"
  BY <1>3, StageOrder
<1>20. judge([kind |-> "overrides", name |-> name, names |-> names, before |-> before],
             e, After(stage))
  BY <1>2
<1> HIDE DEF e, new, out, too_long, fallbacks, before
<1>21. (e = Ok => Defects' = {}) /\ (e # Ok => e \in Defects')
  BY <1>16, <1>17 DEF blame, Ok
<1>22. DiagnosisIsTrue' /\ stage' = IF e = Ok THEN "provider" ELSE "exited"
  BY <1>19, <1>20, <1>21, Judged
<1>23. CatalogSound(catalog', stage')
  BY <1>3, <1>5, <1>22 DEF CatalogSound, Early
<1>24. LimitsSound(limits', catalog', stage')
  BY <1>3, <1>18, <1>22 DEF LimitsSound, Unlimited, fallbacks
<1>25. OverrideIsFirst'
  BY <1>6, <1>12, <1>18, <1>22 DEF OverrideIsFirst
<1>26. stage' \in StageNames /\ stage' \notin {"router", "bind", "listening"}
  BY <1>22 DEF StageNames, Unlimited
<1> QED
  BY <1>22, <1>23, <1>24, <1>25, <1>26 DEF StartupInv, VendorSound

(* Every variable of a group has its default or one of its other values. *)
LEMMA OneAwayFields ==
    ASSUME NEW default, NEW others, DOMAIN others \subseteq DOMAIN default,
           NEW env \in OneAway(default, others)
    PROVE  \A f \in DOMAIN default :
              env[f] = default[f] \/ (f \in DOMAIN others /\ env[f] \in others[f])
<1>1. CASE env = default
  BY <1>1
<1>2. CASE \E f \in DOMAIN others : \E v \in others[f] : env = [default EXCEPT ![f] = v]
  <2>1. PICK f \in DOMAIN others : \E v \in others[f] : env = [default EXCEPT ![f] = v]
    BY <1>2
  <2>2. PICK v \in others[f] : env = [default EXCEPT ![f] = v]
    BY <2>1
  <2> QED
    BY <2>2
<1> QED
  BY <1>1, <1>2 DEF OneAway

(* The credentials and the URL of the provider. *)
LEMMA ProviderInv == ASSUME StartupInv, Provider PROVE StartupInv'
<1>1. PICK env \in ProviderEnvs :
        judge([kind |-> "provider", env |-> env], provider_error(env), After(stage))
  BY DEF Provider
<1> DEFINE e == provider_error(env)
<1>2. e = IF env.key # "set" THEN "missing_credential"
          ELSE IF env.base_url \notin {"absent", "plain"} THEN "invalid_provider_url" ELSE Ok
  BY FirstOfTwo DEF provider_error, require, Ok
<1>3. input'.kind = "provider" /\ input'.env = env
  BY <1>1 DEF judge
<1>4. Defects' = {blame(env.key # "set", "missing_credential"),
                  blame(env.base_url \notin {"absent", "plain"}, "invalid_provider_url")} \ {Ok}
  BY <1>3 DEF Defects, CatalogDefects, ProcessDefects
<1>5. (e = Ok => Defects' = {}) /\ (e # Ok => e \in Defects')
  BY <1>2, <1>4 DEF blame, Ok
<1> HIDE DEF e
<1>6. DiagnosisIsTrue' /\ stage' \in {After(stage), "exited"}
  BY <1>1, <1>5, Judged, StageOrder DEF Provider, e
<1> QED
  BY <1>6, Onward DEF Provider

(* A port that is read from the environment or left at its default. *)
LEMMA PortIsRead ==
    ASSUME NEW last \in Nat, NEW usual \in 0 .. last,
           NEW p \in {Absent, Malformed, 0, last, last + 1},
           NEW port, port = IF p = Absent THEN usual ELSE p
    PROVE  /\ (port = Malformed) <=> (p = Malformed)
           /\ port # Malformed => ((port \notin 0 .. last) <=> (p = last + 1))
<1>1. CASE p = Absent
  BY <1>1, SettingsAssumption, SMT
<1>2. CASE p = Malformed
  BY <1>2, SettingsAssumption, SMT
<1>3. CASE p \in {0, last}
  BY <1>3, SettingsAssumption, SMT
<1>4. CASE p = last + 1
  BY <1>4, SettingsAssumption, SMT
<1>5. p = Absent \/ p = Malformed \/ p \in {0, last} \/ p = last + 1
  BY SMT
<1> QED
  BY <1>1, <1>2, <1>3, <1>4, <1>5, Zenon

(* A grace period that is read from the environment or left at its default. *)
LEMMA GraceIsRead ==
    ASSUME NEW g \in {Absent, Malformed, 0, 1, 600, 601}
    PROVE  ~check_bound(SHUTDOWN_TIMEOUT_SECS,
                        IF g = Absent THEN SHUTDOWN_TIMEOUT_SECS.default ELSE g)
             <=> g \in {Malformed, 0, 601}
<1>1. CASE g = Absent
  BY <1>1, SettingsAssumption, SMT DEF check_bound, SHUTDOWN_TIMEOUT_SECS, LimitBound
<1>2. CASE g = Malformed
  BY <1>2, SettingsAssumption, SMT DEF check_bound, SHUTDOWN_TIMEOUT_SECS, LimitBound
<1>3. CASE g \in {0, 1, 600, 601}
  BY <1>3, SettingsAssumption, SMT DEF check_bound, SHUTDOWN_TIMEOUT_SECS, LimitBound
<1> QED
  BY <1>1, <1>2, <1>3, SMT

(* A number of the pool is refused exactly if it is malformed or outside its bounds. *)
LEMMA PoolBound ==
    ASSUME NEW lo \in Nat, NEW hi \in Nat, lo <= hi,
           NEW v \in {Absent, Malformed, lo - 1, lo, hi, hi + 1}
    PROVE  ~pool_bound(v, lo, hi) <=> v \in {Malformed, lo - 1, hi + 1}
<1>1. CASE v = Absent
  BY <1>1, SettingsAssumption, SMT DEF pool_bound
<1>2. CASE v = Malformed
  BY <1>2, SettingsAssumption, SMT DEF pool_bound
<1>3. CASE v \in {lo - 1, lo, hi, hi + 1}
  BY <1>3, SettingsAssumption, SMT DEF pool_bound
<1> QED
  BY <1>1, <1>2, <1>3, SMT

(* The address and the grace period of the server. *)
LEMMA ServerInv == ASSUME StartupInv, Server PROVE StartupInv'
<1>1. PICK env \in ServerEnvs :
        judge([kind |-> "server", env |-> env], server_error(env), After(stage))
  BY DEF Server
<1> DEFINE e == server_error(env)
           port == IF env.port = Absent THEN 3000 ELSE env.port
           grace == IF env.grace = Absent THEN SHUTDOWN_TIMEOUT_SECS.default ELSE env.grace
<1>2. /\ env.host \in {"absent", "blank", "no_address"}
      /\ env.port \in {Absent, Malformed, 0, 65535, 65536}
      /\ env.grace \in {Absent, Malformed, 0, 1, 600, 601}
  <2> DEFINE default == [host |-> "absent", port |-> Absent, grace |-> Absent]
             others == [host |-> {"blank", "no_address"}, port |-> {Malformed, 0, 65535, 65536},
                        grace |-> {Malformed, 0, 1, 600, 601}]
  <2>1. env \in OneAway(default, others)
    BY DEF ServerEnvs
  <2>2. /\ DOMAIN default = {"host", "port", "grace"} /\ DOMAIN others = {"host", "port", "grace"}
        /\ default.host = "absent" /\ default.port = Absent /\ default.grace = Absent
        /\ others.host = {"blank", "no_address"} /\ others.port = {Malformed, 0, 65535, 65536}
        /\ others.grace = {Malformed, 0, 1, 600, 601}
    OBVIOUS
  <2> HIDE DEF default, others
  <2>3. \A f \in {"host", "port", "grace"} : env[f] = default[f] \/ env[f] \in others[f]
    BY <2>1, <2>2, OneAwayFields
  <2> QED
    BY <2>2, <2>3
<1> DEFINE a_number == port # Malformed
           a_port == port \in 0 .. 65535
           bounded == check_bound(SHUTDOWN_TIMEOUT_SECS, grace)
<1>3. e = IF env.host = "blank" THEN "invalid_bind_address"
          ELSE IF ~a_number THEN "invalid_limit"
          ELSE IF ~a_port THEN "invalid_bind_address"
          ELSE IF env.host = "no_address" THEN "invalid_bind_address"
          ELSE IF ~bounded THEN "invalid_limit" ELSE Ok
  <2> DEFINE a == require(env.host # "blank", "invalid_bind_address")
             b == require(a_number, "invalid_limit")
             c == require(a_port, "invalid_bind_address")
             d == require(env.host # "no_address", "invalid_bind_address")
             f == require(bounded, "invalid_limit")
  <2>1. e = first_error(<<a, b, c, d, f>>)
    BY DEF server_error
  <2> HIDE DEF a_number, a_port, bounded, e
  <2>2. /\ a = IF env.host = "blank" THEN "invalid_bind_address" ELSE Ok
        /\ b = IF a_number THEN Ok ELSE "invalid_limit"
        /\ c = IF a_port THEN Ok ELSE "invalid_bind_address"
        /\ d = IF env.host = "no_address" THEN "invalid_bind_address" ELSE Ok
        /\ f = IF bounded THEN Ok ELSE "invalid_limit"
    BY DEF require
  <2> HIDE DEF a, b, c, d, f
  <2>3. e = IF a # Ok THEN a ELSE IF b # Ok THEN b ELSE IF c # Ok THEN c
            ELSE IF d # Ok THEN d ELSE f
    BY <2>1, FirstOfFive
  <2> QED
    BY <2>2, <2>3 DEF Ok
<1>4. input'.kind = "server" /\ input'.env = env
  BY <1>1 DEF judge
<1> DEFINE limit_fault == Malformed \in {env.port, env.grace} \/ env.grace \in {0, 601}
           address_fault == env.host # "absent" \/ env.port = 65536
<1>5. Defects' = {blame(limit_fault, "invalid_limit"),
                  blame(address_fault, "invalid_bind_address")} \ {Ok}
  BY <1>4 DEF Defects, CatalogDefects, ProcessDefects
<1> DEFINE no_number == env.port = Malformed
           no_port == env.port = 65536
           no_grace == env.grace \in {Malformed, 0, 601}
<1>6. /\ ~a_number <=> no_number
      /\ a_number => (~a_port <=> no_port)
  <2> DEFINE last == 65535
             usual == 3000
             p == env.port
  <2>1. /\ last \in Nat /\ usual \in 0 .. last /\ last + 1 = 65536
        /\ p \in {Absent, Malformed, 0, last, last + 1}
    BY <1>2, SMT
  <2>2. port = IF p = Absent THEN usual ELSE p
    OBVIOUS
  <2>3. a_port <=> port \in 0 .. last
    OBVIOUS
  <2>4. no_port <=> p = last + 1
    BY <2>1, SMT
  <2>5. no_number <=> p = Malformed
    OBVIOUS
  <2> HIDE DEF last, usual, p, port, a_port, no_port, no_number
  <2>6. /\ (port = Malformed) <=> (p = Malformed)
        /\ port # Malformed => ((port \notin 0 .. last) <=> (p = last + 1))
    BY <2>1, <2>2, PortIsRead, SMTT(30)
  <2> QED
    BY <2>3, <2>4, <2>5, <2>6, Zenon
<1>7. /\ ~bounded <=> no_grace
      /\ limit_fault <=> no_number \/ no_grace
      /\ address_fault <=> env.host # "absent" \/ no_port
  <2>1. ~bounded <=> no_grace
    BY <1>2, GraceIsRead, SMT
  <2>2. limit_fault <=> no_number \/ no_grace
    BY SMT
  <2>3. address_fault <=> env.host # "absent" \/ no_port
    BY SMT
  <2> HIDE DEF bounded, no_grace, limit_fault, no_number, no_port, address_fault
  <2> QED
    BY <2>1, <2>2, <2>3, Zenon
<1> HIDE DEF e, a_number, a_port, bounded, no_number, no_port, no_grace, limit_fault, address_fault
<1>8. (e = Ok => ~limit_fault /\ ~address_fault)
      /\ (e # Ok => \/ e = "invalid_limit" /\ limit_fault
                    \/ e = "invalid_bind_address" /\ address_fault)
  BY <1>2, <1>3, <1>6, <1>7 DEF Ok
<1>9. (e = Ok => Defects' = {}) /\ (e # Ok => e \in Defects')
  BY <1>5, <1>8 DEF blame, Ok
<1>10. DiagnosisIsTrue' /\ stage' \in {After(stage), "exited"}
  BY <1>1, <1>9, Judged, StageOrder DEF Server, e
<1> QED
  BY <1>10, Onward DEF Server

(* The settings of the database pool. *)
LEMMA DatabaseInv == ASSUME StartupInv, Database PROVE StartupInv'
<1>1. PICK env \in DatabaseEnvs :
        judge([kind |-> "database", env |-> env], database_error(env), After(stage))
  BY DEF Database
<1> DEFINE e == database_error(env)
<1>2. /\ env.url \in {"valid", "absent", "blank", "unparsable", "padded"}
      /\ env.max_connections \in {Absent, Malformed, 0, 1, 32, 33}
      /\ env.acquire_timeout_ms \in {Absent, Malformed, 99, 100, 60000, 60001}
      /\ env.statement_timeout_ms \in {Absent, Malformed, 99, 100, 60000, 60001}
      /\ env.role \in {"absent", "blank", "lowercase", "other"}
  <2> DEFINE default == [url |-> "valid", max_connections |-> Absent,
                         acquire_timeout_ms |-> Absent, statement_timeout_ms |-> Absent,
                         role |-> "absent"]
             others == [url |-> {"absent", "blank", "unparsable", "padded"},
                        max_connections |-> {Malformed, 0, 1, 32, 33},
                        acquire_timeout_ms |-> {Malformed, 99, 100, 60000, 60001},
                        statement_timeout_ms |-> {Malformed, 99, 100, 60000, 60001},
                        role |-> {"blank", "lowercase", "other"}]
             names == {"url", "max_connections", "acquire_timeout_ms", "statement_timeout_ms",
                       "role"}
  <2>1. env \in OneAway(default, others)
    BY DEF DatabaseEnvs
  <2>2. /\ DOMAIN default = names /\ DOMAIN others = names
        /\ default.url = "valid" /\ default.max_connections = Absent
        /\ default.acquire_timeout_ms = Absent /\ default.statement_timeout_ms = Absent
        /\ default.role = "absent"
        /\ others.url = {"absent", "blank", "unparsable", "padded"}
        /\ others.max_connections = {Malformed, 0, 1, 32, 33}
        /\ others.acquire_timeout_ms = {Malformed, 99, 100, 60000, 60001}
        /\ others.statement_timeout_ms = {Malformed, 99, 100, 60000, 60001}
        /\ others.role = {"blank", "lowercase", "other"}
    OBVIOUS
  <2> HIDE DEF default, others
  <2>3. \A f \in names : env[f] = default[f] \/ env[f] \in others[f]
    BY <2>1, <2>2, OneAwayFields
  <2> QED
    BY <2>2, <2>3
<1> DEFINE few == pool_bound(env.max_connections, 1, 32)
           soon == pool_bound(env.acquire_timeout_ms, 100, 60000)
           quick == pool_bound(env.statement_timeout_ms, 100, 60000)
<1>3. e = IF env.url \in {"absent", "blank"} THEN "missing_database_url"
          ELSE IF env.url = "unparsable" THEN "invalid_database_url"
          ELSE IF ~few \/ ~soon \/ ~quick THEN "invalid_database_pool_bound"
          ELSE IF env.role \notin {"absent", "lowercase"} THEN "invalid_database_role"
          ELSE IF env.url = "padded" THEN "database_unavailable" ELSE Ok
  <2> DEFINE a == require(env.url \notin {"absent", "blank"}, "missing_database_url")
             b == require(env.url # "unparsable", "invalid_database_url")
             c == require(few, "invalid_database_pool_bound")
             d == require(soon, "invalid_database_pool_bound")
             f == require(quick, "invalid_database_pool_bound")
             g == require(env.role \in {"absent", "lowercase"}, "invalid_database_role")
             h == require(env.url # "padded", "database_unavailable")
  <2>1. e = first_error(<<a, b, c, d, f, g, h>>)
    BY DEF database_error
  <2>2. /\ a = IF env.url \in {"absent", "blank"} THEN "missing_database_url" ELSE Ok
        /\ b = IF env.url = "unparsable" THEN "invalid_database_url" ELSE Ok
        /\ c = IF few THEN Ok ELSE "invalid_database_pool_bound"
        /\ d = IF soon THEN Ok ELSE "invalid_database_pool_bound"
        /\ f = IF quick THEN Ok ELSE "invalid_database_pool_bound"
        /\ g = IF env.role \notin {"absent", "lowercase"} THEN "invalid_database_role" ELSE Ok
        /\ h = IF env.url = "padded" THEN "database_unavailable" ELSE Ok
    BY DEF require
  <2> HIDE DEF a, b, c, d, f, g, h, few, soon, quick, e
  <2>3. e = IF a # Ok THEN a ELSE IF b # Ok THEN b ELSE IF c # Ok THEN c
            ELSE IF d # Ok THEN d ELSE IF f # Ok THEN f ELSE IF g # Ok THEN g ELSE h
    BY <2>1, FirstOfSeven
  <2> QED
    BY <2>2, <2>3 DEF Ok
<1>4. input'.kind = "database" /\ input'.env = env
  BY <1>1 DEF judge
<1> DEFINE pool_fault == OutsidePool(env)
<1>5. Defects' = {blame(env.url \in {"absent", "blank"}, "missing_database_url"),
                  blame(env.url = "unparsable", "invalid_database_url"),
                  blame(env.url = "padded", "database_unavailable"),
                  blame(env.role \in {"blank", "other"}, "invalid_database_role"),
                  blame(pool_fault, "invalid_database_pool_bound")} \ {Ok}
  BY <1>4 DEF Defects, CatalogDefects, ProcessDefects
<1>6. pool_fault <=> ~few \/ ~soon \/ ~quick
  <2> DEFINE slow(ms) == ms \in {Malformed, 99, 60001}
             full(n) == n \in {Malformed, 0, 33}
  <2>1. ~few <=> full(env.max_connections)
    BY <1>2, PoolBound, SMT
  <2>2. ~soon <=> slow(env.acquire_timeout_ms)
    BY <1>2, PoolBound, SMT
  <2>3. ~quick <=> slow(env.statement_timeout_ms)
    BY <1>2, PoolBound, SMT
  <2>4. pool_fault <=> \/ full(env.max_connections) \/ slow(env.acquire_timeout_ms)
                       \/ slow(env.statement_timeout_ms)
    BY SMT DEF OutsidePool
  <2> HIDE DEF few, soon, quick, slow, full, pool_fault
  <2> QED
    BY <2>1, <2>2, <2>3, <2>4, Zenon
<1> HIDE DEF e, few, soon, quick, pool_fault
<1>7. (e = Ok => Defects' = {}) /\ (e # Ok => e \in Defects')
  BY <1>2, <1>3, <1>5, <1>6 DEF blame, Ok
<1>8. DiagnosisIsTrue' /\ stage' \in {After(stage), "exited"}
  BY <1>1, <1>7, Judged, StageOrder DEF Database, e
<1> QED
  BY <1>8, Onward DEF Database

(* The timeout of an attempt is at least a millisecond once the limits are set. *)
LEMMA ClientBuilds ==
    ASSUME StartupInv, stage \in {"http_client", "application"}, NEW built \in BOOLEAN
    PROVE  build_client_error(limits.max_attempt_timeout_ms, built)
             = IF built THEN Ok ELSE "http_client_construction"
<1>1. InBounds(limits)
  BY DEF StartupInv, LimitsSound, Unlimited, Early
<1>2. limits.max_attempt_timeout_ms # 0
  BY <1>1, BoundsAreIntervals DEF InBounds
<1> DEFINE a == require(limits.max_attempt_timeout_ms # 0, "invalid_limit")
           b == require(built, "http_client_construction")
<1>3. a = Ok /\ b = IF built THEN Ok ELSE "http_client_construction"
  BY <1>2 DEF require
<1>4. build_client_error(limits.max_attempt_timeout_ms, built) = first_error(<<a, b>>)
  BY DEF build_client_error
<1> HIDE DEF a, b
<1> QED
  BY <1>3, <1>4, FirstOfTwo

(* The HTTP client is built once to fail early. *)
LEMMA HttpClientInv == ASSUME StartupInv, HttpClient PROVE StartupInv'
<1>1. PICK built \in BOOLEAN :
        judge([kind |-> "client", built |-> built],
              build_client_error(limits.max_attempt_timeout_ms, built), After(stage))
  BY DEF HttpClient
<1> DEFINE e == build_client_error(limits.max_attempt_timeout_ms, built)
<1>2. e = IF built THEN Ok ELSE "http_client_construction"
  BY ClientBuilds DEF HttpClient
<1>3. input'.kind = "client" /\ input'.built = built
  BY <1>1 DEF judge
<1>4. Defects' = {blame(~built, "http_client_construction")} \ {Ok}
  BY <1>3 DEF Defects, CatalogDefects, ProcessDefects
<1> HIDE DEF e
<1>5. (e = Ok => Defects' = {}) /\ (e # Ok => e \in Defects')
  BY <1>2, <1>4 DEF blame, Ok
<1>6. DiagnosisIsTrue' /\ stage' \in {After(stage), "exited"}
  BY <1>1, <1>5, Judged, StageOrder DEF HttpClient, e
<1> QED
  BY <1>6, Onward DEF HttpClient

(* The executor gets the models and the prices of the targets that were validated. *)
LEMMA ApplicationInv == ASSUME StartupInv, Application PROVE StartupInv'
<1> DEFINE err(built) ==
             require(build_client_error(limits.max_attempt_timeout_ms, built) = Ok,
                     "invalid_configuration")
<1>1. PICK built \in BOOLEAN :
        /\ judge([kind |-> "application", built |-> built], err(built), After(stage))
        /\ vendor' = IF err(built) = Ok THEN from_settings(catalog.targets) ELSE vendor
  BY DEF Application
<1> DEFINE e == err(built)
<1>2. stage = "application" /\ UNCHANGED <<catalog, limits>>
  BY DEF Application
<1>3. e = IF built THEN Ok ELSE "invalid_configuration"
  BY <1>2, ClientBuilds DEF require, Ok
<1>4. input'.kind = "application" /\ input'.built = built
  BY <1>1 DEF judge
<1>5. Defects' = {blame(~built, "invalid_configuration")} \ {Ok}
  BY <1>4 DEF Defects, CatalogDefects, ProcessDefects
<1>6. After(stage) = "router"
  BY <1>2, StageOrder
<1> HIDE DEF e
<1>7. (e = Ok => Defects' = {}) /\ (e # Ok => e \in Defects')
  BY <1>3, <1>5 DEF blame, Ok
<1>8. DiagnosisIsTrue' /\ stage' = IF e = Ok THEN "router" ELSE "exited"
  BY <1>1, <1>6, <1>7, Judged DEF e
<1>9. CatalogSound(catalog', stage')
  BY <1>2, <1>8 DEF StartupInv, CatalogSound, Early
<1>10. LimitsSound(limits', catalog', stage')
  BY <1>2, <1>8 DEF StartupInv, LimitsSound, Unlimited, Early
<1>11. VendorSound(vendor', catalog', stage')
  BY <1>1, <1>2, <1>8 DEF VendorSound, e
<1>12. stage' \in StageNames /\ stage' # "provider"
  BY <1>8 DEF StageNames, Unlimited
<1> QED
  BY <1>8, <1>9, <1>10, <1>11, <1>12 DEF StartupInv, OverrideIsFirst

(* The router panics on a path it cannot serve. *)
LEMMA RouterInv == ASSUME StartupInv, Router PROVE StartupInv'
<1>1. PICK enabled \in BOOLEAN, path \in {"own", "relative", "taken"} :
        judge([kind |-> "router", enabled |-> enabled, path |-> path],
              require(enabled => path = "own", "panic"), After(stage))
  BY DEF Router
<1> DEFINE e == require(enabled => path = "own", "panic")
<1>2. input'.kind = "router" /\ input'.enabled = enabled /\ input'.path = path
  BY <1>1 DEF judge
<1>3. Defects' = {blame(enabled /\ path # "own", "panic")} \ {Ok}
  BY <1>2 DEF Defects, CatalogDefects, ProcessDefects
<1>4. (e = Ok => Defects' = {}) /\ (e # Ok => e \in Defects')
  BY <1>3 DEF require, blame, Ok
<1> HIDE DEF e
<1>5. DiagnosisIsTrue' /\ stage' \in {After(stage), "exited"}
  BY <1>1, <1>4, Judged, StageOrder DEF Router, e
<1> QED
  BY <1>5, Onward DEF Router

(* The listener is bound, or the process says why not. *)
LEMMA BindInv == ASSUME StartupInv, Bind PROVE StartupInv'
<1> DEFINE err(outcome) ==
             first_error(<< require(outcome # "in_use", "bind_address_in_use"),
                            require(outcome # "refused", "listen_failed") >>)
<1>1. PICK outcome \in {"bound", "in_use", "refused"} :
        judge([kind |-> "bind", outcome |-> outcome], err(outcome), After(stage))
  BY DEF Bind
<1> DEFINE e == err(outcome)
<1>2. e = IF outcome = "in_use" THEN "bind_address_in_use"
          ELSE IF outcome = "refused" THEN "listen_failed" ELSE Ok
  BY FirstOfTwo DEF require, Ok
<1>3. input'.kind = "bind" /\ input'.outcome = outcome
  BY <1>1 DEF judge
<1>4. Defects' = {blame(outcome = "in_use", "bind_address_in_use"),
                  blame(outcome = "refused", "listen_failed")} \ {Ok}
  BY <1>3 DEF Defects, CatalogDefects, ProcessDefects
<1> HIDE DEF e
<1>5. (e = Ok => Defects' = {}) /\ (e # Ok => e \in Defects')
  BY <1>2, <1>4 DEF blame, Ok
<1>6. DiagnosisIsTrue' /\ stage' \in {After(stage), "exited"}
  BY <1>1, <1>5, Judged, StageOrder DEF Bind, e
<1> QED
  BY <1>6, Onward DEF Bind

-----------------------------------------------------------------------------
(* The whole of startup *)

(* Startup begins with nothing validated and nothing to blame. *)
LEMMA StartupInit == ASSUME Init PROVE StartupInv
<1>1. stage = "config_file" /\ catalog = NoCatalog /\ input.kind = "none"
  BY DEF Init, Stages
<1>2. Defects = {}
  BY <1>1 DEF Defects, CatalogDefects, ProcessDefects
<1>3. CatalogSound(catalog, stage)
  <2>1. /\ catalog = [targets |-> <<>>, routes |-> <<>>, default_route |-> Absent]
        /\ DOMAIN catalog.targets = {} /\ DOMAIN catalog.routes = {}
    BY <1>1 DEF NoCatalog
  <2> QED
    BY <1>1, <2>1, FS_EmptySet DEF CatalogSound, Early
<1> QED
  BY <1>1, <1>2, <1>3
  DEF StartupInv, StageNames, Unlimited, Early, LimitsSound, VendorSound, DiagnosisIsTrue,
      InputMisnamed, OverrideIsFirst

(* Every stage keeps the invariant. *)
LEMMA StartupStep == ASSUME StartupInv, StartupNext PROVE StartupInv'
  BY LocateCatalogInv, DeserializeInv, ParseTargetInv, TargetsDoneInv, ParseRouteInv,
     RoutesDoneInv, RawLimitsInv, EnvOverridesInv, ProviderInv, ServerInv, HttpClientInv,
     DatabaseInv, ApplicationInv, RouterInv, BindInv, Zenon
  DEF StartupNext

(* A request leaves the configuration alone. *)
LEMMA StartupStutter == ASSUME StartupInv, UNCHANGED startupVars PROVE StartupInv'
<1>1. /\ stage' = stage /\ catalog' = catalog /\ limits' = limits /\ vendor' = vendor
      /\ category' = category /\ input' = input
  BY DEF startupVars
<1>2. DiagnosisIsTrue'
  <2>1. CatalogDefects' = CatalogDefects
    BY <1>1 DEF CatalogDefects
  <2>2. ProcessDefects' = ProcessDefects
    BY <1>1 DEF ProcessDefects
  <2> QED
    BY <1>1, <2>1, <2>2 DEF StartupInv, DiagnosisIsTrue, Defects, InputMisnamed
<1>3. OverrideIsFirst'
  BY <1>1 DEF StartupInv, OverrideIsFirst
<1> QED
  BY <1>1, <1>2, <1>3 DEF StartupInv

(* No stage follows the listening one. *)
LEMMA StartupEnds == ASSUME StartupNext PROVE stage # "listening"
  BY DEF StartupNext, LocateCatalog, Deserialize, ParseTarget, TargetsDone, ParseRoute, RoutesDone,
         RawLimits, EnvOverrides, Provider, Server, HttpClient, Database, Application, Router, Bind

(* What has been validated by the time the gateway listens is sound as a whole. *)
LEMMA ListeningFollows == ASSUME StartupInv PROVE ListeningIsValid
<1>1. ASSUME stage = "listening"
      PROVE  /\ \A n \in LimitNames : limits[n] >= Bounds[n].min /\ limits[n] <= Bounds[n].max
             /\ limits.max_fallback_targets \in Nat
             /\ catalog.default_route \in DOMAIN catalog.routes
  <2>1. InBounds(limits) /\ CatalogSound(catalog, "listening")
    BY <1>1 DEF StartupInv, LimitsSound, Unlimited, Early
  <2>2. \A n \in LimitNames : limits[n] >= Bounds[n].min /\ limits[n] <= Bounds[n].max
    BY <2>1, BoundsAreIntervals DEF InBounds
  <2>3. limits.max_fallback_targets \in Nat
    BY <2>1, BoundsAreIntervals DEF InBounds
  <2> QED
    BY <2>1, <2>2, <2>3 DEF CatalogSound, Early
<1>2. ASSUME stage = "listening", NEW r \in DOMAIN catalog.routes
      PROVE  LET chain == catalog.routes[r]
             IN  /\ {chain[i] : i \in DOMAIN chain} \subseteq DOMAIN catalog.targets
                 /\ Cardinality({chain[i] : i \in DOMAIN chain}) = Len(chain)
                 /\ Len(chain) <= 1 + limits.max_fallback_targets
  <2> DEFINE chain == catalog.routes[r]
  <2>1. Chain(catalog.targets, chain)
    BY DEF StartupInv, CatalogSound
  <2>2. Len(chain) - 1 <= limits.max_fallback_targets
    BY <1>2 DEF StartupInv, LimitsSound, Unlimited, Early
  <2> HIDE DEF chain
  <2>3. {chain[i] : i \in DOMAIN chain} \subseteq DOMAIN catalog.targets
    BY <2>1 DEF Chain
  <2>4. Len(chain) \in Nat /\ Cardinality({chain[i] : i \in DOMAIN chain}) = Len(chain)
    BY <2>1, ChainIsASeq
  <2>5. Len(chain) <= 1 + limits.max_fallback_targets
    BY <1>1, <1>2, <2>2, <2>4
  <2> QED
    BY <2>3, <2>4, <2>5 DEF chain
<1>3. OverrideIsFirst
  BY DEF StartupInv
<1> QED
  BY <1>1, <1>2, <1>3 DEF ListeningIsValid, OverrideIsFirst

-----------------------------------------------------------------------------
(* The inductive invariant of a request *)

\* The chain of the route that a body asks for.
Routed(body) ==
    catalog.routes[IF body.route = Absent THEN catalog.default_route ELSE body.route]

\* What is left of the plan: targets of the chain, the primary only if fallbacks are off.
PlanSound(plan, body) ==
    /\ plan \in Seq(DOMAIN catalog.targets) /\ plan # <<>>
    /\ \A i \in 1 .. Len(plan) :
          /\ plan[i] \in {Routed(body)[k] : k \in DOMAIN Routed(body)}
          /\ body.allow_fallback = FALSE => plan[i] = Routed(body)[1]

\* The tokens a call asks for suit the target and are the client's if it gave any.
TokensSound(plan, tokens, body) ==
    /\ tokens <= cap(Head(plan))
    /\ body.max_tokens # Absent => tokens = body.max_tokens

RequestShape ==
    /\ req = [pc |-> req.pc, body |-> req.body, plan |-> req.plan,
              max_tokens |-> req.max_tokens, calls |-> req.calls, answer |-> req.answer]
    /\ req.pc \in {"idle", "process", "hop", "answered"}
    /\ stage # "listening" => req.pc = "idle"
    /\ req.pc = "idle" => req = NoRequest
    /\ req.pc # "idle" => req.body \in Bodies

RequestProgress ==
    /\ req.pc = "process" =>
          req.calls = {} /\ req.answer = "none" /\ parse_ingress_request_ok(req.body)
    /\ req.pc = "hop" => /\ req.answer = "none" /\ ~ClientFault(req.body)
                         /\ PlanSound(req.plan, req.body)
                         /\ TokensSound(req.plan, req.max_tokens, req.body)

RequestInv ==
    /\ RequestShape
    /\ RequestProgress
    /\ ServedPlansResolve
    /\ TokenCapsHold
    /\ InvalidMeansInvalid

Inv == StartupInv /\ RequestInv

(* Where there is no request, nothing can be wrong with one. *)
LEMMA NothingServed == ASSUME req = NoRequest PROVE RequestInv
<1>1. /\ req.pc = "idle" /\ req.calls = {} /\ req.answer = "none"
      /\ req = [pc |-> req.pc, body |-> req.body, plan |-> req.plan,
                max_tokens |-> req.max_tokens, calls |-> req.calls, answer |-> req.answer]
  BY DEF NoRequest
<1> QED
  BY <1>1 DEF RequestInv, RequestShape, RequestProgress, ServedPlansResolve, TokenCapsHold,
              InvalidMeansInvalid

(* A plan of one target. *)
LEMMA PlanOfOne ==
    ASSUME NEW S, NEW t \in S
    PROVE  <<t>> \in Seq(S) /\ Len(<<t>>) = 1 /\ <<t>>[1] = t /\ Head(<<t>>) = t /\ <<t>> # <<>>
  OBVIOUS

(* A request that names a configured route, or none, has a chain. *)
LEMMA RouteOf ==
    ASSUME StartupInv, stage = "listening", NEW body,
           body.route = Absent \/ is_configured_route(body.route)
    PROVE  /\ Chain(catalog.targets, Routed(body))
           /\ Head(Routed(body)) = Routed(body)[1]
           /\ resolve_route(body) = IF body.allow_fallback = FALSE THEN <<Routed(body)[1]>>
                                    ELSE Routed(body)
           /\ PlanSound(resolve_route(body), body)
           /\ Head(resolve_route(body)) = Routed(body)[1]
           /\ Routed(body)[1] \in DOMAIN catalog.targets
<1> DEFINE chain == Routed(body)
           plan == resolve_route(body)
<1>1. Chain(catalog.targets, chain)
  BY DEF StartupInv, CatalogSound, Early, is_configured_route, Routed
<1>2. /\ chain \in Seq(DOMAIN catalog.targets) /\ Len(chain) \in Nat \ {0}
      /\ DOMAIN chain = 1 .. Len(chain) /\ chain # <<>> /\ Head(chain) = chain[1]
  BY <1>1, ChainIsASeq
<1>3. plan = IF body.allow_fallback = FALSE THEN <<Head(chain)>> ELSE chain
  BY DEF resolve_route, Routed
<1>4. chain[1] \in DOMAIN catalog.targets /\ 1 \in DOMAIN chain
  BY <1>2
<1> HIDE DEF plan, chain
<1>5. PlanSound(plan, body) /\ Head(plan) = chain[1]
  <2>1. CASE body.allow_fallback = FALSE
    <3> DEFINE primary == <<chain[1]>>
    <3>1. plan = primary
      BY <1>2, <1>3, <2>1
    <3>2. /\ primary \in Seq(DOMAIN catalog.targets) /\ primary # <<>> /\ Len(primary) = 1
          /\ primary[1] = chain[1] /\ Head(primary) = chain[1]
      BY <1>4, PlanOfOne
    <3> HIDE DEF primary
    <3> QED
      BY <1>4, <3>1, <3>2 DEF PlanSound, chain
  <2>2. CASE body.allow_fallback # FALSE
    <3>1. plan = chain
      BY <1>3, <2>2
    <3>2. \A i \in 1 .. Len(chain) : chain[i] \in {chain[k] : k \in DOMAIN chain}
      BY <1>2
    <3> QED
      BY <1>2, <2>2, <3>1, <3>2 DEF PlanSound, chain
  <2> QED
    BY <2>1, <2>2
<1> QED
  BY <1>1, <1>2, <1>3, <1>4, <1>5 DEF plan, chain

(* A body breaks a rule of the ingress exactly if it is refused there. *)
LEMMA IngressRules ==
    ASSUME StartupInv, stage = "listening", NEW body \in Bodies
    PROVE  parse_ingress_request_ok(body) <=>
             ~(\/ body.controls # "known" \/ body.parameters # "valid"
               \/ body.max_tokens = 0
               \/ body.prompt = Absent \/ body.metadata = Absent
               \/ body.prompt.blank \/ body.prompt.bytes > limits.max_prompt_chars
               \/ body.metadata > limits.max_metadata_bytes)
<1>1. /\ body.max_tokens \in Nat \cup {Absent} /\ body.metadata \in Nat \cup {Absent}
      /\ body.prompt # Absent => /\ body.prompt.blank \in BOOLEAN
                                 /\ body.prompt.chars \in Nat /\ body.prompt.bytes \in Nat
                                 /\ body.prompt.chars <= body.prompt.bytes
  BY ServingAssumption
<1>2. limits.max_prompt_chars \in Nat /\ limits.max_metadata_bytes \in Nat
  <2>1. InBounds(limits)
    BY DEF StartupInv, LimitsSound, Unlimited, Early
  <2>2. {"max_prompt_chars", "max_metadata_bytes"} \subseteq LimitNames
    BY DEF LimitNames, Bounds
  <2> QED
    BY <2>1, <2>2, BoundsAreIntervals DEF InBounds
<1>3. parse_parameters_ok(body) <=> body.parameters = "valid" /\ body.max_tokens # 0
  BY <1>1, SettingsAssumption DEF parse_parameters_ok
<1>4. body.prompt # Absent =>
        (validate_prompt_bounds(body)
           <=> ~body.prompt.blank /\ ~(body.prompt.bytes > limits.max_prompt_chars))
  BY <1>1, <1>2 DEF validate_prompt_bounds
<1>5. body.metadata # Absent =>
        (validate_metadata_size(body) <=> ~(body.metadata > limits.max_metadata_bytes))
  BY <1>1, <1>2 DEF validate_metadata_size
<1> DEFINE wordy == body.prompt.bytes > limits.max_prompt_chars
           heavy == body.metadata > limits.max_metadata_bytes
           zero == body.max_tokens = 0
           mute == body.prompt.blank
<1> HIDE DEF wordy, heavy, zero, mute
<1> QED
  BY <1>3, <1>4, <1>5, Zenon DEF parse_ingress_request_ok, wordy, heavy, zero, mute

-----------------------------------------------------------------------------
(* The steps of a request *)

Request(pc, body, plan, tokens, calls, answer) ==
    [pc |-> pc, body |-> body, plan |-> plan, max_tokens |-> tokens, calls |-> calls,
     answer |-> answer]

(* A request is answered. *)
LEMMA Answering ==
    ASSUME NEW pc, NEW body, NEW plan, NEW tokens, NEW calls, NEW answer,
           NEW r, r = Request(pc, body, plan, tokens, calls, answer),
           NEW a
    PROVE  answered(r, a) = Request("answered", body, plan, tokens, calls, a)
<1> DEFINE s == [r EXCEPT !.pc = "answered"]
<1>1. s = Request("answered", body, plan, tokens, calls, answer)
  BY DEF Request
<1>2. answered(r, a) = [s EXCEPT !.answer = a]
  BY DEF answered
<1> HIDE DEF s
<1> QED
  BY <1>1, <1>2 DEF Request

\* A call goes to the chain of the route, within the cap of its target.
CallSound(c, body) ==
    /\ c[1] \in {Routed(body)[k] : k \in DOMAIN Routed(body)}
    /\ body.allow_fallback = FALSE => c[1] = Routed(body)[1]
    /\ c[2] <= catalog.targets[c[1]].max_output_tokens
    /\ body.max_tokens # Absent => c[2] = body.max_tokens

(* What has to be shown of a request after a step. *)
LEMMA RequestAfter ==
    ASSUME stage = "listening", UNCHANGED startupVars, NEW body \in Bodies,
           NEW pc \in {"process", "hop", "answered"}, NEW plan, NEW tokens, NEW calls, NEW answer,
           req' = Request(pc, body, plan, tokens, calls, answer),
           answer \notin {"UnsupportedModel", "MissingPricing"},
           \A c \in calls : CallSound(c, body),
           answer = "InvalidRequest" => ClientFault(body),
           calls # {} => ~ClientFault(body),
           pc = "process" => /\ calls = {} /\ answer = "none"
                             /\ parse_ingress_request_ok(body),
           pc = "hop" => /\ answer = "none" /\ ~ClientFault(body) /\ PlanSound(plan, body)
                         /\ TokensSound(plan, tokens, body)
    PROVE  RequestInv'
<1>1. /\ stage' = "listening" /\ catalog' = catalog /\ limits' = limits
      /\ req'.pc = pc /\ req'.body = body /\ req'.plan = plan /\ req'.max_tokens = tokens
      /\ req'.calls = calls /\ req'.answer = answer
      /\ req' = [pc |-> req'.pc, body |-> req'.body, plan |-> req'.plan,
                 max_tokens |-> req'.max_tokens, calls |-> req'.calls, answer |-> req'.answer]
  BY DEF startupVars, Request
<1>2. ClientFault(req.body)' <=> ClientFault(body)
  BY <1>1 DEF ClientFault, cap
<1>3. parse_ingress_request_ok(req.body)' <=> parse_ingress_request_ok(body)
  BY <1>1 DEF parse_ingress_request_ok, parse_parameters_ok, validate_prompt_bounds,
              validate_metadata_size
<1>4. /\ PlanSound(req.plan, req.body)' <=> PlanSound(plan, body)
      /\ TokensSound(req.plan, req.max_tokens, req.body)' <=> TokensSound(plan, tokens, body)
  BY <1>1 DEF PlanSound, TokensSound, Routed, cap
<1>5. RequestShape'
  BY <1>1 DEF RequestShape
<1>6. RequestProgress'
  BY <1>1, <1>2, <1>3, <1>4 DEF RequestProgress
<1>7. ServedPlansResolve' /\ TokenCapsHold'
  BY <1>1 DEF ServedPlansResolve, TokenCapsHold, CallSound, Routed
<1>8. InvalidMeansInvalid'
  BY <1>1, <1>2 DEF InvalidMeansInvalid
<1> QED
  BY <1>5, <1>6, <1>7, <1>8 DEF RequestInv

(* A body is refused at the ingress only for a rule that it breaks. *)
LEMMA SubmitInv == ASSUME Inv, Submit PROVE RequestInv'
<1>1. PICK body \in Bodies :
        req' = LET r == [req EXCEPT !.body = body, !.pc = "process"]
               IN  IF parse_ingress_request_ok(body) THEN r ELSE answered(r, "InvalidRequest")
  BY DEF Submit
<1>2. stage = "listening" /\ UNCHANGED startupVars /\ req = NoRequest
  BY DEF Submit, Inv, RequestInv, RequestShape
<1> DEFINE taken == [req EXCEPT !.body = body, !.pc = "process"]
<1>3. req = Request("idle", Absent, <<>>, 0, {}, "none")
  BY <1>2 DEF NoRequest, Request
<1>4. taken = Request("process", body, <<>>, 0, {}, "none")
  <2> DEFINE r == [req EXCEPT !.body = body]
  <2>1. req = Request("idle", req.body, req.plan, req.max_tokens, req.calls, "none")
    BY <1>3 DEF Request
  <2>2. taken = [r EXCEPT !.pc = "process"]
    OBVIOUS
  <2>3. r = Request("idle", body, req.plan, req.max_tokens, req.calls, "none")
    BY <2>1 DEF Request
  <2> HIDE DEF r, taken
  <2>4. taken = Request("process", body, req.plan, req.max_tokens, req.calls, "none")
    BY <2>2, <2>3 DEF Request
  <2> QED
    BY <1>3, <2>4 DEF Request
<1> HIDE DEF taken
<1>5. answered(taken, "InvalidRequest") = Request("answered", body, <<>>, 0, {}, "InvalidRequest")
  BY <1>4, Answering
<1>6. CASE parse_ingress_request_ok(body)
  <2>1. req' = Request("process", body, <<>>, 0, {}, "none")
    BY <1>1, <1>4, <1>6 DEF taken
  <2> QED
    BY <1>2, <1>6, <2>1, RequestAfter
<1>7. CASE ~parse_ingress_request_ok(body)
  <2>1. req' = Request("answered", body, <<>>, 0, {}, "InvalidRequest")
    BY <1>1, <1>5, <1>7 DEF taken
  <2>2. ClientFault(body)
    BY <1>2, <1>7, IngressRules, Zenon DEF Inv, ClientFault
  <2> QED
    BY <1>2, <2>1, <2>2, RequestAfter
<1> QED
  BY <1>6, <1>7

(* A request that enters the hops breaks no rule, and its plan is its chain. *)
LEMMA ProcessRequestInv == ASSUME Inv, ProcessRequest PROVE RequestInv'
<1> DEFINE body == req.body
           configured == body.route = Absent \/ is_configured_route(body.route)
           plan == resolve_route(body)
           over == configured /\ body.max_tokens # Absent /\ body.max_tokens > cap(Head(plan))
           tokens == IF body.max_tokens = Absent THEN cap(Head(plan)) ELSE body.max_tokens
<1>1. /\ req.pc = "process" /\ UNCHANGED startupVars
      /\ \/ req' = answered(req, "DeadlineExceeded")
         \/ (~configured \/ over) /\ req' = answered(req, "InvalidRequest")
         \/ /\ configured /\ ~over
            /\ req' = [req EXCEPT !.pc = "hop", !.plan = plan, !.max_tokens = tokens]
  BY DEF ProcessRequest
<1>2. /\ StartupInv /\ stage = "listening" /\ body \in Bodies
      /\ req = Request("process", body, req.plan, req.max_tokens, {}, "none")
      /\ parse_ingress_request_ok(body)
  BY <1>1 DEF Inv, RequestInv, RequestShape, RequestProgress, Request
<1>3. \A a : answered(req, a) = Request("answered", body, req.plan, req.max_tokens, {}, a)
  BY <1>2, Answering
<1>11. [req EXCEPT !.pc = "hop", !.plan = plan, !.max_tokens = tokens]
         = Request("hop", body, plan, tokens, {}, "none")
  <2> DEFINE r == [req EXCEPT !.pc = "hop"]
             planned == [r EXCEPT !.plan = plan]
  <2>1. [req EXCEPT !.pc = "hop", !.plan = plan, !.max_tokens = tokens]
          = [planned EXCEPT !.max_tokens = tokens]
    OBVIOUS
  <2> HIDE DEF plan, tokens, body
  <2>2. r = Request("hop", body, req.plan, req.max_tokens, {}, "none")
    BY <1>2 DEF Request
  <2> HIDE DEF r
  <2>3. planned = Request("hop", body, plan, req.max_tokens, {}, "none")
    BY <2>2 DEF Request
  <2> HIDE DEF planned
  <2> QED
    BY <2>1, <2>3 DEF Request
<1>4. configured => /\ PlanSound(plan, body) /\ Head(plan) = Routed(body)[1]
                    /\ Head(plan) \in DOMAIN catalog.targets
  BY <1>2, RouteOf
<1>5. configured =>
        (ClientFault(body) <=> body.max_tokens # Absent /\ body.max_tokens > cap(Head(plan)))
  <2>1. ~configured \/ ~(body.route # Absent /\ body.route \notin DOMAIN catalog.routes)
    BY DEF is_configured_route
  <2>2. ~(\/ body.controls # "known" \/ body.parameters # "valid"
          \/ body.max_tokens = 0
          \/ body.prompt = Absent \/ body.metadata = Absent
          \/ body.prompt.blank \/ body.prompt.bytes > limits.max_prompt_chars
          \/ body.metadata > limits.max_metadata_bytes)
    BY <1>2, IngressRules
  <2> HIDE DEF configured, plan, body
  <2> QED
    BY <1>4, <2>1, <2>2 DEF ClientFault, Routed
<1>6. ~configured => ClientFault(body)
  <2>1. BadId \notin DOMAIN catalog.routes
    BY <1>2 DEF StartupInv, CatalogSound
  <2> QED
    BY <2>1 DEF ClientFault, is_configured_route
<1>7. configured /\ ~over => TokensSound(plan, tokens, body)
  <2>1. configured => cap(Head(plan)) \in Nat
    BY <1>2, <1>4 DEF cap, StartupInv, CatalogSound
  <2>2. body.max_tokens \in Nat \cup {Absent}
    BY <1>2, ServingAssumption
  <2> HIDE DEF configured, plan, body
  <2> QED
    BY <2>1, <2>2 DEF TokensSound
<1> HIDE DEF body, configured, plan, tokens
<1>8. CASE req' = answered(req, "DeadlineExceeded")
  <2>1. req' = Request("answered", body, req.plan, req.max_tokens, {}, "DeadlineExceeded")
    BY <1>3, <1>8
  <2> QED
    BY <1>1, <1>2, <2>1, RequestAfter
<1>9. CASE (~configured \/ over) /\ req' = answered(req, "InvalidRequest")
  <2>1. req' = Request("answered", body, req.plan, req.max_tokens, {}, "InvalidRequest")
    BY <1>3, <1>9
  <2>2. ClientFault(body)
    BY <1>5, <1>6, <1>9
  <2> QED
    BY <1>1, <1>2, <2>1, <2>2, RequestAfter
<1>10. CASE /\ configured /\ ~over
            /\ req' = [req EXCEPT !.pc = "hop", !.plan = plan, !.max_tokens = tokens]
  <2>1. req' = Request("hop", body, plan, tokens, {}, "none")
    BY <1>11, <1>10
  <2>2. ~ClientFault(body) /\ PlanSound(plan, body) /\ TokensSound(plan, tokens, body)
    BY <1>4, <1>5, <1>7, <1>10
  <2> QED
    BY <1>1, <1>2, <2>1, <2>2, RequestAfter
<1> QED
  BY <1>1, <1>8, <1>9, <1>10

(* A hop that may serve the request is in the plan, with a cap that suits it. *)
LEMMA RestOfPlan ==
    ASSUME NEW body, PlanSound(req.plan, body), TokensSound(req.plan, req.max_tokens, body),
           NEW rest \in remaining_hops(req)
    PROVE  PlanSound(rest, body) /\ TokensSound(rest, req.max_tokens, body)
<1> DEFINE plan == req.plan
<1>1. PICK i \in 2 .. Len(plan) :
         rest = SubSeq(plan, i, Len(plan)) /\ hop_supports_params(plan[i], req.max_tokens)
  BY DEF remaining_hops
<1>2. plan \in Seq(DOMAIN catalog.targets) /\ Len(plan) \in Nat
  BY DEF PlanSound
<1> HIDE DEF plan
<1>3. /\ rest \in Seq(DOMAIN catalog.targets) /\ Len(rest) = Len(plan) - i + 1
      /\ \A j \in 1 .. Len(rest) : rest[j] = plan[i + j - 1]
  <2> DEFINE n == Len(plan)
             S == DOMAIN catalog.targets
  <2>1. i \in Int /\ n \in Int /\ i <= n
    BY <1>1, <1>2
  <2>2. \A k \in i .. n : plan[k] \in S
    BY <1>1, <1>2
  <2> HIDE DEF n, S
  <2>3. /\ SubSeq(plan, i, n) \in Seq(S)
        /\ Len(SubSeq(plan, i, n)) = n - i + 1
        /\ \A j \in 1 .. n - i + 1 : SubSeq(plan, i, n)[j] = plan[i + j - 1]
    BY <2>1, <2>2, SubSeqProperties
  <2> QED
    BY <1>1, <2>3 DEF n, S
<1>4. rest # <<>> /\ Head(rest) = plan[i]
  <2>1. Len(rest) \in Nat \ {0} /\ rest[1] = plan[i]
    BY <1>1, <1>2, <1>3
  <2> QED
    BY <1>3, <2>1
<1>5. PlanSound(rest, body)
  <2>1. \A j \in 1 .. Len(rest) : i + j - 1 \in 1 .. Len(plan) /\ rest[j] = plan[i + j - 1]
    BY <1>1, <1>2, <1>3
  <2> QED
    BY <1>3, <1>4, <2>1 DEF PlanSound, plan
<1>6. TokensSound(rest, req.max_tokens, body)
  BY <1>1, <1>4 DEF TokensSound, hop_supports_params
<1> QED
  BY <1>5, <1>6

(* A hop calls the head of the plan, which the vendor knows and prices. *)
LEMMA HopInv == ASSUME Inv, Hop PROVE RequestInv'
<1> DEFINE body == req.body
           t == Head(req.plan)
           calls == req.calls \cup {<<t, req.max_tokens>>}
           called == [req EXCEPT !.calls = calls]
<1>1. req.pc = "hop" /\ UNCHANGED startupVars
  BY DEF Hop
<1>2. /\ StartupInv /\ stage = "listening" /\ body \in Bodies
      /\ req = Request("hop", body, req.plan, req.max_tokens, req.calls, "none")
      /\ ~ClientFault(body) /\ PlanSound(req.plan, body)
      /\ TokensSound(req.plan, req.max_tokens, body)
  BY <1>1 DEF Inv, RequestInv, RequestShape, RequestProgress, Request
<1>3. t \in DOMAIN catalog.targets /\ t = req.plan[1] /\ 1 \in 1 .. Len(req.plan)
  BY <1>2 DEF PlanSound
<1>4. catalog.targets[t].model \in vendor.models /\ t \in vendor.priced
  <2>1. vendor = from_settings(catalog.targets)
    BY <1>2 DEF StartupInv, VendorSound
  <2> QED
    BY <1>3, <2>1 DEF from_settings
<1>5. called = Request("hop", body, req.plan, req.max_tokens, calls, "none")
  <2> HIDE DEF calls, body
  <2> QED
    BY <1>2 DEF Request
<1>6. \/ req' = answered(called, "Success") \/ req' = answered(called, "ProviderError")
      \/ \E rest \in remaining_hops(req) : req' = [called EXCEPT !.plan = rest]
  BY <1>4 DEF Hop
<1>7. \A c \in calls : CallSound(c, body)
  <2>1. \A c \in req.calls : CallSound(c, body)
    BY DEF Inv, RequestInv, ServedPlansResolve, TokenCapsHold, CallSound, Routed
  <2> DEFINE new == <<t, req.max_tokens>>
  <2>2. new[1] = t /\ new[2] = req.max_tokens
    OBVIOUS
  <2> HIDE DEF new, t, body
  <2>3. CallSound(new, body)
    BY <1>2, <1>3, <2>2 DEF CallSound, PlanSound, TokensSound, cap, t
  <2> QED
    BY <2>1, <2>3 DEF new
<1> HIDE DEF called, calls, body
<1>8. ASSUME NEW a \in {"Success", "ProviderError"}, req' = answered(called, a)
      PROVE  RequestInv'
  <2>1. req' = Request("answered", body, req.plan, req.max_tokens, calls, a)
    BY <1>5, <1>8, Answering
  <2> QED
    BY <1>1, <1>2, <1>7, <2>1, RequestAfter
<1>9. ASSUME NEW rest \in remaining_hops(req), req' = [called EXCEPT !.plan = rest]
      PROVE  RequestInv'
  <2>1. req' = Request("hop", body, rest, req.max_tokens, calls, "none")
    BY <1>5, <1>9 DEF Request
  <2>2. PlanSound(rest, body) /\ TokensSound(rest, req.max_tokens, body)
    BY <1>2, RestOfPlan
  <2> QED
    BY <1>1, <1>2, <1>7, <2>1, <2>2, RequestAfter
<1> QED
  BY <1>6, <1>8, <1>9

-----------------------------------------------------------------------------
(* The theorems *)

(* Every step keeps the invariant. *)
LEMMA InvStep == ASSUME Inv, [Next]_vars PROVE Inv'
<1>1. CASE StartupNext /\ UNCHANGED req
  <2>1. StartupInv'
    BY <1>1, StartupStep DEF Inv
  <2>2. req' = NoRequest
    BY <1>1, StartupEnds DEF Inv, RequestInv, RequestShape
  <2>3. RequestInv'
    <3>1. /\ req'.pc = "idle" /\ req'.calls = {} /\ req'.answer = "none"
          /\ req' = [pc |-> req'.pc, body |-> req'.body, plan |-> req'.plan,
                     max_tokens |-> req'.max_tokens, calls |-> req'.calls,
                     answer |-> req'.answer]
      BY <2>2 DEF NoRequest
    <3> QED
      BY <2>2, <3>1 DEF RequestInv, RequestShape, RequestProgress, ServedPlansResolve,
                        TokenCapsHold, InvalidMeansInvalid
  <2> QED
    BY <2>1, <2>3 DEF Inv
<1>2. CASE Submit
  BY <1>2, SubmitInv, StartupStutter DEF Submit, Inv
<1>3. CASE ProcessRequest
  BY <1>3, ProcessRequestInv, StartupStutter DEF ProcessRequest, Inv
<1>4. CASE Hop
  BY <1>4, HopInv, StartupStutter DEF Hop, Inv
<1>5. CASE UNCHANGED vars
  <2>1. req' = req /\ UNCHANGED startupVars
    BY <1>5 DEF vars
  <2>2. /\ stage' = stage /\ catalog' = catalog /\ limits' = limits
    BY <2>1 DEF startupVars
  <2>3. \A b : ClientFault(b)' <=> ClientFault(b)
    BY <2>2 DEF ClientFault, cap
  <2>4. \A b : parse_ingress_request_ok(b)' <=> parse_ingress_request_ok(b)
    BY <2>2 DEF parse_ingress_request_ok, parse_parameters_ok, validate_prompt_bounds,
                validate_metadata_size
  <2>5. RequestShape'
    BY <2>1, <2>2 DEF Inv, RequestInv, RequestShape
  <2>6. RequestProgress'
    <3>1. \A q, b : PlanSound(q, b)' <=> PlanSound(q, b)
      BY <2>2 DEF PlanSound, Routed
    <3>2. \A q, m, b : TokensSound(q, m, b)' <=> TokensSound(q, m, b)
      BY <2>2 DEF TokensSound, cap
    <3> QED
      BY <2>1, <2>3, <2>4, <3>1, <3>2 DEF Inv, RequestInv, RequestProgress
  <2>7. ServedPlansResolve' /\ TokenCapsHold'
    BY <2>1, <2>2 DEF Inv, RequestInv, ServedPlansResolve, TokenCapsHold
  <2>8. InvalidMeansInvalid'
    BY <2>1, <2>3 DEF Inv, RequestInv, InvalidMeansInvalid
  <2> QED
    BY <2>1, <2>5, <2>6, <2>7, <2>8, StartupStutter DEF Inv, RequestInv
<1> QED
  BY <1>1, <1>2, <1>3, <1>4, <1>5 DEF Next

(* The invariant holds of every reachable state, whatever the catalog, the *)
(* environment and the requests.                                           *)
THEOREM ServingInvariant == Spec => []Inv
<1>1. ServingInit => Inv
  BY StartupInit, NothingServed DEF ServingInit, Inv
<1>2. Inv /\ [Next]_vars => Inv'
  BY InvStep
<1> QED
  BY <1>1, <1>2, PTL DEF Spec

(* A process that exits blames its input for something the input really has, *)
(* and no defect of an input is passed over.                                 *)
THEOREM DiagnosesAreTrue == Spec => []DiagnosisIsTrue
<1>1. Inv => DiagnosisIsTrue
  BY DEF Inv, StartupInv
<1> QED
  BY <1>1, ServingInvariant, PTL

(* What a gateway listens with is within its bounds, its routes are chains of  *)
(* known targets that fit the limit in force, and overrides win in their order. *)
THEOREM ListeningGatewaysAreValid == Spec => []ListeningIsValid
<1>1. Inv => ListeningIsValid
  BY ListeningFollows DEF Inv
<1> QED
  BY <1>1, ServingInvariant, PTL

(* No request fails for something that startup should have refused, and calls *)
(* stay on the chain that the client asked for.                               *)
THEOREM PlansResolve == Spec => []ServedPlansResolve
<1>1. Inv => ServedPlansResolve
  BY DEF Inv, RequestInv
<1> QED
  BY <1>1, ServingInvariant, PTL

(* No call exceeds the token cap of its target, fallbacks included. *)
THEOREM CapsHold == Spec => []TokenCapsHold
<1>1. Inv => TokenCapsHold
  BY DEF Inv, RequestInv
<1> QED
  BY <1>1, ServingInvariant, PTL

(* Only a request that breaks a rule is refused as invalid, and none that does *)
(* reaches a provider.                                                         *)
THEOREM RefusalsAreDeserved == Spec => []InvalidMeansInvalid
<1>1. Inv => InvalidMeansInvalid
  BY DEF Inv, RequestInv
<1> QED
  BY <1>1, ServingInvariant, PTL
=============================================================================
