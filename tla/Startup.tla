------------------------------- MODULE Startup --------------------------------
(***************************************************************************)
(* Startup of the gateway (main.rs): Settings::load, the database pool,    *)
(* the application and its router, and only then the listener.  Each stage *)
(* reads its inputs when it is reached, from a file and an environment     *)
(* that may hold anything, and either goes on or ends the process with a   *)
(* diagnostic category.  Targets and routes are taken one at a time, in    *)
(* the arbitrary order of a hash map.                                      *)
(***************************************************************************)
EXTENDS Settings

CONSTANTS
    Caps,       \* bound: the max_output_tokens a catalog may name
    Tuned,      \* bound: the limits that file and environment set here
    MaxChain    \* bound: the targets listed by one route

ASSUME StartupAssumption == Caps \subseteq Nat /\ Tuned \subseteq LimitNames /\ MaxChain \in Nat

VARIABLES
    stage,      \* what the process does next, "listening" or "exited"
    catalog,    \* the catalog as far as it is validated
    limits,     \* PolicyLimits, once they are computed
    vendor,     \* what the executor's vendor supports and prices
    category,   \* why the process exited, Ok before
    input       \* history: what the last stage read

startupVars == <<stage, catalog, limits, vendor, category, input>>

Stages == <<"config_file", "document", "targets", "routes", "limits",
            "overrides", "provider", "server", "http_client", "database",
            "application", "router", "bind", "listening">>

After(s) == Stages[(CHOOSE i \in DOMAIN Stages : Stages[i] = s) + 1]

NoCatalog == [targets |-> <<>>, routes |-> <<>>, default_route |-> Absent]

NoLimits == [n \in LimitNames |-> Absent]

Init ==
    /\ stage = Stages[1]
    /\ catalog = NoCatalog
    /\ limits = NoLimits
    /\ vendor = [models |-> {}, priced |-> {}]
    /\ category = Ok
    /\ input = [kind |-> "none"]

\* A stage that read i and found e: the process goes on to stage s or exits.
judge(i, e, s) ==
    /\ input' = i
    /\ category' = e
    /\ stage' = IF e = Ok THEN s ELSE "exited"

-----------------------------------------------------------------------------
(* Settings::load *)

LocateCatalog ==
    /\ stage = "config_file"
    /\ \E path \in {"absent", "blank", "unreadable", "readable"} :
          judge([kind |-> "file", path |-> path],
                first_error(<< require(path \notin {"absent", "blank"}, "missing_config_file"),
                               require(path # "unreadable", "catalog_unreadable") >>),
                After(stage))
    /\ UNCHANGED <<catalog, limits, vendor>>

\* The whole document is deserialized, and its version checked, before any rule.
Deserialize ==
    /\ stage = "document"
    /\ \/ \E fault \in DocumentFaults :
             judge([kind |-> "document", fault |-> fault],
                   map_serde_error(serde_error(fault)), After(stage))
       \/ \E version \in 0 .. 2 :
             judge([kind |-> "version", version |-> version],
                   require(version = 1, "catalog_unsupported_version"),
                   After(stage))
    /\ UNCHANGED <<catalog, limits, vendor>>

ParseTarget ==
    /\ stage = "targets"
    /\ \E id \in (TargetIds \cup {BadId}) \ DOMAIN catalog.targets, raw \in RawTargets(Caps) :
          /\ judge([kind |-> "target", id |-> id, raw |-> raw],
                   parse_target_error(id, raw), stage)
          /\ catalog' = IF parse_target_error(id, raw) # Ok THEN catalog ELSE
                [catalog EXCEPT !.targets =
                    [t \in DOMAIN @ \cup {id} |-> IF t = id THEN parse_target(raw) ELSE @[t]]]
    /\ UNCHANGED <<limits, vendor>>

TargetsDone ==
    /\ stage = "targets"
    /\ judge([kind |-> "targets", count |-> Cardinality(DOMAIN catalog.targets)],
             require(DOMAIN catalog.targets # {}, "catalog_empty_identifier"),
             After(stage))
    /\ UNCHANGED <<catalog, limits, vendor>>

ParseRoute ==
    /\ stage = "routes"
    /\ \E id \in (RouteIds \cup {BadId}) \ DOMAIN catalog.routes,
          n \in 1 .. MaxChain : \E chain \in [1 .. n -> TargetIds \cup {BadId}] :
          LET e == first_error(<< require(id # BadId, "catalog_empty_identifier"),
                                  validate_route_error(catalog.targets, chain) >>)
          IN  /\ judge([kind |-> "route", id |-> id, chain |-> chain], e, stage)
              /\ catalog' = IF e # Ok THEN catalog ELSE
                    [catalog EXCEPT !.routes =
                        [r \in DOMAIN @ \cup {id} |-> IF r = id THEN chain ELSE @[r]]]
    /\ UNCHANGED <<limits, vendor>>

RoutesDone ==
    /\ stage = "routes"
    /\ \E id \in RouteIds \cup {BadId} :
          LET e == default_route_error(catalog.routes, id)
          IN  /\ judge([kind |-> "default_route", id |-> id], e, After(stage))
              /\ catalog' = IF e = Ok THEN [catalog EXCEPT !.default_route = id] ELSE catalog
    /\ UNCHANGED <<limits, vendor>>

\* The values around the bounds of a limit.
Edges(name) ==
    LET b == Bounds[name]
    IN  {b.min - 1, b.min, b.max, b.max + 1} \cap Nat

\* PolicyLimits::from_raw: at most one limit of the file is set.
RawLimits ==
    /\ stage = "limits"
    /\ \E name \in Tuned : \E value \in Edges(name) \cup {Absent} :
          LET raw == [NoLimits EXCEPT ![name] = value]
          IN  /\ judge([kind |-> "limits", name |-> name, value |-> value],
                       from_raw_error(raw), After(stage))
              /\ limits' = from_raw(raw)
    /\ UNCHANGED <<catalog, vendor>>

\* apply_env_overrides, then apply_limit_to_routes with the limit that results;
\* at most one limit is overridden, under any of its names at once.
EnvOverrides ==
    /\ stage = "overrides"
    /\ \E name \in Tuned :
       \E names \in [1 .. Aliases(name) -> {Absent, Malformed, Bounds[name].min,
                                                Bounds[name].max + 1}] :
          LET env == [n \in LimitNames |->
                        IF n = name THEN names ELSE [i \in 1 .. Aliases(n) |-> Absent]]
              new == apply_env_overrides(limits, env)
              e == IF apply_env_error(limits, env) # Ok THEN apply_env_error(limits, env)
                   ELSE apply_limit_to_routes_error(catalog.routes, new.max_fallback_targets)
          IN  /\ judge([kind |-> "overrides", name |-> name, names |-> names,
                        before |-> limits[name]], e, After(stage))
              /\ limits' = IF e = Ok THEN new ELSE limits
    /\ UNCHANGED <<catalog, vendor>>

-----------------------------------------------------------------------------
(* A group of variables is read with at most one of them away from its default. *)

OneAway(default, others) ==
    {default} \cup UNION {{[default EXCEPT ![f] = v] : v \in others[f]} : f \in DOMAIN others}

ProviderEnvs ==
    OneAway([key |-> "set", base_url |-> "absent"],
            [key |-> {"absent", "blank"},
             base_url |-> {"blank", "no_host", "scheme", "credentials", "query", "plain"}])

ServerEnvs ==
    OneAway([host |-> "absent", port |-> Absent, grace |-> Absent],
            [host |-> {"blank", "no_address"}, port |-> {Malformed, 0, 65535, 65536},
             grace |-> {Malformed, 0, 1, 600, 601}])

DatabaseEnvs ==
    OneAway([url |-> "valid", max_connections |-> Absent, acquire_timeout_ms |-> Absent,
             statement_timeout_ms |-> Absent, role |-> "absent"],
            [url |-> {"absent", "blank", "unparsable", "padded"},
             max_connections |-> {Malformed, 0, 1, 32, 33},
             acquire_timeout_ms |-> {Malformed, 99, 100, 60000, 60001},
             statement_timeout_ms |-> {Malformed, 99, 100, 60000, 60001},
             role |-> {"blank", "lowercase", "other"}])

Provider ==
    /\ stage = "provider"
    /\ \E env \in ProviderEnvs :
          judge([kind |-> "provider", env |-> env], provider_error(env), After(stage))
    /\ UNCHANGED <<catalog, limits, vendor>>

Server ==
    /\ stage = "server"
    /\ \E env \in ServerEnvs :
          judge([kind |-> "server", env |-> env], server_error(env), After(stage))
    /\ UNCHANGED <<catalog, limits, vendor>>

\* build_client: built once to fail early and a second time by the vendor; the
\* construction itself may fail in the TLS library.
build_client_error(timeout, built) ==
    first_error(<< require(timeout # 0, "invalid_limit"),
                   require(built, "http_client_construction") >>)

HttpClient ==
    /\ stage = "http_client"
    /\ \E built \in BOOLEAN :
          judge([kind |-> "client", built |-> built],
                build_client_error(limits.max_attempt_timeout_ms, built), After(stage))
    /\ UNCHANGED <<catalog, limits, vendor>>

-----------------------------------------------------------------------------
(* The rest of main *)

\* The pool is lazy: the database itself is not asked.
Database ==
    /\ stage = "database"
    /\ \E env \in DatabaseEnvs :
          judge([kind |-> "database", env |-> env], database_error(env), After(stage))
    /\ UNCHANGED <<catalog, limits, vendor>>

\* Mutant: prices are kept under the model instead of the target.
from_settings_ByModel(targets) ==
    LET models == {targets[t].model : t \in DOMAIN targets}
    IN  [models |-> models, priced |-> models]

\* ExecutorConfig::from_settings: models once, prices by target.
from_settings(targets) ==
    [models |-> {targets[t].model : t \in DOMAIN targets}, priced |-> DOMAIN targets]

Application ==
    /\ stage = "application"
    /\ \E built \in BOOLEAN :
          LET e == require(build_client_error(limits.max_attempt_timeout_ms, built) = Ok,
                          "invalid_configuration")
          IN  /\ judge([kind |-> "application", built |-> built], e, After(stage))
              /\ vendor' = IF e = Ok THEN from_settings(catalog.targets) ELSE vendor
    /\ UNCHANGED <<catalog, limits>>

\* METRICS_PATH is not validated: the router panics on a path that does not start
\* with a slash or that another route has.
Router ==
    /\ stage = "router"
    /\ \E enabled \in BOOLEAN, path \in {"own", "relative", "taken"} :
          judge([kind |-> "router", enabled |-> enabled, path |-> path],
                require(enabled => path = "own", "panic"), After(stage))
    /\ UNCHANGED <<catalog, limits, vendor>>

Bind ==
    /\ stage = "bind"
    /\ \E outcome \in {"bound", "in_use", "refused"} :
          judge([kind |-> "bind", outcome |-> outcome],
                first_error(<< require(outcome # "in_use", "bind_address_in_use"),
                               require(outcome # "refused", "listen_failed") >>),
                After(stage))
    /\ UNCHANGED <<catalog, limits, vendor>>

StartupNext ==
    \/ LocateCatalog \/ Deserialize \/ ParseTarget \/ TargetsDone
    \/ ParseRoute \/ RoutesDone \/ RawLimits \/ EnvOverrides
    \/ Provider \/ Server \/ HttpClient \/ Database
    \/ Application \/ Router \/ Bind

-----------------------------------------------------------------------------
(* What is wrong with an input, said without an order of checks. *)

blame(fault, defect) == IF fault THEN defect ELSE Ok

\* The value that wins: an environment name, the earlier the better, then the file.
Layered(names, before) ==
    IF \A i \in DOMAIN names : names[i] = Absent THEN before
    ELSE CHOOSE v \in {names[i] : i \in DOMAIN names} :
            /\ v # Absent
            /\ \E i \in DOMAIN names :
                  names[i] = v /\ \A j \in DOMAIN names : j < i => names[j] = Absent

OutOfBounds(bound, value) == value = Malformed \/ value < bound.min \/ value > bound.max

OutsidePool(env) ==
    \/ env.max_connections \in {Malformed, 0, 33}
    \/ env.acquire_timeout_ms \in {Malformed, 99, 60001}
    \/ env.statement_timeout_ms \in {Malformed, 99, 60001}

\* What is wrong with a document, by what the categories are documented to mean
\* (core/config/error.rs): nothing here depends on a message.  An integer that the
\* type of its field cannot hold is taken for one of the wrong type.
DocumentDefects(fault) ==
    {blame(fault.what = "syntax", "catalog_malformed_json"),
     blame(fault.what = "duplicate_target", "catalog_duplicate_target"),
     blame(fault.what = "duplicate_route", "catalog_duplicate_route"),
     blame(fault.what = "nested_chain", "catalog_nested_chain"),
     blame(fault.what = "unknown_field", "catalog_unknown_field"),
     blame(fault.what \in {"wrong_type", "bad_integer"}, "catalog_invalid_type"),
     blame(fault.what = "missing" /\ fault.field \in {"pricing", "price"},
       "catalog_incomplete_pricing"),
     blame(fault.what = "out_of_range" /\ fault.field = "price", "catalog_invalid_price"),
     blame(fault.field = "version", "catalog_unsupported_version")}

\* The documents whose category says something else than what is wrong with them:
\* a number too large for a float counts as a price wherever it stands, a missing
\* field as one of the wrong type, a field given twice or a list too short for a
\* struct as malformed JSON, and a quoted text may hold a phrase looked for earlier.
Misnamed(fault) ==
    \/ fault.what = "out_of_range" /\ fault.field # "price"
    \/ fault.what = "missing" /\ fault.field \in {"limit", "other"}
    \/ fault.what \in {"repeated_field", "short_list"}
    \/ fault.what = "unknown_field" /\ fault.quotes \in
          {"duplicate target identifier", "duplicate route identifier", "nested chain"}
    \/ /\ fault.what = "wrong_type"
       /\ fault.quotes \in Phrases \ {"invalid type", "invalid value", "missing field"}
       /\ ~(fault.field = "version" /\ fault.quotes \in {"missing version", "version"})

InputMisnamed == input.kind = "document" /\ Misnamed(input.fault)

CatalogDefects ==
    CASE input.kind = "file" ->
           {blame(input.path \in {"absent", "blank"}, "missing_config_file"),
            blame(input.path = "unreadable", "catalog_unreadable")}
      [] input.kind = "document" -> DocumentDefects(input.fault)
      [] input.kind = "version" ->
           {blame(input.version # 1, "catalog_unsupported_version")}
      [] input.kind = "target" ->
           {blame(BadId \in {input.id, input.raw.model}, "catalog_empty_identifier"),
            blame(input.raw.vendor = "other", "catalog_unsupported_vendor"),
            blame(input.raw.price # "valid", "catalog_invalid_price"),
            blame(OutOfBounds(MAX_OUTPUT_TOKENS, input.raw.max_output_tokens),
              "invalid_limit")}
      [] input.kind = "targets" -> {blame(input.count = 0, "catalog_empty_identifier")}
      [] input.kind = "route" ->
           LET named == {input.chain[i] : i \in DOMAIN input.chain}
           IN  {blame(BadId \in named \cup {input.id}, "catalog_empty_identifier"),
                blame(~(named \ {BadId} \subseteq DOMAIN catalog.targets),
                  "catalog_unknown_target_reference"),
                blame(Cardinality(named) # Len(input.chain),
                  "catalog_duplicate_chain_target")}
      [] input.kind = "default_route" ->
           {blame(input.id = BadId, "catalog_empty_identifier"),
            blame(input.id \notin DOMAIN catalog.routes, "catalog_missing_default_route")}
      [] OTHER -> {}

ProcessDefects ==
    CASE input.kind = "limits" ->
           {blame(input.value # Absent /\ OutOfBounds(Bounds[input.name], input.value),
              "invalid_limit")}
      [] input.kind = "overrides" ->
           LET value == Layered(input.names, input.before)
               fallbacks == IF input.name = "max_fallback_targets" THEN value
                            ELSE limits.max_fallback_targets
           IN  {blame(OutOfBounds(Bounds[input.name], value), "invalid_limit"),
                blame(\E r \in DOMAIN catalog.routes :
                     fallbacks # Malformed /\ Len(Tail(catalog.routes[r])) > fallbacks,
                  "catalog_fallback_limit")}
      [] input.kind = "provider" ->
           {blame(input.env.key # "set", "missing_credential"),
            blame(input.env.base_url \notin {"absent", "plain"}, "invalid_provider_url")}
      [] input.kind = "server" ->
           {blame(Malformed \in {input.env.port, input.env.grace}
                \/ input.env.grace \in {0, 601}, "invalid_limit"),
            blame(input.env.host # "absent" \/ input.env.port = 65536,
              "invalid_bind_address")}
      [] input.kind = "client" -> {blame(~input.built, "http_client_construction")}
      [] input.kind = "database" ->
           {blame(input.env.url \in {"absent", "blank"}, "missing_database_url"),
            blame(input.env.url = "unparsable", "invalid_database_url"),
            blame(input.env.url = "padded", "database_unavailable"),
            blame(input.env.role \in {"blank", "other"}, "invalid_database_role"),
            blame(OutsidePool(input.env), "invalid_database_pool_bound")}
      [] input.kind = "application" -> {blame(~input.built, "invalid_configuration")}
      [] input.kind = "router" ->
           {blame(input.enabled /\ input.path # "own", "panic")}
      [] input.kind = "bind" ->
           {blame(input.outcome = "in_use", "bind_address_in_use"),
            blame(input.outcome = "refused", "listen_failed")}
      [] OTHER -> {}

Defects == (CatalogDefects \cup ProcessDefects) \ {Ok}

(* A process that exits names a defect that its input really has, whatever  *)
(* the order of checks and of hash maps; the only exceptions, and all of    *)
(* them are, are the documents that map_serde_error misnames because it     *)
(* knows a fault by the text of its message.  An input with a defect never  *)
(* lets startup go on: main.rs exits on every error it is given.            *)
DiagnosisIsTrue ==
    IF stage = "exited" THEN InputMisnamed <=> category \notin Defects
    ELSE ~InputMisnamed /\ Defects = {}

(* What a listening gateway runs with is sound as a whole: every limit is   *)
(* within its bound although file and environment were merged in steps,     *)
(* every route, checked before the fallback limit was final, is a chain of  *)
(* distinct known targets that fits the limit, and an override put the      *)
(* value of its first name in place of the file's.                          *)
ListeningIsValid ==
    /\ stage = "listening" =>
          /\ \A n \in LimitNames : limits[n] >= Bounds[n].min /\ limits[n] <= Bounds[n].max
          /\ catalog.default_route \in DOMAIN catalog.routes
          /\ \A r \in DOMAIN catalog.routes :
                LET chain == catalog.routes[r]
                IN  /\ {chain[i] : i \in DOMAIN chain} \subseteq DOMAIN catalog.targets
                    /\ Cardinality({chain[i] : i \in DOMAIN chain}) = Len(chain)
                    /\ Len(chain) <= 1 + limits.max_fallback_targets
    /\ stage = "provider" => limits[input.name] = Layered(input.names, input.before)
=============================================================================
