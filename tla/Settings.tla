------------------------------- MODULE Settings -------------------------------
(***************************************************************************)
(* The operator configuration as pure operators: the version-1 catalog     *)
(* (core/config/catalog.rs), the policy limits and their layering          *)
(* (core/config/limits.rs), and the process settings read from the         *)
(* environment.  A fallible reader returns Ok or the category it fails     *)
(* with, in the order in which the code checks.                            *)
(***************************************************************************)
EXTENDS Integers, Sequences, FiniteSets, FiniteSetsExt

CONSTANTS
    TargetIds, RouteIds, Models,  \* well-formed identifiers
    BadId,                        \* an empty identifier, or one with blanks around it
    Absent,                       \* a variable or field that is not there
    Malformed                     \* text that is no decimal u64

\* Neither an absent value nor a malformed one is a number.
ASSUME SettingsAssumption ==
    Absent \notin Int /\ Malformed \notin Int /\ Absent # Malformed

Ok == "ok"

require(holds, category) == IF holds THEN Ok ELSE category

\* The first of a sequence of results that is an error; the code's `?`.
first_error(results) ==
    LET failed == {i \in DOMAIN results : results[i] # Ok}
    IN  IF failed = {} THEN Ok ELSE results[Min(failed)]

-----------------------------------------------------------------------------
(* Limits *)

LimitBound(min, default, max) == [min |-> min, default |-> default, max |-> max]

Bounds ==
    [protected_request_deadline_ms |-> LimitBound(1, 30000, 300000),
     max_attempt_timeout_ms        |-> LimitBound(1, 10000, 120000),
     retries_per_target            |-> LimitBound(0, 1, 8),
     max_total_attempts            |-> LimitBound(1, 3, 16),
     max_fallback_targets          |-> LimitBound(0, 2, 8),
     backoff_cap_ms                |-> LimitBound(1, 2000, 60000),
     circuit_failure_threshold     |-> LimitBound(1, 3, 100),
     circuit_cooldown_ms           |-> LimitBound(1, 30000, 600000),
     max_concurrent_generations    |-> LimitBound(1, 32, 1024),
     max_request_body_bytes        |-> LimitBound(1, 1048576, 16777216),
     max_metadata_bytes            |-> LimitBound(1, 1000, 1048576),
     max_prompt_chars              |-> LimitBound(1, 4000, 1000000),
     max_upstream_response_bytes   |-> LimitBound(1, 1048576, 16777216)]

LimitNames == DOMAIN Bounds

MAX_OUTPUT_TOKENS == LimitBound(1, 512, 1000000)

SHUTDOWN_TIMEOUT_SECS == LimitBound(1, 30, 600)

check_bound(bound, value) == value \in bound.min .. bound.max

\* How many environment names override a limit, the canonical name first.
Aliases(name) ==
    CASE name = "max_attempt_timeout_ms" -> 4
      [] name = "retries_per_target" -> 3
      [] OTHER -> 2

\* Mutant: the deprecated name, read last, wins.
env_u64_LastName(names) ==
    LET present == {i \in DOMAIN names : names[i] # Absent}
    IN  IF present = {} THEN Absent ELSE names[Max(present)]

\* The first name that is present decides, well-formed or not.
env_u64(names) ==
    LET present == {i \in DOMAIN names : names[i] # Absent}
    IN  IF present = {} THEN Absent ELSE names[Min(present)]

from_raw(raw) ==
    [n \in LimitNames |-> IF raw[n] = Absent THEN Bounds[n].default ELSE raw[n]]

from_raw_error(raw) ==
    require(\A n \in LimitNames : check_bound(Bounds[n], from_raw(raw)[n]), "invalid_limit")

apply_env_overrides(limits, env) ==
    [n \in LimitNames |-> IF env_u64(env[n]) = Absent THEN limits[n] ELSE env_u64(env[n])]

apply_env_error(limits, env) ==
    require(\A n \in LimitNames : check_bound(Bounds[n], apply_env_overrides(limits, env)[n]),
            "invalid_limit")

-----------------------------------------------------------------------------
(* Catalog: a route is its chain, the primary first. *)

\* What the document may be wrong in, as far as its diagnosis tells fields apart: the
\* version, the pricing object, a price in it, a numeric limit (max_output_tokens is
\* one) and everything else.
Fields == {"version", "pricing", "price", "limit", "other"}

\* The phrases that map_serde_error looks for in a message.
Phrases ==
    {"duplicate target identifier", "duplicate route identifier", "nested chain",
     "unknown field", "missing field", "missing version", "missing pricing",
     "missing price", "invalid type", "invalid value", "version", "number out of range"}

\* The first fault that the deserializer meets.  A message about a wrong type or an
\* unknown field quotes the document, which may hold any phrase.
DocumentFaults ==
    [what : {"syntax", "duplicate_target", "duplicate_route", "nested_chain",
             "repeated_field", "short_list"}, field : {"other"}, quotes : {"nothing"}]
    \cup [what : {"missing", "out_of_range"}, field : Fields, quotes : {"nothing"}]
    \cup [what : {"bad_integer"}, field : {"version", "limit"}, quotes : {"nothing"}]
    \cup [what : {"wrong_type"}, field : Fields, quotes : Phrases \cup {"nothing"}]
    \cup [what : {"unknown_field"}, field : {"other"}, quotes : Phrases \cup {"nothing"}]

\* What serde_json says of a fault.  It names a missing field, but not the field whose
\* value is of the wrong type or out of range.
serde_phrases(fault) ==
    CASE fault.what = "duplicate_target" -> {"duplicate target identifier"}
      [] fault.what = "duplicate_route"  -> {"duplicate route identifier"}
      [] fault.what = "nested_chain"     -> {"nested chain"}
      [] fault.what = "unknown_field"    -> {"unknown field"}
      [] fault.what = "wrong_type"       -> {"invalid type"}
      [] fault.what = "bad_integer"      -> {"invalid value"}
      [] fault.what = "out_of_range"     -> {"number out of range"}
      [] fault.what = "missing" /\ fault.field = "version" ->
           {"missing field", "missing version", "version"}
      [] fault.what = "missing" /\ fault.field = "pricing" -> {"missing field", "missing pricing"}
      [] fault.what = "missing" /\ fault.field = "price"   -> {"missing field", "missing price"}
      [] fault.what = "missing" /\ fault.field \in {"limit", "other"} -> {"missing field"}
      [] OTHER -> {}

\* A number too large for a float is an error of syntax to it.
serde_error(fault) ==
    [syntax |-> fault.what \in {"syntax", "out_of_range"},
     says |-> {fault.quotes} \cup serde_phrases(fault)]

\* Mutant: a pricing object that lacks one of its prices is not looked for.
misses_pricing_Whole(says) == "missing pricing" \in says

misses_pricing(says) == {"missing pricing", "missing price"} \cap says # {}

names_version(says) ==
    "missing version" \in says \/ {"invalid type", "version"} \subseteq says

\* The category that a message is turned into: the first phrase found decides.
map_serde_error(err) ==
    first_error(
      << require("duplicate target identifier" \notin err.says, "catalog_duplicate_target"),
         require("duplicate route identifier" \notin err.says, "catalog_duplicate_route"),
         require("nested chain" \notin err.says, "catalog_nested_chain"),
         require("unknown field" \notin err.says, "catalog_unknown_field"),
         require(~names_version(err.says), "catalog_unsupported_version"),
         require(~misses_pricing(err.says), "catalog_incomplete_pricing"),
         require("number out of range" \notin err.says, "catalog_invalid_price"),
         require(~err.syntax, "catalog_malformed_json"),
         require({"invalid type", "invalid value", "missing field"} \cap err.says = {},
                 "catalog_invalid_type"),
         "catalog_malformed_json" >>)

RawTargets(caps) ==
    [vendor : {"omitted", "openai", "other"}, model : Models \cup {BadId},
     max_output_tokens : caps, price : {"valid", "out_of_range"}]

parse_target_error(id, raw) ==
    first_error(<< require(id # BadId, "catalog_empty_identifier"),
                   require(raw.vendor \in {"omitted", "openai"}, "catalog_unsupported_vendor"),
                   require(raw.model # BadId, "catalog_empty_identifier"),
                   require(check_bound(MAX_OUTPUT_TOKENS, raw.max_output_tokens), "invalid_limit"),
                   require(raw.price = "valid", "catalog_invalid_price") >>)

parse_target(raw) == [model |-> raw.model, max_output_tokens |-> raw.max_output_tokens]

\* Mutant: a fallback is compared with the primary only.
validate_route_error_PrimaryOnly(targets, chain) ==
    LET link_error(i) ==
          first_error(<< require(chain[i] # BadId, "catalog_empty_identifier"),
                         require(chain[i] \in DOMAIN targets, "catalog_unknown_target_reference"),
                         require(i = 1 \/ chain[1] # chain[i], "catalog_duplicate_chain_target") >>)
    IN  first_error([i \in DOMAIN chain |-> link_error(i)])

validate_route_error(targets, chain) ==
    LET link_error(i) ==
          first_error(<< require(chain[i] # BadId, "catalog_empty_identifier"),
                         require(chain[i] \in DOMAIN targets, "catalog_unknown_target_reference"),
                         require(\A j \in 1 .. i - 1 : chain[j] # chain[i],
                                 "catalog_duplicate_chain_target") >>)
    IN  first_error([i \in DOMAIN chain |-> link_error(i)])

default_route_error(routes, id) ==
    first_error(<< require(DOMAIN routes # {}, "catalog_missing_default_route"),
                   require(id # BadId, "catalog_empty_identifier"),
                   require(id \in DOMAIN routes, "catalog_missing_default_route") >>)

apply_limit_to_routes_error(routes, max_fallback_targets) ==
    require(\A r \in DOMAIN routes : Len(routes[r]) - 1 <= max_fallback_targets,
            "catalog_fallback_limit")

-----------------------------------------------------------------------------
(* Process settings.  Texts are classified, numbers are kept. *)

provider_error(env) ==
    first_error(<< require(env.key = "set", "missing_credential"),
                   require(env.base_url \in {"absent", "plain"}, "invalid_provider_url") >>)

server_error(env) ==
    LET port == IF env.port = Absent THEN 3000 ELSE env.port
        grace == IF env.grace = Absent THEN SHUTDOWN_TIMEOUT_SECS.default ELSE env.grace
    IN  first_error(<< require(env.host # "blank", "invalid_bind_address"),
                       require(port # Malformed, "invalid_limit"),
                       require(port \in 0 .. 65535, "invalid_bind_address"),
                       require(env.host # "no_address", "invalid_bind_address"),
                       require(check_bound(SHUTDOWN_TIMEOUT_SECS, grace), "invalid_limit") >>)

\* Pool numbers are parsed as u32; an absent one keeps its documented default.
pool_bound(value, min, max) == value = Absent \/ value \in min .. max

\* The URL is validated trimmed and used untrimmed: blanks that only trim drops
\* ("padded") are noticed when the pool's options are built.
database_error(env) ==
    first_error(<< require(env.url \notin {"absent", "blank"}, "missing_database_url"),
                   require(env.url # "unparsable", "invalid_database_url"),
                   require(pool_bound(env.max_connections, 1, 32), "invalid_database_pool_bound"),
                   require(pool_bound(env.acquire_timeout_ms, 100, 60000),
                           "invalid_database_pool_bound"),
                   require(pool_bound(env.statement_timeout_ms, 100, 60000),
                           "invalid_database_pool_bound"),
                   require(env.role \in {"absent", "lowercase"}, "invalid_database_role"),
                   require(env.url # "padded", "database_unavailable") >>)
=============================================================================
