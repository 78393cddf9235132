------------------------------- MODULE Serving --------------------------------
(***************************************************************************)
(* A listening gateway takes an inference request: parse_ingress_request   *)
(* (features/ingress/validate.rs), route resolution (routing.rs), the      *)
(* token cap (ingress/service.rs), and the hops of the plan as the         *)
(* executor and its repository see them.  Retries and circuits inside a    *)
(* hop are the subject of Executor; here a hop succeeds, fails so that the *)
(* next target may be tried, or ends the request.                          *)
(***************************************************************************)
EXTENDS Startup

CONSTANT Bodies     \* the request bodies a client may send

\* A character of UTF-8 has at least one byte.
ASSUME ServingAssumption ==
    \A body \in Bodies :
        /\ {body.max_tokens, body.metadata} \subseteq Nat \cup {Absent}
        /\ body.prompt # Absent =>
              /\ body.prompt.blank \in BOOLEAN
              /\ body.prompt.chars \in Nat /\ body.prompt.bytes \in Nat
              /\ body.prompt.chars <= body.prompt.bytes

VARIABLE req        \* the request and what became of it

vars == <<startupVars, req>>

NoRequest ==
    [pc |-> "idle", body |-> Absent, plan |-> <<>>, max_tokens |-> 0, calls |-> {},
     answer |-> "none"]

ServingInit == Init /\ req = NoRequest

answered(r, a) == [r EXCEPT !.pc = "answered", !.answer = a]

-----------------------------------------------------------------------------
(* Validation.  The order of the object's keys decides which error is worded, *)
(* every one of them is an InvalidRequest.                                    *)

\* A parameter that is there must be a number in range; max_tokens is a u32.
parse_parameters_ok(body) ==
    body.parameters = "valid" /\ (body.max_tokens = Absent \/ body.max_tokens > 0)

\* A prompt of white space only counts as empty, whatever its length.  The limit on
\* characters is applied to the bytes too.
validate_prompt_bounds(body) ==
    /\ ~body.prompt.blank
    /\ body.prompt.chars <= limits.max_prompt_chars
    /\ body.prompt.bytes <= limits.max_prompt_chars

validate_metadata_size(body) == body.metadata <= limits.max_metadata_bytes

parse_ingress_request_ok(body) ==
    /\ body.controls = "known"
    /\ parse_parameters_ok(body)
    /\ body.prompt # Absent
    /\ body.metadata # Absent
    /\ validate_prompt_bounds(body)
    /\ validate_metadata_size(body)

-----------------------------------------------------------------------------
(* Routing *)

is_configured_route(id) == id # BadId /\ id \in DOMAIN catalog.routes

\* The plan: the chain of the route, cut to its primary by allow_fallback = false.
resolve_route(body) ==
    LET id == IF body.route = Absent THEN catalog.default_route ELSE body.route
        chain == catalog.routes[id]
    IN  IF body.allow_fallback = FALSE THEN <<Head(chain)>> ELSE chain

cap(t) == catalog.targets[t].max_output_tokens

-----------------------------------------------------------------------------

Submit ==
    /\ stage = "listening" /\ req.pc = "idle"
    /\ \E body \in Bodies :
          req' = LET r == [req EXCEPT !.body = body, !.pc = "process"]
                 IN  IF parse_ingress_request_ok(body) THEN r ELSE answered(r, "InvalidRequest")
    /\ UNCHANGED startupVars

\* Mutant: the token cap of the primary is not looked at.
ProcessRequest_NoCap ==
    /\ req.pc = "process"
    /\ LET body == req.body
           configured == body.route = Absent \/ is_configured_route(body.route)
           plan == resolve_route(body)
       IN  \/ req' = answered(req, "DeadlineExceeded")
           \/ ~configured /\ req' = answered(req, "InvalidRequest")
           \/ /\ configured
              /\ req' = [req EXCEPT !.pc = "hop", !.plan = plan, !.max_tokens =
                            IF body.max_tokens = Absent THEN cap(Head(plan)) ELSE body.max_tokens]
    /\ UNCHANGED startupVars

\* process_request up to the executor: deadline, route, cap of the primary, payload.
ProcessRequest ==
    /\ req.pc = "process"
    /\ LET body == req.body
           configured == body.route = Absent \/ is_configured_route(body.route)
           plan == resolve_route(body)
           over == configured /\ body.max_tokens # Absent /\ body.max_tokens > cap(Head(plan))
       IN  \/ req' = answered(req, "DeadlineExceeded")
           \/ (~configured \/ over) /\ req' = answered(req, "InvalidRequest")
           \/ /\ configured /\ ~over
              /\ req' = [req EXCEPT !.pc = "hop", !.plan = plan, !.max_tokens =
                            IF body.max_tokens = Absent THEN cap(Head(plan)) ELSE body.max_tokens]
    /\ UNCHANGED startupVars

\* Mutant: a fallback is tried whatever its cap.
hop_supports_params_Any(t, max_tokens) == t \in DOMAIN catalog.targets

hop_supports_params(t, max_tokens) == max_tokens <= cap(t)

\* The plan from the next target on that can serve the request, if there is one:
\* the loop over the fallbacks skips those with too small a cap.
remaining_hops(r) ==
    LET fits(i) == hop_supports_params(r.plan[i], r.max_tokens)
        next == {i \in 2 .. Len(r.plan) : fits(i) /\ \A j \in 2 .. i - 1 : ~fits(j)}
    IN  {SubSeq(r.plan, i, Len(r.plan)) : i \in next}

\* call_llm for the next target of the plan.  The model is checked before the call,
\* the price is looked up once an answer was accepted.  A failure ends the request
\* or lets the next hop try.
Hop ==
    /\ req.pc = "hop"
    /\ LET t == Head(req.plan)
           called == [req EXCEPT !.calls = @ \cup {<<t, req.max_tokens>>}]
       IN  IF catalog.targets[t].model \notin vendor.models
           THEN req' = answered(req, "UnsupportedModel")
           ELSE \/ req' = answered(called,
                             IF t \in vendor.priced THEN "Success" ELSE "MissingPricing")
                \/ req' = answered(called, "ProviderError")
                \/ \E rest \in remaining_hops(req) : req' = [called EXCEPT !.plan = rest]
    /\ UNCHANGED startupVars

Next ==
    \/ StartupNext /\ UNCHANGED req
    \/ Submit
    \/ ProcessRequest
    \/ Hop

Spec == ServingInit /\ [][Next]_vars

-----------------------------------------------------------------------------

(* A validated catalog leaves nothing to go wrong inside: no request ends   *)
(* in an error that blames the operator (a model the vendor does not know,  *)
(* a target without a price), the calls stay on the chain of the route that *)
(* was asked for, and a client that opted out of fallbacks gets none.       *)
ServedPlansResolve ==
    /\ req.answer \notin {"UnsupportedModel", "MissingPricing"}
    /\ req.calls # {} =>
          LET id == IF req.body.route = Absent THEN catalog.default_route ELSE req.body.route
              chain == catalog.routes[id]
          IN  \A c \in req.calls :
                 /\ c[1] \in {chain[i] : i \in DOMAIN chain}
                 /\ req.body.allow_fallback = FALSE => c[1] = chain[1]

(* No provider call asks for more tokens than the catalog allows its target *)
(* although the request was checked against the primary only, and none      *)
(* carries a number the client did not choose or inherit from the primary.  *)
TokenCapsHold ==
    \A c \in req.calls :
        /\ c[2] <= catalog.targets[c[1]].max_output_tokens
        /\ req.body.max_tokens # Absent => c[2] = req.body.max_tokens

\* What a client may get wrong, by the limits and the catalog in force.
ClientFault(body) ==
    \/ body.controls # "known" \/ body.parameters # "valid"
    \/ body.max_tokens = 0
    \/ body.prompt = Absent \/ body.metadata = Absent
    \/ body.prompt.blank \/ body.prompt.bytes > limits.max_prompt_chars
    \/ body.metadata > limits.max_metadata_bytes
    \/ body.route # Absent /\ body.route \notin DOMAIN catalog.routes
    \/ LET route == IF body.route = Absent THEN catalog.default_route ELSE body.route
       IN  body.max_tokens # Absent /\ body.max_tokens > cap(catalog.routes[route][1])

(* A 400 is for the client's mistakes: a request is refused as invalid only *)
(* if it breaks a rule, and one that breaks a rule never reaches a provider *)
(* whatever stage would have noticed it.                                    *)
InvalidMeansInvalid ==
    req.pc # "idle" =>
        /\ req.answer = "InvalidRequest" => ClientFault(req.body)
        /\ req.calls # {} => ~ClientFault(req.body)
=============================================================================
