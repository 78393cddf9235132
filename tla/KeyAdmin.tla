------------------------------- MODULE KeyAdmin -------------------------------
(***************************************************************************)
(* Administration of keys, end to end: the three HTTP handlers             *)
(* (features/auth/handler.rs) from the presented credential to the answer, *)
(* the service and the provisioning under them, and the operator's command *)
(* line (bin/opmux-admin.rs), all on one database.  An authentication, a   *)
(* revocation and an insert are single steps here, as KeyRegistry promises *)
(* and AuthStore implements; an inventory is read in the statements that   *)
(* list_keys sends.                                                        *)
(***************************************************************************)
EXTENDS HttpError, FiniteSets

CONSTANTS
    Key,            \* key rows, numbered by their place in (created_at, id); clocks
                    \* disagree and ids are random, so a new row may come anywhere
    Client,         \* tenants
    Agent,          \* those who send requests and run commands
    Lister,         \* bound: the agents that list keys
    MaxLimit,       \* MAX_KEY_LIST_LIMIT
    MaxOffset,      \* the largest i64
    MaxName,        \* MAX_NAME_CHARS
    Bodies,         \* bodies of create requests
    Queries         \* query strings of list requests

ASSUME AdminAssumption ==
    /\ Key \subseteq Nat /\ IsFiniteSet(Key) /\ Cardinality(Key) <= MaxOffset
    /\ None \notin Key /\ None \notin Client
    /\ Lister \subseteq Agent
    /\ {MaxLimit, MaxOffset, MaxName} \subseteq Nat /\ MaxLimit < MaxOffset

VARIABLES
    rows,       \* api_keys: a row for each stored key
    clients,    \* the client rows
    req,        \* req[a]: the request or command of agent a; missing: what its
                \* walk through the inventory has yet to show
    shown       \* shown[k]: how often the credential of k was given out

vars == <<rows, clients, req, shown>>

Kinds == {"management", "inference"}

Idle == [pc |-> "idle"]

NoAnswer == [code |-> "none", key |-> None, keys |-> {}, has_more |-> FALSE]

Init ==
    /\ rows = [k \in {} |-> None]
    /\ clients = {}
    /\ req = [a \in Agent |-> Idle]
    /\ shown = [k \in Key |-> 0]

-----------------------------------------------------------------------------

active(k) == k \in DOMAIN rows /\ ~rows[k].revoked

\* Mutant: any key administrates.
require_management_Any(actor) == TRUE

require_management(actor) == actor.kind = "management"

\* trim and count: 1 to 128 characters.
validate_name(name) == name \in 1 .. MaxName

\* ApiJson: the refusals of the extractor, before the handler runs.
json_rejection(body) ==
    [json |-> "none", too_large |-> "PAYLOAD_TOO_LARGE", malformed |-> "INVALID_JSON",
     no_content_type |-> "UNSUPPORTED_MEDIA_TYPE"][body.framing]

\* An object with a string name and a known kind, no owner, nothing else.
parse_create_key_request_ok(body) ==
    body.fields = "known" /\ body.name # None /\ body.kind \in Kinds

\* A query is a sequence of named values; a value that is not an integer is None.
parse_list_keys_query_ok(query) ==
    /\ \A i, j \in DOMAIN query : query[i].name = query[j].name => i = j
    /\ \A i \in DOMAIN query :
          LET value == query[i].value IN
          \/ query[i].name = "limit" /\ value \in 1 .. MaxLimit
          \/ query[i].name = "offset" /\ value \in 0 .. MaxOffset
          \/ query[i].name = "kind" /\ value \in Kinds

given(query, name, default) ==
    IF \E i \in DOMAIN query : query[i].name = name
    THEN query[CHOOSE i \in DOMAIN query : query[i].name = name].value
    ELSE default

\* KeyListOptions and its defaults.
parse_list_keys_query(query) ==
    [limit |-> given(query, "limit", MaxLimit), offset |-> given(query, "offset", 0),
     kind |-> given(query, "kind", None)]

-----------------------------------------------------------------------------

inventory(client, kind) ==
    {k \in DOMAIN rows : rows[k].client = client /\ kind \in {None, rows[k].kind}}

\* ORDER BY created_at DESC, id DESC: how many come before k.
position(k, keys) == Cardinality({j \in keys : j > k})

\* LIMIT and OFFSET over the tenant's rows, revoked ones included.
list_keys_for_client(client, limit, offset, kind) ==
    LET keys == inventory(client, kind)
    IN  {k \in keys : position(k, keys) \in offset .. offset + limit - 1}

at(a, pc) == req[a].pc = pc

goto(a, pc) == req' = [req EXCEPT ![a].pc = pc]

respond(a, answer) == req' = [req EXCEPT ![a].pc = "respond", ![a].answer = answer]

Fresh(op) ==
    [pc |-> "done", op |-> op, credential |-> None, actor |-> None, order |-> None,
     answer |-> NoAnswer, missing |-> {}]

\* An answer that says nothing but its code; of the request nothing else matters then.
refuse(a, code) ==
    req' = [req EXCEPT ![a] = [Fresh("none") EXCEPT !.answer.code = code]]

\* From<ProvisionError>: a bad name is the client's; the command line only fails.
refuse_provision(a, op, error) ==
    refuse(a, IF op # "create" THEN "FAILED"
              ELSE auth_code[IF error = "InvalidName" THEN "InvalidInput"
                             ELSE "StoreUnavailable"])

\* ProvisioningService::create_tenant and issue_key up to the store.
issue(a, op, client, kind, name) ==
    IF validate_name(name)
    THEN \/ req' = [req EXCEPT ![a] =
                      [Fresh(op) EXCEPT !.pc = "insert",
                         !.credential = IF op = "create" THEN req[a].credential ELSE None,
                         !.order = [client |-> client, kind |-> kind]]]
         \/ refuse_provision(a, op, "EntropyUnavailable")
    ELSE refuse_provision(a, op, "InvalidName")

-----------------------------------------------------------------------------

\* Credentials that were given out can be presented; None is a header that is
\* missing, malformed or holds an unknown key.
Presentable == {k \in Key : shown[k] > 0} \cup {None}

\* auth_middleware: one step of the registry, or a store that does not answer, which
\* only a well-formed key, known or not, can run into.
authenticate(a, k, request) ==
    \/ /\ active(k)
       /\ req' = [req EXCEPT ![a] = [request EXCEPT !.pc = "handler", !.credential = k,
                    !.actor = [client |-> rows[k].client, kind |-> rows[k].kind]]]
    \/ ~active(k) /\ refuse(a, auth_code["InvalidCredentials"])
    \/ refuse(a, auth_code["StoreUnavailable"])

Request(a) ==
    /\ at(a, "idle")
    /\ \E k \in Presentable, op \in {"create", "list", "revoke"} :
          /\ op = "list" => a \in Lister
          /\ authenticate(a, k, Fresh(op))
    /\ UNCHANGED <<rows, clients, shown>>

\* connect_service, then the command: a new tenant (None), or a key of any tenant.
Command(a) ==
    /\ at(a, "idle")
    /\ \/ refuse(a, "FAILED")
       \/ \E name \in {0, MaxName} :
             \/ issue(a, "tenant", None, "management", name)
             \/ \E c \in Client, kind \in Kinds : issue(a, "issue", c, kind, name)
    /\ UNCHANGED <<rows, clients, shown>>

\* create_api_key: extractor, capability, body; the tenant is the caller's own.
create_api_key(a) ==
    /\ at(a, "handler") /\ req[a].op = "create"
    /\ \E body \in Bodies :
         LET actor == req[a].actor IN
           CASE json_rejection(body) # "none" -> refuse(a, json_rejection(body))
             [] json_rejection(body) = "none" /\ ~require_management(actor) ->
                  refuse(a, auth_code["CapabilityDenied"])
             [] json_rejection(body) = "none" /\ require_management(actor)
                  /\ ~parse_create_key_request_ok(body) ->
                  refuse(a, auth_code["InvalidInput"])
             [] OTHER -> issue(a, "create", actor.client, body.kind, body.name)
    /\ UNCHANGED <<rows, clients, shown>>

\* The inserts: a key for a client row that exists, or a new client with its key.
\* Ids and secrets are random, hence fresh.
stored(a, k) ==
    LET order == req[a].order IN
        \E c \in IF order.client = None THEN Client \ clients ELSE {order.client} :
          /\ order.client # None => c \in clients
          /\ clients' = clients \cup {c}
          /\ rows' = [j \in DOMAIN rows \cup {k} |->
                IF j = k THEN [client |-> c, kind |-> order.kind, revoked |-> FALSE]
                ELSE rows[j]]

\* Mutant: the secret is answered whether or not the insert was acknowledged.
Insert_Optimistic(a) ==
    /\ at(a, "insert")
    /\ \E k \in Key \ DOMAIN rows :
          /\ respond(a, [NoAnswer EXCEPT !.code = "SUCCESS", !.key = k])
          /\ stored(a, k) \/ UNCHANGED <<rows, clients>>
    /\ UNCHANGED shown

\* The insert is acknowledged, or takes effect without the caller learning of it,
\* or fails: an unknown client, a missing grant or a store that does not answer.
Insert(a) ==
    /\ at(a, "insert")
    /\ \/ \E k \in Key \ DOMAIN rows :
             /\ stored(a, k)
             /\ \/ respond(a, [NoAnswer EXCEPT !.code = "SUCCESS", !.key = k])
                \/ refuse_provision(a, req[a].op, "StoreUnavailable")
       \/ refuse_provision(a, req[a].op, "StoreUnavailable") /\ UNCHANGED <<rows, clients>>
    /\ UNCHANGED shown

\* list_api_keys up to the store: the bounds hold again in the service and the store.
\* A client that goes on to the next page sends its first query moved on.
list_api_keys(a) ==
    /\ at(a, "handler") /\ req[a].op = "list"
    /\ LET allowed == require_management(req[a].actor) IN
         \/ ~allowed /\ refuse(a, auth_code["CapabilityDenied"])
         \/ allowed /\ req[a].order # None /\ goto(a, "page")
         \/ /\ allowed /\ req[a].order = None
            /\ \E query \in Queries :
                 LET options == parse_list_keys_query(query) IN
                 IF parse_list_keys_query_ok(query)
                 THEN req' = [req EXCEPT ![a].pc = "page", ![a].order = options,
                                ![a].missing = IF options.offset # 0 THEN {}
                                  ELSE inventory(req[a].actor.client, options.kind)]
                 ELSE refuse(a, auth_code["InvalidInput"])
    /\ UNCHANGED <<rows, clients, shown>>

\* The page.  A short page is the last one, and so is one behind which no offset is left.
ListPage(a) ==
    /\ at(a, "page")
    /\ LET order == req[a].order
           keys == list_keys_for_client(req[a].actor.client, order.limit, order.offset,
                                        order.kind)
           page == [NoAnswer EXCEPT !.code = "SUCCESS", !.keys = keys]
       IN  \/ refuse(a, auth_code["StoreUnavailable"])
           \/ IF Cardinality(keys) = order.limit /\ order.offset + order.limit <= MaxOffset
              THEN req' = [req EXCEPT ![a].pc = "peek", ![a].answer = page]
              ELSE respond(a, page)
    /\ UNCHANGED <<rows, clients, shown>>

\* Mutant: the look behind the page skips a row.
Peek_Beyond(a) ==
    /\ at(a, "peek")
    /\ LET order == req[a].order
           more == list_keys_for_client(req[a].actor.client, 1,
                                        order.offset + order.limit + 1, order.kind) # {}
       IN  respond(a, [req[a].answer EXCEPT !.has_more = more])
    /\ UNCHANGED <<rows, clients, shown>>

\* The look behind the page, in a statement of its own.
Peek(a) ==
    /\ at(a, "peek")
    /\ LET order == req[a].order
           more == list_keys_for_client(req[a].actor.client, 1,
                                        order.offset + order.limit, order.kind) # {}
       IN  \/ respond(a, [req[a].answer EXCEPT !.has_more = more])
           \/ refuse(a, auth_code["StoreUnavailable"])
    /\ UNCHANGED <<rows, clients, shown>>

\* The update of a key of the caller's own tenant that is not revoked yet.
revoked(a) ==
    LET k == req[a].order IN
      IF active(k) /\ rows[k].client = req[a].actor.client
      THEN rows' = [rows EXCEPT ![k].revoked = TRUE]
      ELSE UNCHANGED rows

\* revoke_api_key: ApiPath, capability, then the store; an id that is no uuid is None.
revoke_api_key(a) ==
    /\ at(a, "handler") /\ req[a].op = "revoke"
    /\ \E target \in DOMAIN rows \cup {0, None} :
       CASE target = None -> refuse(a, "INVALID_PATH")
         [] target # None /\ ~require_management(req[a].actor) ->
              refuse(a, auth_code["CapabilityDenied"])
         [] OTHER -> req' = [req EXCEPT ![a].pc = "revoke", ![a].order = target]
    /\ UNCHANGED <<rows, clients, shown>>

\* One step of the registry: revoked now or before, no such key, or no answer.
Revoke(a) ==
    /\ at(a, "revoke")
    /\ \/ /\ revoked(a)
          /\ refuse(a, IF req[a].order \in inventory(req[a].actor.client, None)
                       THEN "SUCCESS" ELSE auth_code["KeyNotFound"])
       \/ revoked(a) /\ refuse(a, auth_code["StoreUnavailable"])
       \/ UNCHANGED rows /\ refuse(a, auth_code["StoreUnavailable"])
    /\ UNCHANGED <<clients, shown>>

\* created_key_response, print_json, or an error: the only place a secret leaves.
Respond(a) ==
    /\ at(a, "respond")
    /\ req' = [req EXCEPT ![a].pc = "done",
                 ![a].missing = @ \ req[a].answer.keys]
    /\ shown' = [k \in Key |-> IF k = req[a].answer.key THEN shown[k] + 1 ELSE shown[k]]
    /\ UNCHANGED <<rows, clients>>

\* The deadline of the request passes, its client goes away, or the command is
\* killed: the work is dropped, and with it a secret that was not sent.
Abandon(a) ==
    /\ req[a].pc \notin {"idle", "done", "adrift"}
    /\ LET code == IF req[a].op \in {"tenant", "issue"} THEN "FAILED"
                   ELSE auth_code["DeadlineExceeded"]
       IN  IF req[a].pc \in {"insert", "revoke"} THEN goto(a, "adrift") ELSE refuse(a, code)
    /\ UNCHANGED <<rows, clients, shown>>

\* The server still executes what was under way when its caller left, or does not.
Adrift(a) ==
    /\ at(a, "adrift")
    /\ \/ req[a].op = "revoke" /\ revoked(a) /\ UNCHANGED clients
       \/ req[a].op # "revoke" /\ \E k \in Key \ DOMAIN rows : stored(a, k)
       \/ UNCHANGED <<rows, clients>>
    /\ req' = [req EXCEPT ![a] = Fresh("none")]
    /\ UNCHANGED shown

\* The agent turns to something else, or asks for the next page: a new request
\* with the same credential, limit and kind.
Finish(a) ==
    /\ at(a, "done")
    /\ req' = [req EXCEPT ![a] = Idle]
    /\ UNCHANGED <<rows, clients, shown>>

NextPage(a) ==
    /\ at(a, "done") /\ req[a].answer.has_more
    /\ authenticate(a, req[a].credential,
          [req[a] EXCEPT !.answer = NoAnswer, !.order.offset = @ + req[a].order.limit])
    /\ UNCHANGED <<rows, clients, shown>>

Next ==
    \E a \in Agent :
      \/ Request(a) \/ Command(a)
      \/ create_api_key(a) \/ Insert(a)
      \/ list_api_keys(a) \/ ListPage(a) \/ Peek(a)
      \/ revoke_api_key(a) \/ Revoke(a)
      \/ Respond(a) \/ Abandon(a) \/ Adrift(a) \/ Finish(a) \/ NextPage(a)

Spec == Init /\ [][Next]_vars

-----------------------------------------------------------------------------

(* A client that pages through the inventory until it is told that nothing  *)
(* is left has seen every key of its tenant, and of the kind it asked for,  *)
(* that was there when it began, and no key of anybody else: although keys  *)
(* are created between the pages and between a page and the look behind it, *)
(* anywhere in the order since clocks disagree, and although keys are       *)
(* revoked meanwhile.                                                       *)
WalkIsComplete ==
    \A a \in Agent :
      at(a, "done") /\ req[a].op = "list" /\ req[a].answer.code = "SUCCESS" =>
        /\ req[a].answer.keys \subseteq inventory(req[a].actor.client, req[a].order.kind)
        /\ ~req[a].answer.has_more => req[a].missing = {}

(* Nobody gains or loses keys without authority: a key is created or        *)
(* revoked by a command of the operator or by a request that came with a    *)
(* management credential of the same tenant, whatever its body, path or     *)
(* query says and whatever happened since it was let in.                    *)
KeysAreVouchedFor ==
    [][\A k \in DOMAIN rows' :
         k \notin DOMAIN rows \/ rows'[k] # rows[k] =>
           \E a \in Agent :
             /\ req'[a] # req[a]
             /\ \/ req[a].op = "tenant" /\ rows'[k].client \notin clients
                \/ req[a].op = "issue" /\ k \notin DOMAIN rows
                \/ req[a].credential \in inventory(rows'[k].client, "management")]_vars

(* A credential leaves once: in the answer of the request or command that   *)
(* created it, for a key that is stored with the tenant and kind asked for; *)
(* what failed, timed out or was dropped shows none.                        *)
SecretsAreShownOnce ==
    /\ \A k \in Key : shown[k] <= 1 /\ (shown[k] = 1 => k \in DOMAIN rows)
    /\ \A a \in Agent :
          at(a, "done") /\ req[a].answer.key # None =>
            LET row == rows[req[a].answer.key] IN
              /\ req[a].answer.code = "SUCCESS"
              /\ row.kind = req[a].order.kind
              /\ req[a].order.client \in {None, row.client}
              /\ req[a].op = "create" => row.client = rows[req[a].credential].client
=============================================================================
