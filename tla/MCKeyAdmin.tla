------------------------------ MODULE MCKeyAdmin ------------------------------
(* KeyAdmin for TLC: one way out of each parser, and pages of one and two keys. *)
EXTENDS KeyAdmin, TLC

PlainBody == [framing |-> "json", fields |-> "known", name |-> 1, kind |-> "management"]

MCBodies ==
    {[PlainBody EXCEPT !.kind = kind] : kind \in Kinds \cup {"other"}}
    \cup {[PlainBody EXCEPT !.name = name] : name \in {None, 0, MaxName + 1}}
    \cup {[PlainBody EXCEPT !.framing = f] : f \in {"too_large", "malformed", "no_content_type"}}
    \cup {[PlainBody EXCEPT !.fields = f] : f \in {"no_object", "ownership", "unknown"}}

Par(name, value) == [name |-> name, value |-> value]

MCQueries ==
    {<<>>, <<Par("limit", 1)>>, <<Par("limit", 1), Par("kind", "management")>>,
     <<Par("limit", 1), Par("offset", MaxOffset)>>,
     <<Par("limit", 0)>>, <<Par("limit", MaxLimit + 1)>>, <<Par("offset", -1)>>,
     <<Par("offset", None)>>, <<Par("kind", None)>>, <<Par("client_id", None)>>,
     <<Par("limit", 1), Par("limit", 1)>>}

Symmetry == Permutations(Client)
=============================================================================
