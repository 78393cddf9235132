------------------------------- MODULE MCServing ------------------------------
(* Serving for TLC: targets and models are interchangeable. *)
EXTENDS Serving, TLC

Prompt(chars, bytes) == [blank |-> chars = 0, chars |-> chars, bytes |-> bytes]

Spaces == [blank |-> TRUE, chars |-> 3, bytes |-> 3]

PlainBody ==
    [controls |-> "known", parameters |-> "valid", prompt |-> Prompt(1, 1), metadata |-> 2,
     route |-> Absent, allow_fallback |-> Absent, max_tokens |-> Absent]

\* Everything that steers routing together, everything else one at a time.
MCBodies ==
    {[PlainBody EXCEPT !.route = r, !.allow_fallback = a, !.max_tokens = m] :
        r \in RouteIds \cup {Absent, BadId}, a \in {Absent, FALSE}, m \in {Absent, 1, 2}}
    \cup OneAway(PlainBody,
            [controls |-> {"no_object", "wrong_type", "stream", "rewrite", "unknown"},
             parameters |-> {"out_of_range"}, allow_fallback |-> {TRUE},
             prompt |-> {Absent, Prompt(0, 0), Spaces, Prompt(1, 2), Prompt(4000, 4000),
                         Prompt(4000, 4001), Prompt(4001, 4001)},
             metadata |-> {Absent, 1000, 1001}, max_tokens |-> {0, 3}])

Symmetry == Permutations(TargetIds) \cup Permutations(Models)
=============================================================================
