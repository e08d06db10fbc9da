----------------------- MODULE MCStreamingExtractor -----------------------
(* A pattern with tags of two symbols that share one, so that tags begin and end anywhere  *)
(* in a chunk, and a pattern with fences, whose start tag begins with its end tag (as      *)
(* ```json and ``` of the json_tools and backtick_tools pattern sets).                     *)
EXTENDS StreamingExtractor

MCFences == [fence |-> [start |-> <<"/", "/", "t">>, end |-> <<"/", "/">>]]
MCPatterns == [tool |-> [start |-> <<"<", "t">>, end |-> <<"/", "t">>],
               fence |-> MCFences.fence]

\* The pattern with fences is not one the agreement is claimed for.
ASSUME MCTagsAssumption ==
    \A p \in Names : TagsApart(p) <=> p = "tool"
=============================================================================
