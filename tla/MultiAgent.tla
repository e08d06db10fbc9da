----------------------------- MODULE MultiAgent -----------------------------
(***************************************************************************)
(* The multi-agent patterns together (src/agentic/multi_agent.py): a       *)
(* caller uses one of them.  ParallelPattern and Conversations own their   *)
(* variables; the part that is not used stays idle.                        *)
(***************************************************************************)
EXTENDS ParallelPattern, Conversations

Init == ParallelInit /\ ConversationInit

Next ==
    \/ at = "idle" /\ ParallelNext /\ UNCHANGED conversationVars
    \/ pc = "idle" /\ ConversationNext /\ UNCHANGED parallelVars

Spec ==
    /\ Init
    /\ [][Next]_<<parallelVars, conversationVars>>
    /\ ParallelFairness /\ ConversationFairness

\* Each variable holds a value of its type; in particular no agent is counted as finished twice.
TypeOK == ParallelTypeOK /\ ConversationTypeOK

=============================================================================
