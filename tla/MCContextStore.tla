-------------------------- MODULE MCContextStore --------------------------
(* ContextStore with interchangeable keys and values. *)
EXTENDS ContextStore, TLC

KeyValueSymmetry == Permutations(Keys) \cup Permutations(Values)
=============================================================================
