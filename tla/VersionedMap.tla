---------------------------- MODULE VersionedMap ----------------------------
(***************************************************************************)
(* What a context store promises: each key has a history of versions, a    *)
(* write appends one or replaces the last one, and whatever happens during *)
(* a write the history before it is not touched.  Only clear forgets       *)
(* versions, and a key is gone when all of them are forgotten.             *)
(* ContextStore implements it.                                             *)
(***************************************************************************)
EXTENDS Naturals, Sequences

CONSTANTS Keys,       \* context keys
          Values,     \* what is stored
          Tombstone,  \* the version that marks a deletion
          Absent      \* a forgotten version

VARIABLE hist         \* the versions of each key, oldest first

Init == hist = [k \in Keys |-> <<>>]

\* set, delete, and update of a key that does not exist.
AddVersion(k, x) == hist' = [hist EXCEPT ![k] = Append(@, x)]

\* update.
ReplaceLast(k, x) ==
    /\ hist[k] # <<>>
    /\ hist' = [hist EXCEPT ![k][Len(hist[k])] = x]

\* clear, one version at a time.
Forget(k, v) == hist' = [hist EXCEPT ![k][v] = Absent]

Drop(k) ==
    /\ \A v \in 1..Len(hist[k]) : hist[k][v] = Absent
    /\ hist' = [hist EXCEPT ![k] = <<>>]

Next == \E k \in Keys :
    \/ \E x \in Values \cup {Tombstone} : AddVersion(k, x)
    \/ \E x \in Values : ReplaceLast(k, x)
    \/ \E v \in 1..Len(hist[k]) : Forget(k, v)
    \/ Drop(k)

Spec == Init /\ [][Next]_hist
=============================================================================
