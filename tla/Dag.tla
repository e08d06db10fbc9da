-------------------------------- MODULE Dag --------------------------------
(***************************************************************************)
(* Operators on a directed acyclic graph given by its parent function      *)
(* (GraphRunner._parents): parents[n] is the set of nodes n depends on.    *)
(* Ancestors is defined as a least closed set and not by recursion, so     *)
(* that modules with theorems can use it.                                  *)
(***************************************************************************)
LOCAL INSTANCE Naturals

Children(parents, n) == {c \in DOMAIN parents : n \in parents[c]}

\* A set of nodes is closed when it holds every parent of its members.
IsClosed(parents, S) == \A m \in S : parents[m] \subseteq S

\* Everything reachable from n through parents: what the breadth-first search
\* of _has_failed_ancestor visits.  n itself is in it only on a cycle.
Ancestors(parents, n) ==
    {a \in DOMAIN parents :
        \A S \in SUBSET DOMAIN parents :
            (parents[n] \subseteq S /\ IsClosed(parents, S)) => a \in S}

\* What the depth-first search of _has_cycle decides.
HasCycle(parents) == \E n \in DOMAIN parents : n \in Ancestors(parents, n)
=============================================================================
