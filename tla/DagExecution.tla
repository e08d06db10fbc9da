---------------------------- MODULE DagExecution ----------------------------
(***************************************************************************)
(* What one execution of a graph promises, with no queues, tasks or event  *)
(* loop: a node starts once, after all the nodes it depends on, at most    *)
(* MaxConcurrency run at a time, and the failure strategy alone decides    *)
(* which nodes are skipped.  GraphRunner implements it.                    *)
(***************************************************************************)
EXTENDS Naturals, FiniteSets, Dag

CONSTANTS Nodes,            \* the node ids a graph may use
          MaxConcurrency,   \* GraphConfig.max_concurrency
          Strategies        \* the failure strategies to consider

VARIABLES strategy,         \* GraphConfig.failure_strategy
          nodes,            \* the nodes added so far
          parents,          \* the dependencies of each node
          runOnFailure,     \* the nodes with run_on_failure=True
          status            \* the state of each node

vars == <<strategy, nodes, parents, runOnFailure, status>>

Terminal == {"COMPLETED", "FAILED", "SKIPPED"}
InState(s) == {n \in nodes : status[n] = s}

Init ==
    /\ strategy \in Strategies
    /\ nodes = {}
    /\ parents = [n \in Nodes |-> {}]
    /\ runOnFailure = {}
    /\ status = [n \in Nodes |-> "PENDING"]

\* The failures that forbid n to run.
Blocking(n) ==
    {f \in InState("FAILED") :
        /\ n \notin runOnFailure
        /\ \/ strategy = "fail_fast"
           \/ strategy = "allow_independent" /\ f \in Ancestors(parents, n)}

\* The graph is built before any node starts.
AddNode(n) ==
    /\ n \notin nodes
    /\ InState("PENDING") = nodes
    /\ nodes' = nodes \cup {n}
    /\ \E deps \in SUBSET nodes : parents' = [parents EXCEPT ![n] = deps]
    /\ runOnFailure' \in {runOnFailure, runOnFailure \cup {n}}
    /\ UNCHANGED <<strategy, status>>

Start(n) ==
    /\ status[n] = "PENDING"
    /\ \A p \in parents[n] : status[p] \in Terminal
    /\ Blocking(n) = {}
    /\ Cardinality(InState("RUNNING")) < MaxConcurrency
    /\ status' = [status EXCEPT ![n] = "RUNNING"]
    /\ UNCHANGED <<strategy, nodes, parents, runOnFailure>>

Finish(n) ==
    /\ status[n] = "RUNNING"
    /\ \E outcome \in {"COMPLETED", "FAILED"} : status' = [status EXCEPT ![n] = outcome]
    /\ UNCHANGED <<strategy, nodes, parents, runOnFailure>>

\* Several nodes may be given up at once, each because of a failure.
Skip(S) ==
    /\ S # {}
    /\ \A n \in S : status[n] = "PENDING" /\ Blocking(n) # {}
    /\ status' = [n \in Nodes |-> IF n \in S THEN "SKIPPED" ELSE status[n]]
    /\ UNCHANGED <<strategy, nodes, parents, runOnFailure>>

Next ==
    \/ \E n \in Nodes : AddNode(n)
    \/ \E n \in nodes : Start(n) \/ Finish(n)
    \/ \E S \in SUBSET nodes : Skip(S)

Spec == Init /\ [][Next]_vars
=============================================================================
