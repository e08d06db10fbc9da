---------------------------- MODULE GraphRunner ----------------------------
(***************************************************************************)
(* GraphRunner (src/agentic/graph.py): the scheduler that executes a DAG   *)
(* of nodes inside one asyncio event loop.                                 *)
(*                                                                         *)
(* The actors are the run_stream generator (one pc, whose values are the   *)
(* points where it is suspended, plus "schedule", which is not), one task  *)
(* per running node, and the consumer of the stream, which decides when    *)
(* the generator resumes and may close it.  Node tasks take steps only     *)
(* while the generator is suspended: asyncio switches only at an await.    *)
(*                                                                         *)
(* Abstracted: what an event carries, the order in which the children of   *)
(* one node (or the roots, or the nodes of one mass skip) enter a queue,   *)
(* retries and the rate limiter inside a node (they only delay a step of   *)
(* its task), nodes without an output_key (nobody looks for their output), *)
(* error texts, repeated ids in a dependency list (counted twice in both   *)
(* _indegree and _children, so they cancel out), and, after a close, the   *)
(* wait of the finally block for the tasks it cancelled, which nobody      *)
(* hears of any more.                                                      *)
(***************************************************************************)
EXTENDS Integers, Sequences, SequencesExt, FiniteSets, Dag

CONSTANTS
    Nodes,            \* the node ids a graph may use
    NoNode,           \* the value of an unset node_id
    MaxConcurrency,   \* GraphConfig.max_concurrency
    Strategies,       \* the failure strategies to consider
    MaxNodeEvents,    \* bound: stream events one node task emits
    MaxRuns,          \* bound: calls of run_stream on one runner
    SoftFail,         \* whether nodes with failure_mode="soft_fail" are considered
    MayClose,         \* whether the consumer may close the stream early
    MayCancel         \* whether a node may end in asyncio.CancelledError

AllStrategies == {"fail_fast", "allow_independent", "always_run"}

ASSUME ConcurrencyAssumption == MaxConcurrency \in Nat \ {0}
ASSUME BoundsAssumption == MaxNodeEvents \in Nat /\ MaxRuns \in Nat
ASSUME NodesAssumption == IsFiniteSet(Nodes) /\ NoNode \notin Nodes
ASSUME StrategiesAssumption == Strategies \subseteq AllStrategies
ASSUME SwitchesAssumption ==
    SoftFail \in BOOLEAN /\ MayClose \in BOOLEAN /\ MayCancel \in BOOLEAN

VARIABLES
    strategy,       \* _config.failure_strategy
    nodes,          \* keys of _nodes
    parents,        \* _parents (and, inverted, _children)
    runOnFailure,   \* nodes whose run_on_failure is set
    softFail,       \* nodes whose failure_mode is "soft_fail"
    indegree,       \* _indegree
    status,         \* _status
    run,            \* how many times run_stream was called
    pc,             \* where run_stream is
    cur,            \* its local node_id across a yield (NoNode when no longer read)
    ready,          \* its local ready_queue
    events,         \* its local events_queue
    active,         \* the keys of its local active_tasks
    graphFailed,    \* its local graph_failed
    alive,          \* the nodes whose asyncio task has not ended
    emitted,        \* stream events each running node task has put
    result,         \* what each node's executable returned; "none" after an error
    written,        \* nodes whose output_key was written to the context
    graphStatus,    \* the verdict of GraphCompleteEvent, "none" before it
    saved,          \* the state summary persisted to the context
    settled,        \* ghost: nodes whose completion was handled in this run
    reported        \* ghost: nodes a GraphNodeCompleteEvent was yielded for in this run

config  == <<strategy, nodes, parents, runOnFailure, softFail>>
queues  == <<ready, events>>
tasks   == <<alive, emitted, result, written>>
results == <<graphStatus, saved, reported>>
vars == <<config, indegree, status, run, pc, cur, queues, active, graphFailed, tasks,
          settled, results>>

Status == {"PENDING", "RUNNING", "COMPLETED", "FAILED", "SKIPPED"}
Terminal == {"COMPLETED", "FAILED", "SKIPPED"}
NoState == [status |-> "none", nodes |-> <<>>]

\* What goes through events_queue: a node's own stream events, the skip notices of
\* _skip_all_pending_nodes, and the internal end-of-task signal.
StreamEvent(n)         == [kind |-> "stream", node |-> n, status |-> "RUNNING"]
SkipEvent(n)           == [kind |-> "skip", node |-> n, status |-> "SKIPPED"]
FinishedEvent(n, s)    == [kind |-> "finished", node |-> n, status |-> s]
Event == [kind : {"stream", "skip", "finished"}, node : Nodes, status : Status]

\* Where run_stream is suspended with node tasks possibly running: at a yield, or in
\* wait_for(events_queue.get()).
Suspended == {"skip", "launch", "wait", "forward", "settle", "complete"}

InState(s) == {n \in nodes : status[n] = s}

Init ==
    /\ strategy \in Strategies
    /\ nodes = {}
    /\ parents = [n \in Nodes |-> {}]
    /\ runOnFailure = {}
    /\ softFail = {}
    /\ indegree = [n \in Nodes |-> 0]
    /\ status = [n \in Nodes |-> "PENDING"]
    /\ run = 0
    /\ pc = "idle"
    /\ cur = NoNode
    /\ ready = <<>>
    /\ events = <<>>
    /\ active = {}
    /\ graphFailed = FALSE
    /\ alive = {}
    /\ emitted = [n \in Nodes |-> 0]
    /\ result = [n \in Nodes |-> "none"]
    /\ written = {}
    /\ graphStatus = "none"
    /\ saved = NoState
    /\ settled = {}
    /\ reported = {}

-----------------------------------------------------------------------------
(* Building the graph.                                                     *)

\* add_node: parents must exist already; a node that would close a cycle is rolled back.
AddNode(n) ==
    /\ pc = "idle" /\ run = 0
    /\ n \notin nodes
    /\ \E deps \in SUBSET nodes :
        /\ parents' = [parents EXCEPT ![n] = deps]
        /\ ~HasCycle(parents')
        /\ indegree' = [indegree EXCEPT ![n] = Cardinality(deps)]
    /\ nodes' = nodes \cup {n}
    /\ status' = [status EXCEPT ![n] = "PENDING"]
    /\ runOnFailure' \in {runOnFailure, runOnFailure \cup {n}}
    /\ softFail' \in {softFail} \cup (IF SoftFail THEN {softFail \cup {n}} ELSE {})
    /\ UNCHANGED <<strategy, run, pc, cur, queues, active, graphFailed, tasks, settled,
                   results>>

-----------------------------------------------------------------------------
(* run_stream.                                                             *)

\* run_stream is called and yields GraphStartEvent.  The queues, active_tasks and
\* graph_failed are new; _status and _indegree are not reset.
BeginRun ==
    /\ pc = "idle" /\ run < MaxRuns
    /\ nodes # {}
    /\ run' = run + 1
    /\ pc' = "start"
    /\ graphFailed' = FALSE
    /\ graphStatus' = "none"
    /\ settled' = {}
    /\ reported' = {}
    /\ UNCHANGED <<config, indegree, status, cur, queues, active, tasks, saved>>

\* On a graph with no nodes it yields start and success and persists nothing.
RunEmpty ==
    /\ pc = "idle" /\ run < MaxRuns
    /\ nodes = {}
    /\ run' = run + 1
    /\ graphStatus' = "success"
    /\ UNCHANGED <<config, indegree, status, pc, cur, queues, active, graphFailed, tasks,
                   settled,
                   saved, reported>>

\* Mutant: ids whose node was rolled back keep an indegree entry.
FillReadyWithStaleIds ==
    /\ pc = "start"
    /\ ready' \in SetToSeqs({n \in Nodes : indegree[n] = 0})
    /\ pc' = "schedule"
    /\ UNCHANGED <<config, indegree, status, run, cur, events, active, graphFailed, tasks,
                   settled, results>>

\* Nodes with no dependency enter the ready queue.
FillReady ==
    /\ pc = "start"
    /\ ready' \in SetToSeqs({n \in nodes : indegree[n] = 0})
    /\ pc' = "schedule"
    /\ UNCHANGED <<config, indegree, status, run, cur, events, active, graphFailed, tasks,
                   settled, results>>

\* Mutant: off by one.
CanScheduleOneMore == Cardinality(active) <= MaxConcurrency /\ ready # <<>>

CanSchedule == Cardinality(active) < MaxConcurrency /\ ready # <<>>

\* Mutant: only the direct parents are looked at.
HasFailedParent(n) == parents[n] \cap InState("FAILED") # {}

HasFailedAncestor(n) == Ancestors(parents, n) \cap InState("FAILED") # {}

\* Mutant: the strategy is not consulted.
ShouldSkipUnderAnyStrategy(n) == n \notin runOnFailure /\ HasFailedAncestor(n)

ShouldSkipNode(n) ==
    /\ n \notin runOnFailure
    /\ strategy = "allow_independent"
    /\ HasFailedAncestor(n)

StoppedByFailFast(n) ==
    graphFailed /\ strategy = "fail_fast" /\ n \notin runOnFailure

\* Mutant: off by one, a child is released one dependency early, and again.
ReleaseEarly(n) ==
    /\ indegree' = [c \in Nodes |-> IF n \in parents[c] THEN indegree[c] - 1 ELSE indegree[c]]
    /\ \E released \in SetToSeqs({c \in Children(parents, n) : indegree[c] \in {1, 2}}) :
            ready' = ready \o released
    /\ settled' = settled \cup {n}

\* Each child loses one dependency; those left with none become ready.
HandleNodeCompletion(n) ==
    /\ indegree' = [c \in Nodes |-> IF n \in parents[c] THEN indegree[c] - 1 ELSE indegree[c]]
    /\ \E released \in SetToSeqs({c \in Children(parents, n) : indegree[c] = 1}) :
            ready' = ready \o released
    /\ settled' = settled \cup {n}

\* The node taken from the ready queue is skipped: status, then the yield ...
SkipReady ==
    /\ pc = "schedule" /\ CanSchedule
    /\ StoppedByFailFast(Head(ready)) \/ ShouldSkipNode(Head(ready))
    /\ cur' = Head(ready)
    /\ ready' = Tail(ready)
    /\ status' = [status EXCEPT ![cur'] = "SKIPPED"]
    /\ reported' = reported \cup {cur'}
    /\ pc' = "skip"
    /\ UNCHANGED <<config, indegree, run, events, active, graphFailed, tasks, settled,
                   graphStatus, saved>>

\* Mutant: a skipped node does not release its children.
SkipResumeReleasingNothing ==
    /\ pc = "skip"
    /\ cur' = NoNode
    /\ pc' = "schedule"
    /\ UNCHANGED <<config, indegree, status, run, queues, active, graphFailed, tasks,
                   settled, results>>

\* ... and, once the consumer resumes the stream, its children are released.
SkipResume ==
    /\ pc = "skip"
    /\ HandleNodeCompletion(cur)
    /\ cur' = NoNode
    /\ pc' = "schedule"
    /\ UNCHANGED <<config, status, run, events, active, graphFailed, tasks, results>>

\* The node taken from the ready queue is to run: status, then the yield ...
StartNode ==
    /\ pc = "schedule" /\ CanSchedule
    /\ ~(StoppedByFailFast(Head(ready)) \/ ShouldSkipNode(Head(ready)))
    /\ cur' = Head(ready)
    /\ ready' = Tail(ready)
    /\ status' = [status EXCEPT ![cur'] = "RUNNING"]
    /\ pc' = "launch"
    /\ UNCHANGED <<config, indegree, run, events, active, graphFailed, tasks, settled, results>>

\* ... and, once resumed, its task is created.
LaunchNode ==
    /\ pc = "launch"
    /\ active' = active \cup {cur}
    /\ alive' = alive \cup {cur}
    /\ result' = [result EXCEPT ![cur] = "none"]
    /\ cur' = NoNode
    /\ pc' = "schedule"
    /\ UNCHANGED <<config, indegree, status, run, queues, graphFailed, emitted, written,
                   settled, results>>

\* Nothing can be scheduled: wait for an event.
AwaitEvent ==
    /\ pc = "schedule" /\ ~CanSchedule
    /\ events # <<>> \/ active # {}
    /\ pc' = "wait"
    /\ UNCHANGED <<config, indegree, status, run, cur, queues, active, graphFailed, tasks,
                   settled, results>>

\* wait_for gave up after 0.1 s; the loop turns once more.
WaitTimeout ==
    /\ pc = "wait" /\ events = <<>>
    /\ pc' = "schedule"
    /\ UNCHANGED <<config, indegree, status, run, cur, queues, active, graphFailed, tasks,
                   settled, results>>

\* A node's task has ended: record its status, then yield its GraphNodeCompleteEvent ...
ReceiveFinished ==
    /\ pc = "wait" /\ events # <<>>
    /\ Head(events).kind = "finished"
    /\ cur' = Head(events).node
    /\ status' = [status EXCEPT ![cur'] = Head(events).status]
    /\ graphFailed' = (graphFailed \/ Head(events).status = "FAILED")
    /\ events' = Tail(events)
    /\ reported' = reported \cup {cur'}
    /\ pc' = "settle"
    /\ UNCHANGED <<config, indegree, run, ready, active, tasks, settled, graphStatus, saved>>

\* Mutant: nodes already running are given up too.
SkipAllUnfinishedNodes ==
    LET skipped == (InState("PENDING") \cup InState("RUNNING")) \ runOnFailure
    IN  /\ status' = [n \in Nodes |-> IF n \in skipped THEN "SKIPPED" ELSE status[n]]
        /\ \E order \in SetToSeqs(skipped) :
                events' = events \o [i \in 1..Len(order) |-> SkipEvent(order[i])]

\* The nodes a failure gives up under fail_fast, with a skip notice for each.
SkipAllPendingNodes ==
    LET skipped == InState("PENDING") \ runOnFailure
    IN  /\ status' = [n \in Nodes |-> IF n \in skipped THEN "SKIPPED" ELSE status[n]]
        /\ \E order \in SetToSeqs(skipped) :
                events' = events \o [i \in 1..Len(order) |-> SkipEvent(order[i])]

\* Mutant: the task is not removed from active_tasks.
SettleKeepingTask ==
    /\ pc = "settle"
    /\ HandleNodeCompletion(cur)
    /\ IF status[cur] = "FAILED" /\ strategy = "fail_fast"
       THEN SkipAllPendingNodes
       ELSE UNCHANGED <<status, events>>
    /\ cur' = NoNode
    /\ pc' = "schedule"
    /\ UNCHANGED <<config, run, active, graphFailed, tasks, results>>

\* ... and, once resumed, drop the task, release the children and apply fail_fast.
Settle ==
    /\ pc = "settle"
    /\ active' = active \ {cur}
    /\ HandleNodeCompletion(cur)
    /\ IF status[cur] = "FAILED" /\ strategy = "fail_fast"
       THEN SkipAllPendingNodes
       ELSE UNCHANGED <<status, events>>
    /\ cur' = NoNode
    /\ pc' = "schedule"
    /\ UNCHANGED <<config, run, graphFailed, tasks, results>>

\* Any other event is yielded as it is.
ForwardEvent ==
    /\ pc = "wait" /\ events # <<>>
    /\ Head(events).kind # "finished"
    /\ reported' = IF Head(events).kind = "skip"
                   THEN reported \cup {Head(events).node} ELSE reported
    /\ events' = Tail(events)
    /\ pc' = "forward"
    /\ UNCHANGED <<config, indegree, status, run, cur, ready, active, graphFailed, tasks,
                   settled,
                   graphStatus, saved>>

ForwardResume ==
    /\ pc = "forward"
    /\ pc' = "schedule"
    /\ UNCHANGED <<config, indegree, status, run, cur, queues, active, graphFailed, tasks,
                   settled, results>>

\* Mutant: failures are not counted.
VerdictOfPending == IF InState("PENDING") = {} THEN "success" ELSE "failed"

Verdict ==
    IF InState("FAILED") # {}
    THEN IF strategy = "fail_fast" THEN "failed" ELSE "partial_failure"
    ELSE IF InState("PENDING") = {} THEN "success" ELSE "failed"

\* No task, nothing ready, no event: yield GraphCompleteEvent with the verdict ...
CompleteGraph ==
    /\ pc = "schedule"
    /\ active = {} /\ ready = <<>> /\ events = <<>>
    /\ graphStatus' = Verdict
    /\ pc' = "complete"
    /\ UNCHANGED <<config, indegree, status, run, cur, queues, active, graphFailed, tasks,
                   settled,
                   saved, reported>>

\* ... and, once resumed, persist the summary.
PersistState ==
    /\ pc = "complete"
    /\ saved' = [status |-> graphStatus, nodes |-> [n \in nodes |-> status[n]]]
    /\ pc' = "idle"
    /\ UNCHANGED <<config, indegree, status, run, cur, queues, active, graphFailed, tasks,
                   settled,
                   graphStatus, reported>>

\* The consumer closes the stream (or is cancelled): the finally block cancels every
\* task, the queues are dropped and _status stays as it is.
CloseStream ==
    /\ MayClose
    /\ pc \in Suspended \cup {"start"}
    /\ active' = {}
    /\ alive' = {}
    /\ emitted' = [n \in Nodes |-> 0]
    /\ result' = [n \in Nodes |-> IF n \in alive THEN "none" ELSE result[n]]
    /\ ready' = <<>>
    /\ events' = <<>>
    /\ cur' = NoNode
    /\ pc' = "idle"
    /\ UNCHANGED <<config, indegree, status, run, graphFailed, written, settled, results>>

RunStream ==
    \/ BeginRun \/ RunEmpty \/ FillReady
    \/ SkipReady \/ SkipResume \/ StartNode \/ LaunchNode
    \/ AwaitEvent \/ WaitTimeout
    \/ ReceiveFinished \/ Settle \/ ForwardEvent \/ ForwardResume
    \/ CompleteGraph \/ PersistState

-----------------------------------------------------------------------------
(* _execute_node: the task of a node.                                      *)

TaskMayStep(n) == pc \in Suspended /\ n \in alive

\* A stream event is passed on.  A StepCompleteEvent of an AgentRunner or LogicRunner is also
\* kept as last_result, good or with an error status; for a callable nobody reads it.
NodeEmits(n) ==
    /\ TaskMayStep(n)
    /\ emitted[n] < MaxNodeEvents
    /\ emitted' = [emitted EXCEPT ![n] = @ + 1]
    /\ events' = Append(events, StreamEvent(n))
    /\ \E r \in {result[n], "ok", "error"} : result' = [result EXCEPT ![n] = r]
    /\ UNCHANGED <<config, indegree, status, run, pc, cur, ready, active, graphFailed, alive,
                   written, settled, results>>

\* The task of n ends, holding result r.
EndTask(n, r) ==
    /\ TaskMayStep(n)
    /\ alive' = alive \ {n}
    /\ emitted' = [emitted EXCEPT ![n] = 0]
    /\ result' = [result EXCEPT ![n] = r]
    /\ UNCHANGED <<config, indegree, status, run, pc, cur, ready, active, graphFailed,
                   settled, results>>

\* What a node that ends without an error holds: the last_result of a runner, or the value a
\* callable returns.  A runner that yielded no StepCompleteEvent and a callable that returned
\* an async iterator complete with nothing.
Outcomes(n) == IF result[n] = "none" THEN {"none", "ok"} ELSE {result[n]} \ {"error"}

\* Mutant: the output is not written.
NodeSucceedsSilently(n) ==
    /\ \E r \in Outcomes(n) : EndTask(n, r)
    /\ events' = Append(events, FinishedEvent(n, "COMPLETED"))
    /\ UNCHANGED written

\* The output, if there is one, is written before the end of the task is signalled.
NodeSucceeds(n) ==
    /\ \E r \in Outcomes(n) :
            /\ EndTask(n, r)
            /\ written' = IF r = "ok" THEN written \cup {n} ELSE written
    /\ events' = Append(events, FinishedEvent(n, "COMPLETED"))

\* An exception, or an agent result with an error status: no output, and a soft_fail node
\* still counts as COMPLETED.
NodeErrors(n) ==
    /\ EndTask(n, "none")
    /\ events' = Append(events,
                    FinishedEvent(n, IF n \in softFail THEN "COMPLETED" ELSE "FAILED"))
    /\ UNCHANGED written

\* asyncio.CancelledError is not an Exception: the task ends with no signal at all.
NodeCancelled(n) ==
    /\ MayCancel
    /\ EndTask(n, "none")
    /\ UNCHANGED <<events, written>>

NodeEnds(n) == NodeSucceeds(n) \/ NodeErrors(n) \/ NodeCancelled(n)

Next ==
    \/ RunStream
    \/ CloseStream
    \/ \E n \in Nodes : AddNode(n) \/ NodeEmits(n) \/ NodeEnds(n)

Spec == Init /\ [][Next]_vars

\* The event loop runs what is runnable and the consumer keeps asking for the next
\* event; a node's task ends by itself (nothing in GraphRunner bounds its time).  A task
\* can step only while run_stream is suspended, which it is again and again: hence SF.
\* Calling run_stream is the caller's choice and has no fairness.
Fairness ==
    /\ WF_vars(RunStream /\ pc # "idle")
    /\ \A n \in Nodes : SF_vars(NodeEnds(n))

FairSpec == Spec /\ Fairness

-----------------------------------------------------------------------------
(* Properties.  _status and _indegree survive a run, so what is promised   *)
(* about order is promised for the first call of run_stream on a runner.   *)

\* Each variable holds a value of its type.
TypeOK ==
    /\ strategy \in Strategies
    /\ nodes \subseteq Nodes
    /\ parents \in [Nodes -> SUBSET Nodes]
    /\ runOnFailure \subseteq nodes
    /\ softFail \subseteq nodes
    /\ indegree \in [Nodes -> Int]
    /\ status \in [Nodes -> Status]
    /\ run \in 0..MaxRuns
    /\ pc \in Suspended \cup {"idle", "start", "schedule"}
    /\ cur \in nodes \cup {NoNode}
    /\ ready \in Seq(nodes)
    /\ events \in Seq(Event)
    /\ active \subseteq nodes
    /\ graphFailed \in BOOLEAN
    /\ alive \subseteq nodes
    /\ emitted \in [Nodes -> 0..MaxNodeEvents]
    /\ result \in [Nodes -> {"none", "ok", "error"}]
    /\ written \subseteq nodes
    /\ graphStatus \in {"none", "success", "failed", "partial_failure"}
    /\ settled \subseteq nodes
    /\ reported \subseteq nodes

\* max_concurrency bounds the node tasks that exist at any time, also across the yield
\* between the check of active_tasks and the creation of the task, and no task runs that
\* active_tasks does not hold (the finally block would miss it).
ConcurrencyBound == Cardinality(active) <= MaxConcurrency /\ alive \subseteq active

\* A node's task runs only when everything it depends on, directly or not, has ended: the
\* indegree counters release a node neither early nor through a skipped intermediate node.
StartsAfterAncestors ==
    run <= 1 => \A n \in alive : \A a \in Ancestors(parents, n) :
                    status[a] \in Terminal /\ a \notin alive

\* The completion of a node is handled once, also when fail_fast gave the node up before it
\* came out of the ready queue: no dependency is counted down twice.
CompletionHandledOnce == pc \in {"skip", "settle"} => cur \notin settled

\* A running node finds in the context the output of every node it depends on that completed
\* with something to hand on: a runner's good last_result or a callable's value.  (A node may
\* complete with neither, or after a soft failure; then there is nothing to find.)
InputsAvailable ==
    \A n \in alive : \A p \in parents[n] :
        status[p] = "COMPLETED" /\ result[p] = "ok" => p \in written

\* The nodes that depend on a failed node, through any chain of nodes.
BelowAFailure(n) == \E a \in Ancestors(parents, n) : a \in nodes /\ status[a] = "FAILED"

\* Unless the strategy is always_run, nothing runs or has run below a failed node except
\* run_on_failure nodes, however far below and through whatever nodes between.
NothingRunsBelowAFailure ==
    run <= 1 /\ strategy # "always_run" =>
        \A n \in nodes \ runOnFailure :
            status[n] \in {"RUNNING", "COMPLETED", "FAILED"} => ~BelowAFailure(n)

\* A node is given up only because of a failure its strategy makes it answer for.
SkippedOnlyForAFailure ==
    run <= 1 =>
        \A n \in InState("SKIPPED") :
            /\ n \notin runOnFailure
            /\ strategy # "always_run"
            /\ InState("FAILED") # {}
            /\ strategy = "allow_independent" => BelowAFailure(n)

\* When GraphCompleteEvent is yielded every node has ended and the consumer has been told so;
\* run_on_failure nodes did run, and under allow_independent so did every node with no
\* failed ancestor ("pending" is 0: the last branch of the verdict is not taken).
CompleteAccountsForAllNodes ==
    run <= 1 /\ pc = "complete" =>
        /\ \A n \in nodes : status[n] \in Terminal /\ n \in reported
        /\ InState("SKIPPED") \cap runOnFailure = {}
        /\ graphStatus = "success" => InState("SKIPPED") = {}
        /\ strategy = "always_run" => InState("SKIPPED") = {}

\* The summary in the context describes a finished graph: its verdict agrees with the node
\* statuses saved beside it.
SavedStateIsConsistent ==
    saved # NoState /\ run <= 1 =>
        /\ \A n \in DOMAIN saved.nodes : saved.nodes[n] \in Terminal
        /\ saved.status = "success" <=> \A n \in DOMAIN saved.nodes : saved.nodes[n] = "COMPLETED"

\* A call of run_stream whose consumer stays and whose nodes all end reaches its
\* GraphCompleteEvent: the loop does not wait for a node that will never be released.
RunCompletes == pc = "start" ~> pc = "complete"

\* The scheduler implements the abstract execution (for the first run).
Abstract == INSTANCE DagExecution
ImplementsDagExecution == Abstract!Spec

-----------------------------------------------------------------------------
(* What the documentation says and the code does not do.                   *)

\* "Stop scheduling new nodes immediately when any node fails": once a node's task has
\* ended in failure, no node without run_on_failure starts under fail_fast.
FailFastStopsImmediately ==
    [][ (/\ strategy = "fail_fast"
         /\ \E i \in DOMAIN events : events[i].kind = "finished" /\ events[i].status = "FAILED")
        => \A n \in nodes \ runOnFailure :
              status'[n] = "RUNNING" => status[n] = "RUNNING" ]_vars
=============================================================================
