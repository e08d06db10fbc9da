------------------------- MODULE GraphSafetyProofs -------------------------
(***************************************************************************)
(* Theorems about the statuses GraphRunner keeps, on top of the scheduler  *)
(* invariant of GraphProofs.                                               *)
(*                                                                         *)
(* WellFoundedInv: the graph as add_node builds it has, in every set of    *)
(* nodes, one with no dependency in the set.  WrittenInv: an output is     *)
(* written before its node is seen COMPLETED.  FirstRunInv, about the      *)
(* first call of run_stream: which stage a node with a given status is in, *)
(* that what has started has all its dependencies settled, that a failure  *)
(* is never forgotten and that a skip answers for one, that no node is     *)
(* lost between the queues, and what is true when the verdict is given.    *)
(***************************************************************************)
EXTENDS GraphProofs

-----------------------------------------------------------------------------
(* The inductive invariant.                                                *)

Started(n) == status[n] \in {"RUNNING", "COMPLETED", "FAILED"}

\* Dependencies exist when a node is added, and so never lead back to it.
WellFoundedInv ==
    /\ \A n \in Nodes : parents[n] \subseteq nodes
    /\ \A S \in SUBSET nodes : S # {} => \E n \in S : parents[n] \cap S = {}

\* A node is signalled, and then recorded, as COMPLETED once its output is written; until its
\* task has ended it is RUNNING, so that what it returns later is not taken for its output.
WrittenInv ==
    /\ pc = "launch" => status[cur] = "RUNNING"
    /\ \A n \in alive : status[n] = "RUNNING"
    /\ \A n \in nodes : status[n] = "COMPLETED" /\ result[n] = "ok" => n \in written
    /\ \A i \in 1..Len(events) :
            IsFinished(events[i]) /\ events[i].status = "COMPLETED"
            /\ result[events[i].node] = "ok"
            => events[i].node \in written

\* What was handled was announced.
ReportedInv ==
    /\ settled \subseteq reported
    /\ pc \in {"skip", "settle"} => cur \in reported

\* The stage a status belongs to.
StatusInv ==
    /\ run = 0 \/ pc = "start" =>
            graphFailed = FALSE /\ \A n \in nodes : status[n] = "PENDING"
    /\ \A n \in Nodes \ nodes : status[n] = "PENDING"
    /\ \A n \in active : status[n] = "RUNNING" \/ (pc = "settle" /\ n = cur)
    /\ pc = "launch" => status[cur] = "RUNNING"
    /\ pc = "skip" => status[cur] = "SKIPPED"
    /\ pc = "settle" => status[cur] \in {"COMPLETED", "FAILED"}
    /\ \A i \in 1..Len(ready) :
            \/ status[ready[i]] = "PENDING"
            \/ /\ status[ready[i]] = "SKIPPED"
               /\ graphFailed /\ strategy = "fail_fast" /\ ready[i] \notin runOnFailure
    /\ pc # "idle" =>
            \A n \in InState("RUNNING") : n \in active \/ (pc = "launch" /\ n = cur)

\* What has started, or was skipped for its own ancestors, has its dependencies settled.
StartedInv ==
    \A n \in nodes :
        Started(n) \/ (status[n] = "SKIPPED" /\ strategy # "fail_fast")
        => parents[n] \subseteq settled

\* What a failure does to the nodes around it.
FailureInv ==
    /\ graphFailed <=> InState("FAILED") # {}
    /\ strategy # "always_run" =>
            \A n \in nodes \ runOnFailure : Started(n) => ~BelowAFailure(n)
    /\ \A n \in InState("SKIPPED") :
            /\ n \notin runOnFailure
            /\ strategy # "always_run"
            /\ InState("FAILED") # {}
            /\ strategy = "allow_independent" => BelowAFailure(n)

\* A node whose dependencies are all settled is on its way through the stages.
NoNodeLost ==
    pc \notin {"idle", "start"} =>
        \A n \in nodes :
            \/ indegree[n] > 0
            \/ n \in settled \/ n \in active
            \/ pc \in {"skip", "launch"} /\ n = cur
            \/ \E i \in 1..Len(ready) : ready[i] = n

\* At the verdict every node is settled.
VerdictInv ==
    pc = "complete" => nodes = settled /\ graphStatus = Verdict

FirstRunParts ==
    StatusInv /\ StartedInv /\ FailureInv /\ NoNodeLost /\ VerdictInv /\ SavedStateIsConsistent

FirstRunInv == run <= 1 => FirstRunParts

SafetyInv ==
    SchedulerInv /\ WellFoundedInv /\ WrittenInv /\ ReportedInv /\ FirstRunInv

USE DEF config, queues, tasks, results

-----------------------------------------------------------------------------
(* The operators and the parts that hold in every run.                     *)

\* SetToSeqs leaves out no element of the set.
LEMMA EnumerationCovers ==
    ASSUME NEW S, IsFiniteSet(S), NEW q \in SetToSeqs(S)
    PROVE  \A s \in S : \E i \in 1..Len(q) : q[i] = s
<1> DEFINE N == Cardinality(S)
<1>1. N \in Nat
    BY FS_CardinalityType
<1>2. q \in [1..N -> S] /\ \A i, j \in 1..N : i # j => q[i] # q[j]
    BY DEF SetToSeqs
<1>3. q \in Injection(1..N, S)
    BY <1>2 DEF Injection, IsInjective
<1>4. Cardinality(1..N) = N
    <2> HIDE DEF N
    <2>1. 1 \in Int /\ N \in Int
        BY <1>1
    <2> QED
        BY <1>1, <2>1, FS_Interval
<1>5. q \in Surjection(1..N, S)
    BY <1>3, <1>4, FS_Injection
<1>6. Len(q) = N
    <2> HIDE DEF N
    <2> QED
        BY <1>1, <1>2, IsASeq
<1> QED
    BY <1>5, <1>6 DEF Surjection

\* Dependencies stay inside the graph and never lead back.
LEMMA NextKeepsWellFounded ==
    ASSUME TypeOK, WellFoundedInv, [Next]_vars
    PROVE  WellFoundedInv'
<1>1. ASSUME NEW n \in Nodes, AddNode(n) PROVE WellFoundedInv'
    <2>1. PICK deps \in SUBSET nodes : parents' = [parents EXCEPT ![n] = deps]
        BY <1>1 DEF AddNode
    <2>2. /\ nodes' = nodes \cup {n} /\ n \notin nodes
          /\ parents'[n] = deps
          /\ \A m \in Nodes : m # n => parents'[m] = parents[m]
        BY <1>1, <2>1 DEF AddNode, TypeOK
    <2>3. \A m \in Nodes : parents'[m] \subseteq nodes
        BY <2>1, <2>2 DEF WellFoundedInv
    <2>4. ASSUME NEW S \in SUBSET nodes', S # {}
          PROVE  \E m \in S : parents'[m] \cap S = {}
        <3>1. CASE S = {n}
            BY <2>2, <2>3, <3>1
        <3>2. CASE S # {n}
            <4>1. S \ {n} \in SUBSET nodes /\ S \ {n} # {}
                BY <2>2, <2>4, <3>2
            <4>2. PICK m \in S \ {n} : parents[m] \cap (S \ {n}) = {}
                BY <4>1 DEF WellFoundedInv
            <4>3. parents'[m] = parents[m] /\ n \notin parents'[m]
                BY <2>2, <2>3, <4>1, <4>2 DEF TypeOK
            <4> QED
                BY <4>2, <4>3
        <3> QED
            BY <3>1, <3>2
    <2> QED
        BY <2>2, <2>3, <2>4 DEF WellFoundedInv
<1>2. CASE UNCHANGED <<nodes, parents>>
    BY <1>2 DEF WellFoundedInv
<1>3. \/ \E n \in Nodes : AddNode(n)
      \/ UNCHANGED <<nodes, parents>>
    BY DEF Next, RunStream, BeginRun, RunEmpty, FillReady, SkipReady, SkipResume, StartNode,
           LaunchNode, AwaitEvent, WaitTimeout, ReceiveFinished, Settle, ForwardEvent,
           ForwardResume, CompleteGraph, PersistState, CloseStream, NodeEmits, NodeEnds,
           NodeSucceeds, NodeErrors, NodeCancelled, EndTask, vars
<1> QED
    BY <1>1, <1>2, <1>3

\* Nodes below a failure are the same when the failed nodes are.
LEMMA SameFailures ==
    ASSUME UNCHANGED <<nodes, parents>>, InState("FAILED")' = InState("FAILED")
    PROVE  \A n : BelowAFailure(n)' <=> BelowAFailure(n)
BY DEF BelowAFailure, InState

\* In the first run, the ancestors of a node whose counter is used up are settled.
LEMMA AncestorsAreSettled ==
    ASSUME SchedulerInv, run <= 1, NEW n \in Nodes, parents[n] \subseteq settled
    PROVE  Ancestors(parents, n) \subseteq settled
<1>1. settled \subseteq Nodes /\ DOMAIN parents = Nodes
    BY DEF SchedulerInv, StagesInv, TypeOK
<1>2. IsClosed(parents, settled)
    BY <1>1, SettledIsClosed DEF IsClosed, SchedulerInv, CountersInv
<1> QED
    BY <1>1, <1>2 DEF Ancestors

\* The end of a task with an output is signalled after the output is written.
LEMMA NextKeepsWritten ==
    ASSUME StagesInv, WrittenInv, [Next]_vars
    PROVE  WrittenInv'
<1> USE DEF StagesInv
<1>1. ASSUME NEW n \in Nodes, AddNode(n) PROVE WrittenInv'
    <2>1. /\ events = <<>> /\ alive = {} /\ pc' = "idle"
          /\ UNCHANGED <<events, alive, written, result>>
        BY <1>1 DEF AddNode, QuietInv, SlotsInv
    <2>2. \A m \in nodes : status'[m] = status[m]
        BY <1>1 DEF AddNode, TypeOK
    <2>3. nodes' = nodes \cup {n} /\ status'[n] = "PENDING"
        BY <1>1 DEF AddNode, TypeOK
    <2> QED
        BY <2>1, <2>2, <2>3 DEF WrittenInv
<1>2. CASE SkipReady \/ StartNode
    <2>1. /\ \A m \in nodes : m # cur' => status'[m] = status[m]
          /\ cur' \in nodes => status'[cur'] \in {"SKIPPED", "RUNNING"}
          /\ pc' = "launch" => status'[cur'] = "RUNNING"
          /\ UNCHANGED <<nodes, alive, result, written, events>>
        <3>1. Head(ready) \in nodes
            BY <1>2, TailFacts DEF SkipReady, StartNode, CanSchedule, TypeOK
        <3> QED
            BY <1>2, <3>1 DEF SkipReady, StartNode, TypeOK
    <2>2. cur' \notin alive
        <3>1. ready # <<>> /\ ready \in Seq(nodes) /\ cur' = Head(ready)
            BY <1>2 DEF SkipReady, StartNode, CanSchedule, TypeOK
        <3>2. cur' = ready[1] /\ 1 \in 1..Len(ready)
            BY <3>1, TailFacts
        <3> QED
            BY <3>2 DEF ReadyInv, SlotsInv
    <2>3. alive \subseteq nodes
        BY DEF TypeOK
    <2> QED
        BY <2>1, <2>2, <2>3 DEF WrittenInv
<1>3. CASE LaunchNode
    <2>1. /\ pc = "launch" /\ pc' = "schedule"
          /\ alive' = alive \cup {cur}
          /\ \A m \in Nodes : result'[m] = "ok" => result[m] = "ok"
          /\ UNCHANGED <<nodes, status, written, events>>
        BY <1>3 DEF LaunchNode, TypeOK
    <2>2. \A i \in 1..Len(events) : events[i].node \in Nodes
        BY DEF SignalInv, TypeOK
    <2> QED
        BY <2>1, <2>2 DEF WrittenInv, TypeOK
<1>4. CASE ReceiveFinished
    <2>1. /\ events # <<>> /\ events' = Tail(events) /\ events \in Seq(Event)
          /\ IsFinished(Head(events))
          /\ cur' = Head(events).node
          /\ pc' = "settle"
          /\ status' = [status EXCEPT ![cur'] = Head(events).status]
          /\ UNCHANGED <<nodes, alive, result, written>>
        BY <1>4 DEF ReceiveFinished, IsFinished, TypeOK
    <2>2. /\ Head(events) = events[1]
          /\ 1 \in 1..Len(events)
          /\ \A i \in 1..Len(events') : i + 1 \in 1..Len(events) /\ events'[i] = events[i + 1]
        BY <2>1, TailFacts
    <2>3. /\ status'[cur'] = "COMPLETED" /\ result[cur'] = "ok" => cur' \in written
          /\ cur' \notin alive
        BY <2>1, <2>2 DEF WrittenInv, SignalInv, TypeOK
    <2>4. \A m \in nodes : m # cur' => status'[m] = status[m]
        BY <2>1 DEF TypeOK
    <2>5. alive \subseteq nodes
        BY DEF TypeOK
    <2> QED
        BY <2>1, <2>2, <2>3, <2>4, <2>5 DEF WrittenInv
<1>5. CASE Settle
    <2>1. /\ \A m \in Nodes : status'[m] = status[m] \/ status'[m] = "SKIPPED"
          /\ \A m \in nodes : status[m] = "RUNNING" => status'[m] = "RUNNING"
          /\ \A i \in 1..Len(events') :
                \/ i \in 1..Len(events) /\ events'[i] = events[i]
                \/ events'[i].kind = "skip"
        <3>1. \A m \in nodes : status[m] = "RUNNING" => status'[m] = "RUNNING"
            BY <1>5 DEF Settle, SkipAllPendingNodes, InState, TypeOK
        <3> QED
            BY <1>5, <3>1, NoticeFacts DEF Settle
    <2>2. UNCHANGED <<nodes, alive, result, written>> /\ nodes \subseteq Nodes /\ pc' = "schedule"
        BY <1>5 DEF Settle, TypeOK
    <2>3. alive \subseteq nodes
        BY DEF TypeOK
    <2> QED
        BY <2>1, <2>2, <2>3 DEF WrittenInv, IsFinished
<1>6. CASE ForwardEvent
    <2>1. /\ events # <<>> /\ events' = Tail(events) /\ events \in Seq(Event)
          /\ pc' = "forward"
          /\ UNCHANGED <<nodes, status, alive, result, written>>
        BY <1>6 DEF ForwardEvent, TypeOK
    <2>2. \A i \in 1..Len(events') : i + 1 \in 1..Len(events) /\ events'[i] = events[i + 1]
        BY <2>1, TailFacts
    <2> QED
        BY <2>1, <2>2 DEF WrittenInv
<1>7. CASE CloseStream
    <2>1. /\ events' = <<>> /\ alive' = {} /\ pc' = "idle"
          /\ \A m \in Nodes : result'[m] = "ok" => result[m] = "ok"
          /\ UNCHANGED <<nodes, status, written>>
        BY <1>7 DEF CloseStream
    <2> QED
        BY <2>1 DEF WrittenInv, TypeOK
<1>8. ASSUME NEW n \in Nodes, NodeEmits(n) PROVE WrittenInv'
    <2>1. /\ events' = Append(events, StreamEvent(n))
          /\ n \in alive /\ n \in nodes
          /\ \A m \in Nodes : m # n => result'[m] = result[m]
          /\ pc' # "launch" \/ UNCHANGED <<pc, cur>>
          /\ UNCHANGED <<nodes, status, alive, written>>
        BY <1>8 DEF NodeEmits, TaskMayStep, TypeOK
    <2>2. StreamEvent(n) \in Event /\ ~IsFinished(StreamEvent(n))
        BY DEF StreamEvent, Event, Status, IsFinished
    <2>3. \A i \in 1..Len(events') :
            (i \in 1..Len(events) /\ events'[i] = events[i]) \/ events'[i] = StreamEvent(n)
        BY <2>1, <2>2, AppendedEvent
    <2>4. \A i \in 1..Len(events) :
            IsFinished(events[i]) => events[i].node # n /\ events[i].node \in Nodes
        BY <2>1 DEF SignalInv, TypeOK
    <2>5. \A m \in nodes : status[m] = "COMPLETED" => m # n /\ m \in Nodes
        BY <2>1 DEF WrittenInv, TypeOK
    <2> QED
        BY <2>1, <2>2, <2>3, <2>4, <2>5 DEF WrittenInv
<1>9. ASSUME NEW n \in Nodes, NodeEnds(n) PROVE WrittenInv'
    <2>1. PICK r \in {"none", "ok", "error"} :
            /\ EndTask(n, r)
            /\ written \subseteq written'
            /\ r = "ok" => n \in written'
            /\ \/ events' = events
               \/ \E s \in {"COMPLETED", "FAILED"} : events' = Append(events, FinishedEvent(n, s))
        <3>1. ASSUME NodeSucceeds(n)
              PROVE  \E r \in {"none", "ok", "error"} :
                        /\ EndTask(n, r)
                        /\ written' = IF r = "ok" THEN written \cup {n} ELSE written
                        /\ events' = Append(events, FinishedEvent(n, "COMPLETED"))
            <4>1. Outcomes(n) \subseteq {"none", "ok", "error"}
                BY DEF Outcomes, TypeOK
            <4> QED
                BY <3>1, <4>1 DEF NodeSucceeds
        <3>2. CASE NodeSucceeds(n)
            BY <3>1, <3>2
        <3>3. CASE NodeErrors(n)
            BY <3>3 DEF NodeErrors
        <3>4. CASE NodeCancelled(n)
            BY <3>4 DEF NodeCancelled
        <3> QED
            BY <1>9, <3>2, <3>3, <3>4 DEF NodeEnds
    <2>2. /\ n \in alive /\ alive' = alive \ {n}
          /\ result'[n] = r
          /\ \A m \in Nodes : m # n => result'[m] = result[m]
          /\ UNCHANGED <<nodes, status, pc, cur>>
        BY <2>1 DEF EndTask, TaskMayStep, TypeOK
    <2>3. \A i \in 1..Len(events') :
            \/ i \in 1..Len(events) /\ events'[i] = events[i]
            \/ events'[i].node = n
        <3>1. CASE events' = events
            BY <3>1
        <3>2. ASSUME NEW s \in {"COMPLETED", "FAILED"},
                     events' = Append(events, FinishedEvent(n, s))
              PROVE  \A i \in 1..Len(events') :
                        \/ i \in 1..Len(events) /\ events'[i] = events[i]
                        \/ events'[i].node = n
            <4>1. FinishedEvent(n, s) \in Event /\ FinishedEvent(n, s).node = n
                BY DEF FinishedEvent, Event, Status
            <4> QED
                BY <3>2, <4>1, AppendedEvent
        <3> QED
            BY <2>1, <3>1, <3>2
    <2>4. \A i \in 1..Len(events) :
            IsFinished(events[i]) => events[i].node # n /\ events[i].node \in Nodes
        BY <2>2 DEF SignalInv, TypeOK
    <2>5. \A m \in nodes : m \in Nodes
        BY DEF TypeOK
    <2> QED
        BY <2>1, <2>2, <2>3, <2>4, <2>5 DEF WrittenInv
<1>10. CASE UNCHANGED <<nodes, status, alive, result, written, events>> /\ pc' # "launch"
    BY <1>10 DEF WrittenInv
<1>11. BeginRun \/ RunEmpty \/ FillReady \/ SkipResume \/ AwaitEvent \/ WaitTimeout
       \/ ForwardResume \/ CompleteGraph \/ PersistState
       => UNCHANGED <<nodes, status, alive, result, written, events>> /\ pc' # "launch"
    BY DEF BeginRun, RunEmpty, FillReady, SkipResume, AwaitEvent, WaitTimeout,
           ForwardResume, CompleteGraph, PersistState
<1>12. CASE UNCHANGED vars
    BY <1>12 DEF WrittenInv, vars
<1> QED
    BY <1>1, <1>2, <1>3, <1>4, <1>5, <1>6, <1>7, <1>8, <1>9, <1>10, <1>11, <1>12
    DEF Next, RunStream

\* A node is announced before its completion is handled.
LEMMA NextKeepsReported ==
    ASSUME ReportedInv, [Next]_vars
    PROVE  ReportedInv'
<1>1. CASE RunStream
    BY <1>1 DEF RunStream, BeginRun, RunEmpty, FillReady, SkipReady, SkipResume, StartNode,
        LaunchNode, AwaitEvent, WaitTimeout, ReceiveFinished, Settle, ForwardEvent, ForwardResume,
        CompleteGraph, PersistState, HandleNodeCompletion, ReportedInv
<1>2. CASE CloseStream
    BY <1>2 DEF CloseStream, ReportedInv
<1>3. CASE \E n \in Nodes : AddNode(n) \/ NodeEmits(n) \/ NodeEnds(n)
    BY <1>3 DEF AddNode, NodeEmits, NodeEnds, NodeSucceeds, NodeErrors, NodeCancelled,
           EndTask, ReportedInv
<1>4. CASE UNCHANGED vars
    BY <1>4 DEF vars, ReportedInv
<1> QED
    BY <1>1, <1>2, <1>3, <1>4 DEF Next

-----------------------------------------------------------------------------
(* Every action preserves FirstRunInv.                                     *)

LEMMA InitFirstRun ==
    Init => WellFoundedInv /\ WrittenInv /\ ReportedInv /\ FirstRunInv
<1> SUFFICES ASSUME Init PROVE WellFoundedInv /\ WrittenInv /\ ReportedInv /\ FirstRunInv
    OBVIOUS
<1>1. WellFoundedInv /\ WrittenInv /\ ReportedInv
    BY DEF Init, WellFoundedInv, WrittenInv, ReportedInv
<1>2. StatusInv /\ StartedInv /\ FailureInv /\ NoNodeLost /\ VerdictInv
    BY DEF Init, StatusInv, StartedInv, FailureInv, NoNodeLost, VerdictInv, InState, Started
<1>3. SavedStateIsConsistent
    BY DEF Init, SavedStateIsConsistent
<1> QED
    BY <1>1, <1>2, <1>3 DEF FirstRunInv, FirstRunParts

LEMMA AddNodeKeepsFirstRun ==
    ASSUME SafetyInv, NEW n \in Nodes, AddNode(n)
    PROVE  FirstRunInv'
<1>1. /\ pc = "idle" /\ run = 0 /\ active = {} /\ ready = <<>> /\ settled = {}
      /\ UNCHANGED <<pc, run, active, ready, settled, graphFailed, saved>>
    BY DEF AddNode, SafetyInv, SchedulerInv, StagesInv, QuietInv, CountersInv
<1>2. StatusInv /\ FailureInv /\ SavedStateIsConsistent /\ TypeOK
    BY <1>1 DEF SafetyInv, SchedulerInv, StagesInv, FirstRunInv, FirstRunParts
<1>3. /\ nodes' = nodes \cup {n}
      /\ \A m \in Nodes : status'[m] = "PENDING"
    BY <1>1, <1>2 DEF AddNode, StatusInv, TypeOK
<1>4. \A m \in nodes' : status'[m] = "PENDING"
    BY <1>2, <1>3 DEF TypeOK
<1>5. StatusInv'
    BY <1>1, <1>2, <1>3, <1>4 DEF StatusInv
<1>6. FailureInv'
    BY <1>1, <1>2, <1>4 DEF StatusInv, FailureInv, InState, Started
<1> QED
    BY <1>1, <1>2, <1>4, <1>5, <1>6
    DEF FirstRunInv, FirstRunParts, StartedInv, Started, NoNodeLost, VerdictInv,
            SavedStateIsConsistent

LEMMA BeginRunKeepsFirstRun ==
    ASSUME SafetyInv, BeginRun \/ RunEmpty
    PROVE  FirstRunInv'
<1>1. run \in Nat /\ run' = run + 1
    BY BoundsAssumption DEF BeginRun, RunEmpty, SafetyInv, SchedulerInv, StagesInv, TypeOK
<1>2. CASE run # 0
    BY <1>1, <1>2 DEF FirstRunInv, FirstRunParts
<1>3. CASE run = 0
    <2>1. /\ active = {} /\ ready = <<>> /\ settled' = {} /\ graphFailed' = FALSE
          /\ pc' \in {"idle", "start"}
          /\ UNCHANGED <<nodes, status, active, ready, saved, parents, runOnFailure>>
        BY <1>3
        DEF BeginRun, RunEmpty, SafetyInv, SchedulerInv, StagesInv, QuietInv, CountersInv,
            FirstRunInv, FirstRunParts, StatusInv
    <2>2. /\ \A n \in nodes : status[n] = "PENDING"
          /\ \A n \in Nodes \ nodes : status[n] = "PENDING"
          /\ SavedStateIsConsistent
        BY <1>3 DEF SafetyInv, FirstRunInv, FirstRunParts, StatusInv
    <2>3. StatusInv'
        BY <1>1, <1>3, <2>1, <2>2 DEF StatusInv, InState
    <2>4. FailureInv'
        BY <2>1, <2>2 DEF FailureInv, InState, Started
    <2> QED
        BY <1>1, <1>3, <2>1, <2>2, <2>3, <2>4
        DEF FirstRunInv, FirstRunParts, StartedInv, Started, NoNodeLost, VerdictInv,
            SavedStateIsConsistent
<1> QED
    BY <1>2, <1>3

LEMMA FillReadyKeepsFirstRun ==
    ASSUME SafetyInv, FillReady
    PROVE  FirstRunInv'
<1> SUFFICES ASSUME run <= 1
             PROVE  FirstRunParts'
    BY DEF FillReady, FirstRunInv, FirstRunParts
<1> DEFINE S == {n \in nodes : indegree[n] = 0}
<1>1. /\ TypeOK /\ QuietInv /\ CountersInv /\ FirstRunParts
      /\ pc = "start" /\ pc' = "schedule" /\ run' = run /\ run # 0
      /\ UNCHANGED <<strategy, nodes, parents, runOnFailure, indegree, status, cur, active,
                     graphFailed, settled, saved>>
    BY DEF FillReady, SafetyInv, SchedulerInv, StagesInv, FirstRunInv, FirstRunParts, CountersInv
<1>2. /\ graphFailed = FALSE /\ active = {} /\ settled = {}
      /\ \A n \in nodes : status[n] = "PENDING"
    BY <1>1 DEF FirstRunParts, StatusInv, QuietInv, CountersInv
<1>3. IsFiniteSet(S) /\ ready' \in SetToSeqs(S)
    BY <1>1, FiniteParts DEF FillReady, TypeOK
<1>4. \A n \in nodes : indegree[n] = Cardinality(parents[n] \ settled)
    BY <1>1 DEF CountersInv, TypeOK
<1>5. \A n \in nodes : indegree[n] \in Nat
    BY <1>1, <1>4, FiniteParts DEF TypeOK
<1>6. \A n \in nodes : indegree[n] > 0 \/ n \in S
    BY <1>5
<1> HIDE DEF S
<1>7. /\ \A i \in 1..Len(ready') : ready'[i] \in S
      /\ \A n \in S : \E i \in 1..Len(ready') : ready'[i] = n
    BY <1>3, EnumerationFacts, EnumerationCovers, ElementOfSeq
<1>8. NoNodeLost'
    BY <1>1, <1>6, <1>7 DEF NoNodeLost
<1>9. StatusInv'
    BY <1>1, <1>2, <1>7 DEF FirstRunParts, StatusInv, InState, S
<1>10. FailureInv'
    BY <1>1, <1>2 DEF FirstRunParts, FailureInv, InState, Started
<1> QED
    BY <1>1, <1>2, <1>8, <1>9, <1>10
    DEF FirstRunParts, StartedInv, Started, VerdictInv, SavedStateIsConsistent

\* What is known when the head of ready_queue is taken.
LEMMA TakenFacts ==
    ASSUME SafetyInv, run <= 1, pc = "schedule", ready # <<>>, ready' = Tail(ready),
           cur' = Head(ready), UNCHANGED <<indegree, active>>
    PROVE  /\ cur' \in nodes /\ cur' \in Nodes /\ cur' \notin active
           /\ parents[cur'] \subseteq settled
           /\ \/ status[cur'] = "PENDING"
              \/ /\ status[cur'] = "SKIPPED"
                 /\ graphFailed /\ strategy = "fail_fast" /\ cur' \notin runOnFailure
           /\ \A i \in 1..Len(ready') :
                ready'[i] # cur' /\ \E j \in 1..Len(ready) : ready'[i] = ready[j]
           /\ \A j \in 1..Len(ready) :
                ready[j] = cur' \/ \E i \in 1..Len(ready') : ready'[i] = ready[j]
<1>1. StagesInv /\ SchedulerInv /\ StatusInv /\ ready \in Seq(nodes) /\ nodes \subseteq Nodes
    BY DEF SafetyInv, SchedulerInv, StagesInv, TypeOK, FirstRunInv, FirstRunParts
<1>2. /\ cur' \in nodes /\ cur' \notin active /\ indegree[cur'] <= 0
      /\ \A i \in 1..Len(ready') : ready'[i] # cur'
      /\ \A i \in 1..Len(ready') : \E j \in 1..Len(ready) : ready'[i] = ready[j]
    BY <1>1, TakeReady
<1>3. /\ cur' = ready[1] /\ 1 \in 1..Len(ready)
      /\ Len(ready) \in Nat /\ Len(ready') = Len(ready) - 1
      /\ \A i \in 1..Len(ready') : i + 1 \in 1..Len(ready) /\ ready'[i] = ready[i + 1]
    BY <1>1, TailFacts
<1>4. \A j \in 1..Len(ready) : j # 1 => j - 1 \in 1..Len(ready') /\ ready'[j - 1] = ready[j]
    BY <1>3
<1>5. parents[cur'] \subseteq settled
    BY <1>1, <1>2, SettledIsClosed
<1> QED
    BY <1>1, <1>2, <1>3, <1>4, <1>5 DEF StatusInv

LEMMA SkipReadyKeepsFirstRun ==
    ASSUME SafetyInv, SkipReady
    PROVE  FirstRunInv'
<1> SUFFICES ASSUME run <= 1
             PROVE  FirstRunParts'
    BY DEF SkipReady, FirstRunInv, FirstRunParts
<1>1. /\ FirstRunParts /\ run # 0 /\ pc = "schedule" /\ pc' = "skip"
      /\ ready # <<>> /\ ready' = Tail(ready) /\ cur' = Head(ready)
      /\ status' = [status EXCEPT ![cur'] = "SKIPPED"]
      /\ StoppedByFailFast(cur') \/ ShouldSkipNode(cur')
      /\ UNCHANGED <<strategy, nodes, parents, runOnFailure, indegree, run, active, graphFailed,
                     settled, saved>>
    BY DEF SkipReady, CanSchedule, SafetyInv, SchedulerInv, CountersInv, FirstRunInv,
           FirstRunParts
<1>2. nodes \subseteq Nodes /\ active \subseteq nodes /\ status \in [Nodes -> Status]
    BY DEF SafetyInv, SchedulerInv, StagesInv, TypeOK
<1>3. /\ cur' \in nodes /\ cur' \in Nodes /\ cur' \notin active
      /\ parents[cur'] \subseteq settled
      /\ status[cur'] \in {"PENDING", "SKIPPED"}
      /\ \A i \in 1..Len(ready') :
            ready'[i] # cur' /\ \E j \in 1..Len(ready) : ready'[i] = ready[j]
      /\ \A j \in 1..Len(ready) :
            ready[j] = cur' \/ \E i \in 1..Len(ready') : ready'[i] = ready[j]
    BY <1>1, TakenFacts
<1>4. /\ status'[cur'] = "SKIPPED"
      /\ \A n \in Nodes : n # cur' => status'[n] = status[n]
    BY <1>1, <1>2, <1>3
<1>5. StatusInv'
    <2>1. \A n \in active : n \in Nodes /\ n # cur'
        BY <1>2, <1>3
    <2>2. \A i \in 1..Len(ready) : ready[i] \in Nodes
        BY <1>2, ElementOfSeq DEF SafetyInv, SchedulerInv, StagesInv, TypeOK
    <2> QED
        BY <1>1, <1>2, <1>3, <1>4, <2>1, <2>2 DEF FirstRunParts, StatusInv, InState
<1>6. StartedInv'
    BY <1>1, <1>2, <1>3, <1>4 DEF FirstRunParts, StartedInv, Started
<1>7. InState("FAILED")' = InState("FAILED")
    BY <1>1, <1>2, <1>3, <1>4 DEF InState
<1>8. \A n : BelowAFailure(n)' <=> BelowAFailure(n)
    BY <1>1, <1>7, SameFailures
<1>9. /\ cur' \notin runOnFailure /\ strategy # "always_run"
      /\ InState("FAILED") # {}
      /\ strategy = "allow_independent" => BelowAFailure(cur')
    BY <1>1 DEF FirstRunParts, FailureInv, StoppedByFailFast, ShouldSkipNode, HasFailedAncestor,
                BelowAFailure, InState
<1>10. FailureInv'
    <2>1. \A n \in InState("SKIPPED")' : n = cur' \/ n \in InState("SKIPPED")
        BY <1>1, <1>2, <1>4 DEF InState
    <2>2. \A n \in nodes : Started(n)' => Started(n)
        BY <1>2, <1>4 DEF Started
    <2> QED
        BY <1>1, <1>7, <1>8, <1>9, <2>1, <2>2 DEF FirstRunParts, FailureInv
<1>11. NoNodeLost'
    BY <1>1, <1>3 DEF FirstRunParts, NoNodeLost
<1> QED
    BY <1>1, <1>5, <1>6, <1>10, <1>11 DEF FirstRunParts, VerdictInv, SavedStateIsConsistent

LEMMA StartNodeKeepsFirstRun ==
    ASSUME SafetyInv, StartNode
    PROVE  FirstRunInv'
<1> SUFFICES ASSUME run <= 1
             PROVE  FirstRunParts'
    BY DEF StartNode, FirstRunInv, FirstRunParts
<1>1. /\ FirstRunParts /\ run # 0 /\ pc = "schedule" /\ pc' = "launch"
      /\ ready # <<>> /\ ready' = Tail(ready) /\ cur' = Head(ready)
      /\ status' = [status EXCEPT ![cur'] = "RUNNING"]
      /\ ~(StoppedByFailFast(cur') \/ ShouldSkipNode(cur'))
      /\ UNCHANGED <<strategy, nodes, parents, runOnFailure, indegree, run, active, graphFailed,
                     settled, saved>>
    BY DEF StartNode, CanSchedule, SafetyInv, SchedulerInv, CountersInv, FirstRunInv,
           FirstRunParts
<1>2. nodes \subseteq Nodes /\ active \subseteq nodes /\ status \in [Nodes -> Status]
      /\ strategy \in AllStrategies
    BY StrategiesAssumption DEF SafetyInv, SchedulerInv, StagesInv, TypeOK
<1>3. /\ cur' \in nodes /\ cur' \in Nodes /\ cur' \notin active
      /\ parents[cur'] \subseteq settled
      /\ status[cur'] = "PENDING"
      /\ \A i \in 1..Len(ready') :
            ready'[i] # cur' /\ \E j \in 1..Len(ready) : ready'[i] = ready[j]
      /\ \A j \in 1..Len(ready) :
            ready[j] = cur' \/ \E i \in 1..Len(ready') : ready'[i] = ready[j]
    BY <1>1, TakenFacts DEF StoppedByFailFast
<1>4. /\ status'[cur'] = "RUNNING"
      /\ \A n \in Nodes : n # cur' => status'[n] = status[n]
    BY <1>1, <1>2, <1>3
<1>5. StatusInv'
    <2>1. \A n \in active : n \in Nodes /\ n # cur'
        BY <1>2, <1>3
    <2>2. \A i \in 1..Len(ready) : ready[i] \in Nodes
        BY <1>2, ElementOfSeq DEF SafetyInv, SchedulerInv, StagesInv, TypeOK
    <2> QED
        BY <1>1, <1>2, <1>3, <1>4, <2>1, <2>2 DEF FirstRunParts, StatusInv, InState
<1>6. StartedInv'
    BY <1>1, <1>2, <1>3, <1>4 DEF FirstRunParts, StartedInv, Started
<1>7. InState("FAILED")' = InState("FAILED") /\ InState("SKIPPED")' = InState("SKIPPED")
    BY <1>1, <1>2, <1>3, <1>4 DEF InState
<1>8. \A n : BelowAFailure(n)' <=> BelowAFailure(n)
    BY <1>1, <1>7, SameFailures
<1>9. cur' \notin runOnFailure /\ strategy # "always_run" => ~BelowAFailure(cur')
    <2>1. CASE strategy = "allow_independent"
        BY <1>1, <2>1 DEF ShouldSkipNode, HasFailedAncestor, BelowAFailure, InState
    <2>2. CASE strategy = "fail_fast"
        BY <1>1, <2>2 DEF StoppedByFailFast, FirstRunParts, FailureInv, BelowAFailure, InState
    <2> QED
        BY <1>2, <2>1, <2>2 DEF AllStrategies
<1>10. FailureInv'
    <2>1. \A n \in nodes : Started(n)' => n = cur' \/ Started(n)
        BY <1>2, <1>4 DEF Started
    <2> QED
        BY <1>1, <1>7, <1>8, <1>9, <2>1 DEF FirstRunParts, FailureInv
<1>11. NoNodeLost'
    BY <1>1, <1>3 DEF FirstRunParts, NoNodeLost
<1> QED
    BY <1>1, <1>5, <1>6, <1>10, <1>11 DEF FirstRunParts, VerdictInv, SavedStateIsConsistent

LEMMA LaunchNodeKeepsFirstRun ==
    ASSUME SafetyInv, LaunchNode
    PROVE  FirstRunInv'
<1> SUFFICES ASSUME run <= 1
             PROVE  FirstRunParts'
    BY DEF LaunchNode, FirstRunInv, FirstRunParts
<1>1. /\ FirstRunParts /\ run # 0 /\ pc = "launch" /\ pc' = "schedule"
      /\ active' = active \cup {cur}
      /\ UNCHANGED <<strategy, nodes, parents, runOnFailure, indegree, status, run, ready,
                     graphFailed, settled, saved>>
    BY DEF LaunchNode, SafetyInv, SchedulerInv, CountersInv, FirstRunInv, FirstRunParts
<1>2. StatusInv'
    BY <1>1 DEF FirstRunParts, StatusInv, InState
<1>3. FailureInv'
    BY <1>1 DEF FirstRunParts, FailureInv, InState, Started, BelowAFailure
<1>4. NoNodeLost'
    BY <1>1 DEF FirstRunParts, NoNodeLost
<1> QED
    BY <1>1, <1>2, <1>3, <1>4
    DEF FirstRunParts, StartedInv, Started, VerdictInv, SavedStateIsConsistent

\* What a settled node does to the queue: the released children had not been taken before,
\* nobody leaves the queue, and a node whose counter runs out is in it.
LEMMA ReleasedFacts ==
    ASSUME SafetyInv, run <= 1, NEW n \in nodes, HandleNodeCompletion(n)
    PROVE  /\ settled' = settled \cup {n}
           /\ \A i \in 1..Len(ready') :
                \/ \E j \in 1..Len(ready) : ready'[i] = ready[j]
                \/ /\ ready'[i] \in nodes
                   /\ \/ status[ready'[i]] = "PENDING"
                      \/ /\ status[ready'[i]] = "SKIPPED"
                         /\ graphFailed /\ strategy = "fail_fast"
                         /\ ready'[i] \notin runOnFailure
           /\ \A j \in 1..Len(ready) : \E i \in 1..Len(ready') : ready'[i] = ready[j]
           /\ \A c \in nodes :
                indegree[c] > 0 => indegree'[c] > 0 \/ \E i \in 1..Len(ready') : ready'[i] = c
<1> DEFINE S == {c \in Children(parents, n) : indegree[c] = 1}
<1>1. /\ TypeOK /\ GraphInv /\ CountersInv /\ StartedInv /\ FailureInv
      /\ ready \in Seq(nodes) /\ nodes \subseteq Nodes
      /\ status \in [Nodes -> Status]
      /\ indegree \in [Nodes -> Int]
      /\ parents \in [Nodes -> SUBSET Nodes]
    BY DEF SafetyInv, SchedulerInv, StagesInv, TypeOK, FirstRunInv, FirstRunParts
<1>2. S \subseteq nodes /\ \A c \in S : indegree[c] = 1
    BY <1>1 DEF Children, GraphInv
<1>3. IsFiniteSet(S)
    BY <1>1, <1>2, FiniteParts
<1>4. PICK released \in SetToSeqs(S) : ready' = ready \o released
    BY DEF HandleNodeCompletion
<1>5. /\ settled' = settled \cup {n}
      /\ \A c \in nodes : indegree[c] > 0 => indegree'[c] > 0 \/ c \in S
    BY <1>1 DEF HandleNodeCompletion, Children
<1> HIDE DEF S
<1>6. /\ released \in Seq(S)
      /\ \A c \in S : \E i \in 1..Len(released) : released[i] = c
      /\ \A i \in 1..Len(released) : released[i] \in S
    BY <1>3, <1>4, EnumerationFacts, EnumerationCovers, ElementOfSeq
<1>7. released \in Seq(nodes)
    BY <1>2, <1>6, WiderSeq
<1>8. /\ Len(ready') = Len(ready) + Len(released)
      /\ \A i \in 1..Len(ready') :
            ready'[i] = IF i <= Len(ready) THEN ready[i] ELSE released[i - Len(ready)]
      /\ Len(ready) \in Nat /\ Len(released) \in Nat
    BY <1>1, <1>4, <1>7, ConcatProperties
<1>9. \A i \in 1..Len(ready') :
          \/ \E j \in 1..Len(ready) : ready'[i] = ready[j]
          \/ \E j \in 1..Len(released) : ready'[i] = released[j]
    <2> TAKE i \in 1..Len(ready')
    <2>1. CASE i <= Len(ready)
        BY <1>8, <2>1
    <2>2. CASE i > Len(ready)
        <3>1. i - Len(ready) \in 1..Len(released) /\ ready'[i] = released[i - Len(ready)]
            BY <1>8, <2>2
        <3> QED
            BY <3>1
    <2> QED
        BY <1>8, <2>1, <2>2
<1>10. \A j \in 1..Len(ready) : j \in 1..Len(ready') /\ ready'[j] = ready[j]
    BY <1>8
<1>11. \A j \in 1..Len(released) :
            Len(ready) + j \in 1..Len(ready') /\ ready'[Len(ready) + j] = released[j]
    BY <1>8
<1>12. ASSUME NEW c \in S
       PROVE  \/ status[c] = "PENDING"
              \/ /\ status[c] = "SKIPPED"
                 /\ graphFailed /\ strategy = "fail_fast" /\ c \notin runOnFailure
    <2>1. c \in nodes /\ c \in Nodes /\ Cardinality(parents[c] \ settled) = 1
        BY <1>1, <1>2 DEF CountersInv
    <2>2. parents[c] \ settled # {}
        BY <2>1, FS_EmptySet
    <2>3. ~Started(c) /\ (status[c] = "SKIPPED" => strategy = "fail_fast")
        BY <1>1, <2>1, <2>2 DEF StartedInv
    <2>4. status[c] \in {"PENDING", "SKIPPED"}
        BY <1>1, <2>1, <2>3 DEF Started, Status
    <2> QED
        BY <1>1, <2>1, <2>3, <2>4 DEF FailureInv, InState
<1>13. \A i \in 1..Len(ready') :
            (\E j \in 1..Len(ready) : ready'[i] = ready[j]) \/ ready'[i] \in S
    BY <1>6, <1>9
<1>14. \A c \in S : \E i \in 1..Len(ready') : ready'[i] = c
    BY <1>6, <1>11
<1> QED
    BY <1>2, <1>5, <1>10, <1>12, <1>13, <1>14

\* The node held at a "skip" or "settle" yield is settled, and the nodes of G are given up.
LEMMA SettlingKeepsFirstRun ==
    ASSUME SafetyInv, run <= 1, pc \in {"skip", "settle"}, pc' = "schedule",
           HandleNodeCompletion(cur),
           UNCHANGED <<strategy, nodes, parents, runOnFailure, run, graphFailed, saved>>,
           active' = active \ {cur},
           NEW G \in SUBSET (InState("PENDING") \ runOnFailure),
           status' = [n \in Nodes |-> IF n \in G THEN "SKIPPED" ELSE status[n]],
           G # {} => strategy = "fail_fast" /\ status[cur] = "FAILED"
    PROVE  FirstRunParts'
<1>1. /\ FirstRunParts /\ run # 0
      /\ nodes \subseteq Nodes /\ active \subseteq nodes /\ status \in [Nodes -> Status]
      /\ cur \in nodes
    BY DEF SafetyInv, SchedulerInv, StagesInv, TypeOK, HeldInv, CountersInv, FirstRunInv,
           FirstRunParts
<1>2. /\ \A n \in nodes : status'[n] = IF n \in G THEN "SKIPPED" ELSE status[n]
      /\ \A n \in G : n \in nodes /\ status[n] = "PENDING" /\ n \notin runOnFailure
      /\ \A n \in Nodes \ nodes : status'[n] = status[n]
    BY <1>1 DEF InState
<1>3. /\ settled' = settled \cup {cur}
      /\ \A i \in 1..Len(ready') :
            \/ \E j \in 1..Len(ready) : ready'[i] = ready[j]
            \/ /\ ready'[i] \in nodes
               /\ \/ status[ready'[i]] = "PENDING"
                  \/ /\ status[ready'[i]] = "SKIPPED"
                     /\ graphFailed /\ strategy = "fail_fast"
                     /\ ready'[i] \notin runOnFailure
      /\ \A j \in 1..Len(ready) : \E i \in 1..Len(ready') : ready'[i] = ready[j]
      /\ \A c \in nodes :
            indegree[c] > 0 => indegree'[c] > 0 \/ \E i \in 1..Len(ready') : ready'[i] = c
    BY <1>1, ReleasedFacts
<1>4. G # {} => graphFailed /\ strategy = "fail_fast" /\ cur \in InState("FAILED")
    BY <1>1 DEF FirstRunParts, FailureInv, InState
<1>5. StatusInv'
    <2>1. \A n \in active' : status'[n] = "RUNNING"
        BY <1>1, <1>2 DEF FirstRunParts, StatusInv
    <2>2. ASSUME NEW i \in 1..Len(ready')
          PROVE  \/ status'[ready'[i]] = "PENDING"
                 \/ /\ status'[ready'[i]] = "SKIPPED"
                    /\ graphFailed /\ strategy = "fail_fast" /\ ready'[i] \notin runOnFailure
        <3>1. /\ ready'[i] \in nodes
              /\ \/ status[ready'[i]] = "PENDING"
                 \/ /\ status[ready'[i]] = "SKIPPED"
                    /\ graphFailed /\ strategy = "fail_fast" /\ ready'[i] \notin runOnFailure
            <4>1. \A j \in 1..Len(ready) : ready[j] \in nodes
                BY ElementOfSeq DEF SafetyInv, SchedulerInv, StagesInv, TypeOK
            <4> QED
                BY <1>1, <1>3, <4>1 DEF FirstRunParts, StatusInv
        <3> QED
            BY <1>2, <1>4, <3>1
    <2>3. \A n \in InState("RUNNING")' : n \in active'
        BY <1>1, <1>2 DEF FirstRunParts, StatusInv, InState
    <2>4. \A n \in Nodes \ nodes : status'[n] = "PENDING"
        BY <1>1, <1>2 DEF FirstRunParts, StatusInv
    <2> QED
        BY <1>1, <2>1, <2>2, <2>3, <2>4 DEF StatusInv
<1>6. StartedInv'
    BY <1>1, <1>2, <1>3, <1>4 DEF FirstRunParts, StartedInv, Started
<1>7. InState("FAILED")' = InState("FAILED")
    BY <1>2 DEF InState
<1>8. \A n : BelowAFailure(n)' <=> BelowAFailure(n)
    BY <1>7, SameFailures
<1>9. FailureInv'
    <2>1. \A n \in nodes : Started(n)' => Started(n)
        BY <1>2 DEF Started
    <2>2. \A n \in InState("SKIPPED")' : n \in G \/ n \in InState("SKIPPED")
        BY <1>2 DEF InState
    <2> QED
        BY <1>1, <1>2, <1>4, <1>7, <1>8, <2>1, <2>2 DEF FirstRunParts, FailureInv
<1>10. NoNodeLost'
    <2>1. NoNodeLost
        BY <1>1 DEF FirstRunParts
    <2> QED
        BY <1>1, <1>3, <2>1 DEF NoNodeLost
<1>11. SavedStateIsConsistent'
    BY <1>1 DEF FirstRunParts, SavedStateIsConsistent
<1> QED
    BY <1>5, <1>6, <1>9, <1>10, <1>11 DEF FirstRunParts, VerdictInv

\* The same when no node is given up.
LEMMA SettlingAloneKeepsFirstRun ==
    ASSUME SafetyInv, run <= 1, pc \in {"skip", "settle"}, pc' = "schedule",
           HandleNodeCompletion(cur), status' = status,
           UNCHANGED <<strategy, nodes, parents, runOnFailure, run, graphFailed, saved>>,
           active' = active \ {cur}
    PROVE  FirstRunParts'
<1>1. PICK G \in SUBSET (InState("PENDING") \ runOnFailure) : G = {}
    OBVIOUS
<1>2. status' = [n \in Nodes |-> IF n \in G THEN "SKIPPED" ELSE status[n]]
    BY <1>1 DEF SafetyInv, SchedulerInv, StagesInv, TypeOK
<1> QED
    BY <1>1, <1>2, SettlingKeepsFirstRun

LEMMA SkipResumeKeepsFirstRun ==
    ASSUME SafetyInv, SkipResume
    PROVE  FirstRunInv'
<1> SUFFICES ASSUME run <= 1
             PROVE  FirstRunParts'
    BY DEF SkipResume, FirstRunInv, FirstRunParts
<1>1. active' = active \ {cur}
    BY DEF SkipResume, SafetyInv, SchedulerInv, StagesInv, HeldInv
<1>2. status' = status
    BY DEF SkipResume
<1> QED
    BY <1>1, <1>2, SettlingAloneKeepsFirstRun DEF SkipResume

LEMMA SettleKeepsFirstRun ==
    ASSUME SafetyInv, Settle
    PROVE  FirstRunInv'
<1> SUFFICES ASSUME run <= 1
             PROVE  FirstRunParts'
    BY DEF Settle, FirstRunInv, FirstRunParts
<1>1. CASE status[cur] = "FAILED" /\ strategy = "fail_fast"
    <2>1. status' = [n \in Nodes |->
                        IF n \in InState("PENDING") \ runOnFailure THEN "SKIPPED" ELSE status[n]]
        BY <1>1 DEF Settle, SkipAllPendingNodes
    <2> QED
        BY <1>1, <2>1, SettlingKeepsFirstRun DEF Settle
<1>2. CASE ~(status[cur] = "FAILED" /\ strategy = "fail_fast")
    BY <1>2, SettlingAloneKeepsFirstRun DEF Settle
<1> QED
    BY <1>1, <1>2

\* What is known when the end of a node's task is taken from events_queue.
LEMMA FinishedFacts ==
    ASSUME SafetyInv, ReceiveFinished, run <= 1
    PROVE  /\ cur' \in nodes /\ cur' \in Nodes /\ cur' \in active /\ cur' \notin settled
           /\ status[cur'] = "RUNNING"
           /\ status'[cur'] \in {"COMPLETED", "FAILED"}
           /\ status' = [status EXCEPT ![cur'] = status'[cur']]
           /\ graphFailed' = (graphFailed \/ status'[cur'] = "FAILED")
<1>1. TypeOK /\ SignalInv /\ StatusInv /\ CountersInv
    BY DEF SafetyInv, SchedulerInv, StagesInv, FirstRunInv, FirstRunParts
<1>2. /\ events # <<>> /\ events' = Tail(events) /\ pc = "wait"
      /\ IsFinished(Head(events))
      /\ cur' = Head(events).node
      /\ status' = [status EXCEPT ![cur'] = Head(events).status]
      /\ graphFailed' = (graphFailed \/ Head(events).status = "FAILED")
      /\ UNCHANGED <<nodes, active, alive>>
    BY DEF ReceiveFinished, IsFinished
<1>3. cur' \in active /\ Head(events).status \in {"COMPLETED", "FAILED"}
    BY <1>1, <1>2, TakeEvent
<1>4. cur' \in nodes /\ cur' \in Nodes
    BY <1>1, <1>3 DEF TypeOK
<1>5. status'[cur'] = Head(events).status
    BY <1>1, <1>2, <1>4 DEF TypeOK
<1>6. cur' \notin settled /\ status[cur'] = "RUNNING"
    BY <1>1, <1>2, <1>3 DEF CountersInv, StatusInv
<1> QED
    BY <1>2, <1>3, <1>4, <1>5, <1>6

LEMMA ReceiveFinishedKeepsFirstRun ==
    ASSUME SafetyInv, ReceiveFinished
    PROVE  FirstRunInv'
<1> SUFFICES ASSUME run <= 1
             PROVE  FirstRunParts'
    BY DEF ReceiveFinished, FirstRunInv, FirstRunParts
<1>1. /\ FirstRunParts /\ run # 0 /\ pc = "wait" /\ pc' = "settle"
      /\ UNCHANGED <<strategy, nodes, parents, runOnFailure, indegree, run, ready, active,
                     settled, saved>>
    BY DEF ReceiveFinished, SafetyInv, SchedulerInv, CountersInv, FirstRunInv, FirstRunParts
<1>2. nodes \subseteq Nodes /\ active \subseteq nodes /\ status \in [Nodes -> Status]
    BY DEF SafetyInv, SchedulerInv, StagesInv, TypeOK
<1>3. /\ cur' \in nodes /\ cur' \in Nodes /\ cur' \in active /\ cur' \notin settled
      /\ status[cur'] = "RUNNING"
      /\ status'[cur'] \in {"COMPLETED", "FAILED"}
      /\ graphFailed' = (graphFailed \/ status'[cur'] = "FAILED")
      /\ \A n \in Nodes : n # cur' => status'[n] = status[n]
    BY <1>2, FinishedFacts
<1>4. StatusInv'
    <2>1. \A i \in 1..Len(ready) : ready[i] \in nodes /\ ready[i] # cur'
        BY <1>3, ElementOfSeq DEF SafetyInv, SchedulerInv, StagesInv, TypeOK, ReadyInv
    <2>2. \A n \in active : n \in Nodes
        BY <1>2
    <2>3. StatusInv
        BY <1>1 DEF FirstRunParts
    <2>4. ASSUME NEW i \in 1..Len(ready')
          PROVE  \/ status'[ready'[i]] = "PENDING"
                 \/ /\ status'[ready'[i]] = "SKIPPED"
                    /\ graphFailed' /\ strategy' = "fail_fast" /\ ready'[i] \notin runOnFailure'
        <3>1. i \in 1..Len(ready) /\ ready'[i] = ready[i] /\ status'[ready[i]] = status[ready[i]]
            BY <1>1, <1>2, <1>3, <2>1
        <3> QED
            BY <1>1, <1>3, <2>3, <3>1 DEF StatusInv
    <2>5. \A n \in active' : status'[n] = "RUNNING" \/ n = cur'
        BY <1>1, <1>3, <2>2, <2>3 DEF StatusInv
    <2>6. \A n \in InState("RUNNING")' : n \in active'
        <3>1. \A n \in InState("RUNNING")' : n \in InState("RUNNING")
            BY <1>1, <1>2, <1>3 DEF InState
        <3> QED
            BY <1>1, <2>3, <3>1 DEF StatusInv
    <2>7. \A n \in Nodes \ nodes' : status'[n] = "PENDING"
        BY <1>1, <1>3, <2>3 DEF StatusInv
    <2> QED
        BY <1>1, <1>3, <2>4, <2>5, <2>6, <2>7 DEF StatusInv
<1>5. \A n \in nodes : /\ Started(n)' => Started(n)
                       /\ status'[n] = "SKIPPED" => status[n] = "SKIPPED"
    BY <1>2, <1>3 DEF Started
<1>6. StartedInv'
    BY <1>1, <1>5 DEF FirstRunParts, StartedInv
<1>7. InState("FAILED")' =
        IF status'[cur'] = "FAILED" THEN InState("FAILED") \cup {cur'} ELSE InState("FAILED")
    BY <1>1, <1>2, <1>3 DEF InState
<1>8. ASSUME NEW n \in nodes \ runOnFailure, strategy # "always_run", Started(n)'
      PROVE  ~BelowAFailure(n)'
    <2>1. Started(n) /\ parents[n] \subseteq settled /\ ~BelowAFailure(n)
        BY <1>1, <1>5, <1>8 DEF FirstRunParts, StartedInv, FailureInv
    <2>2. Ancestors(parents, n) \subseteq settled
        BY <1>2, <2>1, AncestorsAreSettled DEF SafetyInv
    <2>3. cur' \notin Ancestors(parents, n)
        BY <1>3, <2>2
    <2> QED
        BY <1>1, <1>2, <1>3, <2>1, <2>3 DEF BelowAFailure
<1>9. ASSUME NEW n, BelowAFailure(n) PROVE BelowAFailure(n)'
    BY <1>1, <1>2, <1>3, <1>9 DEF BelowAFailure
<1>10. FailureInv'
    <2>1. graphFailed' <=> InState("FAILED")' # {}
        BY <1>1, <1>3, <1>7 DEF FirstRunParts, FailureInv
    <2>2. \A n \in InState("SKIPPED")' : n \in InState("SKIPPED")
        BY <1>1, <1>5 DEF InState
    <2>3. InState("FAILED") # {} => InState("FAILED")' # {}
        BY <1>7
    <2> QED
        BY <1>1, <1>8, <1>9, <2>1, <2>2, <2>3 DEF FirstRunParts, FailureInv
<1>11. NoNodeLost'
    BY <1>1 DEF FirstRunParts, NoNodeLost
<1> QED
    BY <1>1, <1>4, <1>6, <1>10, <1>11 DEF FirstRunParts, VerdictInv, SavedStateIsConsistent

\* When a first run has nothing left to do every node is settled: otherwise the nodes that are
\* not include one whose dependencies are, and that one is still on its way.
LEMMA QuietMeansSettled ==
    ASSUME SafetyInv, run <= 1, pc = "schedule", active = {}, ready = <<>>
    PROVE  nodes = settled
<1> DEFINE S == nodes \ settled
<1>1. /\ settled \subseteq nodes /\ nodes \subseteq Nodes /\ NoNodeLost
      /\ WellFoundedInv /\ CountersInv
    BY DEF SafetyInv, SchedulerInv, StagesInv, TypeOK, FirstRunInv, FirstRunParts
<1>2. \A n \in S : indegree[n] > 0
    BY <1>1 DEF NoNodeLost
<1>3. ASSUME NEW n \in S PROVE parents[n] \cap S # {}
    <2>1. Cardinality(parents[n] \ settled) > 0
        BY <1>1, <1>2 DEF CountersInv
    <2>2. parents[n] \ settled # {}
        <3> SUFFICES ASSUME parents[n] \ settled = {} PROVE FALSE
            OBVIOUS
        <3>1. Cardinality(parents[n] \ settled) = 0
            BY FS_EmptySet
        <3> QED
            BY <2>1, <3>1
    <2>3. parents[n] \subseteq nodes
        BY <1>1 DEF WellFoundedInv
    <2> QED
        BY <2>2, <2>3
<1>4. S = {}
    BY <1>1, <1>3 DEF WellFoundedInv
<1> QED
    BY <1>1, <1>4

LEMMA CompleteGraphKeepsFirstRun ==
    ASSUME SafetyInv, CompleteGraph
    PROVE  FirstRunInv'
<1> SUFFICES ASSUME run <= 1
             PROVE  FirstRunParts'
    BY DEF CompleteGraph, FirstRunInv, FirstRunParts
<1>1. /\ FirstRunParts /\ run # 0 /\ pc = "schedule" /\ pc' = "complete"
      /\ active = {} /\ ready = <<>> /\ graphStatus' = Verdict
      /\ UNCHANGED <<strategy, nodes, parents, runOnFailure, indegree, status, run, cur, ready,
                     active, graphFailed, settled, saved>>
    BY DEF CompleteGraph, SafetyInv, SchedulerInv, CountersInv, FirstRunInv, FirstRunParts
<1>2. StatusInv'
    BY <1>1 DEF FirstRunParts, StatusInv, InState
<1>3. FailureInv'
    BY <1>1 DEF FirstRunParts, FailureInv, InState, Started, BelowAFailure
<1>4. NoNodeLost'
    BY <1>1 DEF FirstRunParts, NoNodeLost
<1>5. VerdictInv'
    BY <1>1, QuietMeansSettled DEF VerdictInv, Verdict, InState
<1> QED
    BY <1>1, <1>2, <1>3, <1>4, <1>5
    DEF FirstRunParts, StartedInv, Started, SavedStateIsConsistent

\* What the verdict says of a first run that is complete.
LEMMA VerdictFacts ==
    ASSUME SafetyInv, run <= 1, pc = "complete"
    PROVE  /\ \A n \in nodes : status[n] \in Terminal
           /\ graphStatus = "success" <=> \A n \in nodes : status[n] = "COMPLETED"
           /\ InState("SKIPPED") # {} => InState("FAILED") # {}
           /\ graphStatus = "success" => InState("FAILED") = {}
<1>1. nodes = settled /\ graphStatus = Verdict /\ FailureInv
    BY DEF SafetyInv, FirstRunInv, FirstRunParts, VerdictInv
<1>2. \A n \in nodes : status[n] \in Terminal
    BY <1>1 DEF SafetyInv, SchedulerInv, CountersInv
<1>3. InState("SKIPPED") # {} => InState("FAILED") # {}
    BY <1>1 DEF FailureInv
<1>4. InState("PENDING") = {}
    BY <1>2 DEF InState, Terminal
<1>5. graphStatus = "success" <=> InState("FAILED") = {}
    BY <1>1, <1>4 DEF Verdict
<1>6. InState("FAILED") = {} <=> \A n \in nodes : status[n] = "COMPLETED"
    BY <1>2, <1>3 DEF InState, Terminal
<1> QED
    BY <1>2, <1>3, <1>5, <1>6

LEMMA PersistStateKeepsFirstRun ==
    ASSUME SafetyInv, PersistState
    PROVE  FirstRunInv'
<1> SUFFICES ASSUME run <= 1
             PROVE  FirstRunParts'
    BY DEF PersistState, FirstRunInv, FirstRunParts
<1>1. /\ FirstRunParts /\ run # 0 /\ pc = "complete" /\ pc' = "idle"
      /\ saved' = [status |-> graphStatus, nodes |-> [n \in nodes |-> status[n]]]
      /\ UNCHANGED <<strategy, nodes, parents, runOnFailure, indegree, status, run, cur, ready,
                     active, graphFailed, settled>>
    BY DEF PersistState, SafetyInv, SchedulerInv, CountersInv, FirstRunInv, FirstRunParts
<1>2. StatusInv'
    BY <1>1 DEF FirstRunParts, StatusInv, InState
<1>3. FailureInv'
    BY <1>1 DEF FirstRunParts, FailureInv, InState, Started, BelowAFailure
<1>4. SavedStateIsConsistent'
    <2>1. /\ saved'.status = graphStatus
          /\ DOMAIN saved'.nodes = nodes
          /\ \A n \in nodes : saved'.nodes[n] = status[n]
        BY <1>1
    <2> QED
        BY <1>1, <2>1, VerdictFacts DEF SavedStateIsConsistent
<1> QED
    BY <1>1, <1>2, <1>3, <1>4
    DEF FirstRunParts, StartedInv, Started, NoNodeLost, VerdictInv

\* Steps of the loop, the consumer and the tasks that touch no status.
LEMMA OtherStepsKeepFirstRun ==
    ASSUME SafetyInv,
           \/ AwaitEvent \/ WaitTimeout \/ ForwardEvent \/ ForwardResume \/ CloseStream
           \/ \E n \in Nodes : NodeEmits(n) \/ NodeEnds(n)
           \/ UNCHANGED vars
    PROVE  FirstRunInv'
<1> SUFFICES ASSUME run' <= 1
             PROVE  FirstRunParts'
    BY DEF FirstRunInv, FirstRunParts
<1>1. /\ UNCHANGED <<strategy, nodes, parents, runOnFailure, indegree, status, run, graphFailed,
                     settled, saved, graphStatus>>
      /\ \/ UNCHANGED <<pc, cur, ready, active>>
         \/ pc # "start" /\ pc' \in {"schedule", "wait", "forward"} /\ UNCHANGED <<ready, active>>
            /\ pc \in {"schedule", "wait", "forward"}
         \/ pc' = "idle" /\ active' = {} /\ ready' = <<>> /\ pc # "idle"
    BY DEF AwaitEvent, WaitTimeout, ForwardEvent, ForwardResume, CloseStream, NodeEmits,
           NodeEnds, NodeSucceeds, NodeErrors, NodeCancelled, EndTask, vars, Suspended
<1>2. FirstRunParts
    BY <1>1 DEF SafetyInv, FirstRunInv, FirstRunParts
<1>3. StatusInv'
    BY <1>1, <1>2 DEF FirstRunParts, StatusInv, InState
<1>4. FailureInv'
    BY <1>1, <1>2 DEF FirstRunParts, FailureInv, InState, Started, BelowAFailure
<1>5. NoNodeLost'
    BY <1>1, <1>2 DEF FirstRunParts, NoNodeLost
<1>6. VerdictInv'
    BY <1>1, <1>2 DEF FirstRunParts, VerdictInv, Verdict, InState
<1> QED
    BY <1>1, <1>2, <1>3, <1>4, <1>5, <1>6
    DEF FirstRunParts, StartedInv, Started, SavedStateIsConsistent

LEMMA NextKeepsSafety ==
    ASSUME SafetyInv, [Next]_vars
    PROVE  SafetyInv'
<1>1. SchedulerInv'
    BY NextKeepsScheduler DEF SafetyInv
<1>2. WellFoundedInv' /\ WrittenInv' /\ ReportedInv'
    BY NextKeepsWellFounded, NextKeepsWritten, NextKeepsReported
    DEF SafetyInv, SchedulerInv, StagesInv
<1>3. FirstRunInv'
    BY BeginRunKeepsFirstRun, FillReadyKeepsFirstRun, SkipReadyKeepsFirstRun,
       SkipResumeKeepsFirstRun, StartNodeKeepsFirstRun, LaunchNodeKeepsFirstRun,
       ReceiveFinishedKeepsFirstRun, SettleKeepsFirstRun, CompleteGraphKeepsFirstRun,
       PersistStateKeepsFirstRun, AddNodeKeepsFirstRun, OtherStepsKeepFirstRun
    DEF Next, RunStream
<1> QED
    BY <1>1, <1>2, <1>3 DEF SafetyInv

LEMMA SafetyInvariance ==
    Spec => []SafetyInv
<1>1. Init => SafetyInv
    BY InitStages, InitCounters, InitFirstRun DEF SafetyInv, SchedulerInv
<1> QED
    BY <1>1, NextKeepsSafety, PTL DEF Spec

-----------------------------------------------------------------------------
(* The safety properties.                                                  *)

\* A node that runs finds in the context the output of every node it depends on that completed
\* with something to hand on, in every run of the runner.
THEOREM InputsAreAvailable == Spec => []InputsAvailable
<1>1. SafetyInv => InputsAvailable
    BY DEF SafetyInv, SchedulerInv, StagesInv, TypeOK, GraphInv, WellFoundedInv, WrittenInv,
           InputsAvailable
<1> QED
    BY <1>1, SafetyInvariance, PTL

\* In the first run, under fail_fast and allow_independent, no node without run_on_failure has
\* started below a failed one, whatever the graph between them and whoever finished first.
THEOREM NothingRunsBelowFailures == Spec => []NothingRunsBelowAFailure
<1>1. SafetyInv => NothingRunsBelowAFailure
    BY DEF SafetyInv, FirstRunInv, FirstRunParts, FailureInv, NothingRunsBelowAFailure, Started
<1> QED
    BY <1>1, SafetyInvariance, PTL

\* In the first run a node is skipped only for a failure its strategy makes it answer for.
THEOREM SkipsAreJustified == Spec => []SkippedOnlyForAFailure
<1>1. SafetyInv => SkippedOnlyForAFailure
    BY DEF SafetyInv, FirstRunInv, FirstRunParts, FailureInv, SkippedOnlyForAFailure
<1> QED
    BY <1>1, SafetyInvariance, PTL

\* A first run that reaches its GraphCompleteEvent has ended and announced every node.
THEOREM CompletionAccounts == Spec => []CompleteAccountsForAllNodes
<1>1. SafetyInv => CompleteAccountsForAllNodes
    <2> SUFFICES ASSUME SafetyInv, run <= 1, pc = "complete"
                 PROVE  CompleteAccountsForAllNodes
        BY DEF CompleteAccountsForAllNodes
    <2>1. /\ \A n \in nodes : status[n] \in Terminal
          /\ InState("SKIPPED") # {} => InState("FAILED") # {}
          /\ graphStatus = "success" => InState("FAILED") = {}
        BY VerdictFacts
    <2>2. nodes \subseteq reported
        BY DEF SafetyInv, ReportedInv, FirstRunInv, FirstRunParts, VerdictInv
    <2>3. \A n \in InState("SKIPPED") : n \notin runOnFailure /\ strategy # "always_run"
        BY DEF SafetyInv, FirstRunInv, FirstRunParts, FailureInv
    <2> QED
        BY <2>1, <2>2, <2>3 DEF CompleteAccountsForAllNodes
<1> QED
    BY <1>1, SafetyInvariance, PTL

\* The summary a first run persists is that of a finished graph, and its verdict agrees with
\* the node statuses saved beside it.
THEOREM SavedStatesAreConsistent == Spec => []SavedStateIsConsistent
<1>1. SafetyInv => SavedStateIsConsistent
    <2>1. CASE run <= 1
        BY <2>1 DEF SafetyInv, FirstRunInv, FirstRunParts
    <2>2. CASE ~(run <= 1)
        BY <2>2 DEF SavedStateIsConsistent
    <2> QED
        BY <2>1, <2>2
<1> QED
    BY <1>1, SafetyInvariance, PTL

-----------------------------------------------------------------------------
(* The scheduler implements DagExecution (for its first run).              *)

\* The operators DagExecution imports are those GraphRunner imports.
LEMMA SameCardinality ==
    \A S : Abstract!Cardinality(S) = Cardinality(S)
BY DEF Abstract!Cardinality, Cardinality

LEMMA SameAncestors ==
    \A p, n : Abstract!Ancestors(p, n) = Ancestors(p, n)
BY DEF Abstract!Ancestors, Ancestors, Abstract!IsClosed, IsClosed

\* The failures that forbid a node to run are those the two skip checks look for.
LEMMA BlockingFailures ==
    ASSUME SafetyInv, run <= 1, NEW n \in nodes
    PROVE  /\ n \notin runOnFailure /\ strategy = "fail_fast" =>
                (Abstract!Blocking(n) # {} <=> graphFailed)
           /\ n \notin runOnFailure /\ strategy = "allow_independent" =>
                (Abstract!Blocking(n) # {} <=> HasFailedAncestor(n))
           /\ n \in runOnFailure \/ strategy = "always_run" => Abstract!Blocking(n) = {}
<1>1. FailureInv
    BY DEF SafetyInv, FirstRunInv, FirstRunParts
<1>2. /\ Abstract!InState("FAILED") = InState("FAILED")
      /\ Abstract!Ancestors(parents, n) = Ancestors(parents, n)
    BY SameAncestors DEF Abstract!InState, InState
<1> QED
    BY <1>1, <1>2 DEF Abstract!Blocking, FailureInv, HasFailedAncestor

\* A node of the graph is added before any has started.
LEMMA AddNodeImplements ==
    ASSUME SafetyInv, NEW n \in Nodes, AddNode(n)
    PROVE  Abstract!AddNode(n)
<1>1. TypeOK /\ StatusInv /\ run = 0
    BY DEF AddNode, SafetyInv, SchedulerInv, StagesInv, FirstRunInv, FirstRunParts
<1>2. status' = status
    BY <1>1 DEF AddNode, StatusInv, TypeOK
<1>3. Abstract!InState("PENDING") = nodes
    BY <1>1 DEF Abstract!InState, StatusInv
<1> QED
    BY <1>2, <1>3 DEF AddNode, Abstract!AddNode

\* A node starts pending, after its dependencies, with no failure against it and a free slot.
LEMMA StartNodeImplements ==
    ASSUME SafetyInv, run <= 1, StartNode
    PROVE  \E n \in nodes : Abstract!Start(n)
<1>1. /\ pc = "schedule" /\ ready # <<>> /\ ready' = Tail(ready) /\ cur' = Head(ready)
      /\ Cardinality(active) < MaxConcurrency
      /\ ~(StoppedByFailFast(cur') \/ ShouldSkipNode(cur'))
      /\ status' = [status EXCEPT ![cur'] = "RUNNING"]
      /\ UNCHANGED <<strategy, nodes, parents, runOnFailure, indegree, active>>
    BY DEF StartNode, CanSchedule
<1>2. /\ cur' \in nodes
      /\ parents[cur'] \subseteq settled
      /\ status[cur'] = "PENDING"
    BY <1>1, TakenFacts DEF StoppedByFailFast
<1>3. \A p \in parents[cur'] : status[p] \in Abstract!Terminal
    BY <1>2 DEF SafetyInv, SchedulerInv, CountersInv, Terminal, Abstract!Terminal
<1>4. Abstract!Blocking(cur') = {}
    <2>1. strategy \in AllStrategies
        BY StrategiesAssumption DEF SafetyInv, SchedulerInv, StagesInv, TypeOK
    <2> QED
        BY <1>1, <1>2, <2>1, BlockingFailures
        DEF StoppedByFailFast, ShouldSkipNode, AllStrategies
<1>5. Cardinality(Abstract!InState("RUNNING")) < MaxConcurrency
    <2> DEFINE R == Abstract!InState("RUNNING")
    <2>1. R \subseteq active
        BY <1>1 DEF SafetyInv, FirstRunInv, FirstRunParts, StatusInv, InState, Abstract!InState
    <2>2. active \in SUBSET Nodes /\ R \in SUBSET Nodes
        BY <2>1 DEF SafetyInv, SchedulerInv, StagesInv, TypeOK
    <2>3. IsFiniteSet(active) /\ Cardinality(active) \in Nat /\ Cardinality(R) \in Nat
        BY <2>2, FiniteParts DEF SafetyInv, SchedulerInv, StagesInv
    <2> HIDE DEF R
    <2>4. Cardinality(R) <= Cardinality(active)
        BY <2>1, <2>3, FS_Subset
    <2>5. Cardinality(R) < MaxConcurrency
        BY <1>1, <2>3, <2>4, ConcurrencyAssumption
    <2> QED
        BY <2>5 DEF R
<1>6. Abstract!Cardinality(Abstract!InState("RUNNING")) < MaxConcurrency
    BY <1>5, SameCardinality
<1> QED
    BY <1>1, <1>2, <1>3, <1>4, <1>6 DEF Abstract!Start

\* A node is skipped because a failure forbids it to run, unless it was given up before.
LEMMA SkipReadyImplements ==
    ASSUME SafetyInv, run <= 1, SkipReady
    PROVE  (\E S \in SUBSET nodes : Abstract!Skip(S)) \/ UNCHANGED Abstract!vars
<1>1. /\ pc = "schedule" /\ ready # <<>> /\ ready' = Tail(ready) /\ cur' = Head(ready)
      /\ StoppedByFailFast(cur') \/ ShouldSkipNode(cur')
      /\ status' = [status EXCEPT ![cur'] = "SKIPPED"]
      /\ UNCHANGED <<strategy, nodes, parents, runOnFailure, indegree, active>>
    BY DEF SkipReady, CanSchedule
<1>2. cur' \in nodes /\ status[cur'] \in {"PENDING", "SKIPPED"}
    BY <1>1, TakenFacts
<1>3. Abstract!Blocking(cur') # {}
    BY <1>1, <1>2, BlockingFailures DEF StoppedByFailFast, ShouldSkipNode
<1>4. status \in [Nodes -> Status]
    BY DEF SafetyInv, SchedulerInv, StagesInv, TypeOK
<1>5. CASE status[cur'] = "PENDING"
    <2>1. PICK S \in SUBSET nodes : S = {cur'}
        BY <1>2
    <2>2. status' = [n \in Nodes |-> IF n \in S THEN "SKIPPED" ELSE status[n]]
        BY <1>1, <1>4, <2>1
    <2>3. \A n \in S : status[n] = "PENDING" /\ Abstract!Blocking(n) # {}
        BY <1>3, <1>5, <2>1
    <2> QED
        BY <1>1, <2>1, <2>2, <2>3 DEF Abstract!Skip
<1>6. CASE status[cur'] = "SKIPPED"
    BY <1>1, <1>4, <1>6 DEF Abstract!vars
<1> QED
    BY <1>2, <1>5, <1>6

\* A task ends: its node was running and is now completed or failed.
LEMMA ReceiveFinishedImplements ==
    ASSUME SafetyInv, run <= 1, ReceiveFinished
    PROVE  \E n \in nodes : Abstract!Finish(n)
<1>1. /\ cur' \in nodes
      /\ status[cur'] = "RUNNING"
      /\ status'[cur'] \in {"COMPLETED", "FAILED"}
      /\ status' = [status EXCEPT ![cur'] = status'[cur']]
    BY FinishedFacts
<1>2. UNCHANGED <<strategy, nodes, parents, runOnFailure>>
    BY DEF ReceiveFinished
<1> QED
    BY <1>1, <1>2 DEF Abstract!Finish

\* A mass skip gives up pending nodes, each because of the failure being settled.
LEMMA SettleImplements ==
    ASSUME SafetyInv, run <= 1, Settle
    PROVE  (\E S \in SUBSET nodes : Abstract!Skip(S)) \/ UNCHANGED Abstract!vars
<1>1. UNCHANGED <<strategy, nodes, parents, runOnFailure>> /\ status \in [Nodes -> Status]
    BY DEF Settle, SafetyInv, SchedulerInv, StagesInv, TypeOK
<1>2. CASE status[cur] = "FAILED" /\ strategy = "fail_fast"
    <2>1. PICK S \in SUBSET nodes : S = InState("PENDING") \ runOnFailure
        BY DEF InState
    <2>2. status' = [n \in Nodes |-> IF n \in S THEN "SKIPPED" ELSE status[n]]
        BY <1>2, <2>1 DEF Settle, SkipAllPendingNodes
    <2>3. graphFailed
        BY <1>2 DEF Settle, SafetyInv, SchedulerInv, StagesInv, HeldInv, FirstRunInv, FirstRunParts,
                    FailureInv, InState
    <2>4. \A n \in S : n \in nodes /\ status[n] = "PENDING" /\ Abstract!Blocking(n) # {}
        BY <1>2, <2>1, <2>3, BlockingFailures DEF InState
    <2>5. CASE S # {}
        BY <1>1, <2>2, <2>4, <2>5 DEF Abstract!Skip
    <2>6. CASE S = {}
        BY <1>1, <2>2, <2>6 DEF Abstract!vars
    <2> QED
        BY <2>5, <2>6
<1>3. CASE ~(status[cur] = "FAILED" /\ strategy = "fail_fast")
    BY <1>1, <1>3 DEF Settle, Abstract!vars
<1> QED
    BY <1>2, <1>3

LEMMA NextImplements ==
    ASSUME SafetyInv, run <= 1, [Next]_vars
    PROVE  [Abstract!Next]_(Abstract!vars)
<1>1. CASE StartNode \/ SkipReady \/ ReceiveFinished \/ Settle
    <2>1. nodes \subseteq Nodes
        BY DEF SafetyInv, SchedulerInv, StagesInv, TypeOK
    <2> QED
        BY <1>1, StartNodeImplements, SkipReadyImplements, ReceiveFinishedImplements,
           SettleImplements
        DEF Abstract!Next
<1>2. CASE \E n \in Nodes : AddNode(n)
    BY <1>2, AddNodeImplements DEF Abstract!Next
<1>3. CASE UNCHANGED <<strategy, nodes, parents, runOnFailure, status>>
    BY <1>3 DEF Abstract!vars
<1>4. \/ StartNode \/ SkipReady \/ ReceiveFinished \/ Settle
      \/ \E n \in Nodes : AddNode(n)
      \/ UNCHANGED <<strategy, nodes, parents, runOnFailure, status>>
    BY DEF Next, RunStream, BeginRun, RunEmpty, FillReady, SkipResume, LaunchNode, AwaitEvent,
           WaitTimeout, ForwardEvent, ForwardResume, CompleteGraph, PersistState, CloseStream,
           NodeEmits, NodeEnds, NodeSucceeds, NodeErrors, NodeCancelled, EndTask, vars
<1> QED
    BY <1>1, <1>2, <1>3, <1>4

\* Through its first run the scheduler, with its queues, tasks and mass skips, does nothing
\* that the abstract execution of the graph does not allow.
THEOREM FirstRunImplements == Spec /\ [](run <= 1) => ImplementsDagExecution
<1>1. Init => Abstract!Init
    BY DEF Init, Abstract!Init
<1>2. SafetyInv /\ run <= 1 /\ [Next]_vars => [Abstract!Next]_(Abstract!vars)
    BY NextImplements
<1> QED
    BY <1>1, <1>2, SafetyInvariance, PTL DEF Spec, ImplementsDagExecution, Abstract!Spec

\* A runner whose run_stream is called once implements the abstract execution.
THEOREM SchedulerImplements ==
    ASSUME MaxRuns <= 1
    PROVE  Spec => ImplementsDagExecution
<1>1. SafetyInv => run <= 1
    BY BoundsAssumption DEF SafetyInv, SchedulerInv, StagesInv, TypeOK
<1> QED
    BY <1>1, SafetyInvariance, FirstRunImplements, PTL
=============================================================================
