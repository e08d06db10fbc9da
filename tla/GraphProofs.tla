---------------------------- MODULE GraphProofs ----------------------------
(***************************************************************************)
(* Theorems about GraphRunner, for any set of nodes, any max_concurrency,  *)
(* any strategy and any number of calls of run_stream.                     *)
(*                                                                         *)
(* The argument has two layers.  StagesInv says that a node is in at most  *)
(* one stage of its life at a time (in ready_queue, about to be launched,  *)
(* running, signalled as finished, being settled) and that the _indegree   *)
(* counter of a node past the first stage is used up, so that nothing      *)
(* releases it again.  It gives ConcurrencyBound.  CountersInv says that   *)
(* during the first run a counter is exactly the number of dependencies    *)
(* not yet settled, so that a released node has all its dependencies       *)
(* settled, and these theirs.  It gives CompletionHandledOnce and          *)
(* StartsAfterAncestors.                                                   *)
(***************************************************************************)
EXTENDS GraphRunner, FiniteSetTheorems, SequenceTheorems, TLAPS

-----------------------------------------------------------------------------
(* The inductive invariant.                                                *)

Distinct(q) == \A i, j \in 1..Len(q) : i # j => q[i] # q[j]

IsFinished(e) == e.kind = "finished"

\* Only nodes of the graph have dependencies.
GraphInv == \A n \in Nodes : parents[n] # {} => n \in nodes

\* Between runs, and when a run has nothing left to do, no task and no queue is left.
QuietInv ==
    pc \in {"idle", "start", "complete"} => active = {} /\ ready = <<>> /\ events = <<>>

\* The slots of active_tasks are enough for the node about to be launched.
SlotsInv ==
    /\ alive \subseteq active
    /\ Cardinality(active) <= MaxConcurrency
    /\ pc = "launch" => Cardinality(active) < MaxConcurrency

\* A node in the ready queue is there once, is not running, and is not released again.
ReadyInv ==
    /\ Distinct(ready)
    /\ \A i \in 1..Len(ready) : ready[i] \notin active /\ indegree[ready[i]] <= 0
    /\ \A n \in active : indegree[n] <= 0

\* The node held across a yield is in no queue.
HeldInv ==
    /\ pc \in {"skip", "launch", "settle"} => cur \in nodes
    /\ pc \in {"skip", "launch"} =>
        /\ cur \notin active
        /\ indegree[cur] <= 0
        /\ \A i \in 1..Len(ready) : ready[i] # cur
    /\ pc = "settle" =>
        /\ cur \in active \ alive
        /\ \A i \in 1..Len(events) : IsFinished(events[i]) => events[i].node # cur

\* The end of a task is signalled once, and while it is in active_tasks.
SignalInv ==
    /\ \A i \in 1..Len(events) : events[i].node \in nodes
    /\ \A i \in 1..Len(events) : IsFinished(events[i]) =>
            /\ events[i].node \in active \ alive
            /\ events[i].status \in {"COMPLETED", "FAILED"}
    /\ \A i, j \in 1..Len(events) :
            i # j /\ IsFinished(events[i]) /\ IsFinished(events[j])
            => events[i].node # events[j].node

StagesInv == TypeOK /\ GraphInv /\ QuietInv /\ SlotsInv /\ ReadyInv /\ HeldInv /\ SignalInv

\* What was settled in a run stays settled in it; in the first run the counters count.
CountersInv ==
    /\ run = 0 => pc = "idle" /\ settled = {}
    /\ pc = "start" => settled = {}
    /\ \A n \in settled : n \notin active /\ indegree[n] <= 0 /\ status[n] \in Terminal
    /\ \A i \in 1..Len(ready) : ready[i] \notin settled
    /\ pc \in {"skip", "launch", "settle"} => cur \notin settled
    /\ pc \in {"skip", "settle"} => status[cur] \in Terminal
    /\ run <= 1 => \A n \in Nodes : indegree[n] = Cardinality(parents[n] \ settled)

SchedulerInv == StagesInv /\ CountersInv

USE DEF config, queues, tasks, results

-----------------------------------------------------------------------------
(* The queues.                                                             *)

\* What SetToSeqs enumerates: each element of the set, once.
LEMMA EnumerationFacts ==
    ASSUME NEW S, IsFiniteSet(S), NEW q \in SetToSeqs(S)
    PROVE  q \in Seq(S) /\ Distinct(q)
<1> DEFINE N == Cardinality(S)
<1>1. N \in Nat
    BY FS_CardinalityType
<1>2. q \in [1..N -> S] /\ \A i, j \in 1..N : i # j => q[i] # q[j]
    BY DEF SetToSeqs
<1> HIDE DEF N
<1>3. q \in Seq(S) /\ Len(q) = N
    BY <1>1, <1>2, IsASeq
<1> QED
    BY <1>2, <1>3 DEF Distinct

\* A sequence over a part of a set is a sequence over the set.
LEMMA WiderSeq ==
    ASSUME NEW S, NEW T, S \subseteq T, NEW q \in Seq(S)
    PROVE  q \in Seq(T)
BY SeqMonotonic

\* What is left of a sequence when its head is taken.
LEMMA TailFacts ==
    ASSUME NEW S, NEW q \in Seq(S), q # <<>>
    PROVE  /\ Head(q) = q[1] /\ Head(q) \in S
           /\ Tail(q) \in Seq(S)
           /\ Len(q) \in Nat /\ Len(q) >= 1 /\ Len(Tail(q)) = Len(q) - 1
           /\ \A i \in 1..Len(Tail(q)) : i + 1 \in 1..Len(q) /\ Tail(q)[i] = q[i + 1]
BY HeadTailProperties

\* The children a settled node releases go to the end of ready_queue; they were not in it.
LEMMA ReleaseFacts ==
    ASSUME TypeOK, GraphInv, ReadyInv, NEW n \in nodes, HandleNodeCompletion(n)
    PROVE  /\ indegree' \in [Nodes -> Int]
           /\ \A c \in Nodes : indegree'[c] <= indegree[c]
           /\ ready' \in Seq(nodes)
           /\ Distinct(ready')
           /\ \A i \in 1..Len(ready') :
                \/ \E j \in 1..Len(ready) : ready'[i] = ready[j]
                \/ indegree[ready'[i]] = 1 /\ indegree'[ready'[i]] = 0
<1> DEFINE S == {c \in Children(parents, n) : indegree[c] = 1}
<1>1. /\ indegree \in [Nodes -> Int]
      /\ nodes \subseteq Nodes
      /\ ready \in Seq(nodes)
      /\ parents \in [Nodes -> SUBSET Nodes]
    BY DEF TypeOK
<1>2. /\ indegree' \in [Nodes -> Int]
      /\ \A c \in Nodes : indegree'[c] <= indegree[c]
    BY <1>1 DEF HandleNodeCompletion
<1>3. \A c \in S : c \in nodes /\ indegree[c] = 1 /\ indegree'[c] = 0
    BY <1>1 DEF HandleNodeCompletion, Children, GraphInv
<1>4. IsFiniteSet(S)
    BY <1>1, <1>3, NodesAssumption, FS_Subset
<1>5. PICK released \in SetToSeqs(S) : ready' = ready \o released
    BY DEF HandleNodeCompletion
<1> HIDE DEF S
<1>6. released \in Seq(S) /\ Distinct(released)
    BY <1>4, <1>5, EnumerationFacts
<1>7. released \in Seq(nodes)
    BY <1>3, <1>6, WiderSeq
<1>8. \A i \in 1..Len(released) : released[i] \in S
    BY <1>6, ElementOfSeq
<1>9. /\ ready' \in Seq(nodes)
      /\ Len(ready') = Len(ready) + Len(released)
      /\ \A i \in 1..Len(ready') :
            ready'[i] = IF i <= Len(ready) THEN ready[i] ELSE released[i - Len(ready)]
      /\ Len(ready) \in Nat /\ Len(released) \in Nat
    BY <1>1, <1>5, <1>7, ConcatProperties
<1>10. \A i \in 1..Len(ready') :
          \/ i \in 1..Len(ready) /\ ready'[i] = ready[i]
          \/ i - Len(ready) \in 1..Len(released) /\ ready'[i] = released[i - Len(ready)]
    BY <1>9
<1>11. \A i \in 1..Len(ready) : indegree[ready[i]] # 1
    BY <1>1, ElementOfSeq DEF ReadyInv
<1>12. \A i \in 1..Len(released) : indegree[released[i]] = 1 /\ indegree'[released[i]] = 0
    BY <1>3, <1>8
<1>13. ASSUME NEW k \in 1..Len(ready')
       PROVE  indegree[ready'[k]] = 1 <=> k > Len(ready)
    <2>1. CASE k <= Len(ready)
        <3>1. k \in 1..Len(ready) /\ ready'[k] = ready[k]
            BY <1>9, <2>1
        <3> QED
            BY <1>9, <1>11, <2>1, <3>1
    <2>2. CASE k > Len(ready)
        <3>1. k - Len(ready) \in 1..Len(released) /\ ready'[k] = released[k - Len(ready)]
            BY <1>9, <2>2
        <3> QED
            BY <1>12, <2>2, <3>1
    <2> QED
        BY <1>9, <2>1, <2>2
<1>14. Distinct(ready')
    <2> SUFFICES ASSUME NEW i \in 1..Len(ready'), NEW j \in 1..Len(ready'), i # j
                 PROVE  ready'[i] # ready'[j]
        BY DEF Distinct
    <2>1. CASE i <= Len(ready) /\ j <= Len(ready)
        BY <1>9, <2>1 DEF Distinct, ReadyInv
    <2>2. CASE i > Len(ready) /\ j > Len(ready)
        <3>1. /\ i - Len(ready) \in 1..Len(released) /\ ready'[i] = released[i - Len(ready)]
              /\ j - Len(ready) \in 1..Len(released) /\ ready'[j] = released[j - Len(ready)]
            BY <1>9, <2>2
        <3>2. i - Len(ready) # j - Len(ready)
            BY <1>9
        <3> QED
            BY <1>6, <3>1, <3>2 DEF Distinct
    <2>3. CASE i <= Len(ready) <=> j > Len(ready)
        BY <1>9, <1>13, <2>3
    <2> QED
        BY <1>9, <2>1, <2>2, <2>3
<1>15. \A i \in 1..Len(ready') :
            \/ \E j \in 1..Len(ready) : ready'[i] = ready[j]
            \/ indegree[ready'[i]] = 1 /\ indegree'[ready'[i]] = 0
    BY <1>10, <1>12
<1> QED
    BY <1>2, <1>9, <1>14, <1>15

\* Every set of nodes is finite.
LEMMA FiniteParts ==
    ASSUME TypeOK, NEW S \in SUBSET Nodes
    PROVE  IsFiniteSet(S) /\ Cardinality(S) \in Nat
BY NodesAssumption, FS_Subset, FS_CardinalityType

\* The notices of a mass skip go to the end of events_queue and end no task.
LEMMA NoticeFacts ==
    ASSUME TypeOK, SkipAllPendingNodes
    PROVE  /\ status' \in [Nodes -> Status]
           /\ \A n \in Nodes : status'[n] = status[n] \/ status'[n] = "SKIPPED"
           /\ events' \in Seq(Event)
           /\ \A i \in 1..Len(events') :
                \/ i \in 1..Len(events) /\ events'[i] = events[i]
                \/ events'[i].kind = "skip" /\ events'[i].node \in nodes
<1> DEFINE S == InState("PENDING") \ runOnFailure
<1>1. /\ status \in [Nodes -> Status]
      /\ nodes \subseteq Nodes
      /\ events \in Seq(Event)
    BY DEF TypeOK
<1>2. /\ status' \in [Nodes -> Status]
      /\ \A n \in Nodes : status'[n] = status[n] \/ status'[n] = "SKIPPED"
    BY <1>1 DEF SkipAllPendingNodes, Status
<1>3. S \subseteq nodes /\ IsFiniteSet(S)
    BY <1>1, FiniteParts DEF InState
<1>4. PICK order \in SetToSeqs(S) :
        events' = events \o [i \in 1..Len(order) |-> SkipEvent(order[i])]
    BY DEF SkipAllPendingNodes
<1> HIDE DEF S
<1> DEFINE notices == [i \in 1..Len(order) |-> SkipEvent(order[i])]
<1>5. order \in Seq(S) /\ Len(order) \in Nat
    BY <1>3, <1>4, EnumerationFacts
<1>6. \A i \in 1..Len(order) : order[i] \in nodes
    BY <1>3, <1>5, ElementOfSeq
<1>7. \A i \in 1..Len(order) : SkipEvent(order[i]) \in Event
    BY <1>1, <1>6 DEF SkipEvent, Event, Status
<1>8. /\ notices \in Seq(Event)
      /\ Len(notices) = Len(order)
      /\ \A i \in 1..Len(order) : notices[i] = SkipEvent(order[i])
    BY <1>5, <1>7, IsASeq
<1> HIDE DEF notices
<1>9. /\ events' \in Seq(Event)
      /\ Len(events') = Len(events) + Len(notices)
      /\ \A i \in 1..Len(events') :
            events'[i] = IF i <= Len(events) THEN events[i] ELSE notices[i - Len(events)]
      /\ Len(events) \in Nat
    BY <1>1, <1>4, <1>8, ConcatProperties DEF notices
<1>10. ASSUME NEW i \in 1..Len(events')
       PROVE  \/ i \in 1..Len(events) /\ events'[i] = events[i]
              \/ events'[i].kind = "skip" /\ events'[i].node \in nodes
    <2>1. CASE i <= Len(events)
        BY <1>9, <2>1
    <2>2. CASE i > Len(events)
        <3>1. i - Len(events) \in 1..Len(order)
            BY <1>5, <1>8, <1>9, <2>2
        <3>2. events'[i] = SkipEvent(order[i - Len(events)])
            BY <1>8, <1>9, <2>2, <3>1
        <3> QED
            BY <1>6, <3>1, <3>2 DEF SkipEvent
    <2> QED
        BY <1>9, <2>1, <2>2
<1> QED
    BY <1>2, <1>9, <1>10

\* Taking the head of events_queue leaves the signals right.
LEMMA TakeEvent ==
    ASSUME TypeOK, SignalInv, events # <<>>, events' = Tail(events),
           UNCHANGED <<nodes, active, alive>>
    PROVE  /\ events' \in Seq(Event)
           /\ SignalInv'
           /\ Head(events) \in Event
           /\ Head(events).node \in nodes
           /\ IsFinished(Head(events)) =>
                /\ Head(events).node \in active \ alive
                /\ Head(events).status \in {"COMPLETED", "FAILED"}
                /\ \A i \in 1..Len(events') :
                        IsFinished(events'[i]) => events'[i].node # Head(events).node
<1>1. events \in Seq(Event)
    BY DEF TypeOK
<1>2. /\ Head(events) = events[1] /\ Head(events) \in Event
      /\ events' \in Seq(Event)
      /\ Len(events) \in Nat /\ Len(events) >= 1 /\ Len(events') = Len(events) - 1
      /\ \A i \in 1..Len(events') : i + 1 \in 1..Len(events) /\ events'[i] = events[i + 1]
    BY <1>1, TailFacts
<1>3. SignalInv'
    BY <1>2 DEF SignalInv
<1>4. 1 \in 1..Len(events)
    BY <1>2
<1> QED
    BY <1>2, <1>3, <1>4 DEF SignalInv

\* What a task puts at the end of events_queue leaves them right.
LEMMA PutEvent ==
    ASSUME TypeOK, SignalInv, UNCHANGED <<nodes, active>>, alive' \subseteq alive,
           NEW e \in Event, events' = Append(events, e), e.node \in nodes,
           IsFinished(e) => /\ e.node \in active /\ e.node \in alive /\ e.node \notin alive'
                            /\ e.status \in {"COMPLETED", "FAILED"}
    PROVE  events' \in Seq(Event) /\ SignalInv'
<1>1. events \in Seq(Event)
    BY DEF TypeOK
<1>2. /\ events' \in Seq(Event)
      /\ Len(events') = Len(events) + 1 /\ Len(events) \in Nat
      /\ events'[Len(events) + 1] = e
      /\ \A i \in 1..Len(events) : events'[i] = events[i]
    BY <1>1, AppendProperties
<1>3. \A i \in 1..Len(events') : i \in 1..Len(events) \/ i = Len(events) + 1
    BY <1>2
<1>4. \A i \in 1..Len(events) : IsFinished(events[i]) => events[i].node \notin alive
    BY DEF SignalInv
<1> QED
    BY <1>2, <1>3, <1>4 DEF SignalInv

\* After a release the ready queue is right again, whether or not a task is dropped with it.
LEMMA ReadyAfterRelease ==
    ASSUME TypeOK, ReadyInv, active' \subseteq active,
           indegree' \in [Nodes -> Int], \A c \in Nodes : indegree'[c] <= indegree[c],
           ready' \in Seq(nodes), Distinct(ready'),
           \A i \in 1..Len(ready') :
                \/ \E j \in 1..Len(ready) : ready'[i] = ready[j]
                \/ indegree[ready'[i]] = 1 /\ indegree'[ready'[i]] = 0
    PROVE  ReadyInv'
<1>1. \A n \in active' : indegree'[n] <= 0
    BY DEF TypeOK, ReadyInv
<1>2. ASSUME NEW i \in 1..Len(ready')
      PROVE  ready'[i] \notin active' /\ indegree'[ready'[i]] <= 0
    <2>1. ready'[i] \in Nodes
        BY ElementOfSeq DEF TypeOK
    <2>2. CASE \E j \in 1..Len(ready) : ready'[i] = ready[j]
        <3>1. PICK j \in 1..Len(ready) : ready'[i] = ready[j]
            BY <2>2
        <3>2. ready[j] \notin active /\ indegree[ready[j]] <= 0
            BY DEF ReadyInv
        <3>3. indegree'[ready[j]] <= indegree[ready[j]]
            BY <2>1, <3>1
        <3>4. indegree'[ready[j]] \in Int /\ indegree[ready[j]] \in Int
            BY <2>1, <3>1 DEF TypeOK
        <3> QED
            BY <3>1, <3>2, <3>3, <3>4
    <2>3. CASE indegree[ready'[i]] = 1 /\ indegree'[ready'[i]] = 0
        <3>1. ready'[i] \notin active
            BY <2>3 DEF ReadyInv
        <3> QED
            BY <2>3, <3>1
    <2> QED
        BY <2>2, <2>3
<1> QED
    BY <1>1, <1>2 DEF ReadyInv

\* An event put at the end of events_queue is the only new one.
LEMMA AppendedEvent ==
    ASSUME TypeOK, NEW e \in Event, events' = Append(events, e)
    PROVE  \A i \in 1..Len(events') :
                (i \in 1..Len(events) /\ events'[i] = events[i]) \/ events'[i] = e
<1>1. events \in Seq(Event)
    BY DEF TypeOK
<1>2. /\ Len(events') = Len(events) + 1 /\ Len(events) \in Nat
      /\ events'[Len(events) + 1] = e
      /\ \A i \in 1..Len(events) : events'[i] = events[i]
    BY <1>1, AppendProperties
<1> QED
    BY <1>2

-----------------------------------------------------------------------------
(* Every action preserves StagesInv.                                       *)

LEMMA InitStages ==
    Init => StagesInv
<1> SUFFICES ASSUME Init PROVE StagesInv
    OBVIOUS
<1>1. TypeOK
    <2>1. emitted \in [Nodes -> 0..MaxNodeEvents] /\ run \in 0..MaxRuns
        BY BoundsAssumption DEF Init
    <2>2. ready \in Seq(nodes) /\ events \in Seq(Event)
        BY EmptySeq DEF Init
    <2>3. parents \in [Nodes -> SUBSET Nodes] /\ status \in [Nodes -> Status]
          /\ indegree \in [Nodes -> Int]
        BY DEF Init, Status
    <2> QED
        BY <2>1, <2>2, <2>3 DEF Init, TypeOK, Suspended
<1>2. SlotsInv
    BY ConcurrencyAssumption, FS_EmptySet DEF Init, SlotsInv
<1> QED
    BY <1>1, <1>2 DEF Init, StagesInv, GraphInv, QuietInv, ReadyInv, HeldInv, SignalInv, Distinct

LEMMA AddNodeKeepsStages ==
    ASSUME StagesInv, NEW n \in Nodes, AddNode(n)
    PROVE  StagesInv'
<1> USE DEF AddNode, StagesInv
<1>1. PICK deps \in SUBSET nodes :
        /\ parents' = [parents EXCEPT ![n] = deps]
        /\ indegree' = [indegree EXCEPT ![n] = Cardinality(deps)]
    OBVIOUS
<1>2. Cardinality(deps) \in Nat
    BY FiniteParts DEF TypeOK
<1>3. TypeOK' /\ GraphInv'
    BY <1>1, <1>2 DEF TypeOK, GraphInv, Suspended, Status
<1>4. QuietInv' /\ SlotsInv' /\ HeldInv'
    BY DEF QuietInv, SlotsInv, HeldInv
<1>5. ReadyInv'
    BY DEF ReadyInv, QuietInv, Distinct
<1>6. SignalInv'
    BY DEF SignalInv, QuietInv
<1> QED
    BY <1>3, <1>4, <1>5, <1>6

LEMMA BeginRunKeepsStages ==
    ASSUME StagesInv, BeginRun
    PROVE  StagesInv'
<1> USE DEF BeginRun, StagesInv
<1>1. TypeOK' /\ GraphInv'
    <2>1. emitted' \in [Nodes -> 0..MaxNodeEvents] /\ run' \in 0..MaxRuns
        BY BoundsAssumption DEF TypeOK
    <2> QED
        BY <2>1 DEF TypeOK, GraphInv, Suspended
<1> QED
    BY <1>1 DEF QuietInv, SlotsInv, ReadyInv, HeldInv, SignalInv

LEMMA RunEmptyKeepsStages ==
    ASSUME StagesInv, RunEmpty
    PROVE  StagesInv'
<1> USE DEF RunEmpty, StagesInv
<1>1. TypeOK' /\ GraphInv'
    BY BoundsAssumption DEF TypeOK, GraphInv
<1> QED
    BY <1>1 DEF QuietInv, SlotsInv, ReadyInv, HeldInv, SignalInv

LEMMA FillReadyKeepsStages ==
    ASSUME StagesInv, FillReady
    PROVE  StagesInv'
<1> USE DEF FillReady, StagesInv
<1> DEFINE S == {n \in nodes : indegree[n] = 0}
<1>1. IsFiniteSet(S)
    BY FiniteParts DEF TypeOK
<1>2. ready' \in SetToSeqs(S)
    OBVIOUS
<1> HIDE DEF S
<1>3. ready' \in Seq(S) /\ Distinct(ready')
    BY <1>1, <1>2, EnumerationFacts
<1>4. \A i \in 1..Len(ready') : ready'[i] \in nodes /\ indegree[ready'[i]] = 0
    BY <1>3, ElementOfSeq DEF S
<1>5. ready' \in Seq(nodes)
    BY <1>3, WiderSeq DEF S
<1>6. TypeOK' /\ GraphInv'
    BY <1>5 DEF TypeOK, GraphInv, Suspended
<1>7. ReadyInv'
    BY <1>3, <1>4 DEF ReadyInv, QuietInv
<1> QED
    BY <1>6, <1>7 DEF QuietInv, SlotsInv, HeldInv, SignalInv

\* The head of ready_queue, taken to be skipped or launched.
LEMMA TakeReady ==
    ASSUME StagesInv, ready # <<>>, ready' = Tail(ready), UNCHANGED <<active, indegree>>
    PROVE  /\ ready' \in Seq(nodes)
           /\ ReadyInv'
           /\ Head(ready) \in nodes
           /\ Head(ready) \notin active
           /\ indegree[Head(ready)] <= 0
           /\ \A i \in 1..Len(ready') : ready'[i] # Head(ready)
           /\ \A i \in 1..Len(ready') : \E j \in 1..Len(ready) : ready'[i] = ready[j]
<1>1. ready \in Seq(nodes)
    BY DEF StagesInv, TypeOK
<1>2. /\ Head(ready) = ready[1] /\ Head(ready) \in nodes
      /\ ready' \in Seq(nodes)
      /\ Len(ready) \in Nat /\ Len(ready) >= 1 /\ Len(ready') = Len(ready) - 1
      /\ \A i \in 1..Len(ready') : i + 1 \in 1..Len(ready) /\ ready'[i] = ready[i + 1]
    BY <1>1, TailFacts
<1>3. 1 \in 1..Len(ready) /\ \A i \in 1..Len(ready') : i + 1 # 1
    BY <1>2
<1>4. Distinct(ready')
    BY <1>2 DEF StagesInv, ReadyInv, Distinct
<1>5. \A i \in 1..Len(ready') : ready'[i] # Head(ready)
    BY <1>2, <1>3 DEF StagesInv, ReadyInv, Distinct
<1> QED
    BY <1>2, <1>3, <1>4, <1>5 DEF StagesInv, ReadyInv

LEMMA SkipReadyKeepsStages ==
    ASSUME StagesInv, SkipReady
    PROVE  StagesInv'
<1> USE DEF SkipReady, CanSchedule, StagesInv
<1>1. /\ ready' \in Seq(nodes)
      /\ ReadyInv'
      /\ cur' \in nodes /\ cur' \notin active /\ indegree[cur'] <= 0
      /\ \A i \in 1..Len(ready') : ready'[i] # cur'
    BY TakeReady
<1>2. TypeOK' /\ GraphInv'
    BY <1>1 DEF TypeOK, GraphInv, Suspended, Status
<1>3. HeldInv'
    BY <1>1 DEF HeldInv
<1> QED
    BY <1>1, <1>2, <1>3 DEF QuietInv, SlotsInv, SignalInv

LEMMA StartNodeKeepsStages ==
    ASSUME StagesInv, StartNode
    PROVE  StagesInv'
<1> USE DEF StartNode, CanSchedule, StagesInv
<1>1. /\ ready' \in Seq(nodes)
      /\ ReadyInv'
      /\ cur' \in nodes /\ cur' \notin active /\ indegree[cur'] <= 0
      /\ \A i \in 1..Len(ready') : ready'[i] # cur'
    BY TakeReady
<1>2. TypeOK' /\ GraphInv'
    BY <1>1 DEF TypeOK, GraphInv, Suspended, Status
<1>3. HeldInv'
    BY <1>1 DEF HeldInv
<1> QED
    BY <1>1, <1>2, <1>3 DEF QuietInv, SlotsInv, SignalInv

LEMMA SkipResumeKeepsStages ==
    ASSUME StagesInv, SkipResume
    PROVE  StagesInv'
<1> USE DEF SkipResume, StagesInv
<1>1. cur \in nodes /\ HandleNodeCompletion(cur)
    BY DEF HeldInv
<1>2. /\ indegree' \in [Nodes -> Int]
      /\ \A c \in Nodes : indegree'[c] <= indegree[c]
      /\ ready' \in Seq(nodes)
      /\ Distinct(ready')
      /\ \A i \in 1..Len(ready') :
            \/ \E j \in 1..Len(ready) : ready'[i] = ready[j]
            \/ indegree[ready'[i]] = 1 /\ indegree'[ready'[i]] = 0
    BY <1>1, ReleaseFacts
<1>3. settled' = settled \cup {cur}
    BY <1>1 DEF HandleNodeCompletion
<1>4. TypeOK' /\ GraphInv'
    BY <1>1, <1>2, <1>3 DEF TypeOK, GraphInv, Suspended
<1>5. ReadyInv'
    BY <1>2, ReadyAfterRelease
<1> QED
    BY <1>4, <1>5 DEF QuietInv, SlotsInv, HeldInv, SignalInv

LEMMA LaunchNodeKeepsStages ==
    ASSUME StagesInv, LaunchNode
    PROVE  StagesInv'
<1> USE DEF LaunchNode, StagesInv
<1>1. cur \in nodes /\ cur \notin active /\ indegree[cur] <= 0
    BY DEF HeldInv
<1>2. TypeOK' /\ GraphInv'
    BY <1>1 DEF TypeOK, GraphInv, Suspended
<1>3. IsFiniteSet(active) /\ Cardinality(active) \in Nat
    BY FiniteParts DEF TypeOK
<1>4. Cardinality(active') = Cardinality(active) + 1
    BY <1>1, <1>3, FS_AddElement
<1>5. SlotsInv'
    BY <1>3, <1>4, ConcurrencyAssumption DEF SlotsInv
<1>6. ReadyInv'
    BY <1>1 DEF ReadyInv, HeldInv
<1>7. SignalInv'
    BY <1>1 DEF SignalInv
<1> QED
    BY <1>2, <1>5, <1>6, <1>7 DEF QuietInv, HeldInv

LEMMA ReceiveFinishedKeepsStages ==
    ASSUME StagesInv, ReceiveFinished
    PROVE  StagesInv'
<1> USE DEF ReceiveFinished, StagesInv, IsFinished
<1>1. /\ events' \in Seq(Event)
      /\ SignalInv'
      /\ cur' \in active \ alive
      /\ Head(events).status \in {"COMPLETED", "FAILED"}
      /\ \A i \in 1..Len(events') : IsFinished(events'[i]) => events'[i].node # cur'
    BY TakeEvent
<1>2. TypeOK' /\ GraphInv'
    BY <1>1 DEF TypeOK, GraphInv, Suspended, Status
<1>3. HeldInv'
    BY <1>1 DEF HeldInv, TypeOK
<1> QED
    BY <1>1, <1>2, <1>3 DEF QuietInv, SlotsInv, ReadyInv

LEMMA SettleKeepsStages ==
    ASSUME StagesInv, Settle
    PROVE  StagesInv'
<1> USE DEF Settle, StagesInv
<1>1. cur \in nodes /\ cur \in active \ alive /\ HandleNodeCompletion(cur)
    BY DEF HeldInv
<1>2. /\ indegree' \in [Nodes -> Int]
      /\ \A c \in Nodes : indegree'[c] <= indegree[c]
      /\ ready' \in Seq(nodes)
      /\ Distinct(ready')
      /\ \A i \in 1..Len(ready') :
            \/ \E j \in 1..Len(ready) : ready'[i] = ready[j]
            \/ indegree[ready'[i]] = 1 /\ indegree'[ready'[i]] = 0
    BY <1>1, ReleaseFacts
<1>3. settled' = settled \cup {cur}
    BY <1>1 DEF HandleNodeCompletion
<1>4. /\ status' \in [Nodes -> Status]
      /\ events' \in Seq(Event)
      /\ \A i \in 1..Len(events') :
            \/ i \in 1..Len(events) /\ events'[i] = events[i]
            \/ events'[i].kind = "skip" /\ events'[i].node \in nodes
    <2>1. CASE status[cur] = "FAILED" /\ strategy = "fail_fast"
        BY <2>1, NoticeFacts
    <2>2. CASE ~(status[cur] = "FAILED" /\ strategy = "fail_fast")
        BY <2>2 DEF TypeOK
    <2> QED
        BY <2>1, <2>2
<1>5. TypeOK' /\ GraphInv'
    BY <1>1, <1>2, <1>3, <1>4 DEF TypeOK, GraphInv, Suspended
<1>6. SlotsInv'
    <2>1. IsFiniteSet(active) /\ Cardinality(active) \in Nat
        BY FiniteParts DEF TypeOK
    <2>2. Cardinality(active') <= Cardinality(active)
        <3>1. active' = active \ {cur}
            OBVIOUS
        <3>2. Cardinality(active \ {cur}) = Cardinality(active) - 1
            BY <1>1, <2>1, FS_RemoveElement
        <3> QED
            BY <2>1, <3>1, <3>2
    <2>3. Cardinality(active') \in Nat
        BY <1>5, FiniteParts DEF TypeOK
    <2> QED
        BY <1>1, <2>1, <2>2, <2>3, ConcurrencyAssumption DEF SlotsInv
<1>7. ReadyInv'
    BY <1>2, ReadyAfterRelease
<1>8. SignalInv'
    BY <1>1, <1>4 DEF SignalInv, HeldInv, IsFinished
<1> QED
    BY <1>5, <1>6, <1>7, <1>8 DEF QuietInv, HeldInv

LEMMA ForwardEventKeepsStages ==
    ASSUME StagesInv, ForwardEvent
    PROVE  StagesInv'
<1> USE DEF ForwardEvent, StagesInv
<1>1. events' \in Seq(Event) /\ SignalInv' /\ Head(events).node \in nodes
    BY TakeEvent
<1>2. TypeOK' /\ GraphInv'
    BY <1>1 DEF TypeOK, GraphInv, Suspended
<1> QED
    BY <1>1, <1>2 DEF QuietInv, SlotsInv, ReadyInv, HeldInv

LEMMA TurnKeepsStages ==
    ASSUME StagesInv, AwaitEvent \/ WaitTimeout \/ ForwardResume \/ CompleteGraph \/ PersistState
    PROVE  StagesInv'
<1> USE DEF AwaitEvent, WaitTimeout, ForwardResume, CompleteGraph, PersistState, StagesInv
<1>1. TypeOK' /\ GraphInv'
    BY DEF TypeOK, GraphInv, Suspended, Verdict
<1>2. UNCHANGED <<active, alive, ready, events, indegree, nodes>>
    OBVIOUS
<1>3. pc' \notin {"skip", "launch", "settle"}
    OBVIOUS
<1>4. QuietInv'
    BY DEF QuietInv
<1> QED
    BY <1>1, <1>2, <1>3, <1>4 DEF SlotsInv, ReadyInv, HeldInv, SignalInv

LEMMA CloseStreamKeepsStages ==
    ASSUME StagesInv, CloseStream
    PROVE  StagesInv'
<1> USE DEF CloseStream, StagesInv
<1>1. TypeOK' /\ GraphInv'
    <2>1. /\ emitted' \in [Nodes -> 0..MaxNodeEvents]
          /\ result' \in [Nodes -> {"none", "ok", "error"}]
        BY BoundsAssumption DEF TypeOK
    <2> QED
        BY <2>1 DEF TypeOK, GraphInv
<1>2. SlotsInv'
    BY FS_EmptySet, ConcurrencyAssumption DEF SlotsInv
<1> QED
    BY <1>1, <1>2 DEF QuietInv, ReadyInv, HeldInv, SignalInv, Distinct

LEMMA NodeEmitsKeepsStages ==
    ASSUME StagesInv, NEW n \in Nodes, NodeEmits(n)
    PROVE  StagesInv'
<1> USE DEF NodeEmits, TaskMayStep, StagesInv
<1>1. StreamEvent(n) \in Event /\ ~IsFinished(StreamEvent(n)) /\ StreamEvent(n).node \in nodes
    BY DEF StreamEvent, Event, Status, IsFinished, TypeOK
<1>2. events' \in Seq(Event) /\ SignalInv'
    BY <1>1, PutEvent
<1>3. TypeOK' /\ GraphInv'
    <2>1. emitted' \in [Nodes -> 0..MaxNodeEvents]
        BY BoundsAssumption DEF TypeOK
    <2>2. PICK r \in {result[n], "ok", "error"} : result' = [result EXCEPT ![n] = r]
        OBVIOUS
    <2>3. r \in {"none", "ok", "error"}
        BY <2>2 DEF TypeOK
    <2>4. result' \in [Nodes -> {"none", "ok", "error"}]
        BY <2>2, <2>3 DEF TypeOK
    <2> QED
        BY <1>2, <2>1, <2>4 DEF TypeOK, GraphInv
<1>4. HeldInv'
    BY <1>1, AppendedEvent DEF HeldInv
<1>5. QuietInv'
    BY DEF QuietInv, Suspended, SlotsInv
<1> QED
    BY <1>2, <1>3, <1>4, <1>5 DEF SlotsInv, ReadyInv

\* A task ends and signals it.
LEMMA SignalKeepsStages ==
    ASSUME StagesInv, NEW n \in Nodes, NEW r \in {"none", "ok", "error"}, EndTask(n, r),
           NEW s \in {"COMPLETED", "FAILED"}, events' = Append(events, FinishedEvent(n, s)),
           written' \in {written, written \cup {n}}
    PROVE  StagesInv'
<1> USE DEF EndTask, TaskMayStep, StagesInv
<1> DEFINE e == FinishedEvent(n, s)
<1>1. e \in Event /\ e.node = n /\ e.status = s /\ n \in nodes /\ n \in active
    BY DEF FinishedEvent, Event, Status, TypeOK, SlotsInv
<1> HIDE DEF e
<1>2. events' = Append(events, e)
    BY DEF e
<1>3. events' \in Seq(Event) /\ SignalInv'
    BY <1>1, <1>2, PutEvent
<1>4. TypeOK' /\ GraphInv'
    BY <1>1, <1>3, BoundsAssumption DEF TypeOK, GraphInv
<1>5. HeldInv'
    BY <1>1, <1>2, AppendedEvent DEF HeldInv
<1>6. QuietInv'
    BY DEF QuietInv, Suspended, SlotsInv
<1> QED
    BY <1>3, <1>4, <1>5, <1>6 DEF SlotsInv, ReadyInv

LEMMA NodeEndsKeepsStages ==
    ASSUME StagesInv, NEW n \in Nodes, NodeEnds(n)
    PROVE  StagesInv'
<1>1. CASE NodeSucceeds(n)
    <2>1. PICK r \in Outcomes(n) :
            EndTask(n, r) /\ written' = IF r = "ok" THEN written \cup {n} ELSE written
        BY <1>1 DEF NodeSucceeds
    <2>2. r \in {"none", "ok", "error"}
        BY DEF Outcomes, StagesInv, TypeOK
    <2> QED
        BY <1>1, <2>1, <2>2, SignalKeepsStages DEF NodeSucceeds
<1>2. CASE NodeErrors(n)
    BY <1>2, SignalKeepsStages DEF NodeErrors
<1>3. CASE NodeCancelled(n)
    <2> USE DEF NodeCancelled, EndTask, StagesInv
    <2>1. TypeOK' /\ GraphInv'
        BY <1>3, BoundsAssumption DEF TypeOK, GraphInv
    <2> QED
        BY <1>3, <2>1 DEF QuietInv, SlotsInv, ReadyInv, HeldInv, SignalInv
<1> QED
    BY <1>1, <1>2, <1>3 DEF NodeEnds

LEMMA NextKeepsStages ==
    ASSUME StagesInv, [Next]_vars
    PROVE  StagesInv'
<1>1. CASE RunStream
    BY <1>1, BeginRunKeepsStages, RunEmptyKeepsStages, FillReadyKeepsStages, SkipReadyKeepsStages,
       SkipResumeKeepsStages, StartNodeKeepsStages, LaunchNodeKeepsStages,
       ReceiveFinishedKeepsStages, SettleKeepsStages, ForwardEventKeepsStages, TurnKeepsStages
    DEF RunStream
<1>2. CASE CloseStream
    BY <1>2, CloseStreamKeepsStages
<1>3. CASE \E n \in Nodes : AddNode(n) \/ NodeEmits(n) \/ NodeEnds(n)
    BY <1>3, AddNodeKeepsStages, NodeEmitsKeepsStages, NodeEndsKeepsStages
<1>4. CASE UNCHANGED vars
    <2>1. TypeOK' /\ GraphInv'
        BY <1>4 DEF vars, StagesInv, TypeOK, GraphInv
    <2> QED
        BY <1>4, <2>1 DEF vars, StagesInv, QuietInv, SlotsInv, ReadyInv, HeldInv, SignalInv
<1> QED
    BY <1>1, <1>2, <1>3, <1>4 DEF Next

LEMMA StagesInvariance ==
    Spec => []StagesInv
BY InitStages, NextKeepsStages, PTL DEF Spec

\* Each variable of the scheduler keeps its type, for graphs and runs of any size.
THEOREM TypeCorrect == Spec => []TypeOK
<1>1. StagesInv => TypeOK
    BY DEF StagesInv
<1> QED
    BY <1>1, StagesInvariance, PTL

\* At most max_concurrency node tasks exist at any time, and active_tasks holds all of them.
THEOREM ConcurrencyBounded == Spec => []ConcurrencyBound
<1>1. StagesInv => ConcurrencyBound
    BY DEF StagesInv, SlotsInv, ConcurrencyBound
<1> QED
    BY <1>1, StagesInvariance, PTL

-----------------------------------------------------------------------------
(* Every action preserves CountersInv.                                     *)

\* When a node is settled each counter is the number of dependencies still to settle.
LEMMA CountersAfterRelease ==
    ASSUME SchedulerInv, run <= 1, NEW n \in nodes, n \notin settled, HandleNodeCompletion(n),
           UNCHANGED parents
    PROVE  \A c \in Nodes : indegree'[c] = Cardinality(parents'[c] \ settled')
<1> SUFFICES ASSUME NEW c \in Nodes
             PROVE  indegree'[c] = Cardinality(parents[c] \ settled')
    OBVIOUS
<1> DEFINE left == parents[c] \ settled
<1>1. indegree[c] = Cardinality(left)
    BY DEF SchedulerInv, CountersInv
<1>2. /\ indegree'[c] = IF n \in parents[c] THEN indegree[c] - 1 ELSE indegree[c]
      /\ settled' = settled \cup {n}
    BY DEF HandleNodeCompletion
<1>3. parents[c] \ settled' = left \ {n}
    BY <1>2
<1>4. n \in left <=> n \in parents[c]
    OBVIOUS
<1>5. IsFiniteSet(left)
    BY FiniteParts DEF SchedulerInv, StagesInv, TypeOK
<1> HIDE DEF left
<1>6. Cardinality(left \ {n}) = IF n \in left THEN Cardinality(left) - 1 ELSE Cardinality(left)
    BY <1>5, FS_RemoveElement
<1> QED
    BY <1>1, <1>2, <1>3, <1>4, <1>6

LEMMA InitCounters ==
    Init => CountersInv
<1> SUFFICES ASSUME Init PROVE CountersInv
    OBVIOUS
<1>1. \A n \in Nodes : parents[n] \ settled = {} /\ indegree[n] = 0
    BY DEF Init
<1> QED
    BY <1>1, FS_EmptySet DEF Init, CountersInv

LEMMA AddNodeKeepsCounters ==
    ASSUME SchedulerInv, NEW n \in Nodes, AddNode(n)
    PROVE  CountersInv'
<1> USE DEF AddNode, SchedulerInv, StagesInv
<1>1. PICK deps \in SUBSET nodes :
        /\ parents' = [parents EXCEPT ![n] = deps]
        /\ indegree' = [indegree EXCEPT ![n] = Cardinality(deps)]
    OBVIOUS
<1>2. settled = {}
    BY DEF CountersInv
<1>3. ASSUME NEW c \in Nodes
      PROVE  indegree'[c] = Cardinality(parents'[c] \ settled)
    <2>1. parents'[c] \ settled = parents'[c] /\ parents[c] \ settled = parents[c]
        BY <1>2
    <2>2. run <= 1 /\ CountersInv
        OBVIOUS
    <2>3. CASE c = n
        BY <1>1, <2>1, <2>3 DEF TypeOK
    <2>4. CASE c # n
        BY <1>1, <2>1, <2>2, <2>4 DEF TypeOK, CountersInv
    <2> QED
        BY <2>3, <2>4
<1> QED
    BY <1>2, <1>3 DEF QuietInv, CountersInv

LEMMA BeginRunKeepsCounters ==
    ASSUME SchedulerInv, BeginRun \/ RunEmpty
    PROVE  CountersInv'
<1>1. run \in Nat
    BY BoundsAssumption DEF SchedulerInv, StagesInv, TypeOK
<1>2. CASE run = 0
    <2>1. /\ UNCHANGED <<indegree, parents, ready, active>> /\ run' = 1
          /\ settled = {} /\ settled' = {} /\ ready = <<>>
          /\ pc' \in {"start", "idle"}
        BY <1>2 DEF BeginRun, RunEmpty, SchedulerInv, StagesInv, QuietInv, CountersInv
    <2> QED
        BY <1>2, <2>1 DEF SchedulerInv, CountersInv
<1>3. CASE run # 0
    BY <1>1, <1>3 DEF BeginRun, RunEmpty, SchedulerInv, CountersInv
<1> QED
    BY <1>2, <1>3

LEMMA FillReadyKeepsCounters ==
    ASSUME SchedulerInv, FillReady
    PROVE  CountersInv'
BY DEF FillReady, SchedulerInv, CountersInv

LEMMA TakeReadyKeepsCounters ==
    ASSUME SchedulerInv, SkipReady \/ StartNode
    PROVE  CountersInv'
<1>1. /\ ready # <<>> /\ ready' = Tail(ready) /\ cur' = Head(ready)
      /\ UNCHANGED <<run, settled, active, indegree, parents>>
      /\ pc = "schedule" /\ pc' \in {"skip", "launch"}
      /\ pc' = "skip" => status' = [status EXCEPT ![cur'] = "SKIPPED"]
      /\ \E s \in Status : status' = [status EXCEPT ![cur'] = s]
    BY DEF SkipReady, StartNode, CanSchedule, Status
<1>2. StagesInv /\ CountersInv /\ ready \in Seq(nodes) /\ status \in [Nodes -> Status]
      /\ nodes \subseteq Nodes /\ settled \subseteq nodes
    BY DEF SchedulerInv, StagesInv, TypeOK
<1>3. cur' \in nodes /\ \A i \in 1..Len(ready') : \E j \in 1..Len(ready) : ready'[i] = ready[j]
    BY <1>1, <1>2, TakeReady
<1>4. cur' = ready[1] /\ 1 \in 1..Len(ready)
    BY <1>1, <1>2, TailFacts
<1>5. cur' \notin settled /\ \A i \in 1..Len(ready') : ready'[i] \notin settled
    BY <1>2, <1>3, <1>4 DEF CountersInv
<1>6. \A n \in settled : status'[n] = status[n]
    BY <1>1, <1>2, <1>5
<1>7. pc' = "skip" => status'[cur'] \in Terminal
    BY <1>1, <1>2, <1>3 DEF Terminal
<1>8. run # 0
    BY <1>1, <1>2 DEF CountersInv
<1> QED
    BY <1>1, <1>2, <1>5, <1>6, <1>7, <1>8 DEF CountersInv

LEMMA LaunchNodeKeepsCounters ==
    ASSUME SchedulerInv, LaunchNode
    PROVE  CountersInv'
BY DEF LaunchNode, SchedulerInv, CountersInv

LEMMA ReceiveFinishedKeepsCounters ==
    ASSUME SchedulerInv, ReceiveFinished
    PROVE  CountersInv'
<1> USE DEF ReceiveFinished, SchedulerInv, StagesInv, IsFinished
<1>1. cur' \in active /\ Head(events).status \in {"COMPLETED", "FAILED"}
    BY TakeEvent
<1>2. cur' \in Nodes /\ status'[cur'] \in Terminal
    BY <1>1 DEF TypeOK, Terminal
<1>3. \A n \in Nodes : n # cur' => status'[n] = status[n]
    BY DEF TypeOK
<1> QED
    BY <1>1, <1>2, <1>3 DEF CountersInv

\* The node held at a "skip" or "settle" yield is settled when the stream is resumed.
LEMMA SettlingKeepsCounters ==
    ASSUME SchedulerInv, pc \in {"skip", "settle"}, pc' = "schedule", HandleNodeCompletion(cur),
           UNCHANGED <<nodes, parents, run>>,
           active' = active \ {cur},
           \A n \in Nodes : status'[n] = status[n] \/ status'[n] = "SKIPPED"
    PROVE  CountersInv'
<1>1. cur \in nodes /\ cur \in Nodes /\ cur \notin settled /\ indegree[cur] <= 0
    BY DEF SchedulerInv, StagesInv, TypeOK, HeldInv, ReadyInv, CountersInv
<1>2. /\ \A c \in Nodes : indegree'[c] <= indegree[c]
      /\ indegree' \in [Nodes -> Int]
      /\ ready' \in Seq(nodes)
      /\ \A i \in 1..Len(ready') :
            \/ \E j \in 1..Len(ready) : ready'[i] = ready[j]
            \/ indegree[ready'[i]] = 1 /\ indegree'[ready'[i]] = 0
    BY <1>1, ReleaseFacts DEF SchedulerInv, StagesInv
<1>3. settled' = settled \cup {cur}
    BY DEF HandleNodeCompletion
<1>4. run' <= 1 => \A c \in Nodes : indegree'[c] = Cardinality(parents'[c] \ settled')
    BY <1>1, CountersAfterRelease
<1>5. ASSUME NEW n \in settled'
      PROVE  n \notin active' /\ indegree'[n] <= 0 /\ status'[n] \in Terminal
    <2>1. n \in Nodes /\ indegree[n] <= 0 /\ status[n] \in Terminal
        BY <1>1, <1>3 DEF SchedulerInv, StagesInv, TypeOK, CountersInv
    <2>2. n \notin active'
        BY <1>3 DEF SchedulerInv, CountersInv
    <2>3. indegree'[n] <= indegree[n] /\ indegree'[n] \in Int /\ indegree[n] \in Int
        BY <1>2, <2>1 DEF SchedulerInv, StagesInv, TypeOK
    <2>4. status'[n] \in Terminal
        BY <2>1 DEF Terminal
    <2> QED
        BY <2>1, <2>2, <2>3, <2>4
<1>6. ASSUME NEW i \in 1..Len(ready')
      PROVE  ready'[i] \notin settled'
    <2>1. CASE \E j \in 1..Len(ready) : ready'[i] = ready[j]
        <3>1. PICK j \in 1..Len(ready) : ready'[i] = ready[j]
            BY <2>1
        <3>2. ready[j] \notin settled
            BY DEF SchedulerInv, CountersInv
        <3>3. ready[j] # cur
            BY DEF SchedulerInv, StagesInv, HeldInv, ReadyInv
        <3> QED
            BY <1>3, <3>1, <3>2, <3>3
    <2>2. CASE indegree[ready'[i]] = 1
        BY <1>1, <1>3, <2>2 DEF SchedulerInv, CountersInv
    <2> QED
        BY <1>2, <2>1, <2>2
<1>7. run # 0
    BY DEF SchedulerInv, CountersInv
<1> QED
    BY <1>3, <1>4, <1>5, <1>6, <1>7 DEF CountersInv

LEMMA SkipResumeKeepsCounters ==
    ASSUME SchedulerInv, SkipResume
    PROVE  CountersInv'
<1>1. active' = active \ {cur}
    BY DEF SkipResume, SchedulerInv, StagesInv, HeldInv
<1> QED
    BY <1>1, SettlingKeepsCounters DEF SkipResume

LEMMA SettleKeepsCounters ==
    ASSUME SchedulerInv, Settle
    PROVE  CountersInv'
<1>1. \A n \in Nodes : status'[n] = status[n] \/ status'[n] = "SKIPPED"
    BY NoticeFacts DEF Settle, SchedulerInv, StagesInv
<1> QED
    BY <1>1, SettlingKeepsCounters DEF Settle

\* Steps that neither settle nor release a node.
LEMMA OtherStepsKeepCounters ==
    ASSUME SchedulerInv,
           \/ AwaitEvent \/ WaitTimeout \/ ForwardEvent \/ ForwardResume
           \/ CompleteGraph \/ PersistState \/ CloseStream
    PROVE  CountersInv'
<1>1. UNCHANGED <<indegree, parents, status, run, settled>> /\ active' \subseteq active
    BY DEF AwaitEvent, WaitTimeout, ForwardEvent, ForwardResume, CompleteGraph, PersistState,
           CloseStream
<1>2. ready' = ready \/ ready' = <<>>
    BY DEF AwaitEvent, WaitTimeout, ForwardEvent, ForwardResume, CompleteGraph, PersistState,
           CloseStream
<1>3. pc' \notin {"start", "skip", "launch", "settle"}
    BY DEF AwaitEvent, WaitTimeout, ForwardEvent, ForwardResume, CompleteGraph, PersistState,
           CloseStream
<1>4. \A i \in 1..Len(ready') : ready'[i] \notin settled
    BY <1>2 DEF SchedulerInv, CountersInv
<1>5. run = 0 => pc' = "idle"
    BY DEF AwaitEvent, WaitTimeout, ForwardEvent, ForwardResume, CompleteGraph, PersistState,
           CloseStream, SchedulerInv, CountersInv, Suspended
<1> QED
    BY <1>1, <1>3, <1>4, <1>5 DEF SchedulerInv, CountersInv

LEMMA TaskKeepsCounters ==
    ASSUME SchedulerInv, NEW n \in Nodes, NodeEmits(n) \/ NodeEnds(n)
    PROVE  CountersInv'
BY DEF NodeEmits, NodeEnds, NodeSucceeds, NodeErrors, NodeCancelled, EndTask, SchedulerInv,
       CountersInv

LEMMA NextKeepsScheduler ==
    ASSUME SchedulerInv, [Next]_vars
    PROVE  SchedulerInv'
<1>1. StagesInv'
    BY NextKeepsStages DEF SchedulerInv
<1>2. CountersInv'
    <2>1. CASE RunStream
        BY <2>1, BeginRunKeepsCounters, FillReadyKeepsCounters, TakeReadyKeepsCounters,
           SkipResumeKeepsCounters, LaunchNodeKeepsCounters, ReceiveFinishedKeepsCounters,
           SettleKeepsCounters, OtherStepsKeepCounters
        DEF RunStream
    <2>2. CASE CloseStream
        BY <2>2, OtherStepsKeepCounters
    <2>3. CASE \E n \in Nodes : AddNode(n) \/ NodeEmits(n) \/ NodeEnds(n)
        BY <2>3, AddNodeKeepsCounters, TaskKeepsCounters
    <2>4. CASE UNCHANGED vars
        BY <2>4 DEF vars, SchedulerInv, CountersInv
    <2> QED
        BY <2>1, <2>2, <2>3, <2>4 DEF Next
<1> QED
    BY <1>1, <1>2 DEF SchedulerInv

LEMMA SchedulerInvariance ==
    Spec => []SchedulerInv
<1>1. Init => SchedulerInv
    BY InitStages, InitCounters DEF SchedulerInv
<1> QED
    BY <1>1, NextKeepsScheduler, PTL DEF Spec

\* No completion is handled twice: when run_stream resumes to release the children of a node,
\* they have not been released on its account before in the same run.
THEOREM CompletionsHandledOnce == Spec => []CompletionHandledOnce
<1>1. SchedulerInv => CompletionHandledOnce
    BY DEF SchedulerInv, CountersInv, CompletionHandledOnce
<1> QED
    BY <1>1, SchedulerInvariance, PTL

\* In the first run what was settled has its dependencies settled.
LEMMA SettledIsClosed ==
    ASSUME SchedulerInv, run <= 1, NEW n \in Nodes, indegree[n] <= 0
    PROVE  parents[n] \subseteq settled
<1> DEFINE left == parents[n] \ settled
<1>1. IsFiniteSet(left) /\ Cardinality(left) \in Nat
    BY FiniteParts DEF SchedulerInv, StagesInv, TypeOK
<1>2. indegree[n] = Cardinality(left)
    BY DEF SchedulerInv, CountersInv
<1> HIDE DEF left
<1>3. left = {}
    BY <1>1, <1>2, FS_EmptySet
<1> QED
    BY <1>3 DEF left

\* In the first run a node's task runs only when everything it depends on, through any number
\* of intermediate nodes, has ended and has no task any more.
THEOREM StartsAfterItsAncestors == Spec => []StartsAfterAncestors
<1>1. SchedulerInv => StartsAfterAncestors
    <2> SUFFICES ASSUME SchedulerInv, run <= 1, NEW n \in alive, NEW a \in Ancestors(parents, n)
                 PROVE  status[a] \in Terminal /\ a \notin alive
        BY DEF StartsAfterAncestors
    <2>1. n \in Nodes /\ indegree[n] <= 0
        BY DEF SchedulerInv, StagesInv, TypeOK, SlotsInv, ReadyInv
    <2>2. parents[n] \subseteq settled
        BY <2>1, SettledIsClosed
    <2>3. settled \subseteq Nodes /\ DOMAIN parents = Nodes
        BY DEF SchedulerInv, StagesInv, TypeOK
    <2>4. IsClosed(parents, settled)
        BY <2>3, SettledIsClosed DEF IsClosed, SchedulerInv, CountersInv
    <2>5. a \in settled
        BY <2>2, <2>3, <2>4 DEF Ancestors
    <2> QED
        BY <2>5 DEF SchedulerInv, StagesInv, SlotsInv, CountersInv
<1> QED
    BY <1>1, SchedulerInvariance, PTL
=============================================================================
