-------------------------- MODULE MultiAgentProofs --------------------------
(***************************************************************************)
(* Theorems about MultiAgent: ParallelPattern for any set of agents, and   *)
(* the conversations for any number of members, rounds and turns.          *)
(*                                                                         *)
(* ParallelInv: an agent's task is over when its waiter is, or was told to *)
(* stop and is left by a cancelled waiter of old; the sentinel of an agent *)
(* is the last thing it puts in event_queue, so that the counter of        *)
(* sentinels is the number of agents whose events have all left the queue; *)
(* and an agent's result, or its error, is known to the consumer or on its *)
(* way to it.                                                              *)
(*                                                                         *)
(* ConversationInv: whose answer is awaited, what a round of workers or of *)
(* a debate holds so far, and that every turn on record was told its due.  *)
(***************************************************************************)
EXTENDS MultiAgent, FiniteSetTheorems, SequenceTheorems, TLAPS

-----------------------------------------------------------------------------
(* The inductive invariant of ParallelPattern.                             *)

QueueEvent == [agent : Agents, kind : {"event", "complete", "error", "end"}]

\* Something of this kind from agent a is on its way to the consumer.
Queued(a, kind) == \E i \in 1..Len(queue) : queue[i].agent = a /\ queue[i].kind = kind

OnItsWay(a) == \E i \in 1..Len(queue) : queue[i].agent = a

\* The agents whose sentinel was counted.
Counted == {a \in Agents : waiter[a] = "ended" /\ ~Queued(a, "end")}

\* Everything but the count, which CountInv bounds.
PartsTyped ==
    /\ merging \in BOOLEAN /\ oldWaitFor \in BOOLEAN
    /\ pc \in {"idle", "start", "collect", "forward", "cleanup", "done", "closed"}
    /\ agent \in [Agents -> AgentStates]
    /\ produced \in [Agents -> 0..MaxEvents]
    /\ waiter \in [Agents -> {"none", "created", "waiting", "timeout", "stopping"} \cup WaiterEnded]
    /\ cancelling \subseteq Agents
    /\ queue \in Seq(QueueEvent)
    /\ results \subseteq Agents
    /\ merged \in SUBSET SUBSET Agents
    /\ heard \in [Agents -> SUBSET {"complete", "error"}]

\* Before the tasks are created there is nothing, and a stream closed then leaves it so.
Untouched ==
    /\ \A a \in Agents : waiter[a] = "none"
    /\ queue = <<>> /\ cancelling = {}

StageInv ==
    /\ pc \in {"idle", "start"} => Untouched
    /\ pc = "closed" => Untouched \/ Unfinished = {}

\* A waiter that was cancelled leaves its agent unended, though told to stop.
Left(a) == oldWaitFor /\ agent[a] = "cancelling"

\* An agent's task is awaited: it starts after its waiter and is over before it, or left by it.
AwaitedInv ==
    \A a \in Agents :
        /\ waiter[a] \in {"none", "created"} => agent[a] = "none"
        /\ waiter[a] \in {"timeout", "stopping"} => agent[a] # "running"
        /\ waiter[a] = "dead" => agent[a] \in AgentEnded \cup {"none"} \/ Left(a)
        /\ waiter[a] = "ended" => agent[a] \in AgentEnded

\* The sentinel of an agent is the last of it in the queue, and there until all of it is gone.
SentinelInv ==
    /\ \A i \in 1..Len(queue) : queue[i].kind = "end" => waiter[queue[i].agent] = "ended"
    /\ \A i, j \in 1..Len(queue) :
            i < j /\ queue[i].agent = queue[j].agent => queue[i].kind # "end"
    /\ \A a \in Agents : waiter[a] = "ended" /\ OnItsWay(a) => Queued(a, "end")

\* Each sentinel counts once.
CountInv == finished = Cardinality(Counted)

\* A result, and an agent's end, is announced or about to be.
HeardInv ==
    \A a \in Agents :
        /\ a \in results <=> "complete" \in heard[a] \/ Queued(a, "complete")
        /\ agent[a] = "returned" => a \in results
        /\ waiter[a] = "ended" => a \in results \/ "error" \in heard[a] \/ Queued(a, "error")

\* At the merge nothing is on its way any more.
MergeInv ==
    /\ pc = "done" => queue = <<>> /\ \A a \in Agents : waiter[a] = "ended"
    /\ pc = "done" => merged = IF merging THEN {results} ELSE {}

ParallelInv ==
    PartsTyped /\ StageInv /\ AwaitedInv /\ SentinelInv /\ CountInv /\ HeardInv /\ MergeInv

USE DEF tasks, given

-----------------------------------------------------------------------------
(* The event queue.                                                        *)

\* Who is in the queue.
LEMMA AgentsOfEvents ==
    ASSUME queue \in Seq(QueueEvent), NEW i \in 1..Len(queue)
    PROVE  queue[i].agent \in Agents
<1>1. queue[i] \in QueueEvent
    BY ElementOfSeq
<1> QED
    BY <1>1 DEF QueueEvent

\* What Put adds, and where.
Grown(a, kinds) ==
    /\ queue' \in Seq(QueueEvent)
    /\ Len(queue) \in Nat /\ Len(kinds) \in Nat
    /\ Len(queue') = Len(queue) + Len(kinds)
    /\ \A i \in 1..Len(queue) : i \in 1..Len(queue') /\ queue'[i] = queue[i]
    /\ \A k \in 1..Len(kinds) :
         /\ Len(queue) + k \in 1..Len(queue')
         /\ queue'[Len(queue) + k] = [agent |-> a, kind |-> kinds[k]]
    /\ \A i \in 1..Len(queue') :
         \/ i \in 1..Len(queue)
         \/ \E k \in 1..Len(kinds) : i = Len(queue) + k

LEMMA PutFacts ==
    ASSUME PartsTyped, NEW a \in Agents,
           NEW kinds \in {<<"event">>, <<"complete">>, <<"end">>, <<"error", "end">>},
           Put(a, kinds)
    PROVE  Grown(a, kinds)
<1> DEFINE added == [k \in DOMAIN kinds |-> [agent |-> a, kind |-> kinds[k]]]
<1>1. /\ DOMAIN kinds = 1..Len(kinds) /\ Len(kinds) \in Nat
      /\ \A k \in 1..Len(kinds) : kinds[k] \in {"event", "complete", "error", "end"}
    OBVIOUS
<1>2. \A k \in 1..Len(kinds) : [agent |-> a, kind |-> kinds[k]] \in QueueEvent
    BY <1>1 DEF QueueEvent
<1>3. added = [k \in 1..Len(kinds) |-> [agent |-> a, kind |-> kinds[k]]]
    BY <1>1
<1>4. /\ added \in Seq(QueueEvent) /\ Len(added) = Len(kinds)
      /\ \A k \in 1..Len(kinds) : added[k] = [agent |-> a, kind |-> kinds[k]]
    <2> HIDE DEF added
    <2> QED
        BY <1>1, <1>2, <1>3, IsASeq
<1>5. queue \in Seq(QueueEvent) /\ queue' = queue \o added
    BY DEF PartsTyped, Put
<1> HIDE DEF added
<1>6. /\ queue' \in Seq(QueueEvent)
      /\ Len(queue) \in Nat
      /\ Len(queue') = Len(queue) + Len(added)
      /\ \A i \in 1..(Len(queue) + Len(added)) :
            queue'[i] = IF i <= Len(queue) THEN queue[i] ELSE added[i - Len(queue)]
    BY <1>4, <1>5, ConcatProperties
<1>7. \A i \in 1..Len(queue) : i \in 1..Len(queue') /\ queue'[i] = queue[i]
    BY <1>1, <1>4, <1>6
<1>8. ASSUME NEW k \in 1..Len(kinds)
      PROVE  /\ Len(queue) + k \in 1..Len(queue')
             /\ queue'[Len(queue) + k] = [agent |-> a, kind |-> kinds[k]]
    <2>1. /\ Len(queue) + k \in 1..Len(queue')
          /\ ~(Len(queue) + k <= Len(queue))
          /\ (Len(queue) + k) - Len(queue) = k
        BY <1>1, <1>4, <1>6
    <2>2. queue'[Len(queue) + k] = added[(Len(queue) + k) - Len(queue)]
        BY <1>6, <2>1
    <2> QED
        BY <1>4, <2>1, <2>2
<1>9. ASSUME NEW i \in 1..Len(queue')
      PROVE  i \in 1..Len(queue) \/ \E k \in 1..Len(kinds) : i = Len(queue) + k
    <2>1. \/ i \in 1..Len(queue)
          \/ i - Len(queue) \in 1..Len(kinds) /\ i = Len(queue) + (i - Len(queue))
        BY <1>1, <1>4, <1>6
    <2> QED
        BY <2>1
<1> QED
    BY <1>1, <1>4, <1>6, <1>7, <1>8, <1>9 DEF Grown

\* What is on its way after a Put.
LEMMA QueuedAfterPut ==
    ASSUME PartsTyped, NEW a \in Agents,
           NEW kinds \in {<<"event">>, <<"complete">>, <<"end">>, <<"error", "end">>},
           Put(a, kinds), NEW b, NEW kind
    PROVE  Queued(b, kind)' <=> \/ Queued(b, kind)
                                \/ b = a /\ \E k \in 1..Len(kinds) : kinds[k] = kind
<1>1. /\ \A i \in 1..Len(queue) : i \in 1..Len(queue') /\ queue'[i] = queue[i]
      /\ \A k \in 1..Len(kinds) :
            /\ Len(queue) + k \in 1..Len(queue')
            /\ queue'[Len(queue) + k] = [agent |-> a, kind |-> kinds[k]]
      /\ \A i \in 1..Len(queue') :
            \/ i \in 1..Len(queue)
            \/ \E k \in 1..Len(kinds) : i = Len(queue) + k
    <2>1. Grown(a, kinds)
        BY PutFacts
    <2> QED
        BY <2>1 DEF Grown
<1>2. ASSUME Queued(b, kind)'
      PROVE  Queued(b, kind) \/ (b = a /\ \E k \in 1..Len(kinds) : kinds[k] = kind)
    <2>1. PICK i \in 1..Len(queue') : queue'[i].agent = b /\ queue'[i].kind = kind
        BY <1>2 DEF Queued
    <2>2. CASE i \in 1..Len(queue)
        BY <1>1, <2>1, <2>2 DEF Queued
    <2>3. CASE \E k \in 1..Len(kinds) : i = Len(queue) + k
        <3>1. PICK k \in 1..Len(kinds) : i = Len(queue) + k
            BY <2>3
        <3>2. queue'[i] = [agent |-> a, kind |-> kinds[k]]
            BY <1>1, <3>1
        <3> QED
            BY <2>1, <3>1, <3>2
    <2> QED
        BY <1>1, <2>2, <2>3
<1>3. Queued(b, kind) => Queued(b, kind)'
    BY <1>1 DEF Queued
<1>4. ASSUME b = a, NEW k \in 1..Len(kinds), kinds[k] = kind
      PROVE  Queued(b, kind)'
    <2>1. PICK i \in 1..Len(queue') : i = Len(queue) + k
        BY <1>1
    <2>2. queue'[i] = [agent |-> a, kind |-> kinds[k]]
        BY <1>1, <2>1
    <2> QED
        BY <1>4, <2>2 DEF Queued
<1> QED
    BY <1>2, <1>3, <1>4

\* What is on its way after the head is taken.
LEMMA QueuedAfterTake ==
    ASSUME PartsTyped, queue # <<>>, queue' = Tail(queue)
    PROVE  /\ queue' \in Seq(QueueEvent)
           /\ Head(queue) = queue[1] /\ 1 \in 1..Len(queue) /\ Head(queue) \in QueueEvent
           /\ \A i \in 1..Len(queue') :
                i + 1 \in 1..Len(queue) /\ 1 < i + 1 /\ queue'[i] = queue[i + 1]
           /\ \A i \in 1..Len(queue) :
                i # 1 => i - 1 \in 1..Len(queue') /\ queue'[i - 1] = queue[i]
           /\ \A b, kind : Queued(b, kind) <=>
                Queued(b, kind)' \/ (Head(queue).agent = b /\ Head(queue).kind = kind)
<1>1. queue \in Seq(QueueEvent)
    BY DEF PartsTyped
<1>2. /\ Head(queue) = queue[1] /\ Head(queue) \in QueueEvent
      /\ queue' \in Seq(QueueEvent)
      /\ Len(queue) \in Nat /\ Len(queue) >= 1 /\ Len(queue') = Len(queue) - 1
      /\ \A i \in 1..Len(queue') : queue'[i] = queue[i + 1]
    BY <1>1, HeadTailProperties, LenProperties, EmptySeq
<1>3. /\ \A i \in 1..Len(queue') :
            i + 1 \in 1..Len(queue) /\ 1 < i + 1 /\ queue'[i] = queue[i + 1]
      /\ 1 \in 1..Len(queue)
    BY <1>2
<1>4. \A i \in 1..Len(queue) : i # 1 => i - 1 \in 1..Len(queue') /\ queue'[i - 1] = queue[i]
    BY <1>2
<1>5. ASSUME NEW b, NEW kind
      PROVE  Queued(b, kind) <=>
                Queued(b, kind)' \/ (Head(queue).agent = b /\ Head(queue).kind = kind)
    BY <1>2, <1>3, <1>4 DEF Queued
<1> QED
    BY <1>2, <1>3, <1>4, <1>5

-----------------------------------------------------------------------------
(* Every action preserves ParallelInv.                                     *)

LEMMA InitParallel ==
    ParallelInit => ParallelInv
<1> SUFFICES ASSUME ParallelInit PROVE ParallelInv
    OBVIOUS
<1>1. PartsTyped
    <2>1. 0 \in 0..MaxEvents
        BY AgentsAssumption
    <2>2. queue \in Seq(QueueEvent)
        BY EmptySeq DEF ParallelInit
    <2>3. heard \in [Agents -> SUBSET {"complete", "error"}]
        BY DEF ParallelInit
    <2> QED
        BY <2>1, <2>2, <2>3 DEF ParallelInit, PartsTyped, AgentStates
<1>2. Counted = {}
    BY DEF ParallelInit, Counted
<1>3. CountInv
    BY <1>2, FS_EmptySet DEF ParallelInit, CountInv
<1>4. StageInv /\ AwaitedInv /\ SentinelInv /\ MergeInv
    BY DEF ParallelInit, StageInv, Untouched, AwaitedInv, SentinelInv, MergeInv, WaiterEnded,
           OnItsWay
<1>5. HeardInv
    BY DEF ParallelInit, HeardInv, Queued
<1> QED
    BY <1>1, <1>3, <1>4, <1>5 DEF ParallelInv

\* A step of an agent's task that queues one event.
LEMMA AgentPutsKeepsParallel ==
    ASSUME ParallelInv, NEW a \in Agents, AgentEvent(a) \/ AgentCompletes(a)
    PROVE  ParallelInv'
<1> USE DEF ParallelInv
<1>1. PICK kinds \in {<<"event">>, <<"complete">>} :
        /\ Put(a, kinds)
        /\ results' = IF kinds = <<"complete">> THEN results \cup {a} ELSE results
        /\ agent' \in {agent, [agent EXCEPT ![a] = "returned"]}
        /\ agent' # agent => kinds = <<"complete">>
    BY DEF AgentEvent, AgentCompletes, AgentTo
<1>2. /\ agent[a] \in AgentAtWork
      /\ UNCHANGED <<merging, oldWaitFor, pc, waiter, cancelling, finished, merged, heard>>
    BY DEF AgentEvent, AgentCompletes, ByAgent
<1>3. waiter[a] \notin {"none", "created", "ended"}
    BY <1>2 DEF AwaitedInv, AgentEnded, AgentAtWork
<1>4. /\ Len(kinds) = 1 /\ kinds[1] \in {"event", "complete"}
      /\ kinds[1] = "complete" <=> kinds = <<"complete">>
    OBVIOUS
<1>5. \A b, kind : Queued(b, kind)' <=> Queued(b, kind) \/ (b = a /\ kinds[1] = kind)
    BY <1>1, <1>4, QueuedAfterPut
<1>6. /\ queue' \in Seq(QueueEvent)
      /\ Len(queue) \in Nat
      /\ \A i \in 1..Len(queue) : queue'[i] = queue[i]
      /\ queue'[Len(queue) + 1] = [agent |-> a, kind |-> kinds[1]]
      /\ \A i \in 1..Len(queue') : i \in 1..Len(queue) \/ i = Len(queue) + 1
    <2>1. Grown(a, kinds)
        BY <1>1, PutFacts
    <2> QED
        BY <1>4, <2>1 DEF Grown
<1>7. PartsTyped'
    <2>1. produced' \in [Agents -> 0..MaxEvents]
        <3>1. produced \in [Agents -> 0..MaxEvents] /\ MaxEvents \in Nat
            BY AgentsAssumption DEF PartsTyped
        <3>2. \/ produced' = produced
              \/ produced[a] < MaxEvents /\ produced' = [produced EXCEPT ![a] = @ + 1]
            BY DEF AgentEvent, AgentCompletes
        <3> QED
            BY <3>1, <3>2
    <2>2. agent' \in [Agents -> AgentStates]
        BY <1>1 DEF PartsTyped, AgentStates, AgentAtWork, AgentEnded
    <2>3. results' \subseteq Agents
        BY <1>1 DEF PartsTyped
    <2> QED
        BY <1>2, <1>6, <2>1, <2>2, <2>3 DEF PartsTyped
<1>8. StageInv' /\ MergeInv'
    BY <1>2, <1>3 DEF StageInv, Untouched, MergeInv, Unfinished, WaiterEnded
<1>9. AwaitedInv'
    BY <1>1, <1>2, <1>3 DEF AwaitedInv, PartsTyped, AgentEnded, Left
<1>10. SentinelInv'
    <2>1. \A i \in 1..Len(queue') : queue'[i].kind = "end" => i \in 1..Len(queue)
        BY <1>4, <1>6
    <2>2. \A i \in 1..Len(queue) : queue[i].agent = a => queue[i].kind # "end"
        BY <1>3 DEF SentinelInv, WaiterEnded
    <2>3. \A i \in 1..Len(queue') : i \in 1..Len(queue) \/ queue'[i].agent = a
        BY <1>6
    <2>4. \A b : Queued(b, "end") => Queued(b, "end")'
        BY <1>5
    <2>5. \A i \in 1..Len(queue') : queue'[i].kind = "end" => waiter'[queue'[i].agent] = "ended"
        BY <1>2, <1>6, <2>1 DEF SentinelInv
    <2>6. \A i, j \in 1..Len(queue') :
            i < j /\ queue'[i].agent = queue'[j].agent => queue'[i].kind # "end"
        <3> SUFFICES ASSUME NEW i \in 1..Len(queue'), NEW j \in 1..Len(queue'), i < j,
                            queue'[i].agent = queue'[j].agent, queue'[i].kind = "end"
                     PROVE  FALSE
            OBVIOUS
        <3>1. i \in 1..Len(queue) /\ queue'[i] = queue[i]
            BY <1>6, <2>1
        <3>2. CASE j \in 1..Len(queue)
            BY <1>6, <3>1, <3>2 DEF SentinelInv
        <3>3. CASE j \notin 1..Len(queue)
            BY <2>2, <2>3, <3>1, <3>3
        <3> QED
            BY <3>2, <3>3
    <2>7. \A b \in Agents : waiter'[b] = "ended" /\ OnItsWay(b)' => Queued(b, "end")'
        <3> SUFFICES ASSUME NEW b \in Agents, waiter'[b] = "ended",
                            NEW i \in 1..Len(queue'), queue'[i].agent = b
                     PROVE  Queued(b, "end")'
            BY DEF OnItsWay
        <3>1. i \in 1..Len(queue) /\ queue'[i] = queue[i]
            BY <1>2, <1>3, <1>6, <2>3 DEF WaiterEnded
        <3> QED
            BY <1>2, <2>4, <3>1 DEF SentinelInv, OnItsWay
    <2> QED
        BY <2>5, <2>6, <2>7 DEF SentinelInv
<1>11. CountInv'
    <2>1. Counted' = Counted
        BY <1>2, <1>4, <1>5 DEF Counted
    <2> QED
        BY <1>2, <2>1 DEF CountInv
<1>12. HeardInv'
    BY <1>1, <1>2, <1>3, <1>4, <1>5 DEF HeardInv, PartsTyped, WaiterEnded
<1> QED
    BY <1>7, <1>8, <1>9, <1>10, <1>11, <1>12

\* A step of a task that queues nothing: the agent or its waiter moves on.
LEMMA QuietKeepsParallel ==
    ASSUME ParallelInv, NEW a \in Agents,
           NEW s \in AgentStates,
           NEW w \in {"none", "created", "waiting", "timeout", "stopping", "dead"},
           waiter[a] # "ended", waiter[a] = "dead" => w = "dead",
           waiter[a] # "none" \/ cancelling # {},
           AgentTo(a, s), WaiterTo(a, w),
           s = agent[a] \/ s # "returned",
           w \in {"none", "created"} => s = "none",
           w \in {"timeout", "stopping"} => s # "running",
           w = "dead" => s \in AgentEnded \cup {"none"} \/ (oldWaitFor /\ s = "cancelling"),
           UNCHANGED <<given, pc, produced, cancelling, queue, results, finished, merged, heard>>
    PROVE  ParallelInv'
<1> USE DEF ParallelInv, AgentTo, WaiterTo
<1>2. pc \notin {"idle", "start", "done"} /\ (pc = "closed" => Unfinished = {})
    BY DEF StageInv, Untouched, MergeInv
<1>3. PartsTyped'
    BY DEF PartsTyped, WaiterEnded
<1>4. \A b \in Agents :
        /\ waiter'[b] = IF b = a THEN w ELSE waiter[b]
        /\ agent'[b] = IF b = a THEN s ELSE agent[b]
    BY DEF PartsTyped
<1>5. \A b \in Agents : waiter'[b] = "ended" <=> waiter[b] = "ended"
    BY <1>4
<1>6. \A b, kind : Queued(b, kind)' <=> Queued(b, kind)
    BY DEF Queued
<1>7. \A b : OnItsWay(b)' <=> OnItsWay(b)
    BY DEF OnItsWay
<1>8. StageInv' /\ MergeInv'
    <2>1. Unfinished = {} => Unfinished' = {}
        BY <1>4 DEF Unfinished, WaiterEnded
    <2> QED
        BY <1>2, <2>1 DEF StageInv, MergeInv
<1>9. AwaitedInv'
    BY <1>4, <1>5 DEF AwaitedInv, Left
<1>10. SentinelInv'
    <2>1. \A i \in 1..Len(queue) : queue[i].agent \in Agents
        BY AgentsOfEvents DEF PartsTyped
    <2> QED
        BY <1>5, <1>6, <1>7, <2>1 DEF SentinelInv
<1>11. CountInv'
    <2>1. Counted' = Counted
        BY <1>5, <1>6 DEF Counted
    <2> QED
        BY <2>1 DEF CountInv
<1>12. HeardInv'
    BY <1>4, <1>5, <1>6 DEF HeardInv
<1> QED
    BY <1>3, <1>8, <1>9, <1>10, <1>11, <1>12

\* A waiter whose agent has ended closes the agent's part of the queue.
LEMMA SentinelKeepsParallel ==
    ASSUME ParallelInv, NEW a \in Agents,
           NEW kinds \in {<<"end">>, <<"error", "end">>},
           a \in Unfinished, waiter[a] # "none", agent[a] \in AgentEnded,
           kinds = <<"end">> => agent[a] = "returned",
           Put(a, kinds), WaiterTo(a, "ended"), UNCHANGED agent, ByWaiter
    PROVE  ParallelInv'
<1> USE DEF ParallelInv, WaiterTo, ByWaiter
<1>1. waiter[a] \notin WaiterEnded
    BY DEF Unfinished
<1>2. pc \notin {"idle", "start", "closed", "done"}
    BY <1>1 DEF StageInv, Untouched, MergeInv, WaiterEnded
<1>3. \A b \in Agents : waiter'[b] = IF b = a THEN "ended" ELSE waiter[b]
    BY DEF PartsTyped
<1>4. /\ Len(kinds) \in {1, 2} /\ kinds[Len(kinds)] = "end"
      /\ \A k \in 1..Len(kinds) : k # Len(kinds) => k = 1 /\ kinds[k] = "error"
      /\ kinds \in {<<"event">>, <<"complete">>, <<"end">>, <<"error", "end">>}
    <2>1. CASE kinds = <<"end">>
        BY <2>1
    <2>2. CASE kinds = <<"error", "end">>
        BY <2>2
    <2> QED
        BY <2>1, <2>2
<1>5. \A b, kind : Queued(b, kind)' <=>
            Queued(b, kind) \/ (b = a /\ \E k \in 1..Len(kinds) : kinds[k] = kind)
    BY <1>4, QueuedAfterPut
<1>6. /\ queue' \in Seq(QueueEvent)
      /\ Len(queue) \in Nat
      /\ Len(queue') = Len(queue) + Len(kinds)
      /\ \A i \in 1..Len(queue) : queue'[i] = queue[i]
      /\ \A k \in 1..Len(kinds) : queue'[Len(queue) + k] = [agent |-> a, kind |-> kinds[k]]
      /\ \A i \in 1..Len(queue') :
            i \in 1..Len(queue) \/ \E k \in 1..Len(kinds) : i = Len(queue) + k
    <2>1. Grown(a, kinds)
        BY <1>4, PutFacts
    <2> QED
        BY <2>1 DEF Grown
<1>7. Queued(a, "end")' /\ ~Queued(a, "end")
    <2>1. Queued(a, "end")'
        <3>1. Len(kinds) \in 1..Len(kinds)
            BY <1>4
        <3>2. \E k \in 1..Len(kinds) : kinds[k] = "end"
            BY <1>4, <3>1
        <3>3. Queued(a, "end")' <=>
                Queued(a, "end") \/ (a = a /\ \E k \in 1..Len(kinds) : kinds[k] = "end")
            BY <1>5
        <3> QED
            BY <3>2, <3>3
    <2>2. ~Queued(a, "end")
        BY <1>1 DEF SentinelInv, Queued, WaiterEnded
    <2> QED
        BY <2>1, <2>2
<1>8. PartsTyped'
    BY <1>6 DEF PartsTyped, WaiterEnded
<1>9. StageInv' /\ MergeInv'
    BY <1>2 DEF StageInv, MergeInv
<1>10. AwaitedInv'
    BY <1>3 DEF AwaitedInv, Left
<1>11. SentinelInv'
    <2>1. \A i \in 1..Len(queue) : queue[i].agent \in Agents
        BY AgentsOfEvents DEF PartsTyped
    <2>2. ASSUME NEW k \in 1..Len(kinds)
          PROVE  /\ queue'[Len(queue) + k].agent = a
                 /\ queue'[Len(queue) + k].kind = kinds[k]
        <3>1. queue'[Len(queue) + k] = [agent |-> a, kind |-> kinds[k]]
            BY <1>6
        <3> QED
            BY <3>1
    <2>3. \A i \in 1..Len(queue') : queue'[i].kind = "end" => waiter'[queue'[i].agent] = "ended"
        <3> SUFFICES ASSUME NEW i \in 1..Len(queue'), queue'[i].kind = "end"
                     PROVE  waiter'[queue'[i].agent] = "ended"
            OBVIOUS
        <3>1. CASE i \in 1..Len(queue)
            <4>1. queue'[i] = queue[i]
                BY <1>6, <3>1
            <4>2. queue[i].agent \in Agents /\ waiter[queue[i].agent] = "ended"
                BY <2>1, <3>1, <4>1 DEF SentinelInv
            <4> QED
                BY <1>3, <4>1, <4>2
        <3>2. CASE i \notin 1..Len(queue)
            <4>1. PICK k \in 1..Len(kinds) : i = Len(queue) + k
                BY <1>6, <3>2
            <4>2. queue'[i].agent = a
                BY <2>2, <4>1
            <4> QED
                BY <1>3, <4>2
        <3> QED
            BY <3>1, <3>2
    <2>4. \A i, j \in 1..Len(queue') :
            i < j /\ queue'[i].agent = queue'[j].agent => queue'[i].kind # "end"
        <3> SUFFICES ASSUME NEW i \in 1..Len(queue'), NEW j \in 1..Len(queue'), i < j,
                            queue'[i].agent = queue'[j].agent, queue'[i].kind = "end"
                     PROVE  FALSE
            OBVIOUS
        <3>1. CASE i \in 1..Len(queue) /\ j \in 1..Len(queue)
            BY <1>6, <3>1 DEF SentinelInv
        <3>2. CASE i \in 1..Len(queue) /\ j \notin 1..Len(queue)
            <4>1. queue'[j].agent = a
                BY <1>6, <2>2, <3>2
            <4>2. queue[i].agent = a /\ queue[i].kind = "end"
                BY <1>6, <3>2, <4>1
            <4> QED
                BY <1>1, <3>2, <4>2 DEF SentinelInv, WaiterEnded
        <3>3. CASE i \notin 1..Len(queue)
            <4>1. PICK k \in 1..Len(kinds) : i = Len(queue) + k
                BY <1>6, <3>3
            <4>2. kinds[k] = "end"
                BY <2>2, <4>1
            <4>3. k = Len(kinds)
                BY <1>4, <4>2
            <4> QED
                BY <1>4, <1>6, <4>1, <4>3
        <3> QED
            BY <3>1, <3>2, <3>3
    <2>5. \A b \in Agents : waiter'[b] = "ended" /\ OnItsWay(b)' => Queued(b, "end")'
        <3> SUFFICES ASSUME NEW b \in Agents, b # a, waiter[b] = "ended",
                            NEW i \in 1..Len(queue'), queue'[i].agent = b
                     PROVE  Queued(b, "end")'
            BY <1>3, <1>7 DEF OnItsWay
        <3>1. i \in 1..Len(queue) /\ queue'[i] = queue[i]
            BY <1>6, <2>2
        <3> QED
            BY <1>5, <3>1 DEF SentinelInv, OnItsWay
    <2> QED
        BY <2>3, <2>4, <2>5 DEF SentinelInv
<1>12. CountInv'
    <2>1. \A b \in Agents : b # a => (Queued(b, "end")' <=> Queued(b, "end"))
        BY <1>5
    <2>2. Counted' = Counted
        BY <1>1, <1>3, <1>7, <2>1 DEF Counted, WaiterEnded
    <2> QED
        BY <2>2 DEF CountInv
<1>13. HeardInv'
    <2>1. \A b \in Agents : Queued(b, "complete")' <=> Queued(b, "complete")
        BY <1>4, <1>5
    <2>2. \A b \in Agents : Queued(b, "error") => Queued(b, "error")'
        BY <1>5
    <2>3. a \in results \/ Queued(a, "error")'
        <3>1. CASE kinds = <<"end">>
            BY <3>1 DEF HeardInv
        <3>2. CASE kinds = <<"error", "end">>
            <4>1. 1 \in 1..Len(kinds) /\ kinds[1] = "error"
                BY <3>2
            <4> QED
                BY <1>5, <4>1
        <3> QED
            BY <3>1, <3>2
    <2> QED
        BY <1>3, <2>1, <2>2, <2>3 DEF HeardInv
<1> QED
    BY <1>8, <1>9, <1>10, <1>11, <1>12, <1>13

LEMMA TaskKeepsParallel ==
    ASSUME ParallelInv, NEW a \in Agents, TaskStep(a)
    PROVE  ParallelInv'
<1> DEFINE awake == {"none", "created", "waiting", "timeout", "stopping"}
<1>1. /\ agent \in [Agents -> AgentStates] /\ AwaitedInv
      /\ waiter \in [Agents -> awake \cup WaiterEnded]
    BY DEF ParallelInv, PartsTyped
<1>2. /\ AgentTo(a, agent[a]) <=> UNCHANGED agent
      /\ WaiterTo(a, waiter[a]) <=> UNCHANGED waiter
      /\ agent[a] \in AgentStates
      /\ waiter[a] \in awake \cup {"ended", "dead"}
      /\ a \in Unfinished <=> waiter[a] \in awake
    BY <1>1 DEF Unfinished, AgentTo, WaiterTo, WaiterEnded
<1>3. CASE AgentEvent(a) \/ AgentCompletes(a)
    BY <1>3, AgentPutsKeepsParallel
<1>4. CASE AgentRaises(a) \/ AgentCancelled(a)
    <2>1. PICK s \in {"raised", "cancelled"} :
            /\ agent[a] \in AgentAtWork /\ AgentTo(a, s)
            /\ UNCHANGED <<queue, produced, results>> /\ ByAgent
        BY <1>4 DEF AgentRaises, AgentCancelled
    <2>2. waiter[a] \in {"waiting", "timeout", "stopping", "dead"} /\ s \in AgentEnded
        BY <1>1, <1>2, <2>1 DEF AwaitedInv, AgentEnded, AgentAtWork
    <2>3. s \in AgentStates /\ WaiterTo(a, waiter[a])
        BY <1>2, <2>1, <2>2 DEF ByAgent, AgentStates
    <2> QED
        BY <2>1, <2>2, <2>3, QuietKeepsParallel DEF ByAgent
<1>5. CASE WaiterStarts(a) \/ TimeoutFires(a)
    <2>1. PICK s \in AgentStates, w \in {"waiting", "timeout"} :
            /\ waiter[a] \in {"created", "waiting"} /\ AgentTo(a, s) /\ WaiterTo(a, w)
            /\ s # "returned" /\ (w = "timeout" => s # "running")
        BY <1>5 DEF WaiterStarts, TimeoutFires, AgentStates, AgentAtWork
    <2>2. UNCHANGED <<given, pc, produced, cancelling, queue, results, finished, merged, heard>>
        BY <1>5 DEF WaiterStarts, TimeoutFires, ByWaiter
    <2> QED
        BY <2>1, <2>2, QuietKeepsParallel
\* A waiter ends with a sentinel ...
<1>6. ASSUME waiter[a] \in {"waiting", "timeout", "stopping"}, agent[a] \in AgentEnded,
             NEW kinds \in {<<"end">>, <<"error", "end">>},
             kinds = <<"end">> => agent[a] = "returned",
             Put(a, kinds), WaiterTo(a, "ended"), UNCHANGED agent, ByWaiter
      PROVE  ParallelInv'
    <2>1. a \in Unfinished /\ waiter[a] # "none"
        BY <1>6 DEF Unfinished, WaiterEnded
    <2> QED
        BY <1>6, <2>1, SentinelKeepsParallel
\* ... or dies.
<1>7. ASSUME waiter[a] \in {"waiting", "timeout", "stopping"},
             agent[a] \in AgentEnded \/ Left(a),
             WaiterTo(a, "dead"), UNCHANGED <<agent, queue>>, ByWaiter
      PROVE  ParallelInv'
    <2>1. AgentTo(a, agent[a])
        BY <1>2, <1>7
    <2> QED
        BY <1>2, <1>7, <2>1, QuietKeepsParallel DEF ByWaiter, Left
<1>8. ASSUME waiter[a] \in {"waiting", "timeout", "stopping"}, PassOn(a),
             UNCHANGED agent, ByWaiter
      PROVE  ParallelInv'
    BY <1>6, <1>7, <1>8 DEF PassOn, AgentEnded
<1>9. CASE WaiterResumes(a)
    BY <1>8, <1>9 DEF WaiterResumes
<1>10. CASE LateTimeout(a)
    BY <1>6, <1>7, <1>10 DEF LateTimeout, AgentEnded
<1>11. CASE ReportTimeout(a)
    BY <1>6, <1>11 DEF ReportTimeout, AgentEnded
<1>12. CASE WaiterStops(a)
    BY <1>7, <1>8, <1>12 DEF WaiterStops
<1>13. CASE WaiterCancelled(a)
    <2>1. a \in Unfinished /\ cancelling # {} /\ ByWaiter
        BY <1>13 DEF WaiterCancelled
    <2>2. CASE waiter[a] = "created" /\ WaiterTo(a, "dead") /\ UNCHANGED <<agent, queue>>
        <3>1. agent[a] = "none" /\ AgentTo(a, agent[a])
            BY <1>1, <1>2, <2>2 DEF AwaitedInv
        <3> QED
            BY <1>2, <2>1, <2>2, <3>1, QuietKeepsParallel DEF ByWaiter
    <2>3. CASE /\ waiter[a] \in {"waiting", "timeout"} /\ AgentTo(a, "cancelling")
               /\ WaiterTo(a, "stopping") /\ UNCHANGED queue
        <3>1. "cancelling" \in AgentStates
            BY DEF AgentStates, AgentAtWork
        <3> QED
            BY <2>1, <2>3, <3>1, QuietKeepsParallel DEF ByWaiter
    <2>4. CASE /\ waiter[a] \in {"waiting", "timeout"} /\ agent[a] \in AgentEnded
               /\ WaiterTo(a, "dead") /\ UNCHANGED <<agent, queue>>
        BY <1>7, <2>1, <2>4
    <2>5. CASE /\ waiter[a] = "timeout" /\ oldWaitFor
               /\ WaiterTo(a, "dead") /\ UNCHANGED <<agent, queue>>
        <3>1. agent[a] \in AgentEnded \cup {"none", "cancelling"}
            BY <1>1, <1>2, <2>5 DEF AwaitedInv, AgentStates, AgentAtWork, AgentEnded
        <3>2. AgentTo(a, agent[a])
            BY <1>2, <2>5
        <3> QED
            BY <1>2, <2>1, <2>5, <3>1, <3>2, QuietKeepsParallel DEF ByWaiter
    <2>6. CASE /\ waiter[a] = "timeout" /\ agent[a] \in {"returned", "cancelled"}
               /\ Put(a, <<"error", "end">>) /\ WaiterTo(a, "ended") /\ UNCHANGED agent
        BY <1>6, <2>1, <2>6 DEF AgentEnded
    <2> QED
        BY <1>13, <2>2, <2>3, <2>4, <2>5, <2>6 DEF WaiterCancelled
<1> QED
    BY <1>3, <1>4, <1>5, <1>9, <1>10, <1>11, <1>12, <1>13 DEF TaskStep

\* The generator takes the head of the queue, and counts it or yields it.
LEMMA CollectKeepsParallel ==
    ASSUME ParallelInv, Collect
    PROVE  ParallelInv'
<1> USE DEF ParallelInv
<1>1. /\ queue # <<>> /\ queue' = Tail(queue) /\ pc = "collect"
      /\ UNCHANGED <<merging, oldWaitFor, agent, produced, waiter, results, cancelling, merged>>
    BY DEF Collect
<1>0. PICK e \in QueueEvent : e = Head(queue)
    BY <1>1, QueuedAfterTake
<1>2. /\ queue' \in Seq(QueueEvent)
      /\ e = queue[1] /\ 1 \in 1..Len(queue) /\ e \in QueueEvent
      /\ \A i \in 1..Len(queue') :
            i + 1 \in 1..Len(queue) /\ 1 < i + 1 /\ queue'[i] = queue[i + 1]
      /\ \A i \in 1..Len(queue) :
            i # 1 => i - 1 \in 1..Len(queue') /\ queue'[i - 1] = queue[i]
      /\ \A b, kind : Queued(b, kind) <=>
            Queued(b, kind)' \/ (e.agent = b /\ e.kind = kind)
    BY <1>0, <1>1, QueuedAfterTake
<1>3. e.agent \in Agents /\ e.kind \in {"event", "complete", "error", "end"}
    BY <1>2 DEF QueueEvent
<1>4. IF e.kind = "end"
      THEN finished' = finished + 1 /\ UNCHANGED <<pc, heard>>
      ELSE /\ pc' = "forward"
           /\ heard' = [heard EXCEPT ![e.agent] = @ \cup ({e.kind} \cap {"complete", "error"})]
           /\ UNCHANGED finished
    BY <1>0 DEF Collect
<1>5. heard' \in [Agents -> SUBSET {"complete", "error"}]
    BY <1>3, <1>4 DEF PartsTyped
<1>6. PartsTyped'
    BY <1>1, <1>2, <1>4, <1>5 DEF PartsTyped
<1>7. StageInv' /\ MergeInv' /\ AwaitedInv'
    BY <1>1, <1>4 DEF StageInv, MergeInv, AwaitedInv, Left
<1>8. e.kind = "end" =>
        /\ waiter[e.agent] = "ended"
        /\ \A i \in 1..Len(queue') : queue'[i].agent # e.agent
    BY <1>2 DEF SentinelInv
<1>9. SentinelInv'
    <2>1. \A i \in 1..Len(queue') : queue'[i].kind = "end" => waiter'[queue'[i].agent] = "ended"
        BY <1>1, <1>2 DEF SentinelInv
    <2>2. \A i, j \in 1..Len(queue') :
            i < j /\ queue'[i].agent = queue'[j].agent => queue'[i].kind # "end"
        <3> SUFFICES ASSUME NEW i \in 1..Len(queue'), NEW j \in 1..Len(queue'), i < j,
                            queue'[i].agent = queue'[j].agent
                     PROVE  queue'[i].kind # "end"
            OBVIOUS
        <3>1. /\ i + 1 \in 1..Len(queue) /\ queue'[i] = queue[i + 1]
              /\ j + 1 \in 1..Len(queue) /\ queue'[j] = queue[j + 1]
              /\ i + 1 < j + 1
            BY <1>2
        <3> QED
            BY <3>1 DEF SentinelInv
    <2>3. ASSUME NEW b \in Agents, waiter'[b] = "ended", OnItsWay(b)'
          PROVE  Queued(b, "end")'
        <3>1. PICK i \in 1..Len(queue') : queue'[i].agent = b
            BY <2>3 DEF OnItsWay
        <3>2. OnItsWay(b)
            BY <1>2, <3>1 DEF OnItsWay
        <3>3. Queued(b, "end")
            BY <1>1, <2>3, <3>2 DEF SentinelInv
        <3> QED
            BY <1>2, <1>8, <3>1, <3>3
    <2> QED
        BY <2>1, <2>2, <2>3 DEF SentinelInv
<1>10. CountInv'
    <2>1. CASE e.kind = "end"
        <3>1. ~Queued(e.agent, "end")' /\ Queued(e.agent, "end")
            BY <1>2, <1>8, <2>1 DEF Queued
        <3>2. \A b \in Agents : b # e.agent => (Queued(b, "end")' <=> Queued(b, "end"))
            BY <1>2
        <3>3. Counted' = Counted \cup {e.agent} /\ e.agent \notin Counted
            BY <1>1, <1>3, <1>8, <2>1, <3>1, <3>2 DEF Counted
        <3>4. IsFiniteSet(Counted)
            BY AgentsAssumption, FS_Subset DEF Counted
        <3>5. Cardinality(Counted') = Cardinality(Counted) + 1
            BY <3>3, <3>4, FS_AddElement
        <3> QED
            BY <1>4, <2>1, <3>5 DEF CountInv
    <2>2. CASE e.kind # "end"
        <3>1. \A b : Queued(b, "end")' <=> Queued(b, "end")
            BY <1>2, <2>2
        <3>2. Counted' = Counted
            BY <1>1, <3>1 DEF Counted
        <3> QED
            BY <1>4, <2>2, <3>2 DEF CountInv
    <2> QED
        BY <2>1, <2>2
<1>11. HeardInv'
    <2>1. \A b \in Agents, kind \in {"complete", "error"} :
            kind \in heard'[b] <=> kind \in heard[b] \/ (e.agent = b /\ e.kind = kind)
        <3>1. \A b \in Agents : heard[b] \in SUBSET {"complete", "error"}
            BY DEF PartsTyped
        <3>2. CASE e.kind = "end"
            BY <1>4, <3>2
        <3>3. CASE e.kind # "end"
            <4>1. \A b \in Agents : heard'[b] = IF b = e.agent
                        THEN heard[b] \cup ({e.kind} \cap {"complete", "error"}) ELSE heard[b]
                BY <1>4, <3>3 DEF PartsTyped
            <4> QED
                BY <1>3, <4>1
        <3> QED
            BY <3>2, <3>3
    <2>2. \A b \in Agents, kind \in {"complete", "error"} :
            kind \in heard'[b] \/ Queued(b, kind)' <=> kind \in heard[b] \/ Queued(b, kind)
        BY <1>2, <2>1
    <2> QED
        BY <1>1, <2>2 DEF HeardInv
<1> QED
    BY <1>6, <1>7, <1>9, <1>10, <1>11

\* When every sentinel is counted, every waiter has ended and the queue is empty.
LEMMA AllCounted ==
    ASSUME ParallelInv, finished = Cardinality(Agents)
    PROVE  queue = <<>> /\ \A a \in Agents : waiter[a] = "ended" /\ ~Queued(a, "end")
<1> USE DEF ParallelInv
<1>1. Counted \subseteq Agents /\ Cardinality(Counted) = Cardinality(Agents)
    BY DEF Counted, CountInv
<1>2. Counted = Agents
    BY <1>1, AgentsAssumption, FS_Subset
<1>3. \A a \in Agents : waiter[a] = "ended" /\ ~Queued(a, "end")
    BY <1>2 DEF Counted
<1>4. \A i \in 1..Len(queue) : queue[i].agent \in Agents /\ OnItsWay(queue[i].agent)
    BY AgentsOfEvents DEF PartsTyped, OnItsWay
<1>5. 1 \notin 1..Len(queue)
    BY <1>3, <1>4 DEF SentinelInv
<1>6. queue \in Seq(QueueEvent)
    BY DEF PartsTyped
<1> QED
    BY <1>3, <1>5, <1>6, LenProperties, EmptySeq

\* The generator's other steps.
LEMMA GeneratorKeepsParallel ==
    ASSUME ParallelInv, Execute \/ StartTasks \/ Forwarded \/ Merge \/ CleanUp \/ Stop
    PROVE  ParallelInv'
<1> USE DEF ParallelInv
<1>1. /\ UNCHANGED <<oldWaitFor, agent, produced, queue, results, finished, heard>>
      /\ waiter' \in {waiter, [a \in Agents |-> "created"]}
      /\ waiter' # waiter => StartTasks
    BY DEF Execute, StartTasks, Forwarded, Merge, CleanUp, Stop
<1>2. (\A b, kind : Queued(b, kind)' <=> Queued(b, kind)) /\ \A b : OnItsWay(b)' <=> OnItsWay(b)
    BY <1>1 DEF Queued, OnItsWay
<1>3. CASE StartTasks
    <2>1. /\ \A a \in Agents : waiter[a] = "none" /\ waiter'[a] = "created" /\ agent[a] = "none"
          /\ queue = <<>> /\ cancelling = {} /\ pc = "start" /\ pc' = "collect"
          /\ UNCHANGED <<merging, cancelling, merged>>
        BY <1>3 DEF StartTasks, StageInv, Untouched, AwaitedInv
    <2>2. PartsTyped'
        BY <1>1, <1>3, <2>1 DEF PartsTyped, StartTasks
    <2>3. StageInv' /\ MergeInv' /\ AwaitedInv'
        BY <1>1, <2>1 DEF StageInv, MergeInv, AwaitedInv, Left
    <2>4. Counted' = Counted
        BY <2>1 DEF Counted
    <2>5. CountInv'
        BY <1>1, <2>4 DEF CountInv
    <2>6. SentinelInv' /\ HeardInv'
        BY <1>1, <1>2, <2>1 DEF SentinelInv, HeardInv
    <2> QED
        BY <2>2, <2>3, <2>5, <2>6
<1>4. CASE ~StartTasks
    <2>1. UNCHANGED waiter
        BY <1>1, <1>4
    <2>2. PartsTyped'
        <3>1. merging' \in BOOLEAN
            BY DEF Execute, StartTasks, Forwarded, Merge, CleanUp, Stop, PartsTyped
        <3>2. pc' \in {"idle", "start", "collect", "forward", "cleanup", "done", "closed"}
            BY DEF Execute, StartTasks, Forwarded, Merge, CleanUp, Stop, PartsTyped
        <3>3. cancelling' \subseteq Agents
            BY DEF Execute, StartTasks, Forwarded, Merge, CleanUp, Stop, PartsTyped, Unfinished
        <3>4. merged' \in SUBSET SUBSET Agents
            BY DEF Execute, StartTasks, Forwarded, Merge, CleanUp, Stop, PartsTyped
        <3> QED
            BY <1>1, <2>1, <3>1, <3>2, <3>3, <3>4 DEF PartsTyped
    <2>3. StageInv'
        BY <1>1, <1>4, <2>1 DEF Execute, Forwarded, Merge, CleanUp, Stop, StageInv, Untouched,
                                Unfinished
    <2>4. AwaitedInv' /\ SentinelInv' /\ HeardInv'
        BY <1>1, <1>2, <2>1 DEF AwaitedInv, SentinelInv, HeardInv, Left
    <2>5. Counted' = Counted
        BY <1>2, <2>1 DEF Counted
    <2>6. CountInv'
        BY <1>1, <2>5 DEF CountInv
    <2>7. MergeInv'
        <3>1. CASE Merge
            <4>1. queue = <<>> /\ \A a \in Agents : waiter[a] = "ended"
                BY <3>1, AllCounted DEF Merge
            <4> QED
                BY <1>1, <2>1, <3>1, <4>1 DEF Merge, MergeInv
        <3>2. CASE ~Merge
            BY <1>1, <1>4, <2>1, <3>2 DEF Execute, Forwarded, CleanUp, Stop, MergeInv
        <3> QED
            BY <3>1, <3>2
    <2> QED
        BY <2>2, <2>3, <2>4, <2>6, <2>7
<1> QED
    BY <1>3, <1>4

\* What a conversation does not touch.
LEMMA UnchangedKeepsParallel ==
    ASSUME ParallelInv, UNCHANGED parallelVars
    PROVE  ParallelInv'
<1>1. UNCHANGED <<merging, oldWaitFor, pc, agent, produced, waiter, cancelling, queue, results,
                  finished, merged, heard>>
    BY DEF parallelVars
<1>2. (\A b, kind : Queued(b, kind)' <=> Queued(b, kind)) /\ \A b : OnItsWay(b)' <=> OnItsWay(b)
    BY <1>1 DEF Queued, OnItsWay
<1>3. Counted' = Counted
    BY <1>1, <1>2 DEF Counted
<1>4. CountInv'
    BY <1>1, <1>3 DEF ParallelInv, CountInv
<1>5. PartsTyped' /\ StageInv' /\ AwaitedInv' /\ MergeInv'
    BY <1>1 DEF ParallelInv, PartsTyped, StageInv, Untouched, Unfinished, AwaitedInv, Left,
                MergeInv
<1>6. SentinelInv' /\ HeardInv'
    BY <1>1, <1>2 DEF ParallelInv, SentinelInv, HeardInv
<1> QED
    BY <1>4, <1>5, <1>6 DEF ParallelInv

LEMMA ParallelInvariance ==
    Spec => []ParallelInv
<1>1. Init => ParallelInv
    BY InitParallel DEF Init
<1>2. ASSUME ParallelInv, [Next]_<<parallelVars, conversationVars>>
      PROVE  ParallelInv'
    <2>1. CASE UNCHANGED parallelVars
        BY <1>2, <2>1, UnchangedKeepsParallel
    <2>2. CASE ParallelNext
        BY <1>2, <2>2, TaskKeepsParallel, CollectKeepsParallel, GeneratorKeepsParallel
           DEF ParallelNext, Proceed
    <2> QED
        BY <1>2, <2>1, <2>2 DEF Next
<1> QED
    BY <1>1, <1>2, PTL DEF Spec

\* At most as many sentinels are counted as agents have finished.
LEMMA ParallelInvTypes ==
    ParallelInv => ParallelTypeOK
<1> SUFFICES ASSUME ParallelInv PROVE ParallelTypeOK
    OBVIOUS
<1>1. Counted \subseteq Agents \ Unfinished
    BY DEF Counted, Unfinished, WaiterEnded
<1>2. IsFiniteSet(Agents \ Unfinished)
    BY AgentsAssumption, FS_Subset
<1>3. Cardinality(Counted) \in 0..Cardinality(Agents \ Unfinished)
    BY <1>1, <1>2, FS_Subset, FS_CardinalityType
<1> QED
    BY <1>3 DEF ParallelInv, PartsTyped, ParallelTypeOK, CountInv, QueueEvent

\* When the agents are done the consumer was told of the end of each, and exactly the results it
\* was told of are merged (none with "voting", or "agent" and no merger): for any number of
\* agents and events.
THEOREM MergesOnlyWhatWasHeard == Spec => []MergesWhatWasHeard
<1>1. ASSUME ParallelInv PROVE MergesWhatWasHeard
    <2> USE <1>1 DEF ParallelInv
    <2>1. pc = "done" => \A b, kind : ~Queued(b, kind)
        <3>1. queue = <<>> => Len(queue) = 0
            OBVIOUS
        <3> QED
            BY <3>1 DEF MergeInv, Queued
    <2>2. pc = "done" => \A a \in Agents : heard[a] # {}
        BY <2>1 DEF MergeInv, HeardInv
    <2>3. pc = "done" => results = {a \in Agents : "complete" \in heard[a]}
        BY <2>1 DEF HeardInv, PartsTyped
    <2> QED
        BY <2>2, <2>3 DEF MergesWhatWasHeard, MergeInv
<1> QED
    BY <1>1, ParallelInvariance, PTL

\* However the pattern ends, it leaves no agent that was not told to stop, and with the wait_for
\* of Python 3.12, or a consumer that stays, none at all: for any number of agents.
THEOREM AgentsAreAwaited == Spec => []NoAgentOutlivesThePattern
<1>1. ASSUME ParallelInv PROVE NoAgentOutlivesThePattern
    BY <1>1 DEF ParallelInv, StageInv, Untouched, Unfinished, AwaitedInv, Left, MergeInv,
                WaiterEnded, AgentEnded, NoAgentOutlivesThePattern
<1> QED
    BY <1>1, ParallelInvariance, PTL

-----------------------------------------------------------------------------
(* The inductive invariant of the conversations.                           *)

\* In the turns t, turn i is the supervisor's last before turn k.
IsLastLead(t, k, i) ==
    /\ i \in 0..(k - 1)
    /\ i = 0 \/ t[i].who = Lead
    /\ \A j \in (i + 1)..(k - 1) : t[j].who # Lead

\* A generator that was not called has nothing.
IdleInv ==
    at = "idle" => transcript = <<>> /\ shown = <<>> /\ answers = <<>> /\ left = <<>> /\ rounds = 0

\* Whose answer is awaited.
TurnInv ==
    at # "idle" => Len(transcript) \in Nat \ {0} /\ transcript[Len(transcript)].who = asked

\* A round of workers: since the supervisor's last turn, each of them answered but the last.
WorkersInv ==
    at = "asking" /\ pattern = "supervisor" /\ asked # Lead =>
        /\ TaskSource \in Nat \ {0} /\ transcript[TaskSource].who = Lead
        /\ \A j \in (TaskSource + 1)..Now : transcript[j].who # Lead
        /\ answers = From(TaskSource + 1, Now - 1)

\* A round of a debate: `shown` holds the rounds before, `answers` what was said in this one.
SpeakersInv ==
    at = "asking" /\ pattern = "debate" /\ asked # Lead =>
        /\ Now = rounds * NumMembers + Len(answers) + 1
        /\ Len(answers) + 1 + Len(left) = NumMembers
        /\ shown = From(1, rounds * NumMembers)
        /\ answers = From(rounds * NumMembers + 1, Now - 1)

\* While an answer may open another round the limit is not reached.
RoundsInv ==
    at = "asking" =>
        /\ pattern = "supervisor" => rounds < MaxRounds
        /\ pattern = "debate" /\ asked # Lead => rounds < MaxRounds

\* Every turn of a supervisor's conversation but the first follows one of the supervisor's.
LeadInv ==
    pattern = "supervisor" =>
        \A k \in 1..Len(transcript) : \E i \in 0..(k - 1) : IsLastLead(transcript, k, i)

ConversationInv ==
    /\ ConversationTypeOK /\ IdleInv /\ TurnInv /\ WorkersInv /\ SpeakersInv /\ RoundsInv
    /\ LeadInv /\ ToldWhatIsDue /\ FedBackUnlessLimit

Turn == [who : Members \cup {Lead}, told : Numbers]

-----------------------------------------------------------------------------
(* The turns of a conversation, and what is due at each.                   *)

LEMMA LastLeadUnique ==
    ASSUME NEW t, NEW k \in Nat, NEW i, IsLastLead(t, k, i)
    PROVE  (CHOOSE l \in 0..(k - 1) : /\ l = 0 \/ t[l].who = Lead
                                      /\ \A j \in (l + 1)..(k - 1) : t[j].who # Lead) = i
<1> DEFINE last == CHOOSE l \in 0..(k - 1) : /\ l = 0 \/ t[l].who = Lead
                                             /\ \A j \in (l + 1)..(k - 1) : t[j].who # Lead
<1>1. /\ last \in 0..(k - 1)
      /\ last = 0 \/ t[last].who = Lead
      /\ \A j \in (last + 1)..(k - 1) : t[j].who # Lead
    BY DEF IsLastLead
<1> HIDE DEF last
<1>2. last = i
    BY <1>1 DEF IsLastLead
<1> QED
    BY <1>2 DEF last

\* Runs of answers.
LEMMA FromFacts ==
    ASSUME NEW i \in Nat \ {0}, NEW j \in Nat, i <= j + 1
    PROVE  /\ From(i, j) \in Numbers /\ Len(From(i, j)) = j - i + 1
           /\ \A k \in 1..(j - i + 1) : From(i, j)[k] = i + k - 1
<1>1. j - i + 1 \in Nat /\ \A k \in 1..(j - i + 1) : i + k - 1 \in Nat \ {0}
    OBVIOUS
<1>2. From(i, j) \in [1..(j - i + 1) -> Nat \ {0}]
    BY <1>1 DEF From
<1> QED
    BY <1>1, <1>2, IsASeq DEF From, Numbers

LEMMA FromAppend ==
    ASSUME NEW i \in Nat \ {0}, NEW n \in Nat, i <= n
    PROVE  Append(From(i, n - 1), n) = From(i, n)
<1>1. /\ n - 1 \in Nat /\ i <= (n - 1) + 1 /\ i <= n + 1 /\ (n - 1) - i + 1 = n - i
      /\ n \in Nat \ {0}
    OBVIOUS
<1>2. /\ From(i, n - 1) \in Numbers /\ Len(From(i, n - 1)) = n - i
      /\ \A k \in 1..(n - i) : From(i, n - 1)[k] = i + k - 1
    BY <1>1, FromFacts
<1>3. /\ From(i, n) \in Numbers /\ Len(From(i, n)) = n - i + 1
      /\ \A k \in 1..(n - i + 1) : From(i, n)[k] = i + k - 1
    BY <1>1, FromFacts
<1>4. /\ Append(From(i, n - 1), n) \in Numbers
      /\ Len(Append(From(i, n - 1), n)) = n - i + 1
      /\ \A k \in 1..(n - i) : Append(From(i, n - 1), n)[k] = From(i, n - 1)[k]
      /\ Append(From(i, n - 1), n)[n - i + 1] = n
    BY <1>1, <1>2, AppendProperties DEF Numbers
<1>5. \A k \in 1..(n - i + 1) : Append(From(i, n - 1), n)[k] = From(i, n)[k]
    BY <1>2, <1>3, <1>4
<1> QED
    BY <1>3, <1>4, <1>5, SeqEqual DEF Numbers

LEMMA FromOne ==
    ASSUME NEW n \in Nat
    PROVE  From(1, n) \in Numbers /\ Len(From(1, n)) = n /\ \A k \in 1..n : From(1, n)[k] = k
<1>1. 1 \in Nat \ {0} /\ 1 <= n + 1 /\ n - 1 + 1 = n
    OBVIOUS
<1>2. /\ From(1, n) \in Numbers /\ Len(From(1, n)) = n - 1 + 1
      /\ \A k \in 1..(n - 1 + 1) : From(1, n)[k] = 1 + k - 1
    BY <1>1, FromFacts
<1> QED
    BY <1>1, <1>2

LEMMA FromConcat ==
    ASSUME NEW q \in Nat, NEW n \in Nat, q <= n
    PROVE  From(1, q) \o From(q + 1, n) = From(1, n)
<1>1. From(1, q) \in Numbers /\ Len(From(1, q)) = q /\ \A k \in 1..q : From(1, q)[k] = k
    BY FromOne
<1>2. /\ From(q + 1, n) \in Numbers /\ Len(From(q + 1, n)) = n - q
      /\ \A k \in 1..(n - q) : From(q + 1, n)[k] = q + k
    <2>1. q + 1 \in Nat \ {0} /\ q + 1 <= n + 1 /\ n - (q + 1) + 1 = n - q
        OBVIOUS
    <2>2. /\ From(q + 1, n) \in Numbers /\ Len(From(q + 1, n)) = n - (q + 1) + 1
          /\ \A k \in 1..(n - (q + 1) + 1) : From(q + 1, n)[k] = (q + 1) + k - 1
        BY <2>1, FromFacts
    <2> QED
        BY <2>1, <2>2
<1>3. From(1, n) \in Numbers /\ Len(From(1, n)) = n /\ \A k \in 1..n : From(1, n)[k] = k
    BY FromOne
<1> DEFINE both == From(1, q) \o From(q + 1, n)
<1>4. /\ both \in Seq(Nat \ {0}) /\ Len(both) = Len(From(1, q)) + Len(From(q + 1, n))
      /\ \A k \in 1..(Len(From(1, q)) + Len(From(q + 1, n))) :
            both[k] = IF k <= Len(From(1, q)) THEN From(1, q)[k]
                      ELSE From(q + 1, n)[k - Len(From(1, q))]
    BY <1>1, <1>2, ConcatProperties DEF Numbers
<1> HIDE DEF both
<1>5. Len(both) = n
    <2>1. /\ Len(both) = Len(From(1, q)) + Len(From(q + 1, n))
          /\ Len(From(1, q)) = q /\ Len(From(q + 1, n)) = n - q
        BY <1>1, <1>2, <1>4
    <2> QED
        BY <2>1
<1>6. \A k \in 1..n : both[k] = From(1, n)[k]
    <2> SUFFICES ASSUME NEW k \in 1..n PROVE both[k] = From(1, n)[k]
        OBVIOUS
    <2>1. both[k] = IF k <= q THEN From(1, q)[k] ELSE From(q + 1, n)[k - q]
        <3>1. k \in 1..(Len(From(1, q)) + Len(From(q + 1, n)))
            BY <1>4, <1>5
        <3>2. both[k] = IF k <= Len(From(1, q)) THEN From(1, q)[k]
                        ELSE From(q + 1, n)[k - Len(From(1, q))]
            BY <1>4, <3>1
        <3>3. Len(From(1, q)) = q
            BY <1>1
        <3> QED
            BY <3>2, <3>3
    <2>2. k <= q => From(1, q)[k] = k
        BY <1>1
    <2>3. ~(k <= q) => From(q + 1, n)[k - q] = q + (k - q)
        <3>1. ~(k <= q) => k - q \in 1..(n - q)
            OBVIOUS
        <3> QED
            BY <1>2, <3>1
    <2> QED
        BY <1>3, <2>1, <2>2, <2>3
<1>7. both = From(1, n)
    BY <1>3, <1>4, <1>5, <1>6, SeqEqual DEF Numbers
<1> QED
    BY <1>7 DEF both

\* A step that is started is the next turn.
LEMMA AskFacts ==
    ASSUME ConversationTypeOK, NEW who \in Members \cup {Lead}, NEW told \in Numbers,
           Ask(who, told)
    PROVE  /\ transcript' \in Seq(Turn) /\ Now \in Nat /\ Now' = Now + 1
           /\ \A k \in 1..Now : transcript'[k] = transcript[k]
           /\ transcript'[Now + 1] = [who |-> who, told |-> told]
<1>1. transcript \in Seq(Turn) /\ [who |-> who, told |-> told] \in Turn
    BY DEF ConversationTypeOK, Turn
<1> QED
    BY <1>1, AppendProperties DEF Ask, Now

\* A round that has not begun, and one whose first speaker is asked.
LEMMA FromEmpty ==
    ASSUME NEW n \in Nat
    PROVE  From(n + 1, n) = <<>>
<1>1. n + 1 \in Nat \ {0} /\ n + 1 <= n + 1 /\ n - (n + 1) + 1 = 0
    OBVIOUS
<1>2. From(n + 1, n) \in Numbers /\ Len(From(n + 1, n)) = 0
    BY <1>1, FromFacts
<1> QED
    BY <1>2, EmptySeq DEF Numbers

LEMMA RestOfRound ==
    Tail(AllMembers) \in Seq(Members) /\ Len(Tail(AllMembers)) = NumMembers - 1
<1>1. AllMembers \in Seq(Members) /\ Len(AllMembers) = NumMembers
    BY ConversationAssumption, IsASeq DEF AllMembers, Members
<1>2. AllMembers # <<>>
    BY <1>1, ConversationAssumption, EmptySeq
<1> QED
    BY <1>1, <1>2, HeadTailProperties

\* The rounds that are over.
LEMMA RoundsOver ==
    ASSUME NEW r \in Nat, NEW p \in Nat, p < NumMembers
    PROVE  (r * NumMembers + p) \div NumMembers = r
<1> DEFINE n == r * NumMembers + p
           q == n \div NumMembers
<1>1. NumMembers \in Nat /\ NumMembers > 0
    BY ConversationAssumption
<1>2. n \in Nat
    BY <1>1
<1>3. q \in Int /\ NumMembers * q <= n /\ n < NumMembers * q + NumMembers
    <2> HIDE DEF n
    <2>1. n % NumMembers \in 0..(NumMembers - 1) /\ q \in Int
        BY <1>1, <1>2
    <2>2. n = NumMembers * q + (n % NumMembers)
        BY <1>1, <1>2
    <2> QED
        BY <1>1, <1>2, <2>1, <2>2
<1> HIDE DEF q
<1>4. CASE q < r
    <2>1. q + 1 <= r
        BY <1>3, <1>4
    <2>2. NumMembers * (q + 1) <= NumMembers * r
        BY <1>1, <1>3, <2>1
    <2> QED
        BY <1>1, <1>3, <2>2
<1>5. CASE q > r
    <2>1. r + 1 <= q
        BY <1>3, <1>5
    <2>2. NumMembers * (r + 1) <= NumMembers * q
        BY <1>1, <1>3, <2>1
    <2> QED
        BY <1>1, <1>3, <2>2
<1> QED
    BY <1>3, <1>4, <1>5 DEF q

\* What was due at the turns so far is due for ever.
LEMMA DueIsStable ==
    ASSUME ConversationInv, pattern' = pattern, NEW k \in 1..Now,
           \A j \in 1..Now : transcript'[j] = transcript[j]
    PROVE  /\ Due(k)' = Due(k)
           /\ \A i : IsLastLead(transcript, k, i) <=> IsLastLead(transcript', k, i)
<1>1. Now \in Nat
    BY DEF ConversationInv, ConversationTypeOK, Now
<1>2. \A j \in 1..k : transcript'[j] = transcript[j]
    BY <1>1
<1>3. \A i : IsLastLead(transcript, k, i) <=> IsLastLead(transcript', k, i)
    BY <1>1, <1>2 DEF IsLastLead
<1>4. CASE pattern = "supervisor"
    <2>1. PICK i \in 0..(k - 1) : IsLastLead(transcript, k, i)
        BY <1>4 DEF ConversationInv, LeadInv, Now
    <2>2. LastLead(k) = i
        BY <1>1, <2>1, LastLeadUnique DEF LastLead
    <2>3. LastLead(k)' = i
        BY <1>1, <1>3, <2>1, LastLeadUnique DEF LastLead
    <2>4. Due(k)' = Due(k)
        BY <1>2, <1>4, <2>2, <2>3 DEF Due
    <2> QED
        BY <1>3, <2>4
<1>5. CASE pattern # "supervisor"
    <2>1. Due(k)' = Due(k)
        BY <1>2, <1>5 DEF Due
    <2> QED
        BY <1>3, <2>1
<1> QED
    BY <1>4, <1>5

\* A step that is started is told what is due.
LEMMA AskKeepsTurns ==
    ASSUME ConversationInv, NEW n, n = Now, pattern' = pattern \/ n = 0,
           NEW who \in Members \cup {Lead}, NEW told \in Numbers, Ask(who, told),
           pattern' = "supervisor" => \E i \in 0..n : IsLastLead(transcript', n + 1, i),
           told = Due(n + 1)'
    PROVE  TurnInv' /\ LeadInv' /\ ToldWhatIsDue' /\ transcript' \in Seq(Turn)
<1>1. /\ transcript' \in Seq(Turn) /\ n \in Nat /\ Len(transcript') = n + 1
      /\ \A k \in 1..n : transcript'[k] = transcript[k]
      /\ transcript'[n + 1] = [who |-> who, told |-> told]
    BY AskFacts DEF ConversationInv, Now
<1>2. ASSUME NEW k \in 1..n
      PROVE  /\ Due(k)' = Due(k)
             /\ \A i : IsLastLead(transcript, k, i) <=> IsLastLead(transcript', k, i)
    <2>1. pattern' = pattern
        BY <1>1
    <2> QED
        BY <1>1, <2>1, DueIsStable
<1>3. TurnInv'
    <2>1. asked' = who
        BY DEF Ask
    <2> QED
        BY <1>1, <2>1 DEF TurnInv
<1>4. LeadInv'
    <2> SUFFICES ASSUME pattern' = "supervisor", NEW k \in 1..(n + 1)
                 PROVE  \E i \in 0..(k - 1) : IsLastLead(transcript', k, i)
        BY <1>1 DEF LeadInv
    <2>1. CASE k = n + 1
        BY <1>1, <2>1
    <2>2. CASE k \in 1..n
        <3>1. PICK i \in 0..(k - 1) : IsLastLead(transcript, k, i)
            BY <1>1, <2>2 DEF ConversationInv, LeadInv, Now
        <3> QED
            BY <1>2, <2>2, <3>1
    <2> QED
        BY <1>1, <2>1, <2>2
<1>5. ToldWhatIsDue'
    <2> SUFFICES ASSUME NEW k \in 1..(n + 1)
                 PROVE  transcript'[k].told = Due(k)'
        BY <1>1, LenProperties DEF ToldWhatIsDue
    <2>1. CASE k = n + 1
        BY <1>1, <2>1
    <2>2. CASE k \in 1..n
        <3>1. transcript[k].told = Due(k)
            BY <2>2, LenProperties DEF ConversationInv, ConversationTypeOK, ToldWhatIsDue, Now
        <3> QED
            BY <1>1, <1>2, <2>2, <3>1
    <2> QED
        BY <1>1, <2>1, <2>2
<1> QED
    BY <1>1, <1>3, <1>4, <1>5

\* A conversation that ends asks nobody.
LEMMA EndKeepsTurns ==
    ASSUME ConversationInv, at # "idle", UNCHANGED <<pattern, asked, transcript>>
    PROVE  TurnInv' /\ LeadInv' /\ ToldWhatIsDue' /\ transcript' \in Seq(Turn)
<1>1. transcript \in Seq(Turn) /\ Now \in Nat /\ Now = Len(transcript)
    BY DEF ConversationInv, ConversationTypeOK, Turn, Now
<1>2. ASSUME NEW k \in 1..Now
      PROVE  /\ Due(k)' = Due(k)
             /\ \A i : IsLastLead(transcript, k, i) <=> IsLastLead(transcript', k, i)
    BY DueIsStable
<1>3. TurnInv' /\ LeadInv'
    BY <1>1 DEF ConversationInv, TurnInv, LeadInv
<1>4. ToldWhatIsDue'
    <2>1. DOMAIN transcript = 1..Now
        BY <1>1
    <2> QED
        BY <1>2, <2>1 DEF ConversationInv, ToldWhatIsDue
<1> QED
    BY <1>1, <1>3, <1>4

-----------------------------------------------------------------------------
(* Every action preserves ConversationInv.                                 *)

LEMMA InitConversation ==
    ConversationInit => ConversationInv
<1> SUFFICES ASSUME ConversationInit PROVE ConversationInv
    OBVIOUS
<1>1. ConversationTypeOK
    <2>1. <<>> \in Numbers /\ <<>> \in Seq(Members) /\ <<>> \in Seq(Turn)
        BY EmptySeq DEF Numbers
    <2>2. 0 \in 0..MaxRounds
        BY ConversationAssumption
    <2> QED
        BY <2>1, <2>2 DEF ConversationInit, ConversationTypeOK, Turn
<1>2. ToldWhatIsDue
    BY DEF ConversationInit, ToldWhatIsDue
<1>3. LeadInv
    BY DEF ConversationInit, LeadInv
<1> QED
    BY <1>1, <1>2, <1>3 DEF ConversationInit, ConversationInv, IdleInv, TurnInv, WorkersInv,
                            SpeakersInv, RoundsInv, FedBackUnlessLimit

\* A step under way is a turn, and what it answers is a number.
LEMMA Asking ==
    ASSUME ConversationInv, at = "asking"
    PROVE  /\ Now \in Nat \ {0} /\ transcript[Now].who = asked
           /\ <<Now>> \in Numbers /\ Append(answers, Now) \in Numbers
           /\ <<>> \in Numbers /\ shown \in Numbers /\ answers \in Numbers
           /\ left \in Seq(Members) /\ rounds \in Nat /\ transcript \in Seq(Turn)
<1>1. Now \in Nat \ {0} /\ transcript[Now].who = asked
    BY DEF ConversationInv, TurnInv, Now
<1>2. /\ shown \in Numbers /\ answers \in Numbers /\ left \in Seq(Members) /\ rounds \in Nat
      /\ transcript \in Seq(Turn)
    BY ConversationAssumption DEF ConversationInv, ConversationTypeOK, Turn
<1>3. Append(answers, Now) \in Numbers /\ <<Now>> \in Numbers /\ <<>> \in Numbers
    BY <1>1, <1>2, AppendProperties, EmptySeq DEF Numbers
<1> QED
    BY <1>1, <1>2, <1>3

LEMMA MembersAre ==
    /\ Lead \notin Members /\ 1 \in Members /\ NumMembers \in Nat /\ NumMembers > 0
    /\ \A s \in Seq(Members) : s # <<>> =>
            Head(s) \in Members /\ Tail(s) \in Seq(Members) /\ Len(Tail(s)) = Len(s) - 1
BY ConversationAssumption, HeadTailProperties DEF Members, Lead

LEMMA ConverseKeeps ==
    ASSUME ConversationInv, Converse
    PROVE  ConversationInv'
<1>1. /\ at = "idle" /\ transcript = <<>> /\ shown = <<>> /\ answers = <<>> /\ rounds = 0
      /\ UNCHANGED <<shown, answers, rounds, verdict>>
      /\ pattern' \in {"chain", "supervisor", "debate"} /\ moderated' \in BOOLEAN
      /\ Now = 0
    BY DEF Converse, ConversationInv, IdleInv, Now
<1>2. /\ <<>> \in Numbers /\ <<>> \in Seq(Members)
      /\ Tail(AllMembers) \in Seq(Members) /\ Len(Tail(AllMembers)) = NumMembers - 1
      /\ <<>> = From(1, 0)
    BY EmptySeq, RestOfRound, FromEmpty DEF Numbers
<1>3. PICK who \in Members \cup {Lead} :
        /\ Ask(who, <<>>) /\ left' \in Seq(Members)
        /\ who = Lead <=> pattern' = "supervisor"
        /\ who # Lead => Len(left') = NumMembers - 1
    BY <1>2, MembersAre DEF Converse
<1>4. /\ transcript' \in Seq(Turn) /\ Now' = 1 /\ transcript'[1] = [who |-> who, told |-> <<>>]
      /\ asked' = who /\ at' = "asking"
    BY <1>1, <1>2, <1>3, AskFacts DEF Ask, ConversationInv
<1>5. Due(1)' = <<>>
    <2>1. transcript'[1].who = who
        BY <1>4
    <2>2. CASE pattern' = "chain"
        BY <2>2 DEF Due
    <2>3. CASE pattern' = "supervisor"
        BY <1>3, <2>1, <2>3 DEF Due
    <2>4. CASE pattern' = "debate"
        <3>1. ((1 - 1) \div NumMembers) * NumMembers = 0
            <4>1. 0 * NumMembers + 0 = 0 /\ 1 - 1 = 0 /\ 0 * NumMembers = 0
                BY MembersAre
            <4>2. (0 * NumMembers + 0) \div NumMembers = 0
                BY MembersAre, RoundsOver
            <4> QED
                BY <4>1, <4>2
        <3> QED
            BY <1>2, <1>3, <2>1, <2>4, <3>1 DEF Due
    <2> QED
        BY <1>1, <2>2, <2>3, <2>4
<1>6. IsLastLead(transcript', 1, 0)
    BY DEF IsLastLead
<1>7. TurnInv' /\ LeadInv' /\ ToldWhatIsDue'
    <2>1. /\ Now + 1 = 1 /\ 0 \in 0..Now
        BY <1>1
    <2>2. PICK n : n = Now /\ n = 0
        BY <1>1
    <2>3. n + 1 = 1 /\ 0 \in 0..n
        BY <2>2
    <2> QED
        BY <1>2, <1>3, <1>5, <1>6, <2>2, <2>3, AskKeepsTurns
<1>8. ConversationTypeOK'
    BY <1>1, <1>3, <1>4 DEF ConversationInv, ConversationTypeOK, Turn
<1>9. SpeakersInv'
    <2>1. Len(<<>>) = 0 /\ 0 * NumMembers = 0
        BY MembersAre
    <2> QED
        BY <1>1, <1>2, <1>3, <1>4, <2>1, MembersAre DEF SpeakersInv
<1>10. IdleInv' /\ WorkersInv' /\ RoundsInv' /\ FedBackUnlessLimit'
    BY <1>1, <1>3, <1>4, ConversationAssumption
       DEF IdleInv, WorkersInv, RoundsInv, FedBackUnlessLimit
<1> QED
    BY <1>7, <1>8, <1>9, <1>10 DEF ConversationInv

LEMMA ChainNextKeeps ==
    ASSUME ConversationInv, ChainNext
    PROVE  ConversationInv'
<1>1. /\ at = "asking" /\ pattern = "chain" /\ UNCHANGED <<pattern, moderated, answers, rounds>>
      /\ shown' = <<Now>>
    BY DEF ChainNext, Answered
<1>2. /\ Now \in Nat \ {0} /\ <<Now>> \in Numbers /\ left \in Seq(Members)
      /\ \A s \in Seq(Members) : s # <<>> => Head(s) \in Members /\ Tail(s) \in Seq(Members)
    BY <1>1, Asking, MembersAre
<1>3. /\ TurnInv' /\ LeadInv' /\ ToldWhatIsDue' /\ transcript' \in Seq(Turn)
      /\ at' \in {"asking", "done"} /\ asked' \in Members \cup {Lead} /\ left' \in Seq(Members)
      /\ UNCHANGED verdict \/ verdict' = "none"
    <2>1. CASE left = <<>>
        <3>1. EndWith("none") /\ UNCHANGED left
            BY <2>1 DEF ChainNext
        <3> QED
            BY <1>1, <1>2, <3>1, EndKeepsTurns
               DEF EndWith, ConversationInv, ConversationTypeOK
    <2>2. CASE left # <<>>
        <3>1. PICK n : n = Now
            OBVIOUS
        <3>2. Ask(Head(left), <<n>>) /\ left' = Tail(left) /\ UNCHANGED verdict
            BY <1>1, <2>2, <3>1 DEF ChainNext
        <3>3. Due(n + 1)' = <<n>>
            <4>1. n + 1 # 1 /\ (n + 1) - 1 = n
                BY <1>2, <3>1
            <4> QED
                BY <1>1, <4>1 DEF Due
        <3>4. Head(left) \in Members \cup {Lead} /\ Tail(left) \in Seq(Members)
            BY <1>2, <2>2
        <3> QED
            BY <1>1, <1>2, <3>1, <3>2, <3>3, <3>4, AskKeepsTurns DEF Ask
    <2> QED
        BY <2>1, <2>2
<1>4. ConversationTypeOK'
    BY <1>1, <1>2, <1>3 DEF ConversationInv, ConversationTypeOK, Turn
<1>5. IdleInv' /\ WorkersInv' /\ SpeakersInv' /\ RoundsInv' /\ FedBackUnlessLimit'
    BY <1>1, <1>3 DEF IdleInv, WorkersInv, SpeakersInv, RoundsInv, FedBackUnlessLimit
<1> QED
    BY <1>3, <1>4, <1>5 DEF ConversationInv

LEMMA SupervisorAnswersKeeps ==
    ASSUME ConversationInv, SupervisorAnswers
    PROVE  ConversationInv'
<1>1. /\ at = "asking" /\ pattern = "supervisor" /\ asked = Lead
      /\ UNCHANGED <<pattern, moderated, shown, rounds>> /\ answers' = <<>>
    BY DEF SupervisorAnswers, Answered
<1>2. PICK n : n = Now
    OBVIOUS
<1>3. /\ n \in Nat \ {0} /\ transcript[n].who = Lead /\ <<n>> \in Numbers /\ <<>> \in Numbers
      /\ rounds < MaxRounds /\ left \in Seq(Members)
    BY <1>1, <1>2, Asking DEF ConversationInv, RoundsInv
<1>4. PICK known \in Delegations, unknown \in BOOLEAN :
          IF known # <<>>
          THEN Ask(Head(known), <<n>>) /\ left' = Tail(known) /\ UNCHANGED verdict
          ELSE EndWith(IF unknown THEN "none" ELSE "completed") /\ UNCHANGED left
    BY <1>2 DEF SupervisorAnswers
<1>5. known \in Seq(Members)
    <2>1. PICK m \in 0..MaxDelegations : known \in [1..m -> Members]
        BY DEF Delegations
    <2> QED
        BY <2>1, ConversationAssumption, IsASeq
<1>6. CASE known # <<>>
    <2>1. PICK who \in Members : who = Head(known) /\ Tail(known) \in Seq(Members) /\ who # Lead
        BY <1>5, <1>6, MembersAre
    <2>2. Ask(who, <<n>>) /\ left' = Tail(known) /\ UNCHANGED verdict
        BY <1>4, <1>6, <2>1
    <2>3. /\ transcript' \in Seq(Turn) /\ Now' = n + 1 /\ transcript'[n] = transcript[n]
          /\ transcript'[n + 1] = [who |-> who, told |-> <<n>>]
          /\ asked' = who /\ at' = "asking"
        <3>1. n \in 1..n /\ who \in Members \cup {Lead} /\ ConversationTypeOK
            BY <1>3 DEF ConversationInv
        <3>2. /\ transcript' \in Seq(Turn) /\ Now' = n + 1
              /\ \A k \in 1..n : transcript'[k] = transcript[k]
              /\ transcript'[n + 1] = [who |-> who, told |-> <<n>>]
            BY <1>2, <1>3, <2>2, <3>1, AskFacts
        <3> QED
            BY <2>2, <3>1, <3>2 DEF Ask
    <2>4. transcript'[n + 1].who = who /\ transcript'[n].who = Lead
        BY <1>3, <2>3
    <2>5. IsLastLead(transcript', n + 1, n)
        BY <1>3, <2>4 DEF IsLastLead
    <2>6. Due(n + 1)' = <<n>>
        <3>1. LastLead(n + 1)' = n
            BY <1>3, <2>5, LastLeadUnique DEF LastLead
        <3> QED
            BY <1>1, <2>1, <2>4, <3>1 DEF Due
    <2>7. TurnInv' /\ LeadInv' /\ ToldWhatIsDue'
        BY <1>1, <1>2, <1>3, <2>2, <2>5, <2>6, AskKeepsTurns
    <2>8. ConversationTypeOK'
        BY <1>1, <1>3, <2>1, <2>2, <2>3 DEF ConversationInv, ConversationTypeOK, Turn
    <2>9. WorkersInv'
        <3>1. TaskSource' = n /\ Now' = n + 1 /\ answers' = From(n + 1, n)
            BY <1>1, <1>3, <2>3, FromEmpty DEF TaskSource
        <3>2. \A j \in (n + 1)..(n + 1) : transcript'[j].who # Lead
            BY <1>3, <2>1, <2>4
        <3>3. TaskSource' + 1 = n + 1 /\ Now' - 1 = n
            BY <1>3, <3>1
        <3> QED
            BY <1>3, <2>4, <3>1, <3>2, <3>3 DEF WorkersInv
    <2>10. IdleInv' /\ SpeakersInv' /\ RoundsInv' /\ FedBackUnlessLimit'
        BY <1>1, <1>3, <2>3 DEF IdleInv, SpeakersInv, RoundsInv, FedBackUnlessLimit
    <2> QED
        BY <2>7, <2>8, <2>9, <2>10 DEF ConversationInv
<1>7. CASE known = <<>>
    <2>1. /\ at' = "done" /\ verdict' \in {"none", "completed"}
          /\ UNCHANGED <<asked, transcript, left>>
        BY <1>4, <1>7 DEF EndWith
    <2>2. TurnInv' /\ LeadInv' /\ ToldWhatIsDue' /\ transcript' \in Seq(Turn)
        BY <1>1, <2>1, EndKeepsTurns
    <2>3. ConversationTypeOK'
        BY <1>1, <1>3, <2>1, <2>2 DEF ConversationInv, ConversationTypeOK, Turn
    <2>4. IdleInv' /\ WorkersInv' /\ SpeakersInv' /\ RoundsInv'
        BY <2>1 DEF IdleInv, WorkersInv, SpeakersInv, RoundsInv
    <2>5. FedBackUnlessLimit'
        BY <1>2, <1>3, <2>1 DEF FedBackUnlessLimit, Now
    <2> QED
        BY <2>2, <2>3, <2>4, <2>5 DEF ConversationInv
<1> QED
    BY <1>6, <1>7

LEMMA WorkerAnswersKeeps ==
    ASSUME ConversationInv, WorkerAnswers
    PROVE  ConversationInv'
<1>1. /\ at = "asking" /\ pattern = "supervisor" /\ asked # Lead
      /\ UNCHANGED <<pattern, moderated>> /\ answers' = Append(answers, Now)
    BY DEF WorkerAnswers, Answered
<1>2. PICK n, l : n = Now /\ l = TaskSource
    OBVIOUS
<1>3. /\ n \in Nat \ {0} /\ transcript[n].who = asked /\ answers \in Numbers
      /\ answers' \in Numbers /\ shown \in Numbers /\ left \in Seq(Members)
      /\ rounds \in Nat /\ rounds < MaxRounds
    BY <1>1, <1>2, Asking DEF ConversationInv, RoundsInv
<1>4. /\ l \in Nat \ {0} /\ transcript[l].who = Lead
      /\ \A j \in (l + 1)..n : transcript[j].who # Lead
      /\ answers = From(l + 1, n - 1)
    BY <1>1, <1>2 DEF ConversationInv, WorkersInv
<1>5. l = n - Len(answers) - 1 /\ l < n /\ Len(answers) \in Nat
    BY <1>2, <1>3, LenProperties DEF TaskSource, Numbers
<1>6. answers' = From(l + 1, n) /\ Len(answers') = Len(answers) + 1
    <2>1. l + 1 \in Nat \ {0} /\ l + 1 <= n
        BY <1>3, <1>4, <1>5
    <2>2. Append(From(l + 1, n - 1), n) = From(l + 1, n)
        BY <1>3, <2>1, FromAppend
    <2>3. Len(Append(answers, n)) = Len(answers) + 1
        BY <1>3, AppendProperties DEF Numbers
    <2> QED
        BY <1>1, <1>2, <1>4, <2>2, <2>3
<1>7. ASSUME NEW who \in Members \cup {Lead}, NEW told \in Numbers, Ask(who, told),
             who = Lead => told = From(l + 1, n),
             who # Lead => told = <<l>>
      PROVE  /\ TurnInv' /\ LeadInv' /\ ToldWhatIsDue' /\ transcript' \in Seq(Turn)
             /\ Now' = n + 1 /\ \A j \in 1..n : transcript'[j] = transcript[j]
             /\ transcript'[n + 1].who = who /\ asked' = who /\ at' = "asking"
    <2>1. /\ transcript' \in Seq(Turn) /\ Now' = n + 1
          /\ \A j \in 1..n : transcript'[j] = transcript[j]
          /\ transcript'[n + 1] = [who |-> who, told |-> told]
          /\ asked' = who /\ at' = "asking"
        BY <1>2, <1>7, AskFacts DEF ConversationInv, Ask
    <2>2. transcript'[n + 1].who = who
        BY <2>1
    <2>3. IsLastLead(transcript', n + 1, l)
        <3>1. l \in 0..((n + 1) - 1) /\ l \in 1..n
            BY <1>3, <1>4, <1>5
        <3>2. \A j \in (l + 1)..((n + 1) - 1) : j \in (l + 1)..n /\ j \in 1..n
            BY <1>3, <1>4
        <3> QED
            BY <1>4, <2>1, <3>1, <3>2 DEF IsLastLead
    <2>4. Due(n + 1)' = told
        <3>1. LastLead(n + 1)' = l
            BY <1>3, <2>3, LastLeadUnique DEF LastLead
        <3>2. n + 1 # 1 /\ (n + 1) - 1 = n
            BY <1>3
        <3> QED
            BY <1>1, <1>7, <2>2, <3>1, <3>2 DEF Due
    <2>5. l \in 0..n
        BY <1>3, <1>4, <1>5
    <2>6. TurnInv' /\ LeadInv' /\ ToldWhatIsDue'
        BY <1>1, <1>2, <1>7, <2>3, <2>4, <2>5, AskKeepsTurns
    <2> QED
        BY <2>1, <2>2, <2>6
<1>8. CASE left # <<>>
    <2>1. PICK who \in Members : who = Head(left) /\ who # Lead /\ Tail(left) \in Seq(Members)
        BY <1>3, <1>8, MembersAre
    <2>2. Ask(who, <<l>>) /\ left' = Tail(left) /\ UNCHANGED <<shown, rounds, verdict>>
        BY <1>2, <1>8, <2>1 DEF WorkerAnswers
    <2>3. <<l>> \in Numbers
        BY <1>4 DEF Numbers
    <2>4. /\ TurnInv' /\ LeadInv' /\ ToldWhatIsDue' /\ transcript' \in Seq(Turn)
          /\ Now' = n + 1 /\ \A j \in 1..n : transcript'[j] = transcript[j]
          /\ transcript'[n + 1].who = who /\ asked' = who /\ at' = "asking"
        BY <1>7, <2>1, <2>2, <2>3
    <2>5. ConversationTypeOK'
        BY <1>1, <1>3, <2>1, <2>2, <2>4 DEF ConversationInv, ConversationTypeOK, Turn
    <2>6. WorkersInv'
        <3>1. TaskSource' = l /\ Now' - 1 = n
            <4>1. Now' = n + 1 /\ Len(answers') = Len(answers) + 1
                BY <1>6, <2>4
            <4>2. (n + 1) - (Len(answers) + 1) - 1 = l /\ (n + 1) - 1 = n
                BY <1>3, <1>5
            <4> QED
                BY <4>1, <4>2 DEF TaskSource
        <3>2. transcript'[l].who = Lead
            BY <1>3, <1>4, <1>5, <2>4
        <3>3. \A j \in (l + 1)..(n + 1) : transcript'[j].who # Lead
            <4>1. \A j \in (l + 1)..(n + 1) : j = n + 1 \/ (j \in (l + 1)..n /\ j \in 1..n)
                BY <1>3, <1>4
            <4> QED
                BY <1>4, <2>1, <2>4, <4>1
        <3> QED
            BY <1>4, <1>6, <2>4, <3>1, <3>2, <3>3 DEF WorkersInv
    <2>7. IdleInv' /\ SpeakersInv' /\ RoundsInv' /\ FedBackUnlessLimit'
        BY <1>1, <1>3, <2>2, <2>4 DEF IdleInv, SpeakersInv, RoundsInv, FedBackUnlessLimit
    <2> QED
        BY <2>4, <2>5, <2>6, <2>7 DEF ConversationInv
<1>9. CASE left = <<>>
    <2>1. shown' = answers' /\ FeedBack /\ UNCHANGED left /\ rounds' = rounds + 1
        BY <1>9 DEF WorkerAnswers, FeedBack
    <2>2. rounds' \in 0..MaxRounds
        BY <1>3, <2>1, ConversationAssumption
    <2>3. CASE rounds' < MaxRounds
        <3>1. PICK told \in Numbers : told = shown'
            BY <1>3, <2>1
        <3>2. Ask(Lead, told) /\ UNCHANGED verdict
            BY <2>1, <2>3, <3>1 DEF FeedBack
        <3>3. told = From(l + 1, n)
            BY <1>6, <2>1, <3>1
        <3>4. /\ TurnInv' /\ LeadInv' /\ ToldWhatIsDue' /\ transcript' \in Seq(Turn)
              /\ asked' = Lead /\ at' = "asking"
            BY <1>7, <3>2, <3>3
        <3>5. ConversationTypeOK'
            BY <1>1, <1>3, <2>1, <2>2, <3>2, <3>4
               DEF ConversationInv, ConversationTypeOK, Turn
        <3>6. IdleInv' /\ WorkersInv' /\ SpeakersInv' /\ RoundsInv' /\ FedBackUnlessLimit'
            BY <1>1, <2>3, <3>4 DEF IdleInv, WorkersInv, SpeakersInv, RoundsInv, FedBackUnlessLimit
        <3> QED
            BY <3>4, <3>5, <3>6 DEF ConversationInv
    <2>4. CASE ~(rounds' < MaxRounds)
        <3>1. at' = "done" /\ verdict' = "limit" /\ UNCHANGED <<asked, transcript>>
            BY <2>1, <2>4 DEF FeedBack, EndWith
        <3>2. TurnInv' /\ LeadInv' /\ ToldWhatIsDue' /\ transcript' \in Seq(Turn)
            BY <1>1, <3>1, EndKeepsTurns
        <3>3. ConversationTypeOK'
            BY <1>1, <1>3, <2>1, <2>2, <3>1, <3>2
               DEF ConversationInv, ConversationTypeOK, Turn
        <3>4. rounds' = MaxRounds
            BY <2>2, <2>4, ConversationAssumption
        <3>5. IdleInv' /\ WorkersInv' /\ SpeakersInv' /\ RoundsInv' /\ FedBackUnlessLimit'
            BY <3>1, <3>4 DEF IdleInv, WorkersInv, SpeakersInv, RoundsInv, FedBackUnlessLimit
        <3> QED
            BY <3>2, <3>3, <3>5 DEF ConversationInv
    <2> QED
        BY <2>3, <2>4
<1> QED
    BY <1>8, <1>9

\* While a speaker of a debate is asked: how far the round is.
LEMMA Speaking ==
    ASSUME ConversationInv, at = "asking", pattern = "debate", asked # Lead
    PROVE  /\ Now = rounds * NumMembers + Len(answers) + 1
           /\ Len(answers) \in Nat /\ Len(left) \in Nat
           /\ Len(answers) + 1 + Len(left) = NumMembers
           /\ rounds * NumMembers \in Nat
           /\ shown = From(1, rounds * NumMembers)
           /\ Append(answers, Now) = From(rounds * NumMembers + 1, Now)
           /\ Len(Append(answers, Now)) = Len(answers) + 1
           /\ shown \o Append(answers, Now) = From(1, Now)
           /\ rounds \in Nat /\ rounds < MaxRounds
<1>1. /\ Now = rounds * NumMembers + Len(answers) + 1
      /\ Len(answers) + 1 + Len(left) = NumMembers
      /\ shown = From(1, rounds * NumMembers)
      /\ answers = From(rounds * NumMembers + 1, Now - 1)
      /\ rounds < MaxRounds
    BY DEF ConversationInv, SpeakersInv, RoundsInv
<1>2. /\ rounds \in Nat /\ Now \in Nat \ {0} /\ Len(answers) \in Nat /\ Len(left) \in Nat
      /\ Len(Append(answers, Now)) = Len(answers) + 1
    BY Asking, LenProperties, AppendProperties DEF Numbers
<1>3. PICK q \in Nat, n \in Nat, m \in Nat :
        q = rounds * NumMembers /\ n = Now /\ m = Len(answers)
    <2>1. rounds * NumMembers \in Nat
        BY <1>2, MembersAre
    <2> QED
        BY <1>2, <2>1
<1>4. n = q + m + 1 /\ shown = From(1, q) /\ answers = From(q + 1, n - 1)
    BY <1>1, <1>3
<1>5. Append(answers, n) = From(q + 1, n)
    <2>1. n = q + m + 1
        BY <1>4
    <2>2. q + 1 \in Nat \ {0} /\ q + 1 <= n
        BY <2>1
    <2>3. Append(From(q + 1, n - 1), n) = From(q + 1, n)
        BY <2>2, FromAppend
    <2> QED
        BY <1>4, <2>3
<1>6. shown \o Append(answers, n) = From(1, n)
    <2>1. n = q + m + 1
        BY <1>4
    <2>2. q <= n
        BY <2>1
    <2>3. From(1, q) \o From(q + 1, n) = From(1, n)
        BY <2>2, FromConcat
    <2> QED
        BY <1>4, <1>5, <2>3
<1> QED
    BY <1>1, <1>2, <1>3, <1>5, <1>6

LEMMA SpeakKeeps ==
    ASSUME ConversationInv, Speak
    PROVE  ConversationInv'
<1>1. /\ at = "asking" /\ pattern = "debate" /\ asked # Lead /\ left # <<>>
      /\ UNCHANGED <<pattern, moderated, shown, rounds, verdict>>
      /\ answers' = Append(answers, Now) /\ left' = Tail(left)
    BY DEF Speak, Answered
<1>2. PICK n : n = Now
    OBVIOUS
<1>3. /\ n \in Nat \ {0} /\ shown \in Numbers /\ answers' \in Numbers
      /\ \A s \in Seq(Members) : s # <<>> =>
            Head(s) \in Members /\ Tail(s) \in Seq(Members) /\ Len(Tail(s)) = Len(s) - 1
      /\ left \in Seq(Members) /\ Lead \notin Members
    BY <1>1, <1>2, Asking, MembersAre
<1>4. PICK who \in Members : who = Head(left) /\ who # Lead
    BY <1>1, <1>3
<1>5. left' \in Seq(Members) /\ Len(left') = Len(left) - 1
    BY <1>1, <1>3
<1>6. Ask(who, shown)
    BY <1>4 DEF Speak
<1>7. /\ n = rounds * NumMembers + Len(answers) + 1
      /\ Len(answers) \in Nat /\ Len(left) \in Nat
      /\ Len(answers) + 1 + Len(left) = NumMembers
      /\ shown = From(1, rounds * NumMembers)
      /\ answers' = From(rounds * NumMembers + 1, n)
      /\ Len(answers') = Len(answers) + 1
      /\ rounds \in Nat /\ rounds < MaxRounds /\ rounds * NumMembers \in Nat
    BY <1>1, <1>2, Speaking
<1>8. /\ transcript' \in Seq(Turn) /\ Now' = n + 1
      /\ transcript'[n + 1] = [who |-> who, told |-> shown]
      /\ asked' = who /\ at' = "asking"
    <2>1. who \in Members \cup {Lead} /\ ConversationTypeOK
        BY DEF ConversationInv
    <2> QED
        BY <1>2, <1>3, <1>6, <2>1, AskFacts DEF Ask
<1>9. Due(n + 1)' = shown
    <2>1. n \div NumMembers = rounds
        <3>1. Len(left) # 0
            BY <1>1, <1>3, EmptySeq
        <3>2. Len(answers) + 1 \in Nat /\ Len(answers) + 1 < NumMembers
            BY <1>7, <3>1, MembersAre
        <3>3. (rounds * NumMembers + (Len(answers) + 1)) \div NumMembers = rounds
            BY <1>7, <3>2, RoundsOver
        <3>4. n = rounds * NumMembers + (Len(answers) + 1)
            BY <1>7
        <3> QED
            BY <3>3, <3>4
    <2>2. (n + 1) - 1 = n /\ transcript'[n + 1].who = who
        BY <1>3, <1>8
    <2> QED
        BY <1>1, <1>4, <1>7, <2>1, <2>2 DEF Due
<1>10. TurnInv' /\ LeadInv' /\ ToldWhatIsDue'
    BY <1>1, <1>2, <1>3, <1>6, <1>9, AskKeepsTurns
<1>11. ConversationTypeOK'
    BY <1>1, <1>3, <1>5, <1>8 DEF ConversationInv, ConversationTypeOK, Turn
<1>12. SpeakersInv'
    <2>1. n + 1 = rounds * NumMembers + (Len(answers) + 1) + 1 /\ (n + 1) - 1 = n
        BY <1>3, <1>7
    <2>2. (Len(answers) + 1) + 1 + (Len(left) - 1) = NumMembers
        BY <1>7
    <2> QED
        BY <1>1, <1>5, <1>7, <1>8, <2>1, <2>2 DEF SpeakersInv
<1>13. IdleInv' /\ WorkersInv' /\ RoundsInv' /\ FedBackUnlessLimit'
    BY <1>1, <1>7, <1>8 DEF IdleInv, WorkersInv, RoundsInv, FedBackUnlessLimit
<1> QED
    BY <1>10, <1>11, <1>12, <1>13 DEF ConversationInv

LEMMA RoundEndsKeeps ==
    ASSUME ConversationInv, RoundEnds
    PROVE  ConversationInv'
<1>1. /\ at = "asking" /\ pattern = "debate" /\ asked # Lead /\ left = <<>>
      /\ UNCHANGED <<pattern, moderated>>
      /\ shown' = shown \o Append(answers, Now) /\ answers' = <<>> /\ rounds' = rounds + 1
    BY DEF RoundEnds, Answered
<1>2. PICK n : n = Now
    OBVIOUS
<1>3. n \in Nat \ {0} /\ <<>> \in Numbers /\ left \in Seq(Members)
    BY <1>1, <1>2, Asking
<1>4. rounds \in Nat /\ rounds < MaxRounds /\ shown' = From(1, n)
    BY <1>1, <1>2, Speaking
<1>5. n = rounds' * NumMembers
    <2>1. n = rounds * NumMembers + Len(answers) + 1 /\ Len(answers) \in Nat
        BY <1>1, <1>2, Speaking
    <2>2. Len(answers) + 1 + Len(left) = NumMembers
        BY <1>1, Speaking
    <2>3. Len(answers) + 1 = NumMembers
        BY <1>1, <2>1, <2>2
    <2>4. (rounds + 1) * NumMembers = rounds * NumMembers + NumMembers
        BY <1>4, MembersAre
    <2>5. rounds * NumMembers \in Nat
        BY <1>4, MembersAre
    <2> QED
        BY <1>1, <2>1, <2>3, <2>4, <2>5
<1>6. shown' \in Numbers /\ rounds' \in 0..MaxRounds
    <2>1. From(1, n) \in Numbers
        BY <1>3, FromOne
    <2> QED
        BY <1>1, <1>4, <2>1, ConversationAssumption
<1>7. ASSUME NEW who \in Members \cup {Lead}, Ask(who, shown')
      PROVE  /\ TurnInv' /\ LeadInv' /\ ToldWhatIsDue' /\ transcript' \in Seq(Turn)
             /\ Now' = n + 1 /\ asked' = who /\ at' = "asking"
    <2>1. PICK told \in Numbers : told = shown'
        BY <1>6
    <2>2. Ask(who, told)
        BY <1>7, <2>1
    <2>3. /\ Now' = n + 1 /\ asked' = who /\ at' = "asking"
          /\ transcript'[n + 1] = [who |-> who, told |-> told]
        BY <1>2, <2>2, AskFacts DEF Ask, ConversationInv
    <2>4. Due(n + 1)' = told
        <3>1. (n + 1) - 1 = n /\ transcript'[n + 1].who = who
            BY <1>3, <2>3
        <3>2. (n \div NumMembers) * NumMembers = n
            <4>1. rounds' \in Nat /\ 0 \in Nat /\ 0 < NumMembers
                BY <1>1, <1>4, MembersAre
            <4>2. (rounds' * NumMembers + 0) \div NumMembers = rounds'
                BY <4>1, RoundsOver
            <4>3. rounds' * NumMembers + 0 = n
                BY <1>3, <1>5
            <4> QED
                BY <1>5, <4>2, <4>3
        <3> QED
            BY <1>1, <1>4, <2>1, <3>1, <3>2 DEF Due
    <2>5. /\ TurnInv' /\ LeadInv' /\ ToldWhatIsDue' /\ transcript' \in Seq(Turn)
        BY <1>1, <1>2, <2>2, <2>4, AskKeepsTurns
    <2> QED
        BY <2>3, <2>5
<1>8. ASSUME at' = "done", UNCHANGED <<asked, transcript, left>>,
             verdict' \in {"consensus", "limit"}
      PROVE  ConversationInv'
    <2>1. TurnInv' /\ LeadInv' /\ ToldWhatIsDue' /\ transcript' \in Seq(Turn)
        BY <1>1, <1>8, EndKeepsTurns
    <2>2. ConversationTypeOK'
        BY <1>1, <1>3, <1>6, <1>8, <2>1 DEF ConversationInv, ConversationTypeOK, Turn
    <2>3. IdleInv' /\ WorkersInv' /\ SpeakersInv' /\ RoundsInv' /\ FedBackUnlessLimit'
        BY <1>1, <1>8 DEF IdleInv, WorkersInv, SpeakersInv, RoundsInv, FedBackUnlessLimit
    <2> QED
        BY <2>1, <2>2, <2>3 DEF ConversationInv
<1>9. CASE verdict' = "consensus" /\ moderated /\ Ask(Lead, shown') /\ UNCHANGED left
    <2>1. /\ TurnInv' /\ LeadInv' /\ ToldWhatIsDue' /\ transcript' \in Seq(Turn)
          /\ asked' = Lead /\ at' = "asking"
        BY <1>7, <1>9
    <2>2. ConversationTypeOK'
        BY <1>1, <1>3, <1>6, <1>9, <2>1 DEF ConversationInv, ConversationTypeOK, Turn
    <2>3. IdleInv' /\ WorkersInv' /\ SpeakersInv' /\ RoundsInv' /\ FedBackUnlessLimit'
        BY <1>1, <2>1 DEF IdleInv, WorkersInv, SpeakersInv, RoundsInv, FedBackUnlessLimit
    <2> QED
        BY <2>1, <2>2, <2>3 DEF ConversationInv
<1>10. CASE rounds' < MaxRounds /\ Ask(1, shown') /\ left' = Tail(AllMembers) /\ UNCHANGED verdict
    <2>1. /\ TurnInv' /\ LeadInv' /\ ToldWhatIsDue' /\ transcript' \in Seq(Turn)
          /\ Now' = n + 1 /\ asked' = 1 /\ at' = "asking" /\ 1 \in Members
        BY <1>7, <1>10, MembersAre
    <2>2. ConversationTypeOK'
        BY <1>1, <1>3, <1>6, <1>10, <2>1, RestOfRound
           DEF ConversationInv, ConversationTypeOK, Turn
    <2>3. SpeakersInv'
        <3>1. Len(answers') = 0 /\ Len(left') = NumMembers - 1 /\ answers' = From(n + 1, n)
            BY <1>1, <1>3, <1>10, RestOfRound, FromEmpty
        <3>2. n + 1 = rounds' * NumMembers + 0 + 1 /\ 0 + 1 + (NumMembers - 1) = NumMembers
            BY <1>3, <1>5, MembersAre
        <3>3. (n + 1) - 1 = n
            BY <1>3
        <3> QED
            BY <1>4, <1>5, <2>1, <3>1, <3>2, <3>3 DEF SpeakersInv
    <2>4. IdleInv' /\ WorkersInv' /\ RoundsInv' /\ FedBackUnlessLimit'
        BY <1>1, <1>10, <2>1 DEF IdleInv, WorkersInv, RoundsInv, FedBackUnlessLimit
    <2> QED
        BY <2>1, <2>2, <2>3, <2>4 DEF ConversationInv
<1> QED
    BY <1>8, <1>9, <1>10 DEF RoundEnds, EndWith

\* The moderator's answer, an exception, and a stream that is closed.
LEMMA ClosingKeeps ==
    ASSUME ConversationInv, ModeratorAnswers \/ Interrupted
    PROVE  ConversationInv'
<1>1. /\ at = "asking" /\ at' \in {"done", "interrupted"}
      /\ at' = "done" => pattern = "debate"
      /\ UNCHANGED <<pattern, moderated, asked, left, shown, answers, rounds, transcript, verdict>>
    BY DEF ModeratorAnswers, Answered, Interrupted
<1>2. TurnInv' /\ LeadInv' /\ ToldWhatIsDue'
    BY <1>1, EndKeepsTurns
<1>3. ConversationTypeOK'
    BY <1>1 DEF ConversationInv, ConversationTypeOK
<1>4. IdleInv' /\ WorkersInv' /\ SpeakersInv' /\ RoundsInv' /\ FedBackUnlessLimit'
    BY <1>1 DEF IdleInv, WorkersInv, SpeakersInv, RoundsInv, FedBackUnlessLimit
<1> QED
    BY <1>2, <1>3, <1>4 DEF ConversationInv

LEMMA UnchangedKeepsConversation ==
    ASSUME ConversationInv, UNCHANGED conversationVars
    PROVE  ConversationInv'
<1>1. UNCHANGED <<pattern, moderated, at, asked, left, shown, answers, rounds, transcript, verdict>>
    BY DEF conversationVars
<1>2. LeadInv' /\ ToldWhatIsDue'
    <2>1. CASE at = "idle"
        <3>1. transcript' = <<>>
            BY <1>1, <2>1 DEF ConversationInv, IdleInv
        <3> QED
            BY <3>1 DEF LeadInv, ToldWhatIsDue
    <2>2. CASE at # "idle"
        BY <1>1, <2>2, EndKeepsTurns
    <2> QED
        BY <2>1, <2>2
<1>3. ConversationTypeOK' /\ IdleInv' /\ TurnInv' /\ RoundsInv' /\ FedBackUnlessLimit'
    BY <1>1 DEF ConversationInv, ConversationTypeOK, IdleInv, TurnInv, RoundsInv,
                FedBackUnlessLimit
<1>4. WorkersInv' /\ SpeakersInv'
    BY <1>1 DEF ConversationInv, WorkersInv, SpeakersInv, TaskSource, Now
<1> QED
    BY <1>2, <1>3, <1>4 DEF ConversationInv

LEMMA ConversationInvariance ==
    Spec => []ConversationInv
<1>1. Init => ConversationInv
    BY InitConversation DEF Init
<1>2. ASSUME ConversationInv, [Next]_<<parallelVars, conversationVars>>
      PROVE  ConversationInv'
    <2>1. CASE UNCHANGED conversationVars
        BY <1>2, <2>1, UnchangedKeepsConversation
    <2>2. CASE ConversationNext
        BY <1>2, <2>2, ConverseKeeps, ChainNextKeeps, SupervisorAnswersKeeps,
           WorkerAnswersKeeps, SpeakKeeps, RoundEndsKeeps, ClosingKeeps
           DEF ConversationNext, Continue
    <2> QED
        BY <1>2, <2>1, <2>2 DEF Next
<1> QED
    BY <1>1, <1>2, PTL DEF Spec

\* Each variable of the patterns holds a value of its type; no agent is counted twice.
THEOREM MultiAgentTypeCorrect == Spec => []TypeOK
<1>1. ParallelInv /\ ConversationInv => TypeOK
    BY ParallelInvTypes DEF ConversationInv, TypeOK
<1> QED
    BY <1>1, ParallelInvariance, ConversationInvariance, PTL

\* Every agent of a conversation is told what is due, for any number of members and rounds and
\* however the agents answer.
THEOREM EverybodyIsToldWhatIsDue == Spec => []ToldWhatIsDue
<1>1. ConversationInv => ToldWhatIsDue
    BY DEF ConversationInv
<1> QED
    BY <1>1, ConversationInvariance, PTL

\* A worker's answer is fed back to the supervisor, unless the limit of rounds is reached.
THEOREM AnswersAreFedBack == Spec => []FedBackUnlessLimit
<1>1. ConversationInv => FedBackUnlessLimit
    BY DEF ConversationInv
<1> QED
    BY <1>1, ConversationInvariance, PTL
=============================================================================
