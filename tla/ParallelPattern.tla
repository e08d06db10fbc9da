--------------------------- MODULE ParallelPattern ---------------------------
(***************************************************************************)
(* ParallelPattern.execute_and_merge (src/agentic/multi_agent.py): the     *)
(* agents get one query, each in a task of its own; a second task per      *)
(* agent waits for it with a timeout and closes its part of the event      *)
(* queue with a sentinel.  The caller's generator forwards the events,     *)
(* counts the sentinels, and merges the results.                           *)
(*                                                                         *)
(* An agent's step is any number of events and then StepCompleteEvent, an  *)
(* exception, or a CancelledError; told to cancel, it may still go any of  *)
(* these ways.  asyncio.wait_for is external: at its timeout it cancels    *)
(* the task and waits for it.  The versions of Python differ where the     *)
(* waiter is itself cancelled: until 3.11 the wait after a timeout is cut  *)
(* short, and a cancellation is dropped when the task has just ended;      *)
(* from 3.12 on the timeout is what may come when the task has just ended. *)
(***************************************************************************)
EXTENDS Naturals, Sequences, FiniteSets

CONSTANTS
    Agents,         \* the agents, by name
    MaxEvents       \* bound: the events of one agent before its step is complete

ASSUME AgentsAssumption == IsFiniteSet(Agents) /\ MaxEvents \in Nat

Strategies == {"agent", "concat", "voting"}

VARIABLES
    merging,        \* whether results are merged: by concatenation, or by a merger agent
    pc,             \* where the generator stands: "idle", or the yield or await
    agent,          \* the task of each agent's step
    produced,       \* events of each agent before its completion
    waiter,         \* run_agent_with_timeout, for each agent
    oldWaitFor,     \* whether wait_for is that of Python 3.9 to 3.11
    cancelling,     \* the waiters that the generator cancelled
    queue,          \* event_queue
    results,        \* the keys of `results`
    finished,       \* the sentinels counted
    merged,         \* the results that were merged, in a set of their own
    heard           \* ghost: what the consumer was told of each agent's end
parallelVars == <<merging, pc, agent, produced, waiter, oldWaitFor, cancelling, queue, results,
                  finished, merged, heard>>

given == <<merging, oldWaitFor>>
tasks == <<agent, produced, waiter, results>>

AgentAtWork == {"running", "cancelling"}
AgentEnded == {"returned", "raised", "cancelled"}
WaiterEnded == {"ended", "dead"}
Unfinished == {a \in Agents : waiter[a] \notin WaiterEnded}

ParallelInit ==
    /\ merging = FALSE
    /\ pc = "idle"
    /\ agent = [a \in Agents |-> "none"]
    /\ produced = [a \in Agents |-> 0]
    /\ waiter = [a \in Agents |-> "none"]
    /\ oldWaitFor \in BOOLEAN
    /\ cancelling = {}
    /\ queue = <<>>
    /\ results = {}
    /\ finished = 0
    /\ merged = {}
    /\ heard = [a \in Agents |-> {}]

\* The generator is called, and yields its first StatusEvent.
Execute ==
    /\ pc = "idle"
    /\ \E strategy \in Strategies, merger \in BOOLEAN :
           merging' = (strategy = "concat" \/ (strategy = "agent" /\ merger))
    /\ pc' = "start"
    /\ UNCHANGED <<oldWaitFor, tasks, cancelling, queue, finished, merged, heard>>

-----------------------------------------------------------------------------
(* The agents' tasks: agent_task *)

Put(a, kinds) == queue' = queue \o [k \in DOMAIN kinds |-> [agent |-> a, kind |-> kinds[k]]]

AgentTo(a, state) == agent' = [agent EXCEPT ![a] = state]

ByAgent == UNCHANGED <<given, pc, waiter, cancelling, finished, merged, heard>>

AgentEvent(a) ==
    /\ agent[a] \in AgentAtWork
    /\ produced[a] < MaxEvents
    /\ produced' = [produced EXCEPT ![a] = @ + 1]
    /\ Put(a, <<"event">>)
    /\ UNCHANGED <<agent, results>>
    /\ ByAgent

\* StepCompleteEvent is queued and its result kept.
AgentCompletes(a) ==
    /\ agent[a] \in AgentAtWork
    /\ Put(a, <<"complete">>)
    /\ results' = results \cup {a}
    /\ AgentTo(a, "returned")
    /\ UNCHANGED produced
    /\ ByAgent

\* The step raises, before it is complete.
AgentRaises(a) ==
    /\ agent[a] \in AgentAtWork
    /\ AgentTo(a, "raised")
    /\ UNCHANGED <<queue, produced, results>>
    /\ ByAgent

\* Cancelled by wait_for, or by something in the step itself.
AgentCancelled(a) ==
    /\ agent[a] \in AgentAtWork
    /\ AgentTo(a, "cancelled")
    /\ UNCHANGED <<queue, produced, results>>
    /\ ByAgent

-----------------------------------------------------------------------------
(* run_agent_with_timeout *)

WaiterTo(a, state) == waiter' = [waiter EXCEPT ![a] = state]

ByWaiter == UNCHANGED <<given, pc, produced, cancelling, results, finished, merged, heard>>

WaiterStarts(a) ==
    /\ waiter[a] = "created" /\ a \notin cancelling
    /\ WaiterTo(a, "waiting")
    /\ AgentTo(a, "running")
    /\ UNCHANGED queue
    /\ ByWaiter

\* Mutant: a failed agent is reported, and has no sentinel.
WaiterResumesWithoutEnd(a) ==
    /\ waiter[a] = "waiting" /\ (a \notin cancelling \/ oldWaitFor)
    /\ agent[a] \in {"returned", "raised"}
    /\ Put(a, IF agent[a] = "raised" THEN <<"error">> ELSE <<"end">>)
    /\ WaiterTo(a, "ended")
    /\ UNCHANGED agent
    /\ ByWaiter

\* What the end of its agent makes of a waiter whose time is not over: a sentinel, after a
\* word of the failure if there is one.  A CancelledError passes every `except` here.
PassOn(a) ==
    \/ /\ agent[a] = "returned"
       /\ Put(a, <<"end">>)
       /\ WaiterTo(a, "ended")
    \/ /\ agent[a] = "raised"
       /\ Put(a, <<"error", "end">>)
       /\ WaiterTo(a, "ended")
    \/ /\ agent[a] = "cancelled"
       /\ WaiterTo(a, "dead")
       /\ UNCHANGED queue

\* The agent ended first.
WaiterResumes(a) ==
    /\ waiter[a] = "waiting" /\ (a \notin cancelling \/ oldWaitFor)
    /\ PassOn(a)
    /\ UNCHANGED agent
    /\ ByWaiter

\* Mutant: a sentinel when the timer fires, and one when the agent has ended.
TimeoutSignalsTwice(a) ==
    /\ waiter[a] = "waiting" /\ a \notin cancelling
    /\ agent[a] = "running"
    /\ AgentTo(a, "cancelling")
    /\ WaiterTo(a, "timeout")
    /\ Put(a, <<"end">>)
    /\ ByWaiter

\* wait_for's timer fires while the agent runs.
TimeoutFires(a) ==
    /\ waiter[a] = "waiting" /\ a \notin cancelling
    /\ agent[a] = "running"
    /\ AgentTo(a, "cancelling")
    /\ WaiterTo(a, "timeout")
    /\ UNCHANGED queue
    /\ ByWaiter

\* The agent has ended after its timeout.  If it returned all the same, its result is no
\* timeout, but for Python 3.9.
ReportTimeout(a) ==
    /\ waiter[a] = "timeout" /\ a \notin cancelling
    /\ \/ agent[a] = "returned" /\ Put(a, <<"end">>)
       \/ agent[a] = "returned" /\ oldWaitFor /\ Put(a, <<"error", "end">>)
       \/ agent[a] \in {"raised", "cancelled"} /\ Put(a, <<"error", "end">>)
    /\ WaiterTo(a, "ended")
    /\ UNCHANGED agent
    /\ ByWaiter

\* The timer fires when the agent has just ended: a result is reported as a timeout as well; an
\* exception is raised once more by the second wait_for, and no sentinel is queued.
LateTimeout(a) ==
    /\ ~oldWaitFor
    /\ waiter[a] = "waiting" /\ a \notin cancelling
    /\ \/ /\ agent[a] \in {"returned", "cancelled"}
          /\ Put(a, <<"error", "end">>)
          /\ WaiterTo(a, "ended")
       \/ agent[a] = "raised" /\ WaiterTo(a, "dead") /\ UNCHANGED queue
    /\ UNCHANGED agent
    /\ ByWaiter

\* A waiter that the generator cancels, when it ...
WaiterCancelled(a) ==
    /\ a \in Unfinished \cap cancelling
    /\ \/ \* ... has not begun;
          waiter[a] = "created" /\ WaiterTo(a, "dead") /\ UNCHANGED <<agent, queue>>
       \/ \* ... waits, or has timed out, and passes it on to its agent (which was told already
          \* if the time is over) and waits for its end;
          /\ \/ waiter[a] = "waiting" /\ agent[a] = "running"
             \/ waiter[a] = "timeout" /\ agent[a] = "cancelling" /\ ~oldWaitFor
          /\ AgentTo(a, "cancelling")
          /\ WaiterTo(a, "stopping")
          /\ UNCHANGED queue
       \/ \* ... was waiting or had timed out when the agent ended, and was not resumed yet;
          /\ waiter[a] \in {"waiting", "timeout"} /\ agent[a] \in AgentEnded /\ ~oldWaitFor
          /\ WaiterTo(a, "dead")
          /\ UNCHANGED <<agent, queue>>
       \/ \* ... has timed out and awaits the agent's end, which until 3.11 stops with it;
          /\ waiter[a] = "timeout" /\ oldWaitFor
          /\ WaiterTo(a, "dead")
          /\ UNCHANGED <<agent, queue>>
       \/ \* ... or is in the second wait_for, whose end is the same with or without it.
          /\ waiter[a] = "timeout" /\ oldWaitFor /\ agent[a] \in {"returned", "cancelled"}
          /\ Put(a, <<"error", "end">>)
          /\ WaiterTo(a, "ended")
          /\ UNCHANGED agent
    /\ ByWaiter

\* The agent of a cancelled waiter has ended.
WaiterStops(a) ==
    /\ waiter[a] = "stopping" /\ agent[a] \in AgentEnded
    /\ IF oldWaitFor THEN WaiterTo(a, "dead") /\ UNCHANGED queue ELSE PassOn(a)
    /\ UNCHANGED agent
    /\ ByWaiter

TaskStep(a) ==
    \/ AgentEvent(a) \/ AgentCompletes(a) \/ AgentCancelled(a) \/ AgentRaises(a)
    \/ WaiterStarts(a) \/ WaiterResumes(a) \/ TimeoutFires(a) \/ ReportTimeout(a)
    \/ LateTimeout(a) \/ WaiterCancelled(a) \/ WaiterStops(a)

-----------------------------------------------------------------------------
(* The generator *)

\* Resumed after its StatusEvent, it creates the tasks.
StartTasks ==
    /\ pc = "start"
    /\ waiter' = [a \in Agents |-> "created"]
    /\ pc' = "collect"
    /\ UNCHANGED <<given, agent, produced, cancelling, queue, results, finished, merged, heard>>

\* Mutant: an agent's completion counts as its end.
CollectCountsCompletions ==
    /\ pc = "collect"
    /\ finished < Cardinality(Agents)
    /\ queue # <<>>
    /\ LET e == Head(queue) IN
       /\ finished' = finished + (IF e.kind \in {"complete", "end"} THEN 1 ELSE 0)
       /\ heard' = [heard EXCEPT ![e.agent] = @ \cup ({e.kind} \cap {"complete", "error"})]
       /\ pc' = IF e.kind = "end" THEN "collect" ELSE "forward"
    /\ queue' = Tail(queue)
    /\ UNCHANGED <<given, tasks, cancelling, merged>>

\* The head of the queue is counted, or yielded.
Collect ==
    /\ pc = "collect"
    /\ finished < Cardinality(Agents)
    /\ queue # <<>>
    /\ LET e == Head(queue) IN
       IF e.kind = "end"
       THEN finished' = finished + 1 /\ UNCHANGED <<pc, heard>>
       ELSE /\ pc' = "forward"
            /\ heard' = [heard EXCEPT ![e.agent] = @ \cup ({e.kind} \cap {"complete", "error"})]
            /\ UNCHANGED finished
    /\ queue' = Tail(queue)
    /\ UNCHANGED <<given, tasks, cancelling, merged>>

Forwarded ==
    /\ pc = "forward"
    /\ pc' = "collect"
    /\ UNCHANGED <<given, tasks, cancelling, queue, finished, merged, heard>>

\* All sentinels are counted and gather() has joined the waiters: the results are concatenated,
\* given to the merger, or (voting, or no merger) dropped.
Merge ==
    /\ pc = "collect"
    /\ finished = Cardinality(Agents)
    /\ Unfinished = {}
    /\ merged' = IF merging THEN {results} ELSE {}
    /\ pc' = "done"
    /\ UNCHANGED <<given, tasks, cancelling, queue, finished, heard>>

\* The consumer closes the stream at a yield, or is cancelled at the await.
Stop ==
    /\ pc \in {"start", "collect", "forward"}
    /\ pc' = IF pc = "start" THEN "closed" ELSE "cleanup"
    /\ UNCHANGED <<given, tasks, cancelling, queue, finished, merged, heard>>

\* Mutant: the waiters are told to cancel, and not awaited.
CleanUpNoAwait ==
    /\ pc = "cleanup"
    /\ cancelling' = Unfinished
    /\ pc' = "closed"
    /\ UNCHANGED <<given, tasks, queue, finished, merged, heard>>

\* The `finally` block: the waiters are cancelled and awaited, one after the other.
CleanUp ==
    /\ pc = "cleanup"
    /\ Unfinished \cap cancelling = {}
    /\ IF Unfinished = {}
       THEN pc' = "closed" /\ UNCHANGED cancelling
       ELSE (\E a \in Unfinished : cancelling' = cancelling \cup {a}) /\ UNCHANGED pc
    /\ UNCHANGED <<given, tasks, queue, finished, merged, heard>>

Proceed == StartTasks \/ Collect \/ Forwarded \/ Merge \/ CleanUp

ParallelNext == Execute \/ Proceed \/ Stop \/ \E a \in Agents : TaskStep(a)

\* Every task that can step does; a timer that can fire may never fire.
ParallelFairness ==
    /\ WF_parallelVars(Proceed)
    /\ \A a \in Agents : WF_parallelVars(TaskStep(a))

-----------------------------------------------------------------------------
(* Properties *)

AgentStates == {"none"} \cup AgentAtWork \cup AgentEnded

ParallelTypeOK ==
    /\ merging \in BOOLEAN
    /\ pc \in {"idle", "start", "collect", "forward", "cleanup", "done", "closed"}
    /\ agent \in [Agents -> AgentStates]
    /\ produced \in [Agents -> 0..MaxEvents]
    /\ waiter \in [Agents -> {"none", "created", "waiting", "timeout", "stopping"} \cup WaiterEnded]
    /\ oldWaitFor \in BOOLEAN
    /\ cancelling \subseteq Agents
    /\ queue \in Seq([agent : Agents, kind : {"event", "complete", "error", "end"}])
    /\ results \subseteq Agents
    /\ finished \in 0..Cardinality(Agents \ Unfinished)
    /\ merged \in SUBSET SUBSET Agents
    /\ heard \in [Agents -> SUBSET {"complete", "error"}]

\* When the agents are done the consumer was told of the end of each: its completion, its
\* timeout or its failure; and what is merged, by concatenation or by a merger agent, are the
\* results of those whose completion it was told of, and of no other.  (An agent's last events
\* share the queue with its sentinel.)  With "voting", and with "agent" and no merger, nothing
\* is merged: the results are dropped.
MergesWhatWasHeard ==
    pc = "done" =>
        /\ queue = <<>> /\ \A a \in Agents : heard[a] # {}
        /\ merged = IF merging THEN {{a \in Agents : "complete" \in heard[a]}} ELSE {}

\* Once the generator has ended, merged or closed, no agent runs that was not told to stop, and
\* none runs at all, unless the consumer left and wait_for is that of Python 3.9 to 3.11: then an
\* agent that is slow to end after its timeout goes on alone.  ("Ensures tasks are fully
\* cancelled and awaited to prevent resource leaks.")
NoAgentOutlivesThePattern ==
    /\ pc \in {"done", "closed"} => \A a \in Agents : agent[a] # "running"
    /\ pc = "done" \/ (pc = "closed" /\ ~oldWaitFor) =>
            \A a \in Agents : agent[a] \in AgentEnded \cup {"none"}

\* An execution ends, unless a waiter died without its sentinel.
ParallelEnds ==
    (pc = "start") ~> (pc \in {"done", "closed"} \/ \E a \in Agents : waiter[a] = "dead")

=============================================================================
