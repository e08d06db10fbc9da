# A verification project for agentic_framework

TLA+ models of the parts of `src/agentic` where order, interruption and shared state decide
whether the program is right, TLC runs that check them on small instances, and theorems that
TLAPS checks for every value of the constants. `PROJECT.json` lists components, runs, mutants,
the source lines of each definition, findings, hazards and theorems.

## 1. The system

The framework runs LLM agents inside one asyncio event loop. Synchronous tools and callbacks run
in worker threads. Code is in `src/agentic/`.

| Component | State | Operations | Interacts with | What is hard | What makes it correct |
|---|---|---|---|---|---|
| `GraphRunner` (graph.py) | nodes, dependencies, `_indegree`, `_status`; per run `ready_queue`, `events_queue`, `active_tasks`, `graph_failed` | `add_node`, `run_stream`, one task per node | starts agent runners, logic runners or functions; reads and writes the context; yields events to a consumer | tasks, consumer and scheduler interleave at every yield and await; failures travel through the queue; three strategies; cancellation, early close, reruns | a node starts once and after all it depends on; failures stop exactly what the strategy says; every run ends with every node accounted for |
| `RateLimiter` (resilience.py) | `_tokens`, `_last_update`, waiters | `acquire`, `try_acquire` | shared by coroutines; wraps streams | lazy refill, waiters that race with new callers, time | never more than the burst and the rate allow |
| retry (resilience.py) | attempt counter | `retry_stream`, `resilient_stream` | wraps LLM and tool streams | a stream that fails half way | bounded attempts, the last error is raised |
| `StreamingPatternExtractor` (patterns.py) | buffer, search positions, completed and active patterns | `feed_chunk`, `finalize` | called by the agent step for every LLM chunk | tags split between chunks, scans that resume | finds what the batch extractor finds, each segment once |
| `PatternRegistry` (patterns.py) | cache over the storage | register, get | storage | a cache beside a storage | reads what was registered last |
| `ContextManager` (context.py) | `context:{key}:latest`, `context:{key}:{version}` | `set`, `update`, `delete`, `get`, `clear`, history | every other component; worker threads | each operation is several storage calls, any of which may raise | history is kept, a read sees a value that was current |
| `IterationManager` (context.py) | the global iteration | `get`, `next` | agent steps | read-modify-write | each step gets its own number |
| storage (storage.py) | key-value data, key cache | get, put, delete, iterate, open | context, registry | collision avoidance when opening, iteration during writes | a key reads as last written |
| `AgentRunner` (agent.py) | partial outputs, detected tools, tool tasks | `step_stream`, `step` | provider, extractor, tools, context, limiter | tools start while the model streams, results come in any order, errors midway | each tool call runs once and its result is recorded |
| tools (tools.py) | registry, executors | `run`, `run_stream` | agent step | timeout against a late result | one result per call |
| `LogicRunner` (logic.py) | iteration, conditions, health | `run_stream` | agent runner | conditions evaluated at three points | stops when and only when its conditions or limits say |
| multi-agent patterns (multi_agent.py) | queues, tasks, rounds | `execute` | agent runners | parallel agents, timeouts, sentinels | every agent is heard or timed out, then one merge |
| validation, events, core, logging, visualization | none | pure functions and data classes | all | nothing for a model checker | unit tests |

All hazards found while reading are in `PROJECT.json` under `hazards`, each at its line.

## 2. The modules

| Module | Models |
|---|---|
| `Dag` | parents, ancestors and cycles of a dependency graph (`_has_cycle`, `_has_failed_ancestor`). Ancestors is the least closed set, not a recursion, so that theorems can use it |
| `GraphRunner` | the scheduler |
| `DagExecution` | abstract: what an execution of a graph promises |
| `GraphProofs`, `GraphSafetyProofs` | theorems about `GraphRunner`: the stages of a node; then statuses, failures and the refinement |
| `RateLimiter` | the token bucket |
| `StreamingExtractor`, `StreamingExtractorProofs` | `StreamingPatternExtractor`, with `PatternExtractor` as the reference, and theorems about it |
| `ContextStore`, `ContextStoreProofs` | `ContextManager` over a storage, and theorems about it |
| `VersionedMap` | abstract: what a context store promises |
| `AgentStep`, `AgentStepProofs` | `AgentRunner.step_stream` and the tool calls of one step, and theorems about them |
| `ToolCalls` | abstract: the life of a tool call |
| `ParallelPattern`, `Conversations` | the multi-agent patterns: agents side by side, and one after another |
| `MultiAgent`, `MultiAgentProofs` | both together, and theorems about both |
| `LogicLoop`, `LogicLoopProofs` | `LogicRunner.run_stream`, and theorems about it |
| `ResilientStream`, `ResilientStreamProofs` | `resilient_stream` and `retry_stream`, on top of `RateLimiter`, and theorems about all three |
| `MCGraphRunner`, `MCStreamingExtractor`, `MCContextStore` | symmetry sets and constants for TLC |

Operators marked "Mutant" are plausible bugs: a run whose definition is replaced by its mutant must
fail. They are not part of any specification.

### GraphRunner

`run_stream` is a generator: it runs without interruption from one yield or await that may suspend
to the next. `pc` names these points:

| `pc` | where `run_stream` is | what happens meanwhile |
|---|---|---|
| `idle` | not called, or returned | `add_node` (before the first run) |
| `start` | at the yield of GraphStartEvent | no task exists |
| `schedule` | at the head of the loop, not suspended | nothing else runs |
| `launch` | at the yield of GraphNodeStartEvent; the task is created after it | tasks run |
| `skip` | at the yield of a skip; the children are released after it | tasks run |
| `wait` | in `wait_for(events_queue.get(), 0.1)` | tasks run |
| `settle` | at the yield of GraphNodeCompleteEvent; the node leaves `active_tasks` after it | tasks run |
| `forward` | at the yield of any other event | tasks run |
| `complete` | at the yield of GraphCompleteEvent; the summary is persisted after it | nothing runs |

A node task (`_execute_node`) emits stream events, then ends in success (its output, if it has one,
is written, then its end is signalled through `events_queue`), in error (`soft_fail` counts as
completed), or in `CancelledError`, which signals nothing. Not every success has an output: a runner
that yields no StepCompleteEvent leaves `last_result` at None, and the events of a callable that returns an
async iterator are no output; `result` is what the node's executable returned, and `written` has the
nodes whose `output_key` was written. The consumer may close the stream at any suspension; what the
generator's `finally` does then (cancel the tasks, gather them) is one step, `CloseStream`, since no
property looks in between.

The graph itself is built by `AddNode` in the behaviours, so a run covers every graph over its nodes,
every choice of `run_on_failure` and `soft_fail`, and every strategy. The order of `ready_queue`
among nodes released together is any order: the code's is that of a dictionary.

`settled` and `reported` are ghosts: the nodes whose completion was handled, and those whose end the
consumer was told of. No guard reads them.

`DagExecution` has no queue, no task and no loop: `Start`, `Finish`, `Skip`, guarded by the states
of other nodes alone. Its variables are variables of `GraphRunner`, so the refinement mapping is the
identity and the queue, the tasks and the loop are what it hides. It is stated for one run.

### RateLimiter

A coroutine runs from the entry of the condition's lock to its next `wait` without interruption; that
stretch is an action. `acquire` tests the bucket before it credits the elapsed time (`TakeAtOnce`),
`try_acquire` after. `granted` and `window` are ghosts: what was granted since the start, and
what an observer counts from a moment of its choice.

### StreamingExtractor

Texts and tags are sequences of symbols. `Batch` is `PatternExtractor.extract`, `FeedChunk` the whole
of `feed_chunk`. `finditer` searches, and searches again at the end of what it found: `FirstMatch` is
one search, `Resumes` the places where it searches, as the least set that holds the first and with
each the next (no recursion, so that theorems can use it).

`TagsApart` says that neither tag of a pattern begins inside the other. It is true of `<tool>` and
`</tool>`. It is false of the fences of the json_tools and backtick_tools pattern sets, whose start
tags begin with the end tag; then a start tag looks like an end tag to `feed_chunk`. Agreement with
the batch extractor, and that completed patterns do not overlap, are claimed for tags that are apart.

### ContextStore

Each action is one storage call of `set`, `update`, `delete`, `clear` or `get` with the code up to
the next. `Abort` is a storage call that raises: the operation ends there and the data stays. Readers
run beside the writer, as tools and callbacks in worker threads do. The refinement mapping to
`VersionedMap` takes as the history of a key its records 1 to `latest`: a record beyond the pointer
is not part of it, so that storing it is a stuttering step and moving the pointer is the write.
After a restart `RocksDBStorage` opens a directory of its own when the configured one exists
(storage.py, `_resolve_context_path`), so the states a crash leaves are not read again by the program.

### AgentStep

`step_stream` is a generator beside its tool tasks. `pc` is where it stands:

| `pc` | where `step_stream` is |
|---|---|
| `stream` | awaiting the next chunk of the provider |
| `drain`, `flush` | at a yield of an event of `tool_event_queue`, in the stream or after `gather` |
| `pattern` | at the yield of PatternEndEvent; the call is added when the consumer resumes |
| `verify` | awaiting the `on_tool_detected` callback |
| `decided` | at the yield of ToolDecisionEvent; an accepted call gets its task after it |
| `complete`, `gather` | at the yield of LLMCompleteEvent; awaiting the tool tasks |
| `execute` | in `_execute_tools_stream` (no concurrent execution) |
| `finish` | after the last tool, running up to StepCompleteEvent |
| `done`, `failed`, `closed` | after StepCompleteEvent; after an error; after the consumer left |

A call is a number, its order in the output; `ids` holds the call ids, which the provider's model
may repeat. `task` is the state of its execution, in a task of its own or by `execute`. What an
execution leaves is `Leave`: its entries of `tool_results`, `tool_state:{id}` and
`tool:result:{iteration}:{id}`. `Writing` says what can come of writing the two records, one after the
other. A storage call may raise, `MaxFaults` times in a behaviour: before the first record, between
the two, in the `except` branch itself. And `_store_tool_result` raises with a storage that works when
`json.dumps` cannot hold the output of the tool (`storable`); by then the success has been announced
and listed, so that the `except` branch announces and lists a second, failed result of the same call.
Such an output also ends the step in an exception when it is to be written under `set_tools`
(`OutputNotStored`). `heard` is a ghost.

The provider and the extractor may raise at any chunk; the error path cancels tool tasks and does
not await them. The consumer may leave at any yield; then tasks go on by themselves (only `gather`
cancels them). So a tool accepted before a close may start after it, and an agent closed by the
timeout of `ParallelPattern` leaves its tools running. `NothingStartsAfterFailure` is about the error
path alone.

`ReportMatchesDecisions` and `ContextAgreesOnOutcome` presuppose distinct call ids, as core.py:57
says ("Unique identifier"). The model may give one id to two calls, since patterns.py takes `call_id`
from the output when it is there; then one result marks the first decision with its id, rejected or
not. An accepted call has one result, or two if JSON cannot hold its output, and then the step's status
is "error".

`ToolCalls` knows of a call only that it is detected, accepted or rejected, run at most once, and
ends in success, failure or loss (a task cancelled, or dead of a storage error, with no result). The
mapping reads the state of a call off `task`, `ids`, `decisions` and `results`.

### ParallelPattern, Conversations, MultiAgent

`ParallelPattern` has two tasks per agent, as the code has: `agent_task`, and
`run_agent_with_timeout` that waits for it. `asyncio.wait_for` is external. `TimeoutFires` is its
usual timeout, which cancels the agent and awaits its end; `LateTimeout` is the one that finds the
agent just ended, which Python 3.12 and later may report. Then a result is both kept and
reported as timed out, and an exception leaves no sentinel. `oldWaitFor` chooses between the two
generations of it (the package supports Python 3.9 and later): until 3.11, a `wait_for` that is
cancelled while it awaits the end of an agent that timed out stops awaiting it, so that a consumer who
leaves can leave an agent behind that is slow to end. From 3.12 on it is awaited (`stopping`).
`NoAgentOutlivesThePattern` therefore asks, of a pattern closed on an old Python, only that each agent
was told to stop. An agent told to stop may be cancelled, return a result all the same, or raise
something else. `heard` is what the consumer saw of each agent's end; `MergesWhatWasHeard` compares it
with what is merged.

`Conversations` are the patterns that ask one agent at a time: chain, supervisor, debate. The k-th
answer is the number k and a prompt is the sequence of answers shown in it, so that `ToldWhatIsDue`
can compare what each turn was told with what the record of turns says it should be. Whether a debate
has reached consensus, and whom a supervisor names, is any choice. A supervisor whose answer names
only unknown workers ends the conversation without a closing status.

A caller uses one of the patterns; `MultiAgent` gives TLC one specification for both modules.

### LogicLoop

The loop hands on each event of a step and decides at it. One condition is watched, of any match
type, target and evaluation point; it may be a stop or a loop-until condition, which differ in the
closing status only. A text has pieces at some places, each marked if it holds what the
condition looks for; the output of a part is the text at that part's places (`Places`), so that no
filter over sequences has to be reasoned about; `partial` is `partial_raw_output` with its bound, `said` the step's output.
`Handle` is the evaluation at an event, `StopReason` the order of reasons at StepCompleteEvent.

`MarkWasShown` says when a condition must have been met, per evaluation point, from what the step said
and did; `GoesOnOnlyIfDue` says that the loop never goes on after that. What this leaves out is what the
code does not evaluate:

- a `tool_output` condition at `any_event` sees each part of an output that a tool puts out on its way
  (`ToolOutput`; `printed` remembers a match) and the whole at its end; at `tool_finished` the whole
  only.
- an output that JSON cannot hold makes `output_to_string` raise, and `run_stream` with it
  (`OutputRaises`).
- `auto` stands for step_complete when a condition is a regex or `equals`; the comment at logic.py:30
  has regex at llm_complete.
- a `contains` condition on `tool_output` under `auto` is evaluated at llm_complete, where an event
  has no tool output, so it is never met.
- at `tool_detected` and `tool_finished` the raw output is there only if some condition makes the
  loop accumulate it.
- a `response` condition at a chunk or at llm_complete looks at the raw output, reasoning included.
- a loop that stops inside a step closes the step: its result is not in what `run` returns, and
  tools of that step are left to themselves.
- a `version_count` check whose threshold is not below `max_versions_limit` never fires, unless both
  are zero (`get_history` returns at least one version); `growth_rate` checks nothing; `warn` adds an
  event.

### ResilientStream

A stream is a client of `RateLimiter` that takes one token and then runs its operation up to
`max_attempts` times. Every step of a stream is a step of the limiter, or leaves it alone; the other
clients go on as before. Retries take no token, so the runs of an operation may come faster than the
limiter's rate. Items of a failed run are handed on again by the next. Not in the model: how long a
backoff lasts (with jitter it may exceed `max_delay`).

## 3. The runs

| Run | Instance | Shows |
|---|---|---|
| `graph_safety` | 3 nodes, 2 at a time, all strategies, one stream event per node, one run, soft failures, closing and cancellation on | all safety properties and the refinement hold |
| `graph_liveness` | 3 nodes, 2 at a time, one run, fairness | a run reaches GraphCompleteEvent |
| `graph_fail_fast` | 3 nodes | violated: a node starts after a failure under fail_fast |
| `graph_cancelled` | 1 node, cancellation on, fairness | violated: the run never completes |
| `agent_step` | 2 calls, 2 chunks, 2 ids, two storage errors, outputs that JSON cannot hold, all four configurations, fairness | results, decisions, events and records agree; the life of a call; every step ends |
| `logic_loop` | 2 steps of 2 chunks, tools with output on their way, every condition, a buffer of 2 pieces | the loop stops for this step's output only, and goes on only when nothing was shown |
| `multi_agent` | 2 parallel agents with one event each, `wait_for` of both generations; conversations of 2 members, 3 rounds, 2 delegations per answer | what is merged was heard, nothing outlives the pattern, everyone is told what is due, all end |
| `limiter_bounds` | one stream of up to 3 attempts and one other coroutine, requests of 1 to 3 tokens, burst 2, rate 1, time to 5 | total and window bounds hold; the stream stays within its attempts |
| `limiter_burst` | 2 coroutines, as above without streams | violated: more than burst + rate x time in a window |
| `extractor_chunks` | texts of 3 symbols to length 9, chunks to 3; a pattern with tags apart, one with fences | completed patterns are well formed; with tags apart and chunks no longer than the end tag they are those of the batch extractor |
| `extractor_lost` | fences, texts to length 6, one symbol at a time | violated: a pattern is lost |
| `context_store` | 2 keys, 2 values, 3 versions, one writer, one reader | the history is kept whatever is interrupted; reads see current values |

Why these bounds. Three nodes give every shape that matters to the scheduler: chain, fork, join,
and a node unrelated to a failure; two slots for three nodes let the limit bind. One stream event per
node is enough to delay an end-of-task event behind another. In the limiter a request larger than the
burst and a time longer than the refill time both occur. In the extractor nine symbols hold two
patterns, or a pattern after a stray start tag. In the store three versions tell "the version before
the last" from the last. Two calls are what it takes for ends in
any order, a decision beside a running tool, and two calls with one id; two chunks put a queued event
and a failure between two calls; of two storage errors the second may hit the handler of the first.
Two parallel agents let one end while the other times out, and two waiters to clean up one after the other. Three
rounds have a first, a middle and a last. In the loop two steps show what one leaves to the next, and
`MaxIterations` 2 makes the limit bind. The buffer is as large as the output of a step, so that its
bound does not bind in the run: a smaller one would forget sooner what an earlier step left, which is
what `StopsForThisStep` must not see; the theorem is about buffers of every size. The theorems of section 4 remove the bounds where they exist.

The other runs set `CHECK_DEADLOCK FALSE`: a runner that is not called again, a clock at its
bound, a buffer at `MaxBuffer`, and a step, a conversation or a loop that is over, stop.
`context_store` checks deadlock.

Fairness of the graph (`FairSpec`). Weak fairness of `RunStream` while a run is in progress: the event
loop runs what is runnable and the consumer keeps asking for events. Strong fairness of the end of
each node's task: a task can step only while `run_stream` is suspended, which it is again and again.
Nothing in `GraphRunner` bounds the time of a node, so that it ends is an assumption on the nodes.
Calling `run_stream` has no fairness.

Fairness elsewhere. `AgentStep`: weak fairness of `step_stream` (the consumer goes on asking, the
provider's stream and callbacks end) and of each task (tools end; a tool that never ends is
`timeout_seconds`' business, which only synchronous tools have). Closing and failing have none.
`ParallelPattern`: weak fairness of the generator and of each agent's tasks; no timer has to fire.
`Conversations`: a step that is asked for ends. `LogicLoop`: the loop and the step under way go on.

### Findings

Each is a run that violates what a document or docstring says; `PROJECT.json` quotes it.

1. fail_fast is not immediate: `graph_failed` is set when the failed node's event is dequeued.
2. A node task ending in `CancelledError` makes `run_stream` wait for ever.
3. The rate limiter allows twice the burst in a window; the bound that holds is `WindowBound`.
4. The streaming extractor loses a tool call between fences unless one chunk brings all that follows
   the "```" of its start tag: "```json" begins with "```", so that the start tag itself causes a scan,
   after which the next one begins beyond it. With tags that are apart it loses a pattern when a chunk
   longer than the end tag holds the end of one pattern and the start of the next.

Further behaviours seen on the way have no run of their own:

- A `GraphRunner` that is run a second time starts every node at once, since `_indegree` and `_status`
  stay as the first run left them: order among nodes is proved for the first run.
- An agent of a `ParallelPattern` whose step ends in its own `CancelledError` leaves the generator
  waiting for ever, as a graph node does; `ParallelEnds` excepts it.
- `ParallelPattern` merges nothing with `merge_strategy` "voting", nor with "agent" and no merger
  (multi_agent.py:342-357): the results are dropped and no StepCompleteEvent comes. README.md:230 of
  the repository promises "result merging (concat, agent-based, voting)" and
  documentation/multi-agent.html:195 "Simple voting on common elements". `merging` tells the two cases apart;
  `MergesWhatWasHeard` says of the second that nothing is merged, not that nothing is lost.
- "Ensures tasks are fully cancelled and awaited to prevent resource leaks." (multi_agent.py:281) does
  not hold on Python 3.9 to 3.11 when the consumer leaves while an agent that has timed out is slow to
  end.
- A tool whose output JSON cannot hold has two ToolEndEvents and two results in one step, a success
  and a failure.

## 4. The theorems

`GraphProofs`, for any finite set of nodes, any positive `max_concurrency`, any strategies, and any
number of runs, events, closes and cancellations (assumptions: the `ASSUME`s of `GraphRunner`):

- `TypeCorrect`, `ConcurrencyBounded`. `ConcurrencyBound` is not inductive: that no more than
  `max_concurrency` tasks exist, with all of them in `active_tasks`, needs that the node being settled
  has no task any more, hence that an end is signalled once, hence that a node is launched once, hence
  that it is released once. `StagesInv` says so: a node is in one place (ready queue, held at a yield,
  active, signalled), and the counter of a node past the ready queue is used up (at most zero), so
  that `_handle_node_completion`, which releases at exactly zero, never releases it again.
- `CompletionsHandledOnce`. `CountersInv` adds that settled nodes are in none of these places.
- `StartsAfterItsAncestors`. In the first run `CountersInv` says that a counter is the number of
  dependencies not settled. A node with counter zero has all its dependencies settled, and these have
  theirs: the settled nodes are closed under dependencies, hence contain all ancestors.

There is one lemma per action for each layer, and lemmas on the two queues. TLC also checked both
invariants, over two runs of graphs of three nodes.

`ResilientStreamProofs`. On the limiter alone, for any clients, amounts, burst and rate:
`TypeCorrect`, `TotalBounded`, `WindowBounded`, from `CreditInvariant` (what is granted and what is
left was credited) and `WindowInvariant` (up to the first update in a window only the bucket's content can be granted; after
it every token is credited once).

For any streams among any clients, and any `max_attempts`:

- `RetriesWithinBudget`. `RetriedWithinBudget` speaks of the runs of a stream; that it holds after
  each step needs to know what each `stage` says of the runs (`StreamInv`, by `Account`): before its
  first attempt a stream has none, while it runs only the last is open, while it backs off the last failed and
  attempts are left.
- `StreamsUseTheLimiter`. `StreamSpec` implements `RateLimiter`'s `Spec`: a step of a stream is one of
  the limiter's actions or leaves its variables. So `StreamWindowBounded`, and whatever is proved of
  the limiter, holds with streams.

`GraphSafetyProofs`, on top of `SchedulerInv`, for the same values of the constants:

- `InputsAreAvailable`, from `WrittenInv`: the output of a node that has one is written before the
  node is signalled, and recorded, as COMPLETED.
- `NothingRunsBelowFailures`, `SkipsAreJustified`, `CompletionAccounts`, `SavedStatesAreConsistent`,
  about the first run (later ones do not order nodes at all). None is inductive. `StatusInv` ties a
  status to the stage of its node, `StartedInv` says that what started has its dependencies settled,
  `FailureInv` that a failure is never forgotten and a skip answers for one, `NoNodeLost` that a node
  whose dependencies are settled is in some stage: hence, when nothing is left in the queues, every
  node is settled; by `WellFoundedInv` (`add_node` accepts known dependencies only) a set of unsettled
  nodes would have a first one.
- `FirstRunImplements`, `SchedulerImplements`: while `run <= 1`, always so if `MaxRuns` is 1, each step
  implements a step of `DagExecution`. The proof attempt found a flaw of the abstract specification:
  `Blocking` was a `CASE` whose arms overlapped, so that its value was TLC's choice of the first; it
  is now the set of failed nodes that the strategy makes a node answer for.

`AgentStepProofs`, for any ids and any number of calls, chunks and storage errors. `StepInv` keeps a ledger of each
call: the state of its task fixes how many of its events were announced and how many results are
listed (`LedgerInv`; two of each if JSON cannot hold its output), in which order the events come (`EventOrder`) and what the two records in the
context say (`RecordInv`); `ModeInv`, `DecidedInv`, `LaunchedInv` and `JoinedInv` say which tasks there
may be at each yield or await. From it follow `StepTypeCorrect`, `EventsComeFirst`,
`ReportIsAccurate`, `RecordsAgree`, the action property `FailureIsFinal`, and `StepImplements`, the
refinement to `ToolCalls`. They are stated for `Spec`, which `FairSpec` implies.

`MultiAgentProofs`, for any agents, members, rounds and turns:

- `MergesOnlyWhatWasHeard`, `AgentsAreAwaited` (under the `wait_for` of either generation), from
  `ParallelInv`: an agent's sentinel is the last
  thing it puts in the queue, so that the count of sentinels is the number of agents whose events have
  all left it, and a result that is kept is known to the consumer or on its way to it.
- `EverybodyIsToldWhatIsDue`, `AnswersAreFedBack`, from `ConversationInv`: what was answered in the
  round under way is a stretch of the transcript that begins after its leader's last turn.
- `MultiAgentTypeCorrect`.

`ContextStoreProofs`, for any keys, values, readers and versions, and at most one writer
(`OneWriter`): the operations of a `ContextManager` in one event loop do not interleave, and two
threads that write one key do lose versions. `StoreInv` says that a write in progress is at the
latest version or the next one (`WriteInv`), that a record which is still there during a clear is
still to be deleted (`ClearInv`; here the order of the deletions matters), and that a reader which saw
no clear holds a version that is not beyond the latest one (`ReadInv`). From it follow
`StoreTypeCorrect`, `GetsAreCurrent`, `ClearsLeaveNothing`, and `StoreImplements`, the refinement to
`VersionedMap`.

`LogicLoopProofs`, for any limits, thresholds and lengths of output. `StopsForThisStep` needs that the
buffer holds nothing the step under way has not said (`BufferInv`); `GoesOnOnlyIfDue` looks back at
the whole step, so that `SeenInv` keeps, per evaluation point, that what the condition was shown so
far did not satisfy it. From these follow `LoopTypeCorrect`, `LoopStopsForThisStep` and the action
property `LoopGoesOnOnlyIfDue`.

`StreamingExtractorProofs`, for any pattern set with tags that are not empty, any text and any
division of it into chunks. The symbols matter in one place: tags that are apart do not overlap
(`Apart`), in whatever text. From there on a text is where its tags begin, and two facts carry the
rest. `MatchesAreDirect`: what `finditer` yields from a position on are the pairs of tags whose start
tag is inside no earlier one, which says nothing of where it searches. `Resumable`: with chunks no
longer than the end tag the next scan begins at the beginning, or within or right after an end tag, so
that every start tag it steps over has an end tag. Then what a scan finds from there is what one from
the beginning finds, and a longer text adds pairs at its end only (`DirectKept`). `CompleteInv` says
of every text that a completed pattern is a pair that ends at most an end tag beyond the next scan's
begin: nothing is found inside it. From `ExtractorInv`, which is all of this, follow
`ExtractorTypeCorrect`, `CompletedAreWellFormed` and `SmallChunksSuffice`. What the properties suppose
(tags apart, short chunks) stands in the properties and is needed: finding 4 is what happens without.

TLC checked each of these invariants before it was proved.

Only model-checked: liveness, which the prover does not do: `RunCompletes`, `StepEnds`,
`ParallelEnds`, `ConversationEnds`, `LoopEnds`.

## 5. What is not modelled

- In modelled components: `add_node` during a run; `max_concurrency` of zero or less (the loop would
  spin); a clock that steps back; fairness among waiting coroutines (the limiter gives none); greedy
  patterns, patterns without an end tag and the text of content events; `list_keys` and
  `get_history`, which only read; several threads that write the same key (a version can be lost).
- In `AgentStep`: prompts, incremental partial keys, patterns that are no tool calls, tool outputs
  between start and end; the answer of a callback that comes after its timeout (nobody reads it).
- In `LogicLoop`: loops without `max_iterations` (they need not end), several conditions at once
  (each is tested by itself), key patterns and size checks; a match that spans pieces.
- In the multi-agent modules: the merger's own step, and the text of templates.
- Code nobody calls: `_step_impl`, `_execute_tools`, `LogicRunner._run_impl`.
- `PatternRegistry`: a read-through cache, the same as its storage while it is the only registry on
  it. `IterationManager`: read and write of one counter without an await between them; only threads
  of the application could race. The rest of `storage.py` is opening, path resolution and file system
  tests before it.
- The executors behind `Tool.run`: in thread mode a timeout is reported only when the callable has
  ended, which is a matter of duration and not of order.
- Validation, events, logging, visualization, and the core data classes: no behaviour over time.

## 6. Plan

1. `Dag`, `GraphRunner`, `DagExecution`, runs and first theorems: done.
2. `RateLimiter` with proofs, `StreamingExtractor`, `ContextStore`: done.
3. `AgentStep` with tools and its abstract specification `ToolCalls`: done.
4. `ParallelPattern`, `Conversations`, `LogicLoop`: done.
5. `ResilientStream` over `RateLimiter`, with proofs: done.
6. Proofs of the safety properties and refinements of `GraphRunner`, `AgentStep`, the multi-agent
   patterns, `ContextStore` and `LogicLoop`: done.
7. The matching of `StreamingExtractor` as a least closed set, and proofs for any tags: done.
8. To come: which start tags `finalize` reports as malformed (a tag that repeats inside an open pattern
   stays active after it is complete), against a rule to be agreed on.
