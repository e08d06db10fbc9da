----------------------------- MODULE AgentStep -----------------------------
(***************************************************************************)
(* AgentRunner.step_stream (src/agentic/agent.py): one step of an agent,   *)
(* as far as its tool calls go.  The model streams; the extractor finds    *)
(* tool calls in the chunks; each is verified by a callback.  With         *)
(* concurrent_tool_execution an accepted call runs at once in a task, next *)
(* to the stream, and speaks to the consumer through tool_event_queue;     *)
(* otherwise the accepted calls run one by one after the stream.           *)
(*                                                                         *)
(* `pc` is the yield or await at which step_stream stands.  There the      *)
(* consumer or the event loop may run: the tool tasks step, the consumer   *)
(* may close the stream.  From one such point to the next is one action.   *)
(*                                                                         *)
(* Left out: the text of chunks, patterns and results, patterns that are   *)
(* no tool calls, what a tool outputs between its start and its end, and   *)
(* the incremental partial keys.                                           *)
(***************************************************************************)
EXTENDS Naturals, Sequences, FiniteSets

CONSTANTS
    Ids,            \* call ids: the model may give one id to two calls
    MaxCalls,       \* bound: tool calls in one output
    MaxChunks,      \* bound: chunks of one output
    MaxFaults       \* bound: storage calls that raise

ASSUME BoundsAssumption == MaxCalls \in Nat /\ MaxChunks \in Nat /\ MaxFaults \in Nat

Calls == 1..MaxCalls
Configs == [concurrent : BOOLEAN,    \* concurrent_tool_execution
            verify : BOOLEAN]        \* on_tool_detected is set

VARIABLES
    config,         \* the options of AgentConfig that matter here
    pc,             \* where step_stream stands
    chunks,         \* chunks received so far
    found,          \* tool calls completed by the current chunk and not handled yet
    ids,            \* detected_tools: the call id of each call, in order
    decisions,      \* tool_decisions: whether each call is accepted, and marked executed
    task,           \* the execution of each call
    cancelling,     \* the calls whose task was told to cancel
    queue,          \* tool_event_queue
    results,        \* tool_results
    toolState,      \* the context's tool_state:{id}
    stored,         \* the context's tool:result:{iteration}:{id}
    status,         \* the status in StepCompleteEvent
    heard,          \* ghost: the tool events the consumer got, per call
    faults          \* storage calls that raised so far
vars == <<config, pc, chunks, found, ids, decisions, task, cancelling, queue, results,
          toolState, stored, status, heard, faults>>

stream  == <<chunks, found, ids>>
context == <<toolState, stored>>

Ended == {"ended", "dead", "cancelled"}
Live == {n \in Calls : task[n] \in {"created", "running"}}
Suspended == {"stream", "drain", "pattern", "verify", "decided", "complete", "gather", "flush",
              "execute"}
Terminal == {"done", "failed", "closed"}

Init ==
    /\ config \in Configs
    /\ pc = "stream"
    /\ chunks = 0
    /\ found = 0
    /\ ids = <<>>
    /\ decisions = <<>>
    /\ task = [n \in Calls |-> "none"]
    /\ cancelling = {}
    /\ queue = <<>>
    /\ results = <<>>
    /\ toolState = [i \in Ids |-> "none"]
    /\ stored = [i \in Ids |-> "none"]
    /\ status = "none"
    /\ heard = [n \in Calls |-> <<>>]
    /\ faults = 0

-----------------------------------------------------------------------------
(* What an execution leaves behind *)

Event(n, kind) == [call |-> n, kind |-> kind]

\* A result; the output of a failed call is None, which JSON can hold.
Result(n, ok, storable) == [call |-> n, ok |-> ok, storable |-> storable]
Failure(n) == Result(n, FALSE, TRUE)

\* The two records of a call: the state, and the result.
RecordsOf(n) == [state |-> toolState[ids[n]], result |-> stored[ids[n]]]

\* What comes of setting the state and then storing the result: both are written, or the storage
\* raises at the first or at the second, or JSON cannot hold the result (_store_tool_result).
Writing(old, state, result, storable) ==
    LET half(at, error) == [state |-> at, result |-> old.result, error |-> error]
    IN  IF storable
        THEN {[state |-> state, result |-> result, error |-> "none"],
              half(old.state, "storage"), half(state, "storage")}
        ELSE {half(old.state, "storage"), half(state, "json")}

WritingFailure(old) == Writing(old, "failed", "failed", TRUE)

Raise(count) == faults + count <= MaxFaults /\ faults' = faults + count
Fault == Raise(1)
Cost(written) == IF written.error = "storage" THEN 1 ELSE 0

\* Mutant: the state is left at what it was.
LeaveNoState(n, listed, written) ==
    /\ results' = results \o listed
    /\ stored' = [stored EXCEPT ![ids[n]] = written.result]
    /\ UNCHANGED toolState

\* The results of one execution are listed, and what has been written of it stays.
Leave(n, listed, written) ==
    /\ results' = results \o listed
    /\ toolState' = [toolState EXCEPT ![ids[n]] = written.state]
    /\ stored' = [stored EXCEPT ![ids[n]] = written.result]

-----------------------------------------------------------------------------
(* Concurrent tool tasks: _execute_single_tool_concurrent *)

Announce(n, kinds) == queue' = queue \o [k \in DOMAIN kinds |-> Event(n, kinds[k])]

Becomes(n, state) == task' = [task EXCEPT ![n] = state]

TaskOnly == UNCHANGED <<config, pc, stream, decisions, cancelling, status, heard>>

CanRun(n, state) == config.concurrent /\ task[n] = state /\ n \notin cancelling

\* The tool is allowed, known and its arguments are valid: it runs.
TaskStarts(n) ==
    /\ CanRun(n, "created")
    /\ Becomes(n, "running")
    /\ Announce(n, <<"start">>)
    /\ toolState' = [toolState EXCEPT ![ids[n]] = "started"]
    /\ UNCHANGED <<results, stored, faults>>
    /\ TaskOnly

\* A failure is listed and written.  If that raises, the task dies of it.
FailTask(n, listed, old, spent) ==
    \E w \in WritingFailure(old) :
        /\ Leave(n, Append(listed, Failure(n)), w)
        /\ Raise(spent + Cost(w))
        /\ Becomes(n, IF w.error = "none" THEN "ended" ELSE "dead")

\* The tool is not allowed, unknown, or its arguments are not valid.
TaskRefused(n) ==
    /\ CanRun(n, "created")
    /\ Announce(n, <<"start", "end">>)
    /\ FailTask(n, <<>>, [RecordsOf(n) EXCEPT !.state = "started"], 0)
    /\ TaskOnly

\* Storing "started" raises: the task dies with nothing announced.
TaskNeverStarts(n) ==
    /\ CanRun(n, "created")
    /\ Fault
    /\ Becomes(n, "dead")
    /\ UNCHANGED <<queue, results, context>>
    /\ TaskOnly

\* Mutant: the result is announced and stored, and not appended to tool_results.
TaskSucceedsUnlisted(n) ==
    /\ CanRun(n, "running")
    /\ \E w \in Writing(RecordsOf(n), "finished", "ok", TRUE) :
          w.error = "none" /\ Leave(n, <<>>, w)
    /\ Announce(n, <<"end">>) /\ Becomes(n, "ended") /\ UNCHANGED faults
    /\ TaskOnly

\* If writing the records raises, the `except` branch reports the call once more, as failed.
TaskSucceeds(n) ==
    /\ CanRun(n, "running")
    /\ \E storable \in BOOLEAN : \E w \in Writing(RecordsOf(n), "finished", "ok", storable) :
          LET listed == <<Result(n, TRUE, storable)>>
          IN  \/ /\ w.error = "none"
                 /\ Announce(n, <<"end">>)
                 /\ Leave(n, listed, w) /\ Becomes(n, "ended") /\ UNCHANGED faults
              \/ /\ w.error # "none"
                 /\ Announce(n, <<"end", "end">>)
                 /\ FailTask(n, listed, w, Cost(w))
    /\ TaskOnly

\* The tool raises or times out.
TaskFails(n) ==
    /\ CanRun(n, "running")
    /\ Announce(n, <<"end">>)
    /\ FailTask(n, <<>>, RecordsOf(n), 0)
    /\ TaskOnly

\* CancelledError is not an Exception: nothing is announced, listed or stored.
TaskCancelled(n) ==
    /\ n \in cancelling /\ n \in Live
    /\ Becomes(n, "cancelled")
    /\ UNCHANGED <<queue, results, context, faults>>
    /\ TaskOnly

TaskStep(n) ==
    \/ TaskStarts(n) \/ TaskRefused(n) \/ TaskNeverStarts(n)
    \/ TaskSucceeds(n) \/ TaskFails(n) \/ TaskCancelled(n)

-----------------------------------------------------------------------------
(* step_stream up to the end of the model's output *)

StreamOnly == UNCHANGED <<config, task, cancelling, results, context, status>>

\* The extractor's next completed call, or back to the provider.
NextPattern(left) == IF left > 0 THEN "pattern" ELSE "stream"

\* A chunk is yielded; the queue is drained next.
ReceiveChunk ==
    /\ pc = "stream"
    /\ chunks < MaxChunks
    /\ chunks' = chunks + 1
    /\ pc' = "drain"
    /\ UNCHANGED <<found, ids, decisions, queue, heard, faults>>
    /\ StreamOnly

\* One event of the queue is yielded.
DrainQueue ==
    /\ pc \in {"drain", "flush"}
    /\ queue # <<>>
    /\ heard' = [heard EXCEPT ![Head(queue).call] = Append(@, Head(queue).kind)]
    /\ queue' = Tail(queue)
    /\ UNCHANGED <<pc, stream, decisions, faults>>
    /\ StreamOnly

\* feed_chunk completes any number of calls.
FeedChunk ==
    /\ pc = "drain"
    /\ queue = <<>>
    /\ found' \in 0..(MaxCalls - Len(ids))
    /\ pc' = NextPattern(found')
    /\ UNCHANGED <<chunks, ids, decisions, queue, heard, faults>>
    /\ StreamOnly

Decide(accepted) ==
    /\ decisions' = Append(decisions, [accepted |-> accepted, executed |-> FALSE])
    /\ pc' = "decided"

\* _should_execute_tool: without a callback every call is accepted at once.
AskOrAccept ==
    IF config.verify THEN pc' = "verify" /\ UNCHANGED decisions ELSE Decide(TRUE)

\* Mutant: the call stays among those to handle.
DetectCallAgain ==
    /\ pc = "pattern"
    /\ \E i \in Ids : ids' = Append(ids, i)
    /\ IF config.concurrent
       THEN AskOrAccept
       ELSE pc' = NextPattern(found) /\ UNCHANGED decisions
    /\ UNCHANGED <<chunks, found, queue, heard, faults>>
    /\ StreamOnly

\* The consumer resumes after PatternEndEvent: the content is stored, the call is added.
DetectCall ==
    /\ pc = "pattern"
    /\ \E i \in Ids : ids' = Append(ids, i)
    /\ found' = found - 1
    /\ IF config.concurrent
       THEN AskOrAccept
       ELSE pc' = NextPattern(found') /\ UNCHANGED decisions
    /\ UNCHANGED <<chunks, queue, heard, faults>>
    /\ StreamOnly

\* What the callback answers; what its exception (refused) or its timeout (as
\* tool_verification_on_timeout says) stands for.  A late answer is not read.
Verify ==
    /\ pc = "verify"
    /\ \E accepted \in BOOLEAN : Decide(accepted)
    /\ UNCHANGED <<stream, queue, heard, faults>>
    /\ StreamOnly

LastCall == Len(decisions)

\* Mutant: the decision is announced and not obeyed.
LaunchWhateverDecided ==
    /\ pc = "decided" /\ config.concurrent
    /\ Becomes(LastCall, "created")
    /\ pc' = NextPattern(found)
    /\ UNCHANGED <<config, stream, decisions, cancelling, queue, results, context, status,
                   heard, faults>>

\* After ToolDecisionEvent and StatusEvent an accepted call gets its task.
LaunchAccepted ==
    /\ pc = "decided" /\ config.concurrent
    /\ IF decisions[LastCall].accepted THEN Becomes(LastCall, "created") ELSE UNCHANGED task
    /\ pc' = NextPattern(found)
    /\ UNCHANGED <<config, stream, decisions, cancelling, queue, results, context, status,
                   heard, faults>>

\* Mutant: the tasks are left alone.
FailStepOnly ==
    /\ pc' = "failed"
    /\ status' = "error"
    /\ UNCHANGED <<config, stream, decisions, task, cancelling, queue, results, context, heard>>

\* The `except` branch: the tasks are told to cancel and not awaited; StepCompleteEvent
\* carries no results.
FailStep ==
    /\ pc' = "failed"
    /\ status' = "error"
    /\ cancelling' = Live
    /\ UNCHANGED <<config, stream, decisions, task, queue, results, context, heard>>

\* The provider raises, or the extractor does (its buffer is full).
StreamFails ==
    /\ pc = "stream" \/ (pc = "drain" /\ queue = <<>>)
    /\ FailStep
    /\ UNCHANGED faults

\* Storing the content of the pattern raises.
PatternNotStored == pc = "pattern" /\ Fault /\ FailStep

\* LLMCompleteEvent is yielded.
StreamEnds ==
    /\ pc = "stream"
    /\ pc' = "complete"
    /\ UNCHANGED <<stream, decisions, queue, heard, faults>>
    /\ StreamOnly

-----------------------------------------------------------------------------
(* After the stream: joining the concurrent tools *)

Launched == {n \in Calls : task[n] # "none"}

AfterStream ==
    /\ pc = "complete"
    /\ CASE config.concurrent /\ Launched # {} -> pc' = "gather" /\ UNCHANGED decisions
         [] ~config.concurrent /\ ids # <<>>   -> AskOrAccept
         [] OTHER                              -> pc' = "finish" /\ UNCHANGED decisions
    /\ UNCHANGED <<stream, queue, heard, faults>>
    /\ StreamOnly

\* Mutant: a tool is waited for until its result is there.
GatherResults ==
    /\ pc = "gather"
    /\ \A n \in Launched : \E k \in DOMAIN results : results[k].call = n
    /\ pc' = "flush"
    /\ UNCHANGED <<stream, decisions, queue, heard, faults>>
    /\ StreamOnly

\* Mutant: the queue is not drained once more.
GatherAndFinish ==
    /\ pc = "gather"
    /\ \A n \in Launched : task[n] \in Ended
    /\ pc' = "finish"
    /\ UNCHANGED <<stream, decisions, queue, heard, faults>>
    /\ StreamOnly

\* gather(return_exceptions=True): every task has ended, whatever way.
Gather ==
    /\ pc = "gather"
    /\ \A n \in Launched : task[n] \in Ended
    /\ pc' = "flush"
    /\ UNCHANGED <<stream, decisions, queue, heard, faults>>
    /\ StreamOnly

Flushed ==
    /\ pc = "flush"
    /\ queue = <<>>
    /\ pc' = "finish"
    /\ UNCHANGED <<stream, decisions, queue, heard, faults>>
    /\ StreamOnly

-----------------------------------------------------------------------------
(* After the stream: deciding and running the calls one by one *)

Approved == {n \in DOMAIN decisions : decisions[n].accepted}

\* The next call is decided; after the last the accepted ones are run.
NextDecision ==
    /\ pc = "decided" /\ ~config.concurrent
    /\ IF Len(decisions) < Len(ids)
       THEN AskOrAccept /\ UNCHANGED task
       ELSE /\ pc' = IF Approved = {} THEN "finish" ELSE "execute"
            /\ task' = [n \in Calls |-> IF n \in Approved THEN "approved" ELSE "none"]
            /\ UNCHANGED decisions
    /\ UNCHANGED <<config, stream, cancelling, queue, results, context, status, heard, faults>>

\* The call of _execute_tools_stream's loop: the first that has not ended.
Current(n) ==
    /\ pc = "execute"
    /\ n \in Approved /\ task[n] \notin Ended
    /\ \A m \in Approved : m < n => task[m] \in Ended

\* ToolStartEvent or ToolEndEvent is yielded.
Tell(n, kind) == heard' = [heard EXCEPT ![n] = Append(@, kind)]

ExecuteOnly == UNCHANGED <<config, stream, decisions, cancelling, queue, status>>

\* An exception that leaves step_stream: no StepCompleteEvent follows.
Escape(n) == Fault /\ Becomes(n, "dead") /\ pc' = "failed"

StartTool(n) ==
    /\ Current(n) /\ task[n] = "approved"
    /\ \/ /\ toolState' = [toolState EXCEPT ![ids[n]] = "started"]
          /\ Tell(n, "start")
          /\ Becomes(n, "starting")
          /\ UNCHANGED <<pc, faults>>
       \/ Escape(n) /\ UNCHANGED <<toolState, heard>>
    /\ UNCHANGED <<results, stored>>
    /\ ExecuteOnly

\* The tool is called, or refused as TaskRefused does.
CallTool(n) ==
    /\ Current(n) /\ task[n] = "starting"
    /\ \/ Becomes(n, "calling") /\ UNCHANGED heard
       \/ Becomes(n, "failing") /\ Tell(n, "end")
    /\ UNCHANGED <<pc, results, context, faults>>
    /\ ExecuteOnly

\* Tool.run_stream ends or raises: run() makes of the callable's exception or timeout a failed
\* result, and that is raised.
ToolOutcomes == {"succeeding", "failing"}

ToolReturns(n) ==
    /\ Current(n) /\ task[n] = "calling"
    /\ \E outcome \in ToolOutcomes : Becomes(n, outcome)
    /\ Tell(n, "end")
    /\ UNCHANGED <<pc, results, context, faults>>
    /\ ExecuteOnly

\* The consumer resumes after ToolEndEvent: the result is listed, then stored.
RecordSuccess(n) ==
    /\ Current(n) /\ task[n] = "succeeding"
    /\ \E storable \in BOOLEAN : \E w \in Writing(RecordsOf(n), "finished", "ok", storable) :
          /\ Leave(n, <<Result(n, TRUE, storable)>>, w)
          /\ Raise(Cost(w))
          /\ IF w.error = "none"
             THEN UNCHANGED heard /\ Becomes(n, "ended")
             ELSE Tell(n, "end") /\ Becomes(n, "failing")    \* the `except` branch
    /\ UNCHANGED pc
    /\ ExecuteOnly

RecordFailure(n) ==
    /\ Current(n) /\ task[n] = "failing"
    /\ \E w \in WritingFailure(RecordsOf(n)) :
          /\ Leave(n, <<Failure(n)>>, w)
          /\ IF w.error = "none"
             THEN Becomes(n, "ended") /\ UNCHANGED <<pc, faults>>
             ELSE Escape(n)
    /\ UNCHANGED heard
    /\ ExecuteOnly

AllExecuted ==
    /\ pc = "execute"
    /\ \A n \in Approved : task[n] \in Ended
    /\ pc' = "finish"
    /\ UNCHANGED <<task, results, context, heard, faults>>
    /\ ExecuteOnly

ExecuteStep(n) ==
    StartTool(n) \/ CallTool(n) \/ ToolReturns(n) \/ RecordSuccess(n) \/ RecordFailure(n)

-----------------------------------------------------------------------------
(* The end of the step *)

\* A result marks the first decision with its call id.
Matched(n) ==
    /\ \E k \in DOMAIN results : ids[results[k].call] = ids[n]
    /\ \A m \in 1..(n - 1) : ids[m] # ids[n]

\* _determine_step_status, given the decisions with their marks.  With no decisions the
\* status depends on the text of the response.
StepStatus(decided) ==
    LET executed == \E n \in DOMAIN decided : decided[n].executed
        accepted == \E n \in DOMAIN decided : decided[n].accepted
    IN  IF \E k \in DOMAIN results : ~results[k].ok THEN {"error"}
        ELSE IF executed THEN {"tool_executed"}
        ELSE IF accepted THEN {"waiting_for_tool"}
        ELSE IF decided # <<>> THEN {"tools_rejected"}
        ELSE {"done", "ok"}

\* The context is updated, results are matched to decisions, StepCompleteEvent is yielded.
Finish ==
    /\ pc = "finish"
    /\ decisions' = [n \in DOMAIN decisions |-> [decisions[n] EXCEPT !.executed = Matched(n)]]
    /\ status' \in StepStatus(decisions')
    /\ pc' = "done"
    /\ UNCHANGED <<config, stream, task, cancelling, queue, results, context, heard, faults>>

\* An output mapping cannot be stored, or set_tools finds a result that JSON cannot hold: the
\* exception leaves step_stream.
OutputNotStored ==
    /\ pc = "finish"
    /\ \/ Fault
       \/ (\E k \in DOMAIN results : ~results[k].storable) /\ UNCHANGED faults
    /\ pc' = "failed"
    /\ UNCHANGED <<config, stream, decisions, task, cancelling, queue, results, context, status,
                   heard>>

\* The consumer closes the stream, or is cancelled; gather() then cancels what it awaits.
Close ==
    /\ pc \in Suspended
    /\ pc' = "closed"
    /\ cancelling' = IF pc = "gather" THEN Live ELSE cancelling
    /\ UNCHANGED <<config, stream, decisions, task, queue, results, context, status, heard, faults>>

Proceed ==
    \/ ReceiveChunk \/ DrainQueue \/ FeedChunk \/ DetectCall \/ Verify \/ LaunchAccepted
    \/ StreamEnds \/ AfterStream \/ Gather \/ Flushed
    \/ NextDecision \/ AllExecuted \/ Finish
    \/ \E n \in Calls : ExecuteStep(n)

Next ==
    \/ Proceed
    \/ \E n \in Calls : TaskStep(n)
    \/ StreamFails \/ PatternNotStored \/ OutputNotStored
    \/ Close

Spec == Init /\ [][Next]_vars

\* The event loop runs what can run, the consumer goes on asking, callbacks and tools end.
FairSpec == Spec /\ WF_vars(Proceed) /\ \A n \in Calls : WF_vars(TaskStep(n))

-----------------------------------------------------------------------------
(* Properties *)

TaskStates == {"none", "created", "running"} \cup Ended
              \cup {"approved", "starting", "calling", "succeeding", "failing"}

TypeOK ==
    /\ config \in Configs
    /\ pc \in Suspended \cup Terminal \cup {"finish"}
    /\ chunks \in 0..MaxChunks
    /\ found \in 0..MaxCalls
    /\ ids \in Seq(Ids) /\ Len(ids) + found <= MaxCalls
    /\ decisions \in Seq([accepted : BOOLEAN, executed : BOOLEAN])
    /\ Len(decisions) <= Len(ids)
    /\ task \in [Calls -> TaskStates]
    /\ cancelling \subseteq Calls
    /\ queue \in Seq([call : Calls, kind : {"start", "end"}])
    /\ results \in Seq([call : Calls, ok : BOOLEAN, storable : BOOLEAN])
    /\ toolState \in [Ids -> {"none", "started", "finished", "failed"}]
    /\ stored \in [Ids -> {"none", "ok", "failed"}]
    /\ status \in {"none", "error", "tool_executed", "waiting_for_tool", "tools_rejected", "done",
                   "ok"}
    /\ heard \in [Calls -> Seq({"start", "end"})]
    /\ faults \in 0..MaxFaults

\* The results of call n, in tool_results.
ResultsOf(n) == {k \in DOMAIN results : results[k].call = n}

DistinctIds == \A m, n \in DOMAIN ids : ids[m] = ids[n] => m = n

\* When a step with distinct call ids completes, a call that was refused has no result and is
\* not marked executed; with a storage that works an accepted one is, and has one result.  A
\* result that JSON cannot hold has a second one beside it, a failure, and the status says so.
\* (tools run beside the stream, end in any order, and are matched to decisions by id.)
ReportMatchesDecisions ==
    pc = "done" /\ DistinctIds =>
        /\ Len(decisions) = Len(ids)
        /\ \A n \in DOMAIN decisions :
               LET storable == \A k \in ResultsOf(n) : results[k].storable
               IN  /\ ~decisions[n].accepted => ~decisions[n].executed /\ ResultsOf(n) = {}
                   /\ decisions[n].accepted /\ faults = 0 =>
                        /\ decisions[n].executed
                        /\ Cardinality(ResultsOf(n)) = IF storable THEN 1 ELSE 2
                   /\ ~storable => status = "error"
        /\ faults = 0 => status # "waiting_for_tool"

\* The two records the context keeps of a call, written one after the other, do not contradict
\* each other while no call with that id runs, however the step or the storage was interrupted.
ContextAgreesOnOutcome ==
    \A i \in Ids :
        (\A n \in DOMAIN ids : ids[n] = i => task[n] \in Ended \cup {"none"}) /\ DistinctIds =>
            /\ stored[i] = "ok" => toolState[i] = "finished"
            /\ stored[i] = "failed" => toolState[i] = "failed"

\* When StepCompleteEvent comes, the consumer has had the events of every tool: its start and
\* one end for each result in the report.
EventsPrecedeReport ==
    pc = "done" =>
        /\ queue = <<>>
        /\ \A n \in Launched :
               LET ends == [k \in 1..Cardinality(ResultsOf(n)) |-> "end"]
               IN  heard[n] = (IF ends = <<>> THEN ends ELSE <<"start">> \o ends)

\* After a step has failed no tool starts, and nothing more is written about its calls.
NothingStartsAfterFailure ==
    [][pc = "failed" => UNCHANGED <<toolState, stored, results>>]_vars

\* A step comes to an end, and no task of it is left, also when the consumer has closed it.
StepEnds == <>[](pc \in Terminal /\ Live = {})

\* The life of a call as ToolCalls sees it.
CallState(n) ==
    CASE task[n] \in {"created", "approved"} -> "accepted"
      [] task[n] \in {"running", "starting", "calling", "succeeding", "failing"} -> "running"
      [] task[n] \in Ended ->
            IF ResultsOf(n) = {} THEN "lost"
            ELSE IF \A k \in ResultsOf(n) : results[k].ok THEN "succeeded" ELSE "failed"
      [] task[n] = "none" ->
            IF n > Len(ids) THEN "unknown"
            ELSE IF n > Len(decisions) THEN "detected"
            ELSE IF decisions[n].accepted THEN "accepted" ELSE "rejected"

StepState == CASE pc = "done" -> "reported" [] pc \in {"failed", "closed"} -> pc [] OTHER -> "open"

Promise == INSTANCE ToolCalls WITH
    call <- [n \in Calls |-> CallState(n)],
    step <- StepState

\* step_stream and its tasks keep the promise of ToolCalls: a call runs at most once, only if
\* accepted, and the step is reported when no call is pending.
ImplementsToolCalls == Promise!Spec

=============================================================================
