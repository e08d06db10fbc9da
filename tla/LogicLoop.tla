----------------------------- MODULE LogicLoop -----------------------------
(***************************************************************************)
(* LogicRunner.run_stream (src/agentic/logic.py): an agent's steps in a    *)
(* loop.  The loop hands on each event of a step and, at the events its    *)
(* conditions name, decides from the event whether to go on.               *)
(*                                                                         *)
(* One condition is watched, of any kind; the rest of the configuration    *)
(* shows in `accumulates`.  A text has pieces at some places, each TRUE if *)
(* it holds what the condition looks for, where the condition may look;    *)
(* None and the empty text are one, since neither satisfies a condition.   *)
(* A match lies in one piece.  A step gives its events in the order of     *)
(* AgentStep; of those only the ones that the loop tells apart are kept.   *)
(***************************************************************************)
EXTENDS Naturals, Sequences, FiniteSets

CONSTANTS
    MaxIterations,  \* LogicConfig.max_iterations, never None here
    MaxBuffer,      \* AgentConfig.max_partial_buffer_size, in pieces
    Threshold,      \* ContextHealthCheck.threshold of a version_count check
    MaxVersions,    \* its max_versions_limit
    MaxPieces       \* bound: the chunks of one output

ASSUME LoopAssumption ==
    /\ MaxIterations \in Nat /\ MaxBuffer \in Nat \ {0}
    /\ Threshold \in Nat /\ MaxVersions \in Nat /\ MaxPieces \in Nat

Parts == {"response", "reasoning", "tool_output"}
Pieces == [part : Parts, marked : BOOLEAN]

Conditions ==
    [match : {"contains", "equals", "regex"},
     target : Parts \cup {"context"},
     point : {"auto", "llm_chunk", "llm_complete", "tool_detected", "tool_finished",
              "step_complete", "any_event"}]

VARIABLES
    condition,      \* the condition watched, in stop_conditions or loop_until_conditions
    accumulates,    \* should_accumulate_partial
    breakOnError,   \* break_on_error
    healthStops,    \* whether a version_count check with the action "stop" is set; "warn"
                    \* only adds an event
    pc,             \* where the loop stands
    iterationCount, \* iteration_count
    partial,        \* partial_raw_output
    said,           \* the pieces of the step's output so far
    outputs,        \* the outputs of the tools that have ended in this step
    printed,        \* whether a tool has put out, on its way, what the condition looks for
    failed,         \* whether one of the tools that have ended failed
    value,          \* whether the context key the condition names holds its value
    versions,       \* versions of the context key the health check watches, if it does
    ended           \* the reason for which the loop has ended
config == <<condition, accumulates, breakOnError, healthStops>>
vars == <<config, pc, iterationCount, partial, said, outputs, printed, failed, value, versions,
          ended>>

NoText == <<>>
Marked(text) == \E k \in DOMAIN text : text[k]

\* The marks of the pieces of one part, or of the whole output.
Places(part) == {k \in DOMAIN said : said[k].part = part}
Segment(part) == [k \in Places(part) |-> said[k].marked]
RawOutput(pieces) == [k \in DOMAIN pieces |-> pieces[k].marked]

Calls == Cardinality(Places("tool_output"))

-----------------------------------------------------------------------------
(* Conditions *)

\* Mutant: "auto" stands for the end of the model's output, whatever the condition looks at.
EvaluatedAtLLMComplete(event) ==
    \/ condition.point \in {"any_event", event}
    \/ condition.point = "auto" /\ event = "llm_complete"

\* _should_evaluate_at_event
EvaluatedAt(event) ==
    \/ condition.point \in {"any_event", event}
    \/ /\ condition.point = "auto"
       /\ event = IF condition.match = "contains" /\ condition.target # "context"
                  THEN "llm_complete" ELSE "step_complete"

Satisfies(text) ==
    Marked(text) /\ (condition.match = "equals" => Cardinality(DOMAIN text) = 1)

\* _evaluate_condition_on_context: what the event has of the target.
InEvent(raw, output, held) ==
    Satisfies(CASE condition.target = "context" -> <<held>>
                [] condition.target = "tool_output" -> output
                [] condition.target = "response" -> raw
                [] condition.target = "reasoning" ->
                      IF condition.match = "equals" THEN NoText ELSE raw)

\* _evaluate_condition: what the result of a step has of the target; patterns are looked for in
\* the raw output, where their tags are.
InResult(result, held) ==
    Satisfies(IF condition.target = "context" THEN <<held>>
              ELSE IF condition.match = "contains" THEN result.raw
              ELSE result[condition.target])

-----------------------------------------------------------------------------
Init ==
    /\ condition \in Conditions
    /\ accumulates \in BOOLEAN
    /\ condition.point \in {"llm_chunk", "any_event"} => accumulates
    /\ breakOnError \in BOOLEAN
    /\ healthStops \in BOOLEAN
    /\ pc = "top"
    /\ iterationCount = 0
    /\ partial = NoText
    /\ said = <<>>
    /\ outputs = <<>>
    /\ printed = FALSE
    /\ failed = FALSE
    /\ value = FALSE
    /\ versions = 0
    /\ ended = "no"

End(reason) == pc' = "done" /\ ended' = reason

\* A condition looks into one kind of place: the context, what tools put out, or the output.
MayHold(places, marked) == marked => condition.target \in places

\* Tools, the agent's output mapping and other agents write the context while a step runs.
ContextMoves == value' \in IF condition.target = "context" THEN BOOLEAN ELSE {value}

\* The loop handles one event of a step: the text it has is tested if the condition is due.
Handle(event, raw, output, next) ==
    IF EvaluatedAt(event) /\ InEvent(raw, output, value')
    THEN End("condition")
    ELSE pc' = next /\ UNCHANGED ended

InStep == pc \in {"streaming", "executing"}

\* Mutant: what the last step said is still in the buffer.
NextStepKeepsPartial ==
    /\ pc = "top"
    /\ IF iterationCount >= MaxIterations
       THEN End("limit") /\ UNCHANGED <<partial, said, outputs, printed, failed>>
       ELSE /\ pc' = "streaming"
            /\ said' = <<>> /\ outputs' = <<>> /\ printed' = FALSE /\ failed' = FALSE
            /\ UNCHANGED <<partial, ended>>
    /\ UNCHANGED <<config, iterationCount, value, versions>>

\* Mutant: the limit is tested one step late.
NextStepOneMore ==
    /\ pc = "top"
    /\ IF iterationCount > MaxIterations
       THEN End("limit") /\ UNCHANGED <<partial, said, outputs, printed, failed>>
       ELSE /\ pc' = "streaming"
            /\ partial' = NoText
            /\ said' = <<>> /\ outputs' = <<>> /\ printed' = FALSE /\ failed' = FALSE
            /\ UNCHANGED ended
    /\ UNCHANGED <<config, iterationCount, value, versions>>

\* The head of the loop: the limit, or the next step.
NextStep ==
    /\ pc = "top"
    /\ IF iterationCount >= MaxIterations
       THEN End("limit") /\ UNCHANGED <<partial, said, outputs, printed, failed>>
       ELSE /\ pc' = "streaming"
            /\ partial' = NoText
            /\ said' = <<>> /\ outputs' = <<>> /\ printed' = FALSE /\ failed' = FALSE
            /\ UNCHANGED ended
    /\ UNCHANGED <<config, iterationCount, value, versions>>

LastPieces(text) == SubSeq(text, IF Len(text) > MaxBuffer THEN Len(text) - MaxBuffer + 1 ELSE 1,
                           Len(text))

\* LLMChunkEvent.  With a piece that ends a tool call comes the PatternEndEvent.
Chunk ==
    /\ pc = "streaming" /\ Len(said) < MaxPieces
    /\ \E piece \in Pieces :
          /\ MayHold(Parts, piece.marked)
          /\ said' = Append(said, piece)
          /\ partial' = IF accumulates THEN LastPieces(Append(partial, piece.marked)) ELSE partial
          /\ ContextMoves
          /\ Handle("llm_chunk", partial', NoText,
                    IF piece.part = "tool_output" THEN "detected" ELSE "streaming")
    /\ UNCHANGED <<config, iterationCount, outputs, printed, failed, versions>>

\* PatternEndEvent of a tool call, with its content.
ToolDetected ==
    /\ pc = "detected"
    /\ ContextMoves
    /\ Handle("tool_detected", partial, <<said[Len(said)].marked>>, "streaming")
    /\ UNCHANGED <<config, iterationCount, partial, said, outputs, printed, failed, versions>>

\* LLMCompleteEvent, with the whole output.
LLMComplete ==
    /\ pc = "streaming"
    /\ ContextMoves
    /\ Handle("llm_complete", RawOutput(said), NoText, "executing")
    /\ UNCHANGED <<config, iterationCount, partial, said, outputs, printed, failed, versions>>

\* ToolOutputEvent, of a tool that has not ended: a part of its output.
ToolOutput ==
    /\ InStep /\ Len(outputs) < Calls
    /\ \E marked \in BOOLEAN :
          /\ MayHold({"tool_output"}, marked)
          /\ printed' = (printed \/ marked)
          /\ ContextMoves
          /\ Handle("tool_output", partial, <<marked>>, pc)
    /\ UNCHANGED <<config, iterationCount, partial, said, outputs, failed, versions>>

\* ToolEndEvent, of a tool that ran beside the stream or after it.  One that failed has no
\* output.
ToolFinished ==
    /\ InStep /\ Len(outputs) < Calls
    /\ \E marked, ok \in BOOLEAN :
          /\ MayHold({"tool_output"}, marked) /\ (marked => ok)
          /\ outputs' = Append(outputs, marked)
          /\ failed' = (failed \/ ~ok)
          /\ ContextMoves
          /\ Handle("tool_finished", partial, <<marked>>, pc)
    /\ UNCHANGED <<config, iterationCount, partial, said, printed, versions>>

\* output_to_string raises, at one of these two events, for an output that JSON cannot hold: the
\* exception leaves run_stream.
OutputRaises ==
    /\ InStep /\ Len(outputs) < Calls
    /\ End("raised")
    /\ UNCHANGED <<config, iterationCount, partial, said, outputs, printed, failed, value,
                   versions>>

\* Any other event: statuses, decisions, starts, context writes, errors.
OtherEvent ==
    /\ InStep
    /\ ContextMoves
    /\ Handle("other", partial, NoText, pc)
    /\ UNCHANGED <<config, iterationCount, partial, said, outputs, printed, failed, versions>>

-----------------------------------------------------------------------------
(* The end of a step *)

Smaller(a, b) == IF a < b THEN a ELSE b

\* get_history, of a key with so many versions: never less than one of them.
Fetched(count, limit) == Smaller(count, IF limit = 0 THEN 1 ELSE limit)

\* _check_context_health, version_count: the history is fetched up to one over the threshold.
Unhealthy(count) == Fetched(count, Smaller(Threshold + 1, MaxVersions)) > Threshold

\* What the step leaves in the context before it completes.
Written ==
    /\ ContextMoves
    /\ versions' \in {versions, Smaller(versions + 1, Threshold + 1)}
    /\ ~healthStops => versions' = versions

\* Why the loop stops at the end of a step, in the order of the code.
StopReason(result, held, count) ==
    IF result.status = "error" /\ breakOnError THEN "error"
    ELSE IF healthStops /\ Unhealthy(count) THEN "health"
    ELSE IF EvaluatedAt("step_complete") /\ InResult(result, held) THEN "condition"
    ELSE IF result.status = "done" /\ result.response = NoText THEN "no_input"
    ELSE "no"

\* Mutant: a step that failed is not counted.
StepCompleteUncounted(result) ==
    /\ iterationCount' = IF result.status = "error" THEN iterationCount ELSE iterationCount + 1
    /\ Written
    /\ IF StopReason(result, value', versions') = "no"
       THEN pc' = "top" /\ UNCHANGED ended
       ELSE End(StopReason(result, value', versions'))
    /\ UNCHANGED <<config, partial, said, outputs, printed, failed>>

\* StepCompleteEvent: the step is counted, and the loop stops if there is a reason.
StepComplete(result) ==
    /\ iterationCount' = iterationCount + 1
    /\ Written
    /\ IF StopReason(result, value', versions') = "no"
       THEN pc' = "top" /\ UNCHANGED ended
       ELSE End(StopReason(result, value', versions'))
    /\ UNCHANGED <<config, partial, said, outputs, printed, failed>>

\* AgentRunner._determine_step_status, as far as the loop looks at it: detected calls are
\* decided on, so that a step with neither response nor call is DONE.
StepStatus ==
    CASE failed -> "error"
      [] ~failed /\ Segment("response") = NoText /\ Calls = 0 -> "done"
      [] OTHER -> "ok"

\* The agent completes its step.
StepEnds ==
    /\ pc = "executing"
    /\ StepComplete([status |-> StepStatus, raw |-> RawOutput(said),
                     response |-> Segment("response"), reasoning |-> Segment("reasoning"),
                     tool_output |-> outputs])

\* The model's stream raises: the step completes with the error as its whole output.
LLMFails ==
    /\ pc = "streaming"
    /\ StepComplete([status |-> "error", raw |-> <<FALSE>>, response |-> NoText,
                     reasoning |-> NoText, tool_output |-> NoText])

-----------------------------------------------------------------------------
Progress == NextStep \/ Chunk \/ ToolDetected \/ LLMComplete \/ StepEnds \/ LLMFails

Next == Progress \/ ToolOutput \/ ToolFinished \/ OutputRaises \/ OtherEvent

\* A step of the agent goes on to its end (AgentStep), and the consumer takes each event.
Spec == Init /\ [][Next]_vars /\ WF_vars(Progress)

-----------------------------------------------------------------------------
\* Each variable holds a value of its type; no more steps are counted than allowed.
TypeOK ==
    /\ condition \in Conditions
    /\ accumulates \in BOOLEAN /\ breakOnError \in BOOLEAN
    /\ printed \in BOOLEAN /\ failed \in BOOLEAN /\ value \in BOOLEAN
    /\ healthStops \in BOOLEAN
    /\ pc \in {"top", "streaming", "detected", "executing", "done"}
    /\ iterationCount \in 0..MaxIterations
    /\ partial \in Seq(BOOLEAN) /\ Len(partial) <= Smaller(MaxBuffer, MaxPieces)
    /\ said \in Seq(Pieces) /\ Len(said) <= MaxPieces
    /\ outputs \in Seq(BOOLEAN) /\ Len(outputs) <= Calls
    /\ versions \in 0..(Threshold + 1)
    /\ ended \in {"no", "limit", "condition", "error", "health", "no_input", "raised"}

\* A condition stops the loop only when what it looks for is in what the step under way has
\* said, in what its tools have put out or returned, or in the context: nothing of an earlier
\* step counts.
StopsForThisStep ==
    ended = "condition" =>
        CASE condition.target = "context" -> value
          [] condition.target = "tool_output" ->
                printed \/ Marked(outputs) \/ Marked(RawOutput(said))
          [] OTHER -> Marked(RawOutput(said))

\* What the step showed the condition at the points where it promises to look.  (A failed model
\* call shows its chunks only; the raw output is tested where patterns are looked for.)
MarkWasShown ==
    LET at(points) == condition.point \in points
        raw == Marked(RawOutput(said))
        text == condition.target \in {"response", "reasoning"}
        kept == pc = "executing"
    IN  \/ condition.target = "context" /\ at({"auto", "step_complete", "any_event"}) /\ value'
        \/ text /\ condition.match # "equals" /\ at({"llm_chunk", "any_event"}) /\ raw
        \/ text /\ condition.match # "equals" /\ at({"llm_complete"}) /\ kept /\ raw
        \/ text /\ condition.match = "contains" /\ at({"auto", "step_complete"}) /\ kept /\ raw
        \/ /\ condition.match = "regex" /\ at({"auto", "step_complete"}) /\ kept
           /\ condition.target \in Parts
           /\ Marked(IF text THEN Segment(condition.target) ELSE outputs)
        \/ condition.target = "tool_output" /\ at({"tool_finished", "any_event"}) /\ Marked(outputs)
        \/ condition.target = "tool_output" /\ at({"any_event"}) /\ printed
        \/ /\ condition.target = "tool_output" /\ at({"tool_detected", "any_event"})
           /\ Marked(Segment("tool_output"))

\* The loop goes on to another step only if the last one showed the condition nothing, did not
\* fail under break_on_error, left the context within a health check that stops (whose limit
\* lets it see more versions than its threshold), and left something to do.
GoesOnOnlyIfDue ==
    [][pc # "top" /\ pc' = "top" =>
          /\ ~MarkWasShown
          /\ ~(breakOnError /\ (failed \/ pc = "streaming"))
          /\ Threshold = 0 \/ Threshold < MaxVersions =>
                ~(healthStops /\ versions' > Threshold)
          /\ \/ failed \/ pc = "streaming"
             \/ \E k \in DOMAIN said : said[k].part # "reasoning"]_vars

\* With max_iterations the loop ends.
LoopEnds == <>(pc = "done")

=============================================================================
