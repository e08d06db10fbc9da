----------------------------- MODULE ToolCalls -----------------------------
(***************************************************************************)
(* What one agent step promises about the tool calls of its model's        *)
(* output, with no stream, queue, task or decision record: a call is       *)
(* decided once, runs at most once and only if accepted, and the step is   *)
(* reported complete when nothing is left to run.  AgentStep implements it.*)
(***************************************************************************)
EXTENDS Naturals

CONSTANT Calls          \* the calls the output may hold

VARIABLES call,         \* the state of each call
          step          \* "open", "reported", "failed", or "closed" by the consumer

vars == <<call, step>>

Pending == {"detected", "accepted", "running"}

Init ==
    /\ call = [n \in Calls |-> "unknown"]
    /\ step = "open"

Move(n, from, to) ==
    /\ call[n] \in from
    /\ \E s \in to : call' = [call EXCEPT ![n] = s]
    /\ UNCHANGED step

Detect(n) == step = "open" /\ Move(n, {"unknown"}, {"detected"})

Decide(n) == step = "open" /\ Move(n, {"unknown", "detected"}, {"accepted", "rejected"})

\* The calls of a closed step go on, those of a failed one do not start any more.
Start(n) == step \in {"open", "closed"} /\ Move(n, {"accepted"}, {"running"})

\* A refused tool ends without running.
End(n) ==
    /\ step # "reported"
    /\ \/ Move(n, {"running"}, {"succeeded", "failed"})
       \/ step # "failed" /\ Move(n, {"accepted"}, {"failed"})

\* Cancelled, or interrupted by its storage.
Lose(n) == step # "reported" /\ Move(n, {"accepted", "running"}, {"lost"})

Report ==
    /\ step = "open"
    /\ \A n \in Calls : call[n] \notin Pending
    /\ step' = "reported"
    /\ UNCHANGED call

Close == step = "open" /\ step' = "closed" /\ UNCHANGED call

\* An error that ends the step may come from the call that was running.
Fail ==
    /\ step = "open"
    /\ step' = "failed"
    /\ \/ UNCHANGED call
       \/ \E n \in Calls, s \in {"lost", "failed"} :
              call[n] \in {"accepted", "running"} /\ call' = [call EXCEPT ![n] = s]

Next ==
    \/ \E n \in Calls : Detect(n) \/ Decide(n) \/ Start(n) \/ End(n) \/ Lose(n)
    \/ Report \/ Close \/ Fail

Spec == Init /\ [][Next]_vars

=============================================================================
