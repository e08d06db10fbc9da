--------------------------- MODULE ResilientStream ---------------------------
(***************************************************************************)
(* resilient_stream, rate_limited_stream and retry_stream                  *)
(* (src/agentic/resilience.py) on a RateLimiter they share with other      *)
(* callers: a stream takes one token, then runs the operation, and runs it *)
(* again from its start when it fails.                                     *)
(*                                                                         *)
(* Each yield and await of a stream is a value of `stage`.  A stream with  *)
(* no retry_config is one with max_attempts = 1: its first failure is      *)
(* raised.  Items are counted; how long a backoff lasts is left open.      *)
(***************************************************************************)
EXTENDS RateLimiter, Sequences

CONSTANTS
    Streams,        \* the clients that are streams
    MaxAttempts,    \* the largest RetryConfig.max_attempts
    MaxItems        \* bound: the items of one run of the operation

ASSUME StreamsAssumption == Streams \subseteq Clients /\ 1 \in Amounts
ASSUME AttemptsAssumption == MaxAttempts \in Nat /\ MaxItems \in Nat

VARIABLES
    stage,          \* where each stream stands
    options,        \* whether it has a rate_limiter, and its max_attempts
    runs,           \* the runs of its operation so far: the items handed on, and how it ended
    retries,        \* ghost: the RetryEvents its consumer got
    charged         \* ghost: the tokens it took
streamVars == <<stage, options, runs, retries, charged>>
allVars == <<vars, streamVars>>

Options == [limited : BOOLEAN, attempts : 0..MaxAttempts]
Run == [items : 0..MaxItems, ended : {"open", "done", "retryable", "fatal"}]

Before == {"idle", "acquiring", "granted"}
Over == {"done", "raised", "closed"}

StreamInit ==
    /\ Init
    /\ stage = [s \in Streams |-> "idle"]
    /\ options \in [Streams -> Options]
    /\ runs = [s \in Streams |-> <<>>]
    /\ retries = [s \in Streams |-> 0]
    /\ charged = [s \in Streams |-> 0]

To(s, where) == stage' = [stage EXCEPT ![s] = where]

Last(s) == runs[s][Len(runs[s])]
LastBecomes(s, run) == runs' = [runs EXCEPT ![s][Len(runs[s])] = run]

-----------------------------------------------------------------------------
(* The token *)

\* The stream's acquire was served, or waits.
Acquiring(s) ==
    /\ IF waiting'[s] = 0
       THEN To(s, "granted") /\ charged' = [charged EXCEPT ![s] = @ + 1]
       ELSE To(s, "acquiring") /\ UNCHANGED charged
    /\ UNCHANGED <<options, runs, retries>>

\* A consumer asks a limited stream for its first item.
AcquireToken(s) ==
    /\ stage[s] = "idle" /\ options[s].limited
    /\ AcquireStep(s, 1) /\ UNCHANGED clock
    /\ Acquiring(s)

WakeToken(s) == stage[s] = "acquiring" /\ Wake(s) /\ Acquiring(s)

-----------------------------------------------------------------------------
(* The attempts *)

\* The next attempt, if there is one: range(max_attempts) may be empty.
Attempt(s) ==
    IF Len(runs[s]) < options[s].attempts
    THEN /\ To(s, "running")
         /\ runs' = [runs EXCEPT ![s] = Append(@, [items |-> 0, ended |-> "open"])]
    ELSE To(s, "done") /\ UNCHANGED runs

\* The consumer goes on after the RateLimitEvent, or asks an unlimited stream.
FirstAttempt(s) ==
    /\ stage[s] = "granted" \/ (stage[s] = "idle" /\ ~options[s].limited)
    /\ Attempt(s)
    /\ UNCHANGED <<vars, options, retries, charged>>

\* The operation gives an item, which is handed on.
Item(s) ==
    /\ stage[s] = "running" /\ Last(s).items < MaxItems
    /\ LastBecomes(s, [Last(s) EXCEPT !.items = @ + 1])
    /\ UNCHANGED <<vars, stage, options, retries, charged>>

Completes(s) ==
    /\ stage[s] = "running"
    /\ LastBecomes(s, [Last(s) EXCEPT !.ended = "done"])
    /\ To(s, "done")
    /\ UNCHANGED <<vars, options, retries, charged>>

\* Mutant: any failure is followed by a further attempt.
FailsUncounted(s) ==
    /\ stage[s] = "running"
    /\ LastBecomes(s, [Last(s) EXCEPT !.ended = "retryable"])
    /\ To(s, "retrying")
    /\ retries' = [retries EXCEPT ![s] = @ + 1]
    /\ UNCHANGED <<vars, options, charged>>

\* The operation raises one of retry_on: RetryEvent while attempts are left.
Fails(s) ==
    /\ stage[s] = "running"
    /\ LastBecomes(s, [Last(s) EXCEPT !.ended = "retryable"])
    /\ IF Len(runs[s]) < options[s].attempts
       THEN To(s, "retrying") /\ retries' = [retries EXCEPT ![s] = @ + 1]
       ELSE To(s, "raised") /\ UNCHANGED retries
    /\ UNCHANGED <<vars, options, charged>>

\* Any other error leaves the stream at once.
FailsForGood(s) ==
    /\ stage[s] = "running"
    /\ LastBecomes(s, [Last(s) EXCEPT !.ended = "fatal"])
    /\ To(s, "raised")
    /\ UNCHANGED <<vars, options, retries, charged>>

\* The backoff is over.
NextAttempt(s) ==
    /\ stage[s] = "retrying"
    /\ Attempt(s)
    /\ UNCHANGED <<vars, options, retries, charged>>

\* The consumer closes the stream, or its task is cancelled; a waiting acquire is given up.
Close(s) ==
    /\ stage[s] \notin Over \cup {"idle"}
    /\ IF stage[s] = "acquiring" THEN GiveUp(s) ELSE UNCHANGED vars
    /\ To(s, "closed")
    /\ UNCHANGED <<options, runs, retries, charged>>

-----------------------------------------------------------------------------
StreamStep(s) ==
    \/ AcquireToken(s) \/ WakeToken(s)
    \/ FirstAttempt(s) \/ Item(s) \/ Completes(s) \/ Fails(s) \/ FailsForGood(s) \/ NextAttempt(s)
    \/ Close(s)

OthersStep ==
    /\ \/ \E c \in Clients \ Streams : Acquire(c) \/ Wake(c) \/ GiveUp(c) \/ TryAcquire(c)
       \/ Tick \/ OpenWindow
    /\ UNCHANGED streamVars

StreamNext == OthersStep \/ \E s \in Streams : StreamStep(s)

StreamSpec == StreamInit /\ [][StreamNext]_allVars

-----------------------------------------------------------------------------
StreamTypeOK ==
    /\ stage \in [Streams -> Before \cup {"running", "retrying"} \cup Over]
    /\ options \in [Streams -> Options]
    /\ runs \in [Streams -> Seq(Run)]
    /\ retries \in [Streams -> Nat]
    /\ charged \in [Streams -> Nat]

\* A stream runs its operation at most max_attempts times, only after a failure that may be
\* retried, each announced by one RetryEvent; it ends well with a complete run (or none, when
\* max_attempts is zero) and raises only what was not to be retried or came in the last attempt;
\* and it takes one token before its first run and none for the others.
RetriedWithinBudget ==
    \A s \in Streams :
        LET n == Len(runs[s]) IN
        /\ n <= options[s].attempts
        /\ \A k \in 1..(n - 1) : runs[s][k].ended = "retryable"
        /\ n > 0 => retries[s] = IF Last(s).ended = "retryable" /\ n < options[s].attempts
                                 THEN n ELSE n - 1
        /\ stage[s] = "done" => IF n = 0 THEN options[s].attempts = 0 ELSE Last(s).ended = "done"
        /\ stage[s] = "raised" =>
               \/ Last(s).ended = "fatal"
               \/ Last(s).ended = "retryable" /\ n = options[s].attempts
        /\ n > 0 => charged[s] = IF options[s].limited THEN 1 ELSE 0

=============================================================================
