---------------------------- MODULE RateLimiter ----------------------------
(***************************************************************************)
(* RateLimiter (src/agentic/resilience.py): a token bucket shared by the   *)
(* coroutines of one event loop.                                           *)
(*                                                                         *)
(* Each coroutine runs from the entry of `async with self._condition` to   *)
(* its end, or to its next condition.wait(), with no other await: that     *)
(* stretch is one step.  A waiting coroutine may wake at any time          *)
(* (notify_all or its timeout of at most 0.1 s) and tests again.           *)
(*                                                                         *)
(* Time and tokens are whole numbers of a unit small enough for the        *)
(* configured rate; the code uses floats.  The clock does not step back.   *)
(***************************************************************************)
EXTENDS Integers

CONSTANTS
    Clients,    \* the coroutines that share the limiter
    Amounts,    \* the numbers of tokens they ask for
    Burst,      \* RateLimitConfig.burst_size
    Rate,       \* _refill_rate: tokens per unit of time, the most restrictive limit
    MaxTime     \* bound: the clock stops here

ASSUME LimitAssumption == Burst \in Nat /\ Rate \in Nat \ {0} /\ MaxTime \in Nat
ASSUME AmountsAssumption == Amounts \subseteq Nat \ {0}

VARIABLES
    clock,          \* time.time()
    tokens,         \* _tokens
    lastUpdate,     \* _last_update
    waiting,        \* the tokens each coroutine in condition.wait() asked for, 0 if none
    granted,        \* ghost: tokens handed out since the start
    window          \* ghost: an observer's window: whether it is open, since when, and
                    \* the tokens handed out in it
vars == <<clock, tokens, lastUpdate, waiting, granted, window>>

Least(a, b) == IF a < b THEN a ELSE b

NoWindow == [open |-> FALSE, since |-> 0, grants |-> 0]

Init ==
    /\ clock = 0
    /\ tokens = Burst
    /\ lastUpdate = 0
    /\ waiting = [c \in Clients |-> 0]
    /\ granted = 0
    /\ window = NoWindow

\* Mutant: the credit is not capped.
RefilledUncapped == tokens + (clock - lastUpdate) * Rate

\* _refill_tokens: what the bucket holds once the time since the last update is credited.
Refilled == Least(tokens + (clock - lastUpdate) * Rate, Burst)

\* self._tokens -= tokens, from a bucket holding `available`.
Take(available, amount) ==
    /\ tokens' = available - amount
    /\ granted' = granted + amount
    /\ window' = IF window.open THEN [window EXCEPT !.grants = @ + amount] ELSE window

\* Mutant: the time of the update is not recorded.
RefillWithoutStamp ==
    /\ tokens' = Refilled
    /\ UNCHANGED <<lastUpdate, granted, window>>

\* The bucket is credited and nothing is taken.
Refill ==
    /\ tokens' = Refilled
    /\ lastUpdate' = clock
    /\ UNCHANGED <<granted, window>>

\* Mutant: any positive number of tokens will do.
TakeAtOnceIfAny(amount) ==
    /\ tokens > 0
    /\ Take(tokens, amount)
    /\ UNCHANGED lastUpdate

\* A full enough bucket is not credited first: _last_update stays as it is.
TakeAtOnce(amount) ==
    /\ tokens >= amount
    /\ Take(tokens, amount)
    /\ UNCHANGED lastUpdate

TakeAfterRefill(amount) ==
    /\ tokens < amount /\ Refilled >= amount
    /\ Take(Refilled, amount)
    /\ lastUpdate' = clock

\* _wait_for_tokens and the subtraction after it, up to the next wait: c, which wants
\* `amount`, is served or (re)starts to wait.
AcquireStep(c, amount) ==
    \/ /\ TakeAtOnce(amount) \/ TakeAfterRefill(amount)
       /\ waiting' = [waiting EXCEPT ![c] = 0]
    \/ /\ tokens < amount /\ Refilled < amount
       /\ Refill
       /\ waiting' = [waiting EXCEPT ![c] = amount]

\* acquire
Acquire(c) ==
    /\ waiting[c] = 0
    /\ \E amount \in Amounts : AcquireStep(c, amount)
    /\ UNCHANGED clock

\* condition.wait() was notified or timed out.
Wake(c) ==
    /\ waiting[c] # 0
    /\ AcquireStep(c, waiting[c])
    /\ UNCHANGED clock

\* The coroutine is cancelled while it waits.
GiveUp(c) ==
    /\ waiting[c] # 0
    /\ waiting' = [waiting EXCEPT ![c] = 0]
    /\ UNCHANGED <<clock, tokens, lastUpdate, granted, window>>

\* try_acquire always credits the bucket first, and returns False without waiting.
TryAcquire(c) ==
    /\ waiting[c] = 0
    /\ \E amount \in Amounts :
        \/ /\ Refilled >= amount
           /\ Take(Refilled, amount)
           /\ lastUpdate' = clock
        \/ /\ Refilled < amount
           /\ Refill
    /\ UNCHANGED <<clock, waiting>>

Tick ==
    /\ clock < MaxTime
    /\ clock' \in (clock + 1)..MaxTime
    /\ UNCHANGED <<tokens, lastUpdate, waiting, granted, window>>

\* An observer starts to count what is granted from now on.
OpenWindow ==
    /\ ~window.open
    /\ window' = [open |-> TRUE, since |-> clock, grants |-> 0]
    /\ UNCHANGED <<clock, tokens, lastUpdate, waiting, granted>>

Next ==
    \/ \E c \in Clients : Acquire(c) \/ Wake(c) \/ GiveUp(c) \/ TryAcquire(c)
    \/ Tick
    \/ OpenWindow

Spec == Init /\ [][Next]_vars

-----------------------------------------------------------------------------
\* Each variable holds a value of its type; the bucket is never overdrawn nor overfull.
TypeOK ==
    /\ clock \in Nat
    /\ lastUpdate \in 0..clock
    /\ tokens \in 0..Burst
    /\ waiting \in [Clients -> Nat]
    /\ granted \in Nat
    /\ window \in [open : BOOLEAN, since : 0..clock, grants : Nat]

\* Since the limiter was created no more was granted than its initial burst and what the
\* rate allows for the time that has passed, whatever the interleaving of acquire,
\* try_acquire, wake-ups and cancellations.
TotalBound == granted <= Burst + Rate * clock

\* Why: what was granted and what is left were both credited, by the last update.
CreditInvariant == granted + tokens <= Burst + Rate * lastUpdate

\* In any window of time, no more than twice the burst and what the rate allows for its
\* length: acquire spends a full bucket without crediting it, so an idle time that filled
\* the bucket is credited a second time after the bucket is spent.
WindowBound == window.open => window.grants <= 2 * Burst + Rate * (clock - window.since)

\* Why: until the first update inside the window only what was in the bucket can be granted;
\* that update may fill the bucket anew, and from then on every token is credited once.
WindowInvariant ==
    window.open =>
        \/ window.grants + tokens <= Burst
        \/ /\ window.since <= lastUpdate
           /\ window.grants + tokens <= 2 * Burst + Rate * (lastUpdate - window.since)

-----------------------------------------------------------------------------
\* "Token bucket burst capacity" and, for a burst of 1, "No bursting, strict 10/sec": in any
\* window no more than the burst and what the rate allows for its length.
StrictWindowBound == window.open => window.grants <= Burst + Rate * (clock - window.since)
=============================================================================
