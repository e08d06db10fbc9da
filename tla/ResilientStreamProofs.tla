----------------------- MODULE ResilientStreamProofs -----------------------
(***************************************************************************)
(* The limiter, for every burst size, rate, set of amounts and set of      *)
(* coroutines: the token bucket is never overdrawn, its grants since the   *)
(* start respect TotalBound and those of any window respect WindowBound.   *)
(* A step that serves a request may credit the bucket and then take from   *)
(* it, so the bucket's invariant is stated on values and not on variables: *)
(* crediting preserves it, taking preserves it, and so does one after the  *)
(* other.                                                                  *)
(*                                                                         *)
(* The streams, for every set of them and every max_attempts: a stream     *)
(* keeps within its budget (RetriedWithinBudget), and streams use the      *)
(* limiter as any other caller does, so that what is proved of it holds of *)
(* them.  A step concerns one stream.  The invariant of a stream is stated *)
(* on values too (Account), so that each action reduces to a fact about    *)
(* the values it leaves at its stream, and OnlyOne does the rest.          *)
(***************************************************************************)
EXTENDS ResilientStream, SequenceTheorems, TLAPS


Windows(now) == [open : BOOLEAN, since : 0..now, grants : Nat]

\* A bucket with `left` tokens last credited at `last`, `spent` in all and `w` in the window.
Bucket(left, last, spent, w) ==
    /\ left \in 0..Burst
    /\ last \in 0..clock
    /\ spent \in Nat
    /\ w \in Windows(clock)
    /\ spent + left <= Burst + Rate * last
    /\ w.open => \/ w.grants + left <= Burst
                 \/ /\ w.since <= last
                    /\ w.grants + left <= 2 * Burst + Rate * (last - w.since)

\* If spent + left is within allowance + then, and left grows by at most now - then, the sum
\* is within allowance + now.
LEMMA CreditMoves ==
    ASSUME NEW spent \in Int, NEW left \in Int, NEW credited \in Int, NEW allowance \in Int,
           NEW then \in Int, NEW now \in Int,
           spent + left <= allowance + then,
           credited + then <= left + now
    PROVE  spent + credited <= allowance + now
BY SMT

\* What is credited never exceeds the rate for the time since the last update, and the
\* bucket holds it.
LEMMA RefilledFacts ==
    ASSUME clock \in Nat, lastUpdate \in 0..clock, tokens \in 0..Burst
    PROVE  /\ Refilled \in 0..Burst
           /\ Refilled + Rate * lastUpdate <= tokens + Rate * clock
<1>1. PICK credit \in Nat : credit = (clock - lastUpdate) * Rate
  <2>1. clock - lastUpdate \in Nat
    OBVIOUS
  <2>2. (clock - lastUpdate) * Rate \in Nat
    BY <2>1, LimitAssumption
  <2> QED
    BY <2>2
<1>2. credit = Rate * clock - Rate * lastUpdate
  BY <1>1, LimitAssumption
<1>3. Refilled = Least(tokens + credit, Burst)
  BY <1>1 DEF Refilled
<1>4. Rate * clock \in Int /\ Rate * lastUpdate \in Int
  BY LimitAssumption
<1> QED
  BY <1>1, <1>2, <1>3, <1>4, LimitAssumption DEF Least

-----------------------------------------------------------------------------
\* Crediting the bucket preserves its invariant.
LEMMA RefillPreserves ==
    ASSUME clock \in Nat, Bucket(tokens, lastUpdate, granted, window)
    PROVE  Bucket(Refilled, clock, granted, window)
<1>1. /\ tokens \in 0..Burst /\ lastUpdate \in 0..clock /\ granted \in Nat
      /\ window \in Windows(clock)
  BY DEF Bucket
<1>2. Refilled \in 0..Burst /\ Refilled + Rate * lastUpdate <= tokens + Rate * clock
  BY <1>1, RefilledFacts
<1>3. granted + Refilled <= Burst + Rate * clock
  <2>1. Rate * clock \in Int /\ Rate * lastUpdate \in Int
    BY <1>1, LimitAssumption
  <2>2. granted \in Int /\ tokens \in Int /\ Refilled \in Int /\ Burst \in Int
    BY <1>1, <1>2, LimitAssumption
  <2>3. granted + tokens <= Burst + Rate * lastUpdate
    BY DEF Bucket
  <2> QED
    BY <2>1, <2>2, <2>3, <1>2, CreditMoves
<1>4. ASSUME window.open
      PROVE  /\ window.since <= clock
             /\ window.grants + Refilled <= 2 * Burst + Rate * (clock - window.since)
  <2>1. window.since \in 0..clock /\ window.grants \in Nat
    BY <1>1 DEF Windows
  <2>2. Rate * (clock - window.since) \in Nat
    BY <2>1, LimitAssumption
  <2>3. CASE window.grants + tokens <= Burst
    <3>1. window.grants <= Burst /\ Refilled <= Burst
      BY <2>3, <2>1, <1>1, <1>2, LimitAssumption
    <3> QED
      BY <3>1, <2>1, <2>2, <1>2, LimitAssumption
  <2>4. CASE /\ window.since <= lastUpdate
             /\ window.grants + tokens <= 2 * Burst + Rate * (lastUpdate - window.since)
    <3>1. /\ Rate * clock \in Int /\ Rate * lastUpdate \in Int
          /\ Rate * (clock - window.since) \in Int /\ Rate * (lastUpdate - window.since) \in Int
      BY <2>1, <1>1, LimitAssumption
    <3>2. Rate * (clock - window.since) - Rate * (lastUpdate - window.since)
            = Rate * clock - Rate * lastUpdate
      BY <2>1, <1>1, LimitAssumption
    <3>3. window.grants \in Int /\ tokens \in Int /\ Refilled \in Int /\ 2 * Burst \in Int
      BY <2>1, <1>1, <1>2, LimitAssumption
    <3>4. Refilled + Rate * (lastUpdate - window.since) <= tokens + Rate * (clock - window.since)
      BY <3>1, <3>2, <3>3, <1>2
    <3>5. window.grants + Refilled <= 2 * Burst + Rate * (clock - window.since)
      BY <3>1, <3>3, <3>4, <2>4, CreditMoves
    <3> QED
      BY <3>5, <2>1
  <2> QED
    BY <1>4, <2>3, <2>4 DEF Bucket
<1> QED
  BY <1>1, <1>2, <1>3, <1>4 DEF Bucket

\* Taking tokens that the bucket holds preserves its invariant.
LEMMA TakePreserves ==
    ASSUME clock \in Nat, NEW left, NEW last, Bucket(left, last, granted, window),
           NEW amount \in Nat, left >= amount, Take(left, amount)
    PROVE  Bucket(tokens', last, granted', window')
<1>1. left \in 0..Burst /\ last \in 0..clock /\ granted \in Nat /\ window \in Windows(clock)
  BY DEF Bucket
<1>2. /\ tokens' = left - amount /\ granted' = granted + amount
      /\ tokens' \in 0..Burst /\ granted' \in Nat
      /\ granted' + tokens' = granted + left
  BY <1>1, LimitAssumption DEF Take
<1>3. CASE window.open
  <2>1. /\ window' \in Windows(clock) /\ window'.since = window.since
        /\ window'.grants = window.grants + amount /\ window.grants \in Nat
    BY <1>1, <1>3 DEF Take, Windows
  <2>2. window'.grants + tokens' = window.grants + left
    BY <2>1, <1>1, <1>2, LimitAssumption
  <2> QED
    BY <1>1, <1>2, <1>3, <2>1, <2>2 DEF Bucket
<1>4. CASE ~window.open
  <2>1. window' = window
    BY <1>4 DEF Take
  <2> QED
    BY <1>1, <1>2, <1>4, <2>1 DEF Bucket
<1> QED
  BY <1>3, <1>4

-----------------------------------------------------------------------------
\* The inductive invariant: the types, and the bucket's invariant on the current values.
IInv ==
    /\ clock \in Nat
    /\ waiting \in [Clients -> Nat]
    /\ Bucket(tokens, lastUpdate, granted, window)

LEMMA InvImplied == IInv => TypeOK /\ CreditInvariant /\ WindowInvariant
BY DEF IInv, Bucket, Windows, TypeOK, CreditInvariant, WindowInvariant

LEMMA InitEstablishes == Init => IInv
<1> SUFFICES ASSUME Init PROVE IInv
  OBVIOUS
<1>1. Rate * 0 = 0
  BY LimitAssumption
<1> QED
  BY <1>1, LimitAssumption DEF Init, IInv, Bucket, Windows, NoWindow

\* Serving a request, or failing to, preserves the bucket's invariant.
LEMMA AcquireStepPreserves ==
    ASSUME IInv, NEW c \in Clients, NEW amount \in Nat, AcquireStep(c, amount), clock' = clock
    PROVE  IInv'
<1>1. waiting' \in [Clients -> Nat]
  BY DEF IInv, AcquireStep
<1>2. Bucket(Refilled, clock, granted, window)
  BY RefillPreserves DEF IInv
<1>3. CASE TakeAtOnce(amount)
  <2>1. Bucket(tokens', lastUpdate, granted', window')
    BY <1>3, TakePreserves DEF IInv, TakeAtOnce
  <2> QED
    BY <1>1, <1>3, <2>1 DEF IInv, TakeAtOnce, Bucket
<1>4. CASE TakeAfterRefill(amount)
  <2>1. Bucket(tokens', clock, granted', window')
    BY <1>2, <1>4, TakePreserves DEF IInv, TakeAfterRefill
  <2> QED
    BY <1>1, <1>4, <2>1 DEF IInv, TakeAfterRefill, Bucket
<1>5. CASE Refill
  BY <1>1, <1>2, <1>5 DEF IInv, Refill, Bucket
<1> QED
  BY <1>3, <1>4, <1>5 DEF AcquireStep

LEMMA NextPreserves == IInv /\ [Next]_vars => IInv'
<1> SUFFICES ASSUME IInv, [Next]_vars PROVE IInv'
  OBVIOUS
<1>1. CASE \E c \in Clients : Acquire(c)
  <2>1. PICK c \in Clients, amount \in Amounts : AcquireStep(c, amount) /\ clock' = clock
    BY <1>1 DEF Acquire
  <2> QED
    BY <2>1, AcquireStepPreserves, AmountsAssumption
<1>2. CASE \E c \in Clients : Wake(c)
  <2>1. PICK c \in Clients : AcquireStep(c, waiting[c]) /\ clock' = clock
    BY <1>2 DEF Wake
  <2>2. waiting[c] \in Nat
    BY DEF IInv
  <2> QED
    BY <2>1, <2>2, AcquireStepPreserves
<1>3. CASE \E c \in Clients : GiveUp(c)
  BY <1>3 DEF GiveUp, IInv, Bucket
<1>4. CASE \E c \in Clients : TryAcquire(c)
  <2>1. Bucket(Refilled, clock, granted, window)
    BY RefillPreserves DEF IInv
  <2>2. PICK amount \in Amounts :
            /\ \/ Refilled >= amount /\ Take(Refilled, amount) /\ lastUpdate' = clock
               \/ Refill
            /\ UNCHANGED <<clock, waiting>>
    BY <1>4 DEF TryAcquire
  <2>3. CASE Refill
    BY <2>1, <2>2, <2>3 DEF IInv, Refill, Bucket
  <2>4. CASE Refilled >= amount /\ Take(Refilled, amount) /\ lastUpdate' = clock
    <3>1. Bucket(tokens', clock, granted', window')
      BY <2>1, <2>4, TakePreserves, AmountsAssumption DEF IInv
    <3> QED
      BY <2>2, <2>4, <3>1 DEF IInv, Bucket
  <2> QED
    BY <2>2, <2>3, <2>4
<1>5. CASE Tick
  <2>1. /\ clock' \in Nat /\ clock' >= clock
        /\ UNCHANGED <<tokens, lastUpdate, waiting, granted, window>>
    BY <1>5, LimitAssumption DEF Tick, IInv
  <2>2. lastUpdate \in 0..clock' /\ window \in Windows(clock')
    BY <2>1 DEF IInv, Bucket, Windows
  <2> QED
    BY <2>1, <2>2 DEF IInv, Bucket
<1>6. CASE OpenWindow
  <2>1. window' = [open |-> TRUE, since |-> clock, grants |-> 0]
    BY <1>6 DEF OpenWindow
  <2>2. window' \in Windows(clock) /\ window'.grants = 0
    BY <2>1 DEF IInv, Windows
  <2>3. window'.grants + tokens <= Burst
    BY <2>2, LimitAssumption DEF IInv, Bucket
  <2> QED
    BY <1>6, <2>2, <2>3 DEF IInv, Bucket, OpenWindow
<1>7. CASE UNCHANGED vars
  BY <1>7 DEF vars, IInv, Bucket
<1> QED
  BY <1>1, <1>2, <1>3, <1>4, <1>5, <1>6, <1>7 DEF Next

LEMMA Invariance == Spec => []IInv
BY InitEstablishes, NextPreserves, PTL DEF Spec

-----------------------------------------------------------------------------
\* The bucket is never overdrawn nor overfull, and every variable has its type.
THEOREM TypeCorrect == Spec => []TypeOK
BY Invariance, InvImplied, PTL

\* The grants since the start: what was granted was credited by the last update.
THEOREM TotalBounded == Spec => []TotalBound
<1>1. IInv => TotalBound
  <2> SUFFICES ASSUME IInv PROVE TotalBound
    OBVIOUS
  <2>1. Rate * lastUpdate <= Rate * clock
    BY LimitAssumption DEF IInv, Bucket
  <2>2. Rate * lastUpdate \in Int /\ Rate * clock \in Int
    BY LimitAssumption DEF IInv, Bucket
  <2>3. /\ granted + tokens <= Burst + Rate * lastUpdate
        /\ granted \in Nat /\ tokens \in Nat /\ Burst \in Nat
    BY LimitAssumption DEF IInv, Bucket
  <2> QED
    BY <2>1, <2>2, <2>3 DEF TotalBound
<1> QED
  BY <1>1, Invariance, PTL

\* The grants of any window of time: at most twice the burst beyond what the rate allows.
THEOREM WindowBounded == Spec => []WindowBound
<1>1. IInv => WindowBound
  <2> SUFFICES ASSUME IInv, window.open
               PROVE  window.grants <= 2 * Burst + Rate * (clock - window.since)
    BY DEF WindowBound
  <2>1. /\ window.since \in 0..clock /\ window.grants \in Nat /\ lastUpdate \in 0..clock
        /\ clock \in Nat /\ tokens \in Nat /\ Burst \in Nat
    BY LimitAssumption DEF IInv, Bucket, Windows
  <2>2. Rate * (clock - window.since) \in Nat
    BY <2>1, LimitAssumption
  <2>3. CASE window.grants + tokens <= Burst
    BY <2>1, <2>2, <2>3
  <2>4. CASE /\ window.since <= lastUpdate
             /\ window.grants + tokens <= 2 * Burst + Rate * (lastUpdate - window.since)
    <3>1. Rate * (lastUpdate - window.since) <= Rate * (clock - window.since)
      BY <2>1, <2>4, LimitAssumption
    <3>2. Rate * (lastUpdate - window.since) \in Int
      BY <2>1, LimitAssumption
    <3> QED
      BY <2>1, <2>2, <2>4, <3>1, <3>2
  <2> QED
    BY <2>3, <2>4 DEF IInv, Bucket
<1> QED
  BY <1>1, Invariance, PTL

-----------------------------------------------------------------------------
(* The streams.                                                            *)

Stages == Before \cup {"running", "retrying"} \cup Over

\* The retries announced after the runs `rs`.
Announced(rs, attempts) ==
    IF rs[Len(rs)].ended = "retryable" /\ Len(rs) < attempts THEN Len(rs) ELSE Len(rs) - 1

\* A stream at `where` with options `opt` that made the runs `rs`, announced `told` retries and
\* took `took` tokens.
Account(where, opt, rs, told, took) ==
    /\ Len(rs) <= opt.attempts
    /\ \A k \in 1..(Len(rs) - 1) : rs[k].ended = "retryable"
    /\ where \in Before => rs = <<>> /\ told = 0
    /\ where = "idle" => took = 0
    /\ where = "acquiring" => took = 0 /\ opt.limited
    /\ where = "granted" => took = 1 /\ opt.limited
    /\ rs # <<>> => /\ took = IF opt.limited THEN 1 ELSE 0
                    /\ told = Announced(rs, opt.attempts)
    /\ where = "running" => rs # <<>> /\ rs[Len(rs)].ended = "open"
    /\ where = "retrying" => /\ rs # <<>> /\ Len(rs) < opt.attempts
                             /\ rs[Len(rs)].ended = "retryable"
    /\ where = "done" => IF rs = <<>> THEN opt.attempts = 0 ELSE rs[Len(rs)].ended = "done"
    /\ where = "raised" => /\ rs # <<>>
                           /\ \/ rs[Len(rs)].ended = "fatal"
                              \/ rs[Len(rs)].ended = "retryable" /\ Len(rs) = opt.attempts

AccountOf(s) == Account(stage[s], options[s], runs[s], retries[s], charged[s])

\* A stream that is not in acquire holds no place among the waiting.
Waits ==
    /\ waiting \in [Clients -> Nat]
    /\ \A s \in Streams : stage[s] # "acquiring" => waiting[s] = 0

StreamInv ==
    /\ StreamTypeOK
    /\ Waits
    /\ \A s \in Streams : AccountOf(s)

USE DEF Before, Over

-----------------------------------------------------------------------------
(* The values a step leaves at its stream *)

\* A further run keeps the account, after a retry or as the first.
LEMMA FurtherRun ==
    ASSUME NEW where \in {"granted", "idle", "retrying"}, NEW opt \in Options,
           NEW rs \in Seq(Run), NEW told \in Nat, NEW took \in Nat,
           Account(where, opt, rs, told, took), Len(rs) < opt.attempts,
           where = "idle" => ~opt.limited
    PROVE  LET fresh == Append(rs, [items |-> 0, ended |-> "open"]) IN
           fresh \in Seq(Run) /\ Account("running", opt, fresh, told, took)
<1> DEFINE open == [items |-> 0, ended |-> "open"]
           fresh == Append(rs, open)
<1>1. open \in Run
  BY AttemptsAssumption DEF Run
<1>2. /\ fresh \in Seq(Run) /\ fresh # <<>> /\ Len(fresh) = Len(rs) + 1
      /\ \A i \in 1..Len(rs) : fresh[i] = rs[i]
      /\ fresh[Len(fresh)] = open
  BY <1>1, AppendProperties
<1>3. Len(rs) \in Nat /\ (rs # <<>> => Len(rs) # 0) /\ Len(<<>>) = 0
  BY LenProperties, EmptySeq
<1>4. opt.attempts \in Nat
  BY AttemptsAssumption DEF Options
<1> HIDE DEF fresh
<1>5. \A k \in 1..(Len(fresh) - 1) : fresh[k].ended = "retryable"
  <2> SUFFICES ASSUME NEW k \in 1..Len(rs) PROVE rs[k].ended = "retryable"
    BY <1>2, <1>3
  <2>1. CASE k < Len(rs)
    BY <2>1, <1>3 DEF Account
  <2>2. CASE k = Len(rs)
    BY <2>2, <1>3 DEF Account
  <2> QED
    BY <2>1, <2>2, <1>3
<1>6. told = Len(rs)
  BY <1>3, <1>4 DEF Account, Announced
<1>7. told = Announced(fresh, opt.attempts)
  BY <1>2, <1>3, <1>6 DEF Announced
<1>8. took = IF opt.limited THEN 1 ELSE 0
  BY <1>3 DEF Account
<1>9. Account("running", opt, fresh, told, took)
  BY <1>2, <1>3, <1>4, <1>5, <1>7, <1>8 DEF Account
<1> QED
  BY <1>2, <1>9 DEF fresh

\* What the last run becomes while it goes on or as it ends.
LEMMA LastRun ==
    ASSUME NEW rs \in Seq(Run), rs # <<>>, NEW run \in Run
    PROVE  LET new == [rs EXCEPT ![Len(rs)] = run] IN
           /\ new \in Seq(Run) /\ new # <<>> /\ Len(new) = Len(rs) /\ Len(rs) \in Nat \ {0}
           /\ new[Len(new)] = run
           /\ \A k \in 1..(Len(rs) - 1) : new[k] = rs[k]
<1>1. Len(rs) \in Nat \ {0}
  BY LenProperties, EmptySeq
<1>2. Len(rs) \in 1..Len(rs)
  BY <1>1
<1> DEFINE new == [rs EXCEPT ![Len(rs)] = run]
<1>3. /\ new \in Seq(Run) /\ Len(new) = Len(rs)
      /\ \A j \in 1..Len(rs) : new[j] = IF j = Len(rs) THEN run ELSE rs[j]
  BY <1>2, ExceptSeq
<1> HIDE DEF new
<1>4. new # <<>>
  BY <1>1, <1>3, EmptySeq
<1>5. new[Len(new)] = run
  BY <1>2, <1>3
<1>6. \A k \in 1..(Len(rs) - 1) : new[k] = rs[k]
  BY <1>1, <1>3
<1> QED
  BY <1>1, <1>3, <1>4, <1>5, <1>6 DEF new

\* The ways in which a run goes on or ends, and where the stream stands then.
LEMMA RunMoves ==
    ASSUME NEW opt \in Options, NEW rs \in Seq(Run), NEW told \in Nat, NEW took \in Nat,
           Account("running", opt, rs, told, took), NEW run \in Run
    PROVE  LET new == [rs EXCEPT ![Len(rs)] = run] IN
           /\ new \in Seq(Run)
           /\ run.ended = "open" => Account("running", opt, new, told, took)
           /\ run.ended = "done" => Account("done", opt, new, told, took)
           /\ run.ended = "fatal" => Account("raised", opt, new, told, took)
           /\ run.ended = "retryable" =>
                 IF Len(rs) < opt.attempts THEN Account("retrying", opt, new, told + 1, took)
                 ELSE Account("raised", opt, new, told, took)
<1>1. rs # <<>> /\ rs[Len(rs)].ended = "open"
  BY DEF Account
<1> DEFINE new == [rs EXCEPT ![Len(rs)] = run]
<1>2. /\ new \in Seq(Run) /\ new # <<>> /\ Len(new) = Len(rs) /\ Len(rs) \in Nat \ {0}
      /\ new[Len(new)] = run
      /\ \A k \in 1..(Len(rs) - 1) : new[k] = rs[k]
  BY <1>1, LastRun
<1> HIDE DEF new
<1>3. opt.attempts \in Nat
  BY AttemptsAssumption DEF Options
<1>4. told = Len(rs) - 1
  BY <1>1 DEF Account, Announced
<1>5. \A k \in 1..(Len(new) - 1) : new[k].ended = "retryable"
  BY <1>2 DEF Account
<1>6. /\ Len(new) <= opt.attempts
      /\ took = IF opt.limited THEN 1 ELSE 0
  BY <1>1, <1>2 DEF Account
<1>7. run.ended # "retryable" => told = Announced(new, opt.attempts)
  BY <1>2, <1>4 DEF Announced
<1>8. run.ended = "retryable" =>
          Announced(new, opt.attempts) = IF Len(rs) < opt.attempts THEN told + 1 ELSE told
  BY <1>2, <1>3, <1>4 DEF Announced
<1>9. /\ run.ended = "open" => Account("running", opt, new, told, took)
      /\ run.ended = "done" => Account("done", opt, new, told, took)
      /\ run.ended = "fatal" => Account("raised", opt, new, told, took)
  BY <1>2, <1>5, <1>6, <1>7 DEF Account
<1>10. ASSUME run.ended = "retryable"
       PROVE  IF Len(rs) < opt.attempts THEN Account("retrying", opt, new, told + 1, took)
              ELSE Account("raised", opt, new, told, took)
  BY <1>2, <1>3, <1>5, <1>6, <1>8, <1>10 DEF Account
<1> QED
  BY <1>2, <1>9, <1>10 DEF new

\* Closing keeps the account, wherever the stream stands.
LEMMA ClosedAccount ==
    ASSUME NEW where, NEW opt, NEW rs, NEW told, NEW took, Account(where, opt, rs, told, took)
    PROVE  Account("closed", opt, rs, told, took)
BY DEF Account

-----------------------------------------------------------------------------
(* Every step keeps the invariant *)

\* If a step changes the values of stream s only, and these keep its account, all accounts
\* are kept.
LEMMA OnlyOne ==
    ASSUME StreamInv, NEW s \in Streams,
           NEW where \in Stages, NEW rs \in Seq(Run), NEW told \in Nat, NEW took \in Nat,
           stage' = [stage EXCEPT ![s] = where], runs' = [runs EXCEPT ![s] = rs],
           retries' = [retries EXCEPT ![s] = told], charged' = [charged EXCEPT ![s] = took],
           options' = options,
           Account(where, options[s], rs, told, took)
    PROVE  StreamTypeOK' /\ \A t \in Streams : AccountOf(t)'
<1>1. StreamTypeOK
  BY DEF StreamInv
<1>2. StreamTypeOK'
  BY <1>1 DEF StreamTypeOK, Stages
<1>3. ASSUME NEW t \in Streams PROVE AccountOf(t)'
  <2>1. CASE t = s
    <3>1. /\ stage'[s] = where /\ options'[s] = options[s] /\ runs'[s] = rs
          /\ retries'[s] = told /\ charged'[s] = took
      BY <1>1 DEF StreamTypeOK
    <3> QED
      BY <2>1, <3>1 DEF AccountOf
  <2>2. CASE t # s
    <3>1. /\ stage'[t] = stage[t] /\ options'[t] = options[t] /\ runs'[t] = runs[t]
          /\ retries'[t] = retries[t] /\ charged'[t] = charged[t]
      BY <1>1, <2>2 DEF StreamTypeOK
    <3>2. AccountOf(t)
      BY DEF StreamInv
    <3> QED
      BY <3>1, <3>2 DEF AccountOf
  <2> QED
    BY <2>1, <2>2
<1> QED
  BY <1>2, <1>3

\* The values of a stream that a step leaves alone.
LEMMA Unchanging ==
    ASSUME StreamInv, NEW s \in Streams
    PROVE  /\ stage = [stage EXCEPT ![s] = stage[s]] /\ runs = [runs EXCEPT ![s] = runs[s]]
           /\ retries = [retries EXCEPT ![s] = retries[s]]
           /\ charged = [charged EXCEPT ![s] = charged[s]]
           /\ stage[s] \in Stages /\ options[s] \in Options /\ runs[s] \in Seq(Run)
           /\ retries[s] \in Nat /\ charged[s] \in Nat
           /\ AccountOf(s)
<1>1. StreamTypeOK /\ AccountOf(s)
  BY DEF StreamInv
<1>2. /\ stage \in [Streams -> Stages] /\ options \in [Streams -> Options]
      /\ runs \in [Streams -> Seq(Run)] /\ retries \in [Streams -> Nat]
      /\ charged \in [Streams -> Nat]
  BY <1>1 DEF StreamTypeOK, Stages
<1> QED
  BY <1>1, <1>2

\* A stream gets or loses its place among the waiting when its acquire begins or ends.
LEMMA WaitsKept ==
    ASSUME StreamInv, NEW s \in Streams, NEW where, NEW amount \in Nat,
           waiting' = [waiting EXCEPT ![s] = amount], stage' = [stage EXCEPT ![s] = where],
           where # "acquiring" => amount = 0
    PROVE  Waits'
<1>1. s \in Clients
  BY StreamsAssumption
<1> QED
  BY <1>1 DEF StreamInv, StreamTypeOK, Waits

LEMMA WaitsUntouched ==
    ASSUME StreamInv, NEW s \in Streams, NEW where,
           waiting' = waiting, stage' = [stage EXCEPT ![s] = where], stage[s] # "acquiring"
    PROVE  Waits'
BY DEF StreamInv, StreamTypeOK, Waits

\* acquire leaves the amount, or nothing, as what its caller waits for.
LEMMA AcquireLeaves ==
    ASSUME NEW c, NEW amount, AcquireStep(c, amount)
    PROVE  \/ waiting' = [waiting EXCEPT ![c] = 0]
           \/ waiting' = [waiting EXCEPT ![c] = amount]
BY DEF AcquireStep

\* What acquire or a wake-up does to the stream that holds the place.
LEMMA AcquiringKeeps ==
    ASSUME StreamInv, NEW s \in Streams, stage[s] \in {"idle", "acquiring"}, options[s].limited,
           NEW amount \in Nat, AcquireStep(s, amount), Acquiring(s)
    PROVE  StreamInv'
<1>1. s \in Clients /\ waiting \in [Clients -> Nat]
  BY StreamsAssumption DEF StreamInv, Waits
<1>2. PICK left \in {0, amount} : waiting' = [waiting EXCEPT ![s] = left]
  BY AcquireLeaves
<1>3. waiting'[s] = left
  BY <1>1, <1>2
<1>4. /\ runs' = [runs EXCEPT ![s] = runs[s]] /\ retries' = [retries EXCEPT ![s] = retries[s]]
      /\ charged = [charged EXCEPT ![s] = charged[s]] /\ options' = options
      /\ runs[s] \in Seq(Run) /\ retries[s] \in Nat /\ charged[s] \in Nat /\ AccountOf(s)
  BY Unchanging DEF Acquiring
<1>5. charged[s] = 0 /\ runs[s] = <<>> /\ retries[s] = 0
  BY <1>4 DEF AccountOf, Account
<1>6. options[s] \in Options /\ options[s].attempts \in Nat
  BY Unchanging, AttemptsAssumption DEF Options
<1>7. CASE left = 0
  <2>1. /\ stage' = [stage EXCEPT ![s] = "granted"]
        /\ charged' = [charged EXCEPT ![s] = 1]
    BY <1>3, <1>5, <1>7 DEF Acquiring, To
  <2>2. Account("granted", options[s], runs[s], retries[s], 1)
    BY <1>4, <1>5, <1>6 DEF AccountOf, Account
  <2>3. StreamTypeOK' /\ \A t \in Streams : AccountOf(t)'
    BY <1>4, <2>1, <2>2, OnlyOne DEF Stages
  <2>4. Waits'
    BY <1>2, <1>7, <2>1, WaitsKept
  <2> QED
    BY <2>3, <2>4 DEF StreamInv
<1>8. CASE left # 0
  <2>1. stage' = [stage EXCEPT ![s] = "acquiring"] /\ charged' = charged
    BY <1>3, <1>8 DEF Acquiring, To
  <2>2. Account("acquiring", options[s], runs[s], retries[s], charged[s])
    BY <1>4, <1>5, <1>6 DEF AccountOf, Account
  <2>3. StreamTypeOK' /\ \A t \in Streams : AccountOf(t)'
    BY <1>4, <2>1, <2>2, OnlyOne DEF Stages
  <2>4. Waits'
    BY <1>2, <2>1, WaitsKept
  <2> QED
    BY <2>3, <2>4 DEF StreamInv
<1> QED
  BY <1>7, <1>8

\* A run that goes on or ends: s leaves "running" for `where`, with `told` retries announced.
LEMMA RunKeeps ==
    ASSUME StreamInv, NEW s \in Streams, stage[s] = "running",
           NEW run \in Run, LastBecomes(s, run),
           NEW where \in Stages, NEW told \in Nat,
           stage' = [stage EXCEPT ![s] = where], retries' = [retries EXCEPT ![s] = told],
           UNCHANGED <<vars, options, charged>>,
           Account(where, options[s], [runs[s] EXCEPT ![Len(runs[s])] = run], told, charged[s])
    PROVE  StreamInv'
<1> DEFINE new == [runs[s] EXCEPT ![Len(runs[s])] = run]
<1>1. /\ runs[s] \in Seq(Run) /\ options[s] \in Options /\ charged[s] \in Nat
      /\ retries[s] \in Nat /\ charged = [charged EXCEPT ![s] = charged[s]]
      /\ Account("running", options[s], runs[s], retries[s], charged[s])
  BY Unchanging DEF AccountOf
<1>2. new \in Seq(Run)
  BY <1>1, RunMoves
<1>3. runs \in [Streams -> Seq(Run)]
  BY DEF StreamInv, StreamTypeOK
<1>4. runs' = [runs EXCEPT ![s] = new]
  BY <1>3 DEF LastBecomes
<1> HIDE DEF new
<1>5. Account(where, options[s], new, told, charged[s])
  BY DEF new
<1>6. charged' = [charged EXCEPT ![s] = charged[s]] /\ options' = options
  BY <1>1
<1>7. StreamTypeOK' /\ \A t \in Streams : AccountOf(t)'
  BY <1>1, <1>2, <1>4, <1>5, <1>6, OnlyOne
<1>8. Waits'
  BY WaitsUntouched DEF vars
<1> QED
  BY <1>7, <1>8 DEF StreamInv

\* The next run, or the end of a stream whose max_attempts is zero.
LEMMA AttemptKeeps ==
    ASSUME StreamInv, NEW s \in Streams,
           stage[s] \in {"granted", "idle", "retrying"}, stage[s] = "idle" => ~options[s].limited,
           Attempt(s), UNCHANGED <<vars, options, retries, charged>>
    PROVE  StreamInv'
<1>1. /\ runs[s] \in Seq(Run) /\ options[s] \in Options /\ charged[s] \in Nat
      /\ retries[s] \in Nat /\ charged = [charged EXCEPT ![s] = charged[s]]
      /\ retries = [retries EXCEPT ![s] = retries[s]]
      /\ runs = [runs EXCEPT ![s] = runs[s]]
      /\ Account(stage[s], options[s], runs[s], retries[s], charged[s])
  BY Unchanging DEF AccountOf
<1>2. Waits'
  <2>1. PICK where : stage' = [stage EXCEPT ![s] = where]
    BY DEF Attempt, To
  <2> QED
    BY <2>1, WaitsUntouched DEF vars
<1>3. CASE Len(runs[s]) < options[s].attempts
  <2> DEFINE fresh == Append(runs[s], [items |-> 0, ended |-> "open"])
  <2>1. fresh \in Seq(Run) /\ Account("running", options[s], fresh, retries[s], charged[s])
    BY <1>1, <1>3, FurtherRun
  <2>2. stage' = [stage EXCEPT ![s] = "running"]
    BY <1>3 DEF Attempt, To
  <2>3. runs' = [runs EXCEPT ![s] = fresh]
    BY <1>3 DEF Attempt
  <2> HIDE DEF fresh
  <2>4. StreamTypeOK' /\ \A t \in Streams : AccountOf(t)'
    BY <1>1, <2>1, <2>2, <2>3, OnlyOne DEF Stages
  <2> QED
    BY <1>2, <2>4 DEF StreamInv
<1>4. CASE ~(Len(runs[s]) < options[s].attempts)
  <2>1. options[s].attempts \in Nat /\ Len(runs[s]) \in Nat /\ Len(<<>>) = 0
    BY <1>1, AttemptsAssumption, LenProperties, EmptySeq DEF Options
  <2>2. runs[s] = <<>> /\ options[s].attempts = 0
    BY <1>1, <1>4, <2>1 DEF Account
  <2> DEFINE rs == runs[s]
             told == retries[s]
             took == charged[s]
  <2>3. Account("done", options[s], rs, told, took)
    BY <1>1, <2>2 DEF Account
  <2>4. stage' = [stage EXCEPT ![s] = "done"]
    BY <1>4 DEF Attempt, To
  <2>5. /\ runs' = [runs EXCEPT ![s] = rs] /\ options' = options
        /\ retries' = [retries EXCEPT ![s] = told]
        /\ charged' = [charged EXCEPT ![s] = took]
    BY <1>1, <1>4 DEF Attempt
  <2>6. "done" \in Stages /\ rs \in Seq(Run) /\ told \in Nat /\ took \in Nat
    BY <1>1 DEF Stages, Over
  <2> HIDE DEF rs, told, took
  <2>7. StreamTypeOK' /\ \A t \in Streams : AccountOf(t)'
    BY <2>3, <2>4, <2>5, <2>6, OnlyOne
  <2> QED
    BY <1>2, <2>7 DEF StreamInv
<1> QED
  BY <1>3, <1>4

\* A step of a stream keeps the invariant.
LEMMA StreamStepKeeps ==
    ASSUME StreamInv, NEW s \in Streams, StreamStep(s)
    PROVE  StreamInv'
<1>1. /\ runs[s] \in Seq(Run) /\ options[s] \in Options /\ charged[s] \in Nat
      /\ retries[s] \in Nat /\ charged = [charged EXCEPT ![s] = charged[s]]
      /\ retries = [retries EXCEPT ![s] = retries[s]]
      /\ runs = [runs EXCEPT ![s] = runs[s]] /\ stage = [stage EXCEPT ![s] = stage[s]]
      /\ stage[s] \in Stages
      /\ Account(stage[s], options[s], runs[s], retries[s], charged[s])
  BY Unchanging DEF AccountOf
<1>2. options[s].attempts \in Nat /\ Len(runs[s]) \in Nat
  BY <1>1, AttemptsAssumption, LenProperties DEF Options
<1>3. CASE AcquireToken(s)
  BY <1>3, AcquiringKeeps DEF AcquireToken
<1>4. CASE WakeToken(s)
  <2>1. AcquireStep(s, waiting[s]) /\ Acquiring(s) /\ stage[s] = "acquiring"
    BY <1>4 DEF WakeToken, Wake
  <2>2. waiting[s] \in Nat /\ options[s].limited
    BY <1>1, <2>1, StreamsAssumption DEF StreamInv, Waits, Account
  <2> QED
    BY <2>1, <2>2, AcquiringKeeps
<1>5. CASE FirstAttempt(s)
  BY <1>5, AttemptKeeps DEF FirstAttempt
<1>6. CASE NextAttempt(s)
  BY <1>6, AttemptKeeps DEF NextAttempt
<1>7. ASSUME stage[s] = "running"
      PROVE  Last(s) \in Run
  <2>1. runs[s] # <<>>
    BY <1>1, <1>7 DEF Account
  <2>2. Len(runs[s]) \in 1..Len(runs[s])
    BY <1>1, <2>1, EmptySeq
  <2> QED
    BY <1>1, <2>2, ElementOfSeq DEF Last
<1>8. CASE Item(s)
  <2> DEFINE run == [Last(s) EXCEPT !.items = @ + 1]
  <2>1. stage[s] = "running" /\ Last(s) \in Run /\ Last(s).ended = "open"
    BY <1>1, <1>7, <1>8 DEF Item, Account, Last
  <2>2. run \in Run /\ run.ended = "open"
    BY <1>8, <2>1, AttemptsAssumption DEF Item, Run
  <2>3. LastBecomes(s, run)
    BY <1>8 DEF Item
  <2> HIDE DEF run
  <2>4. Account("running", options[s], [runs[s] EXCEPT ![Len(runs[s])] = run],
                retries[s], charged[s])
    BY <1>1, <2>1, <2>2, RunMoves
  <2> QED
    BY <1>1, <1>8, <2>1, <2>2, <2>3, <2>4, RunKeeps DEF Item
<1>9. CASE Completes(s)
  <2> DEFINE run == [Last(s) EXCEPT !.ended = "done"]
  <2>1. stage[s] = "running" /\ run \in Run /\ run.ended = "done"
    BY <1>7, <1>9 DEF Completes, Run
  <2>2. LastBecomes(s, run) /\ stage' = [stage EXCEPT ![s] = "done"] /\ "done" \in Stages
    BY <1>9 DEF Completes, To, Stages
  <2> HIDE DEF run
  <2>3. Account("done", options[s], [runs[s] EXCEPT ![Len(runs[s])] = run], retries[s], charged[s])
    BY <1>1, <2>1, RunMoves
  <2> QED
    BY <1>1, <1>9, <2>1, <2>2, <2>3, RunKeeps DEF Completes
<1>10. CASE Fails(s)
  <2> DEFINE run == [Last(s) EXCEPT !.ended = "retryable"]
             new == [runs[s] EXCEPT ![Len(runs[s])] = run]
  <2>1. stage[s] = "running" /\ run \in Run /\ run.ended = "retryable"
    BY <1>7, <1>10 DEF Fails, Run
  <2>2. LastBecomes(s, run) /\ UNCHANGED <<vars, options, charged>>
    BY <1>10 DEF Fails
  <2> HIDE DEF run
  <2>3. IF Len(runs[s]) < options[s].attempts
        THEN Account("retrying", options[s], new, retries[s] + 1, charged[s])
        ELSE Account("raised", options[s], new, retries[s], charged[s])
    BY <1>1, <2>1, RunMoves
  <2>4. CASE Len(runs[s]) < options[s].attempts
    <3>1. /\ stage' = [stage EXCEPT ![s] = "retrying"] /\ "retrying" \in Stages
          /\ retries' = [retries EXCEPT ![s] = retries[s] + 1] /\ retries[s] + 1 \in Nat
      BY <1>1, <1>10, <2>4 DEF Fails, To, Stages
    <3> QED
      BY <2>1, <2>2, <2>3, <2>4, <3>1, RunKeeps
  <2>5. CASE ~(Len(runs[s]) < options[s].attempts)
    <3>1. /\ stage' = [stage EXCEPT ![s] = "raised"] /\ "raised" \in Stages
          /\ retries' = [retries EXCEPT ![s] = retries[s]]
      BY <1>1, <1>10, <2>5 DEF Fails, To, Stages
    <3> QED
      BY <1>1, <2>1, <2>2, <2>3, <2>5, <3>1, RunKeeps
  <2> QED
    BY <2>4, <2>5
<1>11. CASE FailsForGood(s)
  <2> DEFINE run == [Last(s) EXCEPT !.ended = "fatal"]
  <2>1. stage[s] = "running" /\ run \in Run /\ run.ended = "fatal"
    BY <1>7, <1>11 DEF FailsForGood, Run
  <2>2. LastBecomes(s, run) /\ stage' = [stage EXCEPT ![s] = "raised"] /\ "raised" \in Stages
    BY <1>11 DEF FailsForGood, To, Stages
  <2> HIDE DEF run
  <2>3. Account("raised", options[s], [runs[s] EXCEPT ![Len(runs[s])] = run],
                retries[s], charged[s])
    BY <1>1, <2>1, RunMoves
  <2> QED
    BY <1>1, <1>11, <2>1, <2>2, <2>3, RunKeeps DEF FailsForGood
<1>12. CASE Close(s)
  <2>1. stage' = [stage EXCEPT ![s] = "closed"] /\ "closed" \in Stages
    BY <1>12 DEF Close, To, Stages
  <2>2. Account("closed", options[s], runs[s], retries[s], charged[s])
    BY <1>1, ClosedAccount
  <2>3. /\ runs' = [runs EXCEPT ![s] = runs[s]] /\ retries' = [retries EXCEPT ![s] = retries[s]]
        /\ charged' = [charged EXCEPT ![s] = charged[s]] /\ options' = options
        /\ runs[s] \in Seq(Run) /\ retries[s] \in Nat /\ charged[s] \in Nat
    BY <1>1, <1>12 DEF Close
  <2>4. StreamTypeOK' /\ \A t \in Streams : AccountOf(t)'
    BY <2>1, <2>2, <2>3, OnlyOne
  <2>5. Waits'
    <3>1. CASE stage[s] = "acquiring"
      BY <1>12, <2>1, <3>1, WaitsKept DEF Close, GiveUp
    <3>2. CASE stage[s] # "acquiring"
      BY <1>12, <2>1, <3>2, WaitsUntouched DEF Close, vars
    <3> QED
      BY <3>1, <3>2
  <2> QED
    BY <2>4, <2>5 DEF StreamInv
<1> QED
  BY <1>3, <1>4, <1>5, <1>6, <1>8, <1>9, <1>10, <1>11, <1>12 DEF StreamStep

\* A step of another caller, of the clock or of the observer leaves the streams as they are.
LEMMA OthersKeep ==
    ASSUME StreamInv, OthersStep
    PROVE  StreamInv'
<1>1. StreamTypeOK' /\ \A t \in Streams : AccountOf(t)'
  BY DEF OthersStep, streamVars, StreamInv, StreamTypeOK, AccountOf
<1>2. \/ waiting' = waiting
      \/ \E c \in Clients \ Streams : \E left \in Nat : waiting' = [waiting EXCEPT ![c] = left]
  <2>1. ASSUME NEW c \in Clients \ Streams, Acquire(c) \/ Wake(c) \/ GiveUp(c) \/ TryAcquire(c)
        PROVE  waiting' = waiting \/ \E left \in Nat : waiting' = [waiting EXCEPT ![c] = left]
    <3>1. CASE Acquire(c)
      <4>1. PICK amount \in Amounts : AcquireStep(c, amount)
        BY <3>1 DEF Acquire
      <4> QED
        BY <4>1, AcquireLeaves, AmountsAssumption
    <3>2. CASE Wake(c)
      <4>1. AcquireStep(c, waiting[c]) /\ waiting[c] \in Nat
        BY <3>2 DEF Wake, StreamInv, Waits
      <4> QED
        BY <4>1, AcquireLeaves
    <3>3. CASE GiveUp(c)
      BY <3>3 DEF GiveUp
    <3>4. CASE TryAcquire(c)
      BY <3>4 DEF TryAcquire
    <3> QED
      BY <2>1, <3>1, <3>2, <3>3, <3>4
  <2> QED
    BY <2>1 DEF OthersStep, Tick, OpenWindow
<1>3. stage' = stage
  BY DEF OthersStep, streamVars
<1>4. Waits'
  <2>1. /\ waiting \in [Clients -> Nat]
        /\ \A s \in Streams : stage[s] # "acquiring" => waiting[s] = 0
    BY DEF StreamInv, Waits
  <2>2. CASE waiting' = waiting
    BY <1>3, <2>1, <2>2 DEF Waits
  <2>3. ASSUME NEW c \in Clients \ Streams, NEW left \in Nat,
               waiting' = [waiting EXCEPT ![c] = left]
        PROVE  Waits'
    <3>1. waiting' \in [Clients -> Nat] /\ \A s \in Streams : waiting'[s] = waiting[s]
      BY <2>1, <2>3, StreamsAssumption
    <3> QED
      BY <1>3, <2>1, <3>1 DEF Waits
  <2> QED
    BY <1>2, <2>2, <2>3
<1> QED
  BY <1>1, <1>4 DEF StreamInv

LEMMA StreamInvInit == StreamInit => StreamInv
<1> SUFFICES ASSUME StreamInit PROVE StreamInv
  OBVIOUS
<1>1. <<>> \in Seq(Run) /\ Len(<<>>) = 0
  BY EmptySeq
<1>2. StreamTypeOK
  BY <1>1 DEF StreamInit, StreamTypeOK
<1>3. Waits
  BY StreamsAssumption DEF StreamInit, Init, Waits
<1>4. ASSUME NEW s \in Streams PROVE AccountOf(s)
  <2>1. options[s].attempts \in Nat
    BY AttemptsAssumption DEF StreamInit, Options
  <2> QED
    BY <1>1, <2>1 DEF StreamInit, AccountOf, Account
<1> QED
  BY <1>2, <1>3, <1>4 DEF StreamInv

LEMMA StreamInvStep == StreamInv /\ [StreamNext]_allVars => StreamInv'
<1> SUFFICES ASSUME StreamInv, [StreamNext]_allVars PROVE StreamInv'
  OBVIOUS
<1>1. CASE UNCHANGED allVars
  BY <1>1 DEF allVars, vars, streamVars, StreamInv, StreamTypeOK, Waits, AccountOf
<1>2. CASE StreamNext
  BY <1>2, OthersKeep, StreamStepKeeps DEF StreamNext
<1> QED
  BY <1>1, <1>2

\* Streams keep their accounts.
LEMMA StreamInvariance == StreamSpec => []StreamInv
BY StreamInvInit, StreamInvStep, PTL DEF StreamSpec

\* Whatever the number of streams, of other callers and of attempts, and however the operations
\* fail: no run beyond max_attempts, no retry of what must not be retried, one RetryEvent for
\* each, one token for all, and no failure that goes unraised.
THEOREM RetriesWithinBudget == StreamSpec => []RetriedWithinBudget
<1>1. StreamInv => RetriedWithinBudget
  <2> SUFFICES ASSUME StreamInv, NEW s \in Streams
               PROVE  LET n == Len(runs[s]) IN
        /\ n <= options[s].attempts
        /\ \A k \in 1..(n - 1) : runs[s][k].ended = "retryable"
        /\ n > 0 => retries[s] = IF Last(s).ended = "retryable" /\ n < options[s].attempts
                                 THEN n ELSE n - 1
        /\ stage[s] = "done" => IF n = 0 THEN options[s].attempts = 0 ELSE Last(s).ended = "done"
        /\ stage[s] = "raised" =>
               \/ Last(s).ended = "fatal"
               \/ Last(s).ended = "retryable" /\ n = options[s].attempts
        /\ n > 0 => charged[s] = IF options[s].limited THEN 1 ELSE 0
    BY DEF RetriedWithinBudget
  <2>1. runs[s] \in Seq(Run) /\ Account(stage[s], options[s], runs[s], retries[s], charged[s])
    BY Unchanging DEF AccountOf
  <2>2. Len(runs[s]) \in Nat /\ Len(<<>>) = 0 /\ (runs[s] # <<>> => Len(runs[s]) # 0)
    BY <2>1, LenProperties, EmptySeq
  <2>3. CASE runs[s] = <<>>
    BY <2>1, <2>2, <2>3 DEF Account
  <2>4. CASE runs[s] # <<>>
    BY <2>1, <2>2, <2>4 DEF Account, Announced, Last
  <2> QED
    BY <2>3, <2>4
<1> QED
  BY <1>1, StreamInvariance, PTL

-----------------------------------------------------------------------------
(* Streams are clients of the limiter like any other *)

\* Each step of the whole is a step of the limiter, or leaves it alone.
LEMMA LimiterStep == StreamInv /\ [StreamNext]_allVars => [Next]_vars
<1> SUFFICES ASSUME StreamInv, [StreamNext]_allVars PROVE [Next]_vars
  OBVIOUS
<1>1. CASE UNCHANGED allVars
  BY <1>1 DEF allVars
<1>2. CASE OthersStep
  BY <1>2 DEF OthersStep, Next
<1>3. ASSUME NEW s \in Streams, StreamStep(s)
      PROVE  [Next]_vars
  <2>1. s \in Clients /\ 1 \in Amounts
    BY StreamsAssumption
  <2>2. CASE AcquireToken(s)
    <3>1. waiting[s] = 0
      BY <2>2 DEF AcquireToken, StreamInv, Waits
    <3>2. Acquire(s)
      BY <2>1, <2>2, <3>1 DEF AcquireToken, Acquire
    <3> QED
      BY <2>1, <3>2 DEF Next
  <2>3. CASE WakeToken(s)
    BY <2>1, <2>3 DEF WakeToken, Next
  <2>4. CASE Close(s)
    BY <2>1, <2>4 DEF Close, Next
  <2>5. CASE FirstAttempt(s) \/ Item(s) \/ Completes(s) \/ Fails(s) \/ FailsForGood(s)
             \/ NextAttempt(s)
    BY <2>5 DEF FirstAttempt, Item, Completes, Fails, FailsForGood, NextAttempt
  <2> QED
    BY <1>3, <2>2, <2>3, <2>4, <2>5 DEF StreamStep
<1> QED
  BY <1>1, <1>2, <1>3 DEF StreamNext

\* Streams implement the use of the limiter that RateLimiter describes.
THEOREM StreamsUseTheLimiter == StreamSpec => Spec
<1>1. StreamInit => Init
  BY DEF StreamInit
<1> QED
  BY <1>1, StreamInvariance, LimiterStep, PTL DEF StreamSpec, Spec

\* So the grants of any window keep their bound, with streams, retries and cancellations.
THEOREM StreamWindowBounded == StreamSpec => []WindowBound
BY StreamsUseTheLimiter, WindowBounded, PTL

=============================================================================
