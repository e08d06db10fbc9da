-------------------------- MODULE AgentStepProofs --------------------------
(***************************************************************************)
(* Theorems about AgentStep, for any set of call ids and any number of     *)
(* calls, chunks and storage calls that raise.                             *)
(*                                                                         *)
(* The inductive invariant StepInv keeps a ledger for each call: what its  *)
(* task has come to fixes how many events of it were announced, how many   *)
(* results are listed, and what the context records.  The rest says which  *)
(* tasks there may be at each yield or await of step_stream.               *)
(***************************************************************************)
EXTENDS AgentStep, FiniteSetTheorems, SequenceTheorems, TLAPS

-----------------------------------------------------------------------------
(* The inductive invariant.                                                *)

\* The entries of a sequence that are about call n, and how many they are.
EntriesIn(s, n) == {k \in DOMAIN s : s[k].call = n}
CountIn(s, n) == Cardinality(EntriesIn(s, n))

Results(n) == CountIn(results, n)

\* Whether a list of results has one of call n that JSON cannot hold, and one that failed.
UnstorableIn(s, n) == \E k \in EntriesIn(s, n) : ~s[k].storable
FailedIn(s, n) == \E k \in EntriesIn(s, n) : ~s[k].ok

\* The events of call n that the consumer got or that wait in the queue.
Events(n) == Len(heard[n]) + CountIn(queue, n)

\* Which tasks there are, with concurrent execution and without.
ModeInv ==
    /\ config.concurrent =>
        /\ pc # "execute"
        /\ \A n \in Calls : task[n] \in {"none", "created", "running"} \cup Ended
    /\ ~config.concurrent =>
        /\ pc \notin {"gather", "flush"}
        /\ queue = <<>> /\ cancelling = {}
        /\ \A n \in Calls : task[n] \notin {"created", "running", "cancelled"}

\* A call is decided before it has a task, and only an accepted call gets one.
DecidedInv ==
    /\ \A n \in Calls : task[n] # "none" => n \in DOMAIN decisions /\ decisions[n].accepted
    /\ pc = "pattern" => found > 0
    /\ pc = "decided" => Len(decisions) > 0
    /\ pc = "verify" => Len(decisions) < Len(ids)
    /\ config.concurrent =>
        /\ pc \notin {"verify", "failed", "closed"} => Len(decisions) = Len(ids)
        /\ pc = "verify" => Len(decisions) + 1 = Len(ids)
        /\ pc = "decided" => task[Len(decisions)] = "none"
    /\ ~config.concurrent =>
        /\ pc \in {"stream", "drain", "pattern", "complete"} => decisions = <<>>
        /\ pc \in {"verify", "decided"} => \A n \in Calls : task[n] = "none"
        /\ pc \in {"execute", "finish", "done"} => Len(decisions) = Len(ids)

\* An accepted call has its task when the step goes on.
LaunchedInv ==
    \A n \in DOMAIN decisions : decisions[n].accepted /\ task[n] = "none" =>
        \/ pc \in {"failed", "closed"}
        \/ config.concurrent /\ pc = "decided" /\ n = Len(decisions)
        \/ ~config.concurrent /\ pc \in {"verify", "decided"}

\* The tasks are joined before the end, and cancelled only by a failure or by the consumer.
JoinedInv ==
    /\ pc \in {"flush", "finish", "done"} => \A n \in Calls : task[n] \in Ended \cup {"none"}
    /\ pc \in {"finish", "done"} => queue = <<>>
    /\ pc \notin {"failed", "closed"} => cancelling = {}
    /\ pc = "failed" => Live \subseteq cancelling
    /\ \A n \in Calls : task[n] = "cancelled" => n \in cancelling
    /\ \A n \in Calls : task[n] = "dead" => faults > 0

\* Of each call, the first event is its start and the others are ends.
EventOrder(h, q) ==
    /\ \A n \in Calls : \A j \in 1..Len(h[n]) : h[n][j] = IF j = 1 THEN "start" ELSE "end"
    /\ \A i \in 1..Len(q) : q[i].kind = "start" <=>
            h[q[i].call] = <<>> /\ \A j \in 1..(i - 1) : q[j].call # q[i].call

\* The state t of a task, the events e and the results r of its call, the faults f, and whether
\* one of the results is not storable (u) or failed (b).
LedgerOf(t, e, r, f, u, b) ==
    /\ t \in {"none", "created", "approved"} => e = 0 /\ r = 0
    /\ t \in {"running", "starting", "calling"} => e = 1 /\ r = 0
    /\ t = "succeeding" => e = 2 /\ r = 0
    /\ t = "failing" => e = 2 + r
    /\ t = "ended" => r > 0 /\ e = 1 + r
    /\ t = "dead" => (e = 0 /\ r = 0) \/ (r > 0 /\ e = 1 + r)
    /\ t = "cancelled" => r = 0
    /\ f = 0 /\ t = "ended" => r = IF u THEN 2 ELSE 1
    /\ f = 0 /\ t = "failing" => r = IF u THEN 1 ELSE 0
    /\ t \in {"ended", "dead"} /\ u => b

LedgerInv == \A n \in Calls : LedgerOf(task[n], Events(n), Results(n), faults,
                                       UnstorableIn(results, n), FailedIn(results, n))

\* The state of a task, and the two records of its call.
RecordOf(t, state, result) ==
    /\ t \in {"none", "created", "approved"} => state = "none" /\ result = "none"
    /\ t \in {"running", "starting", "calling", "succeeding", "failing", "dead", "cancelled"} =>
            result = "none"
    /\ t = "ended" => \/ state = "finished" /\ result = "ok"
                      \/ state = "failed" /\ result = "failed"

RecordInv ==
    DistinctIds =>
        /\ \A n \in DOMAIN ids : RecordOf(task[n], toolState[ids[n]], stored[ids[n]])
        /\ \A i \in Ids : (\A n \in DOMAIN ids : ids[n] # i) =>
                toolState[i] = "none" /\ stored[i] = "none"

\* What StepCompleteEvent says.
ReportedInv ==
    pc = "done" =>
        /\ \A n \in DOMAIN decisions : decisions[n].executed = Matched(n)
        /\ status \in StepStatus(decisions)

StepInv ==
    /\ TypeOK /\ ModeInv /\ DecidedInv /\ LaunchedInv /\ JoinedInv /\ ReportedInv
    /\ EventOrder(heard, queue) /\ LedgerInv /\ RecordInv

-----------------------------------------------------------------------------
(* Counting, and the order of events.                                      *)

LEMMA CountFacts ==
    ASSUME NEW S, NEW s \in Seq(S), NEW n
    PROVE  /\ IsFiniteSet(EntriesIn(s, n)) /\ CountIn(s, n) \in Nat
           /\ CountIn(s, n) = 0 <=> \A k \in 1..Len(s) : s[k].call # n
<1>1. DOMAIN s = 1..Len(s) /\ Len(s) \in Nat
    BY LenProperties
<1>2. IsFiniteSet(1..Len(s))
    BY <1>1, FS_Interval
<1>3. IsFiniteSet(EntriesIn(s, n))
    BY <1>1, <1>2, FS_Subset DEF EntriesIn
<1>4. CountIn(s, n) \in Nat /\ (CountIn(s, n) = 0 <=> EntriesIn(s, n) = {})
    BY <1>3, FS_CardinalityType, FS_EmptySet DEF CountIn
<1> QED
    BY <1>1, <1>3, <1>4 DEF EntriesIn

LEMMA CountAppend ==
    ASSUME NEW S, NEW s \in Seq(S), NEW e \in S, NEW n
    PROVE  CountIn(Append(s, e), n) = IF e.call = n THEN CountIn(s, n) + 1 ELSE CountIn(s, n)
<1> DEFINE t == Append(s, e)
<1>1. /\ DOMAIN s = 1..Len(s) /\ Len(s) \in Nat /\ DOMAIN t = 1..(Len(s) + 1)
      /\ \A k \in 1..Len(s) : t[k] = s[k]
      /\ t[Len(s) + 1] = e
    BY AppendProperties, LenProperties
<1> HIDE DEF t
<1>2. EntriesIn(t, n) = IF e.call = n THEN EntriesIn(s, n) \cup {Len(s) + 1} ELSE EntriesIn(s, n)
    BY <1>1 DEF EntriesIn
<1>3. IsFiniteSet(EntriesIn(s, n)) /\ Len(s) + 1 \notin EntriesIn(s, n)
    <2>1. Len(s) + 1 \notin EntriesIn(s, n)
        BY <1>1 DEF EntriesIn
    <2> QED
        BY <2>1, CountFacts
<1>4. Cardinality(EntriesIn(s, n) \cup {Len(s) + 1}) = CountIn(s, n) + 1
    BY <1>3, FS_AddElement DEF CountIn
<1>5. CountIn(t, n) = IF e.call = n THEN CountIn(s, n) + 1 ELSE CountIn(s, n)
    BY <1>2, <1>4 DEF CountIn
<1> QED
    BY <1>5 DEF t

LEMMA CountTail ==
    ASSUME NEW S, NEW s \in Seq(S), s # <<>>, NEW n
    PROVE  CountIn(s, n) =
                IF Head(s).call = n THEN CountIn(Tail(s), n) + 1 ELSE CountIn(Tail(s), n)
<1> DEFINE t == Tail(s)
           A == EntriesIn(s, n)
           B == EntriesIn(t, n)
           f == [k \in B |-> k + 1]
<1>1. /\ DOMAIN s = 1..Len(s) /\ Len(s) \in Nat /\ Len(s) >= 1 /\ Head(s) = s[1]
      /\ t \in Seq(S) /\ DOMAIN t = 1..(Len(s) - 1)
      /\ \A k \in 1..(Len(s) - 1) : t[k] = s[k + 1]
    BY HeadTailProperties, LenProperties, EmptySeq
<1> HIDE DEF t
<1>2. IsFiniteSet(A) /\ IsFiniteSet(A \ {1})
    BY CountFacts, FS_RemoveElement
<1>3. \A k \in B : k \in 1..(Len(s) - 1) /\ k + 1 \in A \ {1}
    BY <1>1 DEF EntriesIn
<1>4. \A k \in A \ {1} : k - 1 \in B /\ (k - 1) + 1 = k
    <2> SUFFICES ASSUME NEW k \in A \ {1} PROVE k - 1 \in B /\ (k - 1) + 1 = k
        OBVIOUS
    <2>1. k - 1 \in 1..(Len(s) - 1) /\ (k - 1) + 1 = k
        BY <1>1 DEF EntriesIn
    <2> QED
        BY <1>1, <2>1 DEF EntriesIn
<1>5. f \in Injection(B, A \ {1})
    <2>1. f \in [B -> A \ {1}]
        BY <1>3
    <2>2. \A j, k \in B : f[j] = f[k] => j = k
        BY <1>3
    <2> QED
        BY <2>1, <2>2 DEF Injection, IsInjective
<1>6. f \in Surjection(B, A \ {1})
    <2>1. f \in [B -> A \ {1}]
        BY <1>3
    <2>2. \A k \in A \ {1} : \E j \in B : f[j] = k
        BY <1>4
    <2> QED
        BY <2>1, <2>2 DEF Surjection
<1>7. Cardinality(B) = Cardinality(A \ {1})
    <2> HIDE DEF f, A, B
    <2> QED
        BY <1>2, <1>5, <1>6, FS_Injection
<1>8. Cardinality(A \ {1}) = IF 1 \in A THEN Cardinality(A) - 1 ELSE Cardinality(A)
    BY <1>2, FS_RemoveElement
<1>9. 1 \in A <=> Head(s).call = n
    BY <1>1 DEF EntriesIn
<1>10. Cardinality(A) \in Nat
    BY CountFacts DEF CountIn
<1>11. CountIn(s, n) = Cardinality(A) /\ CountIn(Tail(s), n) = Cardinality(B)
    BY DEF CountIn, t
<1> HIDE DEF A, B
<1> QED
    BY <1>7, <1>8, <1>9, <1>10, <1>11

\* What Announce appends.
LEMMA AppendedOnes ==
    ASSUME NEW S, NEW s \in Seq(S), NEW c \in Calls, NEW x, NEW y
    PROVE  /\ Event(c, x) \in S =>
                s \o [k \in DOMAIN <<x>> |-> Event(c, <<x>>[k])] = Append(s, Event(c, x))
           /\ Event(c, x) \in S /\ Event(c, y) \in S =>
                s \o [k \in DOMAIN <<x, y>> |-> Event(c, <<x, y>>[k])]
                    = Append(Append(s, Event(c, x)), Event(c, y))
<1>1. ASSUME NEW d, NEW e, d \in S
      PROVE  s \o <<d>> = Append(s, d) /\ (e \in S => s \o <<d, e>> = Append(Append(s, d), e))
    BY <1>1
<1>2. /\ [k \in DOMAIN <<x>> |-> Event(c, <<x>>[k])] = <<Event(c, x)>>
      /\ [k \in DOMAIN <<x, y>> |-> Event(c, <<x, y>>[k])] = <<Event(c, x), Event(c, y)>>
    OBVIOUS
<1> QED
    BY <1>1, <1>2

EventType == [call : Calls, kind : {"start", "end"}]
ResultType == [call : Calls, ok : BOOLEAN, storable : BOOLEAN]

\* The list t of results is s with k more of call c, of which some are not storable if u, and
\* some failed if b.
ListGrows(s, t, c, k, u, b) ==
    /\ t \in Seq(ResultType)
    /\ \A m \in Calls : m # c =>
        /\ CountIn(t, m) = CountIn(s, m)
        /\ UnstorableIn(t, m) <=> UnstorableIn(s, m)
        /\ FailedIn(t, m) <=> FailedIn(s, m)
    /\ CountIn(t, c) = CountIn(s, c) + k /\ CountIn(s, c) \in Nat
    /\ UnstorableIn(t, c) <=> UnstorableIn(s, c) \/ u
    /\ FailedIn(t, c) <=> FailedIn(s, c) \/ b

LEMMA ListAppend ==
    ASSUME NEW s \in Seq(ResultType), NEW e \in ResultType,
           NEW u, NEW b, u <=> ~e.storable, b <=> ~e.ok
    PROVE  ListGrows(s, Append(s, e), e.call, 1, u, b)
<1> DEFINE t == Append(s, e)
<1>1. /\ DOMAIN s = 1..Len(s) /\ Len(s) \in Nat /\ DOMAIN t = 1..(Len(s) + 1)
      /\ \A k \in 1..Len(s) : t[k] = s[k]
      /\ t[Len(s) + 1] = e /\ t \in Seq(ResultType)
    BY AppendProperties, LenProperties
<1>2. \A m \in Calls : CountIn(t, m) = IF e.call = m THEN CountIn(s, m) + 1 ELSE CountIn(s, m)
    BY CountAppend
<1>3. \A m \in Calls : CountIn(s, m) \in Nat
    BY CountFacts
<1> HIDE DEF t
<1>4. ASSUME NEW m \in Calls
      PROVE  /\ UnstorableIn(t, m) <=> UnstorableIn(s, m) \/ (e.call = m /\ ~e.storable)
             /\ FailedIn(t, m) <=> FailedIn(s, m) \/ (e.call = m /\ ~e.ok)
    <2>1. /\ \A k \in EntriesIn(s, m) : k \in EntriesIn(t, m) /\ t[k] = s[k]
          /\ \A k \in EntriesIn(t, m) :
                (k \in EntriesIn(s, m) /\ t[k] = s[k]) \/ (k = Len(s) + 1 /\ e.call = m)
          /\ e.call = m => Len(s) + 1 \in EntriesIn(t, m)
        BY <1>1 DEF EntriesIn
    <2> QED
        BY <1>1, <2>1 DEF UnstorableIn, FailedIn
<1>5. e.call \in Calls
    BY DEF ResultType
<1>6. ListGrows(s, t, e.call, 1, u, b)
    BY <1>1, <1>2, <1>3, <1>4, <1>5 DEF ListGrows
<1> QED
    BY <1>6 DEF t

LEMMA ListSame ==
    ASSUME NEW s \in Seq(ResultType), NEW c \in Calls
    PROVE  ListGrows(s, s, c, 0, FALSE, FALSE)
<1>1. CountIn(s, c) \in Nat
    BY CountFacts
<1> QED
    BY <1>1 DEF ListGrows

LEMMA OrderAppend ==
    ASSUME NEW h, NEW q \in Seq(EventType), EventOrder(h, q), NEW c \in Calls,
           NEW kind \in {"start", "end"},
           kind = "start" <=> h[c] = <<>> /\ \A i \in 1..Len(q) : q[i].call # c
    PROVE  EventOrder(h, Append(q, Event(c, kind))) /\ Append(q, Event(c, kind)) \in Seq(EventType)
<1> DEFINE e == Event(c, kind)
           p == Append(q, e)
<1>1. e \in EventType /\ e.call = c /\ e.kind = kind
    BY DEF EventType, Event
<1>2. /\ p \in Seq(EventType) /\ Len(q) \in Nat /\ Len(p) = Len(q) + 1
      /\ \A i \in 1..Len(q) : p[i] = q[i]
      /\ p[Len(q) + 1] = e
    BY <1>1, AppendProperties
<1> HIDE DEF p, e
<1>3. ASSUME NEW i \in 1..Len(p)
      PROVE  p[i].kind = "start" <=>
                h[p[i].call] = <<>> /\ \A j \in 1..(i - 1) : p[j].call # p[i].call
    <2>1. CASE i \in 1..Len(q)
        <3>1. p[i] = q[i] /\ \A j \in 1..(i - 1) : p[j] = q[j]
            BY <1>2, <2>1
        <3> QED
            BY <2>1, <3>1 DEF EventOrder
    <2>2. CASE i = Len(q) + 1
        <3>1. p[i] = e /\ i - 1 = Len(q) /\ \A j \in 1..Len(q) : p[j] = q[j]
            BY <1>2, <2>2
        <3> QED
            BY <1>1, <3>1
    <2> QED
        BY <1>2, <2>1, <2>2
<1>4. EventOrder(h, p)
    BY <1>3 DEF EventOrder
<1> QED
    BY <1>2, <1>4 DEF p, e

\* The head of the queue is told to the consumer.
LEMMA OrderTake ==
    ASSUME NEW h \in [Calls -> Seq({"start", "end"})], NEW q \in Seq(EventType), q # <<>>,
           EventOrder(h, q),
           NEW g \in [Calls -> Seq({"start", "end"})],
           NEW c \in Calls, NEW kind \in {"start", "end"}, Head(q).call = c, Head(q).kind = kind,
           g[c] = Append(h[c], kind), \A n \in Calls : n # c => g[n] = h[n]
    PROVE  EventOrder(g, Tail(q))
<1> DEFINE t == Tail(q)
<1>2. /\ t \in Seq(EventType) /\ Len(q) \in Nat /\ Len(t) = Len(q) - 1 /\ Len(q) >= 1
      /\ \A i \in 1..Len(t) : t[i] = q[i + 1]
      /\ q[1] = Head(q) /\ Head(q) \in EventType
    BY HeadTailProperties, LenProperties, EmptySeq
<1> HIDE DEF t
<1>3. q[1].call = c /\ q[1].kind = kind
    BY <1>2
<1>4. /\ h[c] \in Seq({"start", "end"}) /\ Append(h[c], kind) \in Seq({"start", "end"})
      /\ Len(h[c]) \in Nat /\ Len(Append(h[c], kind)) = Len(h[c]) + 1
      /\ \A j \in 1..Len(h[c]) : Append(h[c], kind)[j] = h[c][j]
      /\ Append(h[c], kind)[Len(h[c]) + 1] = kind
      /\ Append(h[c], kind) # <<>>
    BY AppendProperties, LenProperties
<1>5. /\ g \in [Calls -> Seq({"start", "end"})]
      /\ \A n \in Calls : g[n] = IF n = c THEN Append(h[c], kind) ELSE h[n]
    BY <1>3, <1>4
<1>6. kind = "start" <=> h[c] = <<>>
    <2>1. 1 \in 1..Len(q) /\ \A j \in 1..(1 - 1) : FALSE
        BY <1>2
    <2> QED
        BY <1>3, <2>1 DEF EventOrder
<1>7. ASSUME NEW n \in Calls, NEW j \in 1..Len(g[n])
      PROVE  g[n][j] = IF j = 1 THEN "start" ELSE "end"
    <2>1. CASE n # c
        BY <1>5, <2>1 DEF EventOrder
    <2>2. CASE n = c /\ j \in 1..Len(h[c])
        <3>1. g[n][j] = h[c][j]
            BY <1>4, <1>5, <2>2
        <3>2. h[c][j] = IF j = 1 THEN "start" ELSE "end"
            BY <2>2 DEF EventOrder
        <3> QED
            BY <3>1, <3>2
    <2>3. CASE n = c /\ j = Len(h[c]) + 1
        <3>1. Len(h[c]) = 0 <=> h[c] = <<>>
            BY <1>4, EmptySeq
        <3>2. g[n] = Append(h[c], kind)
            BY <1>5, <2>3
        <3>3. j = 1 <=> h[c] = <<>>
            BY <1>4, <2>3, <3>1
        <3>4. g[n][j] = kind
            BY <1>4, <2>3, <3>2
        <3> QED
            BY <1>6, <3>3, <3>4
    <2> QED
        BY <1>4, <1>5, <2>1, <2>2, <2>3
<1>8. ASSUME NEW i \in 1..Len(t)
      PROVE  t[i].kind = "start" <=>
                g[t[i].call] = <<>> /\ \A j \in 1..(i - 1) : t[j].call # t[i].call
    <2>1. /\ i + 1 \in 1..Len(q) /\ t[i] = q[i + 1] /\ (i + 1) - 1 = i
          /\ \A j \in 1..(i - 1) : t[j] = q[j + 1] /\ j + 1 \in 1..i
          /\ \A j \in 1..i : j = 1 \/ (j - 1 \in 1..(i - 1) /\ (j - 1) + 1 = j)
        BY <1>2
    <2>2. q[i + 1].kind = "start" <=>
            h[q[i + 1].call] = <<>> /\ \A j \in 1..i : q[j].call # q[i + 1].call
        BY <2>1 DEF EventOrder
    <2>3. q[i + 1].call \in Calls
        <3>1. q[i + 1] \in EventType
            BY <2>1, ElementOfSeq
        <3> QED
            BY <3>1 DEF EventType
    <2>4. CASE t[i].call = c
        <3>1. 1 \in 1..i
            BY <1>2
        <3>2. q[i + 1].kind # "start"
            BY <1>3, <2>1, <2>2, <2>4, <3>1
        <3>3. g[t[i].call] # <<>>
            BY <1>4, <1>5, <2>4
        <3> QED
            BY <2>1, <3>2, <3>3
    <2>5. CASE t[i].call # c
        <3>1. g[t[i].call] = h[q[i + 1].call]
            BY <1>5, <2>1, <2>3, <2>5
        <3>2. (\A j \in 1..i : q[j].call # q[i + 1].call)
                <=> \A j \in 1..(i - 1) : t[j].call # t[i].call
            <4>1. ASSUME \A j \in 1..i : q[j].call # q[i + 1].call, NEW j \in 1..(i - 1)
                  PROVE  t[j].call # t[i].call
                BY <2>1, <4>1
            <4>2. ASSUME \A j \in 1..(i - 1) : t[j].call # t[i].call, NEW j \in 1..i
                  PROVE  q[j].call # q[i + 1].call
                <5>1. CASE j = 1
                    BY <1>3, <2>1, <2>5, <5>1
                <5>2. CASE j # 1
                    <6>1. PICK k \in 1..(i - 1) : k + 1 = j
                        BY <2>1, <5>2
                    <6> QED
                        BY <2>1, <4>2, <6>1
                <5> QED
                    BY <5>1, <5>2
            <4> QED
                BY <4>1, <4>2
        <3> QED
            BY <2>1, <2>2, <3>1, <3>2
    <2> QED
        BY <2>4, <2>5
<1>9. EventOrder(g, t)
    BY <1>7, <1>8 DEF EventOrder
<1> QED
    BY <1>9 DEF t

-----------------------------------------------------------------------------
(* What a step that does not touch a call keeps.                           *)

DecisionType == [accepted : BOOLEAN, executed : BOOLEAN]

\* TypeOK with the elements of its sequences named.
LEMMA Typed ==
    ASSUME TypeOK
    PROVE  /\ ids \in Seq(Ids) /\ DOMAIN ids = 1..Len(ids) /\ Len(ids) \in Nat
           /\ decisions \in Seq(DecisionType) /\ DOMAIN decisions = 1..Len(decisions)
           /\ Len(decisions) \in Nat /\ Len(decisions) <= Len(ids) /\ Len(ids) <= MaxCalls
           /\ queue \in Seq(EventType) /\ results \in Seq(ResultType)
           /\ \A n \in DOMAIN ids : n \in Calls /\ ids[n] \in Ids
           /\ \A n \in DOMAIN decisions : n \in DOMAIN ids /\ decisions[n].accepted \in BOOLEAN
           /\ found \in Nat /\ faults \in Nat /\ MaxCalls \in Nat /\ Len(ids) + found <= MaxCalls
<1>1. /\ ids \in Seq(Ids) /\ decisions \in Seq(DecisionType)
      /\ queue \in Seq(EventType) /\ results \in Seq(ResultType)
      /\ found \in Nat /\ faults \in Nat /\ MaxCalls \in Nat /\ Len(ids) + found <= MaxCalls
      /\ Len(decisions) <= Len(ids)
    BY BoundsAssumption DEF TypeOK, DecisionType, EventType, ResultType
<1>2. /\ DOMAIN ids = 1..Len(ids) /\ Len(ids) \in Nat
      /\ DOMAIN decisions = 1..Len(decisions) /\ Len(decisions) \in Nat
    BY <1>1, LenProperties
<1>3. ASSUME NEW n \in DOMAIN ids PROVE n \in Calls /\ ids[n] \in Ids
    BY <1>1, <1>2, ElementOfSeq DEF Calls
<1>4. ASSUME NEW n \in DOMAIN decisions
      PROVE  n \in DOMAIN ids /\ decisions[n].accepted \in BOOLEAN
    <2>1. decisions[n] \in DecisionType
        BY <1>1, <1>2, ElementOfSeq
    <2> QED
        BY <1>1, <1>2, <2>1 DEF DecisionType
<1> QED
    BY <1>1, <1>2, <1>3, <1>4

LEMMA LedgerKept ==
    ASSUME LedgerInv, UNCHANGED <<task, results, heard, queue>>, faults' = 0 => faults = 0
    PROVE  LedgerInv'
<1>1. ASSUME NEW n \in Calls PROVE Events(n)' = Events(n) /\ Results(n)' = Results(n)
    BY DEF Events, Results
<1>2. task' = task /\ results' = results
    OBVIOUS
<1> QED
    BY <1>1, <1>2 DEF LedgerInv, LedgerOf

LEMMA RecordKept ==
    ASSUME RecordInv, UNCHANGED <<ids, task, toolState, stored>>
    PROVE  RecordInv'
BY DEF RecordInv, DistinctIds

\* A decision is appended.
LEMMA DecideFacts ==
    ASSUME TypeOK, NEW accepted \in BOOLEAN, Decide(accepted)
    PROVE  /\ decisions' \in Seq(DecisionType) /\ pc' = "decided"
           /\ Len(decisions') = Len(decisions) + 1
           /\ DOMAIN decisions' = 1..(Len(decisions) + 1)
           /\ \A n \in 1..Len(decisions) : decisions'[n] = decisions[n]
           /\ decisions'[Len(decisions) + 1].accepted = accepted
<1> DEFINE d == [accepted |-> accepted, executed |-> FALSE]
<1>1. d \in DecisionType /\ decisions' = Append(decisions, d) /\ d.accepted = accepted
    BY DEF DecisionType, Decide
<1>2. decisions \in Seq(DecisionType)
    BY Typed
<1> HIDE DEF d
<1>3. /\ decisions' \in Seq(DecisionType) /\ Len(decisions') = Len(decisions) + 1
      /\ \A n \in 1..Len(decisions) : decisions'[n] = decisions[n]
      /\ decisions'[Len(decisions) + 1] = d
    BY <1>1, <1>2, AppendProperties
<1> QED
    BY <1>1, <1>3, LenProperties DEF Decide

-----------------------------------------------------------------------------
(* The initial states.                                                     *)

LEMMA InitStep ==
    Init => StepInv
<1> SUFFICES ASSUME Init PROVE StepInv
    OBVIOUS
<1> USE DEF Init
<1>1. TypeOK
    <2>1. /\ <<>> \in Seq(Ids) /\ <<>> \in Seq(DecisionType) /\ <<>> \in Seq(EventType)
          /\ <<>> \in Seq(ResultType) /\ <<>> \in Seq({"start", "end"})
        BY EmptySeq
    <2>2. /\ 0 \in 0..MaxChunks /\ 0 \in 0..MaxCalls /\ 0 \in 0..MaxFaults /\ 0 <= MaxCalls
        BY BoundsAssumption
    <2>3. heard \in [Calls -> Seq({"start", "end"})]
        BY <2>1
    <2>4. Len(ids) = 0 /\ Len(decisions) = 0
        OBVIOUS
    <2> QED
        BY <2>1, <2>2, <2>3, <2>4
           DEF TypeOK, DecisionType, EventType, ResultType, Suspended, TaskStates
<1>2. ASSUME NEW n \in Calls PROVE Events(n) = 0 /\ Results(n) = 0
    <2>1. CountIn(<<>>, n) = 0
        <3>1. EntriesIn(<<>>, n) = {}
            BY DEF EntriesIn
        <3> QED
            BY <3>1, FS_EmptySet DEF CountIn
    <2>2. Len(heard[n]) = 0
        OBVIOUS
    <2> QED
        BY <2>1, <2>2 DEF Events, Results
<1>3. LedgerInv
    BY <1>2 DEF LedgerInv, LedgerOf
<1>4. ModeInv /\ DecidedInv /\ LaunchedInv /\ JoinedInv /\ ReportedInv
    BY DEF ModeInv, DecidedInv, LaunchedInv, JoinedInv, ReportedInv, Live
<1>5. EventOrder(heard, queue) /\ RecordInv
    BY DEF EventOrder, RecordInv, RecordOf
<1> QED
    BY <1>1, <1>3, <1>4, <1>5 DEF StepInv

-----------------------------------------------------------------------------
(* Steps of the stream.                                                    *)

\* What all of them leave alone, and what follows from that.
Untouched ==
    /\ UNCHANGED <<config, task, cancelling, results, toolState, stored, status, queue, heard>>
    /\ UNCHANGED faults

LEMMA UntouchedKeeps ==
    ASSUME StepInv, Untouched
    PROVE  LedgerInv' /\ EventOrder(heard', queue') /\ (ids' = ids => RecordInv')
BY LedgerKept, RecordKept DEF StepInv, Untouched

LEMMA ChunkKeeps ==
    ASSUME StepInv, ReceiveChunk \/ FeedChunk \/ StreamEnds
    PROVE  StepInv'
<1> USE DEF StepInv
<1>1. Untouched /\ UNCHANGED <<ids, decisions>>
    BY DEF ReceiveChunk, FeedChunk, StreamEnds, StreamOnly, Untouched, context, stream
<1>2. /\ pc \in {"stream", "drain"} /\ pc' \in {"drain", "pattern", "stream", "complete"}
      /\ pc' = "pattern" => found' > 0
    BY DEF ReceiveChunk, FeedChunk, StreamEnds, NextPattern
<1>3. TypeOK'
    <2>1. chunks' \in 0..MaxChunks
        BY BoundsAssumption DEF ReceiveChunk, FeedChunk, StreamEnds, stream, TypeOK
    <2>2. found' \in 0..MaxCalls /\ Len(ids) + found' <= MaxCalls
        <3>1. CASE FeedChunk
            <4>1. found' \in 0..(MaxCalls - Len(ids))
                BY <3>1 DEF FeedChunk
            <4> QED
                BY <4>1, Typed
        <3>2. CASE ~FeedChunk
            BY <3>2 DEF ReceiveChunk, StreamEnds, stream, TypeOK
        <3> QED
            BY <3>1, <3>2
    <2> QED
        BY <1>1, <1>2, <2>1, <2>2 DEF TypeOK, Untouched, Suspended
<1>4. ModeInv' /\ DecidedInv' /\ LaunchedInv' /\ JoinedInv'
    BY <1>1, <1>2 DEF ModeInv, DecidedInv, LaunchedInv, JoinedInv, Untouched, Live
<1>5. ReportedInv'
    BY <1>2 DEF ReportedInv
<1> QED
    BY <1>1, <1>3, <1>4, <1>5, UntouchedKeeps

LEMMA DetectKeeps ==
    ASSUME StepInv, DetectCall
    PROVE  StepInv'
<1> USE DEF StepInv
<1>1. Untouched /\ pc = "pattern" /\ found' = found - 1 /\ UNCHANGED chunks
    BY DEF DetectCall, StreamOnly, Untouched, context
<1>2. PICK i \in Ids : ids' = Append(ids, i)
    BY DEF DetectCall
<1>3. /\ ids \in Seq(Ids) /\ Len(ids) \in Nat /\ found \in Nat /\ found > 0
      /\ Len(ids) + found <= MaxCalls /\ MaxCalls \in Nat
      /\ DOMAIN ids = 1..Len(ids) /\ DOMAIN decisions = 1..Len(decisions)
      /\ Len(decisions) \in Nat /\ Len(decisions) <= Len(ids)
    BY <1>1, Typed DEF DecidedInv
<1>4. /\ ids' \in Seq(Ids) /\ Len(ids') = Len(ids) + 1 /\ DOMAIN ids' = 1..(Len(ids) + 1)
      /\ \A n \in 1..Len(ids) : ids'[n] = ids[n]
      /\ ids'[Len(ids) + 1] = i
    BY <1>2, <1>3, AppendProperties, LenProperties
<1>5. \/ /\ config.concurrent /\ pc' = "verify" /\ UNCHANGED decisions
      \/ /\ config.concurrent /\ Decide(TRUE)
      \/ /\ ~config.concurrent /\ pc' \in {"pattern", "stream"} /\ UNCHANGED decisions
         /\ pc' = "pattern" => found' > 0
    BY <1>1 DEF DetectCall, AskOrAccept, NextPattern
<1>6. \/ /\ UNCHANGED decisions
         /\ pc' # "decided"
      \/ /\ config.concurrent
         /\ decisions' \in Seq(DecisionType) /\ pc' = "decided"
         /\ Len(decisions') = Len(decisions) + 1
         /\ DOMAIN decisions' = 1..(Len(decisions) + 1)
         /\ \A n \in 1..Len(decisions) : decisions'[n] = decisions[n]
    BY <1>5, DecideFacts
<1>7. /\ Len(ids) + 1 \in Calls /\ task[Len(ids) + 1] = "none"
    <2>1. Len(ids) + 1 \in Calls /\ Len(ids) + 1 \notin DOMAIN decisions
        BY <1>3 DEF Calls
    <2> QED
        BY <2>1 DEF DecidedInv
<1>8. TypeOK'
    <2>1. found' \in 0..MaxCalls /\ Len(ids') + found' <= MaxCalls
        BY <1>1, <1>3, <1>4
    <2>2. decisions' \in Seq(DecisionType) /\ Len(decisions') <= Len(ids')
        BY <1>3, <1>4, <1>6, Typed
    <2>3. pc' \in Suspended
        BY <1>5 DEF Decide, Suspended
    <2> QED
        BY <1>1, <1>4, <2>1, <2>2, <2>3 DEF TypeOK, Untouched, DecisionType
<1>9. ModeInv' /\ JoinedInv' /\ ReportedInv'
    BY <1>1, <1>5 DEF ModeInv, JoinedInv, ReportedInv, Untouched, Decide, Live
<1>10. DecidedInv'
    <2>1. \A n \in Calls : task'[n] # "none" =>
                n \in DOMAIN decisions' /\ decisions'[n].accepted
        <3> SUFFICES ASSUME NEW n \in Calls, task[n] # "none"
                     PROVE  n \in DOMAIN decisions' /\ decisions'[n].accepted
            BY <1>1 DEF Untouched
        <3>1. n \in 1..Len(decisions) /\ decisions[n].accepted
            BY <1>3 DEF DecidedInv
        <3>2. n \in 1..(Len(decisions) + 1)
            BY <1>3, <3>1
        <3> QED
            BY <1>3, <1>6, <3>1, <3>2
    <2>2. config.concurrent => Len(decisions) = Len(ids)
        BY <1>1 DEF DecidedInv
    <2>3. CASE config.concurrent /\ pc' = "verify" /\ UNCHANGED decisions
        BY <1>1, <1>3, <1>4, <2>1, <2>2, <2>3 DEF DecidedInv, Untouched
    <2>4. CASE config.concurrent /\ Decide(TRUE)
        BY <1>1, <1>3, <1>4, <1>6, <1>7, <2>1, <2>2, <2>4 DEF DecidedInv, Untouched, Decide
    <2>5. CASE ~config.concurrent
        BY <1>1, <1>5, <2>1, <2>5 DEF DecidedInv, Untouched
    <2> QED
        BY <1>5, <2>3, <2>4, <2>5
<1>11. LaunchedInv'
    <2> SUFFICES ASSUME NEW n \in DOMAIN decisions', decisions'[n].accepted, task'[n] = "none"
                 PROVE  config'.concurrent /\ pc' = "decided" /\ n = Len(decisions')
        BY DEF LaunchedInv
    <2>1. CASE n \in DOMAIN decisions
        BY <1>1, <1>3, <1>6, <2>1 DEF LaunchedInv, Untouched
    <2>2. CASE n \notin DOMAIN decisions
        BY <1>1, <1>3, <1>6, <2>2 DEF Untouched
    <2> QED
        BY <2>1, <2>2
<1>12. RecordInv'
    <2> SUFFICES ASSUME DistinctIds'
                 PROVE  /\ \A n \in DOMAIN ids' :
                              RecordOf(task'[n], toolState'[ids'[n]], stored'[ids'[n]])
                        /\ \A j \in Ids : (\A n \in DOMAIN ids' : ids'[n] # j) =>
                              toolState'[j] = "none" /\ stored'[j] = "none"
        BY DEF RecordInv
    <2>1. DistinctIds
        BY <1>3, <1>4 DEF DistinctIds
    <2>2. \A n \in DOMAIN ids : ids[n] # i
        BY <1>3, <1>4 DEF DistinctIds
    <2>3. toolState[i] = "none" /\ stored[i] = "none"
        BY <2>1, <2>2 DEF RecordInv
    <2>4. RecordOf(task[Len(ids) + 1], toolState[i], stored[i])
        BY <1>7, <2>3 DEF RecordOf
    <2>5. task' = task /\ toolState' = toolState /\ stored' = stored
        BY <1>1 DEF Untouched
    <2>6. ASSUME NEW n \in DOMAIN ids'
          PROVE  RecordOf(task'[n], toolState'[ids'[n]], stored'[ids'[n]])
        <3>1. CASE n = Len(ids) + 1
            BY <1>4, <2>4, <2>5, <3>1
        <3>2. CASE n # Len(ids) + 1
            <4>1. n \in DOMAIN ids /\ ids'[n] = ids[n]
                BY <1>3, <1>4, <3>2
            <4> QED
                BY <2>1, <2>5, <4>1 DEF RecordInv
        <3> QED
            BY <3>1, <3>2
    <2>7. ASSUME NEW j \in Ids, \A n \in DOMAIN ids' : ids'[n] # j
          PROVE  toolState'[j] = "none" /\ stored'[j] = "none"
        <3>1. \A n \in DOMAIN ids : ids[n] # j
            BY <1>3, <1>4, <2>7
        <3> QED
            BY <2>1, <2>5, <3>1 DEF RecordInv
    <2> QED
        BY <2>6, <2>7
<1> QED
    BY <1>1, <1>8, <1>9, <1>10, <1>11, <1>12, UntouchedKeeps

\* A decision that is not the detection's own.
LEMMA VerifyKeeps ==
    ASSUME StepInv,
           \/ Verify
           \/ NextDecision /\ Len(decisions) < Len(ids)
           \/ AfterStream /\ ~config.concurrent /\ ids # <<>>
    PROVE  StepInv'
<1> USE DEF StepInv
<1>1. /\ Untouched /\ UNCHANGED <<chunks, found, ids>>
      /\ \/ pc = "verify"
         \/ pc = "decided" /\ ~config.concurrent
         \/ pc = "complete" /\ ~config.concurrent /\ decisions = <<>>
      /\ Len(decisions) < Len(ids)
    <2>1. ids # <<>> => 0 < Len(ids)
        BY Typed, EmptySeq
    <2> QED
        BY <2>1 DEF Verify, NextDecision, AfterStream, StreamOnly, Untouched, context, stream,
                    DecidedInv
<1>2. \/ pc' = "verify" /\ UNCHANGED decisions /\ ~config.concurrent
      \/ \E accepted \in BOOLEAN : Decide(accepted)
    BY DEF Verify, NextDecision, AfterStream, AskOrAccept
<1>3. \/ pc' = "verify" /\ UNCHANGED decisions /\ ~config.concurrent
      \/ /\ decisions' \in Seq(DecisionType) /\ pc' = "decided"
         /\ Len(decisions') = Len(decisions) + 1
         /\ DOMAIN decisions' = 1..(Len(decisions) + 1)
         /\ \A n \in 1..Len(decisions) : decisions'[n] = decisions[n]
    BY <1>2, DecideFacts
<1>4. /\ Len(decisions) \in Nat /\ Len(ids) \in Nat /\ DOMAIN decisions = 1..Len(decisions)
      /\ decisions \in Seq(DecisionType) /\ Len(ids) <= MaxCalls /\ MaxCalls \in Nat
    BY Typed
<1>5. Len(decisions) + 1 \in Calls /\ task[Len(decisions) + 1] = "none"
    <2>1. Len(decisions) + 1 \in Calls /\ Len(decisions) + 1 \notin DOMAIN decisions
        BY <1>1, <1>4 DEF Calls
    <2> QED
        BY <2>1 DEF DecidedInv
<1>6. TypeOK'
    <2>1. decisions' \in Seq(DecisionType) /\ Len(decisions') <= Len(ids)
        BY <1>1, <1>3, <1>4
    <2> QED
        BY <1>1, <1>3, <2>1 DEF TypeOK, Untouched, DecisionType, Suspended
<1>7. ModeInv' /\ JoinedInv' /\ ReportedInv'
    BY <1>1, <1>3 DEF ModeInv, JoinedInv, ReportedInv, Untouched, Live
<1>8. DecidedInv'
    <2>1. \A n \in Calls : task'[n] # "none" =>
                n \in DOMAIN decisions' /\ decisions'[n].accepted
        BY <1>1, <1>3, <1>4 DEF DecidedInv, Untouched
    <2> QED
        BY <1>1, <1>3, <1>4, <1>5, <2>1 DEF DecidedInv, Untouched
<1>9. LaunchedInv'
    <2> SUFFICES ASSUME NEW n \in DOMAIN decisions', decisions'[n].accepted, task'[n] = "none",
                        config.concurrent
                 PROVE  pc' = "decided" /\ n = Len(decisions')
        BY <1>1, <1>3 DEF LaunchedInv, Untouched
    <2>1. CASE n \in DOMAIN decisions
        BY <1>1, <1>3, <1>4, <2>1 DEF LaunchedInv, Untouched
    <2>2. CASE n \notin DOMAIN decisions
        BY <1>1, <1>3, <1>4, <2>2 DEF Untouched
    <2> QED
        BY <2>1, <2>2
<1> QED
    BY <1>1, <1>6, <1>7, <1>8, <1>9, UntouchedKeeps

-----------------------------------------------------------------------------
(* Draining and joining.                                                   *)

LEMMA DrainKeeps ==
    ASSUME StepInv, DrainQueue
    PROVE  StepInv'
<1> USE DEF StepInv
<1>1. /\ UNCHANGED <<config, pc, chunks, found, ids, decisions, task, cancelling, results>>
      /\ UNCHANGED <<toolState, stored, status, faults>>
      /\ queue # <<>> /\ queue' = Tail(queue) /\ pc \in {"drain", "flush"}
      /\ heard' = [heard EXCEPT ![Head(queue).call] = Append(@, Head(queue).kind)]
    BY DEF DrainQueue, StreamOnly, stream, context
<1>2. heard \in [Calls -> Seq({"start", "end"})] /\ queue \in Seq(EventType)
    BY Typed DEF TypeOK
<1>3. /\ EventOrder(heard', queue') /\ queue' \in Seq(EventType)
      /\ heard' \in [Calls -> Seq({"start", "end"})]
      /\ Head(queue) \in EventType
      /\ \A n \in Calls : Len(heard'[n]) =
            IF n = Head(queue).call THEN Len(heard[n]) + 1 ELSE Len(heard[n])
    <2>1. Head(queue) \in EventType
        BY <1>1, <1>2, HeadTailProperties
    <2>2. PICK c \in Calls, kind \in {"start", "end"} :
            Head(queue).call = c /\ Head(queue).kind = kind
        BY <2>1 DEF EventType
    <2>3. Append(heard[c], kind) \in Seq({"start", "end"})
        BY <1>2, AppendProperties
    <2>4. heard' = [heard EXCEPT ![c] = Append(heard[c], kind)]
        BY <1>1, <2>2
    <2>5. /\ heard' \in [Calls -> Seq({"start", "end"})]
          /\ heard'[c] = Append(heard[c], kind) /\ \A n \in Calls : n # c => heard'[n] = heard[n]
        BY <1>2, <2>3, <2>4
    <2>6. EventOrder(heard, queue)
        OBVIOUS
    <2> HIDE DEF StepInv
    <2>7. PICK h \in [Calls -> Seq({"start", "end"})], q \in Seq(EventType),
               g \in [Calls -> Seq({"start", "end"})] :
            h = heard /\ q = queue /\ g = heard'
        BY <1>2, <2>5
    <2>8. /\ q # <<>> /\ EventOrder(h, q) /\ Head(q).call = c /\ Head(q).kind = kind
          /\ g[c] = Append(h[c], kind)
          /\ \A n \in Calls : n # c => g[n] = h[n]
        BY <1>1, <2>2, <2>5, <2>6, <2>7
    <2>9. EventOrder(g, Tail(q))
        BY <2>8, OrderTake, ZenonT(60)
    <2>10. Tail(queue) \in Seq(EventType)
        BY <1>1, <1>2, HeadTailProperties
    <2>11. \A n \in Calls : Len(heard'[n]) = IF n = c THEN Len(heard[n]) + 1 ELSE Len(heard[n])
        BY <1>2, <2>5, AppendProperties
    <2> QED
        BY <1>1, <2>1, <2>2, <2>5, <2>7, <2>9, <2>10, <2>11
<1>4. ASSUME NEW n \in Calls PROVE Events(n)' = Events(n) /\ Results(n)' = Results(n)
    <2>1. CountIn(queue, n) =
            IF Head(queue).call = n THEN CountIn(queue', n) + 1 ELSE CountIn(queue', n)
        BY <1>1, <1>2, CountTail
    <2>2. CountIn(queue', n) \in Nat /\ Len(heard[n]) \in Nat
        BY <1>2, <1>3, CountFacts, LenProperties
    <2>3. Len(heard'[n]) + CountIn(queue', n) = Len(heard[n]) + CountIn(queue, n)
        BY <1>3, <2>1, <2>2
    <2> QED
        BY <1>1, <2>3 DEF Events, Results
<1>5. TypeOK'
    BY <1>1, <1>3 DEF TypeOK, EventType
<1>6. LedgerInv'
    BY <1>1, <1>4 DEF LedgerInv
<1>7. RecordInv'
    BY <1>1, RecordKept
<1>8. ModeInv' /\ DecidedInv' /\ LaunchedInv' /\ JoinedInv' /\ ReportedInv'
    BY <1>1 DEF ModeInv, DecidedInv, LaunchedInv, JoinedInv, ReportedInv, Live
<1> QED
    BY <1>3, <1>5, <1>6, <1>7, <1>8

\* With no call launched there is no event.
LEMMA NoEvents ==
    ASSUME StepInv, \A n \in Calls : task[n] = "none"
    PROVE  queue = <<>> /\ \A n \in Calls : Events(n) = 0
<1>1. ASSUME NEW n \in Calls PROVE Events(n) = 0
    BY DEF StepInv, LedgerInv, LedgerOf
<1>2. ASSUME NEW n \in Calls PROVE CountIn(queue, n) = 0
    <2>1. CountIn(queue, n) \in Nat /\ Len(heard[n]) \in Nat
        BY CountFacts, Typed, LenProperties DEF StepInv, TypeOK
    <2> QED
        BY <1>1, <2>1 DEF Events
<1>3. queue \in Seq(EventType) /\ Len(queue) \in Nat
    BY Typed, LenProperties DEF StepInv
<1>4. ASSUME queue # <<>> PROVE FALSE
    <2>1. 1 \in 1..Len(queue)
        BY <1>3, <1>4, EmptySeq
    <2>2. queue[1].call \in Calls
        <3>1. queue[1] \in EventType
            BY <1>3, <2>1, ElementOfSeq
        <3> QED
            BY <3>1 DEF EventType
    <2> QED
        BY <1>2, <1>3, <2>1, <2>2, CountFacts
<1> QED
    BY <1>1, <1>4

LEMMA JoinKeeps ==
    ASSUME StepInv,
           Gather \/ Flushed \/ (AfterStream /\ ~(~config.concurrent /\ ids # <<>>))
    PROVE  StepInv'
<1> USE DEF StepInv
<1>1. Untouched /\ UNCHANGED <<chunks, found, ids, decisions>>
    BY DEF Gather, Flushed, AfterStream, StreamOnly, Untouched, context, stream
<1>2. \/ pc = "gather" /\ pc' = "flush" /\ \A n \in Launched : task[n] \in Ended
      \/ pc = "flush" /\ pc' = "finish" /\ queue = <<>>
      \/ pc = "complete" /\ pc' = "gather" /\ config.concurrent
      \/ pc = "complete" /\ pc' = "finish" /\ config.concurrent /\ Launched = {}
      \/ pc = "complete" /\ pc' = "finish" /\ ~config.concurrent /\ ids = <<>>
    BY DEF Gather, Flushed, AfterStream
<1>3. TypeOK'
    BY <1>1, <1>2 DEF TypeOK, Untouched, Suspended
<1>4. LaunchedInv' /\ ReportedInv'
    BY <1>1, <1>2 DEF LaunchedInv, ReportedInv, Untouched
<1>5. ModeInv'
    BY <1>1, <1>2 DEF ModeInv, Untouched
<1>6. CASE pc = "complete" /\ pc' = "finish" /\ (Launched = {} \/ ids = <<>>)
    <2>1. \A n \in Calls : task[n] = "none"
        <3>1. ids = <<>> => decisions = <<>>
            BY Typed, EmptySeq
        <3> QED
            BY <1>6, <3>1 DEF Launched, DecidedInv
    <2>2. queue = <<>>
        BY <2>1, NoEvents
    <2>3. ~config.concurrent => Len(decisions) = Len(ids)
        <3>1. ids = <<>> => decisions = <<>>
            BY Typed, EmptySeq
        <3> QED
            BY <1>2, <1>6, <3>1
    <2>4. DecidedInv'
        BY <1>1, <1>6, <2>3 DEF DecidedInv, Untouched
    <2>5. JoinedInv'
        BY <1>1, <1>6, <2>1, <2>2 DEF JoinedInv, Untouched
    <2> QED
        BY <1>1, <1>3, <1>4, <1>5, <2>4, <2>5, UntouchedKeeps
<1>7. CASE ~(pc = "complete" /\ pc' = "finish")
    <2>1. pc = "gather" => \A n \in Calls : task[n] \in Ended \cup {"none"}
        BY <1>2 DEF Launched
    <2>2. config.concurrent
        BY <1>2, <1>7 DEF ModeInv
    <2>3. DecidedInv' /\ JoinedInv'
        BY <1>1, <1>2, <1>7, <2>1, <2>2 DEF DecidedInv, JoinedInv, Untouched
    <2> QED
        BY <1>1, <1>3, <1>4, <1>5, <2>3, UntouchedKeeps
<1> QED
    BY <1>2, <1>6, <1>7

-----------------------------------------------------------------------------
(* Calls that get their task.                                              *)

\* Tasks that come into being, with nothing done yet.
Fresh == {"none", "created", "approved"}

LEMMA FreshKeeps ==
    ASSUME StepInv, task' \in [Calls -> TaskStates],
           \A n \in Calls : task'[n] = task[n] \/ (task[n] \in Fresh /\ task'[n] \in Fresh),
           UNCHANGED <<ids, results, toolState, stored, queue, heard, faults>>
    PROVE  LedgerInv' /\ RecordInv' /\ EventOrder(heard', queue')
<1> USE DEF StepInv
<1>1. ASSUME NEW n \in Calls PROVE Events(n)' = Events(n) /\ Results(n)' = Results(n)
    BY DEF Events, Results
<1>2. LedgerInv'
    BY <1>1 DEF LedgerInv, LedgerOf, Fresh
<1>3. RecordInv'
    BY Typed DEF RecordInv, RecordOf, Fresh, DistinctIds
<1> QED
    BY <1>2, <1>3

LEMMA LaunchKeeps ==
    ASSUME StepInv, LaunchAccepted
    PROVE  StepInv'
<1> USE DEF StepInv
<1>1. /\ UNCHANGED <<config, chunks, found, ids, decisions, cancelling, queue, results>>
      /\ UNCHANGED <<toolState, stored, status, heard, faults>>
      /\ pc = "decided" /\ config.concurrent /\ pc' \in {"pattern", "stream"}
      /\ pc' = "pattern" => found > 0
    BY DEF LaunchAccepted, stream, context, NextPattern
<1>2. PICK c : c = Len(decisions) /\ c \in DOMAIN decisions /\ c \in Calls
               /\ task[c] = "none"
    BY <1>1, Typed DEF DecidedInv
<1>3. /\ task' \in [Calls -> TaskStates]
      /\ \A n \in Calls : n # c => task'[n] = task[n]
      /\ task'[c] = IF decisions[c].accepted THEN "created" ELSE "none"
    BY <1>2 DEF LaunchAccepted, LastCall, Becomes, TypeOK, TaskStates
<1>4. TypeOK'
    BY <1>1, <1>3 DEF TypeOK, Suspended
<1>5. ModeInv' /\ ReportedInv'
    BY <1>1, <1>2, <1>3 DEF ModeInv, ReportedInv
<1>6. DecidedInv'
    BY <1>1, <1>2, <1>3 DEF DecidedInv
<1>7. LaunchedInv'
    <2>1. \A n \in DOMAIN decisions : n \in Calls
        BY Typed
    <2> QED
        BY <1>1, <1>2, <1>3, <2>1 DEF LaunchedInv
<1>8. JoinedInv'
    BY <1>1, <1>2, <1>3 DEF JoinedInv
<1> QED
    BY <1>1, <1>2, <1>3, <1>4, <1>5, <1>6, <1>7, <1>8, FreshKeeps DEF Fresh

LEMMA ApproveKeeps ==
    ASSUME StepInv, NextDecision, ~(Len(decisions) < Len(ids))
    PROVE  StepInv'
<1> USE DEF StepInv
<1>1. /\ UNCHANGED <<config, chunks, found, ids, decisions, cancelling, queue, results>>
      /\ UNCHANGED <<toolState, stored, status, heard, faults>>
      /\ pc = "decided" /\ ~config.concurrent
      /\ pc' = IF Approved = {} THEN "finish" ELSE "execute"
      /\ task' = [n \in Calls |-> IF n \in Approved THEN "approved" ELSE "none"]
      /\ Len(decisions) = Len(ids)
    <2>1. Len(decisions) = Len(ids)
        <3>1. Len(decisions) \in Nat /\ Len(ids) \in Nat /\ Len(decisions) <= Len(ids)
            BY Typed
        <3> QED
            BY <3>1
    <2> QED
        BY <2>1 DEF NextDecision, stream, context
<1>2. \A n \in Calls : task[n] = "none"
    BY <1>1 DEF DecidedInv
<1>3. Approved \subseteq Calls /\ \A n \in DOMAIN decisions : n \in Calls
    BY Typed DEF Approved
<1>4. task' \in [Calls -> TaskStates]
    BY <1>1 DEF TaskStates
<1>5. TypeOK'
    BY <1>1, <1>4 DEF TypeOK, Suspended
<1>6. ModeInv' /\ ReportedInv'
    BY <1>1 DEF ModeInv, ReportedInv
<1>7. DecidedInv'
    BY <1>1 DEF DecidedInv, Approved
<1>8. LaunchedInv'
    BY <1>1, <1>3 DEF LaunchedInv, Approved
<1>9. JoinedInv'
    <2>1. queue = <<>> /\ cancelling = {}
        BY <1>1 DEF ModeInv
    <2> QED
        BY <1>1, <2>1 DEF JoinedInv, Live
<1> QED
    BY <1>1, <1>2, <1>4, <1>5, <1>6, <1>7, <1>8, <1>9, FreshKeeps DEF Fresh

-----------------------------------------------------------------------------
(* Failing and closing.                                                    *)

LEMMA StopKeeps ==
    ASSUME StepInv, StreamFails \/ PatternNotStored \/ OutputNotStored \/ Close
    PROVE  StepInv'
<1> USE DEF StepInv
<1>1. /\ UNCHANGED <<config, chunks, found, ids, decisions, task, queue, results>>
      /\ UNCHANGED <<toolState, stored, heard>>
      /\ pc' \in {"failed", "closed"} /\ pc \notin {"failed", "closed"}
    BY DEF StreamFails, PatternNotStored, OutputNotStored, Close, FailStep, stream, context,
           Suspended
<1>2. /\ cancelling' = Live \/ (cancelling' = cancelling /\ (pc' = "failed" => pc = "finish"))
      /\ status' \in {"error", status}
    BY DEF StreamFails, PatternNotStored, OutputNotStored, Close, FailStep
<1>3. faults' \in 0..MaxFaults /\ (faults' = 0 => faults = 0)
    <2>1. faults \in Nat /\ faults <= MaxFaults /\ MaxFaults \in Nat
        BY BoundsAssumption DEF TypeOK
    <2>2. faults' = faults \/ (faults < MaxFaults /\ faults' = faults + 1)
        BY <2>1 DEF StreamFails, PatternNotStored, OutputNotStored, Close, Fault, Raise
    <2> QED
        BY <2>1, <2>2
<1>4. Live \subseteq Calls /\ cancelling = {} /\ Live' = Live
    BY <1>1 DEF Live, JoinedInv
<1>5. TypeOK'
    BY <1>1, <1>2, <1>3, <1>4 DEF TypeOK, Terminal
<1>6. ModeInv'
    BY <1>1, <1>2, <1>4 DEF ModeInv, Live
<1>7. DecidedInv' /\ LaunchedInv' /\ ReportedInv'
    BY <1>1 DEF DecidedInv, LaunchedInv, ReportedInv
<1>8. JoinedInv'
    <2>1. \A n \in Calls : task[n] # "cancelled"
        BY <1>4 DEF JoinedInv
    <2>2. \A n \in Calls : task[n] = "dead" => faults' > 0
        <3>1. faults' \in Nat
            BY <1>3, BoundsAssumption
        <3>2. \A n \in Calls : task[n] = "dead" => faults # 0
            BY Typed DEF JoinedInv
        <3> QED
            BY <1>3, <3>1, <3>2
    <2>3. pc' = "failed" => Live \subseteq cancelling'
        <3>1. pc = "finish" => Live = {}
            BY DEF JoinedInv, Live, Ended
        <3> QED
            BY <1>2, <3>1
    <2> QED
        BY <1>1, <1>4, <2>1, <2>2, <2>3 DEF JoinedInv
<1> QED
    BY <1>1, <1>3, <1>5, <1>6, <1>7, <1>8, LedgerKept, RecordKept

-----------------------------------------------------------------------------
(* Steps of one call.                                                      *)

\* What announcing an event does.
LEMMA AppendEvent ==
    ASSUME NEW h \in [Calls -> Seq({"start", "end"})], NEW q \in Seq(EventType),
           EventOrder(h, q), NEW c \in Calls, NEW kind \in {"start", "end"},
           kind = "start" <=> Len(h[c]) + CountIn(q, c) = 0
    PROVE  /\ EventOrder(h, Append(q, Event(c, kind)))
           /\ Append(q, Event(c, kind)) \in Seq(EventType)
           /\ \A m \in Calls : /\ Len(h[m]) + CountIn(q, m) \in Nat
                               /\ Len(h[m]) + CountIn(Append(q, Event(c, kind)), m) =
                                    IF m = c THEN Len(h[m]) + CountIn(q, m) + 1
                                    ELSE Len(h[m]) + CountIn(q, m)
<1>1. \A m \in Calls : Len(h[m]) \in Nat /\ CountIn(q, m) \in Nat
    BY CountFacts, LenProperties
<1>2. Event(c, kind) \in EventType /\ Event(c, kind).call = c
    BY DEF Event, EventType
<1>3. kind = "start" <=> h[c] = <<>> /\ \A i \in 1..Len(q) : q[i].call # c
    <2>1. Len(h[c]) = 0 <=> h[c] = <<>>
        BY EmptySeq
    <2>2. CountIn(q, c) = 0 <=> \A i \in 1..Len(q) : q[i].call # c
        BY CountFacts
    <2>3. Len(h[c]) + CountIn(q, c) = 0 <=> Len(h[c]) = 0 /\ CountIn(q, c) = 0
        BY <1>1
    <2> QED
        BY <2>1, <2>2, <2>3
<1>4. ASSUME NEW m \in Calls
      PROVE  /\ Len(h[m]) + CountIn(q, m) \in Nat
             /\ Len(h[m]) + CountIn(Append(q, Event(c, kind)), m) =
                    IF m = c THEN Len(h[m]) + CountIn(q, m) + 1 ELSE Len(h[m]) + CountIn(q, m)
    <2>1. CountIn(Append(q, Event(c, kind)), m) =
            IF c = m THEN CountIn(q, m) + 1 ELSE CountIn(q, m)
        BY <1>2, CountAppend
    <2>2. PICK x \in Nat, y \in Nat : x = Len(h[m]) /\ y = CountIn(q, m)
        BY <1>1
    <2>3. PICK z : z = CountIn(Append(q, Event(c, kind)), m)
        OBVIOUS
    <2>4. z = IF m = c THEN y + 1 ELSE y
        BY <2>1, <2>2, <2>3
    <2>5. x + y \in Nat /\ x + z = IF m = c THEN x + y + 1 ELSE x + y
        BY <2>4
    <2> QED
        BY <2>2, <2>3, <2>5
<1> QED
    BY <1>3, <1>4, OrderAppend

LEMMA AnnounceOne ==
    ASSUME TypeOK, EventOrder(heard, queue), NEW c \in Calls, NEW kind \in {"start", "end"},
           kind = "start" <=> Events(c) = 0, Announce(c, <<kind>>), heard' = heard
    PROVE  /\ EventOrder(heard', queue') /\ queue' \in Seq(EventType)
           /\ \A m \in Calls : m # c => Events(m)' = Events(m)
           /\ Events(c)' = Events(c) + 1 /\ Events(c) \in Nat
<1>1. heard \in [Calls -> Seq({"start", "end"})] /\ queue \in Seq(EventType)
    BY Typed DEF TypeOK
<1>2. queue' = Append(queue, Event(c, kind))
    <2>1. Event(c, kind) \in EventType
        BY DEF Event, EventType
    <2> QED
        BY <1>1, <2>1, AppendedOnes DEF Announce
<1> QED
    BY <1>1, <1>2, AppendEvent DEF Events

LEMMA AnnounceTwo ==
    ASSUME TypeOK, EventOrder(heard, queue), NEW c \in Calls, NEW kind \in {"start", "end"},
           kind = "start" <=> Events(c) = 0, Announce(c, <<kind, "end">>), heard' = heard
    PROVE  /\ EventOrder(heard', queue') /\ queue' \in Seq(EventType)
           /\ \A m \in Calls : m # c => Events(m)' = Events(m)
           /\ Events(c)' = Events(c) + 2 /\ Events(c) \in Nat
<1>1. heard \in [Calls -> Seq({"start", "end"})] /\ queue \in Seq(EventType)
    BY Typed DEF TypeOK
<1>2. queue' = Append(Append(queue, Event(c, kind)), Event(c, "end"))
    <2>1. Event(c, kind) \in EventType /\ Event(c, "end") \in EventType
        BY DEF Event, EventType
    <2> QED
        BY <1>1, <2>1, AppendedOnes DEF Announce
<1>3. PICK q \in Seq(EventType) :
        /\ queue' = Append(q, Event(c, "end")) /\ EventOrder(heard, q)
        /\ \A m \in Calls : /\ Len(heard[m]) + CountIn(queue, m) \in Nat
                            /\ Len(heard[m]) + CountIn(q, m) =
                                IF m = c THEN Len(heard[m]) + CountIn(queue, m) + 1
                                ELSE Len(heard[m]) + CountIn(queue, m)
    <2> DEFINE p == Append(queue, Event(c, kind))
    <2>1. /\ EventOrder(heard, p) /\ p \in Seq(EventType)
          /\ \A m \in Calls : /\ Len(heard[m]) + CountIn(queue, m) \in Nat
                              /\ Len(heard[m]) + CountIn(p, m) =
                                    IF m = c THEN Len(heard[m]) + CountIn(queue, m) + 1
                                    ELSE Len(heard[m]) + CountIn(queue, m)
        BY <1>1, AppendEvent DEF Events
    <2>2. queue' = Append(p, Event(c, "end"))
        BY <1>2
    <2> HIDE DEF p
    <2> QED
        BY <2>1, <2>2
<1>4. Len(heard[c]) + CountIn(q, c) # 0
    BY <1>3
<1>5. /\ EventOrder(heard, queue') /\ queue' \in Seq(EventType)
      /\ \A m \in Calls : Len(heard[m]) + CountIn(queue', m) =
                                IF m = c THEN Len(heard[m]) + CountIn(q, m) + 1
                                ELSE Len(heard[m]) + CountIn(q, m)
    BY <1>1, <1>3, <1>4, AppendEvent
<1>6. ASSUME NEW m \in Calls
      PROVE  /\ Events(m) \in Nat
             /\ Events(m)' = IF m = c THEN Events(m) + 2 ELSE Events(m)
    BY <1>3, <1>5 DEF Events
<1> QED
    BY <1>5, <1>6

\* The sequences of events and results grow for call c only.
EventsGrow(c, k) ==
    /\ EventOrder(heard', queue') /\ queue' \in Seq(EventType)
    /\ heard' \in [Calls -> Seq({"start", "end"})]
    /\ \A m \in Calls : m # c => Events(m)' = Events(m)
    /\ Events(c)' = Events(c) + k /\ Events(c) \in Nat

ResultsGrow(c, k, u, b) == ListGrows(results, results', c, k, u, b)

ToolStates == {"none", "started", "finished", "failed"}
StoredResults == {"none", "ok", "failed"}

\* Only the records of call c change.
RecordsBecome(c, state, result) ==
    /\ toolState' \in [Ids -> ToolStates] /\ stored' \in [Ids -> StoredResults]
    /\ toolState'[ids[c]] = state /\ stored'[ids[c]] = result
    /\ \A i \in Ids : i # ids[c] => toolState'[i] = toolState[i] /\ stored'[i] = stored[i]

LEMMA EventsGrowBy ==
    ASSUME TypeOK, EventOrder(heard, queue), NEW c \in Calls
    PROVE  /\ UNCHANGED <<heard, queue>> => EventsGrow(c, 0)
           /\ \A kind \in {"start", "end"} :
                (kind = "start" <=> Events(c) = 0) /\ heard' = heard =>
                    /\ Announce(c, <<kind>>) => EventsGrow(c, 1)
                    /\ Announce(c, <<kind, "end">>) => EventsGrow(c, 2)
           /\ \A kind \in {"start", "end"} :
                (kind = "start" <=> Events(c) = 0) /\ queue = <<>> /\ queue' = queue =>
                    (Tell(c, kind) => EventsGrow(c, 1))
<1>1. heard \in [Calls -> Seq({"start", "end"})] /\ queue \in Seq(EventType)
    BY Typed DEF TypeOK
<1>2. \A m \in Calls : Len(heard[m]) \in Nat /\ CountIn(queue, m) \in Nat
    BY <1>1, CountFacts, LenProperties
<1>3. ASSUME UNCHANGED <<heard, queue>> PROVE EventsGrow(c, 0)
    <2>1. \A m \in Calls : Events(m)' = Events(m)
        BY <1>3 DEF Events
    <2>2. Events(c) \in Nat
        BY <1>2 DEF Events
    <2>3. Events(c)' = Events(c) + 0
        BY <2>1, <2>2
    <2> QED
        BY <1>1, <1>3, <2>1, <2>2, <2>3 DEF EventsGrow
<1>4. ASSUME NEW kind \in {"start", "end"}, kind = "start" <=> Events(c) = 0, heard' = heard
      PROVE  /\ Announce(c, <<kind>>) => EventsGrow(c, 1)
             /\ Announce(c, <<kind, "end">>) => EventsGrow(c, 2)
    BY <1>1, <1>4, AnnounceOne, AnnounceTwo DEF EventsGrow
<1>5. ASSUME NEW kind \in {"start", "end"}, kind = "start" <=> Events(c) = 0, queue = <<>>,
             queue' = queue, Tell(c, kind)
      PROVE  EventsGrow(c, 1)
    <2>1. heard' = [heard EXCEPT ![c] = Append(heard[c], kind)]
        BY <1>5 DEF Tell
    <2>2. /\ Append(heard[c], kind) \in Seq({"start", "end"})
          /\ Len(Append(heard[c], kind)) = Len(heard[c]) + 1
          /\ \A j \in 1..Len(heard[c]) : Append(heard[c], kind)[j] = heard[c][j]
          /\ Append(heard[c], kind)[Len(heard[c]) + 1] = kind
        BY <1>1, AppendProperties
    <2>3. /\ heard' \in [Calls -> Seq({"start", "end"})]
          /\ heard'[c] = Append(heard[c], kind)
          /\ \A m \in Calls : m # c => heard'[m] = heard[m]
        BY <1>1, <2>1, <2>2
    <2>4. ASSUME NEW m \in Calls PROVE CountIn(queue, m) = 0
        <3>1. Len(queue) = 0
            BY <1>5
        <3>2. \A k \in 1..Len(queue) : queue[k].call # m
            BY <3>1
        <3>3. CountIn(queue, m) = 0 <=> \A k \in 1..Len(queue) : queue[k].call # m
            BY <1>1, CountFacts
        <3> QED
            BY <3>2, <3>3
    <2>5. Events(c) = Len(heard[c]) /\ Events(c)' = Len(heard[c]) + 1
        BY <1>2, <1>5, <2>2, <2>3, <2>4 DEF Events
    <2>6. \A m \in Calls : m # c => Events(m)' = Events(m)
        BY <1>5, <2>3 DEF Events
    <2>7. ASSUME NEW n \in Calls, NEW j \in 1..Len(heard'[n])
          PROVE  heard'[n][j] = IF j = 1 THEN "start" ELSE "end"
        <3>1. CASE n # c
            BY <2>3, <3>1 DEF EventOrder
        <3>2. CASE n = c /\ j \in 1..Len(heard[c])
            <4>1. heard'[n][j] = heard[c][j]
                BY <2>2, <2>3, <3>2
            <4> QED
                BY <3>2, <4>1 DEF EventOrder
        <3>3. CASE n = c /\ j = Len(heard[c]) + 1
            <4>1. heard'[n][j] = kind
                BY <2>2, <2>3, <3>3
            <4>2. j = 1 <=> Len(heard[c]) = 0
                BY <1>2, <3>3
            <4> QED
                BY <1>5, <2>5, <4>1, <4>2
        <3> QED
            BY <1>2, <2>2, <2>3, <3>1, <3>2, <3>3
    <2>8. EventOrder(heard', queue')
        <3>1. Len(queue') = 0
            BY <1>5
        <3> QED
            BY <2>7, <3>1 DEF EventOrder
    <2> QED
        BY <1>1, <1>2, <1>5, <2>3, <2>5, <2>6, <2>8 DEF EventsGrow
<1> QED
    BY <1>3, <1>4, <1>5

LEMMA AppendOne ==
    ASSUME NEW x, NEW y
    PROVE  Append(<<>>, y) = <<y>> /\ Append(<<x>>, y) = <<x, y>>
<1>1. PICK S, s : x \in S /\ y \in S /\ s = <<x>>
    BY x \in {x, y} /\ y \in {x, y}
<1>2. /\ <<>> \in Seq(S) /\ s \in Seq(S) /\ <<x, y>> \in Seq(S) /\ Len(s) = 1 /\ s[1] = x
      /\ Len(<<x, y>>) = 2 /\ <<x, y>>[1] = x /\ <<x, y>>[2] = y
    BY <1>1
<1>3. Append(s, y) = <<x, y>>
    <2>1. /\ Append(s, y) \in Seq(S) /\ Len(Append(s, y)) = 2
          /\ Append(s, y)[1] = x /\ Append(s, y)[2] = y
        BY <1>1, <1>2, AppendProperties
    <2>2. \A k \in 1..2 : Append(s, y)[k] = <<x, y>>[k]
        BY <1>2, <2>1
    <2> QED
        BY <1>2, <2>1, <2>2, SeqEqual
<1>4. Append(<<>>, y) = <<y>>
    BY <1>1
<1> QED
    BY <1>1, <1>3, <1>4

LEMMA ResultFacts ==
    ASSUME NEW c \in Calls, NEW ok \in BOOLEAN, NEW storable \in BOOLEAN,
           NEW x, x = Result(c, ok, storable)
    PROVE  x \in ResultType /\ x.call = c /\ x.ok = ok /\ x.storable = storable
BY DEF Result, ResultType

LEMMA FailureFacts ==
    ASSUME NEW c \in Calls, NEW x, x = Failure(c)
    PROVE  x \in ResultType /\ x.call = c /\ x.ok = FALSE /\ x.storable = TRUE
BY DEF Failure, Result, ResultType

\* What Leave does with one result, and with a result and the failure that follows it.
LEMMA LeaveFacts ==
    ASSUME TypeOK, NEW c \in DOMAIN ids, NEW w, w.state \in ToolStates,
           w.result \in StoredResults,
           NEW x \in ResultType, x.call = c, NEW u \in BOOLEAN, NEW b \in BOOLEAN,
           u <=> ~x.storable, b <=> ~x.ok,
           NEW listed, NEW all, listed = <<x>>, all = Append(listed, Failure(c))
    PROVE  /\ Leave(c, listed, w) =>
                ResultsGrow(c, 1, u, b) /\ RecordsBecome(c, w.state, w.result)
           /\ Leave(c, all, w) =>
                ResultsGrow(c, 2, u, TRUE) /\ RecordsBecome(c, w.state, w.result)
<1>1. results \in Seq(ResultType) /\ c \in Calls /\ ids[c] \in Ids
    BY Typed
<1>2. PICK y : y = Failure(c)
    OBVIOUS
<1>3. y \in ResultType /\ y.call = c /\ y.ok = FALSE /\ y.storable = TRUE
    BY <1>1, <1>2, FailureFacts
<1>4. ASSUME toolState' = [toolState EXCEPT ![ids[c]] = w.state],
             stored' = [stored EXCEPT ![ids[c]] = w.result]
      PROVE  RecordsBecome(c, w.state, w.result)
    BY <1>1, <1>4 DEF RecordsBecome, TypeOK, ToolStates, StoredResults
<1>5. PICK s, t : s = Append(results, x) /\ t = Append(s, y)
    OBVIOUS
<1>6. ListGrows(results, s, c, 1, u, b)
    BY <1>1, <1>5, ListAppend
<1>7. ListGrows(s, t, c, 1, FALSE, TRUE)
    <2>1. s \in Seq(ResultType)
        BY <1>1, <1>5, AppendProperties
    <2>2. PICK no \in BOOLEAN, yes \in BOOLEAN : no = FALSE /\ yes = TRUE
        OBVIOUS
    <2>3. ListGrows(s, t, y.call, 1, no, yes)
        BY <1>3, <1>5, <2>1, <2>2, ListAppend
    <2> QED
        BY <1>3, <2>2, <2>3
<1>8. results \o listed = s /\ results \o all = t
    <2>1. all = <<x, y>>
        BY <1>2, AppendOne
    <2> QED
        BY <1>1, <1>3, <1>5, <2>1
<1>9. ASSUME Leave(c, listed, w)
      PROVE  ResultsGrow(c, 1, u, b) /\ RecordsBecome(c, w.state, w.result)
    BY <1>4, <1>6, <1>8, <1>9 DEF Leave, ResultsGrow
<1>10. ASSUME Leave(c, all, w)
       PROVE  ResultsGrow(c, 2, u, TRUE) /\ RecordsBecome(c, w.state, w.result)
    <2>1. results' = t
        BY <1>8, <1>10 DEF Leave
    <2>2. ListGrows(results, t, c, 2, u, TRUE)
        BY <1>6, <1>7 DEF ListGrows
    <2> QED
        BY <1>4, <1>10, <2>1, <2>2 DEF Leave, ResultsGrow
<1> QED
    BY <1>9, <1>10

\* What there may be of the records of a call that succeeded, once they are being written.
LEMMA SuccessWritten ==
    ASSUME TypeOK, NEW c \in DOMAIN ids, NEW storable \in BOOLEAN,
           NEW w \in Writing(RecordsOf(c), "finished", "ok", storable)
    PROVE  /\ w.state \in ToolStates /\ w.result \in StoredResults
           /\ w.error \in {"none", "storage", "json"}
           /\ w.error = "none" => storable /\ w.state = "finished" /\ w.result = "ok"
           /\ w.error # "none" => w.result = stored[ids[c]]
           /\ w.error = "json" => ~storable
           /\ Cost(w) \in Nat /\ (w.error = "storage" => Cost(w) = 1)
<1>1. ids[c] \in Ids /\ toolState[ids[c]] \in ToolStates /\ stored[ids[c]] \in StoredResults
    BY Typed DEF TypeOK, ToolStates, StoredResults
<1> QED
    BY <1>1 DEF Writing, RecordsOf, Cost, ToolStates, StoredResults

\* The same for a call that failed.
LEMMA FailureWritten ==
    ASSUME NEW old, old.state \in ToolStates, old.result \in StoredResults,
           NEW w \in WritingFailure(old)
    PROVE  /\ w.state \in ToolStates /\ w.result \in StoredResults
           /\ w.error \in {"none", "storage"}
           /\ w.error = "none" => w.state = "failed" /\ w.result = "failed" /\ Cost(w) = 0
           /\ w.error = "storage" => w.result = old.result /\ Cost(w) = 1
BY DEF Writing, WritingFailure, Cost, ToolStates, StoredResults

\* The state of call c becomes s; what it announces and leaves behind fits that state.
LEMMA CallMoves ==
    ASSUME StepInv, NEW c \in Calls, task[c] \notin Ended \cup {"none"},
           NEW s \in TaskStates \ {"none", "created", "approved"},
           task' = [task EXCEPT ![c] = s],
           UNCHANGED <<config, chunks, found, ids, decisions, cancelling, status>>,
           pc' = pc \/ (pc = "execute" /\ pc' = "failed"),
           config.concurrent => s \in {"running"} \cup Ended,
           ~config.concurrent => s \notin {"running", "cancelled"} /\ UNCHANGED queue,
           s = "running" => c \notin cancelling,
           s = "cancelled" => c \in cancelling,
           s = "dead" => faults' > 0,
           faults' \in Nat, faults <= faults', faults' <= MaxFaults,
           NEW e \in Nat, NEW r \in Nat, NEW u \in BOOLEAN, NEW b \in BOOLEAN,
           NEW state, NEW result,
           EventsGrow(c, e), ResultsGrow(c, r, u, b), RecordsBecome(c, state, result),
           LedgerOf(s, Events(c) + e, Results(c) + r, faults',
                    UnstorableIn(results, c) \/ u, FailedIn(results, c) \/ b),
           DistinctIds => RecordOf(s, state, result)
    PROVE  StepInv'
<1> USE DEF StepInv
<1>1. /\ c \in DOMAIN decisions /\ c \in DOMAIN ids /\ task \in [Calls -> TaskStates]
      /\ \A n \in DOMAIN decisions : n \in Calls
      /\ \A n \in DOMAIN ids : n \in Calls /\ ids[n] \in Ids
      /\ faults \in Nat
    BY Typed DEF DecidedInv, TypeOK
<1>2. /\ task'[c] = s /\ \A n \in Calls : n # c => task'[n] = task[n]
      /\ task' \in [Calls -> TaskStates]
    BY <1>1
<1>3. TypeOK'
    <2>1. pc' \in Suspended \cup Terminal \cup {"finish"}
        BY DEF TypeOK, Terminal
    <2>2. faults' \in 0..MaxFaults
        BY BoundsAssumption
    <2>3. /\ queue' \in Seq([call : Calls, kind : {"start", "end"}])
          /\ heard' \in [Calls -> Seq({"start", "end"})]
        BY DEF EventsGrow, EventType
    <2>4. /\ results' \in Seq([call : Calls, ok : BOOLEAN, storable : BOOLEAN])
          /\ toolState' \in [Ids -> {"none", "started", "finished", "failed"}]
          /\ stored' \in [Ids -> {"none", "ok", "failed"}]
        BY DEF ResultsGrow, ListGrows, ResultType, RecordsBecome, ToolStates, StoredResults
    <2> QED
        BY <1>2, <2>1, <2>2, <2>3, <2>4 DEF TypeOK
<1>4. ModeInv'
    BY <1>2 DEF ModeInv, Ended
<1>5. DecidedInv'
    BY <1>1, <1>2 DEF DecidedInv
<1>6. LaunchedInv'
    BY <1>1, <1>2 DEF LaunchedInv
<1>7. pc \notin {"flush", "finish", "done"}
    BY DEF JoinedInv
<1>8. JoinedInv'
    <2>1. \A n \in Calls : task'[n] = "dead" => faults' > 0
        <3>1. \A n \in Calls : n # c => (task'[n] = "dead" => faults > 0)
            BY <1>2 DEF JoinedInv
        <3> QED
            BY <1>1, <1>2, <3>1
    <2>2. \A n \in Calls : task'[n] = "cancelled" => n \in cancelling
        BY <1>2 DEF JoinedInv
    <2>3. pc' = "failed" => Live' \subseteq cancelling
        <3>1. CASE pc = "failed"
            <4>1. s # "running"
                BY <3>1 DEF JoinedInv, ModeInv, Live, Ended
            <4>2. \A n \in Calls : task'[n] \in {"created", "running"} => n \in Live
                BY <1>2, <4>1 DEF Live
            <4> QED
                BY <3>1, <4>2 DEF JoinedInv, Live
        <3>2. CASE pc = "execute"
            <4>1. \A n \in Calls : task'[n] \notin {"created", "running"}
                BY <1>2, <3>2 DEF ModeInv
            <4> QED
                BY <4>1 DEF Live
        <3> QED
            BY <3>1, <3>2
    <2> QED
        BY <1>7, <2>1, <2>2, <2>3 DEF JoinedInv
<1>9. ReportedInv'
    BY <1>7 DEF ReportedInv
<1>10. LedgerInv'
    <2> SUFFICES ASSUME NEW n \in Calls
                 PROVE  LedgerOf(task'[n], Events(n)', Results(n)', faults',
                                 UnstorableIn(results', n), FailedIn(results', n))
        BY DEF LedgerInv
    <2>1. CASE n = c
        <3>1. /\ task'[n] = s /\ Events(n)' = Events(c) + e /\ Results(n)' = Results(c) + r
              /\ UnstorableIn(results', n) <=> UnstorableIn(results, c) \/ u
              /\ FailedIn(results', n) <=> FailedIn(results, c) \/ b
            BY <1>2, <2>1 DEF EventsGrow, ResultsGrow, ListGrows, Results
        <3> QED
            BY <3>1 DEF LedgerOf
    <2>2. CASE n # c
        <3>1. /\ task'[n] = task[n] /\ Events(n)' = Events(n) /\ Results(n)' = Results(n)
              /\ UnstorableIn(results', n) <=> UnstorableIn(results, n)
              /\ FailedIn(results', n) <=> FailedIn(results, n)
              /\ faults' = 0 => faults = 0
            BY <1>1, <1>2, <2>2 DEF EventsGrow, ResultsGrow, ListGrows, Results
        <3>2. LedgerOf(task[n], Events(n), Results(n), faults,
                       UnstorableIn(results, n), FailedIn(results, n))
            BY DEF LedgerInv
        <3> QED
            BY <3>1, <3>2 DEF LedgerOf
    <2> QED
        BY <2>1, <2>2
<1>11. RecordInv'
    <2> SUFFICES ASSUME DistinctIds
                 PROVE  /\ \A n \in DOMAIN ids :
                                RecordOf(task'[n], toolState'[ids[n]], stored'[ids[n]])
                        /\ \A i \in Ids : (\A n \in DOMAIN ids : ids[n] # i) =>
                                toolState'[i] = "none" /\ stored'[i] = "none"
        BY DEF RecordInv, DistinctIds
    <2>1. ASSUME NEW n \in DOMAIN ids, n # c
          PROVE  RecordOf(task'[n], toolState'[ids[n]], stored'[ids[n]])
        <3>1. ids[n] # ids[c] /\ task'[n] = task[n]
            BY <1>1, <1>2, <2>1 DEF DistinctIds
        <3>2. toolState'[ids[n]] = toolState[ids[n]] /\ stored'[ids[n]] = stored[ids[n]]
            BY <1>1, <3>1 DEF RecordsBecome
        <3> QED
            BY <3>1, <3>2 DEF RecordInv
    <2>2. RecordOf(task'[c], toolState'[ids[c]], stored'[ids[c]])
        BY <1>2 DEF RecordsBecome
    <2>3. ASSUME NEW i \in Ids, \A n \in DOMAIN ids : ids[n] # i
          PROVE  toolState'[i] = "none" /\ stored'[i] = "none"
        BY <1>1, <2>3 DEF RecordsBecome, RecordInv
    <2> QED
        BY <2>1, <2>2, <2>3
<1> QED
    BY <1>3, <1>4, <1>5, <1>6, <1>8, <1>9, <1>10, <1>11 DEF EventsGrow

\* A storage call raises, or none does.
LEMMA FaultFacts ==
    ASSUME TypeOK
    PROVE  /\ faults \in Nat /\ MaxFaults \in Nat /\ faults <= MaxFaults
           /\ UNCHANGED faults => faults' \in Nat /\ faults <= faults' /\ faults' <= MaxFaults
           /\ \A count \in Nat : Raise(count) =>
                /\ faults' \in Nat /\ faults <= faults' /\ faults' <= MaxFaults
                /\ faults' = faults + count
           /\ Fault => faults' \in Nat /\ faults <= faults' /\ faults' <= MaxFaults /\ faults' > 0
<1>1. faults \in Nat /\ MaxFaults \in Nat /\ faults <= MaxFaults
    BY BoundsAssumption DEF TypeOK
<1>2. ASSUME NEW count \in Nat, Raise(count)
      PROVE  /\ faults' \in Nat /\ faults <= faults' /\ faults' <= MaxFaults
             /\ faults' = faults + count
    BY <1>1, <1>2 DEF Raise
<1>3. Fault => faults' = faults + 1
    BY <1>1 DEF Fault, Raise
<1> QED
    BY <1>1, <1>2, <1>3 DEF Fault

\* What the ledger and the records say of a call whose task exists.
LEMMA CallFacts ==
    ASSUME StepInv, NEW c \in Calls, task[c] \notin Ended \cup {"none"}
    PROVE  /\ c \in DOMAIN ids /\ ids[c] \in Ids
           /\ toolState[ids[c]] \in ToolStates /\ stored[ids[c]] \in StoredResults
           /\ Events(c) \in Nat /\ Results(c) \in Nat
           /\ LedgerOf(task[c], Events(c), Results(c), faults,
                       UnstorableIn(results, c), FailedIn(results, c))
           /\ Results(c) = 0 => ~UnstorableIn(results, c) /\ ~FailedIn(results, c)
           /\ DistinctIds => RecordOf(task[c], toolState[ids[c]], stored[ids[c]])
<1> USE DEF StepInv
<1>1. c \in DOMAIN ids /\ ids[c] \in Ids
    BY Typed DEF DecidedInv
<1>2. toolState[ids[c]] \in ToolStates /\ stored[ids[c]] \in StoredResults
    BY <1>1 DEF TypeOK, ToolStates, StoredResults
<1>3. LedgerOf(task[c], Events(c), Results(c), faults,
               UnstorableIn(results, c), FailedIn(results, c))
    BY DEF LedgerInv
<1>4. DistinctIds => RecordOf(task[c], toolState[ids[c]], stored[ids[c]])
    BY <1>1 DEF RecordInv
<1>5. Events(c) \in Nat /\ Results(c) \in Nat
    <2>1. EventOrder(heard, queue) /\ TypeOK
        OBVIOUS
    <2>2. heard \in [Calls -> Seq({"start", "end"})] /\ queue \in Seq(EventType)
          /\ results \in Seq(ResultType)
        BY Typed DEF TypeOK
    <2>3. Len(heard[c]) \in Nat /\ CountIn(queue, c) \in Nat /\ CountIn(results, c) \in Nat
        BY <2>2, CountFacts, LenProperties
    <2> QED
        BY <2>3 DEF Events, Results
<1>6. Results(c) = 0 => ~UnstorableIn(results, c) /\ ~FailedIn(results, c)
    <2>1. results \in Seq(ResultType) /\ DOMAIN results = 1..Len(results)
        BY Typed, LenProperties
    <2>2. Results(c) = 0 => EntriesIn(results, c) = {}
        BY <2>1, CountFacts DEF Results, EntriesIn
    <2> QED
        BY <2>2 DEF UnstorableIn, FailedIn
<1> QED
    BY <1>1, <1>2, <1>3, <1>4, <1>5, <1>6

\* What is left behind by a call that succeeded, and by one that then could not be recorded.
SucceededAs(c, storable, listed, all, u, no) ==
    /\ u \in BOOLEAN /\ no \in BOOLEAN
    /\ u <=> ~storable
    /\ no = FALSE
    /\ \A v : v.state \in ToolStates /\ v.result \in StoredResults =>
        /\ Leave(c, listed, v) =>
                ResultsGrow(c, 1, u, no) /\ RecordsBecome(c, v.state, v.result)
        /\ Leave(c, all, v) =>
                ResultsGrow(c, 2, u, TRUE) /\ RecordsBecome(c, v.state, v.result)

LEMMA SuccessLeaves ==
    ASSUME TypeOK, NEW c \in DOMAIN ids, NEW storable \in BOOLEAN,
           NEW x, NEW listed, NEW all, x = Result(c, TRUE, storable), listed = <<x>>,
           all = Append(listed, Failure(c))
    PROVE  \E u, no : SucceededAs(c, storable, listed, all, u, no)
<1>1. c \in Calls
    BY Typed
<1>2. x \in ResultType /\ x.call = c /\ x.ok = TRUE /\ x.storable = storable
    BY <1>1 DEF Result, ResultType
<1>3. PICK u \in BOOLEAN, no \in BOOLEAN : (u <=> ~storable) /\ no = FALSE
    OBVIOUS
<1>4. (u <=> ~x.storable) /\ (no <=> ~x.ok)
    BY <1>2, <1>3
<1>5. ASSUME NEW v, v.state \in ToolStates, v.result \in StoredResults
      PROVE  /\ Leave(c, listed, v) =>
                    ResultsGrow(c, 1, u, no) /\ RecordsBecome(c, v.state, v.result)
             /\ Leave(c, all, v) =>
                    ResultsGrow(c, 2, u, TRUE) /\ RecordsBecome(c, v.state, v.result)
    BY <1>2, <1>4, <1>5, LeaveFacts
<1>6. SucceededAs(c, storable, listed, all, u, no)
    BY <1>3, <1>5 DEF SucceededAs
<1> QED
    BY <1>6

\* What is left behind when no result is listed and no record is written.
LEMMA ResultsSame ==
    ASSUME TypeOK, NEW c \in Calls, UNCHANGED results
    PROVE  ResultsGrow(c, 0, FALSE, FALSE)
<1>1. results \in Seq(ResultType) /\ results' = results
    BY Typed
<1> QED
    BY <1>1, ListSame DEF ResultsGrow

LEMMA RecordsSame ==
    ASSUME TypeOK, NEW c \in DOMAIN ids, UNCHANGED <<toolState, stored>>
    PROVE  RecordsBecome(c, toolState[ids[c]], stored[ids[c]])
BY DEF RecordsBecome, TypeOK, ToolStates, StoredResults

-----------------------------------------------------------------------------
(* The concurrent tasks.                                                   *)

LEMMA TaskFacts ==
    ASSUME StepInv, NEW c \in Calls, TaskStep(c)
    PROVE  /\ task[c] \in {"created", "running"} /\ task[c] \notin Ended \cup {"none"}
           /\ config.concurrent
           /\ UNCHANGED <<config, pc, chunks, found, ids, decisions, cancelling, status, heard>>
<1>1. task[c] \in {"created", "running"}
    BY DEF TaskStep, TaskStarts, TaskRefused, TaskNeverStarts, TaskSucceeds, TaskFails,
           TaskCancelled, CanRun, Live
<1>2. config.concurrent
    BY <1>1 DEF StepInv, ModeInv
<1>3. TaskOnly
    BY DEF TaskStep, TaskStarts, TaskRefused, TaskNeverStarts, TaskSucceeds, TaskFails,
           TaskCancelled
<1> QED
    BY <1>1, <1>2, <1>3 DEF Ended, TaskOnly, stream

\* A task that lists a failure: it ends, or dies of writing the records.
FailedAs(c, listed, old, spent, w, s, all) ==
    /\ w.state \in ToolStates /\ w.result \in StoredResults
    /\ all = Append(listed, Failure(c)) /\ Leave(c, all, w)
    /\ task' = [task EXCEPT ![c] = s]
    /\ faults' \in Nat /\ faults <= faults' /\ faults' <= MaxFaults
    /\ faults' = 0 => spent = 0
    /\ \/ s = "ended" /\ w.state = "failed" /\ w.result = "failed"
       \/ s = "dead" /\ w.result = old.result /\ faults' > 0

LEMMA FailTaskFacts ==
    ASSUME TypeOK, NEW c \in DOMAIN ids, NEW listed, NEW old, old.state \in ToolStates,
           old.result \in StoredResults, NEW spent \in Nat, FailTask(c, listed, old, spent)
    PROVE  \E w, s, all : FailedAs(c, listed, old, spent, w, s, all)
<1>1. PICK w \in WritingFailure(old) :
        /\ Leave(c, Append(listed, Failure(c)), w) /\ Raise(spent + Cost(w))
        /\ task' = [task EXCEPT ![c] = IF w.error = "none" THEN "ended" ELSE "dead"]
    BY DEF FailTask, Becomes
<1>2. /\ w.state \in ToolStates /\ w.result \in StoredResults
      /\ w.error \in {"none", "storage"}
      /\ w.error = "none" => w.state = "failed" /\ w.result = "failed" /\ Cost(w) = 0
      /\ w.error = "storage" => w.result = old.result /\ Cost(w) = 1
    BY FailureWritten
<1>3. spent + Cost(w) \in Nat
    BY <1>2
<1>4. /\ faults' \in Nat /\ faults <= faults' /\ faults' <= MaxFaults /\ faults \in Nat
      /\ faults' = faults + (spent + Cost(w))
    BY <1>1, <1>3, FaultFacts
<1>5. (faults' = 0 => spent = 0) /\ (w.error = "storage" => faults' > 0)
    BY <1>2, <1>4
<1>6. PICK s, all : /\ s = (IF w.error = "none" THEN "ended" ELSE "dead")
                    /\ all = Append(listed, Failure(c))
    OBVIOUS
<1>7. FailedAs(c, listed, old, spent, w, s, all)
    BY <1>1, <1>2, <1>4, <1>5, <1>6 DEF FailedAs
<1> QED
    BY <1>7

LEMMA StartsKeeps ==
    ASSUME StepInv, NEW c \in Calls, TaskStarts(c)
    PROVE  StepInv'
<1>1. /\ task[c] = "created" /\ task[c] \notin Ended \cup {"none"} /\ config.concurrent
      /\ UNCHANGED <<config, pc, chunks, found, ids, decisions, cancelling, status, heard>>
      /\ c \notin cancelling
    BY TaskFacts DEF TaskStep, TaskStarts, CanRun
<1>2. /\ c \in DOMAIN ids /\ ids[c] \in Ids /\ Events(c) = 0 /\ Results(c) = 0
      /\ stored[ids[c]] \in StoredResults
      /\ DistinctIds => stored[ids[c]] = "none"
    BY <1>1, CallFacts DEF LedgerOf, RecordOf
<1>3. EventsGrow(c, 1) /\ ResultsGrow(c, 0, FALSE, FALSE)
    BY <1>1, <1>2, EventsGrowBy, ResultsSame DEF StepInv, TaskStarts
<1>4. RecordsBecome(c, "started", stored[ids[c]])
    BY <1>2 DEF RecordsBecome, TaskStarts, StepInv, TypeOK, ToolStates, StoredResults
<1>5. /\ LedgerOf("running", Events(c) + 1, Results(c) + 0, faults',
                  UnstorableIn(results, c) \/ FALSE, FailedIn(results, c) \/ FALSE)
      /\ DistinctIds => RecordOf("running", "started", stored[ids[c]])
    BY <1>2 DEF LedgerOf, RecordOf
<1>6. /\ task' = [task EXCEPT ![c] = "running"]
      /\ "running" \in TaskStates \ {"none", "created", "approved"}
    BY DEF TaskStarts, Becomes, TaskStates
<1>7. faults' \in Nat /\ faults <= faults' /\ faults' <= MaxFaults
    BY FaultFacts DEF StepInv, TaskStarts
<1> QED
    BY <1>1, <1>3, <1>4, <1>5, <1>6, <1>7, CallMoves

\* A tool is refused, raises or times out.
LEMMA FailsKeeps ==
    ASSUME StepInv, NEW c \in Calls, TaskRefused(c) \/ TaskFails(c)
    PROVE  StepInv'
<1>1. /\ task[c] \in {"created", "running"} /\ task[c] \notin Ended \cup {"none"}
      /\ config.concurrent
      /\ UNCHANGED <<config, pc, chunks, found, ids, decisions, cancelling, status, heard>>
    BY TaskFacts DEF TaskStep
<1>2. /\ c \in DOMAIN ids /\ ids[c] \in Ids /\ Results(c) = 0
      /\ Events(c) = IF task[c] = "created" THEN 0 ELSE 1
      /\ toolState[ids[c]] \in ToolStates /\ stored[ids[c]] \in StoredResults
      /\ ~UnstorableIn(results, c) /\ ~FailedIn(results, c)
      /\ DistinctIds => stored[ids[c]] = "none"
    BY <1>1, CallFacts DEF LedgerOf, RecordOf
<1>3. PICK k \in {1, 2} : EventsGrow(c, k) /\ Events(c) + k = 2
    <2>1. CASE TaskRefused(c)
        BY <1>1, <1>2, <2>1, EventsGrowBy DEF StepInv, TaskRefused, CanRun
    <2>2. CASE TaskFails(c)
        BY <1>1, <1>2, <2>2, EventsGrowBy DEF StepInv, TaskFails, CanRun
    <2> QED
        BY <2>1, <2>2
<1>4. PICK old, listed : /\ FailTask(c, listed, old, 0) /\ listed = <<>>
                         /\ old.result = stored[ids[c]] /\ old.state \in ToolStates
    BY <1>2 DEF TaskRefused, TaskFails, RecordsOf, ToolStates
<1>5. PICK w, s, all : FailedAs(c, listed, old, 0, w, s, all)
    <2>1. TypeOK /\ old.result \in StoredResults /\ 0 \in Nat
        BY <1>2, <1>4 DEF StepInv
    <2> QED
        BY <1>2, <1>4, <2>1, FailTaskFacts
<1> USE <1>5 DEF FailedAs
<1>6. ResultsGrow(c, 1, FALSE, TRUE) /\ RecordsBecome(c, w.state, w.result)
    <2>1. PICK x, more : x = Failure(c) /\ all = <<x>> /\ more = Append(all, Failure(c))
        BY <1>4, AppendOne
    <2>2. x \in ResultType /\ x.call = c /\ x.ok = FALSE /\ x.storable = TRUE
        BY <2>1, FailureFacts
    <2>3. PICK no \in BOOLEAN, yes \in BOOLEAN : no = FALSE /\ yes = TRUE
        OBVIOUS
    <2>4. ResultsGrow(c, 1, no, yes) /\ RecordsBecome(c, w.state, w.result)
        BY <1>2, <1>5, <2>1, <2>2, <2>3, LeaveFacts DEF StepInv
    <2> QED
        BY <2>3, <2>4
<1>7. /\ s \in TaskStates \ {"none", "created", "approved"} /\ s \in Ended
      /\ s # "running" /\ s # "cancelled"
    BY <1>5 DEF TaskStates, Ended
<1>8. /\ LedgerOf(s, Events(c) + k, Results(c) + 1, faults',
                  UnstorableIn(results, c) \/ FALSE, FailedIn(results, c) \/ TRUE)
      /\ DistinctIds => RecordOf(s, w.state, w.result)
    BY <1>2, <1>3, <1>4, <1>5 DEF LedgerOf, RecordOf
<1>9. s = "dead" => faults' > 0
    BY <1>5
<1>10. /\ UNCHANGED <<config, chunks, found, ids, decisions, cancelling, status>>
       /\ pc' = pc /\ config.concurrent
       /\ k \in Nat /\ EventsGrow(c, k)
    BY <1>1, <1>3
<1>11. /\ task' = [task EXCEPT ![c] = s]
       /\ faults' \in Nat /\ faults <= faults' /\ faults' <= MaxFaults
    BY <1>5
<1> QED
    BY <1>1, <1>6, <1>7, <1>8, <1>9, <1>10, <1>11, CallMoves

LEMMA NeverStartsKeeps ==
    ASSUME StepInv, NEW c \in Calls, TaskNeverStarts(c) \/ TaskCancelled(c)
    PROVE  StepInv'
<1>1. /\ task[c] \in {"created", "running"} /\ task[c] \notin Ended \cup {"none"}
      /\ config.concurrent
      /\ UNCHANGED <<config, pc, chunks, found, ids, decisions, cancelling, status, heard>>
    BY TaskFacts DEF TaskStep
<1>2. /\ c \in DOMAIN ids /\ Events(c) \in Nat /\ Results(c) = 0
      /\ task[c] = "created" => Events(c) = 0
      /\ ~UnstorableIn(results, c) /\ ~FailedIn(results, c)
      /\ DistinctIds => stored[ids[c]] = "none"
    BY <1>1, CallFacts DEF LedgerOf, RecordOf
<1>3. UNCHANGED <<queue, results, toolState, stored>>
    BY DEF TaskNeverStarts, TaskCancelled, context
<1>4. EventsGrow(c, 0) /\ ResultsGrow(c, 0, FALSE, FALSE)
    BY <1>1, <1>2, <1>3, EventsGrowBy, ResultsSame DEF StepInv
<1>5. PICK s :
        /\ \/ s = "cancelled" /\ c \in cancelling /\ UNCHANGED faults
           \/ s = "dead" /\ task[c] = "created" /\ Fault
        /\ task' = [task EXCEPT ![c] = s]
    BY DEF TaskNeverStarts, TaskCancelled, Becomes, CanRun
<1>6. RecordsBecome(c, toolState[ids[c]], stored[ids[c]])
    BY <1>2, <1>3, RecordsSame DEF StepInv
<1>7. /\ faults' \in Nat /\ faults <= faults' /\ faults' <= MaxFaults
      /\ s = "dead" => faults' > 0
    BY <1>5, FaultFacts DEF StepInv
<1>8. /\ s \in TaskStates \ {"none", "created", "approved"} /\ s \in Ended /\ s # "running"
    BY <1>5 DEF TaskStates, Ended
<1>9. /\ LedgerOf(s, Events(c) + 0, Results(c) + 0, faults',
                  UnstorableIn(results, c) \/ FALSE, FailedIn(results, c) \/ FALSE)
      /\ DistinctIds => RecordOf(s, toolState[ids[c]], stored[ids[c]])
    BY <1>2, <1>5 DEF LedgerOf, RecordOf
<1> QED
    BY <1>1, <1>4, <1>5, <1>6, <1>7, <1>8, <1>9, CallMoves

\* A tool has ended well: its result is written, or writing it raises and it fails after all.
LEMMA SucceedsKeeps ==
    ASSUME StepInv, NEW c \in Calls, TaskSucceeds(c)
    PROVE  StepInv'
<1>1. /\ task[c] = "running" /\ task[c] \notin Ended \cup {"none"} /\ config.concurrent
      /\ UNCHANGED <<config, pc, chunks, found, ids, decisions, cancelling, status, heard>>
    BY TaskFacts DEF TaskStep, TaskSucceeds, CanRun
<1>2. /\ c \in DOMAIN ids /\ ids[c] \in Ids /\ Events(c) = 1 /\ Results(c) = 0
      /\ toolState[ids[c]] \in ToolStates /\ stored[ids[c]] \in StoredResults
      /\ ~UnstorableIn(results, c) /\ ~FailedIn(results, c)
      /\ DistinctIds => stored[ids[c]] = "none"
    BY <1>1, CallFacts DEF LedgerOf, RecordOf
<1>3. PICK storable, w, x, listed :
        /\ storable \in BOOLEAN /\ w \in Writing(RecordsOf(c), "finished", "ok", storable)
        /\ x = Result(c, TRUE, storable) /\ listed = <<x>>
        /\ \/ /\ w.error = "none" /\ Announce(c, <<"end">>) /\ Leave(c, listed, w)
              /\ task' = [task EXCEPT ![c] = "ended"] /\ UNCHANGED faults
           \/ /\ w.error # "none" /\ Announce(c, <<"end", "end">>)
              /\ FailTask(c, listed, w, Cost(w))
    BY DEF TaskSucceeds, Becomes
<1>4. /\ w.state \in ToolStates /\ w.result \in StoredResults
      /\ w.error \in {"none", "storage", "json"}
      /\ w.error = "none" => storable /\ w.state = "finished" /\ w.result = "ok"
      /\ w.error # "none" => w.result = stored[ids[c]]
      /\ w.error = "json" => ~storable
      /\ Cost(w) \in Nat /\ (w.error = "storage" => Cost(w) = 1)
    BY <1>2, <1>3, SuccessWritten DEF StepInv
<1>5. PICK all : all = Append(listed, Failure(c))
    OBVIOUS
<1>6. PICK u, no : SucceededAs(c, storable, listed, all, u, no)
    <2>1. TypeOK
        BY DEF StepInv
    <2> QED
        BY <1>2, <1>3, <1>5, <2>1, SuccessLeaves
<1> USE <1>6 DEF SucceededAs
<1>7. CASE w.error = "none"
    <2>1. EventsGrow(c, 1)
        BY <1>1, <1>2, <1>3, <1>7, EventsGrowBy DEF StepInv
    <2>2. ResultsGrow(c, 1, FALSE, FALSE) /\ RecordsBecome(c, "finished", "ok")
        <3>1. ResultsGrow(c, 1, u, no) /\ RecordsBecome(c, w.state, w.result)
            BY <1>3, <1>4, <1>6, <1>7
        <3>2. u = FALSE
            BY <1>4, <1>6, <1>7
        <3> QED
            BY <1>4, <1>6, <1>7, <3>1, <3>2
    <2>3. /\ LedgerOf("ended", Events(c) + 1, Results(c) + 1, faults',
                      UnstorableIn(results, c) \/ FALSE, FailedIn(results, c) \/ FALSE)
          /\ DistinctIds => RecordOf("ended", "finished", "ok")
        BY <1>2 DEF LedgerOf, RecordOf
    <2>4. faults' \in Nat /\ faults <= faults' /\ faults' <= MaxFaults
        BY <1>3, <1>7, FaultFacts DEF StepInv
    <2>5. "ended" \in TaskStates \ {"none", "created", "approved"} /\ "ended" \in Ended
        BY DEF TaskStates, Ended
    <2> QED
        BY <1>1, <1>3, <1>7, <2>1, <2>2, <2>3, <2>4, <2>5, CallMoves
<1>8. CASE w.error # "none"
    <2>1. EventsGrow(c, 2)
        BY <1>1, <1>2, <1>3, <1>8, EventsGrowBy DEF StepInv
    <2>2. FailTask(c, listed, w, Cost(w)) /\ TypeOK
        BY <1>3, <1>8 DEF StepInv
    <2>3. PICK v, s, more : FailedAs(c, listed, w, Cost(w), v, s, more)
        BY <1>2, <1>4, <2>2, FailTaskFacts
    <2> USE <2>3 DEF FailedAs
    <2>4. ResultsGrow(c, 2, u, TRUE) /\ RecordsBecome(c, v.state, v.result)
        BY <1>5, <1>6, <2>3
    <2>6. faults' = 0 => u
        BY <1>4, <1>6, <1>8, <2>3
    <2>7. /\ LedgerOf(s, Events(c) + 2, Results(c) + 2, faults',
                      UnstorableIn(results, c) \/ u, FailedIn(results, c) \/ TRUE)
          /\ DistinctIds => RecordOf(s, v.state, v.result)
        BY <1>2, <1>4, <1>8, <2>3, <2>6 DEF LedgerOf, RecordOf
    <2>8. /\ s \in TaskStates \ {"none", "created", "approved"} /\ s \in Ended
          /\ s # "running" /\ s # "cancelled"
          /\ s = "dead" => faults' > 0
        BY <2>3 DEF TaskStates, Ended
    <2>9. /\ u \in BOOLEAN /\ task' = [task EXCEPT ![c] = s]
          /\ faults' \in Nat /\ faults <= faults' /\ faults' <= MaxFaults
        BY <1>6, <2>3
    <2> HIDE <1>6, <2>3 DEF SucceededAs, FailedAs
    <2> QED
        BY <1>1, <2>1, <2>4, <2>7, <2>8, <2>9, CallMoves
<1> QED
    BY <1>7, <1>8

-----------------------------------------------------------------------------
(* The calls that run one by one.                                          *)

LEMMA ExecuteFacts ==
    ASSUME StepInv, NEW c \in Calls, ExecuteStep(c)
    PROVE  /\ pc = "execute" /\ ~config.concurrent /\ queue = <<>> /\ cancelling = {}
           /\ task[c] \in {"approved", "starting", "calling", "succeeding", "failing"}
           /\ task[c] \notin Ended \cup {"none"}
           /\ UNCHANGED <<config, chunks, found, ids, decisions, cancelling, queue, status>>
<1>1. /\ pc = "execute"
      /\ task[c] \in {"approved", "starting", "calling", "succeeding", "failing"}
    BY DEF ExecuteStep, StartTool, CallTool, ToolReturns, RecordSuccess, RecordFailure, Current
<1>2. ~config.concurrent /\ queue = <<>> /\ cancelling = {}
    BY <1>1 DEF StepInv, ModeInv
<1>3. UNCHANGED <<config, chunks, found, ids, decisions, cancelling, queue, status>>
    BY DEF ExecuteStep, StartTool, CallTool, ToolReturns, RecordSuccess, RecordFailure,
           ExecuteOnly, stream
<1> QED
    BY <1>1, <1>2, <1>3 DEF Ended

\* The tool is announced, or its start cannot be stored.
LEMMA StartToolKeeps ==
    ASSUME StepInv, NEW c \in Calls, StartTool(c)
    PROVE  StepInv'
<1>1. /\ pc = "execute" /\ ~config.concurrent /\ queue = <<>> /\ cancelling = {}
      /\ task[c] = "approved" /\ task[c] \notin Ended \cup {"none"}
      /\ UNCHANGED <<config, chunks, found, ids, decisions, cancelling, queue, status>>
    BY ExecuteFacts DEF ExecuteStep, StartTool
<1>2. /\ c \in DOMAIN ids /\ ids[c] \in Ids /\ Events(c) = 0 /\ Results(c) = 0
      /\ ~UnstorableIn(results, c) /\ ~FailedIn(results, c)
      /\ toolState[ids[c]] \in ToolStates /\ stored[ids[c]] \in StoredResults
      /\ DistinctIds => stored[ids[c]] = "none"
    BY <1>1, CallFacts DEF LedgerOf, RecordOf
<1>3. UNCHANGED <<results, stored>> /\ ResultsGrow(c, 0, FALSE, FALSE)
    BY ResultsSame DEF StepInv, StartTool
<1>4. CASE /\ toolState' = [toolState EXCEPT ![ids[c]] = "started"]
           /\ Tell(c, "start") /\ Becomes(c, "starting") /\ UNCHANGED <<pc, faults>>
    <2>1. EventsGrow(c, 1)
        BY <1>1, <1>2, <1>4, EventsGrowBy DEF StepInv
    <2>2. RecordsBecome(c, "started", stored[ids[c]])
        BY <1>2, <1>3, <1>4 DEF RecordsBecome, StepInv, TypeOK, ToolStates, StoredResults
    <2>3. /\ LedgerOf("starting", Events(c) + 1, Results(c) + 0, faults',
                      UnstorableIn(results, c) \/ FALSE, FailedIn(results, c) \/ FALSE)
          /\ DistinctIds => RecordOf("starting", "started", stored[ids[c]])
        BY <1>2 DEF LedgerOf, RecordOf
    <2>4. faults' \in Nat /\ faults <= faults' /\ faults' <= MaxFaults
        BY <1>4, FaultFacts DEF StepInv
    <2>5. /\ "starting" \in TaskStates \ {"none", "created", "approved"}
          /\ task' = [task EXCEPT ![c] = "starting"]
        BY <1>4 DEF TaskStates, Becomes
    <2> QED
        BY <1>1, <1>3, <1>4, <2>1, <2>2, <2>3, <2>4, <2>5, CallMoves
<1>5. CASE Escape(c) /\ UNCHANGED <<toolState, heard>>
    <2>1. EventsGrow(c, 0)
        BY <1>1, <1>5, EventsGrowBy DEF StepInv
    <2>2. RecordsBecome(c, toolState[ids[c]], stored[ids[c]])
        BY <1>2, <1>3, <1>5, RecordsSame DEF StepInv
    <2>3. /\ LedgerOf("dead", Events(c) + 0, Results(c) + 0, faults',
                      UnstorableIn(results, c) \/ FALSE, FailedIn(results, c) \/ FALSE)
          /\ DistinctIds => RecordOf("dead", toolState[ids[c]], stored[ids[c]])
        BY <1>2 DEF LedgerOf, RecordOf
    <2>4. faults' \in Nat /\ faults <= faults' /\ faults' <= MaxFaults /\ faults' > 0
        BY <1>5, FaultFacts DEF StepInv, Escape
    <2>5. /\ "dead" \in TaskStates \ {"none", "created", "approved"}
          /\ task' = [task EXCEPT ![c] = "dead"] /\ pc' = "failed"
        BY <1>5 DEF TaskStates, Becomes, Escape, Ended
    <2> QED
        BY <1>1, <1>3, <2>1, <2>2, <2>3, <2>4, <2>5, CallMoves
<1> QED
    BY <1>4, <1>5 DEF StartTool

\* The tool is called, refused, or returns.
LEMMA RunToolKeeps ==
    ASSUME StepInv, NEW c \in Calls, CallTool(c) \/ ToolReturns(c)
    PROVE  StepInv'
<1>1. /\ pc = "execute" /\ ~config.concurrent /\ queue = <<>> /\ cancelling = {}
      /\ task[c] \in {"starting", "calling"} /\ task[c] \notin Ended \cup {"none"}
      /\ UNCHANGED <<config, chunks, found, ids, decisions, cancelling, queue, status>>
      /\ UNCHANGED <<pc, results, toolState, stored, faults>>
    BY ExecuteFacts DEF ExecuteStep, CallTool, ToolReturns, context
<1>2. /\ c \in DOMAIN ids /\ Events(c) = 1 /\ Results(c) = 0
      /\ ~UnstorableIn(results, c) /\ ~FailedIn(results, c)
      /\ DistinctIds => stored[ids[c]] = "none"
    BY <1>1, CallFacts DEF LedgerOf, RecordOf
<1>3. ResultsGrow(c, 0, FALSE, FALSE) /\ RecordsBecome(c, toolState[ids[c]], stored[ids[c]])
    BY <1>1, <1>2, ResultsSame, RecordsSame DEF StepInv
<1>4. PICK s :
        /\ \/ s = "calling" /\ UNCHANGED heard
           \/ s \in {"succeeding", "failing"} /\ Tell(c, "end")
        /\ task' = [task EXCEPT ![c] = s]
    BY DEF CallTool, ToolReturns, Becomes, ToolOutcomes
<1>5. PICK k \in {0, 1} : EventsGrow(c, k) /\ k = IF s = "calling" THEN 0 ELSE 1
    BY <1>1, <1>2, <1>4, EventsGrowBy DEF StepInv
<1>6. /\ LedgerOf(s, Events(c) + k, Results(c) + 0, faults',
                  UnstorableIn(results, c) \/ FALSE, FailedIn(results, c) \/ FALSE)
      /\ DistinctIds => RecordOf(s, toolState[ids[c]], stored[ids[c]])
    BY <1>2, <1>4, <1>5 DEF LedgerOf, RecordOf
<1>7. faults' \in Nat /\ faults <= faults' /\ faults' <= MaxFaults
    BY <1>1, FaultFacts DEF StepInv
<1>8. /\ s \in TaskStates \ {"none", "created", "approved"}
      /\ s \notin {"running", "cancelled", "dead"}
    BY <1>4 DEF TaskStates
<1> QED
    BY <1>1, <1>3, <1>4, <1>5, <1>6, <1>7, <1>8, CallMoves

\* The result is listed, then stored.
LEMMA RecordSuccessKeeps ==
    ASSUME StepInv, NEW c \in Calls, RecordSuccess(c)
    PROVE  StepInv'
<1>1. /\ pc = "execute" /\ ~config.concurrent /\ queue = <<>> /\ cancelling = {}
      /\ task[c] = "succeeding" /\ task[c] \notin Ended \cup {"none"}
      /\ UNCHANGED <<config, chunks, found, ids, decisions, cancelling, queue, status>>
      /\ UNCHANGED pc
    BY ExecuteFacts DEF ExecuteStep, RecordSuccess
<1>2. /\ c \in DOMAIN ids /\ Events(c) = 2 /\ Results(c) = 0
      /\ toolState[ids[c]] \in ToolStates /\ stored[ids[c]] \in StoredResults
      /\ ~UnstorableIn(results, c) /\ ~FailedIn(results, c)
      /\ DistinctIds => stored[ids[c]] = "none"
    BY <1>1, CallFacts DEF LedgerOf, RecordOf
<1>3. PICK storable, w, x, listed :
        /\ storable \in BOOLEAN /\ w \in Writing(RecordsOf(c), "finished", "ok", storable)
        /\ x = Result(c, TRUE, storable) /\ listed = <<x>>
        /\ Leave(c, listed, w) /\ Raise(Cost(w))
        /\ IF w.error = "none"
           THEN UNCHANGED heard /\ task' = [task EXCEPT ![c] = "ended"]
           ELSE Tell(c, "end") /\ task' = [task EXCEPT ![c] = "failing"]
    BY DEF RecordSuccess, Becomes
<1>4. /\ w.state \in ToolStates /\ w.result \in StoredResults
      /\ w.error \in {"none", "storage", "json"}
      /\ w.error = "none" => storable /\ w.state = "finished" /\ w.result = "ok"
      /\ w.error # "none" => w.result = stored[ids[c]]
      /\ w.error = "json" => ~storable
      /\ Cost(w) \in Nat /\ (w.error = "storage" => Cost(w) = 1)
    BY <1>2, <1>3, SuccessWritten DEF StepInv
<1>5. PICK s : /\ task' = [task EXCEPT ![c] = s]
               /\ s = IF w.error = "none" THEN "ended" ELSE "failing"
    BY <1>3
<1>6. PICK u \in BOOLEAN, no \in BOOLEAN :
        /\ u <=> ~storable
        /\ no = FALSE
        /\ ResultsGrow(c, 1, u, no) /\ RecordsBecome(c, w.state, w.result)
    <2>1. PICK all : all = Append(listed, Failure(c)) /\ TypeOK
        BY DEF StepInv
    <2>2. PICK u, no : SucceededAs(c, storable, listed, all, u, no)
        BY <1>2, <1>3, <2>1, SuccessLeaves
    <2> QED
        BY <1>3, <1>4, <2>2 DEF SucceededAs
<1>7. PICK k \in {0, 1} : EventsGrow(c, k) /\ k = IF w.error = "none" THEN 0 ELSE 1
    BY <1>1, <1>2, <1>3, <1>4, EventsGrowBy DEF StepInv
<1>8. /\ faults' \in Nat /\ faults <= faults' /\ faults' <= MaxFaults
      /\ faults' = 0 => Cost(w) = 0
    <2>1. faults' = faults + Cost(w) /\ faults \in Nat
        BY <1>3, <1>4, FaultFacts DEF StepInv
    <2> QED
        BY <1>3, <1>4, <2>1, FaultFacts DEF StepInv
<1>10. /\ LedgerOf(s, Events(c) + k, Results(c) + 1, faults',
                   UnstorableIn(results, c) \/ u, FailedIn(results, c) \/ FALSE)
       /\ DistinctIds => RecordOf(s, w.state, w.result)
    BY <1>2, <1>4, <1>5, <1>6, <1>7, <1>8 DEF LedgerOf, RecordOf
<1>11. /\ s \in TaskStates \ {"none", "created", "approved"}
       /\ s \notin {"running", "cancelled", "dead"}
    BY <1>5 DEF TaskStates, Ended
<1>12. ResultsGrow(c, 1, u, FALSE)
    BY <1>6
<1>13. /\ UNCHANGED <<config, chunks, found, ids, decisions, cancelling, status>>
       /\ pc' = pc
       /\ config.concurrent => s \in {"running"} \cup Ended
       /\ ~config.concurrent => s \notin {"running", "cancelled"} /\ UNCHANGED queue
    BY <1>1, <1>11
<1>14. /\ faults' \in Nat /\ faults <= faults' /\ faults' <= MaxFaults
       /\ k \in Nat /\ EventsGrow(c, k)
    BY <1>7, <1>8
<1>15. RecordsBecome(c, w.state, w.result)
    BY <1>6
<1> QED
    BY <1>1, <1>5, <1>10, <1>11, <1>12, <1>13, <1>14, <1>15, CallMoves

LEMMA RecordFailureKeeps ==
    ASSUME StepInv, NEW c \in Calls, RecordFailure(c)
    PROVE  StepInv'
<1>1. /\ pc = "execute" /\ ~config.concurrent /\ queue = <<>> /\ cancelling = {}
      /\ task[c] = "failing" /\ task[c] \notin Ended \cup {"none"}
      /\ UNCHANGED <<config, chunks, found, ids, decisions, cancelling, queue, status>>
      /\ UNCHANGED heard
    BY ExecuteFacts DEF ExecuteStep, RecordFailure
<1>2. /\ c \in DOMAIN ids /\ Results(c) \in Nat /\ Events(c) = 2 + Results(c)
      /\ faults = 0 => Results(c) = IF UnstorableIn(results, c) THEN 1 ELSE 0
      /\ toolState[ids[c]] \in ToolStates /\ stored[ids[c]] \in StoredResults
      /\ DistinctIds => stored[ids[c]] = "none"
    BY <1>1, CallFacts DEF LedgerOf, RecordOf
<1>3. PICK w, x, listed :
        /\ w \in WritingFailure(RecordsOf(c))
        /\ x = Failure(c) /\ listed = <<x>> /\ Leave(c, listed, w)
        /\ IF w.error = "none"
           THEN task' = [task EXCEPT ![c] = "ended"] /\ UNCHANGED <<pc, faults>>
           ELSE Fault /\ task' = [task EXCEPT ![c] = "dead"] /\ pc' = "failed"
    BY DEF RecordFailure, Escape, Becomes
<1>4. /\ w.state \in ToolStates /\ w.result \in StoredResults
      /\ w.error \in {"none", "storage"}
      /\ w.error = "none" => w.state = "failed" /\ w.result = "failed"
      /\ w.error = "storage" => w.result = stored[ids[c]]
    <2>1. RecordsOf(c).state \in ToolStates /\ RecordsOf(c).result = stored[ids[c]]
        BY <1>2 DEF RecordsOf
    <2> QED
        BY <1>2, <1>3, <2>1, FailureWritten
<1>5. PICK s : /\ task' = [task EXCEPT ![c] = s]
               /\ s = IF w.error = "none" THEN "ended" ELSE "dead"
               /\ IF w.error = "none" THEN UNCHANGED <<pc, faults>> ELSE Fault /\ pc' = "failed"
    BY <1>3
<1>6. ResultsGrow(c, 1, FALSE, TRUE) /\ RecordsBecome(c, w.state, w.result)
    <2>1. x \in ResultType /\ x.call = c /\ x.ok = FALSE /\ x.storable = TRUE
        BY <1>3, FailureFacts
    <2>2. PICK no, yes, all :
            /\ no \in BOOLEAN /\ yes \in BOOLEAN /\ no = FALSE /\ yes = TRUE
            /\ all = Append(listed, Failure(c))
        OBVIOUS
    <2>3. ResultsGrow(c, 1, no, yes) /\ RecordsBecome(c, w.state, w.result)
        BY <1>2, <1>3, <1>4, <2>1, <2>2, LeaveFacts DEF StepInv
    <2> QED
        BY <2>2, <2>3
<1>7. EventsGrow(c, 0)
    BY <1>1, EventsGrowBy DEF StepInv
<1>8. /\ faults' \in Nat /\ faults <= faults' /\ faults' <= MaxFaults
      /\ s = "dead" => faults' > 0
      /\ faults' = 0 => faults = 0
    <2>1. /\ faults' \in Nat /\ faults <= faults' /\ faults' <= MaxFaults /\ faults \in Nat
          /\ s = "dead" => faults' > 0
        BY <1>4, <1>5, FaultFacts DEF StepInv
    <2> QED
        BY <2>1
<1>9. /\ LedgerOf(s, Events(c) + 0, Results(c) + 1, faults',
                  UnstorableIn(results, c) \/ FALSE, FailedIn(results, c) \/ TRUE)
      /\ DistinctIds => RecordOf(s, w.state, w.result)
    BY <1>2, <1>4, <1>5, <1>8 DEF LedgerOf, RecordOf
<1>10. /\ s \in TaskStates \ {"none", "created", "approved"}
       /\ s \notin {"running", "cancelled"}
    BY <1>5 DEF TaskStates, Ended
<1> QED
    BY <1>1, <1>5, <1>6, <1>7, <1>8, <1>9, <1>10, CallMoves

-----------------------------------------------------------------------------
(* The end of the step.                                                    *)

LEMMA FinishKeeps ==
    ASSUME StepInv, AllExecuted \/ Finish
    PROVE  StepInv'
<1> USE DEF StepInv
<1>1. /\ UNCHANGED <<config, chunks, found, ids, task, cancelling, queue, results>>
      /\ UNCHANGED <<toolState, stored, heard, faults>>
    BY DEF AllExecuted, Finish, ExecuteOnly, stream, context
<1>2. LedgerInv' /\ RecordInv' /\ EventOrder(heard', queue')
    BY <1>1, LedgerKept, RecordKept
<1>3. CASE AllExecuted
    <2>1. /\ pc = "execute" /\ pc' = "finish" /\ UNCHANGED <<decisions, status>>
          /\ \A n \in Approved : task[n] \in Ended
        BY <1>3 DEF AllExecuted, ExecuteOnly
    <2>2. ~config.concurrent /\ queue = <<>>
        BY <2>1 DEF ModeInv
    <2>3. \A n \in Calls : task[n] \in Ended \cup {"none"}
        BY <2>1 DEF DecidedInv, Approved
    <2>4. TypeOK' /\ ModeInv' /\ DecidedInv' /\ LaunchedInv' /\ ReportedInv'
        BY <1>1, <2>1, <2>2 DEF TypeOK, ModeInv, DecidedInv, LaunchedInv, ReportedInv
    <2>5. JoinedInv'
        BY <1>1, <2>1, <2>2, <2>3 DEF JoinedInv
    <2> QED
        BY <1>2, <2>4, <2>5
<1>4. CASE Finish
    <2>1. /\ pc = "finish" /\ pc' = "done" /\ status' \in StepStatus(decisions')
          /\ decisions' = [n \in DOMAIN decisions |->
                                [decisions[n] EXCEPT !.executed = Matched(n)]]
        BY <1>4 DEF Finish
    <2>2. /\ DOMAIN decisions = 1..Len(decisions) /\ Len(decisions) \in Nat
          /\ decisions \in Seq(DecisionType)
        BY Typed
    <2>3. \A n \in DOMAIN decisions :
            /\ decisions'[n] \in DecisionType
            /\ decisions'[n].accepted = decisions[n].accepted
            /\ decisions'[n].executed = Matched(n)
        <3> SUFFICES ASSUME NEW n \in DOMAIN decisions
                     PROVE  /\ decisions'[n] \in DecisionType
                            /\ decisions'[n].accepted = decisions[n].accepted
                            /\ decisions'[n].executed = Matched(n)
            OBVIOUS
        <3>1. decisions[n] \in DecisionType
            BY <2>2, ElementOfSeq
        <3>2. Matched(n) \in BOOLEAN
            BY DEF Matched
        <3>3. decisions'[n] = [decisions[n] EXCEPT !.executed = Matched(n)]
            BY <2>1
        <3> QED
            BY <3>1, <3>2, <3>3 DEF DecisionType
    <2>4. decisions' \in Seq(DecisionType) /\ Len(decisions') = Len(decisions)
          /\ DOMAIN decisions' = DOMAIN decisions
        <3>1. decisions' \in [1..Len(decisions) -> DecisionType]
            BY <2>1, <2>2, <2>3
        <3>2. decisions' \in Seq(DecisionType)
            BY <2>2, <3>1, SeqDef
        <3>3. DOMAIN decisions' = 1..Len(decisions') /\ Len(decisions') \in Nat
            BY <3>2, LenProperties
        <3>4. DOMAIN decisions' = 1..Len(decisions)
            BY <3>1
        <3>5. Len(decisions') = Len(decisions)
            <4>1. ASSUME NEW a \in Nat, NEW b \in Nat, 1..a = 1..b PROVE a = b
                <5>1. (a \in 1..a <=> a \in 1..b) /\ (b \in 1..a <=> b \in 1..b)
                    BY <4>1
                <5> QED
                    BY <5>1
            <4> QED
                BY <2>2, <3>3, <3>4, <4>1
        <3> QED
            BY <2>2, <3>2, <3>4, <3>5
    <2>5. TypeOK'
        <3>1. status' \in {"none", "error", "tool_executed", "waiting_for_tool",
                           "tools_rejected", "done", "ok"}
            BY <2>1 DEF StepStatus
        <3> QED
            BY <1>1, <2>1, <2>4, <3>1 DEF TypeOK, DecisionType, Terminal
    <2>6. ModeInv' /\ JoinedInv'
        BY <1>1, <2>1 DEF ModeInv, JoinedInv
    <2>7. DecidedInv'
        BY <1>1, <2>1, <2>3, <2>4 DEF DecidedInv
    <2>8. LaunchedInv'
        BY <1>1, <2>1, <2>3, <2>4 DEF LaunchedInv
    <2>9. ReportedInv'
        <3>1. \A n : Matched(n)' = Matched(n)
            BY <1>1 DEF Matched
        <3>2. StepStatus(decisions)' = StepStatus(decisions')
            BY <1>1 DEF StepStatus
        <3> QED
            BY <2>1, <2>3, <2>4, <3>1, <3>2 DEF ReportedInv
    <2> QED
        BY <1>2, <2>5, <2>6, <2>7, <2>8, <2>9
<1> QED
    BY <1>3, <1>4

-----------------------------------------------------------------------------
(* The invariant, and what follows from it.                                *)

LEMMA NextKeeps ==
    StepInv /\ [Next]_vars => StepInv'
<1> SUFFICES ASSUME StepInv, [Next]_vars PROVE StepInv'
    OBVIOUS
<1>1. CASE UNCHANGED vars
    <2>1. Untouched /\ UNCHANGED <<pc, chunks, found, ids, decisions>>
        BY <1>1 DEF vars, Untouched
    <2>2. TypeOK' /\ ModeInv' /\ DecidedInv' /\ LaunchedInv' /\ JoinedInv'
        BY <2>1 DEF StepInv, Untouched, TypeOK, ModeInv, DecidedInv, LaunchedInv, JoinedInv, Live
    <2>3. ReportedInv'
        BY <2>1 DEF StepInv, Untouched, ReportedInv, Matched, StepStatus
    <2> QED
        BY <2>1, <2>2, <2>3, UntouchedKeeps DEF StepInv
<1>2. CASE Proceed
    <2>1. CASE ReceiveChunk \/ FeedChunk \/ StreamEnds
        BY <2>1, ChunkKeeps
    <2>2. CASE DrainQueue
        BY <2>2, DrainKeeps
    <2>3. CASE DetectCall
        BY <2>3, DetectKeeps
    <2>4. CASE Verify
        BY <2>4, VerifyKeeps
    <2>5. CASE LaunchAccepted
        BY <2>5, LaunchKeeps
    <2>6. CASE AfterStream
        BY <2>6, VerifyKeeps, JoinKeeps
    <2>7. CASE Gather \/ Flushed
        BY <2>7, JoinKeeps
    <2>8. CASE NextDecision
        BY <2>8, VerifyKeeps, ApproveKeeps
    <2>9. CASE AllExecuted \/ Finish
        BY <2>9, FinishKeeps
    <2>10. ASSUME NEW n \in Calls, ExecuteStep(n) PROVE StepInv'
        BY <2>10, StartToolKeeps, RunToolKeeps, RecordSuccessKeeps, RecordFailureKeeps
           DEF ExecuteStep
    <2> QED
        BY <1>2, <2>1, <2>2, <2>3, <2>4, <2>5, <2>6, <2>7, <2>8, <2>9, <2>10 DEF Proceed
<1>3. ASSUME NEW n \in Calls, TaskStep(n) PROVE StepInv'
    BY <1>3, StartsKeeps, FailsKeeps, NeverStartsKeeps, SucceedsKeeps DEF TaskStep
<1>4. CASE StreamFails \/ PatternNotStored \/ OutputNotStored \/ Close
    BY <1>4, StopKeeps
<1> QED
    BY <1>1, <1>2, <1>3, <1>4 DEF Next

\* Every reachable state satisfies the invariant.
THEOREM StepInvariance == Spec => []StepInv
<1>1. Init => StepInv
    BY InitStep
<1>2. StepInv /\ [Next]_vars => StepInv'
    BY NextKeeps
<1> QED
    BY <1>1, <1>2, PTL DEF Spec

\* The variables of a step keep their types (AgentRunner.step_stream).
THEOREM StepTypeCorrect == Spec => []TypeOK
<1>1. StepInv => TypeOK
    BY DEF StepInv
<1> QED
    BY <1>1, StepInvariance, PTL

\* The results that EventsPrecedeReport and ReportMatchesDecisions look at.
LEMMA ResultsCounted ==
    ASSUME TypeOK, NEW n \in Calls
    PROVE  /\ Cardinality(ResultsOf(n)) = Results(n) /\ Results(n) \in Nat
           /\ Len(heard[n]) \in Nat
           /\ ResultsOf(n) = {} <=> Results(n) = 0
           /\ (\A k \in ResultsOf(n) : results[k].storable) <=> ~UnstorableIn(results, n)
           /\ (\A k \in ResultsOf(n) : results[k].ok) <=> ~FailedIn(results, n)
           /\ Results(n) = 0 => ~UnstorableIn(results, n) /\ ~FailedIn(results, n)
<1>1. /\ results \in Seq(ResultType) /\ heard[n] \in Seq({"start", "end"})
      /\ DOMAIN results = 1..Len(results)
    BY Typed, LenProperties DEF TypeOK
<1>2. ResultsOf(n) = EntriesIn(results, n)
    BY DEF ResultsOf, EntriesIn
<1>3. Results(n) \in Nat /\ (Results(n) = 0 <=> EntriesIn(results, n) = {})
    BY <1>1, CountFacts DEF Results, EntriesIn
<1> QED
    BY <1>1, <1>2, <1>3, LenProperties DEF Results, CountIn, UnstorableIn, FailedIn

\* When the step is reported, every call that got a task has ended by itself.
LEMMA ReportedCall ==
    ASSUME StepInv, pc = "done", NEW n \in Calls
    PROVE  /\ task[n] \in {"none", "ended", "dead"} /\ queue = <<>>
           /\ Events(n) = Len(heard[n])
           /\ LedgerOf(task[n], Len(heard[n]), Results(n), faults,
                       UnstorableIn(results, n), FailedIn(results, n))
<1> USE DEF StepInv
<1>1. task[n] \in {"none", "ended", "dead"} /\ queue = <<>>
    BY DEF JoinedInv, Ended
<1>2. Events(n) = Len(heard[n])
    <2>1. \A k \in 1..Len(queue) : queue[k].call # n
        <3>1. Len(queue) = 0
            BY <1>1
        <3> QED
            BY <3>1
    <2>2. CountIn(queue, n) = 0
        <3>1. queue \in Seq(EventType)
            BY Typed
        <3> QED
            BY <2>1, <3>1, CountFacts
    <2> QED
        BY <2>2, ResultsCounted DEF Events
<1>3. LedgerOf(task[n], Events(n), Results(n), faults,
               UnstorableIn(results, n), FailedIn(results, n))
    BY DEF LedgerInv
<1> QED
    BY <1>1, <1>2, <1>3

\* When StepCompleteEvent comes, the consumer has had the start of every tool and one end for
\* each result (the queue is drained once more after gather, and in the other mode each tool
\* speaks to the consumer itself).
THEOREM EventsComeFirst == Spec => []EventsPrecedeReport
<1>1. ASSUME StepInv PROVE EventsPrecedeReport
    <2> SUFFICES ASSUME pc = "done", NEW n \in Launched
                 PROVE  /\ queue = <<>>
                        /\ LET ends == [k \in 1..Cardinality(ResultsOf(n)) |-> "end"]
                           IN  heard[n] = (IF ends = <<>> THEN ends ELSE <<"start">> \o ends)
        <3>1. pc = "done" => queue = <<>>
            BY <1>1 DEF StepInv, JoinedInv
        <3> QED
            BY <3>1 DEF EventsPrecedeReport
    <2>1. n \in Calls /\ task[n] # "none"
        BY DEF Launched
    <2>2. PICK r \in Nat : r = Results(n) /\ Cardinality(ResultsOf(n)) = r
        BY <1>1, <2>1, ResultsCounted DEF StepInv
    <2>3. PICK h \in Seq({"start", "end"}) : h = heard[n]
        BY <1>1, <2>1 DEF StepInv, TypeOK
    <2>4. queue = <<>> /\ Len(h) \in Nat /\ Len(h) = IF r = 0 THEN 0 ELSE r + 1
        <3>1. /\ LedgerOf(task[n], Len(h), r, faults,
                          UnstorableIn(results, n), FailedIn(results, n))
              /\ task[n] \in {"ended", "dead"}
            BY <1>1, <2>1, <2>2, <2>3, ReportedCall
        <3> QED
            BY <1>1, <2>1, <2>2, <2>3, <3>1, ReportedCall, LenProperties DEF LedgerOf
    <2>5. \A j \in 1..Len(h) : h[j] = IF j = 1 THEN "start" ELSE "end"
        BY <1>1, <2>1, <2>3 DEF StepInv, EventOrder
    <2> DEFINE ends == [k \in 1..r |-> "end"]
    <2>6. ends \in Seq({"start", "end"}) /\ Len(ends) = r
        OBVIOUS
    <2>7. ends = <<>> <=> r = 0
        BY <2>6, EmptySeq
    <2>8. CASE r = 0
        BY <2>2, <2>3, <2>4, <2>7, <2>8, EmptySeq
    <2>9. CASE r # 0
        <3>1. /\ <<"start">> \o ends \in Seq({"start", "end"})
              /\ Len(<<"start">> \o ends) = r + 1
              /\ \A j \in 1..(r + 1) : (<<"start">> \o ends)[j] = IF j = 1 THEN "start" ELSE "end"
            BY <2>6
        <3>2. h = <<"start">> \o ends
            BY <2>4, <2>5, <2>9, <3>1, SeqEqual
        <3> QED
            BY <2>2, <2>3, <2>4, <2>7, <2>9, <3>2
    <2> QED
        BY <2>8, <2>9
<1> QED
    BY <1>1, StepInvariance, PTL

\* With distinct ids the report says of each call whether it was refused, and with a storage that
\* works whether it ran and with how many results; the status follows (tool_results are matched
\* to decisions by call id; a result that JSON cannot hold is listed again, as a failure).
THEOREM ReportIsAccurate == Spec => []ReportMatchesDecisions
<1>1. ASSUME StepInv PROVE ReportMatchesDecisions
    <2> USE <1>1 DEF StepInv
    <2> SUFFICES ASSUME pc = "done", DistinctIds
                 PROVE  /\ Len(decisions) = Len(ids)
                        /\ \A n \in DOMAIN decisions :
                            LET storable == \A k \in ResultsOf(n) : results[k].storable
                            IN  /\ ~decisions[n].accepted =>
                                        ~decisions[n].executed /\ ResultsOf(n) = {}
                                /\ decisions[n].accepted /\ faults = 0 =>
                                    /\ decisions[n].executed
                                    /\ Cardinality(ResultsOf(n)) = IF storable THEN 1 ELSE 2
                                /\ ~storable => status = "error"
                        /\ faults = 0 => status # "waiting_for_tool"
        BY DEF ReportMatchesDecisions
    <2>1. Len(decisions) = Len(ids)
        BY DEF DecidedInv
    <2>2. /\ \A n \in DOMAIN decisions : n \in Calls /\ n \in DOMAIN ids
          /\ DOMAIN ids = 1..Len(ids) /\ Len(ids) \in Nat /\ results \in Seq(ResultType)
          /\ DOMAIN results = 1..Len(results)
        BY Typed, LenProperties
    <2>3. ASSUME NEW n \in DOMAIN decisions
          PROVE  /\ Results(n) \in Nat
                 /\ ~decisions[n].accepted => Results(n) = 0
                 /\ decisions[n].accepted /\ faults = 0 =>
                        Results(n) = IF UnstorableIn(results, n) THEN 2 ELSE 1
                 /\ UnstorableIn(results, n) => FailedIn(results, n)
        <3>1. /\ task[n] \in {"none", "ended", "dead"} /\ Results(n) \in Nat
              /\ LedgerOf(task[n], Len(heard[n]), Results(n), faults,
                          UnstorableIn(results, n), FailedIn(results, n))
              /\ Results(n) = 0 => ~UnstorableIn(results, n)
            BY <2>2, ReportedCall, ResultsCounted
        <3>2. task[n] = "dead" => faults # 0
            BY <2>2, Typed DEF JoinedInv
        <3>3. decisions[n].accepted <=> task[n] # "none"
            BY <2>2 DEF LaunchedInv, DecidedInv
        <3> QED
            BY <3>1, <3>2, <3>3 DEF LedgerOf
    <2>4. ASSUME NEW k \in DOMAIN results PROVE results[k].call \in DOMAIN decisions
        <3>1. results[k] \in ResultType
            BY <2>2, ElementOfSeq
        <3>2. PICK m \in Calls : m = results[k].call
            BY <3>1 DEF ResultType
        <3>3. Results(m) # 0
            BY <2>2, <3>2, CountFacts DEF Results
        <3>4. task[m] # "none"
            BY <3>2, <3>3 DEF LedgerInv, LedgerOf
        <3> QED
            BY <3>2, <3>4 DEF DecidedInv
    <2>5. ASSUME NEW n \in DOMAIN decisions
          PROVE  decisions[n].executed <=> Results(n) # 0
        <3>1. decisions[n].executed = Matched(n)
            BY DEF ReportedInv
        <3>2. Results(n) = 0 <=> \A k \in DOMAIN results : results[k].call # n
            BY <2>2, CountFacts DEF Results
        <3>3. \A k \in DOMAIN results : ids[results[k].call] = ids[n] <=> results[k].call = n
            BY <2>2, <2>4 DEF DistinctIds
        <3>4. \A m \in 1..(n - 1) : ids[m] # ids[n]
            BY <2>2 DEF DistinctIds
        <3>5. Matched(n) <=> Results(n) # 0
            BY <3>2, <3>3, <3>4 DEF Matched
        <3> QED
            BY <3>1, <3>5
    <2>6. status \in StepStatus(decisions)
        BY DEF ReportedInv
    <2>7. ASSUME NEW n \in DOMAIN decisions
          PROVE  LET storable == \A k \in ResultsOf(n) : results[k].storable
                 IN  /\ ~decisions[n].accepted => ~decisions[n].executed /\ ResultsOf(n) = {}
                     /\ decisions[n].accepted /\ faults = 0 =>
                            /\ decisions[n].executed
                            /\ Cardinality(ResultsOf(n)) = IF storable THEN 1 ELSE 2
                     /\ ~storable => status = "error"
        <3>1. /\ Cardinality(ResultsOf(n)) = Results(n)
              /\ ResultsOf(n) = {} <=> Results(n) = 0
              /\ (\A k \in ResultsOf(n) : results[k].storable) <=> ~UnstorableIn(results, n)
            BY <2>2, <2>7, ResultsCounted
        <3>2. UnstorableIn(results, n) => status = "error"
            <4>1. UnstorableIn(results, n) => \E k \in DOMAIN results : ~results[k].ok
                BY <2>3, <2>7 DEF FailedIn, EntriesIn
            <4> QED
                BY <2>6, <4>1 DEF StepStatus
        <3> QED
            BY <2>3, <2>5, <2>7, <3>1, <3>2
    <2>8. faults = 0 => status # "waiting_for_tool"
        <3> SUFFICES ASSUME faults = 0 PROVE status # "waiting_for_tool"
            OBVIOUS
        <3>1. \A n \in DOMAIN decisions : decisions[n].accepted => decisions[n].executed
            BY <2>3, <2>5
        <3> QED
            BY <2>6, <3>1 DEF StepStatus
    <2> QED
        BY <2>1, <2>7, <2>8
<1> QED
    BY <1>1, StepInvariance, PTL

\* The two records that the context keeps of a call agree, unless a call with that id runs
\* (tool_state:{id} and tool:result:{iteration}:{id} are written one after the other).
THEOREM RecordsAgree == Spec => []ContextAgreesOnOutcome
<1>1. ASSUME StepInv PROVE ContextAgreesOnOutcome
    <2> SUFFICES ASSUME NEW i \in Ids, DistinctIds,
                        \A n \in DOMAIN ids : ids[n] = i => task[n] \in Ended \cup {"none"}
                 PROVE  /\ stored[i] = "ok" => toolState[i] = "finished"
                        /\ stored[i] = "failed" => toolState[i] = "failed"
        BY DEF ContextAgreesOnOutcome
    <2>1. CASE \A n \in DOMAIN ids : ids[n] # i
        BY <1>1, <2>1 DEF StepInv, RecordInv
    <2>2. ASSUME NEW n \in DOMAIN ids, ids[n] = i
          PROVE  /\ stored[i] = "ok" => toolState[i] = "finished"
                 /\ stored[i] = "failed" => toolState[i] = "failed"
        BY <1>1, <2>2 DEF StepInv, RecordInv, RecordOf, Ended
    <2> QED
        BY <2>1, <2>2
<1> QED
    BY <1>1, StepInvariance, PTL

\* After a step has failed no tool starts, and nothing is written about its calls (the tasks are
\* told to cancel in the except branch, and a task that is told to cancel runs no more).
THEOREM FailureIsFinal == Spec => NothingStartsAfterFailure
<1>1. ASSUME StepInv, [Next]_vars, pc = "failed"
      PROVE  UNCHANGED <<toolState, stored, results>>
    <2>1. CASE UNCHANGED vars
        BY <2>1 DEF vars
    <2>2. ~Proceed
        BY <1>1 DEF Proceed, ReceiveChunk, DrainQueue, FeedChunk, DetectCall, Verify,
           LaunchAccepted, StreamEnds, AfterStream, Gather, Flushed, NextDecision, AllExecuted,
           Finish, ExecuteStep, StartTool, CallTool, ToolReturns, RecordSuccess, RecordFailure,
           Current
    <2>3. ASSUME NEW n \in Calls, TaskStep(n) PROVE UNCHANGED <<toolState, stored, results>>
        <3>1. n \in cancelling
            BY <1>1, <2>3, TaskFacts DEF StepInv, JoinedInv, Live
        <3>2. TaskCancelled(n)
            BY <2>3, <3>1 DEF TaskStep, TaskStarts, TaskRefused, TaskNeverStarts, TaskSucceeds,
               TaskFails, CanRun
        <3> QED
            BY <3>2 DEF TaskCancelled, context
    <2>4. CASE StreamFails \/ PatternNotStored \/ OutputNotStored \/ Close
        BY <1>1, <2>4 DEF StreamFails, PatternNotStored, OutputNotStored, Close, Suspended
    <2> QED
        BY <1>1, <2>1, <2>2, <2>3, <2>4 DEF Next
<1>2. StepInv /\ [Next]_vars => [pc = "failed" => UNCHANGED <<toolState, stored, results>>]_vars
    BY <1>1
<1> QED
    BY <1>2, StepInvariance, PTL DEF Spec, NothingStartsAfterFailure

-----------------------------------------------------------------------------
(* A step of an agent keeps the promise of ToolCalls.                      *)

\* The calls, as ToolCalls sees them.
View == [n \in Calls |-> CallState(n)]

RunningStates == {"running", "starting", "calling", "succeeding", "failing"}

LEMMA CallStates ==
    ASSUME NEW n \in Calls
    PROVE  /\ task[n] \in {"created", "approved"} => CallState(n) = "accepted"
           /\ task[n] \in RunningStates => CallState(n) = "running"
           /\ task[n] \in Ended =>
                /\ ResultsOf(n) = {} => CallState(n) = "lost"
                /\ ResultsOf(n) # {} => CallState(n) \in {"succeeded", "failed"}
                /\ (\E k \in ResultsOf(n) : ~results[k].ok) => CallState(n) = "failed"
           /\ task[n] = "none" =>
                CallState(n) = IF n > Len(ids) THEN "unknown"
                               ELSE IF n > Len(decisions) THEN "detected"
                               ELSE IF decisions[n].accepted THEN "accepted" ELSE "rejected"
BY DEF CallState, RunningStates, Ended

LEMMA CallStatesNext ==
    ASSUME NEW n \in Calls
    PROVE  /\ task'[n] \in {"created", "approved"} => CallState(n)' = "accepted"
           /\ task'[n] \in RunningStates => CallState(n)' = "running"
           /\ task'[n] \in Ended =>
                /\ ResultsOf(n)' = {} => CallState(n)' = "lost"
                /\ ResultsOf(n)' # {} => CallState(n)' \in {"succeeded", "failed"}
                /\ (\E k \in ResultsOf(n)' : ~results'[k].ok) => CallState(n)' = "failed"
           /\ task'[n] = "none" =>
                CallState(n)' = IF n > Len(ids') THEN "unknown"
                                ELSE IF n > Len(decisions') THEN "detected"
                                ELSE IF decisions'[n].accepted THEN "accepted" ELSE "rejected"
BY DEF CallState, RunningStates, Ended

\* What ToolCalls sees of the results of the other calls stays as it is.
OthersKeepResults(c) ==
    \A m \in Calls : m # c =>
        /\ Results(m)' = Results(m)
        /\ FailedIn(results', m) <=> FailedIn(results, m)

\* What ToolCalls sees of the results after Leave, with one result and with a failure after it.
LEMMA LeaveLists ==
    ASSUME TypeOK, TypeOK', NEW c \in DOMAIN ids, NEW w, w.state \in ToolStates,
           w.result \in StoredResults, NEW x \in ResultType, x.call = c, NEW ok \in BOOLEAN,
           ok <=> x.ok, NEW listed, NEW all, listed = <<x>>, all = Append(listed, Failure(c)),
           Leave(c, listed, w) \/ Leave(c, all, w)
    PROVE  /\ OthersKeepResults(c) /\ ResultsOf(c)' # {}
           /\ ~ok => \E k \in ResultsOf(c)' : ~results'[k].ok
<1>1. PICK k \in {1, 2}, u \in BOOLEAN, b \in BOOLEAN : ResultsGrow(c, k, u, b) /\ (~ok => b)
    <2>1. PICK u \in BOOLEAN, b \in BOOLEAN, yes \in BOOLEAN :
            (u <=> ~x.storable) /\ (b <=> ~ok) /\ yes = TRUE
        OBVIOUS
    <2>2. CASE Leave(c, listed, w)
        <3>1. ResultsGrow(c, 1, u, b)
            BY <2>1, <2>2, LeaveFacts
        <3> QED
            BY <2>1, <3>1
    <2>3. CASE Leave(c, all, w)
        <3>1. ResultsGrow(c, 2, u, TRUE)
            BY <2>1, <2>3, LeaveFacts
        <3> QED
            BY <2>1, <3>1
    <2> QED
        BY <2>2, <2>3
<1>2. OthersKeepResults(c)
    BY <1>1 DEF OthersKeepResults, ResultsGrow, ListGrows, Results
<1>3. c \in Calls /\ results' \in Seq(ResultType) /\ DOMAIN results' = 1..Len(results')
    BY <1>1, Typed, LenProperties DEF ResultsGrow, ListGrows
<1>4. CountIn(results', c) # 0 /\ (~ok => FailedIn(results', c))
    BY <1>1 DEF ResultsGrow, ListGrows
<1>5. ResultsOf(c)' = EntriesIn(results', c)
    BY DEF ResultsOf, EntriesIn
<1>6. EntriesIn(results', c) # {}
    BY <1>3, <1>4, CountFacts DEF EntriesIn
<1> QED
    BY <1>2, <1>4, <1>5, <1>6 DEF FailedIn

\* One call changes its state.
LEMMA ViewMoves ==
    ASSUME TypeOK, TypeOK', NEW c \in Calls, NEW s, task' = [task EXCEPT ![c] = s],
           UNCHANGED <<ids, decisions>>, OthersKeepResults(c) \/ UNCHANGED results
    PROVE  /\ task'[c] = s
           /\ \A m \in Calls : m # c => CallState(m)' = CallState(m)
           /\ View' = [View EXCEPT ![c] = CallState(c)']
<1>1. task'[c] = s /\ \A m \in Calls : m # c => task'[m] = task[m]
    BY DEF TypeOK
<1>2. ASSUME NEW m \in Calls, m # c PROVE CallState(m)' = CallState(m)
    <2>1. CASE UNCHANGED results
        BY <1>1, <1>2, <2>1 DEF CallState, ResultsOf
    <2>2. CASE OthersKeepResults(c)
        <3>1. /\ ResultsOf(m) = {} <=> Results(m) = 0
              /\ (\A k \in ResultsOf(m) : results[k].ok) <=> ~FailedIn(results, m)
            BY ResultsCounted
        <3>2. /\ ResultsOf(m)' = {} <=> Results(m)' = 0
              /\ (\A k \in ResultsOf(m)' : results'[k].ok) <=> ~FailedIn(results', m)
            <4>1. results' \in Seq(ResultType) /\ DOMAIN results' = 1..Len(results')
                BY LenProperties DEF TypeOK, ResultType
            <4>2. ResultsOf(m)' = EntriesIn(results', m)
                BY DEF ResultsOf, EntriesIn
            <4>3. Results(m)' = 0 <=> EntriesIn(results', m) = {}
                BY <4>1, CountFacts DEF Results, EntriesIn
            <4> QED
                BY <4>2, <4>3 DEF FailedIn
        <3>3. /\ ResultsOf(m)' = {} <=> ResultsOf(m) = {}
              /\ (\A k \in ResultsOf(m)' : results'[k].ok) <=>
                    (\A k \in ResultsOf(m) : results[k].ok)
            BY <1>2, <2>2, <3>1, <3>2 DEF OthersKeepResults
        <3>4. task'[m] = task[m] /\ ids' = ids /\ decisions' = decisions
            BY <1>1, <1>2
        <3> QED
            BY <3>3, <3>4 DEF CallState
    <2> QED
        BY <2>1, <2>2
<1> QED
    BY <1>1, <1>2 DEF View

\* Steps that only move the step itself on.
LEMMA SilentSteps ==
    ASSUME StepInv,
           \/ ReceiveChunk \/ DrainQueue \/ FeedChunk \/ StreamEnds \/ Gather \/ Flushed
           \/ AllExecuted
    PROVE  UNCHANGED <<View, StepState>>
<1>1. UNCHANGED <<ids, decisions, task, results>>
    BY DEF ReceiveChunk, DrainQueue, FeedChunk, StreamEnds, Gather, Flushed, AllExecuted,
           StreamOnly, ExecuteOnly, stream
<1>2. pc \notin Terminal /\ pc' \notin Terminal
    BY DEF ReceiveChunk, DrainQueue, FeedChunk, StreamEnds, Gather, Flushed, AllExecuted,
           NextPattern, Terminal
<1>3. View' = View
    BY <1>1 DEF View, CallState, ResultsOf
<1> QED
    BY <1>2, <1>3 DEF StepState, Terminal

\* A call is detected, and perhaps decided at once.
LEMMA DetectMoves ==
    ASSUME StepInv, DetectCall
    PROVE  \E n \in Calls : Promise!Detect(n) \/ Promise!Decide(n)
<1>1. /\ UNCHANGED <<task, results>> /\ pc = "pattern" /\ found > 0
      /\ pc' \in {"verify", "decided", "pattern", "stream"}
    BY DEF StepInv, DecidedInv, DetectCall, StreamOnly, AskOrAccept, Decide, NextPattern
<1>2. PICK i \in Ids : ids' = Append(ids, i)
    BY DEF DetectCall
<1>3. /\ ids \in Seq(Ids) /\ Len(ids) \in Nat /\ Len(ids) + found <= MaxCalls /\ MaxCalls \in Nat
      /\ found \in Nat /\ Len(decisions) \in Nat /\ Len(decisions) <= Len(ids)
      /\ DOMAIN decisions = 1..Len(decisions)
    BY Typed DEF StepInv
<1>4. PICK c : c = Len(ids) + 1 /\ c \in Calls /\ task[c] = "none"
    <2>1. Len(ids) + 1 \in Calls /\ Len(ids) + 1 \notin DOMAIN decisions
        BY <1>1, <1>3 DEF Calls
    <2> QED
        BY <2>1 DEF StepInv, DecidedInv
<1>5. Len(ids') = c
    BY <1>2, <1>3, <1>4, AppendProperties
<1>6. \/ UNCHANGED decisions
      \/ /\ config.concurrent /\ Decide(TRUE)
         /\ Len(decisions) = Len(ids)
    BY <1>1 DEF DetectCall, AskOrAccept, StepInv, DecidedInv
<1>7. \/ UNCHANGED decisions
      \/ /\ Len(decisions') = c /\ decisions'[c].accepted
         /\ \A n \in 1..Len(decisions) : decisions'[n] = decisions[n]
    BY <1>4, <1>6, DecideFacts DEF StepInv
<1>8. CallState(c) = "unknown"
    BY <1>1, <1>3, <1>4, CallStates
<1>9. CallState(c)' \in {"detected", "accepted"}
    BY <1>1, <1>3, <1>4, <1>5, <1>7, CallStatesNext
<1>10. ASSUME NEW m \in Calls, m # c PROVE CallState(m)' = CallState(m)
    <2>1. CASE task[m] = "none"
        <3>1. m > Len(ids) <=> m > Len(ids')
            BY <1>3, <1>4, <1>5, <1>10 DEF Calls
        <3>2. m <= Len(ids) => (m > Len(decisions) <=> m > Len(decisions'))
            <4>1. CASE UNCHANGED decisions
                BY <4>1
            <4>2. CASE ~UNCHANGED decisions
                <5>1. Len(decisions) = Len(ids) /\ Len(decisions') = Len(ids) + 1
                    BY <1>4, <1>6, <1>7, <4>2
                <5>2. m \in Nat /\ Len(ids) \in Nat
                    BY <1>3 DEF Calls
                <5> QED
                    BY <5>1, <5>2
            <4> QED
                BY <4>1, <4>2
        <3>3. m <= Len(decisions) => decisions'[m] = decisions[m]
            BY <1>3, <1>7, <1>10 DEF Calls
        <3> QED
            BY <1>1, <1>3, <2>1, <3>1, <3>2, <3>3, CallStates, CallStatesNext DEF Calls
    <2>2. CASE task[m] # "none"
        <3>1. task'[m] = task[m] /\ results' = results
            BY <1>1
        <3> QED
            BY <2>2, <3>1 DEF CallState, ResultsOf
    <2> QED
        BY <2>1, <2>2
<1>11. View' = [View EXCEPT ![c] = CallState(c)'] /\ View[c] = "unknown"
    BY <1>4, <1>8, <1>10 DEF View
<1>12. StepState = "open" /\ StepState' = "open"
    BY <1>1 DEF StepState
<1> QED
    BY <1>4, <1>9, <1>11, <1>12 DEF Promise!Detect, Promise!Decide, Promise!Move, View

\* A detected call is decided, or the step asks whether it may run.
LEMMA DecideMoves ==
    ASSUME StepInv,
           \/ Verify
           \/ NextDecision /\ Len(decisions) < Len(ids)
           \/ AfterStream /\ ~config.concurrent /\ ids # <<>>
    PROVE  (\E n \in Calls : Promise!Decide(n)) \/ UNCHANGED <<View, StepState>>
<1>1. /\ UNCHANGED <<ids, task, results>> /\ pc \in {"verify", "decided", "complete"}
      /\ pc' \in {"verify", "decided"}
      /\ Len(decisions) < Len(ids)
    <2>1. ids # <<>> => 0 < Len(ids)
        BY Typed, EmptySeq DEF StepInv
    <2>2. AfterStream /\ ~config.concurrent => Len(decisions) = 0
        BY DEF StepInv, DecidedInv, AfterStream
    <2> QED
        BY <2>1, <2>2 DEF Verify, NextDecision, AfterStream, AskOrAccept, Decide, StreamOnly,
                          stream, StepInv, DecidedInv
<1>2. StepState = "open" /\ StepState' = "open"
    BY <1>1 DEF StepState
<1>3. CASE UNCHANGED decisions
    BY <1>1, <1>2, <1>3 DEF View, CallState, ResultsOf
<1>4. ASSUME NEW accepted \in BOOLEAN, Decide(accepted) PROVE \E n \in Calls : Promise!Decide(n)
    <2>1. /\ Len(decisions) \in Nat /\ Len(ids) \in Nat /\ Len(ids) <= MaxCalls
          /\ MaxCalls \in Nat /\ DOMAIN decisions = 1..Len(decisions)
        BY Typed DEF StepInv
    <2>2. PICK c : c = Len(decisions) + 1 /\ c \in Calls /\ task[c] = "none" /\ c <= Len(ids)
        <3>1. Len(decisions) + 1 \in Calls /\ Len(decisions) + 1 \notin DOMAIN decisions
              /\ Len(decisions) + 1 <= Len(ids)
            BY <1>1, <2>1 DEF Calls
        <3> QED
            BY <3>1 DEF StepInv, DecidedInv
    <2>3. /\ Len(decisions') = c /\ decisions'[c].accepted = accepted
          /\ \A n \in 1..Len(decisions) : decisions'[n] = decisions[n]
        BY <1>4, <2>2, DecideFacts DEF StepInv
    <2>4. c \in Nat /\ ~(c > Len(ids)) /\ c > Len(decisions) /\ ~(c > Len(decisions'))
        BY <2>1, <2>2, <2>3
    <2>5. CallState(c) = "detected" /\ CallState(c)' \in {"accepted", "rejected"}
        BY <1>1, <2>2, <2>3, <2>4, CallStates, CallStatesNext
    <2>6. ASSUME NEW m \in Calls, m # c PROVE CallState(m)' = CallState(m)
        <3>1. m > Len(decisions) <=> m > Len(decisions')
            BY <2>1, <2>2, <2>3, <2>6 DEF Calls
        <3>2. m <= Len(decisions) => decisions'[m] = decisions[m]
            BY <2>1, <2>3 DEF Calls
        <3>3. ~(m > Len(decisions)) => m <= Len(decisions)
            BY <2>1 DEF Calls
        <3>4. task'[m] = task[m] /\ results' = results /\ ids' = ids
            BY <1>1
        <3> QED
            BY <3>1, <3>2, <3>3, <3>4 DEF CallState, ResultsOf
    <2>7. View' = [View EXCEPT ![c] = CallState(c)'] /\ View[c] = "detected"
        BY <2>2, <2>5, <2>6 DEF View
    <2> QED
        BY <1>2, <2>2, <2>5, <2>7 DEF Promise!Decide, Promise!Move, View
<1> QED
    BY <1>3, <1>4 DEF Verify, NextDecision, AfterStream, AskOrAccept

\* An accepted call gets its task: nothing that ToolCalls sees.
LEMMA LaunchSilent ==
    ASSUME StepInv, StepInv',
           \/ LaunchAccepted
           \/ NextDecision /\ ~(Len(decisions) < Len(ids))
           \/ AfterStream /\ ~(~config.concurrent /\ ids # <<>>)
    PROVE  UNCHANGED <<View, StepState>>
<1>1. UNCHANGED <<ids, decisions, results>> /\ pc \notin Terminal /\ pc' \notin Terminal
    BY DEF LaunchAccepted, NextDecision, AfterStream, NextPattern, stream, StreamOnly, Terminal
<1>2. /\ DOMAIN decisions = 1..Len(decisions) /\ Len(decisions) \in Nat /\ Len(ids) \in Nat
      /\ Len(decisions) <= Len(ids)
      /\ \A n \in DOMAIN decisions : n \in Calls
    BY Typed DEF StepInv
<1>3. \A n \in Calls :
        \/ task'[n] = task[n]
        \/ /\ n \in DOMAIN decisions /\ decisions[n].accepted /\ task[n] = "none"
           /\ task'[n] \in {"created", "approved"}
    <2>1. CASE LaunchAccepted
        <3>1. PICK c : c = Len(decisions) /\ c \in DOMAIN decisions /\ task[c] = "none"
            BY <1>2, <2>1 DEF LaunchAccepted, StepInv, DecidedInv
        <3>2. decisions[c].accepted => task' = [task EXCEPT ![c] = "created"]
            BY <2>1, <3>1 DEF LaunchAccepted, LastCall, Becomes
        <3>3. ~decisions[c].accepted => UNCHANGED task
            BY <2>1, <3>1 DEF LaunchAccepted, LastCall
        <3> QED
            BY <3>1, <3>2, <3>3 DEF StepInv, TypeOK
    <2>2. CASE NextDecision /\ ~(Len(decisions) < Len(ids))
        BY <2>2 DEF NextDecision, StepInv, DecidedInv, Approved
    <2>3. CASE AfterStream
        BY <2>3 DEF AfterStream, StreamOnly
    <2> QED
        BY <2>1, <2>2, <2>3
<1>4. ASSUME NEW n \in Calls PROVE CallState(n)' = CallState(n)
    <2>1. CASE task'[n] = task[n]
        BY <1>1, <2>1 DEF CallState, ResultsOf
    <2>2. CASE /\ n \in DOMAIN decisions /\ decisions[n].accepted /\ task[n] = "none"
               /\ task'[n] \in {"created", "approved"}
        <3>1. ~(n > Len(ids)) /\ ~(n > Len(decisions))
            BY <1>2, <2>2
        <3> QED
            BY <2>2, <3>1, CallStates, CallStatesNext
    <2> QED
        BY <1>3, <2>1, <2>2
<1> QED
    BY <1>1, <1>4 DEF View, StepState, Terminal

\* A call whose task exists, as ToolCalls sees it before it moves.
LEMMA CallView ==
    ASSUME StepInv, NEW c \in Calls, task[c] \notin Ended \cup {"none"}
    PROVE  /\ View[c] = IF task[c] \in {"created", "approved"} THEN "accepted" ELSE "running"
           /\ Results(c) = 0 => ResultsOf(c) = {}
           /\ StepState # "reported"
           /\ pc = "execute" => StepState = "open"
           /\ pc' = pc => StepState' = StepState
<1>1. task[c] \in {"created", "approved"} \cup RunningStates
    BY DEF StepInv, TypeOK, TaskStates, RunningStates
<1>2. View[c] = IF task[c] \in {"created", "approved"} THEN "accepted" ELSE "running"
    BY <1>1, CallStates DEF View
<1>3. Results(c) = 0 => ResultsOf(c) = {}
    <2>1. results \in Seq(ResultType) /\ ResultsOf(c) = EntriesIn(results, c)
        BY Typed DEF StepInv, ResultsOf, EntriesIn
    <2>2. IsFiniteSet(EntriesIn(results, c))
        BY <2>1, CountFacts
    <2> QED
        BY <2>1, <2>2, FS_EmptySet DEF Results, CountIn
<1>4. pc # "done"
    BY DEF StepInv, JoinedInv
<1> QED
    BY <1>2, <1>3, <1>4 DEF StepState

LEMMA TaskMoves ==
    ASSUME StepInv, StepInv', NEW c \in Calls, TaskStep(c)
    PROVE  Promise!Start(c) \/ Promise!End(c) \/ Promise!Lose(c)
<1> DEFINE from == View[c]
           to == CallState(c)'
<1>1. /\ task[c] \in {"created", "running"} /\ task[c] \notin Ended \cup {"none"}
      /\ UNCHANGED <<ids, decisions, pc>>
    BY TaskFacts
<1>2. /\ from = IF task[c] = "created" THEN "accepted" ELSE "running"
      /\ StepState # "reported" /\ StepState' = StepState
    BY <1>1, CallView
<1>3. /\ TypeOK /\ TypeOK' /\ c \in DOMAIN ids
      /\ toolState[ids[c]] \in ToolStates /\ stored[ids[c]] \in StoredResults
    BY <1>1, CallFacts DEF StepInv
<1>4. pc = "failed" => c \in cancelling
    BY <1>1 DEF StepInv, JoinedInv, Live
<1>5. StepState = "failed" => c \in cancelling
    BY <1>4 DEF StepState
<1>6. StepState \in {"open", "closed", "failed"}
    BY <1>2 DEF StepState
<1>7. CASE TaskStarts(c)
    <2>1. /\ task' = [task EXCEPT ![c] = "running"] /\ UNCHANGED results
          /\ task[c] = "created" /\ c \notin cancelling
        BY <1>7 DEF TaskStarts, Becomes, CanRun
    <2>2. View' = [View EXCEPT ![c] = to] /\ task'[c] = "running"
        BY <1>1, <1>3, <2>1, ViewMoves
    <2>3. to = "running"
        BY <2>2, CallStatesNext DEF RunningStates
    <2> QED
        BY <1>2, <1>5, <1>6, <2>1, <2>2, <2>3 DEF Promise!Start, Promise!Move, View
<1>8. CASE TaskRefused(c) \/ TaskFails(c)
    <2>1. PICK old, listed : /\ FailTask(c, listed, old, 0) /\ listed = <<>> /\ 0 \in Nat
                             /\ old.result \in StoredResults /\ old.state \in ToolStates
        BY <1>3, <1>8 DEF TaskRefused, TaskFails, RecordsOf, ToolStates
    <2>2. PICK w, s, all : FailedAs(c, listed, old, 0, w, s, all) /\ s \in Ended
        <3>1. PICK w, s, all : FailedAs(c, listed, old, 0, w, s, all)
            BY <1>3, <2>1, FailTaskFacts
        <3> QED
            BY <3>1 DEF FailedAs, Ended
    <2> USE <2>2 DEF FailedAs
    <2>3. PICK no, x, more :
            /\ no \in BOOLEAN /\ no = FALSE
            /\ x = Failure(c) /\ all = <<x>> /\ more = Append(all, Failure(c))
        BY <2>1, AppendOne
    <2>4. x \in ResultType /\ x.call = c /\ x.ok = FALSE
        BY <1>1, <2>3, FailureFacts
    <2>5. /\ OthersKeepResults(c) /\ \E k \in ResultsOf(c)' : ~results'[k].ok
        BY <1>3, <2>2, <2>3, <2>4, LeaveLists
    <2>6. View' = [View EXCEPT ![c] = to] /\ task'[c] = s
        BY <1>1, <1>3, <2>2, <2>5, ViewMoves
    <2>7. to = "failed"
        BY <2>2, <2>5, <2>6, CallStatesNext
    <2>8. from = "accepted" => task[c] = "created" /\ c \notin cancelling
        BY <1>1, <1>2, <1>8 DEF TaskRefused, TaskFails, CanRun
    <2> QED
        BY <1>2, <1>5, <2>6, <2>7, <2>8 DEF Promise!End, Promise!Move, View
<1>9. CASE TaskSucceeds(c)
    <2>1. PICK storable, w, x, listed :
            /\ storable \in BOOLEAN /\ w \in Writing(RecordsOf(c), "finished", "ok", storable)
            /\ x = Result(c, TRUE, storable) /\ listed = <<x>>
            /\ \/ Leave(c, listed, w) /\ task' = [task EXCEPT ![c] = "ended"]
               \/ FailTask(c, listed, w, Cost(w))
        BY <1>9 DEF TaskSucceeds, Becomes
    <2>2. w.state \in ToolStates /\ w.result \in StoredResults /\ Cost(w) \in Nat
        BY <1>3, <2>1, SuccessWritten
    <2>3. PICK all, yes : all = Append(listed, Failure(c)) /\ yes \in BOOLEAN /\ yes = TRUE
        OBVIOUS
    <2>4. PICK v, s :
            /\ v.state \in ToolStates /\ v.result \in StoredResults
            /\ Leave(c, listed, v) \/ Leave(c, all, v)
            /\ s \in Ended /\ task' = [task EXCEPT ![c] = s]
        <3>1. CASE FailTask(c, listed, w, Cost(w))
            <4>1. PICK v, s, more : FailedAs(c, listed, w, Cost(w), v, s, more)
                BY <1>3, <2>2, <3>1, FailTaskFacts
            <4> QED
                BY <2>3, <4>1 DEF FailedAs, Ended
        <3>2. CASE Leave(c, listed, w) /\ task' = [task EXCEPT ![c] = "ended"]
            BY <2>2, <3>2 DEF Ended
        <3> QED
            BY <2>1, <3>1, <3>2
    <2>5. OthersKeepResults(c) /\ ResultsOf(c)' # {}
        <3>1. x \in ResultType /\ x.call = c /\ x.ok = yes
            BY <1>1, <2>1, <2>3, ResultFacts
        <3> QED
            BY <1>3, <2>1, <2>3, <2>4, <3>1, LeaveLists
    <2>6. View' = [View EXCEPT ![c] = to] /\ task'[c] = s
        BY <1>1, <1>3, <2>4, <2>5, ViewMoves
    <2>7. to \in {"succeeded", "failed"}
        BY <2>4, <2>5, <2>6, CallStatesNext
    <2>8. task[c] = "running"
        BY <1>9 DEF TaskSucceeds, CanRun
    <2> QED
        BY <1>2, <2>6, <2>7, <2>8 DEF Promise!End, Promise!Move, View
<1>10. CASE TaskNeverStarts(c) \/ TaskCancelled(c)
    <2>1. PICK s \in Ended : task' = [task EXCEPT ![c] = s] /\ UNCHANGED results
        BY <1>10 DEF TaskNeverStarts, TaskCancelled, Becomes, Ended
    <2>2. View' = [View EXCEPT ![c] = to] /\ task'[c] = s
        BY <1>1, <1>3, <2>1, ViewMoves
    <2>3. ResultsOf(c)' = {}
        <3>1. Results(c) = 0
            BY <1>1, CallFacts DEF LedgerOf
        <3>2. ResultsOf(c)' = ResultsOf(c)
            BY <2>1 DEF ResultsOf
        <3> QED
            BY <1>1, <3>1, <3>2, CallView
    <2>4. to = "lost"
        BY <2>2, <2>3, CallStatesNext
    <2> QED
        BY <1>2, <2>2, <2>4 DEF Promise!Lose, Promise!Move, View
<1> QED
    BY <1>7, <1>8, <1>9, <1>10 DEF TaskStep

\* The calls that run one by one.
LEMMA ExecuteMoves ==
    ASSUME StepInv, StepInv', NEW c \in Calls, ExecuteStep(c)
    PROVE  Promise!Start(c) \/ Promise!End(c) \/ Promise!Fail \/ UNCHANGED <<View, StepState>>
<1> DEFINE from == View[c]
           to == CallState(c)'
<1>1. /\ task[c] \in {"approved"} \cup RunningStates /\ task[c] \notin Ended \cup {"none"}
      /\ UNCHANGED <<ids, decisions>> /\ pc = "execute"
    BY ExecuteFacts DEF RunningStates
<1>2. /\ from = IF task[c] = "approved" THEN "accepted" ELSE "running"
      /\ StepState = "open"
      /\ pc' = pc => StepState' = "open"
      /\ pc' = "failed" => StepState' = "failed"
    <2>1. pc' = "failed" => StepState' = "failed"
        BY DEF StepState
    <2> QED
        BY <1>1, <2>1, CallView DEF RunningStates
<1>3. /\ TypeOK /\ TypeOK' /\ c \in DOMAIN ids
      /\ toolState[ids[c]] \in ToolStates /\ stored[ids[c]] \in StoredResults
    BY <1>1, CallFacts DEF StepInv
<1>4. CASE /\ UNCHANGED pc
           /\ \E s \in RunningStates : task' = [task EXCEPT ![c] = s]
           /\ OthersKeepResults(c) \/ UNCHANGED results
    <2>1. PICK s \in RunningStates : task' = [task EXCEPT ![c] = s]
        BY <1>4
    <2>2. View' = [View EXCEPT ![c] = to] /\ task'[c] = s
        BY <1>1, <1>3, <1>4, <2>1, ViewMoves
    <2>3. to = "running"
        BY <2>1, <2>2, CallStatesNext
    <2>4. CASE task[c] = "approved"
        BY <1>2, <1>4, <2>2, <2>3, <2>4 DEF Promise!Start, Promise!Move, View
    <2>5. CASE task[c] # "approved"
        <3>1. View' = View
            BY <1>2, <2>2, <2>3, <2>5 DEF View
        <3> QED
            BY <1>2, <1>4, <3>1
    <2> QED
        BY <2>4, <2>5
<1>5. CASE StartTool(c) /\ Escape(c)
    <2>1. /\ task' = [task EXCEPT ![c] = "dead"] /\ UNCHANGED results /\ pc' = "failed"
          /\ task[c] = "approved"
        BY <1>5 DEF StartTool, Escape, Becomes
    <2>2. View' = [View EXCEPT ![c] = to] /\ task'[c] = "dead"
        BY <1>1, <1>3, <2>1, ViewMoves
    <2>3. ResultsOf(c)' = {}
        <3>1. Results(c) = 0
            BY <1>1, <2>1, CallFacts DEF LedgerOf
        <3>2. ResultsOf(c)' = ResultsOf(c)
            BY <2>1 DEF ResultsOf
        <3> QED
            BY <1>1, <3>1, <3>2, CallView
    <2>4. to = "lost"
        BY <2>2, <2>3, CallStatesNext DEF Ended
    <2> QED
        BY <1>2, <2>1, <2>2, <2>4 DEF Promise!Fail, View
<1>6. CASE /\ RecordSuccess(c) \/ RecordFailure(c)
           /\ UNCHANGED pc /\ task' = [task EXCEPT ![c] = "ended"]
           /\ OthersKeepResults(c) /\ ResultsOf(c)' # {}
    <2>1. View' = [View EXCEPT ![c] = to] /\ task'[c] = "ended"
        BY <1>1, <1>3, <1>6, ViewMoves
    <2>2. to \in {"succeeded", "failed"}
        BY <1>6, <2>1, CallStatesNext DEF Ended
    <2>3. task[c] # "approved"
        BY <1>6 DEF RecordSuccess, RecordFailure
    <2> QED
        BY <1>2, <1>6, <2>1, <2>2, <2>3 DEF Promise!End, Promise!Move, View
<1>7. CASE /\ RecordFailure(c) /\ pc' = "failed" /\ task' = [task EXCEPT ![c] = "dead"]
           /\ OthersKeepResults(c) /\ \E k \in ResultsOf(c)' : ~results'[k].ok
    <2>1. View' = [View EXCEPT ![c] = to] /\ task'[c] = "dead"
        BY <1>1, <1>3, <1>7, ViewMoves
    <2>2. to = "failed"
        BY <1>7, <2>1, CallStatesNext DEF Ended
    <2> QED
        BY <1>2, <1>7, <2>1, <2>2 DEF Promise!Fail, View
<1>8. CASE StartTool(c)
    BY <1>4, <1>5, <1>8 DEF StartTool, Becomes, RunningStates
<1>9. CASE CallTool(c) \/ ToolReturns(c)
    BY <1>4, <1>9 DEF CallTool, ToolReturns, Becomes, RunningStates, ToolOutcomes
<1>10. CASE RecordSuccess(c)
    <2>1. PICK storable, w, s, x, listed :
            /\ storable \in BOOLEAN /\ w \in Writing(RecordsOf(c), "finished", "ok", storable)
            /\ s \in {"ended", "failing"} /\ task' = [task EXCEPT ![c] = s]
            /\ x = Result(c, TRUE, storable) /\ listed = <<x>> /\ Leave(c, listed, w)
        BY <1>10 DEF RecordSuccess, Becomes
    <2>2. OthersKeepResults(c) /\ ResultsOf(c)' # {}
        <3>1. w.state \in ToolStates /\ w.result \in StoredResults
            BY <1>3, <2>1, SuccessWritten
        <3>2. PICK all, yes : all = Append(listed, Failure(c)) /\ yes \in BOOLEAN /\ yes = TRUE
            OBVIOUS
        <3>3. x \in ResultType /\ x.call = c /\ x.ok = yes
            BY <2>1, <3>2, ResultFacts
        <3> QED
            BY <1>3, <2>1, <3>1, <3>2, <3>3, LeaveLists
    <2>3. UNCHANGED pc
        BY <1>10 DEF RecordSuccess
    <2> QED
        BY <1>4, <1>6, <1>10, <2>1, <2>2, <2>3 DEF RunningStates
<1>11. CASE RecordFailure(c)
    <2>1. PICK w, s, x, listed :
            /\ w \in WritingFailure(RecordsOf(c)) /\ task' = [task EXCEPT ![c] = s]
            /\ x = Failure(c) /\ listed = <<x>> /\ Leave(c, listed, w)
            /\ (s = "ended" /\ UNCHANGED pc) \/ (s = "dead" /\ pc' = "failed")
        BY <1>11 DEF RecordFailure, Escape, Becomes
    <2>2. /\ OthersKeepResults(c) /\ ResultsOf(c)' # {}
          /\ \E k \in ResultsOf(c)' : ~results'[k].ok
        <3>1. RecordsOf(c).state \in ToolStates /\ RecordsOf(c).result \in StoredResults
            BY <1>3 DEF RecordsOf
        <3>2. w.state \in ToolStates /\ w.result \in StoredResults
            BY <2>1, <3>1, FailureWritten
        <3>3. PICK all, no : all = Append(listed, Failure(c)) /\ no \in BOOLEAN /\ no = FALSE
            OBVIOUS
        <3>4. x \in ResultType /\ x.call = c /\ x.ok = no
            BY <2>1, <3>3, FailureFacts
        <3> QED
            BY <1>3, <2>1, <3>2, <3>3, <3>4, LeaveLists
    <2> QED
        BY <1>6, <1>7, <1>11, <2>1, <2>2
<1> QED
    BY <1>8, <1>9, <1>10, <1>11 DEF ExecuteStep

\* The step is reported, fails, or is closed.
LEMMA EndMoves ==
    ASSUME StepInv, StepInv',
           Finish \/ StreamFails \/ PatternNotStored \/ OutputNotStored \/ Close
    PROVE  Promise!Report \/ Promise!Fail \/ Promise!Close
<1>1. UNCHANGED <<ids, task, results>> /\ pc \notin Terminal
    BY DEF Finish, StreamFails, PatternNotStored, OutputNotStored, Close, FailStep, stream,
           Suspended, Terminal
<1>2. StepState = "open"
    BY <1>1 DEF StepState, Terminal
<1>3. CASE StreamFails \/ PatternNotStored \/ OutputNotStored \/ Close
    <2>1. UNCHANGED decisions /\ pc' = IF Close THEN "closed" ELSE "failed"
        BY <1>3 DEF StreamFails, PatternNotStored, OutputNotStored, Close, FailStep, Suspended
    <2>2. View' = View
        BY <1>1, <2>1 DEF View, CallState, ResultsOf
    <2>3. StepState' = IF Close THEN "closed" ELSE "failed"
        BY <2>1 DEF StepState
    <2> QED
        BY <1>2, <2>2, <2>3 DEF Promise!Fail, Promise!Close, View
<1>4. CASE Finish
    <2>1. /\ pc = "finish" /\ pc' = "done"
          /\ decisions' = [n \in DOMAIN decisions |->
                                [decisions[n] EXCEPT !.executed = Matched(n)]]
        BY <1>4 DEF Finish
    <2>2. /\ DOMAIN decisions = 1..Len(decisions) /\ Len(decisions) \in Nat
          /\ DOMAIN decisions' = 1..Len(decisions') /\ Len(decisions') \in Nat
          /\ decisions \in Seq(DecisionType)
          /\ Len(decisions) = Len(ids) /\ Len(decisions') = Len(ids')
        <3>1. decisions' \in Seq(DecisionType)
            BY DEF StepInv, TypeOK, DecisionType
        <3>2. Len(decisions) = Len(ids) /\ Len(decisions') = Len(ids')
            BY <2>1 DEF StepInv, DecidedInv
        <3> QED
            BY <3>1, <3>2, Typed, LenProperties DEF StepInv
    <2>3. ASSUME NEW n \in Calls
          PROVE  CallState(n)' = CallState(n) /\ CallState(n) \notin Promise!Pending
        <3>1. task[n] \in Ended \cup {"none"} /\ task'[n] = task[n]
            BY <1>1, <2>1 DEF StepInv, JoinedInv
        <3>2. CASE task[n] \in Ended
            <4>1. CallState(n)' = CallState(n)
                BY <1>1, <3>2 DEF CallState, ResultsOf, Ended
            <4> QED
                BY <3>2, <4>1, CallStates DEF Promise!Pending
        <3>3. CASE task[n] = "none" /\ n \in DOMAIN decisions
            <4>1. decisions'[n].accepted = decisions[n].accepted
                <5>1. decisions[n] \in DecisionType
                    BY <2>2, <3>3, ElementOfSeq
                <5>2. decisions'[n] = [decisions[n] EXCEPT !.executed = Matched(n)]
                    BY <2>1, <3>3
                <5> QED
                    BY <5>1, <5>2 DEF DecisionType
            <4>2. ~decisions[n].accepted
                BY <2>1, <3>3 DEF StepInv, LaunchedInv
            <4>3. /\ ~(n > Len(ids)) /\ ~(n > Len(decisions))
                  /\ ~(n > Len(ids')) /\ ~(n > Len(decisions'))
                BY <1>1, <2>2, <3>3
            <4> QED
                BY <3>1, <3>3, <4>1, <4>2, <4>3, CallStates, CallStatesNext DEF Promise!Pending
        <3>4. CASE task[n] = "none" /\ n \notin DOMAIN decisions
            <4>1. n > Len(ids) /\ n > Len(ids')
                BY <1>1, <2>2, <3>4 DEF Calls
            <4> QED
                BY <3>1, <3>4, <4>1, CallStates, CallStatesNext DEF Promise!Pending
        <3> QED
            BY <3>1, <3>2, <3>3, <3>4
    <2>4. View' = View /\ StepState' = "reported"
        BY <2>1, <2>3 DEF View, StepState
    <2> QED
        BY <1>2, <2>3, <2>4 DEF Promise!Report, View
<1> QED
    BY <1>3, <1>4

\* step_stream and its tasks keep the promise of ToolCalls: a call runs at most once and only
\* if it was accepted, and the step is reported when no call is pending.
THEOREM StepImplements == Spec => ImplementsToolCalls
<1>1. Init => Promise!Init
    <2> SUFFICES ASSUME Init PROVE Promise!Init
        OBVIOUS
    <2>1. ASSUME NEW n \in Calls PROVE CallState(n) = "unknown"
        <3>1. task[n] = "none" /\ n > Len(ids)
            BY DEF Init, Calls
        <3> QED
            BY <3>1, CallStates
    <2> QED
        BY <2>1 DEF Init, Promise!Init, StepState
<1>2. StepInv /\ StepInv' /\ [Next]_vars => [Promise!Next]_(Promise!vars)
    <2> SUFFICES ASSUME StepInv, StepInv', [Next]_vars
                 PROVE  Promise!Next \/ UNCHANGED <<View, StepState>>
        BY DEF Promise!vars, View
    <2>1. CASE UNCHANGED vars
        BY <2>1 DEF vars, View, CallState, ResultsOf, StepState
    <2>2. CASE Proceed
        BY <2>2, SilentSteps, DetectMoves, DecideMoves, LaunchSilent, ExecuteMoves, EndMoves
           DEF Proceed, Promise!Next
    <2>3. ASSUME NEW n \in Calls, TaskStep(n) PROVE Promise!Next
        BY <2>3, TaskMoves DEF Promise!Next
    <2>4. CASE StreamFails \/ PatternNotStored \/ OutputNotStored \/ Close
        BY <2>4, EndMoves DEF Promise!Next
    <2> QED
        BY <2>1, <2>2, <2>3, <2>4 DEF Next
<1> QED
    BY <1>1, <1>2, StepInvariance, PTL DEF Spec, ImplementsToolCalls, Promise!Spec
=============================================================================
