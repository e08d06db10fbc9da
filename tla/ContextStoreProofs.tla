------------------------- MODULE ContextStoreProofs -------------------------
(***************************************************************************)
(* What holds of a context store with one writer, for every set of keys,   *)
(* values and readers and every bound on the versions: its types, that a   *)
(* reader is answered with what its key held during the call, that nothing *)
(* survives a clear that new versions could uncover, and that the store    *)
(* implements the map of version histories.                                *)
(*                                                                         *)
(* Two writers break all of these (each may compute the same next version  *)
(* from the same pointer), so that the hypothesis OneWriter is what the    *)
(* code relies on: the operations of a ContextManager do not interleave    *)
(* within one event loop.                                                  *)
(***************************************************************************)
EXTENDS ContextStore, SequenceTheorems, TLAPS

OneWriter == \A a, b \in Writers : a = b

-----------------------------------------------------------------------------
(* The inductive invariant *)

\* A write in progress works on the latest version or the next one, an update of the latest
\* version stores a value, and the pointer is moved only when the record is in place.
WriteInv ==
    \A w \in Writers : op[w].step \in {"record", "latest"} =>
        /\ op[w].version \in {latest[op[w].key], latest[op[w].key] + 1}
        /\ op[w].version = latest[op[w].key] => op[w].value \in Values
        /\ op[w].step = "latest" => record[op[w].key][op[w].version] = op[w].value

\* A record that is still there while the store is cleared is still to be deleted.
ClearInv ==
    \A w \in Writers : op[w].step = "clear" =>
        \A k \in Keys, v \in Versions : record[k][v] # Absent => <<k, v>> \in op[w].todo

\* A reader that saw no clear holds a version that is not beyond the latest one, and the answer
\* it would give is among what its key held since the call began.
ReadInv ==
    \A r \in Readers : read[r].step = "record" =>
        \/ "Gone" \in read[r].seen
        \/ /\ read[r].version <= latest[read[r].key]
           /\ Answer(read[r].key, read[r].version) \in read[r].seen

StoreInv == TypeOK /\ WriteInv /\ ClearInv /\ ReadInv /\ ClearedStaysCleared

-----------------------------------------------------------------------------
(* What the actions do, one record at a time *)

\* With one writer, what is said of the writer that moves is said of all.
LEMMA OnlyWriter ==
    ASSUME OneWriter, NEW w \in Writers
    PROVE  Writers = {w}
BY DEF OneWriter

LEMMA VersionsAreNumbers ==
    /\ MaxVersion \in Nat /\ MaxVersion >= 1
    /\ Versions \subseteq Nat
    /\ \A v : v \in Versions <=> v \in Nat /\ 1 <= v /\ v <= MaxVersion
BY VersionsAssumption DEF Versions

\* An answer is a value or "None", and what a key holds is an answer or "Gone".
LEMMA AnswerType ==
    ASSUME record \in [Keys -> [Versions -> Values \cup {Tombstone, Absent}]],
           NEW k \in Keys, NEW v \in Versions
    PROVE  Answer(k, v) \in Values \cup {"None", "Gone"}
BY DEF Answer

LEMMA CurrentType ==
    ASSUME record \in [Keys -> [Versions -> Values \cup {Tombstone, Absent}]],
           latest \in [Keys -> 0..MaxVersion]
    PROVE  /\ current \in [Keys -> Values \cup {"None", "Gone"}]
           /\ \A k \in Keys : latest[k] # 0 => current[k] = Answer(k, latest[k])
<1>1. SUFFICES ASSUME NEW k \in Keys
               PROVE  /\ current[k] \in Values \cup {"None", "Gone"}
                      /\ latest[k] # 0 => current[k] = Answer(k, latest[k])
  BY DEF current
<1>2. CASE latest[k] = 0
  BY <1>2 DEF current
<1>3. CASE latest[k] # 0
  <2>1. latest[k] \in Versions
    BY <1>3, VersionsAreNumbers DEF Versions
  <2>2. current[k] = Answer(k, latest[k])
    BY <1>3 DEF current
  <2>3. QED
    BY <2>1, <2>2, AnswerType
<1>4. QED
  BY <1>2, <1>3

\* The same of the next state.
LEMMA CurrentTypeNext ==
    ASSUME record' \in [Keys -> [Versions -> Values \cup {Tombstone, Absent}]],
           latest' \in [Keys -> 0..MaxVersion]
    PROVE  /\ current' \in [Keys -> Values \cup {"None", "Gone"}]
           /\ \A k \in Keys : latest'[k] # 0 => current'[k] = Answer(k, latest[k])'
<1>1. SUFFICES ASSUME NEW k \in Keys
               PROVE  /\ current'[k] \in Values \cup {"None", "Gone"}
                      /\ latest'[k] # 0 => current'[k] = Answer(k, latest[k])'
  BY DEF current
<1>2. CASE latest'[k] = 0
  BY <1>2 DEF current
<1>3. CASE latest'[k] # 0
  <2>1. latest'[k] \in Versions
    BY <1>3, VersionsAreNumbers DEF Versions
  <2>2. current'[k] = Answer(k, latest[k])'
    BY <1>3 DEF current
  <2>3. QED
    BY <2>1, <2>2 DEF Answer
<1>4. QED
  BY <1>2, <1>3

\* What a reader keeps and learns while the store changes.
Watched(r) ==
    /\ read'[r].step = read[r].step
    /\ read[r].step = "idle" => read'[r] = read[r]
    /\ read[r].step = "record" =>
          /\ read'[r].key = read[r].key /\ read'[r].version = read[r].version
          /\ read[r].seen \subseteq read'[r].seen
          /\ current'[read[r].key] \in read'[r].seen
          /\ Clearing => "Gone" \in read'[r].seen

LEMMA WatchKeeps ==
    ASSUME read \in [Readers -> {NoRead} \cup Reads],
           current' \in [Keys -> Values \cup {"None", "Gone"}],
           Watch
    PROVE  /\ read' \in [Readers -> {NoRead} \cup Reads]
           /\ \A r \in Readers : Watched(r)
<1>1. SUFFICES ASSUME NEW r \in Readers
               PROVE  read'[r] \in {NoRead} \cup Reads /\ Watched(r)
  BY DEF Watch
<1>2. CASE read[r] = NoRead
  BY <1>2 DEF Watch, Watched, NoRead
<1>3. CASE read[r] \in Reads
  <2> DEFINE more == read[r].seen \cup {current'[read[r].key]}
                        \cup (IF Clearing THEN {"Gone"} ELSE {})
  <2>1. read[r].step = "record" /\ read[r].key \in Keys
    BY <1>3 DEF Reads
  <2>2. read'[r] = [read[r] EXCEPT !.seen = more]
    BY <2>1 DEF Watch
  <2>3. more \in SUBSET (Values \cup {"None", "Gone"})
    <3>1. current'[read[r].key] \in Values \cup {"None", "Gone"}
      BY <2>1
    <3>2. read[r].seen \in SUBSET (Values \cup {"None", "Gone"})
      BY <1>3 DEF Reads
    <3>3. QED
      BY <3>1, <3>2
  <2> HIDE DEF more
  <2>4. /\ read'[r] \in Reads
        /\ read'[r].step = "record" /\ read'[r].key = read[r].key
        /\ read'[r].version = read[r].version /\ read'[r].seen = more
    BY <1>3, <2>2, <2>3 DEF Reads
  <2>5. QED
    BY <2>1, <2>4 DEF Watched, more
<1>4. QED
  BY <1>2, <1>3

\* What a writer's step says of what it is doing.
LEMMA OperationForms ==
    ASSUME op \in [Writers -> {NoOp} \cup Writes \cup Clears], NEW w \in Writers
    PROVE  /\ op[w].step \in {"idle", "record", "latest", "clear"}
           /\ op[w].step \in {"record", "latest"} =>
                 /\ op[w] \in Writes
                 /\ op[w].key \in Keys /\ op[w].version \in Versions
                 /\ op[w].value \in Values \cup {Tombstone}
           /\ op[w].step = "clear" =>
                 op[w] \in Clears /\ op[w].todo \in SUBSET (Keys \X (0..MaxVersion))
<1>1. op[w] = NoOp \/ op[w] \in Writes \/ op[w] \in Clears
  OBVIOUS
<1>2. CASE op[w] = NoOp
  BY <1>2 DEF NoOp
<1>3. CASE op[w] \in Writes
  BY <1>3 DEF Writes
<1>4. CASE op[w] \in Clears
  BY <1>4 DEF Clears
<1>5. QED
  BY <1>1, <1>2, <1>3, <1>4

\* A reader that is not idle has a key and a version.
LEMMA ReaderForms ==
    ASSUME read \in [Readers -> {NoRead} \cup Reads], NEW r \in Readers,
           read[r].step = "record"
    PROVE  read[r] \in Reads /\ read[r].key \in Keys /\ read[r].version \in Versions
BY DEF Reads, NoRead

\* A version keeps its answer while it is not beyond the latest one, or is the latest one.
Holds(k, v) ==
    v <= latest[k] =>
        v <= latest'[k] /\ (Answer(k, v)' = Answer(k, v) \/ v = latest'[k])

\* A change that keeps what readers may hold, or that they learn to be part of a clear, leaves
\* them right.
LEMMA ReadersStayRight ==
    ASSUME TypeOK, ReadInv, Watch,
           record' \in [Keys -> [Versions -> Values \cup {Tombstone, Absent}]],
           latest' \in [Keys -> 0..MaxVersion],
           Clearing \/ \A k \in Keys, v \in Versions : Holds(k, v)
    PROVE  read' \in [Readers -> {NoRead} \cup Reads] /\ ReadInv'
<1>1. /\ read \in [Readers -> {NoRead} \cup Reads]
      /\ current' \in [Keys -> Values \cup {"None", "Gone"}]
  BY CurrentTypeNext DEF TypeOK
<1>2. read' \in [Readers -> {NoRead} \cup Reads]
  BY <1>1, WatchKeeps
<1>3. ASSUME NEW r \in Readers, read'[r].step = "record"
      PROVE  \/ "Gone" \in read'[r].seen
             \/ /\ read'[r].version <= latest'[read'[r].key]
                /\ Answer(read[r].key, read[r].version)' \in read'[r].seen
  <2>1. Watched(r)
    BY <1>1, WatchKeeps
  <2>2. /\ read[r].step = "record"
        /\ read'[r].key = read[r].key /\ read'[r].version = read[r].version
        /\ read[r].seen \subseteq read'[r].seen
        /\ current'[read[r].key] \in read'[r].seen
        /\ Clearing => "Gone" \in read'[r].seen
    BY <1>3, <2>1 DEF Watched
  <2>3. PICK k \in Keys, v \in Versions : k = read[r].key /\ v = read[r].version
    BY <1>1, <2>2, ReaderForms
  <2>4. CASE "Gone" \in read[r].seen \/ Clearing
    BY <2>2, <2>4
  <2>5. CASE /\ v <= latest[k] /\ Answer(k, v) \in read[r].seen
             /\ Holds(k, v)
    <3>1. v <= latest'[k] /\ (Answer(k, v)' = Answer(k, v) \/ v = latest'[k])
      BY <2>5 DEF Holds
    <3>2. CASE Answer(k, v)' = Answer(k, v)
      BY <2>2, <2>3, <2>5, <3>1, <3>2 DEF Answer
    <3>3. CASE v = latest'[k]
      <4>1. latest'[k] # 0
        BY <2>3, <3>3, VersionsAreNumbers
      <4>2. current'[k] = Answer(k, latest[k])'
        BY <2>3, <4>1, CurrentTypeNext
      <4>3. Answer(k, v)' \in read'[r].seen
        BY <2>2, <2>3, <3>3, <4>2 DEF Answer
      <4>4. QED
        BY <2>2, <2>3, <3>1, <4>3 DEF Answer
    <3>4. QED
      BY <3>1, <3>2, <3>3
  <2>6. QED
    BY <2>2, <2>3, <2>4, <2>5 DEF ReadInv
<1>4. QED
  BY <1>2, <1>3 DEF ReadInv

-----------------------------------------------------------------------------
(* Each action keeps the invariant *)

LEMMA InitInv == Init => StoreInv
<1> SUFFICES ASSUME Init PROVE StoreInv
  OBVIOUS
<1>1. TypeOK
  BY VersionsAreNumbers DEF Init, TypeOK
<1>2. WriteInv /\ ClearInv /\ ReadInv /\ ClearedStaysCleared
  BY DEF Init, WriteInv, ClearInv, ReadInv, ClearedStaysCleared, NoOp, NoRead
<1>3. QED
  BY <1>1, <1>2 DEF StoreInv

\* A writer that only changes what it is doing disturbs no reader.
LEMMA OnlyOperationInv ==
    ASSUME StoreInv, OneWriter, NEW w \in Writers, NEW o \in {NoOp} \cup Writes \cup Clears,
           op' = [op EXCEPT ![w] = o],
           UNCHANGED <<latest, record, read>>,
           o.step \in {"record", "latest"} =>
               /\ o.version \in {latest[o.key], latest[o.key] + 1}
               /\ o.version = latest[o.key] => o.value \in Values
               /\ o.step = "latest" => record[o.key][o.version] = o.value,
           o.step = "clear" =>
               \A k \in Keys, v \in Versions : record[k][v] # Absent => <<k, v>> \in o.todo
    PROVE  StoreInv'
<1>1. Writers = {w}
  BY OnlyWriter
<1>2. TypeOK /\ ReadInv /\ ClearedStaysCleared
  BY DEF StoreInv
<1>3. op'[w] = o /\ op' \in [Writers -> {NoOp} \cup Writes \cup Clears]
  BY <1>2 DEF TypeOK
<1>4. TypeOK' /\ ReadInv' /\ ClearedStaysCleared'
  BY <1>2, <1>3 DEF TypeOK, ReadInv, ClearedStaysCleared, Answer
<1>5. WriteInv'
  BY <1>1, <1>3 DEF WriteInv
<1>6. ClearInv'
  BY <1>1, <1>3 DEF ClearInv
<1>7. QED
  BY <1>4, <1>5, <1>6 DEF StoreInv

LEMMA BeginInv ==
    ASSUME StoreInv, OneWriter, NEW w \in Writers, NEW k \in Keys,
           Set(w, k) \/ Delete(w, k) \/ Update(w, k)
    PROVE  StoreInv'
<1>1. PICK v \in {NextVersion(k), UpdatedVersion(k)}, x \in Values \cup {Tombstone} :
          Begin(w, k, v, x) /\ (v = NextVersion(k) \/ x \in Values)
  BY DEF Set, Delete, Update
<1>2. latest[k] \in 0..MaxVersion
  BY DEF StoreInv, TypeOK
<1>3. /\ v \in {latest[k], latest[k] + 1} /\ v \in Versions
      /\ v = latest[k] => x \in Values
  BY <1>1, <1>2, VersionsAreNumbers DEF Begin, NextVersion, UpdatedVersion
<1> DEFINE o == [step |-> "record", key |-> k, version |-> v, value |-> x]
<1>4. o \in Writes
  BY <1>3 DEF Writes
<1>5. op' = [op EXCEPT ![w] = o] /\ UNCHANGED <<latest, record, read>>
  BY <1>1 DEF Begin
<1>6. QED
  BY <1>3, <1>4, <1>5, OnlyOperationInv

LEMMA BeginClearInv ==
    ASSUME StoreInv, OneWriter, NEW w \in Writers, BeginClear(w)
    PROVE  StoreInv'
<1> DEFINE all == {p \in Keys \X Versions : record[p[1]][p[2]] # Absent}
                      \cup {p \in Keys \X {0} : latest[p[1]] # 0}
           o == [step |-> "clear", todo |-> all]
<1>1. all \in SUBSET (Keys \X (0..MaxVersion))
  BY VersionsAreNumbers DEF Versions
<1>2. \A k \in Keys, v \in Versions : record[k][v] # Absent => <<k, v>> \in all
  OBVIOUS
<1>3. op' = [op EXCEPT ![w] = o] /\ UNCHANGED <<latest, record, read>>
  BY DEF BeginClear
<1> HIDE DEF all
<1>4. o \in Clears
  BY <1>1 DEF Clears
<1>5. QED
  BY <1>2, <1>3, <1>4, OnlyOperationInv

LEMMA IdleInv ==
    ASSUME StoreInv, OneWriter, NEW w \in Writers, EndClear(w) \/ Abort(w)
    PROVE  StoreInv'
<1>1. op' = [op EXCEPT ![w] = NoOp] /\ UNCHANGED <<latest, record, read>>
  BY DEF EndClear, Abort
<1>2. NoOp.step = "idle"
  BY DEF NoOp
<1>3. QED
  BY <1>1, <1>2, OnlyOperationInv

LEMMA PutRecordInv ==
    ASSUME StoreInv, OneWriter, NEW w \in Writers, PutRecord(w)
    PROVE  StoreInv'
<1> DEFINE k == op[w].key
           v == op[w].version
           x == op[w].value
<1>1. Writers = {w}
  BY OnlyWriter
<1>2. TypeOK /\ ReadInv /\ WriteInv /\ ClearedStaysCleared
  BY DEF StoreInv
<1>3. /\ op[w].step = "record" /\ latest' = latest /\ Watch
      /\ record' = [record EXCEPT ![k][v] = x]
      /\ op' = [op EXCEPT ![w].step = "latest"]
  BY DEF PutRecord
<1>4. /\ op[w] \in Writes /\ k \in Keys /\ v \in Versions /\ x \in Values \cup {Tombstone}
  BY <1>2, <1>3, OperationForms DEF TypeOK
<1>5. /\ v \in {latest[k], latest[k] + 1}
      /\ v = latest[k] => x \in Values
      /\ latest[k] \in 0..MaxVersion
  BY <1>2, <1>3, <1>4 DEF WriteInv, TypeOK
<1>6. /\ op'[w] = [op[w] EXCEPT !.step = "latest"]
      /\ op'[w].step = "latest" /\ op'[w].key = k /\ op'[w].version = v /\ op'[w].value = x
      /\ op'[w] \in Writes
  BY <1>2, <1>3, <1>4 DEF TypeOK, Writes
<1> HIDE DEF k, v, x
<1>7. op' \in [Writers -> {NoOp} \cup Writes \cup Clears]
  BY <1>2, <1>3, <1>6 DEF TypeOK
<1>8. /\ record' \in [Keys -> [Versions -> Values \cup {Tombstone, Absent}]]
      /\ record'[k][v] = x
      /\ \A kk \in Keys, vv \in Versions : kk # k \/ vv # v => record'[kk][vv] = record[kk][vv]
  BY <1>2, <1>3, <1>4 DEF TypeOK
<1>9. \A kk \in Keys, vv \in Versions : Holds(kk, vv)
  <2>1. SUFFICES ASSUME NEW kk \in Keys, NEW vv \in Versions PROVE Holds(kk, vv)
    OBVIOUS
  <2>2. CASE kk = k /\ vv = v
    BY <1>3, <1>5, <2>2, VersionsAreNumbers DEF Holds
  <2>3. CASE kk # k \/ vv # v
    BY <1>3, <1>8, <2>3 DEF Holds, Answer
  <2>4. QED
    BY <2>2, <2>3
<1>10. read' \in [Readers -> {NoRead} \cup Reads] /\ ReadInv'
  BY <1>2, <1>3, <1>8, <1>9, ReadersStayRight DEF TypeOK
<1>11. TypeOK'
  BY <1>2, <1>3, <1>7, <1>8, <1>10 DEF TypeOK
<1>12. WriteInv'
  BY <1>1, <1>3, <1>5, <1>6, <1>8 DEF WriteInv
<1>13. ClearInv'
  BY <1>1, <1>6 DEF ClearInv
<1>14. ClearedStaysCleared'
  <2>1. SUFFICES ASSUME NEW kk \in Keys, NEW vv \in Versions, record'[kk][vv] # Absent
                 PROVE  vv <= latest'[kk] + 1
    BY DEF ClearedStaysCleared
  <2>2. CASE kk = k /\ vv = v
    BY <1>3, <1>5, <2>2, VersionsAreNumbers
  <2>3. CASE kk # k \/ vv # v
    BY <1>2, <1>3, <1>8, <2>1, <2>3 DEF ClearedStaysCleared
  <2>4. QED
    BY <2>2, <2>3
<1>15. QED
  BY <1>10, <1>11, <1>12, <1>13, <1>14 DEF StoreInv

LEMMA PutLatestInv ==
    ASSUME StoreInv, OneWriter, NEW w \in Writers, PutLatest(w)
    PROVE  StoreInv'
<1> DEFINE k == op[w].key
           v == op[w].version
<1>1. Writers = {w}
  BY OnlyWriter
<1>2. TypeOK /\ ReadInv /\ WriteInv /\ ClearedStaysCleared
  BY DEF StoreInv
<1>3. /\ op[w].step = "latest" /\ record' = record /\ Watch
      /\ latest' = [latest EXCEPT ![k] = v]
      /\ op' = [op EXCEPT ![w] = NoOp]
  BY DEF PutLatest
<1>4. k \in Keys /\ v \in Versions
  BY <1>2, <1>3, OperationForms DEF TypeOK
<1>5. v \in {latest[k], latest[k] + 1}
  BY <1>2, <1>3 DEF WriteInv
<1> HIDE DEF k, v
<1>6. /\ latest' \in [Keys -> 0..MaxVersion]
      /\ \A kk \in Keys : latest[kk] <= latest'[kk]
  <2>1. latest'[k] = v /\ \A kk \in Keys : kk # k => latest'[kk] = latest[kk]
    BY <1>2, <1>3, <1>4 DEF TypeOK
  <2>2. v \in 0..MaxVersion /\ latest[k] \in Nat /\ latest[k] <= v
    BY <1>2, <1>4, <1>5, VersionsAreNumbers DEF TypeOK
  <2>3. \A kk \in Keys : latest[kk] \in Nat
    BY <1>2 DEF TypeOK
  <2>4. latest' \in [Keys -> 0..MaxVersion]
    BY <1>2, <1>3, <2>2 DEF TypeOK
  <2>5. QED
    BY <2>1, <2>2, <2>3, <2>4
<1>7. op'[w].step = "idle" /\ op' \in [Writers -> {NoOp} \cup Writes \cup Clears]
  BY <1>2, <1>3 DEF TypeOK, NoOp
<1>8. \A kk \in Keys : latest[kk] \in Nat /\ latest'[kk] \in Nat
  BY <1>2, <1>6 DEF TypeOK
<1>9. \A kk \in Keys, vv \in Versions : Holds(kk, vv)
  <2>1. SUFFICES ASSUME NEW kk \in Keys, NEW vv \in Versions PROVE Holds(kk, vv)
    OBVIOUS
  <2>2. latest[kk] <= latest'[kk] /\ latest[kk] \in Nat /\ latest'[kk] \in Nat
    BY <1>6, <1>8
  <2>3. Answer(kk, vv)' = Answer(kk, vv)
    BY <1>3 DEF Answer
  <2>4. vv <= latest[kk] => vv <= latest'[kk]
    BY <2>2, VersionsAreNumbers
  <2>5. QED
    BY <2>3, <2>4 DEF Holds
<1>10. read' \in [Readers -> {NoRead} \cup Reads] /\ ReadInv'
  BY <1>2, <1>3, <1>6, <1>9, ReadersStayRight DEF TypeOK
<1>11. TypeOK'
  BY <1>2, <1>3, <1>6, <1>7, <1>10 DEF TypeOK
<1>12. WriteInv' /\ ClearInv'
  BY <1>1, <1>7 DEF WriteInv, ClearInv
<1>13. ClearedStaysCleared'
  <2>1. SUFFICES ASSUME NEW kk \in Keys, NEW vv \in Versions, record[kk][vv] # Absent
                 PROVE  vv <= latest'[kk] + 1
    BY <1>3 DEF ClearedStaysCleared
  <2>2. vv <= latest[kk] + 1
    BY <1>2, <2>1 DEF ClearedStaysCleared
  <2>3. QED
    BY <1>6, <1>8, <2>2, VersionsAreNumbers
<1>14. QED
  BY <1>10, <1>11, <1>12, <1>13 DEF StoreInv

\* A clear deletes one key of the storage: the pointer only after all records it ranges over.
LEMMA ClearOneInv ==
    ASSUME StoreInv, OneWriter, NEW w \in Writers, ClearOne(w)
    PROVE  StoreInv'
<1>1. Writers = {w}
  BY OnlyWriter
<1>2. TypeOK /\ ReadInv /\ WriteInv /\ ClearInv /\ ClearedStaysCleared
  BY DEF StoreInv
<1>3. PICK k \in Keys, v \in 0..MaxVersion :
        /\ Deletable(op[w].todo, k, v)
        /\ IF v = 0
           THEN latest' = [latest EXCEPT ![k] = 0] /\ UNCHANGED record
           ELSE record' = [record EXCEPT ![k][v] = Absent] /\ UNCHANGED latest
        /\ op' = [op EXCEPT ![w].todo = @ \ {<<k, v>>}]
  BY DEF ClearOne
<1>4. op[w].step = "clear" /\ Watch /\ Clearing
  BY DEF ClearOne, Clearing
<1>5. op[w] \in Clears /\ op[w].todo \in SUBSET (Keys \X (0..MaxVersion))
  BY <1>2, <1>4, OperationForms DEF TypeOK
<1>6. /\ op'[w].step = "clear" /\ op'[w].todo = op[w].todo \ {<<k, v>>}
      /\ op'[w] \in Clears
  BY <1>2, <1>3, <1>4, <1>5 DEF TypeOK, Clears
<1>7. op' \in [Writers -> {NoOp} \cup Writes \cup Clears]
  BY <1>2, <1>3, <1>6 DEF TypeOK
<1>8. WriteInv'
  BY <1>1, <1>6 DEF WriteInv
<1>9. CASE v = 0
  <2>1. record' = record /\ latest' = [latest EXCEPT ![k] = 0]
    BY <1>3, <1>9
  <2>2. latest' \in [Keys -> 0..MaxVersion] /\ \A kk \in Keys : kk # k => latest'[kk] = latest[kk]
    BY <1>2, <2>1, VersionsAreNumbers DEF TypeOK
  <2>3. \A u \in Versions : record[k][u] = Absent
    BY <1>2, <1>3, <1>4, <1>9 DEF Deletable, ClearInv
  <2>4. read' \in [Readers -> {NoRead} \cup Reads] /\ ReadInv'
    BY <1>2, <1>4, <2>1, <2>2, ReadersStayRight DEF TypeOK
  <2>5. TypeOK'
    BY <1>2, <1>7, <2>1, <2>2, <2>4 DEF TypeOK
  <2>6. ClearedStaysCleared'
    BY <1>2, <2>1, <2>2, <2>3 DEF ClearedStaysCleared
  <2>7. ClearInv'
    <3>1. SUFFICES ASSUME NEW kk \in Keys, NEW vv \in Versions, record[kk][vv] # Absent
                   PROVE  <<kk, vv>> \in op'[w].todo
      BY <1>1, <2>1 DEF ClearInv
    <3>2. <<kk, vv>> \in op[w].todo
      BY <1>2, <1>4, <3>1 DEF ClearInv
    <3>3. QED
      BY <1>6, <1>9, <3>2, VersionsAreNumbers
  <2>8. QED
    BY <1>8, <2>4, <2>5, <2>6, <2>7 DEF StoreInv
<1>10. CASE v # 0
  <2>1. latest' = latest /\ record' = [record EXCEPT ![k][v] = Absent] /\ v \in Versions
    BY <1>3, <1>10, VersionsAreNumbers
  <2>2. /\ record' \in [Keys -> [Versions -> Values \cup {Tombstone, Absent}]]
        /\ record'[k][v] = Absent
        /\ \A kk \in Keys, vv \in Versions :
               kk # k \/ vv # v => record'[kk][vv] = record[kk][vv]
    BY <1>2, <2>1 DEF TypeOK
  <2>3. read' \in [Readers -> {NoRead} \cup Reads] /\ ReadInv'
    BY <1>2, <1>4, <2>1, <2>2, ReadersStayRight DEF TypeOK
  <2>4. TypeOK'
    BY <1>2, <1>7, <2>1, <2>2, <2>3 DEF TypeOK
  <2>5. ClearedStaysCleared'
    BY <1>2, <2>1, <2>2 DEF ClearedStaysCleared
  <2>6. ClearInv'
    <3>1. SUFFICES ASSUME NEW kk \in Keys, NEW vv \in Versions, record'[kk][vv] # Absent
                   PROVE  <<kk, vv>> \in op'[w].todo
      BY <1>1 DEF ClearInv
    <3>2. (kk # k \/ vv # v) /\ record[kk][vv] # Absent
      BY <2>2, <3>1
    <3>3. <<kk, vv>> \in op[w].todo
      BY <1>2, <1>4, <3>2 DEF ClearInv
    <3>4. QED
      BY <1>6, <3>2, <3>3
  <2>7. QED
    BY <1>8, <2>3, <2>4, <2>5, <2>6 DEF StoreInv
<1>11. QED
  BY <1>9, <1>10

LEMMA ReaderInv ==
    ASSUME StoreInv, NEW r \in Readers,
           ReadRecord(r) \/ \E k \in Keys : ReadLatest(r, k)
    PROVE  StoreInv'
<1>1. TypeOK /\ ReadInv /\ WriteInv /\ ClearInv /\ ClearedStaysCleared
  BY DEF StoreInv
<1>2. UNCHANGED <<latest, record, op>>
  BY DEF ReadRecord, ReadLatest
<1>3. WriteInv' /\ ClearInv' /\ ClearedStaysCleared'
  BY <1>1, <1>2 DEF WriteInv, ClearInv, ClearedStaysCleared
<1>4. read' \in [Readers -> {NoRead} \cup Reads] /\ ReadInv'
  <2>1. CASE ReadRecord(r)
    <3>1. read' = [read EXCEPT ![r] = NoRead]
      BY <2>1 DEF ReadRecord
    <3>2. read'[r].step = "idle" /\ \A s \in Readers : s # r => read'[s] = read[s]
      BY <1>1, <3>1 DEF TypeOK, NoRead
    <3>3. read' \in [Readers -> {NoRead} \cup Reads]
      BY <1>1, <3>1 DEF TypeOK
    <3>4. QED
      BY <1>1, <1>2, <3>2, <3>3 DEF ReadInv, Answer
  <2>2. ASSUME NEW k \in Keys, ReadLatest(r, k)
        PROVE  read' \in [Readers -> {NoRead} \cup Reads] /\ ReadInv'
    <3> DEFINE a == [step |-> "record", key |-> k, version |-> latest[k], seen |-> {current[k]}]
    <3>1. latest[k] # 0 /\ read' = [read EXCEPT ![r] = a]
      BY <2>2 DEF ReadLatest
    <3>2. latest[k] \in Versions /\ latest[k] \in Nat
      BY <1>1, <3>1, VersionsAreNumbers DEF TypeOK
    <3>3. /\ current[k] \in Values \cup {"None", "Gone"}
          /\ current[k] = Answer(k, latest[k])
      BY <1>1, <3>1, CurrentType DEF TypeOK
    <3>4. a \in Reads
      BY <3>2, <3>3 DEF Reads
    <3>5. /\ read'[r] = a /\ \A s \in Readers : s # r => read'[s] = read[s]
          /\ read' \in [Readers -> {NoRead} \cup Reads]
      BY <1>1, <3>1, <3>4 DEF TypeOK
    <3>6. ASSUME NEW s \in Readers, read'[s].step = "record"
          PROVE  \/ "Gone" \in read'[s].seen
                 \/ /\ read'[s].version <= latest'[read'[s].key]
                    /\ Answer(read[s].key, read[s].version)' \in read'[s].seen
      <4>1. CASE s = r
        <5>1. read'[s].version = latest[k] /\ read'[s].key = k /\ read'[s].seen = {current[k]}
          BY <3>5, <4>1
        <5>2. latest[k] <= latest[k]
          BY <3>2
        <5>3. QED
          BY <1>2, <3>3, <5>1, <5>2 DEF Answer
      <4>2. CASE s # r
        BY <1>1, <1>2, <3>5, <3>6, <4>2 DEF ReadInv, Answer
      <4>3. QED
        BY <4>1, <4>2
    <3>7. QED
      BY <3>5, <3>6 DEF ReadInv
  <2>3. QED
    BY <2>1, <2>2
<1>5. TypeOK'
  BY <1>1, <1>2, <1>4 DEF TypeOK
<1>6. QED
  BY <1>3, <1>4, <1>5 DEF StoreInv

LEMMA NextInv == StoreInv /\ OneWriter /\ [Next]_vars => StoreInv'
<1> SUFFICES ASSUME StoreInv, OneWriter, [Next]_vars PROVE StoreInv'
  OBVIOUS
<1>1. ASSUME NEW w \in Writers, Write(w) PROVE StoreInv'
  <2>1. ASSUME NEW k \in Keys, Set(w, k) \/ Delete(w, k) \/ Update(w, k) PROVE StoreInv'
    BY <2>1, BeginInv
  <2>2. CASE PutRecord(w)
    BY <2>2, PutRecordInv
  <2>3. CASE PutLatest(w)
    BY <2>3, PutLatestInv
  <2>4. CASE BeginClear(w)
    BY <2>4, BeginClearInv
  <2>5. CASE ClearOne(w)
    BY <2>5, ClearOneInv
  <2>6. CASE EndClear(w) \/ Abort(w)
    BY <2>6, IdleInv
  <2>7. QED
    BY <1>1, <2>1, <2>2, <2>3, <2>4, <2>5, <2>6 DEF Write
<1>2. ASSUME NEW r \in Readers, ReadRecord(r) \/ \E k \in Keys : ReadLatest(r, k)
      PROVE  StoreInv'
  BY <1>2, ReaderInv
<1>3. CASE UNCHANGED vars
  BY <1>3 DEF vars, StoreInv, TypeOK, WriteInv, ClearInv, ReadInv, ClearedStaysCleared, Answer
<1>4. QED
  BY <1>1, <1>2, <1>3 DEF Next

-----------------------------------------------------------------------------
(* Theorems *)

\* With one writer, the inductive invariant holds whatever operation is interrupted.
THEOREM StoreInvariance ==
    ASSUME OneWriter
    PROVE  Spec => []StoreInv
<1>1. Init => StoreInv
  BY InitInv
<1>2. StoreInv /\ [Next]_vars => StoreInv'
  BY NextInv
<1>3. QED
  BY <1>1, <1>2, PTL DEF Spec

\* Each variable keeps its type.
THEOREM StoreTypeCorrect ==
    ASSUME OneWriter
    PROVE  Spec => []TypeOK
BY StoreInvariance, PTL DEF StoreInv

\* get answers what its key held at some moment between its two storage calls, however many
\* set, update and delete calls fall in between, unless a clear does (get_record).
THEOREM GetsAreCurrent ==
    ASSUME OneWriter
    PROVE  Spec => []ReadsWereCurrent
<1>1. StoreInv => ReadsWereCurrent
  BY DEF StoreInv, ReadInv, ReadsWereCurrent
<1>2. QED
  BY <1>1, StoreInvariance, PTL

\* However writes and clears are interrupted, no record lies beyond the next version of its
\* key, where a later pointer would uncover it (clear).
THEOREM ClearsLeaveNothing ==
    ASSUME OneWriter
    PROVE  Spec => []ClearedStaysCleared
BY StoreInvariance, PTL DEF StoreInv

-----------------------------------------------------------------------------
(* The refinement: each step of the store is a step of the version map *)

Histories == [k \in Keys |-> [v \in 1..latest[k] |-> record[k][v]]]
Stored == Values \cup {Tombstone, Absent}

\* A history is the sequence of the records up to the pointer.
LEMMA HistoryIsSequence ==
    ASSUME TypeOK, NEW k \in Keys
    PROVE  /\ Histories[k] \in Seq(Stored) /\ Len(Histories[k]) = latest[k]
           /\ DOMAIN Histories[k] = 1..latest[k]
           /\ \A v \in 1..latest[k] : v \in Versions /\ Histories[k][v] = record[k][v]
<1>1. latest[k] \in Nat /\ latest[k] <= MaxVersion
  BY VersionsAreNumbers DEF TypeOK
<1>2. Histories[k] = [v \in 1..latest[k] |-> record[k][v]]
  BY DEF Histories
<1>3. ASSUME NEW v \in 1..latest[k]
      PROVE  v \in Versions /\ record[k][v] \in Stored
  <2>1. v \in Versions
    BY <1>1, VersionsAreNumbers
  <2>2. QED
    BY <2>1 DEF TypeOK, Stored
<1>4. Histories[k] \in [1..latest[k] -> Stored]
  BY <1>2, <1>3
<1>5. Histories[k] \in Seq(Stored) /\ DOMAIN Histories[k] = 1..latest[k]
  BY <1>1, <1>4, SeqDef
<1>6. Len(Histories[k]) = latest[k]
  BY <1>1, <1>5, LenProperties
<1>7. QED
  BY <1>2, <1>3, <1>5, <1>6

\* A step that leaves pointers and the records up to them alone changes no history.
LEMMA HistoriesUnchanged ==
    ASSUME latest' = latest, TypeOK,
           \A k \in Keys, v \in Versions : v <= latest[k] => record'[k][v] = record[k][v]
    PROVE  Histories' = Histories
<1>1. ASSUME NEW k \in Keys
      PROVE  [v \in 1..latest[k] |-> record'[k][v]] = [v \in 1..latest[k] |-> record[k][v]]
  <2>1. \A v \in 1..latest[k] : record'[k][v] = record[k][v]
    <3>1. latest[k] \in Nat /\ latest[k] <= MaxVersion
      BY VersionsAreNumbers DEF TypeOK
    <3>2. \A v \in 1..latest[k] : v \in Versions /\ v <= latest[k]
      BY <3>1, VersionsAreNumbers
    <3>3. QED
      BY <3>2
  <2>2. QED
    BY <2>1
<1>2. Histories' = [k \in Keys |-> [v \in 1..latest[k] |-> record'[k][v]]]
  BY DEF Histories
<1>3. QED
  BY <1>1, <1>2 DEF Histories

\* A step that changes one record up to the pointer changes that version of the history.
LEMMA OneVersionChanges ==
    ASSUME TypeOK, TypeOK', latest' = latest, NEW k \in Keys, NEW v \in 1..latest[k], NEW x,
           record' = [record EXCEPT ![k][v] = x]
    PROVE  Histories' = [Histories EXCEPT ![k][v] = x]
<1>1. latest[k] \in Nat /\ latest[k] <= MaxVersion /\ v \in Versions
  BY VersionsAreNumbers DEF TypeOK
<1>2. ASSUME NEW kk \in Keys
      PROVE  Histories'[kk] = [Histories EXCEPT ![k][v] = x][kk]
  <2>1. Histories'[kk] = [u \in 1..latest[kk] |-> record'[kk][u]]
    BY DEF Histories
  <2>2. Histories[kk] = [u \in 1..latest[kk] |-> record[kk][u]]
    BY DEF Histories
  <2>3. CASE kk # k
    <3>1. record'[kk] = record[kk]
      BY <2>3 DEF TypeOK
    <3>2. [Histories EXCEPT ![k][v] = x][kk] = Histories[kk]
      BY <2>3 DEF Histories
    <3>3. [u \in 1..latest[kk] |-> record'[kk][u]] = [u \in 1..latest[kk] |-> record[kk][u]]
      BY <3>1
    <3>4. QED
      BY <2>1, <2>2, <3>2, <3>3
  <2>4. CASE kk = k
    <3>1. \A u \in 1..latest[k] : record'[k][u] = IF u = v THEN x ELSE record[k][u]
      <4>1. \A u \in 1..latest[k] : u \in Versions
        BY <1>1, VersionsAreNumbers
      <4>2. QED
        BY <4>1 DEF TypeOK
    <3>2. [Histories EXCEPT ![k][v] = x][k] = [Histories[k] EXCEPT ![v] = x]
      BY DEF Histories
    <3>3. Histories'[k] = [u \in 1..latest[k] |-> IF u = v THEN x ELSE record[k][u]]
      <4>1. [u \in 1..latest[k] |-> record'[k][u]]
              = [u \in 1..latest[k] |-> IF u = v THEN x ELSE record[k][u]]
        BY <3>1
      <4>2. Histories'[k] = [u \in 1..latest[k] |-> record'[k][u]]
        BY <2>1, <2>4
      <4>3. QED
        BY <4>1, <4>2
    <3>4. [Histories[k] EXCEPT ![v] = x]
            = [u \in 1..latest[k] |-> IF u = v THEN x ELSE record[k][u]]
      BY <2>2, <2>4
    <3>5. QED
      BY <2>4, <3>2, <3>3, <3>4
  <2>5. QED
    BY <2>3, <2>4
<1>3. QED
  <2>1. /\ Histories' = [kk \in Keys |-> Histories'[kk]]
        /\ [Histories EXCEPT ![k][v] = x]
              = [kk \in Keys |-> [Histories EXCEPT ![k][v] = x][kk]]
    BY DEF Histories
  <2>2. QED
    BY <1>2, <2>1

\* A step that moves one pointer changes one history.
LEMMA OneHistoryChanges ==
    ASSUME TypeOK, record' = record, NEW k \in Keys, NEW n \in Nat,
           latest' = [latest EXCEPT ![k] = n]
    PROVE  Histories' = [Histories EXCEPT ![k] = [u \in 1..n |-> record[k][u]]]
<1>1. ASSUME NEW kk \in Keys
      PROVE  Histories'[kk] = [Histories EXCEPT ![k] = [u \in 1..n |-> record[k][u]]][kk]
  <2>1. Histories'[kk] = [u \in 1..latest'[kk] |-> record[kk][u]]
    BY DEF Histories
  <2>2. CASE kk # k
    BY <2>1, <2>2 DEF TypeOK, Histories
  <2>3. CASE kk = k
    BY <2>1, <2>3 DEF TypeOK, Histories
  <2>4. QED
    BY <2>2, <2>3
<1>2. QED
  BY <1>1 DEF Histories

\* The step of the abstract specification, with the histories of the store for its variable.
MapStep == Abstract!Next \/ Histories' = Histories

LEMMA PutRecordImplements ==
    ASSUME StoreInv, StoreInv', NEW w \in Writers, PutRecord(w)
    PROVE  MapStep
<1>1. TypeOK /\ WriteInv /\ TypeOK'
  BY DEF StoreInv
<1>2. op[w].step = "record" /\ latest' = latest
  BY DEF PutRecord
<1>3. PICK k \in Keys, v \in Versions, x \in Values \cup {Tombstone} :
          k = op[w].key /\ v = op[w].version /\ x = op[w].value
  BY <1>1, <1>2, OperationForms DEF TypeOK
<1>4. /\ record' = [record EXCEPT ![k][v] = x]
      /\ v \in {latest[k], latest[k] + 1}
      /\ v = latest[k] => x \in Values
  BY <1>1, <1>2, <1>3 DEF WriteInv, PutRecord
<1>5. latest[k] \in Nat /\ v \in Nat /\ v >= 1
  BY <1>1, VersionsAreNumbers DEF TypeOK
<1>6. CASE v = latest[k]
  <2>1. v \in 1..latest[k]
    BY <1>5, <1>6
  <2>2. Histories' = [Histories EXCEPT ![k][v] = x]
    BY <1>1, <1>2, <1>4, <2>1, OneVersionChanges
  <2>3. Len(Histories[k]) = v /\ Histories[k] # <<>>
    BY <1>1, <1>5, <1>6, HistoryIsSequence
  <2>4. Abstract!ReplaceLast(k, x)
    BY <2>2, <2>3 DEF Abstract!ReplaceLast, Histories
  <2>5. QED
    BY <1>4, <1>6, <2>4 DEF MapStep, Abstract!Next
<1>7. CASE v = latest[k] + 1
  <2>1. \A kk \in Keys, u \in Versions : u <= latest[kk] => record'[kk][u] = record[kk][u]
    <3>1. SUFFICES ASSUME NEW kk \in Keys, NEW u \in Versions, u <= latest[kk]
                   PROVE  record'[kk][u] = record[kk][u]
      OBVIOUS
    <3>2. kk # k \/ u # v
      BY <1>5, <1>7, <3>1, VersionsAreNumbers
    <3>3. QED
      BY <1>1, <1>4, <3>2 DEF TypeOK
  <2>2. QED
    BY <1>1, <1>2, <2>1, HistoriesUnchanged DEF MapStep
<1>8. QED
  BY <1>4, <1>6, <1>7

LEMMA PutLatestImplements ==
    ASSUME StoreInv, NEW w \in Writers, PutLatest(w)
    PROVE  MapStep
<1>1. TypeOK /\ WriteInv
  BY DEF StoreInv
<1>2. op[w].step = "latest" /\ record' = record
  BY DEF PutLatest
<1>3. PICK k \in Keys, v \in Versions, x \in Values \cup {Tombstone} :
          k = op[w].key /\ v = op[w].version /\ x = op[w].value
  BY <1>1, <1>2, OperationForms DEF TypeOK
<1>4. /\ latest' = [latest EXCEPT ![k] = v]
      /\ v \in {latest[k], latest[k] + 1}
      /\ record[k][v] = x
  BY <1>1, <1>2, <1>3 DEF WriteInv, PutLatest
<1>5. latest[k] \in Nat /\ v \in Nat /\ v >= 1
  BY <1>1, VersionsAreNumbers DEF TypeOK
<1>6. CASE v = latest[k]
  <2>1. latest' = latest
    BY <1>1, <1>4, <1>6 DEF TypeOK
  <2>2. QED
    BY <1>1, <1>2, <2>1, HistoriesUnchanged DEF MapStep
<1>7. CASE v = latest[k] + 1
  <2>1. Histories' = [Histories EXCEPT ![k] = [u \in 1..v |-> record[k][u]]]
    BY <1>1, <1>2, <1>4, <1>5, OneHistoryChanges
  <2>2. [u \in 1..v |-> record[k][u]] = Append(Histories[k], x)
    <3>1. /\ Histories[k] \in Seq(Stored) /\ Len(Histories[k]) = latest[k]
          /\ \A u \in 1..latest[k] : Histories[k][u] = record[k][u]
      BY <1>1, HistoryIsSequence
    <3>2. x \in Stored
      BY DEF Stored
    <3>3. /\ Append(Histories[k], x) \in Seq(Stored)
          /\ Len(Append(Histories[k], x)) = v
          /\ \A u \in 1..latest[k] : Append(Histories[k], x)[u] = record[k][u]
          /\ Append(Histories[k], x)[v] = x
      BY <1>5, <1>7, <3>1, <3>2, AppendProperties
    <3>4. Append(Histories[k], x) = [u \in 1..v |-> Append(Histories[k], x)[u]]
      BY <3>3
    <3>5. \A u \in 1..v : Append(Histories[k], x)[u] = record[k][u]
      <4>1. \A u \in 1..v : u \in 1..latest[k] \/ u = v
        BY <1>5, <1>7
      <4>2. QED
        BY <1>4, <3>3, <4>1
    <3>6. [u \in 1..v |-> Append(Histories[k], x)[u]] = [u \in 1..v |-> record[k][u]]
      BY <3>5
    <3>7. QED
      BY <3>4, <3>6
  <2>3. Abstract!AddVersion(k, x)
    BY <2>1, <2>2 DEF Abstract!AddVersion, Histories
  <2>4. QED
    BY <2>3 DEF MapStep, Abstract!Next
<1>8. QED
  BY <1>4, <1>6, <1>7

LEMMA ClearOneImplements ==
    ASSUME StoreInv, StoreInv', NEW w \in Writers, ClearOne(w)
    PROVE  MapStep
<1>1. TypeOK /\ TypeOK' /\ ClearInv
  BY DEF StoreInv
<1>2. PICK k \in Keys, v \in 0..MaxVersion :
        /\ Deletable(op[w].todo, k, v)
        /\ IF v = 0
           THEN latest' = [latest EXCEPT ![k] = 0] /\ UNCHANGED record
           ELSE record' = [record EXCEPT ![k][v] = Absent] /\ UNCHANGED latest
  BY DEF ClearOne
<1>3. op[w].step = "clear"
  BY DEF ClearOne
<1>4. latest[k] \in Nat /\ v \in Nat
  BY <1>1, VersionsAreNumbers DEF TypeOK
<1>5. CASE v = 0
  <2>1. record' = record /\ latest' = [latest EXCEPT ![k] = 0]
    BY <1>2, <1>5
  <2>2. \A u \in Versions : record[k][u] = Absent
    BY <1>1, <1>2, <1>3, <1>5 DEF Deletable, ClearInv
  <2>3. \A u \in 1..Len(Histories[k]) : Histories[k][u] = Absent
    BY <1>1, <2>2, HistoryIsSequence
  <2>4. Histories' = [Histories EXCEPT ![k] = [u \in 1..0 |-> record[k][u]]]
    BY <1>1, <2>1, OneHistoryChanges
  <2>5. [u \in 1..0 |-> record[k][u]] = <<>>
    OBVIOUS
  <2>6. Abstract!Drop(k)
    BY <2>3, <2>4, <2>5 DEF Abstract!Drop, Histories
  <2>7. QED
    BY <2>6 DEF MapStep, Abstract!Next
<1>6. CASE v # 0
  <2>1. /\ record' = [record EXCEPT ![k][v] = Absent] /\ latest' = latest
        /\ v \in Versions /\ v >= 1
    BY <1>2, <1>6, VersionsAreNumbers
  <2>2. CASE v <= latest[k]
    <3>1. v \in 1..latest[k] /\ v \in 1..Len(Histories[k])
      BY <1>1, <1>4, <2>1, <2>2, HistoryIsSequence
    <3>2. Histories' = [Histories EXCEPT ![k][v] = Absent]
      BY <1>1, <2>1, <3>1, OneVersionChanges
    <3>3. Abstract!Forget(k, v)
      BY <3>2 DEF Abstract!Forget, Histories
    <3>4. QED
      BY <3>1, <3>3 DEF MapStep, Abstract!Next, Histories
  <2>3. CASE ~(v <= latest[k])
    <3>1. \A kk \in Keys, u \in Versions : u <= latest[kk] => record'[kk][u] = record[kk][u]
      <4>1. SUFFICES ASSUME NEW kk \in Keys, NEW u \in Versions, u <= latest[kk]
                     PROVE  record'[kk][u] = record[kk][u]
        OBVIOUS
      <4>2. kk # k \/ u # v
        BY <2>3, <4>1
      <4>3. QED
        BY <1>1, <2>1, <4>2 DEF TypeOK
    <3>2. QED
      BY <1>1, <2>1, <3>1, HistoriesUnchanged DEF MapStep
  <2>4. QED
    BY <2>2, <2>3
<1>7. QED
  BY <1>5, <1>6

LEMMA StepImplements ==
    ASSUME StoreInv, StoreInv', [Next]_vars
    PROVE  MapStep
<1>1. ASSUME latest' = latest, record' = record PROVE MapStep
  BY <1>1 DEF MapStep, Histories
<1>2. ASSUME NEW w \in Writers, Write(w) PROVE MapStep
  <2>1. CASE PutRecord(w)
    BY <2>1, PutRecordImplements
  <2>2. CASE PutLatest(w)
    BY <2>2, PutLatestImplements
  <2>3. CASE ClearOne(w)
    BY <2>3, ClearOneImplements
  <2>4. CASE ~(PutRecord(w) \/ PutLatest(w) \/ ClearOne(w))
    BY <1>1, <1>2, <2>4 DEF Write, Set, Delete, Update, Begin, BeginClear, EndClear, Abort
  <2>5. QED
    BY <2>1, <2>2, <2>3, <2>4
<1>3. CASE (\E r \in Readers : ReadRecord(r) \/ \E k \in Keys : ReadLatest(r, k)) \/ UNCHANGED vars
  BY <1>1, <1>3 DEF ReadRecord, ReadLatest, vars
<1>4. QED
  BY <1>2, <1>3 DEF Next

\* The store implements the map of version histories: what an interrupted set, update, delete
\* or clear leaves behind is a state of that map too, and a history is never half written.
THEOREM StoreImplements ==
    ASSUME OneWriter
    PROVE  Spec => ImplementsVersionedMap
<1>1. Init => Abstract!Init
  <2>1. SUFFICES ASSUME Init PROVE Histories = [k \in Keys |-> <<>>]
    BY DEF Abstract!Init, Histories
  <2>2. \A k \in Keys : [v \in 1..latest[k] |-> record[k][v]] = <<>>
    BY <2>1 DEF Init
  <2>3. QED
    BY <2>2 DEF Histories
<1>2. StoreInv /\ StoreInv' /\ [Next]_vars => [Abstract!Next]_Histories
  BY StepImplements DEF MapStep
<1>3. QED
  BY <1>1, <1>2, StoreInvariance, PTL DEF Spec, ImplementsVersionedMap, Abstract!Spec, Histories
=============================================================================
