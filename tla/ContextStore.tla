---------------------------- MODULE ContextStore ----------------------------
(***************************************************************************)
(* ContextManager (src/agentic/context.py) over a key-value storage whose  *)
(* single calls are atomic (storage.py): set, update, delete and clear as  *)
(* the sequences of storage calls they are, with readers in between.       *)
(*                                                                         *)
(* In one event loop an operation of ContextManager is not interleaved     *)
(* with another, but synchronous tools and callbacks run in worker threads *)
(* and may read the same store; and any storage call may raise, which ends *)
(* the operation between two of its calls.                                 *)
(*                                                                         *)
(* Abstracted: encoding of keys and records, timestamps, the iteration     *)
(* stored in a record.  The storage is not closed meanwhile.               *)
(***************************************************************************)
EXTENDS Naturals, FiniteSets

CONSTANTS
    Keys,         \* context keys
    Values,       \* what is stored
    Tombstone,    \* the value that marks a deletion
    Absent,       \* what the storage holds under a key that is not there
    Writers,      \* threads that call set, update, delete and clear
    Readers,      \* threads that call get
    MaxVersion    \* bound: versions of one key

ASSUME VersionsAssumption == MaxVersion \in Nat \ {0}
ASSUME MarksAssumption == Tombstone \notin Values /\ Absent \notin Values /\ Tombstone # Absent

VARIABLES
    latest,   \* context:{key}:latest, 0 when absent
    record,   \* context:{key}:{version}
    op,       \* what each writer is doing: its locals and the next storage call
    read      \* what each reader is doing, and (ghost) the values its key had meanwhile
vars == <<latest, record, op, read>>

Versions == 1..MaxVersion
NoOp == [step |-> "idle"]
Writes == [step : {"record", "latest"}, key : Keys, version : Versions,
           value : Values \cup {Tombstone}]
Clears == [step : {"clear"}, todo : SUBSET (Keys \X (0..MaxVersion))]
NoRead == [step |-> "idle"]
Reads == [step : {"record"}, key : Keys, version : Versions,
          seen : SUBSET (Values \cup {"None", "Gone"})]

\* get_record with a version: "None" when it is not there or is a tombstone.
Answer(k, v) == IF record[k][v] \in {Absent, Tombstone} THEN "None" ELSE record[k][v]

\* What get answers when nothing else happens; "Gone" when there is no latest pointer.
current == [k \in Keys |-> IF latest[k] = 0 THEN "Gone" ELSE Answer(k, latest[k])]

\* Each read in progress takes note of the value its key now has, and of a clear.
Clearing == \E w \in Writers : op[w].step = "clear"
Watch ==
    read' = [r \in Readers |->
                IF read[r].step = "idle" THEN read[r]
                ELSE [read[r] EXCEPT !.seen = @ \cup {current'[read[r].key]}
                                                \cup (IF Clearing THEN {"Gone"} ELSE {})]]

Init ==
    /\ latest = [k \in Keys |-> 0]
    /\ record = [k \in Keys |-> [v \in Versions |-> Absent]]
    /\ op = [w \in Writers |-> NoOp]
    /\ read = [r \in Readers |-> NoRead]

-----------------------------------------------------------------------------
\* Mutant: update is off by one.
UpdatedVersionBefore(k) == IF latest[k] <= 1 THEN 1 ELSE latest[k] - 1

\* Mutant: a key that does not exist is not a case of its own.
UpdatedVersionOfNone(k) == latest[k]

\* The version update writes, and the one set (and delete) writes.
UpdatedVersion(k) == IF latest[k] = 0 THEN 1 ELSE latest[k]
NextVersion(k) == latest[k] + 1

\* The latest pointer is read, and the record built.
Begin(w, k, v, x) ==
    /\ op[w].step = "idle"
    /\ v <= MaxVersion
    /\ op' = [op EXCEPT ![w] = [step |-> "record", key |-> k, version |-> v, value |-> x]]
    /\ UNCHANGED <<latest, record, read>>

Set(w, k)    == \E x \in Values : Begin(w, k, NextVersion(k), x)
Delete(w, k) == Begin(w, k, NextVersion(k), Tombstone)
Update(w, k) == \E x \in Values : Begin(w, k, UpdatedVersion(k), x)

\* The record is stored first ...
PutRecord(w) ==
    /\ op[w].step = "record"
    /\ record' = [record EXCEPT ![op[w].key][op[w].version] = op[w].value]
    /\ op' = [op EXCEPT ![w].step = "latest"]
    /\ UNCHANGED latest
    /\ Watch

\* Mutant: the pointer moves although the record was not stored.
PutLatestAnyway(w) ==
    /\ op[w].step \in {"record", "latest"}
    /\ latest' = [latest EXCEPT ![op[w].key] = op[w].version]
    /\ op' = [op EXCEPT ![w] = NoOp]
    /\ UNCHANGED record
    /\ Watch

\* ... then the pointer to it.
PutLatest(w) ==
    /\ op[w].step = "latest"
    /\ latest' = [latest EXCEPT ![op[w].key] = op[w].version]
    /\ op' = [op EXCEPT ![w] = NoOp]
    /\ UNCHANGED record
    /\ Watch

\* clear: the storage keys are collected; version 0 stands for the pointer ...
BeginClear(w) ==
    /\ op[w].step = "idle"
    /\ op' = [op EXCEPT ![w] =
                [step |-> "clear",
                 todo |-> {p \in Keys \X Versions : record[p[1]][p[2]] # Absent}
                            \cup {p \in Keys \X {0} : latest[p[1]] # 0}]]
    /\ UNCHANGED <<latest, record, read>>

\* Mutant: the pointer may go before the records.
DeletableAny(todo, k, v) == <<k, v>> \in todo

\* ... and deleted in their order, in which "latest" follows the version numbers of its key.
Deletable(todo, k, v) ==
    <<k, v>> \in todo /\ (v = 0 => \A u \in Versions : <<k, u>> \notin todo)

ClearOne(w) ==
    /\ op[w].step = "clear"
    /\ \E k \in Keys, v \in 0..MaxVersion :
        /\ Deletable(op[w].todo, k, v)
        /\ IF v = 0
           THEN latest' = [latest EXCEPT ![k] = 0] /\ UNCHANGED record
           ELSE record' = [record EXCEPT ![k][v] = Absent] /\ UNCHANGED latest
        /\ op' = [op EXCEPT ![w].todo = @ \ {<<k, v>>}]
    /\ Watch

EndClear(w) ==
    /\ op[w].step = "clear" /\ op[w].todo = {}
    /\ op' = [op EXCEPT ![w] = NoOp]
    /\ UNCHANGED <<latest, record, read>>

\* A storage call raises: the exception ends the operation where it stands.
Abort(w) ==
    /\ op[w].step # "idle"
    /\ op' = [op EXCEPT ![w] = NoOp]
    /\ UNCHANGED <<latest, record, read>>

Write(w) ==
    \/ \E k \in Keys : Set(w, k) \/ Delete(w, k) \/ Update(w, k)
    \/ PutRecord(w) \/ PutLatest(w)
    \/ BeginClear(w) \/ ClearOne(w) \/ EndClear(w)
    \/ Abort(w)

\* get without a version: the pointer first (None at once when there is none) ...
ReadLatest(r, k) ==
    /\ read[r].step = "idle" /\ latest[k] # 0
    /\ read' = [read EXCEPT ![r] = [step |-> "record", key |-> k, version |-> latest[k],
                                    seen |-> {current[k]}]]
    /\ UNCHANGED <<latest, record, op>>

\* ... then the record, and it returns Answer.
ReadRecord(r) ==
    /\ read[r].step = "record"
    /\ read' = [read EXCEPT ![r] = NoRead]
    /\ UNCHANGED <<latest, record, op>>

Next ==
    \/ \E w \in Writers : Write(w)
    \/ \E r \in Readers : ReadRecord(r) \/ \E k \in Keys : ReadLatest(r, k)

Spec == Init /\ [][Next]_vars

-----------------------------------------------------------------------------
(* Properties, for one writer.                                             *)

\* Each variable holds a value of its type.
TypeOK ==
    /\ latest \in [Keys -> 0..MaxVersion]
    /\ record \in [Keys -> [Versions -> Values \cup {Tombstone, Absent}]]
    /\ op \in [Writers -> {NoOp} \cup Writes \cup Clears]
    /\ read \in [Readers -> {NoRead} \cup Reads]

\* get reads the pointer and then the record, in two storage calls; whatever is written in
\* between, it answers what the key held at some moment of the call, never half of a set,
\* update or delete.  (clear is not covered: it removes the version a reader is about to read
\* while a later one is still there, and version numbers are used again after it.)
ReadsWereCurrent ==
    \A r \in Readers : read[r].step = "record" =>
        Answer(read[r].key, read[r].version) \in read[r].seen \/ "Gone" \in read[r].seen

\* Whatever is interrupted, no record lies beyond the next version of its key: after a clear,
\* complete or not, no old version comes back when new ones are written.
ClearedStaysCleared ==
    \A k \in Keys, v \in Versions : record[k][v] # Absent => v <= latest[k] + 1

\* The store implements the map of version histories: a write that is interrupted leaves the
\* history as it was or is complete.
Abstract == INSTANCE VersionedMap
                WITH hist <- [k \in Keys |-> [v \in 1..latest[k] |-> record[k][v]]]
ImplementsVersionedMap == Abstract!Spec
=============================================================================
