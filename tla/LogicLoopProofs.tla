--------------------------- MODULE LogicLoopProofs ---------------------------
(***************************************************************************)
(* What holds of the logic loop for every limit, buffer size, threshold    *)
(* and length of output: its types, that a condition never stops it for    *)
(* what an earlier step said, and that it never goes on when it had a      *)
(* reason to stop.  That it ends is a liveness property and stays with     *)
(* TLC.                                                                    *)
(***************************************************************************)
EXTENDS LogicLoop, FiniteSetTheorems, SequenceTheorems, TLAPS

-----------------------------------------------------------------------------
(* The inductive invariant *)

Busy == pc \in {"streaming", "detected", "executing"}
At(points) == condition.point \in points
LooksAtText == condition.target \in {"response", "reasoning"} /\ condition.match # "equals"

\* A loop that has ended is done; a step under way is one the limit allows; and the event of a
\* tool call comes after the piece that ends it.
PhaseInv ==
    /\ ended # "no" => pc = "done"
    /\ Busy => iterationCount < MaxIterations
    /\ pc = "detected" => said # <<>>

\* The buffer holds nothing that the step under way has not said.
BufferInv ==
    /\ At({"llm_chunk", "any_event"}) => accumulates
    /\ Len(partial) <= Len(said)
    /\ Marked(partial) => Marked(RawOutput(said))

\* While a step is under way, what the condition was shown of it did not satisfy the condition.
ChunksSeen ==
    Busy /\ LooksAtText /\ At({"llm_chunk", "any_event"}) => ~Marked(RawOutput(said))

OutputSeen ==
    pc = "executing" /\ LooksAtText
    /\ (At({"llm_complete"}) \/ (At({"auto"}) /\ condition.match = "contains"))
        => ~Marked(RawOutput(said))

ResultsSeen ==
    /\ Busy /\ condition.target = "tool_output" /\ At({"tool_finished", "any_event"})
        => ~Marked(outputs)
    /\ Busy /\ condition.target = "tool_output" /\ At({"any_event"}) => ~printed

\* The call detected last is shown by the event under way.
CallsSeen ==
    Busy /\ condition.target = "tool_output" /\ At({"tool_detected", "any_event"})
        => \A k \in Places("tool_output") :
              (pc = "detected" => k # Len(said)) => ~said[k].marked

SeenInv == ChunksSeen /\ OutputSeen /\ ResultsSeen /\ CallsSeen

LoopInv == TypeOK /\ PhaseInv /\ BufferInv /\ SeenInv /\ StopsForThisStep

-----------------------------------------------------------------------------
(* Texts *)

LEMMA MarkedSingleton ==
    ASSUME NEW b \in BOOLEAN
    PROVE  (Marked(<<b>>) <=> b) /\ Cardinality(DOMAIN <<b>>) = 1
<1>1. DOMAIN <<b>> = {1} /\ <<b>>[1] = b
  OBVIOUS
<1>2. Cardinality(DOMAIN <<b>>) = 1
  BY <1>1, FS_Singleton
<1>3. QED
  BY <1>1, <1>2 DEF Marked

LEMMA NothingMarked == ~Marked(NoText)
BY DEF Marked, NoText

\* One more mark.
LEMMA MarkedAppend ==
    ASSUME NEW text \in Seq(BOOLEAN), NEW b \in BOOLEAN
    PROVE  Marked(Append(text, b)) <=> Marked(text) \/ b
<1>1. /\ DOMAIN Append(text, b) = 1..(Len(text) + 1) /\ DOMAIN text = 1..Len(text)
      /\ Len(text) \in Nat
  BY AppendProperties, LenProperties
<1>2. /\ \A k \in 1..Len(text) : Append(text, b)[k] = text[k]
      /\ Append(text, b)[Len(text) + 1] = b
  BY AppendProperties
<1>3. ASSUME Marked(Append(text, b)) PROVE Marked(text) \/ b
  <2>1. PICK k \in 1..(Len(text) + 1) : Append(text, b)[k]
    BY <1>1, <1>3 DEF Marked
  <2>2. CASE k = Len(text) + 1
    BY <1>2, <2>1, <2>2
  <2>3. CASE k # Len(text) + 1
    <3>1. k \in 1..Len(text)
      BY <1>1, <2>3
    <3>2. QED
      BY <1>1, <1>2, <2>1, <3>1 DEF Marked
  <2>4. QED
    BY <2>2, <2>3
<1>4. ASSUME Marked(text) PROVE Marked(Append(text, b))
  <2>1. PICK k \in 1..Len(text) : text[k]
    BY <1>1, <1>4 DEF Marked
  <2>2. k \in 1..(Len(text) + 1)
    BY <1>1
  <2>3. QED
    BY <1>1, <1>2, <2>1, <2>2 DEF Marked
<1>5. ASSUME b PROVE Marked(Append(text, b))
  <2>1. Len(text) + 1 \in 1..(Len(text) + 1)
    BY <1>1
  <2>2. QED
    BY <1>1, <1>2, <1>5, <2>1 DEF Marked
<1>6. QED
  BY <1>3, <1>4, <1>5

\* The marks of the output, and of the output with one piece more.
LEMMA RawOutputType ==
    ASSUME NEW pieces \in Seq(Pieces)
    PROVE  /\ RawOutput(pieces) \in Seq(BOOLEAN) /\ Len(RawOutput(pieces)) = Len(pieces)
           /\ DOMAIN pieces = 1..Len(pieces)
           /\ \A k \in 1..Len(pieces) : RawOutput(pieces)[k] = pieces[k].marked
<1>1. DOMAIN pieces = 1..Len(pieces) /\ Len(pieces) \in Nat
  BY LenProperties
<1>2. \A k \in 1..Len(pieces) : pieces[k] \in Pieces
  BY ElementOfSeq
<1>3. \A k \in 1..Len(pieces) : pieces[k].marked \in BOOLEAN
  BY <1>2 DEF Pieces
<1>4. RawOutput(pieces) = [k \in 1..Len(pieces) |-> pieces[k].marked]
  BY <1>1 DEF RawOutput
<1>5. RawOutput(pieces) \in [1..Len(pieces) -> BOOLEAN]
  BY <1>3, <1>4
<1>6. RawOutput(pieces) \in Seq(BOOLEAN)
  BY <1>1, <1>5, SeqDef
<1>7. Len(RawOutput(pieces)) = Len(pieces)
  BY <1>1, <1>5, <1>6, LenProperties
<1>8. QED
  BY <1>1, <1>4, <1>6, <1>7

LEMMA RawOutputAppend ==
    ASSUME NEW pieces \in Seq(Pieces), NEW piece \in Pieces
    PROVE  Marked(RawOutput(Append(pieces, piece))) <=> Marked(RawOutput(pieces)) \/ piece.marked
<1> DEFINE more == Append(pieces, piece)
<1>1. piece.marked \in BOOLEAN
  BY DEF Pieces
<1>2. /\ more \in Seq(Pieces) /\ Len(more) = Len(pieces) + 1 /\ Len(pieces) \in Nat
      /\ \A k \in 1..Len(pieces) : more[k] = pieces[k]
      /\ more[Len(pieces) + 1] = piece
  BY AppendProperties, LenProperties
<1> HIDE DEF more
<1>3. /\ RawOutput(pieces) \in Seq(BOOLEAN) /\ Len(RawOutput(pieces)) = Len(pieces)
      /\ \A k \in 1..Len(pieces) : RawOutput(pieces)[k] = pieces[k].marked
  BY RawOutputType
<1>4. /\ RawOutput(more) \in Seq(BOOLEAN) /\ Len(RawOutput(more)) = Len(pieces) + 1
      /\ \A k \in 1..(Len(pieces) + 1) : RawOutput(more)[k] = more[k].marked
  BY <1>2, RawOutputType
<1>5. DOMAIN RawOutput(more) = 1..(Len(pieces) + 1) /\ DOMAIN RawOutput(pieces) = 1..Len(pieces)
  BY <1>3, <1>4, LenProperties
<1>6. ASSUME Marked(RawOutput(more)) PROVE Marked(RawOutput(pieces)) \/ piece.marked
  <2>1. PICK k \in 1..(Len(pieces) + 1) : RawOutput(more)[k]
    BY <1>5, <1>6 DEF Marked
  <2>2. CASE k = Len(pieces) + 1
    BY <1>2, <1>4, <2>1, <2>2
  <2>3. CASE k # Len(pieces) + 1
    <3>1. k \in 1..Len(pieces)
      BY <1>2, <2>3
    <3>2. RawOutput(pieces)[k]
      BY <1>2, <1>3, <1>4, <2>1, <3>1
    <3>3. QED
      BY <1>5, <3>1, <3>2 DEF Marked
  <2>4. QED
    BY <2>2, <2>3
<1>7. ASSUME Marked(RawOutput(pieces)) PROVE Marked(RawOutput(more))
  <2>1. PICK k \in 1..Len(pieces) : RawOutput(pieces)[k]
    BY <1>5, <1>7 DEF Marked
  <2>2. k \in 1..(Len(pieces) + 1)
    BY <1>2
  <2>3. RawOutput(more)[k]
    BY <1>2, <1>3, <1>4, <2>1, <2>2
  <2>4. QED
    BY <1>5, <2>2, <2>3 DEF Marked
<1>8. ASSUME piece.marked PROVE Marked(RawOutput(more))
  <2>1. Len(pieces) + 1 \in 1..(Len(pieces) + 1)
    BY <1>2
  <2>2. RawOutput(more)[Len(pieces) + 1]
    BY <1>2, <1>4, <1>8, <2>1
  <2>3. QED
    BY <1>5, <2>1, <2>2 DEF Marked
<1>9. QED
  BY <1>6, <1>7, <1>8 DEF more

\* The buffer keeps the end of what it is given, with the last piece.
LEMMA LastPiecesKeepTheEnd ==
    ASSUME NEW text \in Seq(BOOLEAN), NEW b \in BOOLEAN
    PROVE  LET kept == LastPieces(Append(text, b))
           IN  /\ kept \in Seq(BOOLEAN)
               /\ Len(kept) <= MaxBuffer /\ Len(kept) <= Len(text) + 1
               /\ Marked(kept) => Marked(text) \/ b
               /\ b => Marked(kept)
<1> DEFINE all == Append(text, b)
           n == Len(text) + 1
           from == IF n > MaxBuffer THEN n - MaxBuffer + 1 ELSE 1
           kept == SubSeq(all, from, n)
<1>1. /\ all \in Seq(BOOLEAN) /\ Len(all) = n /\ Len(text) \in Nat /\ n \in Nat /\ n >= 1
      /\ all[n] = b /\ (Marked(all) <=> Marked(text) \/ b)
  BY AppendProperties, LenProperties, MarkedAppend
<1>2. LastPieces(all) = kept
  BY <1>1 DEF LastPieces
<1> HIDE DEF all
<1>3. MaxBuffer \in Nat /\ MaxBuffer >= 1
  BY LoopAssumption
<1>4. from \in Int /\ from >= 1 /\ from <= n /\ n - from + 1 <= MaxBuffer /\ n - from + 1 <= n
  <2>1. n \in Int /\ n >= 1
    BY <1>1
  <2> HIDE DEF n
  <2>2. CASE n > MaxBuffer
    BY <1>3, <2>1, <2>2
  <2>3. CASE ~(n > MaxBuffer)
    BY <1>3, <2>1, <2>3
  <2>4. QED
    BY <2>2, <2>3
<1> HIDE DEF n, from
<1>5. \A i \in from..n : all[i] \in BOOLEAN
  <2>1. \A i \in from..n : i \in 1..n
    BY <1>1, <1>4
  <2>2. QED
    BY <1>1, <2>1, ElementOfSeq
<1>6. /\ kept \in Seq(BOOLEAN) /\ Len(kept) = n - from + 1
      /\ \A i \in 1..(n - from + 1) : kept[i] = all[from + i - 1]
  BY <1>1, <1>4, <1>5, SubSeqProperties
<1> HIDE DEF kept
<1>7. DOMAIN kept = 1..(n - from + 1) /\ DOMAIN all = 1..n
  BY <1>1, <1>6, LenProperties
<1>8. ASSUME Marked(kept) PROVE Marked(all)
  <2>1. PICK i \in 1..(n - from + 1) : kept[i]
    BY <1>7, <1>8 DEF Marked
  <2>2. from + i - 1 \in 1..n
    BY <1>1, <1>4
  <2>3. QED
    BY <1>6, <1>7, <2>1, <2>2 DEF Marked
<1>9. ASSUME b PROVE Marked(kept)
  <2>1. n - from + 1 \in 1..(n - from + 1) /\ from + (n - from + 1) - 1 = n
    BY <1>1, <1>4
  <2>2. kept[n - from + 1] = b
    BY <1>1, <1>6, <2>1
  <2>3. QED
    BY <1>7, <1>9, <2>1, <2>2 DEF Marked
<1>10. Len(kept) <= MaxBuffer /\ Len(kept) <= Len(text) + 1
  BY <1>4, <1>6 DEF n
<1>11. QED
  BY <1>1, <1>2, <1>6, <1>8, <1>9, <1>10 DEF all

\* The pieces of one part: finitely many, marked only if the output is.
LEMMA PlacesType ==
    ASSUME said \in Seq(Pieces), NEW part
    PROVE  /\ IsFiniteSet(Places(part)) /\ Cardinality(Places(part)) \in Nat
           /\ Places(part) \subseteq 1..Len(said)
           /\ Marked(Segment(part)) => Marked(RawOutput(said))
           /\ Marked(Segment(part)) <=> \E k \in Places(part) : said[k].marked
           /\ Segment(part) = NoText <=> Places(part) = {}
<1>1. DOMAIN said = 1..Len(said) /\ Len(said) \in Nat
  BY LenProperties
<1>2. Places(part) \subseteq 1..Len(said)
  BY <1>1 DEF Places
<1>3. IsFiniteSet(1..Len(said))
  BY <1>1, FS_Interval
<1>4. IsFiniteSet(Places(part)) /\ Cardinality(Places(part)) \in Nat
  BY <1>2, <1>3, FS_Subset, FS_CardinalityType
<1>5. /\ DOMAIN Segment(part) = Places(part)
      /\ \A k \in Places(part) : Segment(part)[k] = said[k].marked
  BY DEF Segment
<1>6. Marked(Segment(part)) <=> \E k \in Places(part) : said[k].marked
  BY <1>5 DEF Marked
<1>7. Marked(Segment(part)) => Marked(RawOutput(said))
  <2>1. SUFFICES ASSUME NEW k \in Places(part), said[k].marked PROVE Marked(RawOutput(said))
    BY <1>6
  <2>2. k \in DOMAIN RawOutput(said) /\ RawOutput(said)[k] = said[k].marked
    BY <1>1, <1>2 DEF RawOutput
  <2>3. QED
    BY <2>1, <2>2 DEF Marked
<1>8. Segment(part) = NoText <=> Places(part) = {}
  <2>1. DOMAIN NoText = {}
    BY DEF NoText
  <2>2. Segment(part) = NoText => Places(part) = {}
    BY <1>5, <2>1
  <2>3. ASSUME Places(part) = {} PROVE Segment(part) = NoText
    BY <2>3 DEF Segment, NoText
  <2>4. QED
    BY <2>2, <2>3
<1>9. QED
  BY <1>2, <1>4, <1>6, <1>7, <1>8

\* A piece more: the places of its part get one more, those of the others stay.
LEMMA PlacesAppend ==
    ASSUME said \in Seq(Pieces), NEW piece \in Pieces, said' = Append(said, piece), NEW part
    PROVE  /\ said' \in Seq(Pieces) /\ Len(said') = Len(said) + 1 /\ Len(said) \in Nat
           /\ said'[Len(said')] = piece
           /\ \A k \in 1..Len(said) : said'[k] = said[k]
           /\ \A k \in Places(part)' : k # Len(said') => k \in Places(part) /\ said'[k] = said[k]
           /\ Len(said') \in Places(part)' <=> piece.part = part
           /\ Cardinality(Places(part)) <= Cardinality(Places(part)')
<1>1. /\ said' \in Seq(Pieces) /\ Len(said') = Len(said) + 1 /\ Len(said) \in Nat
      /\ said'[Len(said')] = piece
      /\ \A k \in 1..Len(said) : said'[k] = said[k]
  BY AppendProperties, LenProperties
<1>2. DOMAIN said = 1..Len(said) /\ DOMAIN said' = 1..(Len(said) + 1)
  BY <1>1, LenProperties
<1>3. Places(part)' = {k \in DOMAIN said' : said'[k].part = part}
  BY DEF Places
<1>4. \A k \in Places(part)' : k # Len(said') => k \in Places(part) /\ said'[k] = said[k]
  <2>1. SUFFICES ASSUME NEW k \in 1..(Len(said) + 1), said'[k].part = part, k # Len(said')
                 PROVE  k \in Places(part) /\ said'[k] = said[k]
    BY <1>2, <1>3
  <2>2. k \in 1..Len(said)
    BY <1>1, <2>1
  <2>3. QED
    BY <1>1, <1>2, <2>1, <2>2 DEF Places
<1>5. Len(said') \in Places(part)' <=> piece.part = part
  <2>1. Len(said') \in DOMAIN said'
    BY <1>1, <1>2
  <2>2. QED
    BY <1>1, <1>3, <2>1
<1>6. Places(part) \subseteq Places(part)'
  <2>1. SUFFICES ASSUME NEW k \in 1..Len(said), said[k].part = part
                 PROVE  k \in Places(part)'
    BY <1>2 DEF Places
  <2>2. k \in 1..(Len(said) + 1)
    BY <1>1
  <2>3. QED
    BY <1>1, <1>2, <1>3, <2>1, <2>2
<1>7. IsFiniteSet(Places(part)')
  <2>1. IsFiniteSet(1..(Len(said) + 1))
    BY <1>1, FS_Interval
  <2>2. Places(part)' \subseteq 1..(Len(said) + 1)
    BY <1>2, <1>3
  <2>3. QED
    BY <2>1, <2>2, FS_Subset
<1>8. Cardinality(Places(part)) <= Cardinality(Places(part)')
  BY <1>6, <1>7, FS_Subset
<1>9. QED
  BY <1>1, <1>4, <1>5, <1>8

-----------------------------------------------------------------------------
(* Conditions *)

\* A condition is satisfied only by a mark, and unless it looks for equality by any mark.
LEMMA SatisfiesSound ==
    ASSUME NEW text
    PROVE  /\ Satisfies(text) => Marked(text)
           /\ condition.match # "equals" /\ Marked(text) => Satisfies(text)
BY DEF Satisfies

LEMMA SatisfiedByOne ==
    ASSUME NEW b \in BOOLEAN
    PROVE  Satisfies(<<b>>) <=> b
BY MarkedSingleton DEF Satisfies

LEMMA ConditionForms ==
    ASSUME condition \in Conditions
    PROVE  /\ condition.match \in {"contains", "equals", "regex"}
           /\ condition.target \in {"response", "reasoning", "tool_output", "context"}
BY DEF Conditions, Parts

\* What satisfies a condition at an event, by its target; and what surely does.
LEMMA InEventSound ==
    ASSUME condition \in Conditions, NEW raw, NEW output, NEW held \in BOOLEAN
    PROVE  /\ InEvent(raw, output, held) =>
                 /\ condition.target = "context" => held
                 /\ condition.target = "tool_output" => Marked(output)
                 /\ condition.target \in {"response", "reasoning"} => Marked(raw)
           /\ LooksAtText /\ Marked(raw) => InEvent(raw, output, held)
           /\ condition.target = "tool_output" /\ Satisfies(output) => InEvent(raw, output, held)
<1>1. CASE condition.target = "context"
  <2>1. InEvent(raw, output, held) <=> Satisfies(<<held>>)
    BY <1>1 DEF InEvent
  <2>2. QED
    BY <1>1, <2>1, SatisfiedByOne DEF LooksAtText
<1>2. CASE condition.target = "tool_output"
  <2>1. InEvent(raw, output, held) <=> Satisfies(output)
    BY <1>2 DEF InEvent
  <2>2. QED
    BY <1>2, <2>1, SatisfiesSound DEF LooksAtText
<1>3. CASE condition.target = "response"
  <2>1. InEvent(raw, output, held) <=> Satisfies(raw)
    BY <1>3 DEF InEvent
  <2>2. QED
    BY <1>3, <2>1, SatisfiesSound DEF LooksAtText
<1>4. CASE condition.target = "reasoning" /\ condition.match = "equals"
  <2>1. InEvent(raw, output, held) <=> Satisfies(NoText)
    BY <1>4 DEF InEvent
  <2>2. QED
    BY <1>4, <2>1, SatisfiesSound, NothingMarked DEF LooksAtText
<1>5. CASE condition.target = "reasoning" /\ condition.match # "equals"
  <2>1. InEvent(raw, output, held) <=> Satisfies(raw)
    BY <1>5 DEF InEvent
  <2>2. QED
    BY <1>5, <2>1, SatisfiesSound DEF LooksAtText
<1>6. QED
  BY <1>1, <1>2, <1>3, <1>4, <1>5, ConditionForms

\* What satisfies a condition in the result of a step, by its kind.
LEMMA InResultForms ==
    ASSUME condition \in Conditions, NEW result, NEW held \in BOOLEAN
    PROVE  /\ condition.target = "context" => (InResult(result, held) <=> held)
           /\ condition.target # "context" /\ condition.match = "contains"
                 => (InResult(result, held) <=> Marked(result.raw))
           /\ condition.target # "context" /\ condition.match # "contains"
                 => (InResult(result, held) => Marked(result[condition.target]))
           /\ condition.target # "context" /\ condition.match = "regex"
                 => (InResult(result, held) <=> Marked(result[condition.target]))
<1>1. CASE condition.target = "context"
  <2>1. InResult(result, held) <=> Satisfies(<<held>>)
    BY <1>1 DEF InResult
  <2>2. QED
    BY <1>1, <2>1, SatisfiedByOne
<1>2. CASE condition.target # "context" /\ condition.match = "contains"
  <2>1. InResult(result, held) <=> Satisfies(result.raw)
    BY <1>2 DEF InResult
  <2>2. QED
    BY <1>2, <2>1, SatisfiesSound
<1>3. CASE condition.target # "context" /\ condition.match # "contains"
  <2>1. InResult(result, held) <=> Satisfies(result[condition.target])
    BY <1>3 DEF InResult
  <2>2. QED
    BY <1>3, <2>1, SatisfiesSound
<1>4. QED
  BY <1>1, <1>2, <1>3

\* Handling an event goes on when the condition is not due or not satisfied, and ends the loop
\* otherwise.
LEMMA HandleForms ==
    ASSUME NEW event, NEW raw, NEW output, NEW next, Handle(event, raw, output, next)
    PROVE  \/ /\ EvaluatedAt(event) /\ InEvent(raw, output, value')
              /\ pc' = "done" /\ ended' = "condition"
           \/ /\ ~(EvaluatedAt(event) /\ InEvent(raw, output, value'))
              /\ pc' = next /\ ended' = ended
BY DEF Handle, End

-----------------------------------------------------------------------------
(* Each action keeps the invariant *)

LEMMA NumbersOfTheConfig ==
    /\ MaxIterations \in Nat /\ MaxBuffer \in Nat /\ MaxBuffer >= 1
    /\ Threshold \in Nat /\ MaxVersions \in Nat /\ MaxPieces \in Nat
BY LoopAssumption

LEMMA InitInv == Init => LoopInv
<1> SUFFICES ASSUME Init PROVE LoopInv
  OBVIOUS
<1>1. /\ partial = <<>> /\ said = <<>> /\ outputs = <<>> /\ pc = "top" /\ ended = "no"
      /\ Len(partial) = 0 /\ Len(said) = 0 /\ Len(outputs) = 0
      /\ partial \in Seq(BOOLEAN) /\ said \in Seq(Pieces) /\ outputs \in Seq(BOOLEAN)
  BY DEF Init, NoText
<1>2. Calls \in Nat
  BY <1>1, PlacesType DEF Calls
<1>3. 0 <= Smaller(MaxBuffer, MaxPieces)
  BY NumbersOfTheConfig DEF Smaller
<1>4. TypeOK
  <2>1. /\ Len(partial) <= Smaller(MaxBuffer, MaxPieces) /\ Len(said) <= MaxPieces
        /\ Len(outputs) <= Calls
    BY <1>1, <1>2, <1>3, NumbersOfTheConfig
  <2>2. /\ partial \in Seq(BOOLEAN) /\ said \in Seq(Pieces) /\ outputs \in Seq(BOOLEAN)
        /\ pc = "top" /\ ended = "no"
    BY <1>1
  <2>3. iterationCount \in 0..MaxIterations /\ versions \in 0..(Threshold + 1)
    BY NumbersOfTheConfig DEF Init
  <2>4. /\ condition \in Conditions /\ accumulates \in BOOLEAN /\ breakOnError \in BOOLEAN
        /\ healthStops \in BOOLEAN /\ printed \in BOOLEAN /\ failed \in BOOLEAN
        /\ value \in BOOLEAN
    BY DEF Init
  <2>5. QED
    BY <2>1, <2>2, <2>3, <2>4 DEF TypeOK
<1>5. PhaseInv /\ SeenInv /\ StopsForThisStep
  BY <1>1 DEF PhaseInv, SeenInv, ChunksSeen, OutputSeen, ResultsSeen, CallsSeen, Busy,
              StopsForThisStep
<1>6. BufferInv
  BY <1>1, NothingMarked DEF Init, BufferInv, At, NoText
<1>7. QED
  BY <1>4, <1>5, <1>6 DEF LoopInv

\* An event ends the loop only for what the condition looks at, or hands the loop on.
LEMMA EventOutcome ==
    ASSUME LoopInv, pc # "done", UNCHANGED config, value' \in BOOLEAN,
           NEW event, NEW raw, NEW output, NEW next, Handle(event, raw, output, next),
           Marked(raw) => Marked(RawOutput(said')),
           Marked(output) => printed' \/ Marked(outputs') \/ Marked(RawOutput(said'))
    PROVE  /\ StopsForThisStep'
           /\ ended' \in {"no", "condition"} /\ (ended' # "no" => pc' = "done")
           /\ \/ pc' = "done"
              \/ pc' = next /\ ~(EvaluatedAt(event) /\ InEvent(raw, output, value'))
<1>1. condition \in Conditions /\ ended = "no" /\ condition' = condition
  BY DEF LoopInv, TypeOK, PhaseInv, config
<1>2. CASE /\ InEvent(raw, output, value')
           /\ pc' = "done" /\ ended' = "condition"
  <2>1. /\ condition.target = "context" => value'
        /\ condition.target = "tool_output" => Marked(output)
        /\ condition.target \in {"response", "reasoning"} => Marked(raw)
    BY <1>1, <1>2, InEventSound
  <2>2. StopsForThisStep'
    <3>1. CASE condition.target = "context"
      BY <1>1, <2>1, <3>1 DEF StopsForThisStep
    <3>2. CASE condition.target = "tool_output"
      BY <1>1, <2>1, <3>2 DEF StopsForThisStep
    <3>3. CASE condition.target \in {"response", "reasoning"}
      BY <1>1, <2>1, <3>3 DEF StopsForThisStep
    <3>4. QED
      BY <1>1, <3>1, <3>2, <3>3, ConditionForms
  <2>3. QED
    BY <1>2, <2>2
<1>3. CASE /\ ~(EvaluatedAt(event) /\ InEvent(raw, output, value'))
           /\ pc' = next /\ ended' = ended
  BY <1>1, <1>3 DEF StopsForThisStep
<1>4. QED
  BY <1>2, <1>3, HandleForms

LEMMA NextStepInv ==
    ASSUME LoopInv, NextStep
    PROVE  LoopInv'
<1>1. TypeOK /\ PhaseInv /\ BufferInv /\ SeenInv
  BY DEF LoopInv
<1>2. pc = "top" /\ UNCHANGED <<config, iterationCount, value, versions>>
  BY DEF NextStep
<1>3. CASE iterationCount >= MaxIterations
  <2>1. pc' = "done" /\ ended' = "limit" /\ UNCHANGED <<partial, said, outputs, printed, failed>>
    BY <1>3 DEF NextStep, End
  <2>2. Calls' = Calls
    BY <2>1 DEF Calls, Places
  <2>3. TypeOK'
    BY <1>1, <1>2, <2>1, <2>2 DEF TypeOK, config
  <2>4. PhaseInv' /\ SeenInv' /\ StopsForThisStep'
    BY <2>1 DEF PhaseInv, SeenInv, ChunksSeen, OutputSeen, ResultsSeen, CallsSeen, Busy,
                StopsForThisStep
  <2>5. BufferInv'
    BY <1>1, <1>2, <2>1 DEF BufferInv, At, config
  <2>6. QED
    BY <2>3, <2>4, <2>5 DEF LoopInv
<1>4. CASE ~(iterationCount >= MaxIterations)
  <2>1. /\ pc' = "streaming" /\ ended' = ended /\ printed' = FALSE /\ failed' = FALSE
        /\ partial' = <<>> /\ said' = <<>> /\ outputs' = <<>>
        /\ Len(partial') = 0 /\ Len(said') = 0 /\ Len(outputs') = 0
        /\ partial' \in Seq(BOOLEAN) /\ said' \in Seq(Pieces) /\ outputs' \in Seq(BOOLEAN)
    BY <1>4 DEF NextStep, NoText
  <2>2. ended = "no"
    BY <1>1, <1>2 DEF PhaseInv
  <2>3. Places("tool_output")' = {}
    BY <2>1 DEF Places
  <2>4. Calls' = 0
    BY <2>3, FS_EmptySet DEF Calls
  <2>5. 0 <= Smaller(MaxBuffer, MaxPieces)
    BY NumbersOfTheConfig DEF Smaller
  <2>6. TypeOK'
    <3>1. /\ Len(partial') <= Smaller(MaxBuffer, MaxPieces) /\ Len(said') <= MaxPieces
          /\ Len(outputs') <= Calls'
      BY <2>1, <2>4, <2>5, NumbersOfTheConfig
    <3>2. /\ partial' \in Seq(BOOLEAN) /\ said' \in Seq(Pieces) /\ outputs' \in Seq(BOOLEAN)
          /\ pc' = "streaming" /\ ended' = ended /\ printed' \in BOOLEAN /\ failed' \in BOOLEAN
      BY <2>1
    <3>3. QED
      BY <1>1, <1>2, <3>1, <3>2 DEF TypeOK, config
  <2>7. ~Marked(RawOutput(said')) /\ ~Marked(outputs') /\ ~Marked(partial')
    BY <2>1 DEF Marked, RawOutput
  <2>8. PhaseInv'
    BY <1>1, <1>2, <1>4, <2>1, <2>2, NumbersOfTheConfig DEF PhaseInv, TypeOK
  <2>9. BufferInv'
    BY <1>1, <1>2, <2>1, <2>7 DEF BufferInv, At, config
  <2>10. SeenInv'
    BY <2>1, <2>3, <2>7 DEF SeenInv, ChunksSeen, OutputSeen, ResultsSeen, CallsSeen
  <2>11. StopsForThisStep'
    BY <2>1, <2>2 DEF StopsForThisStep
  <2>12. QED
    BY <2>6, <2>8, <2>9, <2>10, <2>11 DEF LoopInv
<1>5. QED
  BY <1>3, <1>4

\* The context moves to some value.
LEMMA ContextMovesType ==
    ASSUME LoopInv, ContextMoves
    PROVE  value' \in BOOLEAN
BY DEF ContextMoves, LoopInv, TypeOK

LEMMA ChunkInv ==
    ASSUME LoopInv, Chunk
    PROVE  LoopInv'
<1>1. TypeOK /\ PhaseInv /\ BufferInv /\ SeenInv
  BY DEF LoopInv
<1>2. PICK piece \in Pieces :
        /\ MayHold(Parts, piece.marked)
        /\ said' = Append(said, piece)
        /\ partial' = IF accumulates THEN LastPieces(Append(partial, piece.marked)) ELSE partial
        /\ ContextMoves
        /\ Handle("llm_chunk", partial', NoText,
                  IF piece.part = "tool_output" THEN "detected" ELSE "streaming")
  BY DEF Chunk
<1>3. /\ pc = "streaming" /\ Len(said) < MaxPieces
      /\ UNCHANGED <<config, iterationCount, outputs, printed, failed, versions>>
  BY DEF Chunk
<1>4. /\ said \in Seq(Pieces) /\ partial \in Seq(BOOLEAN) /\ piece.marked \in BOOLEAN
      /\ piece.part \in Parts
  BY <1>1 DEF TypeOK, Pieces
<1>5. /\ said' \in Seq(Pieces) /\ Len(said') = Len(said) + 1 /\ Len(said) \in Nat
      /\ said'[Len(said')] = piece
      /\ \A k \in Places("tool_output")' :
            k # Len(said') => k \in Places("tool_output") /\ said'[k] = said[k]
      /\ Len(said') \in Places("tool_output")' <=> piece.part = "tool_output"
      /\ Calls <= Calls'
  BY <1>2, <1>4, PlacesAppend DEF Calls
<1>6. Marked(RawOutput(said')) <=> Marked(RawOutput(said)) \/ piece.marked
  BY <1>2, <1>4, RawOutputAppend
<1>7. /\ partial' \in Seq(BOOLEAN) /\ Len(partial') \in Nat
      /\ Len(partial') <= MaxBuffer /\ Len(partial') <= Len(said')
      /\ Marked(partial') => Marked(partial) \/ piece.marked
      /\ accumulates /\ piece.marked => Marked(partial')
  <2>1. /\ Len(partial) \in Nat /\ Len(partial) <= Len(said) /\ Len(partial) <= MaxBuffer
    BY <1>1, <1>4, LenProperties, NumbersOfTheConfig DEF TypeOK, BufferInv, Smaller
  <2>2. CASE accumulates
    <3>1. partial' = LastPieces(Append(partial, piece.marked))
      BY <1>2, <2>2
    <3>2. /\ partial' \in Seq(BOOLEAN)
          /\ Len(partial') <= MaxBuffer /\ Len(partial') <= Len(partial) + 1
          /\ Marked(partial') => Marked(partial) \/ piece.marked
          /\ piece.marked => Marked(partial')
      BY <1>4, <3>1, LastPiecesKeepTheEnd
    <3>3. Len(partial') \in Nat
      BY <3>2, LenProperties
    <3>4. Len(partial') <= Len(said')
      BY <1>5, <2>1, <3>2, <3>3
    <3>5. QED
      BY <3>2, <3>3, <3>4
  <2>3. CASE ~accumulates
    <3>1. partial' = partial
      BY <1>2, <2>3
    <3>2. Len(partial') <= Len(said')
      BY <1>5, <2>1, <3>1
    <3>3. QED
      BY <1>4, <2>1, <2>3, <3>1, <3>2
  <2>4. QED
    BY <2>2, <2>3
<1>8. value' \in BOOLEAN
  BY <1>2, ContextMovesType
<1>9. Marked(partial') => Marked(RawOutput(said'))
  BY <1>1, <1>6, <1>7 DEF BufferInv
<1> DEFINE next == IF piece.part = "tool_output" THEN "detected" ELSE "streaming"
<1>10. /\ StopsForThisStep'
       /\ ended' \in {"no", "condition"} /\ (ended' # "no" => pc' = "done")
       /\ \/ pc' = "done"
          \/ pc' = next /\ ~(EvaluatedAt("llm_chunk") /\ InEvent(partial', NoText, value'))
  <2>1. Handle("llm_chunk", partial', NoText, next)
    BY <1>2
  <2> HIDE DEF next
  <2>2. UNCHANGED config /\ pc # "done"
    BY <1>3
  <2>3. QED
    BY <1>8, <1>9, <2>1, <2>2, NothingMarked, EventOutcome
<1>11. TypeOK'
  <2>1. pc' \in {"streaming", "detected", "done"}
    BY <1>10
  <2>2. Len(said') <= MaxPieces /\ Len(partial') <= Smaller(MaxBuffer, MaxPieces)
    BY <1>3, <1>5, <1>7, NumbersOfTheConfig DEF Smaller
  <2>3. outputs' \in Seq(BOOLEAN) /\ Len(outputs') <= Calls'
    <3>1. Calls \in Nat
      BY <1>4, PlacesType DEF Calls
    <3>2. Calls' \in Nat
      <4>1. IsFiniteSet(Places("tool_output")')
        <5>1. Places("tool_output")' \subseteq DOMAIN said'
          BY DEF Places
        <5>2. DOMAIN said' = 1..Len(said')
          BY <1>5, LenProperties
        <5>3. IsFiniteSet(1..Len(said'))
          BY <1>5, FS_Interval
        <5>4. QED
          BY <5>1, <5>2, <5>3, FS_Subset
      <4>2. QED
        BY <4>1, FS_CardinalityType DEF Calls
    <3>3. Len(outputs) \in Nat /\ Len(outputs) <= Calls /\ outputs \in Seq(BOOLEAN)
      BY <1>1, LenProperties DEF TypeOK
    <3>4. outputs' = outputs
      BY <1>3
    <3>5. QED
      BY <1>5, <3>1, <3>2, <3>3, <3>4
  <2>4. ended' \in {"no", "limit", "condition", "error", "health", "no_input", "raised"}
    BY <1>10
  <2>5. QED
    BY <1>1, <1>3, <1>5, <1>7, <1>8, <2>1, <2>2, <2>3, <2>4 DEF TypeOK, config
<1>12. PhaseInv'
  <2>1. iterationCount < MaxIterations
    BY <1>1, <1>3 DEF PhaseInv, Busy
  <2>2. said' # <<>>
    BY <1>5
  <2>3. QED
    BY <1>3, <1>10, <2>1, <2>2 DEF PhaseInv
<1>13. BufferInv'
  BY <1>1, <1>3, <1>7, <1>9 DEF BufferInv, At, config
<1>14. SeenInv'
  <2>1. condition' = condition /\ outputs' = outputs /\ printed' = printed
    BY <1>3 DEF config
  <2>2. CASE pc' = "done"
    BY <2>2 DEF SeenInv, ChunksSeen, OutputSeen, ResultsSeen, CallsSeen, Busy
  <2>3. CASE pc' = next /\ ~(EvaluatedAt("llm_chunk") /\ InEvent(partial', NoText, value'))
    <3>1. ChunksSeen'
      <4>1. SUFFICES ASSUME LooksAtText, At({"llm_chunk", "any_event"})
                     PROVE  ~Marked(RawOutput(said'))
        BY <2>1 DEF ChunksSeen, LooksAtText, At
      <4>2. EvaluatedAt("llm_chunk") /\ accumulates
        BY <1>1, <4>1 DEF EvaluatedAt, At, BufferInv
      <4>3. ~Marked(partial')
        BY <1>1, <1>8, <2>3, <4>1, <4>2, InEventSound DEF TypeOK
      <4>4. ~piece.marked
        BY <1>7, <4>2, <4>3
      <4>5. ~Marked(RawOutput(said))
        BY <1>1, <1>3, <4>1 DEF SeenInv, ChunksSeen, Busy
      <4>6. QED
        BY <1>6, <4>4, <4>5
    <3>2. OutputSeen'
      BY <2>3 DEF OutputSeen
    <3>3. ResultsSeen'
      BY <1>1, <1>3, <2>1 DEF SeenInv, ResultsSeen, Busy, At
    <3>4. CallsSeen'
      <4>1. SUFFICES ASSUME condition.target = "tool_output", At({"tool_detected", "any_event"}),
                            NEW k \in Places("tool_output")', pc' = "detected" => k # Len(said')
                     PROVE  ~said'[k].marked
        BY <2>1 DEF CallsSeen, At
      <4>2. k # Len(said')
        BY <1>5, <2>3, <4>1
      <4>3. k \in Places("tool_output") /\ said'[k] = said[k]
        BY <1>5, <4>1, <4>2
      <4>4. ~said[k].marked
        BY <1>1, <1>3, <4>1, <4>3 DEF SeenInv, CallsSeen, Busy
      <4>5. QED
        BY <4>3, <4>4
    <3>5. QED
      BY <3>1, <3>2, <3>3, <3>4 DEF SeenInv
  <2>4. QED
    BY <1>10, <2>2, <2>3
<1>15. QED
  BY <1>10, <1>11, <1>12, <1>13, <1>14 DEF LoopInv

\* What an event that leaves the output alone disturbs: what the tools have returned.
LEMMA OtherEventInv ==
    ASSUME LoopInv, Busy, value' \in BOOLEAN, UNCHANGED <<config, iterationCount, partial, said,
                                                         versions>>,
           outputs' \in Seq(BOOLEAN), Len(outputs') <= Calls,
           printed' \in BOOLEAN, failed' \in BOOLEAN,
           ended' \in {"no", "condition", "raised"}, ended' # "no" => pc' = "done",
           pc' \in {"done", "streaming", "executing"},
           StopsForThisStep', SeenInv'
    PROVE  LoopInv'
<1>1. TypeOK /\ PhaseInv /\ BufferInv
  BY DEF LoopInv
<1>2. Calls' = Calls
  BY DEF Calls, Places
<1>3. TypeOK'
  BY <1>1, <1>2 DEF TypeOK, config
<1>4. PhaseInv'
  BY <1>1 DEF PhaseInv
<1>5. BufferInv'
  BY <1>1 DEF BufferInv, At, config
<1>6. QED
  BY <1>3, <1>4, <1>5 DEF LoopInv

\* A loop that ends has nothing to remember.
LEMMA NothingSeenWhenIdle ==
    ASSUME pc' \in {"done", "top"}
    PROVE  SeenInv'
BY DEF SeenInv, ChunksSeen, OutputSeen, ResultsSeen, CallsSeen, Busy

LEMMA ToolDetectedInv ==
    ASSUME LoopInv, ToolDetected
    PROVE  LoopInv'
<1>1. TypeOK /\ PhaseInv /\ BufferInv /\ SeenInv
  BY DEF LoopInv
<1>2. /\ pc = "detected" /\ ContextMoves
      /\ Handle("tool_detected", partial, <<said[Len(said)].marked>>, "streaming")
      /\ UNCHANGED <<config, iterationCount, partial, said, outputs, printed, failed, versions>>
  BY DEF ToolDetected
<1>3. /\ said \in Seq(Pieces) /\ said # <<>> /\ DOMAIN said = 1..Len(said)
      /\ Len(said) \in 1..Len(said)
  <2>1. said \in Seq(Pieces) /\ said # <<>>
    BY <1>1, <1>2 DEF TypeOK, PhaseInv
  <2>2. Len(said) \in Nat /\ Len(said) # 0 /\ DOMAIN said = 1..Len(said)
    BY <2>1, LenProperties, EmptySeq
  <2>3. QED
    BY <2>1, <2>2
<1>4. PICK last \in BOOLEAN : last = said[Len(said)].marked
  <2>1. said[Len(said)] \in Pieces
    BY <1>3, ElementOfSeq
  <2>2. QED
    BY <2>1 DEF Pieces
<1>5. value' \in BOOLEAN
  BY <1>2, ContextMovesType
<1>6. last => Marked(RawOutput(said))
  <2>1. Len(said) \in DOMAIN RawOutput(said) /\ RawOutput(said)[Len(said)] = last
    BY <1>3, <1>4 DEF RawOutput
  <2>2. QED
    BY <2>1 DEF Marked
<1>7. /\ StopsForThisStep'
      /\ ended' \in {"no", "condition"} /\ (ended' # "no" => pc' = "done")
      /\ \/ pc' = "done"
         \/ /\ pc' = "streaming"
            /\ ~(EvaluatedAt("tool_detected") /\ InEvent(partial, <<last>>, value'))
  <2>1. Handle("tool_detected", partial, <<last>>, "streaming")
    BY <1>2, <1>4
  <2>2. Marked(partial) => Marked(RawOutput(said'))
    BY <1>1, <1>2 DEF BufferInv
  <2>3. Marked(<<last>>) => Marked(RawOutput(said'))
    BY <1>2, <1>6, MarkedSingleton
  <2>4. UNCHANGED config /\ pc # "done"
    BY <1>2
  <2>5. QED
    BY <1>5, <2>1, <2>2, <2>3, <2>4, EventOutcome
<1>8. SeenInv'
  <2>1. CASE pc' = "done"
    BY <2>1, NothingSeenWhenIdle
  <2>2. CASE /\ pc' = "streaming"
             /\ ~(EvaluatedAt("tool_detected") /\ InEvent(partial, <<last>>, value'))
    <3>1. condition' = condition /\ outputs' = outputs /\ printed' = printed /\ said' = said
      BY <1>2 DEF config
    <3>2. ChunksSeen' /\ OutputSeen' /\ ResultsSeen'
      BY <1>1, <1>2, <2>2, <3>1 DEF SeenInv, ChunksSeen, OutputSeen, ResultsSeen, Busy, At,
                                    LooksAtText
    <3>3. CallsSeen'
      <4>1. SUFFICES ASSUME condition.target = "tool_output", At({"tool_detected", "any_event"}),
                            NEW k \in Places("tool_output")
                     PROVE  ~said[k].marked
        BY <3>1 DEF CallsSeen, At, Places
      <4>2. CASE k # Len(said)
        BY <1>1, <1>2, <4>1, <4>2 DEF SeenInv, CallsSeen, Busy
      <4>3. CASE k = Len(said)
        <5>1. EvaluatedAt("tool_detected")
          BY <4>1 DEF EvaluatedAt, At
        <5>2. ~Satisfies(<<last>>)
          BY <1>1, <1>5, <2>2, <4>1, <5>1, InEventSound DEF TypeOK
        <5>3. QED
          BY <1>4, <4>3, <5>2, SatisfiedByOne
      <4>4. QED
        BY <4>2, <4>3
    <3>4. QED
      BY <3>2, <3>3 DEF SeenInv
  <2>3. QED
    BY <1>7, <2>1, <2>2
<1>9. /\ outputs' \in Seq(BOOLEAN) /\ Len(outputs') <= Calls
      /\ printed' \in BOOLEAN /\ failed' \in BOOLEAN
      /\ Busy /\ pc' \in {"done", "streaming", "executing"}
  BY <1>1, <1>2, <1>7 DEF TypeOK, Busy
<1>10. QED
  BY <1>2, <1>5, <1>7, <1>8, <1>9, OtherEventInv

LEMMA LLMCompleteInv ==
    ASSUME LoopInv, LLMComplete
    PROVE  LoopInv'
<1>1. TypeOK /\ PhaseInv /\ BufferInv /\ SeenInv
  BY DEF LoopInv
<1>2. /\ pc = "streaming" /\ ContextMoves
      /\ Handle("llm_complete", RawOutput(said), NoText, "executing")
      /\ UNCHANGED <<config, iterationCount, partial, said, outputs, printed, failed, versions>>
  BY DEF LLMComplete
<1>3. value' \in BOOLEAN
  BY <1>2, ContextMovesType
<1>4. /\ StopsForThisStep'
      /\ ended' \in {"no", "condition"} /\ (ended' # "no" => pc' = "done")
      /\ \/ pc' = "done"
         \/ /\ pc' = "executing"
            /\ ~(EvaluatedAt("llm_complete") /\ InEvent(RawOutput(said), NoText, value'))
  <2>1. Marked(RawOutput(said)) => Marked(RawOutput(said'))
    BY <1>2
  <2>2. UNCHANGED config /\ pc # "done"
    BY <1>2
  <2>3. QED
    BY <1>2, <1>3, <2>1, <2>2, NothingMarked, EventOutcome
<1>5. SeenInv'
  <2>1. CASE pc' = "done"
    BY <2>1, NothingSeenWhenIdle
  <2>2. CASE /\ pc' = "executing"
             /\ ~(EvaluatedAt("llm_complete") /\ InEvent(RawOutput(said), NoText, value'))
    <3>1. condition' = condition /\ outputs' = outputs /\ printed' = printed /\ said' = said
      BY <1>2 DEF config
    <3>2. ChunksSeen' /\ ResultsSeen' /\ CallsSeen'
      BY <1>1, <1>2, <2>2, <3>1 DEF SeenInv, ChunksSeen, CallsSeen, ResultsSeen, Busy, At,
                                    LooksAtText, Places
    <3>3. OutputSeen'
      <4>1. SUFFICES ASSUME LooksAtText,
                            \/ At({"llm_complete"})
                            \/ At({"auto"}) /\ condition.match = "contains"
                     PROVE  ~Marked(RawOutput(said))
        BY <3>1 DEF OutputSeen, At, LooksAtText
      <4>2. EvaluatedAt("llm_complete")
        BY <4>1 DEF EvaluatedAt, At, LooksAtText
      <4>3. QED
        BY <1>1, <1>3, <2>2, <4>1, <4>2, InEventSound DEF TypeOK
    <3>4. QED
      BY <3>2, <3>3 DEF SeenInv
  <2>3. QED
    BY <1>4, <2>1, <2>2
<1>6. /\ outputs' \in Seq(BOOLEAN) /\ Len(outputs') <= Calls
      /\ printed' \in BOOLEAN /\ failed' \in BOOLEAN
      /\ Busy /\ pc' \in {"done", "streaming", "executing"}
  BY <1>1, <1>2, <1>4 DEF TypeOK, Busy
<1>7. QED
  BY <1>2, <1>3, <1>4, <1>5, <1>6, OtherEventInv

LEMMA ToolFinishedInv ==
    ASSUME LoopInv, ToolFinished
    PROVE  LoopInv'
<1>1. TypeOK /\ PhaseInv /\ BufferInv /\ SeenInv
  BY DEF LoopInv
<1>2. PICK marked \in BOOLEAN, ok \in BOOLEAN :
        /\ MayHold({"tool_output"}, marked) /\ (marked => ok)
        /\ outputs' = Append(outputs, marked)
        /\ failed' = (failed \/ ~ok)
        /\ ContextMoves
        /\ Handle("tool_finished", partial, <<marked>>, pc)
  BY DEF ToolFinished
<1>3. /\ pc \in {"streaming", "executing"} /\ Len(outputs) < Calls
      /\ UNCHANGED <<config, iterationCount, partial, said, printed, versions>>
  BY DEF ToolFinished, InStep
<1>4. value' \in BOOLEAN
  BY <1>2, ContextMovesType
<1>5. /\ outputs \in Seq(BOOLEAN) /\ outputs' \in Seq(BOOLEAN)
      /\ Len(outputs) \in Nat /\ Len(outputs') = Len(outputs) + 1
      /\ Marked(outputs') <=> Marked(outputs) \/ marked
  BY <1>1, <1>2, AppendProperties, LenProperties, MarkedAppend DEF TypeOK
<1>6. PICK phase \in {"streaming", "executing"} : phase = pc
  BY <1>3
<1>7. /\ StopsForThisStep'
      /\ ended' \in {"no", "condition"} /\ (ended' # "no" => pc' = "done")
      /\ \/ pc' = "done"
         \/ /\ pc' = phase
            /\ ~(EvaluatedAt("tool_finished") /\ InEvent(partial, <<marked>>, value'))
  <2>1. Handle("tool_finished", partial, <<marked>>, phase)
    BY <1>2, <1>6
  <2>2. Marked(partial) => Marked(RawOutput(said'))
    BY <1>1, <1>3 DEF BufferInv
  <2>3. Marked(<<marked>>) => Marked(outputs')
    BY <1>5, MarkedSingleton
  <2>4. UNCHANGED config /\ pc # "done"
    BY <1>3
  <2>5. QED
    BY <1>4, <2>1, <2>2, <2>3, <2>4, EventOutcome
<1>8. SeenInv'
  <2>1. CASE pc' = "done"
    BY <2>1, NothingSeenWhenIdle
  <2>2. CASE /\ pc' = phase
             /\ ~(EvaluatedAt("tool_finished") /\ InEvent(partial, <<marked>>, value'))
    <3>1. condition' = condition /\ said' = said /\ pc' = pc /\ printed' = printed
      BY <1>3, <1>6, <2>2 DEF config
    <3>2. ChunksSeen' /\ OutputSeen' /\ CallsSeen'
      BY <1>1, <3>1 DEF SeenInv, ChunksSeen, OutputSeen, CallsSeen, Busy, At, LooksAtText, Places
    <3>3. ResultsSeen'
      <4>1. SUFFICES ASSUME condition.target = "tool_output", At({"tool_finished", "any_event"})
                     PROVE  ~Marked(outputs')
        BY <1>1, <1>3, <3>1 DEF SeenInv, ResultsSeen, At, Busy
      <4>2. EvaluatedAt("tool_finished")
        BY <4>1 DEF EvaluatedAt, At
      <4>3. ~Satisfies(<<marked>>)
        BY <1>1, <1>4, <2>2, <4>1, <4>2, InEventSound DEF TypeOK
      <4>4. ~marked
        BY <4>3, SatisfiedByOne
      <4>5. ~Marked(outputs)
        BY <1>1, <1>3, <4>1 DEF SeenInv, ResultsSeen, Busy
      <4>6. QED
        BY <1>5, <4>4, <4>5
    <3>4. QED
      BY <3>2, <3>3 DEF SeenInv
  <2>3. QED
    BY <1>7, <2>1, <2>2
<1>9. /\ Len(outputs') <= Calls
      /\ printed' \in BOOLEAN /\ failed' \in BOOLEAN
      /\ Busy /\ pc' \in {"done", "streaming", "executing"}
  <2>1. Calls \in Nat
    BY <1>1, PlacesType DEF TypeOK, Calls
  <2>2. Len(outputs') <= Calls
    BY <1>3, <1>5, <2>1
  <2>3. failed' \in BOOLEAN
    BY <1>2
  <2>4. printed' \in BOOLEAN
    BY <1>1, <1>3 DEF TypeOK
  <2>5. QED
    BY <1>3, <1>6, <1>7, <2>2, <2>3, <2>4 DEF Busy
<1>10. QED
  BY <1>3, <1>4, <1>5, <1>7, <1>8, <1>9, OtherEventInv

LEMMA ToolOutputInv ==
    ASSUME LoopInv, ToolOutput
    PROVE  LoopInv'
<1>1. TypeOK /\ PhaseInv /\ BufferInv /\ SeenInv
  BY DEF LoopInv
<1>2. PICK marked \in BOOLEAN :
        /\ printed' = (printed \/ marked) /\ ContextMoves
        /\ Handle("tool_output", partial, <<marked>>, pc)
  BY DEF ToolOutput
<1>3. /\ pc \in {"streaming", "executing"}
      /\ UNCHANGED <<config, iterationCount, partial, said, outputs, failed, versions>>
  BY DEF ToolOutput, InStep
<1>4. value' \in BOOLEAN
  BY <1>2, ContextMovesType
<1>5. PICK phase \in {"streaming", "executing"} : phase = pc
  BY <1>3
<1>6. /\ StopsForThisStep'
      /\ ended' \in {"no", "condition"} /\ (ended' # "no" => pc' = "done")
      /\ \/ pc' = "done"
         \/ /\ pc' = phase
            /\ ~(EvaluatedAt("tool_output") /\ InEvent(partial, <<marked>>, value'))
  <2>1. Handle("tool_output", partial, <<marked>>, phase)
    BY <1>2, <1>5
  <2>2. Marked(partial) => Marked(RawOutput(said'))
    BY <1>1, <1>3 DEF BufferInv
  <2>3. Marked(<<marked>>) => printed'
    BY <1>2, MarkedSingleton
  <2>4. UNCHANGED config /\ pc # "done"
    BY <1>3
  <2>5. QED
    BY <1>4, <2>1, <2>2, <2>3, <2>4, EventOutcome
<1>7. SeenInv'
  <2>1. CASE pc' = "done"
    BY <2>1, NothingSeenWhenIdle
  <2>2. CASE /\ pc' = phase
             /\ ~(EvaluatedAt("tool_output") /\ InEvent(partial, <<marked>>, value'))
    <3>1. condition' = condition /\ said' = said /\ pc' = pc /\ outputs' = outputs
      BY <1>3, <1>5, <2>2 DEF config
    <3>2. ChunksSeen' /\ OutputSeen' /\ CallsSeen'
      BY <1>1, <3>1 DEF SeenInv, ChunksSeen, OutputSeen, CallsSeen, Busy, At, LooksAtText, Places
    <3>3. ResultsSeen'
      <4>1. SUFFICES ASSUME condition.target = "tool_output", At({"any_event"})
                     PROVE  ~printed'
        BY <1>1, <1>3, <3>1 DEF SeenInv, ResultsSeen, At, Busy
      <4>2. EvaluatedAt("tool_output")
        BY <4>1 DEF EvaluatedAt, At
      <4>3. ~marked
        BY <1>1, <1>4, <2>2, <4>1, <4>2, InEventSound, SatisfiedByOne DEF TypeOK
      <4>4. ~printed
        BY <1>1, <1>3, <4>1 DEF SeenInv, ResultsSeen, Busy
      <4>5. QED
        BY <1>2, <4>3, <4>4
    <3>4. QED
      BY <3>2, <3>3 DEF SeenInv
  <2>3. QED
    BY <1>6, <2>1, <2>2
<1>8. /\ outputs' \in Seq(BOOLEAN) /\ Len(outputs') <= Calls
      /\ printed' \in BOOLEAN /\ failed' \in BOOLEAN
      /\ Busy /\ pc' \in {"done", "streaming", "executing"}
  BY <1>1, <1>2, <1>3, <1>5, <1>6 DEF TypeOK, Busy
<1>9. QED
  BY <1>3, <1>4, <1>6, <1>7, <1>8, OtherEventInv

LEMMA OutputRaisesInv ==
    ASSUME LoopInv, OutputRaises
    PROVE  LoopInv'
<1>1. /\ Busy /\ pc' = "done" /\ ended' = "raised" /\ TypeOK
      /\ UNCHANGED <<config, iterationCount, partial, said, outputs, printed, failed, value,
                     versions>>
  BY DEF OutputRaises, InStep, End, Busy, LoopInv
<1>2. StopsForThisStep' /\ SeenInv'
  BY <1>1, NothingSeenWhenIdle DEF StopsForThisStep
<1>3. /\ value' \in BOOLEAN /\ outputs' \in Seq(BOOLEAN) /\ Len(outputs') <= Calls
      /\ printed' \in BOOLEAN /\ failed' \in BOOLEAN
  BY <1>1 DEF TypeOK
<1>4. QED
  BY <1>1, <1>2, <1>3, OtherEventInv

LEMMA AnyOtherEventInv ==
    ASSUME LoopInv, OtherEvent
    PROVE  LoopInv'
<1>1. TypeOK /\ PhaseInv /\ BufferInv /\ SeenInv
  BY DEF LoopInv
<1>2. /\ pc \in {"streaming", "executing"} /\ ContextMoves
      /\ Handle("other", partial, NoText, pc)
      /\ UNCHANGED <<config, iterationCount, partial, said, outputs, printed, failed, versions>>
  BY DEF OtherEvent, InStep
<1>3. value' \in BOOLEAN
  BY <1>2, ContextMovesType
<1>4. PICK phase \in {"streaming", "executing"} : phase = pc
  BY <1>2
<1>5. /\ StopsForThisStep'
      /\ ended' \in {"no", "condition"} /\ (ended' # "no" => pc' = "done")
      /\ pc' = "done" \/ pc' = phase
  <2>1. Handle("other", partial, NoText, phase)
    BY <1>2, <1>4
  <2>2. Marked(partial) => Marked(RawOutput(said'))
    BY <1>1, <1>2 DEF BufferInv
  <2>3. UNCHANGED config /\ pc # "done"
    BY <1>2
  <2>4. QED
    BY <1>3, <2>1, <2>2, <2>3, NothingMarked, EventOutcome
<1>6. SeenInv'
  <2>1. CASE pc' = "done"
    BY <2>1, NothingSeenWhenIdle
  <2>2. CASE pc' = phase
    <3>1. /\ condition' = condition /\ said' = said /\ pc' = pc
          /\ outputs' = outputs /\ printed' = printed
      BY <1>2, <1>4, <2>2 DEF config
    <3>2. QED
      BY <1>1, <3>1 DEF SeenInv, ChunksSeen, OutputSeen, ResultsSeen, CallsSeen, Busy, At,
                        LooksAtText, Places
  <2>3. QED
    BY <1>5, <2>1, <2>2
<1>7. /\ outputs' \in Seq(BOOLEAN) /\ Len(outputs') <= Calls
      /\ printed' \in BOOLEAN /\ failed' \in BOOLEAN
      /\ Busy /\ pc' \in {"done", "streaming", "executing"}
  BY <1>1, <1>2, <1>4, <1>5 DEF TypeOK, Busy
<1>8. QED
  BY <1>2, <1>3, <1>5, <1>6, <1>7, OtherEventInv

-----------------------------------------------------------------------------
(* The end of a step *)

\* A result says no more than the step has said and its tools have returned.
FromThisStep(result) ==
    /\ Marked(result.raw) => Marked(RawOutput(said))
    /\ Marked(result.response) => Marked(RawOutput(said))
    /\ Marked(result.reasoning) => Marked(RawOutput(said))
    /\ Marked(result.tool_output) => Marked(outputs)

\* The end of a step stops the loop for a reason, or takes it back to its head.
LEMMA StepCompleteForms ==
    ASSUME NEW result, StepComplete(result)
    PROVE  /\ iterationCount' = iterationCount + 1 /\ Written
           /\ UNCHANGED <<config, partial, said, outputs, printed, failed>>
           /\ \/ /\ StopReason(result, value', versions') = "no"
                 /\ pc' = "top" /\ ended' = ended
              \/ /\ StopReason(result, value', versions') # "no"
                 /\ pc' = "done" /\ ended' = StopReason(result, value', versions')
BY DEF StepComplete, End

LEMMA StopReasonForms ==
    ASSUME NEW result, NEW held, NEW count
    PROVE  LET reason == StopReason(result, held, count)
           IN  /\ reason \in {"error", "health", "condition", "no_input", "no"}
               /\ reason = "condition" => InResult(result, held)
               /\ reason = "no" =>
                     /\ ~(result.status = "error" /\ breakOnError)
                     /\ ~(healthStops /\ Unhealthy(count))
                     /\ ~(EvaluatedAt("step_complete") /\ InResult(result, held))
                     /\ ~(result.status = "done" /\ result.response = NoText)
BY DEF StopReason

\* What was looked for in the result was said in this step, or is in the context.
LEMMA InResultSound ==
    ASSUME condition \in Conditions, NEW result, NEW held \in BOOLEAN, FromThisStep(result),
           InResult(result, held)
    PROVE  /\ condition.target = "context" => held
           /\ condition.target = "tool_output" => Marked(outputs) \/ Marked(RawOutput(said))
           /\ condition.target \in {"response", "reasoning"} => Marked(RawOutput(said))
<1>1. CASE condition.target = "context"
  BY <1>1, InResultForms
<1>2. CASE condition.target # "context" /\ condition.match = "contains"
  BY <1>2, InResultForms DEF FromThisStep
<1>3. CASE condition.target = "response" /\ condition.match # "contains"
  <2>1. Marked(result[condition.target])
    BY <1>3, InResultForms
  <2>2. QED
    BY <1>3, <2>1 DEF FromThisStep
<1>4. CASE condition.target = "reasoning" /\ condition.match # "contains"
  <2>1. Marked(result[condition.target])
    BY <1>4, InResultForms
  <2>2. QED
    BY <1>4, <2>1 DEF FromThisStep
<1>5. CASE condition.target = "tool_output" /\ condition.match # "contains"
  <2>1. Marked(result[condition.target])
    BY <1>5, InResultForms
  <2>2. QED
    BY <1>5, <2>1 DEF FromThisStep
<1>6. QED
  BY <1>1, <1>2, <1>3, <1>4, <1>5, ConditionForms

LEMMA StepCompleteInv ==
    ASSUME LoopInv, pc \in {"streaming", "executing"}, NEW result, FromThisStep(result),
           StepComplete(result)
    PROVE  LoopInv'
<1>1. TypeOK /\ PhaseInv /\ BufferInv /\ iterationCount < MaxIterations /\ ended = "no"
  BY DEF LoopInv, PhaseInv, Busy
<1>2. /\ iterationCount' = iterationCount + 1 /\ Written
      /\ UNCHANGED <<config, partial, said, outputs, printed, failed>>
  BY StepCompleteForms
<1>3. PICK reason \in {"error", "health", "condition", "no_input", "no"} :
        /\ reason = StopReason(result, value', versions')
        /\ reason = "condition" => InResult(result, value')
  BY StopReasonForms
<1>4. \/ reason = "no" /\ pc' = "top" /\ ended' = "no"
      \/ reason # "no" /\ pc' = "done" /\ ended' = reason
  BY <1>1, <1>3, StepCompleteForms
<1>5. value' \in BOOLEAN /\ versions' \in 0..(Threshold + 1)
  <2>1. value' \in BOOLEAN
    BY <1>2, ContextMovesType DEF Written
  <2>2. versions' \in {versions, Smaller(versions + 1, Threshold + 1)}
    BY <1>2 DEF Written
  <2>3. versions \in 0..(Threshold + 1) /\ Threshold \in Nat
    BY <1>1, NumbersOfTheConfig DEF TypeOK
  <2>4. QED
    BY <2>1, <2>2, <2>3 DEF Smaller
<1>6. iterationCount' \in 0..MaxIterations
  BY <1>1, <1>2, NumbersOfTheConfig DEF TypeOK
<1>7. Calls' = Calls
  BY <1>2 DEF Calls, Places
<1>8. /\ pc' \in {"top", "done"}
      /\ ended' \in {"no", "limit", "condition", "error", "health", "no_input", "raised"}
      /\ ended' # "no" => pc' = "done"
      /\ ended' = "condition" => InResult(result, value')
  BY <1>3, <1>4
<1>9. TypeOK'
  BY <1>1, <1>2, <1>5, <1>6, <1>7, <1>8 DEF TypeOK, config
<1>10. PhaseInv' /\ SeenInv'
  BY <1>8, NothingSeenWhenIdle DEF PhaseInv, Busy
<1>11. BufferInv'
  BY <1>1, <1>2 DEF BufferInv, At, config
<1>12. StopsForThisStep'
  <2>1. SUFFICES ASSUME ended' = "condition"
                 PROVE  StopsForThisStep'
    BY DEF StopsForThisStep
  <2>2. condition' = condition /\ said' = said /\ outputs' = outputs /\ condition \in Conditions
    BY <1>1, <1>2 DEF config, TypeOK
  <2>3. /\ condition.target = "context" => value'
        /\ condition.target = "tool_output" => Marked(outputs) \/ Marked(RawOutput(said))
        /\ condition.target \in {"response", "reasoning"} => Marked(RawOutput(said))
    BY <1>5, <1>8, <2>1, <2>2, InResultSound
  <2>4. CASE condition.target = "context"
    BY <2>2, <2>3, <2>4 DEF StopsForThisStep
  <2>5. CASE condition.target = "tool_output"
    BY <2>2, <2>3, <2>5 DEF StopsForThisStep
  <2>6. CASE condition.target \in {"response", "reasoning"}
    BY <2>2, <2>3, <2>6 DEF StopsForThisStep
  <2>7. QED
    BY <2>2, <2>4, <2>5, <2>6, ConditionForms
<1>13. QED
  BY <1>9, <1>10, <1>11, <1>12 DEF LoopInv

\* The result of a step that completes, and of one whose model call fails.
Result == [status |-> StepStatus, raw |-> RawOutput(said),
           response |-> Segment("response"), reasoning |-> Segment("reasoning"),
           tool_output |-> outputs]
ErrorResult == [status |-> "error", raw |-> <<FALSE>>, response |-> NoText,
                reasoning |-> NoText, tool_output |-> NoText]

LEMMA ResultsAreFromThisStep ==
    ASSUME said \in Seq(Pieces)
    PROVE  FromThisStep(Result) /\ FromThisStep(ErrorResult)
<1>1. FromThisStep(Result)
  BY PlacesType DEF FromThisStep, Result
<1>2. FromThisStep(ErrorResult)
  BY NothingMarked, MarkedSingleton DEF FromThisStep, ErrorResult
<1>3. QED
  BY <1>1, <1>2

LEMMA StepEndsInv ==
    ASSUME LoopInv, StepEnds \/ LLMFails
    PROVE  LoopInv'
<1>1. FromThisStep(Result) /\ FromThisStep(ErrorResult)
  BY ResultsAreFromThisStep DEF LoopInv, TypeOK
<1>2. CASE StepEnds
  <2>1. pc = "executing" /\ StepComplete(Result)
    BY <1>2 DEF StepEnds, Result
  <2>2. QED
    BY <1>1, <2>1, StepCompleteInv
<1>3. CASE LLMFails
  <2>1. pc = "streaming" /\ StepComplete(ErrorResult)
    BY <1>3 DEF LLMFails, ErrorResult
  <2>2. QED
    BY <1>1, <2>1, StepCompleteInv
<1>4. QED
  BY <1>2, <1>3

LEMMA NextInv == LoopInv /\ [Next]_vars => LoopInv'
<1> SUFFICES ASSUME LoopInv, [Next]_vars PROVE LoopInv'
  OBVIOUS
<1>1. CASE NextStep
  BY <1>1, NextStepInv
<1>2. CASE Chunk
  BY <1>2, ChunkInv
<1>3. CASE ToolDetected
  BY <1>3, ToolDetectedInv
<1>4. CASE LLMComplete
  BY <1>4, LLMCompleteInv
<1>5. CASE StepEnds \/ LLMFails
  BY <1>5, StepEndsInv
<1>6. CASE ToolFinished
  BY <1>6, ToolFinishedInv
<1>7. CASE OtherEvent \/ ToolOutput \/ OutputRaises
  BY <1>7, AnyOtherEventInv, ToolOutputInv, OutputRaisesInv
<1>8. CASE UNCHANGED vars
  <2>1. UNCHANGED <<condition, accumulates, breakOnError, healthStops, pc, iterationCount, partial,
                    said, outputs, printed, failed, value, versions, ended>>
    BY <1>8 DEF vars, config
  <2>2. Calls' = Calls
    BY <2>1 DEF Calls, Places
  <2>3. TypeOK'
    BY <2>1, <2>2 DEF LoopInv, TypeOK
  <2>4. PhaseInv' /\ BufferInv'
    BY <2>1 DEF LoopInv, PhaseInv, BufferInv, Busy, At
  <2>5. SeenInv'
    BY <2>1 DEF LoopInv, SeenInv, ChunksSeen, OutputSeen, ResultsSeen, CallsSeen, Busy, At,
                LooksAtText, Places
  <2>6. StopsForThisStep'
    BY <2>1 DEF LoopInv, StopsForThisStep
  <2>7. QED
    BY <2>3, <2>4, <2>5, <2>6 DEF LoopInv
<1>9. QED
  BY <1>1, <1>2, <1>3, <1>4, <1>5, <1>6, <1>7, <1>8 DEF Next, Progress

-----------------------------------------------------------------------------
(* When the loop goes on *)

\* Only the end of a step takes the loop back to its head, and with no reason to stop.
LEMMA BackToTheTop ==
    ASSUME LoopInv, [Next]_vars, pc # "top", pc' = "top"
    PROVE  \/ /\ pc = "executing" /\ StepComplete(Result)
              /\ StopReason(Result, value', versions') = "no"
           \/ /\ pc = "streaming" /\ StepComplete(ErrorResult)
              /\ StopReason(ErrorResult, value', versions') = "no"
<1>1. ASSUME NEW event, NEW raw, NEW output, NEW next \in {"streaming", "detected", "executing"},
             Handle(event, raw, output, next)
      PROVE  FALSE
  BY <1>1, HandleForms
<1>2. ~NextStep /\ ~UNCHANGED vars
  BY DEF NextStep, vars
<1>3. ~Chunk
  <2>1. SUFFICES ASSUME NEW piece \in Pieces,
                        Handle("llm_chunk", partial', NoText,
                               IF piece.part = "tool_output" THEN "detected" ELSE "streaming")
                 PROVE  FALSE
    BY DEF Chunk
  <2>2. PICK next \in {"streaming", "detected", "executing"} :
            next = IF piece.part = "tool_output" THEN "detected" ELSE "streaming"
    OBVIOUS
  <2>3. QED
    BY <1>1, <2>1, <2>2
<1>4. ~ToolDetected /\ ~LLMComplete
  BY <1>1 DEF ToolDetected, LLMComplete
<1>5. ~ToolFinished /\ ~ToolOutput /\ ~OutputRaises /\ ~OtherEvent
  <2>1. InStep => pc \in {"streaming", "detected", "executing"}
    BY DEF InStep
  <2>2. QED
    BY <1>1, <2>1 DEF ToolFinished, ToolOutput, OutputRaises, OtherEvent, End
<1>6. CASE StepEnds
  <2>1. pc = "executing" /\ StepComplete(Result)
    BY <1>6 DEF StepEnds, Result
  <2>2. QED
    BY <2>1, StepCompleteForms
<1>7. CASE LLMFails
  <2>1. pc = "streaming" /\ StepComplete(ErrorResult)
    BY <1>7 DEF LLMFails, ErrorResult
  <2>2. QED
    BY <2>1, StepCompleteForms
<1>8. QED
  BY <1>2, <1>3, <1>4, <1>5, <1>6, <1>7 DEF Next, Progress

\* A version count over the threshold is unhealthy if the history fetched can be that long.
LEMMA UnhealthyOverThreshold ==
    ASSUME NEW count \in Nat, count > Threshold, Threshold = 0 \/ Threshold < MaxVersions
    PROVE  Unhealthy(count)
<1>1. CASE Threshold < MaxVersions
  <2>1. Smaller(Threshold + 1, MaxVersions) = Threshold + 1
    BY <1>1, NumbersOfTheConfig DEF Smaller
  <2>2. Fetched(count, Threshold + 1) = Threshold + 1
    BY NumbersOfTheConfig DEF Fetched, Smaller
  <2>3. QED
    BY <2>1, <2>2, NumbersOfTheConfig DEF Unhealthy
<1>2. CASE Threshold = 0 /\ MaxVersions = 0
  <2>1. Smaller(Threshold + 1, MaxVersions) = 0
    BY <1>2 DEF Smaller
  <2>2. Fetched(count, 0) = 1
    BY <1>2 DEF Fetched, Smaller
  <2>3. QED
    BY <1>2, <2>1, <2>2 DEF Unhealthy
<1>3. QED
  BY <1>1, <1>2, NumbersOfTheConfig

\* A condition that is due when the step completes and is not satisfied was shown nothing then.
LEMMA NothingShownAtTheEnd ==
    ASSUME LoopInv, value' \in BOOLEAN, NEW result,
           ~(EvaluatedAt("step_complete") /\ InResult(result, value'))
    PROVE  /\ condition.target = "context" /\ At({"auto", "step_complete", "any_event"}) => ~value'
           /\ condition.target # "context" /\ condition.match = "contains" /\ At({"step_complete"})
                 => ~Marked(result.raw)
           /\ condition.target # "context" /\ condition.match = "regex"
              /\ At({"auto", "step_complete"})
                 => ~Marked(result[condition.target])
<1>1. condition \in Conditions
  BY DEF LoopInv, TypeOK
<1>2. /\ condition.target = "context" /\ At({"auto", "step_complete", "any_event"})
            => EvaluatedAt("step_complete")
      /\ At({"step_complete"}) => EvaluatedAt("step_complete")
      /\ condition.match = "regex" /\ At({"auto", "step_complete"})
            => EvaluatedAt("step_complete")
  BY DEF EvaluatedAt, At
<1>3. QED
  BY <1>1, <1>2, InResultForms

\* The invariant and the last evaluation leave no mark that was shown.
LEMMA NoMarkWasShown ==
    ASSUME LoopInv, value' \in BOOLEAN,
           \/ /\ pc = "executing"
              /\ ~(EvaluatedAt("step_complete") /\ InResult(Result, value'))
           \/ /\ pc = "streaming"
              /\ ~(EvaluatedAt("step_complete") /\ InResult(ErrorResult, value'))
    PROVE  ~MarkWasShown
<1> DEFINE raw == Marked(RawOutput(said))
           text == condition.target \in {"response", "reasoning"}
           kept == pc = "executing"
<1>1. /\ condition \in Conditions /\ said \in Seq(Pieces)
      /\ ChunksSeen /\ OutputSeen /\ ResultsSeen /\ CallsSeen /\ Busy
  BY DEF LoopInv, TypeOK, SeenInv, Busy
<1>2. ~(condition.target = "context" /\ At({"auto", "step_complete", "any_event"}) /\ value')
  BY NothingShownAtTheEnd
<1>3. ~(text /\ condition.match # "equals" /\ At({"llm_chunk", "any_event"}) /\ raw)
  BY <1>1 DEF ChunksSeen, LooksAtText
<1>4. ~(text /\ condition.match # "equals" /\ At({"llm_complete"}) /\ kept /\ raw)
  BY <1>1 DEF OutputSeen, LooksAtText
<1>5. ~(text /\ condition.match = "contains" /\ At({"auto", "step_complete"}) /\ kept /\ raw)
  <2>1. SUFFICES ASSUME text, condition.match = "contains", kept, raw,
                        At({"auto"}) \/ At({"step_complete"})
                 PROVE  FALSE
    BY DEF At
  <2>2. CASE At({"auto"})
    BY <1>1, <2>1, <2>2 DEF OutputSeen, LooksAtText
  <2>3. CASE At({"step_complete"})
    <3>1. ~Marked(Result.raw)
      BY <2>1, <2>3, NothingShownAtTheEnd
    <3>2. QED
      BY <2>1, <3>1 DEF Result
  <2>4. QED
    BY <2>1, <2>2, <2>3
<1>6. ~(/\ condition.match = "regex" /\ At({"auto", "step_complete"}) /\ kept
        /\ condition.target \in Parts
        /\ Marked(IF text THEN Segment(condition.target) ELSE outputs))
  <2>1. SUFFICES ASSUME condition.match = "regex", At({"auto", "step_complete"}), kept,
                        condition.target \in Parts
                 PROVE  ~Marked(IF text THEN Segment(condition.target) ELSE outputs)
    OBVIOUS
  <2>2. ~Marked(Result[condition.target])
    BY <2>1, NothingShownAtTheEnd DEF Parts
  <2>3. CASE condition.target = "response"
    BY <2>2, <2>3 DEF Result
  <2>4. CASE condition.target = "reasoning"
    BY <2>2, <2>4 DEF Result
  <2>5. CASE condition.target = "tool_output"
    BY <2>2, <2>5 DEF Result
  <2>6. QED
    BY <2>1, <2>3, <2>4, <2>5 DEF Parts
<1>7. ~(condition.target = "tool_output" /\ At({"tool_finished", "any_event"}) /\ Marked(outputs))
  BY <1>1 DEF ResultsSeen
<1>8. ~(/\ condition.target = "tool_output" /\ At({"tool_detected", "any_event"})
        /\ Marked(Segment("tool_output")))
  <2>1. pc # "detected"
    OBVIOUS
  <2>2. QED
    BY <1>1, <2>1, PlacesType DEF CallsSeen
<1>9. ~(condition.target = "tool_output" /\ At({"any_event"}) /\ printed)
  BY <1>1 DEF ResultsSeen
<1>10. QED
  BY <1>2, <1>3, <1>4, <1>5, <1>6, <1>7, <1>8, <1>9 DEF MarkWasShown, At

\* What the status of a step that did not fail tells of its output.
LEMMA StatusForms ==
    ASSUME said \in Seq(Pieces)
    PROVE  /\ failed => StepStatus = "error"
           /\ ~failed /\ Segment("response") = NoText /\ Calls = 0 => StepStatus = "done"
<1>1. failed => StepStatus = "error"
  BY DEF StepStatus
<1>2. ~failed /\ Segment("response") = NoText /\ Calls = 0 => StepStatus = "done"
  BY DEF StepStatus
<1>3. QED
  BY <1>1, <1>2

\* Something is left to do: a piece that is not reasoning.
LEMMA SomethingLeftToDo ==
    ASSUME said \in Seq(Pieces), failed \in BOOLEAN,
           StopReason(Result, value', versions') = "no"
    PROVE  failed \/ \E k \in DOMAIN said : said[k].part # "reasoning"
<1>1. SUFFICES ASSUME ~failed, \A k \in DOMAIN said : said[k].part = "reasoning"
               PROVE  FALSE
  OBVIOUS
<1>2. Places("response") = {} /\ Places("tool_output") = {}
  BY <1>1 DEF Places
<1>3. Segment("response") = NoText
  BY <1>2, PlacesType
<1>4. Calls = 0
  BY <1>2, FS_EmptySet DEF Calls
<1>5. Result.status = "done" /\ Result.response = NoText
  BY <1>1, <1>3, <1>4, StatusForms DEF Result
<1>6. QED
  BY <1>5, StopReasonForms

LEMMA GoesOnStep ==
    ASSUME LoopInv, [Next]_vars, pc # "top", pc' = "top"
    PROVE  /\ ~MarkWasShown
           /\ ~(breakOnError /\ (failed \/ pc = "streaming"))
           /\ Threshold = 0 \/ Threshold < MaxVersions => ~(healthStops /\ versions' > Threshold)
           /\ \/ failed \/ pc = "streaming"
              \/ \E k \in DOMAIN said : said[k].part # "reasoning"
<1>1. /\ said \in Seq(Pieces) /\ failed \in BOOLEAN
  BY DEF LoopInv, TypeOK
<1>2. value' \in BOOLEAN /\ versions' \in Nat
  <2>1. TypeOK'
    BY NextInv DEF LoopInv
  <2>2. QED
    BY <2>1, NumbersOfTheConfig DEF TypeOK
<1>3. \/ pc = "executing" /\ StopReason(Result, value', versions') = "no"
      \/ pc = "streaming" /\ StopReason(ErrorResult, value', versions') = "no"
  BY BackToTheTop
<1>4. \/ /\ pc = "executing"
         /\ ~(EvaluatedAt("step_complete") /\ InResult(Result, value'))
      \/ /\ pc = "streaming"
         /\ ~(EvaluatedAt("step_complete") /\ InResult(ErrorResult, value'))
  BY <1>3, StopReasonForms
<1>5. ~MarkWasShown
  BY <1>2, <1>4, NoMarkWasShown
<1>6. ~(breakOnError /\ (failed \/ pc = "streaming"))
  <2>1. CASE pc = "executing" /\ StopReason(Result, value', versions') = "no"
    <3>1. ~(Result.status = "error" /\ breakOnError)
      BY <2>1, StopReasonForms
    <3>2. QED
      BY <1>1, <2>1, <3>1, StatusForms DEF Result
  <2>2. CASE pc = "streaming" /\ StopReason(ErrorResult, value', versions') = "no"
    <3>1. ~(ErrorResult.status = "error" /\ breakOnError)
      BY <2>2, StopReasonForms
    <3>2. QED
      BY <3>1 DEF ErrorResult
  <2>3. QED
    BY <1>3, <2>1, <2>2
<1>7. ~(healthStops /\ Unhealthy(versions'))
  BY <1>3, StopReasonForms
<1>8. Threshold = 0 \/ Threshold < MaxVersions => ~(healthStops /\ versions' > Threshold)
  <2>1. PICK count \in Nat : count = versions'
    BY <1>2
  <2>2. QED
    BY <1>7, <2>1, UnhealthyOverThreshold
<1>9. failed \/ pc = "streaming" \/ \E k \in DOMAIN said : said[k].part # "reasoning"
  BY <1>1, <1>3, SomethingLeftToDo
<1>10. QED
  BY <1>5, <1>6, <1>8, <1>9

-----------------------------------------------------------------------------
(* Theorems *)

\* The inductive invariant holds for every configuration, limit and length of output.
THEOREM LoopInvariance == Spec => []LoopInv
<1>1. Init => LoopInv
  BY InitInv
<1>2. LoopInv /\ [Next]_vars => LoopInv'
  BY NextInv
<1>3. QED
  BY <1>1, <1>2, PTL DEF Spec

\* Each variable keeps its type; the buffer stays within its size, and no more steps are counted
\* than max_iterations (run_stream).
THEOREM LoopTypeCorrect == Spec => []TypeOK
BY LoopInvariance, PTL DEF LoopInv

\* A condition stops the loop only for what the step under way has said, its tools have put out
\* or returned, or the context holds: the buffer brings nothing over from an earlier step.
THEOREM LoopStopsForThisStep == Spec => []StopsForThisStep
BY LoopInvariance, PTL DEF LoopInv

\* The loop goes on to another step only if the last one showed the condition nothing where it
\* looks, did not fail under break_on_error, left the context healthy and something to do.
THEOREM LoopGoesOnOnlyIfDue == Spec => GoesOnOnlyIfDue
<1>1. LoopInv /\ [Next]_vars =>
        [pc # "top" /\ pc' = "top" =>
            /\ ~MarkWasShown
            /\ ~(breakOnError /\ (failed \/ pc = "streaming"))
            /\ Threshold = 0 \/ Threshold < MaxVersions =>
                  ~(healthStops /\ versions' > Threshold)
            /\ \/ failed \/ pc = "streaming"
               \/ \E k \in DOMAIN said : said[k].part # "reasoning"]_vars
  BY GoesOnStep
<1>2. QED
  BY <1>1, LoopInvariance, PTL DEF Spec, GoesOnOnlyIfDue
=============================================================================
