------------------------ MODULE StreamingExtractor ------------------------
(***************************************************************************)
(* StreamingPatternExtractor (src/agentic/patterns.py): extracts tagged    *)
(* segments from a text that arrives in chunks.  PatternExtractor, which   *)
(* extracts them from the whole text, is the reference (Batch).            *)
(*                                                                         *)
(* A text is a sequence of symbols, a tag a short sequence of them, so     *)
(* that a chunk may end inside a tag.  Positions count from 1, a range     *)
(* <<s, e>> ends before e.  Abstracted: what a segment holds once its      *)
(* range is known (stripping, tool-call parsing, joined responses), and    *)
(* greedy patterns and patterns with an empty end tag.                     *)
(***************************************************************************)
EXTENDS Integers, Sequences, FiniteSets, FiniteSetsExt

CONSTANTS
    Symbols,         \* what a text is made of
    Patterns,        \* the pattern set: name -> [start |-> tag, end |-> tag]
    StreamContent,   \* stream_content: report content before its end tag arrives
    MaxChunk,        \* bound: the longest chunk a provider sends
    MaxBuffer        \* max_buffer_size

ASSUME TagsAssumption ==
    \A p \in DOMAIN Patterns : /\ Patterns[p].start \in Seq(Symbols) \ {<<>>}
                              /\ Patterns[p].end \in Seq(Symbols) \ {<<>>}

ASSUME BoundsAssumption == MaxChunk \in Nat /\ MaxBuffer \in Nat

VARIABLES
    buffer,      \* _buffer
    searchPos,   \* _search_positions
    complete,    \* _emitted_complete_patterns: <<s, e, name>>
    active,      \* keys of _active_patterns: <<s, name>>
    malformed,   \* what the last finalize reported as malformed: <<s, name>>
    longest      \* ghost: the longest chunk fed since the last reset
vars == <<buffer, searchPos, complete, active, malformed, longest>>

Names == DOMAIN Patterns
Chunks == UNION {[1..k -> Symbols] : k \in 1..MaxChunk}

-----------------------------------------------------------------------------
(* Finding tags and matches in a text.                                     *)

TagAt(text, tag, i) ==
    /\ i + Len(tag) - 1 <= Len(text)
    /\ SubSeq(text, i, i + Len(tag) - 1) = tag

Occurrences(text, tag, from) == {i \in from..Len(text) : TagAt(text, tag, i)}

\* What a search from position r on finds, if anything: the leftmost start tag with the first
\* end tag after it (the quantifier is not greedy).
FirstMatch(text, p, r) ==
    LET starts == Occurrences(text, Patterns[p].start, r)
        ends   == Occurrences(text, Patterns[p].end, Min(starts) + Len(Patterns[p].start))
    IN  IF starts = {} \/ ends = {} THEN {}
        ELSE {<<Min(starts), Min(ends) + Len(Patterns[p].end)>>}

\* Where finditer searches: at `from`, and again at the end of each match (the least set that
\* holds the one and with each position the next).
Resumes(text, p, from) ==
    LET ends == Occurrences(text, Patterns[p].end, from)
        at == {from} \cup {i + Len(Patterns[p].end) : i \in ends}
        Closed(R) == from \in R /\ \A r \in R : \A m \in FirstMatch(text, p, r) : m[2] \in R
    IN  {r \in at : \A R \in SUBSET at : Closed(R) => r \in R}

\* What finditer yields from a position on.
Matches(text, p, from) == UNION {FirstMatch(text, p, r) : r \in Resumes(text, p, from)}

\* PatternExtractor.extract on the whole text.
Batch(text) == UNION {{<<m[1], m[2], p>> : m \in Matches(text, p, 1)} : p \in Names}

-----------------------------------------------------------------------------
Init ==
    /\ buffer = <<>>
    /\ searchPos = [p \in Names |-> 1]
    /\ complete = {}
    /\ active = {}
    /\ malformed = {}
    /\ longest = 0

\* Mutant: the chunk itself is not counted.
FitsBeforeAppending(chunk) == Len(buffer) <= MaxBuffer

\* A chunk that does not fit raises ValueError and changes nothing.
Fits(chunk) == Len(buffer) + Len(chunk) <= MaxBuffer

\* Mutant: an end tag split between two chunks is not seen.
NeedScanOfChunk(p, new) == Occurrences(new, Patterns[p].end, Len(buffer) + 1) # {}

\* Only an end tag that the new chunk completes can complete a pattern.
NeedScan(p, new) ==
    LET windowStart == Max({1, Len(buffer) - Len(Patterns[p].end) + 1})
    IN  Occurrences(new, Patterns[p].end, windowStart) # {}

NewMatches(new) ==
    UNION {{<<m[1], m[2], p>> : m \in Matches(new, p, searchPos[p])} :
              p \in {q \in Names : NeedScan(q, new)}}

\* Mutant: the next scan starts inside the first match.
SearchAfterFirstStart(p, new) ==
    IF Occurrences(new, Patterns[p].start, 1) = {} THEN 1
    ELSE Min(Occurrences(new, Patterns[p].start, 1)) + 1

\* After a scan the next one starts near the end of the buffer.
NextSearchPos(p, new) == Max({1, Len(new) - Len(Patterns[p].end) + 1})

\* _stream_incomplete_patterns: every start tag outside the completed ranges of its pattern
\* is followed from the moment it is seen.
Incomplete(new, done) ==
    UNION {{<<s, p>> : s \in {i \in Occurrences(new, Patterns[p].start, 1) :
                                 \A m \in done : m[3] = p => ~(m[1] <= i /\ i < m[2])}} :
              p \in Names}

\* feed_chunk.
FeedChunk(chunk) ==
    LET new   == buffer \o chunk
        found == NewMatches(new)
    IN  /\ Fits(chunk)
        /\ buffer' = new
        /\ complete' = complete \cup found
        /\ searchPos' = [p \in Names |->
                            IF NeedScan(p, new) THEN NextSearchPos(p, new) ELSE searchPos[p]]
        /\ active' = (active \ {<<m[1], m[3]>> : m \in found})
                        \cup (IF StreamContent THEN Incomplete(new, complete \cup found) ELSE {})
        /\ longest' = Max({longest, Len(chunk)})
        /\ malformed' = {}

\* finalize: what is still active is malformed; the state is reset for the next stream.
Finalize ==
    /\ buffer # <<>>
    /\ malformed' = active
    /\ buffer' = <<>>
    /\ searchPos' = [p \in Names |-> 1]
    /\ complete' = {}
    /\ active' = {}
    /\ longest' = 0

Next == Finalize \/ \E chunk \in Chunks : FeedChunk(chunk)

Spec == Init /\ [][Next]_vars

-----------------------------------------------------------------------------
\* Each variable holds a value of its type.
TypeOK ==
    /\ buffer \in Seq(Symbols) /\ Len(buffer) <= MaxBuffer
    /\ searchPos \in [Names -> 1..MaxBuffer + 1]
    /\ complete \subseteq (1..MaxBuffer) \X (1..MaxBuffer + 1) \X Names
    /\ active \subseteq (1..MaxBuffer) \X Names
    /\ malformed \subseteq (1..MaxBuffer) \X Names
    /\ longest \in 0..MaxChunk

\* Wherever `other` would begin inside `tag`, the two differ.
Clear(tag, other) ==
    \A d \in 0..(Len(tag) - 1) :
        \E k \in 1..Len(other) : d + k <= Len(tag) /\ tag[d + k] # other[k]

\* Neither tag of the pattern begins inside the other: true of <tool> and </tool>, but not of
\* the fences of the json_tools pattern set, where ```json begins with the end tag ```.
TagsApart(p) == /\ Clear(Patterns[p].start, Patterns[p].end)
                /\ Clear(Patterns[p].end, Patterns[p].start)

\* A completed pattern is a start tag, content without its end tag, and the end tag, and no
\* text is extracted twice if the tags are apart: a tool call in it is not run twice, however
\* the scans overlap.
CompleteWellFormed ==
    /\ \A m \in complete :
        LET s == m[1]  e == m[2]  tags == Patterns[m[3]]
            endTag == e - Len(tags.end)
        IN  /\ TagAt(buffer, tags.start, s)
            /\ Occurrences(buffer, tags.end, s + Len(tags.start)) # {}
            /\ Min(Occurrences(buffer, tags.end, s + Len(tags.start))) = endTag
    /\ \A m, n \in complete :
        m[3] = n[3] /\ TagsApart(m[3]) /\ m # n => m[2] <= n[1] \/ n[2] <= m[1]

\* If the tags of a pattern are apart, and while no chunk is longer than its end tag (a scan
\* resumes that far from the end of the buffer, and cannot step over a start tag in one chunk),
\* the stream has completed exactly what the batch extractor finds in the text so far.
SmallChunksAgree ==
    \A p \in Names :
        TagsApart(p) /\ longest <= Len(Patterns[p].end)
        => {m \in complete : m[3] = p} = {m \in Batch(buffer) : m[3] = p}

-----------------------------------------------------------------------------
\* "Uses regex matching (like batch PatternExtractor) to correctly handle multiple instances
\* of same pattern type": the same, whatever the chunks.
AgreesWithBatch == complete = Batch(buffer)
=============================================================================
