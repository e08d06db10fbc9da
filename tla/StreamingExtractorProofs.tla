---------------------- MODULE StreamingExtractorProofs ----------------------
(***************************************************************************)
(* For every pattern set, text and division of the text into chunks: what  *)
(* the streaming extractor completes is well formed, and no text is        *)
(* extracted twice, if the tags are apart; and it is what the batch        *)
(* extractor finds, if the chunks are no longer than the end tag too.      *)
(*                                                                         *)
(* The proofs leave the symbols behind: a text is where its tags begin     *)
(* (Starts, Ends), and tags that are apart do not overlap in any text.     *)
(* Then Direct says which pairs finditer yields without saying how it goes *)
(* from one to the next, so that what a scan finds can be compared with    *)
(* what another one finds, from elsewhere or in a longer text.             *)
(***************************************************************************)
EXTENDS StreamingExtractor, SequenceTheorems, WellFoundedInduction, TLAPS

StartLen(p) == Len(Patterns[p].start)
EndLen(p) == Len(Patterns[p].end)

Starts(text, p) == Occurrences(text, Patterns[p].start, 1)
Ends(text, p) == Occurrences(text, Patterns[p].end, 1)

\* The start tag at s and the first end tag after it, which ends before e.
Pair(text, p, s, e) ==
    /\ s \in Starts(text, p) /\ e - EndLen(p) \in Ends(text, p)
    /\ s + StartLen(p) <= e - EndLen(p)
    /\ \A j \in Ends(text, p) : s + StartLen(p) <= j => e - EndLen(p) <= j

\* A pair whose start tag is in no earlier one: each start tag between `from` and s has an end tag
\* before s.
Direct(text, p, from, s, e) ==
    /\ from <= s /\ Pair(text, p, s, e)
    /\ \A i \in Starts(text, p) :
          from <= i /\ i < s => \E j \in Ends(text, p) : i + StartLen(p) <= j /\ j < s

-----------------------------------------------------------------------------
(* Texts and tags.                                                         *)

\* A set of naturals has a least element, which is what Min gives.
LEMMA LeastExists ==
    ASSUME NEW T \in SUBSET Nat, T # {}
    PROVE  \E x \in T : \A y \in T : x <= y
<1>1. PICK x \in T : \A y \in T : ~(<<y, x>> \in OpToRel(<, Nat))
    BY NatLessThanWellFounded, WFMin
<1>2. \A y \in T : ~(y < x)
    BY <1>1 DEF OpToRel
<1> QED
    BY <1>2

LEMMA MinFacts ==
    ASSUME NEW T \in SUBSET Nat, T # {}
    PROVE  Min(T) \in T /\ \A y \in T : Min(T) <= y
BY LeastExists DEF Min

LEMMA MinIs ==
    ASSUME NEW T \in SUBSET Nat, NEW x \in T, \A y \in T : x <= y
    PROVE  Min(T) = x
<1>1. T # {}
    OBVIOUS
<1>2. Min(T) \in T /\ Min(T) <= x
    BY <1>1, MinFacts
<1>3. Min(T) \in Nat /\ x \in Nat /\ x <= Min(T)
    BY <1>2
<1> QED
    BY <1>2, <1>3

\* The larger of two.
LEMMA MaxOfTwo ==
    ASSUME NEW x \in Int, NEW y \in Int
    PROVE  Max({x, y}) = IF x <= y THEN y ELSE x
<1>1. \E m \in {x, y} : \A k \in {x, y} : m >= k
    OBVIOUS
<1>2. Max({x, y}) \in {x, y} /\ \A k \in {x, y} : Max({x, y}) >= k
    BY <1>1 DEF Max
<1> QED
    BY <1>2

\* What the tags of a pattern are.
LEMMA TagFacts ==
    ASSUME NEW p \in Names
    PROVE  /\ Patterns[p].start \in Seq(Symbols) /\ Patterns[p].start # <<>>
           /\ Patterns[p].end \in Seq(Symbols) /\ Patterns[p].end # <<>>
           /\ StartLen(p) \in Nat \ {0} /\ EndLen(p) \in Nat \ {0}
BY TagsAssumption, EmptySeq DEF Names, StartLen, EndLen

\* A tag at a position, symbol by symbol.
LEMMA TagAtSymbols ==
    ASSUME NEW text \in Seq(Symbols), NEW tag \in Seq(Symbols), NEW i \in Nat \ {0}
    PROVE  TagAt(text, tag, i) <=>
              /\ i + Len(tag) - 1 <= Len(text)
              /\ \A k \in 1..Len(tag) : text[i + k - 1] = tag[k]
<1>1. Len(text) \in Nat /\ Len(tag) \in Nat
    BY LenProperties
<1> DEFINE last == i + Len(tag) - 1
           part == SubSeq(text, i, last)
<1>2. CASE last <= Len(text)
    <2>1. \A j \in i..last : text[j] \in Symbols
        <3>1. \A j \in i..last : j \in 1..Len(text)
            BY <1>1, <1>2
        <3> QED
            BY <3>1, ElementOfSeq
    <2>2. /\ part \in Seq(Symbols) /\ Len(part) = IF i <= last THEN last - i + 1 ELSE 0
          /\ \A k \in 1..(last - i + 1) : part[k] = text[i + k - 1]
        BY <1>1, <2>1, SubSeqProperties
    <2>3. Len(part) = Len(tag)
        BY <1>1, <2>2
    <2>4. \A k \in 1..Len(tag) : part[k] = text[i + k - 1]
        BY <1>1, <2>2
    <2> HIDE DEF part
    <2>5. part = tag <=> \A k \in 1..Len(tag) : part[k] = tag[k]
        BY <2>2, <2>3, SeqEqual
    <2>6. part = tag <=> \A k \in 1..Len(tag) : text[i + k - 1] = tag[k]
        BY <2>4, <2>5
    <2> QED
        BY <1>2, <2>6 DEF TagAt, part
<1> QED
    BY <1>2 DEF TagAt

\* A longer text has the same tags where the shorter one had room for them.
LEMMA TagAtPrefix ==
    ASSUME NEW text \in Seq(Symbols), NEW more \in Seq(Symbols), NEW tag \in Seq(Symbols),
           NEW i \in Nat \ {0}, i + Len(tag) - 1 <= Len(text)
    PROVE  TagAt(text \o more, tag, i) <=> TagAt(text, tag, i)
<1> DEFINE new == text \o more
<1>1. /\ new \in Seq(Symbols) /\ Len(new) = Len(text) + Len(more)
      /\ \A k \in 1..(Len(text) + Len(more)) :
            new[k] = IF k <= Len(text) THEN text[k] ELSE more[k - Len(text)]
    BY ConcatProperties
<1>2. Len(text) \in Nat /\ Len(more) \in Nat /\ Len(tag) \in Nat
    BY LenProperties
<1> HIDE DEF new
<1>3. \A k \in 1..Len(tag) : new[i + k - 1] = text[i + k - 1]
    <2> TAKE k \in 1..Len(tag)
    <2>1. i + k - 1 \in 1..(Len(text) + Len(more)) /\ i + k - 1 <= Len(text)
        BY <1>2
    <2> QED
        BY <1>1, <2>1
<1>4. i + Len(tag) - 1 <= Len(new)
    BY <1>1, <1>2
<1>5. TagAt(new, tag, i) <=> \A k \in 1..Len(tag) : new[i + k - 1] = tag[k]
    <2>1. new \in Seq(Symbols)
        BY <1>1
    <2>2. TagAt(new, tag, i) <=>
            /\ i + Len(tag) - 1 <= Len(new)
            /\ \A k \in 1..Len(tag) : new[i + k - 1] = tag[k]
        BY <2>1, TagAtSymbols
    <2> QED
        BY <1>4, <2>2
<1>6. TagAt(text, tag, i) <=> \A k \in 1..Len(tag) : text[i + k - 1] = tag[k]
    BY TagAtSymbols
<1> QED
    BY <1>3, <1>5, <1>6 DEF new

\* Where a tag may occur.
LEMMA OccurrenceFacts ==
    ASSUME NEW text \in Seq(Symbols), NEW tag \in Seq(Symbols), tag # <<>>,
           NEW r \in Nat \ {0}
    PROVE  /\ Occurrences(text, tag, r) \subseteq Nat \ {0}
           /\ Occurrences(text, tag, r) = {i \in Occurrences(text, tag, 1) : r <= i}
           /\ \A i \in Occurrences(text, tag, 1) :
                i \in Nat \ {0} /\ i + Len(tag) - 1 <= Len(text) /\ TagAt(text, tag, i)
           /\ \A i \in Nat \ {0} : TagAt(text, tag, i) => i \in Occurrences(text, tag, 1)
<1>1. Len(text) \in Nat /\ Len(tag) \in Nat \ {0}
    BY LenProperties, EmptySeq
<1>2. \A i : TagAt(text, tag, i) => i + Len(tag) - 1 <= Len(text)
    BY DEF TagAt
<1>3. \A i \in Nat \ {0} : TagAt(text, tag, i) => i \in 1..Len(text)
    BY <1>1, <1>2
<1> QED
    BY <1>1, <1>2, <1>3 DEF Occurrences

LEMMA StartFacts ==
    ASSUME NEW text \in Seq(Symbols), NEW p \in Names
    PROVE  /\ Starts(text, p) \subseteq Nat \ {0} /\ Ends(text, p) \subseteq Nat \ {0}
           /\ \A i \in Starts(text, p) : i + StartLen(p) - 1 <= Len(text)
           /\ \A j \in Ends(text, p) : j + EndLen(p) - 1 <= Len(text)
           /\ \A r \in Nat \ {0} :
                /\ Occurrences(text, Patterns[p].start, r) = {i \in Starts(text, p) : r <= i}
                /\ Occurrences(text, Patterns[p].end, r) = {j \in Ends(text, p) : r <= j}
BY TagFacts, OccurrenceFacts DEF Starts, Ends, StartLen, EndLen

\* Appending to a text keeps its tags, and a new one ends in what was appended.
LEMMA LongerText ==
    ASSUME NEW text \in Seq(Symbols), NEW more \in Seq(Symbols), NEW p \in Names
    PROVE  /\ \A i \in Nat : i + StartLen(p) - 1 <= Len(text) =>
                (i \in Starts(text \o more, p) <=> i \in Starts(text, p))
           /\ \A j \in Nat : j + EndLen(p) - 1 <= Len(text) =>
                (j \in Ends(text \o more, p) <=> j \in Ends(text, p))
           /\ Starts(text, p) \subseteq Starts(text \o more, p)
           /\ Ends(text, p) \subseteq Ends(text \o more, p)
<1>1. text \o more \in Seq(Symbols)
    BY ConcatProperties
<1>2. ASSUME NEW tag \in Seq(Symbols), tag # <<>>
      PROVE  \A i \in Nat : i + Len(tag) - 1 <= Len(text) =>
                (i \in Occurrences(text \o more, tag, 1) <=> i \in Occurrences(text, tag, 1))
    <2> TAKE i \in Nat
    <2> HAVE i + Len(tag) - 1 <= Len(text)
    <2>1. CASE i = 0
        BY <2>1 DEF Occurrences
    <2>2. CASE i # 0
        <3>1. TagAt(text \o more, tag, i) <=> TagAt(text, tag, i)
            BY <2>2, TagAtPrefix
        <3>2. i \in Occurrences(text \o more, tag, 1) <=> TagAt(text \o more, tag, i)
            BY <1>1, <1>2, <2>2, OccurrenceFacts
        <3>3. i \in Occurrences(text, tag, 1) <=> TagAt(text, tag, i)
            BY <1>2, <2>2, OccurrenceFacts
        <3> QED
            BY <3>1, <3>2, <3>3
    <2> QED
        BY <2>1, <2>2
<1>3. /\ \A i \in Nat : i + StartLen(p) - 1 <= Len(text) =>
            (i \in Starts(text \o more, p) <=> i \in Starts(text, p))
      /\ \A j \in Nat : j + EndLen(p) - 1 <= Len(text) =>
            (j \in Ends(text \o more, p) <=> j \in Ends(text, p))
    BY <1>2, TagFacts DEF Starts, Ends, StartLen, EndLen
<1>4. /\ \A i \in Starts(text, p) : i \in Nat /\ i + StartLen(p) - 1 <= Len(text)
      /\ \A j \in Ends(text, p) : j \in Nat /\ j + EndLen(p) - 1 <= Len(text)
    BY StartFacts
<1> QED
    BY <1>3, <1>4

\* Two tags that are clear of each other do not overlap.
LEMMA ClearOf ==
    ASSUME NEW text \in Seq(Symbols), NEW tag \in Seq(Symbols), NEW other \in Seq(Symbols),
           Clear(tag, other), NEW i \in Nat \ {0}, NEW j \in Nat \ {0},
           TagAt(text, tag, i), TagAt(text, other, j), i <= j
    PROVE  i + Len(tag) <= j
<1>1. Len(tag) \in Nat /\ Len(other) \in Nat
    BY LenProperties
<1> SUFFICES ASSUME j < i + Len(tag) PROVE FALSE
    BY <1>1
<1>2. j - i \in 0..(Len(tag) - 1)
    BY <1>1
<1>3. PICK k \in 1..Len(other) : (j - i) + k <= Len(tag) /\ tag[(j - i) + k] # other[k]
    BY <1>2 DEF Clear
<1>4. text[j + k - 1] = other[k]
    BY TagAtSymbols
<1>5. (j - i) + k \in 1..Len(tag) /\ i + ((j - i) + k) - 1 = j + k - 1
    BY <1>1, <1>2, <1>3
<1>6. text[i + ((j - i) + k) - 1] = tag[(j - i) + k]
    BY <1>5, TagAtSymbols
<1> QED
    BY <1>3, <1>4, <1>5, <1>6

LEMMA Apart ==
    ASSUME NEW text \in Seq(Symbols), NEW p \in Names, TagsApart(p),
           NEW i \in Starts(text, p), NEW j \in Ends(text, p)
    PROVE  i + StartLen(p) <= j \/ j + EndLen(p) <= i
<1>1. /\ i \in Nat \ {0} /\ TagAt(text, Patterns[p].start, i)
      /\ j \in Nat \ {0} /\ TagAt(text, Patterns[p].end, j)
    BY TagFacts, OccurrenceFacts DEF Starts, Ends
<1>2. CASE i <= j
    BY <1>1, <1>2, TagFacts, ClearOf DEF TagsApart, StartLen
<1>3. CASE j <= i
    BY <1>1, <1>3, TagFacts, ClearOf DEF TagsApart, EndLen
<1> QED
    BY <1>1, <1>2, <1>3

-----------------------------------------------------------------------------
(* What finditer yields.                                                   *)

LEMMA FirstMatchIs ==
    ASSUME NEW text \in Seq(Symbols), NEW p \in Names, NEW r \in Nat \ {0}, NEW m
    PROVE  m \in FirstMatch(text, p, r) <=>
              \E s, e \in Nat : /\ m = <<s, e>> /\ r <= s /\ Pair(text, p, s, e)
                                /\ \A i \in Starts(text, p) : r <= i => s <= i
<1> DEFINE starts == Occurrences(text, Patterns[p].start, r)
           first == Min(starts)
           ends == Occurrences(text, Patterns[p].end, first + StartLen(p))
           firstEnd == Min(ends)
           e0 == firstEnd + EndLen(p)
<1>1. /\ StartLen(p) \in Nat \ {0} /\ EndLen(p) \in Nat \ {0}
      /\ Starts(text, p) \subseteq Nat \ {0} /\ Ends(text, p) \subseteq Nat \ {0}
    BY TagFacts, StartFacts
<1>2. starts = {i \in Starts(text, p) : r <= i}
    BY StartFacts
<1>3. FirstMatch(text, p, r) = IF starts = {} \/ ends = {} THEN {} ELSE {<<first, e0>>}
    BY DEF FirstMatch, StartLen, EndLen
<1> HIDE DEF starts
<1>4. starts # {} => /\ first \in Starts(text, p) /\ r <= first
                     /\ \A i \in Starts(text, p) : r <= i => first <= i
                     /\ first \in Nat \ {0}
    <2> HAVE starts # {}
    <2>1. starts \in SUBSET Nat
        BY <1>1, <1>2
    <2>2. first \in starts /\ \A y \in starts : first <= y
        BY <2>1, MinFacts
    <2> HIDE DEF first
    <2> QED
        BY <1>1, <1>2, <2>2
<1> HIDE DEF first
<1>5. starts # {} => ends = {j \in Ends(text, p) : first + StartLen(p) <= j}
    <2> HAVE starts # {}
    <2>1. first + StartLen(p) \in Nat \ {0}
        BY <1>1, <1>4
    <2> QED
        BY <2>1, StartFacts
<1> HIDE DEF ends
<1>6. starts # {} /\ ends # {} => /\ e0 \in Nat /\ Pair(text, p, first, e0)
    <2> HAVE starts # {} /\ ends # {}
    <2>1. ends \in SUBSET Nat
        BY <1>1, <1>5
    <2>2. firstEnd \in ends /\ \A y \in ends : firstEnd <= y
        BY <2>1, MinFacts
    <2> HIDE DEF firstEnd
    <2>3. firstEnd \in Nat /\ e0 \in Nat /\ e0 - EndLen(p) = firstEnd
        BY <1>1, <2>1, <2>2
    <2> QED
        BY <1>4, <1>5, <2>2, <2>3 DEF Pair
<1> HIDE DEF e0
<1>7. ASSUME m \in FirstMatch(text, p, r)
      PROVE  \E s, e \in Nat : /\ m = <<s, e>> /\ r <= s /\ Pair(text, p, s, e)
                               /\ \A i \in Starts(text, p) : r <= i => s <= i
    BY <1>3, <1>4, <1>6, <1>7
<1>8. ASSUME NEW s \in Nat, NEW e \in Nat, m = <<s, e>>, r <= s, Pair(text, p, s, e),
             \A i \in Starts(text, p) : r <= i => s <= i
      PROVE  m \in FirstMatch(text, p, r)
    <2>1. s \in starts /\ starts # {}
        BY <1>2, <1>8 DEF Pair
    <2>2. s = first
        BY <1>1, <1>2, <1>4, <1>8, <2>1
    <2>3. e - EndLen(p) \in ends
        BY <1>5, <1>8, <2>1, <2>2 DEF Pair
    <2>4. ends # {} /\ e0 \in Nat /\ Pair(text, p, s, e0)
        BY <1>6, <2>1, <2>2, <2>3
    <2>5. e - EndLen(p) <= e0 - EndLen(p) /\ e0 - EndLen(p) <= e - EndLen(p)
        BY <1>8, <2>4 DEF Pair
    <2>6. e = e0
        BY <1>1, <1>8, <2>4, <2>5
    <2> QED
        BY <1>3, <1>8, <2>1, <2>2, <2>4, <2>6
<1> QED
    BY <1>7, <1>8

\* Pairs in a text.
LEMMA PairFacts ==
    ASSUME NEW text \in Seq(Symbols), NEW p \in Names, NEW s \in Nat, NEW e \in Nat,
           Pair(text, p, s, e)
    PROVE  /\ s >= 1 /\ e - EndLen(p) \in Nat \ {0} /\ s < e - EndLen(p) /\ e - EndLen(p) < e
           /\ e <= Len(text) + 1
<1>1. StartLen(p) \in Nat \ {0} /\ EndLen(p) \in Nat \ {0} /\ Len(text) \in Nat
    BY TagFacts, LenProperties
<1>2. s \in Starts(text, p) /\ e - EndLen(p) \in Ends(text, p) /\ s + StartLen(p) <= e - EndLen(p)
    BY DEF Pair
<1>3. s \in Nat \ {0} /\ e - EndLen(p) \in Nat \ {0}
    BY <1>2, StartFacts
<1>4. (e - EndLen(p)) + EndLen(p) - 1 <= Len(text)
    BY <1>2, StartFacts
<1> QED
    BY <1>1, <1>2, <1>3, <1>4

\* Where the searches begin.
LEMMA ResumeFacts ==
    ASSUME NEW text \in Seq(Symbols), NEW p \in Names, NEW from \in Nat \ {0}
    PROVE  /\ Resumes(text, p, from) \subseteq Nat \ {0} /\ from \in Resumes(text, p, from)
           /\ \A r \in Resumes(text, p, from) :
                /\ from <= r
                /\ r = from \/ \E j \in Ends(text, p) : from <= j /\ r = j + EndLen(p)
                /\ \A m \in FirstMatch(text, p, r) : m[2] \in Resumes(text, p, from)
<1> DEFINE at == {from} \cup {i + EndLen(p) : i \in Occurrences(text, Patterns[p].end, from)}
           Closed(R) == from \in R /\ \A r \in R : \A m \in FirstMatch(text, p, r) : m[2] \in R
<1>1. Resumes(text, p, from) = {r \in at : \A R \in SUBSET at : Closed(R) => r \in R}
    BY DEF Resumes, EndLen
<1>2. /\ EndLen(p) \in Nat \ {0} /\ Ends(text, p) \subseteq Nat \ {0}
      /\ Occurrences(text, Patterns[p].end, from) = {j \in Ends(text, p) : from <= j}
    BY TagFacts, StartFacts
<1>3. at = {from} \cup {j + EndLen(p) : j \in {i \in Ends(text, p) : from <= i}}
    BY <1>2
<1> HIDE DEF at
<1>4. \A r \in at : /\ r \in Nat \ {0} /\ from <= r
                    /\ r = from \/ \E j \in Ends(text, p) : from <= j /\ r = j + EndLen(p)
    BY <1>2, <1>3
<1>5. from \in Resumes(text, p, from)
    <2>1. from \in at
        BY <1>3
    <2> QED
        BY <1>1, <2>1
<1>6. ASSUME NEW r \in Resumes(text, p, from), NEW m \in FirstMatch(text, p, r)
      PROVE  m[2] \in Resumes(text, p, from)
    <2>1. r \in Nat \ {0} /\ from <= r
        BY <1>1, <1>4
    <2>2. PICK s, e \in Nat : m = <<s, e>> /\ r <= s /\ Pair(text, p, s, e)
        BY <2>1, FirstMatchIs
    <2>3. e - EndLen(p) \in Ends(text, p) /\ from <= e - EndLen(p)
        BY <2>1, <2>2, PairFacts DEF Pair
    <2>4. e \in at
        <3>1. e = (e - EndLen(p)) + EndLen(p)
            BY <1>2
        <3> QED
            BY <1>3, <2>3, <3>1
    <2>5. ASSUME NEW R \in SUBSET at, Closed(R) PROVE e \in R
        <3>1. r \in R
            BY <1>1, <2>5
        <3> QED
            BY <2>2, <2>5, <3>1
    <2>6. m[2] = e
        BY <2>2
    <2> QED
        BY <1>1, <2>4, <2>5, <2>6
<1> QED
    BY <1>1, <1>4, <1>5, <1>6

\* Whatever the tags, what finditer yields are pairs.
LEMMA MatchesArePairs ==
    ASSUME NEW text \in Seq(Symbols), NEW p \in Names, NEW from \in Nat \ {0},
           NEW m \in Matches(text, p, from)
    PROVE  \E s, e \in Nat : m = <<s, e>> /\ from <= s /\ Pair(text, p, s, e)
<1>1. PICK r \in Resumes(text, p, from) : m \in FirstMatch(text, p, r)
    BY DEF Matches
<1>2. r \in Nat \ {0} /\ from <= r
    BY ResumeFacts
<1>3. PICK s, e \in Nat : m = <<s, e>> /\ r <= s /\ Pair(text, p, s, e)
    BY <1>1, <1>2, FirstMatchIs
<1> QED
    BY <1>2, <1>3

\* If the tags are apart, they are the pairs whose start tag is in no earlier one.
LEMMA MatchesAreDirect ==
    ASSUME NEW text \in Seq(Symbols), NEW p \in Names, TagsApart(p), NEW from \in Nat \ {0},
           NEW s \in Nat, NEW e \in Nat
    PROVE  <<s, e>> \in Matches(text, p, from) <=> Direct(text, p, from, s, e)
<1>1. /\ StartLen(p) \in Nat \ {0} /\ EndLen(p) \in Nat \ {0}
      /\ Starts(text, p) \subseteq Nat \ {0} /\ Ends(text, p) \subseteq Nat \ {0}
    BY TagFacts, StartFacts
<1>2. ASSUME <<s, e>> \in Matches(text, p, from)
      PROVE  Direct(text, p, from, s, e)
    <2>1. PICK r \in Resumes(text, p, from) : <<s, e>> \in FirstMatch(text, p, r)
        BY <1>2 DEF Matches
    <2>2. /\ r \in Nat \ {0} /\ from <= r
          /\ r = from \/ \E j \in Ends(text, p) : from <= j /\ r = j + EndLen(p)
        BY ResumeFacts
    <2>3. r <= s /\ Pair(text, p, s, e) /\ \A i \in Starts(text, p) : r <= i => s <= i
        BY <2>1, <2>2, FirstMatchIs
    <2>4. ASSUME NEW i \in Starts(text, p), from <= i, i < s
          PROVE  \E j \in Ends(text, p) : i + StartLen(p) <= j /\ j < s
        <3>1. i < r
            BY <1>1, <2>2, <2>3, <2>4
        <3>2. PICK j \in Ends(text, p) : r = j + EndLen(p)
            BY <1>1, <2>2, <2>4, <3>1
        <3>3. i + StartLen(p) <= j
            BY <1>1, <3>1, <3>2, Apart
        <3> QED
            BY <1>1, <2>2, <2>3, <3>2, <3>3
    <2> QED
        BY <2>2, <2>3, <2>4 DEF Direct
<1>3. ASSUME Direct(text, p, from, s, e)
      PROVE  <<s, e>> \in Matches(text, p, from)
    <2> DEFINE R == Resumes(text, p, from)
               gaps == {g \in Nat : \E r \in R : r + g = s}
    <2>1. from <= s /\ Pair(text, p, s, e) /\ s \in Starts(text, p)
        BY <1>3 DEF Direct, Pair
    <2>2. R \subseteq Nat \ {0} /\ from \in R /\ \A r \in R : from <= r
        BY ResumeFacts
    <2>3. PICK g \in gaps : \A h \in gaps : g <= h
        <3>1. s - from \in gaps
            BY <2>1, <2>2
        <3> QED
            BY <3>1, LeastExists
    <2>4. PICK r \in R : r + g = s /\ g \in Nat
        BY <2>3
    <2>5. /\ r \in Nat \ {0} /\ from <= r /\ r <= s
          /\ \A q \in R : q <= s => q <= r
        <3>1. r \in Nat \ {0} /\ from <= r /\ g \in Nat /\ r + g = s
            BY <2>2, <2>4
        <3>2. ASSUME NEW q \in R, q <= s
              PROVE  q <= r
            <4>1. q \in Nat
                BY <2>2
            <4>2. s - q \in Nat /\ q + (s - q) = s
                BY <3>2, <4>1
            <4>3. s - q \in gaps
                BY <4>2
            <4>4. g <= s - q
                BY <2>3, <4>3
            <4> HIDE DEF gaps, R
            <4> QED
                BY <3>1, <4>1, <4>4
        <3> QED
            BY <3>1, <3>2
    <2> DEFINE later == {i \in Starts(text, p) : r <= i}
    <2>6. PICK first \in later : \A i \in later : first <= i
        <3>1. s \in later /\ later \in SUBSET Nat
            BY <1>1, <2>1, <2>5
        <3> QED
            BY <3>1, LeastExists
    <2>7. first \in Nat /\ r <= first /\ first <= s /\ first \in Starts(text, p)
        BY <1>1, <2>1, <2>5, <2>6
    <2>8. CASE first = s
        <3>1. <<s, e>> \in FirstMatch(text, p, r)
            BY <2>1, <2>5, <2>6, <2>8, FirstMatchIs
        <3> QED
            BY <2>4, <3>1 DEF Matches
    <2>9. CASE first < s
        <3>1. PICK j \in Ends(text, p) : first + StartLen(p) <= j /\ j < s
            BY <1>3, <2>5, <2>7, <2>9 DEF Direct
        <3> DEFINE after == {i \in Ends(text, p) : first + StartLen(p) <= i}
        <3>2. PICK end \in after : \A i \in after : end <= i
            <4>1. j \in after /\ after \in SUBSET Nat
                BY <1>1, <3>1
            <4> QED
                BY <4>1, LeastExists
        <3>3. /\ end \in Nat /\ end \in Ends(text, p) /\ first + StartLen(p) <= end
              /\ end <= j /\ end < s
            BY <1>1, <2>1, <3>1, <3>2
        <3>4. end + EndLen(p) <= s
            <4>1. s + StartLen(p) <= end \/ end + EndLen(p) <= s
                BY <2>1, <3>3, Apart
            <4> QED
                BY <1>1, <3>3, <4>1
        <3>5. /\ end + EndLen(p) \in Nat /\ (end + EndLen(p)) - EndLen(p) = end
              /\ r < end + EndLen(p)
            BY <1>1, <2>5, <2>7, <3>3
        <3>6. Pair(text, p, first, end + EndLen(p))
            BY <2>7, <3>2, <3>3, <3>5 DEF Pair
        <3>7. <<first, end + EndLen(p)>> \in FirstMatch(text, p, r)
            BY <2>5, <2>6, <2>7, <3>5, <3>6, FirstMatchIs
        <3>8. end + EndLen(p) \in R
            BY <2>4, <3>7, ResumeFacts
        <3> QED
            BY <1>1, <2>5, <3>4, <3>5, <3>8
    <2> QED
        BY <2>1, <2>7, <2>8, <2>9, <1>1
<1> QED
    BY <1>2, <1>3

-----------------------------------------------------------------------------
(* The invariant.                                                          *)

\* A completed pattern is a pair, it ends at most one end tag beyond where the next scan begins
\* (so that a scan finds no start tag inside it), and no two of one pattern overlap.
CompleteInv ==
    /\ \A m \in complete :
          /\ Pair(buffer, m[3], m[1], m[2])
          /\ m[2] <= searchPos[m[3]] + EndLen(m[3])
    /\ \A m, n \in complete :
          m[3] = n[3] /\ TagsApart(m[3]) /\ m # n => m[2] <= n[1] \/ n[2] <= m[1]

\* The next scan begins at the beginning, or in the last symbols of an end tag or at its end: a
\* start tag before that place has an end tag.
Resumable(p) ==
    \/ searchPos[p] = 1
    \/ \E j \in Ends(buffer, p) : j <= searchPos[p] /\ searchPos[p] <= j + EndLen(p)

AgreeInv ==
    \A p \in Names :
        TagsApart(p) /\ longest <= EndLen(p) =>
            /\ Resumable(p)
            /\ \A s, e \in Nat : <<s, e, p>> \in complete <=> Direct(buffer, p, 1, s, e)

ExtractorInv == TypeOK /\ CompleteInv /\ AgreeInv

-----------------------------------------------------------------------------
(* Pairs in a longer text.                                                 *)

LEMMA PairKept ==
    ASSUME NEW text \in Seq(Symbols), NEW more \in Seq(Symbols), NEW p \in Names,
           NEW s \in Nat, NEW e \in Nat
    PROVE  /\ Pair(text, p, s, e) => Pair(text \o more, p, s, e)
           /\ e <= Len(text) + 1 /\ Pair(text \o more, p, s, e) => Pair(text, p, s, e)
<1> DEFINE new == text \o more
<1>1. /\ StartLen(p) \in Nat \ {0} /\ EndLen(p) \in Nat \ {0} /\ Len(text) \in Nat
      /\ Ends(new, p) \subseteq Nat \ {0} /\ Ends(text, p) \subseteq Nat \ {0}
    BY TagFacts, StartFacts, LenProperties, ConcatProperties
<1>2. /\ Starts(text, p) \subseteq Starts(new, p) /\ Ends(text, p) \subseteq Ends(new, p)
      /\ \A i \in Nat : i + StartLen(p) - 1 <= Len(text) =>
            (i \in Starts(new, p) <=> i \in Starts(text, p))
      /\ \A j \in Nat : j + EndLen(p) - 1 <= Len(text) =>
            (j \in Ends(new, p) <=> j \in Ends(text, p))
    BY LongerText
<1>3. \A j \in Ends(text, p) : j + EndLen(p) - 1 <= Len(text)
    BY StartFacts
<1> HIDE DEF new
<1>4. ASSUME Pair(text, p, s, e) PROVE Pair(new, p, s, e)
    <2>1. ASSUME NEW j \in Ends(new, p), s + StartLen(p) <= j
          PROVE  e - EndLen(p) <= j
        <3>1. CASE j \in Ends(text, p)
            BY <1>4, <2>1, <3>1 DEF Pair
        <3>2. CASE j \notin Ends(text, p)
            <4>1. j \in Nat /\ j + EndLen(p) - 1 > Len(text)
                BY <1>1, <1>2, <3>2
            <4>2. (e - EndLen(p)) + EndLen(p) - 1 <= Len(text)
                BY <1>3, <1>4 DEF Pair
            <4> QED
                BY <1>1, <4>1, <4>2
        <3> QED
            BY <3>1, <3>2
    <2> QED
        BY <1>2, <1>4, <2>1 DEF Pair
<1>5. ASSUME e <= Len(text) + 1, Pair(new, p, s, e) PROVE Pair(text, p, s, e)
    <2>1. e - EndLen(p) \in Nat /\ s + StartLen(p) <= e - EndLen(p)
        BY <1>1, <1>5 DEF Pair
    <2>2. (e - EndLen(p)) + EndLen(p) - 1 <= Len(text) /\ s + StartLen(p) - 1 <= Len(text)
        BY <1>1, <1>5, <2>1
    <2>3. s \in Starts(text, p) /\ e - EndLen(p) \in Ends(text, p)
        BY <1>2, <1>5, <2>1, <2>2 DEF Pair
    <2> QED
        BY <1>2, <1>5, <2>3 DEF Pair
<1> QED
    BY <1>4, <1>5 DEF new

LEMMA DirectKept ==
    ASSUME NEW text \in Seq(Symbols), NEW more \in Seq(Symbols), NEW p \in Names,
           NEW s \in Nat, NEW e \in Nat, e <= Len(text) + 1
    PROVE  Direct(text \o more, p, 1, s, e) <=> Direct(text, p, 1, s, e)
<1> DEFINE new == text \o more
<1>1. /\ StartLen(p) \in Nat \ {0} /\ EndLen(p) \in Nat \ {0} /\ Len(text) \in Nat
      /\ new \in Seq(Symbols)
      /\ Starts(new, p) \subseteq Nat \ {0} /\ Ends(new, p) \subseteq Nat \ {0}
    BY TagFacts, StartFacts, LenProperties, ConcatProperties
<1>2. /\ Starts(text, p) \subseteq Starts(new, p) /\ Ends(text, p) \subseteq Ends(new, p)
      /\ \A i \in Nat : i + StartLen(p) - 1 <= Len(text) =>
            (i \in Starts(new, p) <=> i \in Starts(text, p))
      /\ \A j \in Nat : j + EndLen(p) - 1 <= Len(text) =>
            (j \in Ends(new, p) <=> j \in Ends(text, p))
    BY LongerText
<1>3. Pair(new, p, s, e) <=> Pair(text, p, s, e)
    BY PairKept
<1> HIDE DEF new
<1> SUFFICES ASSUME Pair(new, p, s, e), Pair(text, p, s, e)
             PROVE  Direct(new, p, 1, s, e) <=> Direct(text, p, 1, s, e)
    BY <1>3 DEF Direct, new
<1>4. s + StartLen(p) + EndLen(p) <= Len(text) + 1
    BY <1>1 DEF Pair
<1>5. \A i \in Nat : i < s => (i \in Starts(new, p) <=> i \in Starts(text, p))
    BY <1>1, <1>2, <1>4
<1>6. \A j \in Nat : j < s => (j \in Ends(new, p) <=> j \in Ends(text, p))
    BY <1>1, <1>2, <1>4
<1> QED
    BY <1>1, <1>2, <1>5, <1>6 DEF Direct

\* What one run of finditer yields does not overlap.
LEMMA DirectDisjoint ==
    ASSUME NEW text \in Seq(Symbols), NEW p \in Names, TagsApart(p), NEW from \in Nat \ {0},
           NEW s \in Nat, NEW e \in Nat, Direct(text, p, from, s, e),
           NEW t \in Nat, NEW f \in Nat, Direct(text, p, from, t, f)
    PROVE  (s = t /\ e = f) \/ e <= t \/ f <= s
<1>1. /\ StartLen(p) \in Nat \ {0} /\ EndLen(p) \in Nat \ {0}
      /\ Starts(text, p) \subseteq Nat \ {0} /\ Ends(text, p) \subseteq Nat \ {0}
    BY TagFacts, StartFacts
<1>2. ASSUME NEW i \in Nat, NEW k \in Nat, Direct(text, p, from, i, k),
             NEW j \in Nat, NEW l \in Nat, Direct(text, p, from, j, l), i < j
      PROVE  k <= j
    <2>1. /\ Pair(text, p, i, k) /\ i \in Starts(text, p) /\ j \in Starts(text, p)
          /\ from <= i
        BY <1>2 DEF Direct, Pair
    <2>2. PICK end \in Ends(text, p) : i + StartLen(p) <= end /\ end < j
        BY <1>2, <2>1 DEF Direct
    <2>3. k - EndLen(p) <= end
        BY <2>1, <2>2 DEF Pair
    <2>4. end + EndLen(p) <= j
        <3>1. j + StartLen(p) <= end \/ end + EndLen(p) <= j
            BY <2>1, <2>2, Apart
        <3>2. /\ end \in Nat /\ end < j
              /\ StartLen(p) \in Nat /\ EndLen(p) \in Nat
            BY <1>1, <2>2
        <3> QED
            BY <3>1, <3>2
    <2> QED
        BY <1>1, <2>2, <2>3, <2>4
<1>3. CASE s = t
    <2>1. e - EndLen(p) <= f - EndLen(p) /\ f - EndLen(p) <= e - EndLen(p)
        BY <1>3 DEF Direct, Pair
    <2> QED
        BY <1>1, <1>3, <2>1
<1> QED
    BY <1>2, <1>3

-----------------------------------------------------------------------------
(* A chunk.                                                                *)

\* What feed_chunk does, in terms of the tags.
LEMMA FeedFacts ==
    ASSUME TypeOK, NEW chunk \in Chunks, FeedChunk(chunk)
    PROVE  /\ buffer \in Seq(Symbols) /\ chunk \in Seq(Symbols) /\ buffer' \in Seq(Symbols)
           /\ buffer' = buffer \o chunk
           /\ Len(buffer) \in Nat /\ Len(chunk) \in 1..MaxChunk
           /\ Len(buffer') = Len(buffer) + Len(chunk) /\ Len(buffer') <= MaxBuffer
           /\ longest \in Nat /\ longest' = IF longest <= Len(chunk) THEN Len(chunk) ELSE longest
           /\ \A p \in Names :
                /\ searchPos[p] \in Nat \ {0} /\ searchPos'[p] \in 1..MaxBuffer + 1
                /\ EndLen(p) \in Nat \ {0}
                /\ NeedScan(p, buffer') <=>
                        \E j \in Ends(buffer', p) : Len(buffer) - EndLen(p) + 1 <= j
                /\ IF NeedScan(p, buffer')
                   THEN /\ Len(buffer') - EndLen(p) + 1 <= searchPos'[p]
                        /\ searchPos'[p] = 1 \/ searchPos'[p] = Len(buffer') - EndLen(p) + 1
                   ELSE searchPos'[p] = searchPos[p]
           /\ \A s, e, p : p \in Names =>
                (<<s, e, p>> \in complete' <=>
                    \/ <<s, e, p>> \in complete
                    \/ /\ NeedScan(p, buffer')
                       /\ <<s, e>> \in Matches(buffer', p, searchPos[p]))
<1>1. PICK n \in 1..MaxChunk : chunk \in [1..n -> Symbols]
    BY DEF Chunks
<1>2. n \in Nat \ {0}
    BY BoundsAssumption
<1>3. chunk \in Seq(Symbols) /\ Len(chunk) = n
    BY <1>1, <1>2
<1>4. buffer \in Seq(Symbols) /\ Len(buffer) \in Nat /\ longest \in Nat
    BY LenProperties, BoundsAssumption DEF TypeOK
<1>5. buffer' = buffer \o chunk /\ Len(buffer) + Len(chunk) <= MaxBuffer
    BY DEF FeedChunk, Fits
<1>6. buffer' \in Seq(Symbols) /\ Len(buffer') = Len(buffer) + Len(chunk)
    BY <1>3, <1>4, <1>5, ConcatProperties
<1>7. longest' = IF longest <= Len(chunk) THEN Len(chunk) ELSE longest
    <2>1. longest' = Max({longest, Len(chunk)})
        BY DEF FeedChunk
    <2> QED
        BY <1>2, <1>3, <1>4, <2>1, MaxOfTwo
<1>8. ASSUME NEW p \in Names
      PROVE  /\ searchPos[p] \in Nat \ {0} /\ searchPos'[p] \in 1..MaxBuffer + 1
             /\ EndLen(p) \in Nat \ {0}
             /\ NeedScan(p, buffer') <=>
                     \E j \in Ends(buffer', p) : Len(buffer) - EndLen(p) + 1 <= j
             /\ IF NeedScan(p, buffer')
                THEN /\ Len(buffer') - EndLen(p) + 1 <= searchPos'[p]
                     /\ searchPos'[p] = 1 \/ searchPos'[p] = Len(buffer') - EndLen(p) + 1
                ELSE searchPos'[p] = searchPos[p]
    <2>1. EndLen(p) \in Nat \ {0} /\ Ends(buffer', p) \subseteq Nat \ {0}
        BY <1>6, TagFacts, StartFacts
    <2>2. searchPos[p] \in Nat \ {0} /\ searchPos[p] \in 1..MaxBuffer + 1
        BY BoundsAssumption DEF TypeOK
    <2> DEFINE window == Max({1, Len(buffer) - EndLen(p) + 1})
               near == Max({1, Len(buffer') - EndLen(p) + 1})
    <2>3. window = IF 1 <= Len(buffer) - EndLen(p) + 1 THEN Len(buffer) - EndLen(p) + 1 ELSE 1
        BY <1>4, <2>1, MaxOfTwo
    <2>4. near = IF 1 <= Len(buffer') - EndLen(p) + 1 THEN Len(buffer') - EndLen(p) + 1 ELSE 1
        BY <1>3, <1>4, <1>6, <2>1, MaxOfTwo
    <2>5. NeedScan(p, buffer') <=> Occurrences(buffer', Patterns[p].end, window) # {}
        BY DEF NeedScan, EndLen
    <2>6. NextSearchPos(p, buffer') = near
        BY DEF NextSearchPos, EndLen
    <2>7. searchPos'[p] = IF NeedScan(p, buffer') THEN NextSearchPos(p, buffer') ELSE searchPos[p]
        BY <1>5 DEF FeedChunk
    <2> HIDE DEF window, near
    <2>8. /\ window \in Nat \ {0}
          /\ near \in 1..MaxBuffer + 1 /\ Len(buffer') - EndLen(p) + 1 <= near
          /\ near = 1 \/ near = Len(buffer') - EndLen(p) + 1
        <3>1. Len(buffer') \in Nat /\ Len(buffer') <= MaxBuffer /\ EndLen(p) \in Nat \ {0}
            BY <1>2, <1>3, <1>4, <1>5, <1>6, <2>1
        <3>2. window \in Nat \ {0}
            BY <1>4, <2>1, <2>3
        <3>3. /\ near \in Nat /\ 1 <= near /\ near <= MaxBuffer + 1
              /\ Len(buffer') - EndLen(p) + 1 <= near
              /\ near = 1 \/ near = Len(buffer') - EndLen(p) + 1
            BY <2>4, <3>1, BoundsAssumption
        <3> QED
            BY <3>2, <3>3, BoundsAssumption
    <2>9. Occurrences(buffer', Patterns[p].end, window) = {j \in Ends(buffer', p) : window <= j}
        BY <1>6, <2>8, StartFacts
    <2>10. \A j \in Ends(buffer', p) : window <= j <=> Len(buffer) - EndLen(p) + 1 <= j
        BY <1>4, <2>1, <2>3
    <2> QED
        BY <2>1, <2>2, <2>5, <2>6, <2>7, <2>8, <2>9, <2>10
<1>9. ASSUME NEW s, NEW e, NEW p \in Names
      PROVE  <<s, e, p>> \in complete' <=>
                \/ <<s, e, p>> \in complete
                \/ /\ NeedScan(p, buffer')
                   /\ <<s, e>> \in Matches(buffer', p, searchPos[p])
    <2>1. complete' = complete \cup NewMatches(buffer')
        BY <1>5 DEF FeedChunk
    <2>2. ASSUME <<s, e, p>> \in NewMatches(buffer')
          PROVE  NeedScan(p, buffer') /\ <<s, e>> \in Matches(buffer', p, searchPos[p])
        <3>1. PICK q \in Names : /\ NeedScan(q, buffer')
                                 /\ \E m \in Matches(buffer', q, searchPos[q]) :
                                        <<s, e, p>> = <<m[1], m[2], q>>
            BY <2>2 DEF NewMatches
        <3>2. PICK m \in Matches(buffer', q, searchPos[q]) : <<s, e, p>> = <<m[1], m[2], q>>
            BY <3>1
        <3>3. q = p /\ s = m[1] /\ e = m[2]
            BY <3>2
        <3>4. m = <<s, e>>
            BY <1>6, <1>8, <3>2, <3>3, MatchesArePairs
        <3> QED
            BY <3>1, <3>2, <3>3, <3>4
    <2>3. ASSUME NeedScan(p, buffer'), <<s, e>> \in Matches(buffer', p, searchPos[p])
          PROVE  <<s, e, p>> \in NewMatches(buffer')
        <3>1. <<s, e, p>> \in {<<m[1], m[2], p>> : m \in Matches(buffer', p, searchPos[p])}
            BY <2>3
        <3> QED
            BY <2>3, <3>1 DEF NewMatches
    <2> QED
        BY <2>1, <2>2, <2>3
<1> QED
    BY <1>2, <1>3, <1>4, <1>5, <1>6, <1>7, <1>8, <1>9

LEMMA FeedKeepsTypes ==
    ASSUME TypeOK, NEW chunk \in Chunks, FeedChunk(chunk)
    PROVE  TypeOK'
<1>1. /\ buffer' \in Seq(Symbols) /\ Len(buffer') \in Nat /\ Len(buffer') <= MaxBuffer
      /\ searchPos' \in [Names -> 1..MaxBuffer + 1]
    <2>1. DOMAIN searchPos' = Names /\ searchPos' = [p \in Names |-> searchPos'[p]]
        BY DEF FeedChunk
    <2> QED
        BY <2>1, FeedFacts, BoundsAssumption
<1>2. ASSUME NEW p \in Names, NEW s \in Nat, NEW e \in Nat, Pair(buffer', p, s, e)
      PROVE  s \in 1..MaxBuffer /\ e \in 1..MaxBuffer + 1
    BY <1>1, <1>2, PairFacts, BoundsAssumption
<1>3. NewMatches(buffer') \subseteq (1..MaxBuffer) \X (1..MaxBuffer + 1) \X Names
    <2>1. ASSUME NEW m \in NewMatches(buffer')
          PROVE  m \in (1..MaxBuffer) \X (1..MaxBuffer + 1) \X Names
        <3>1. PICK p \in Names : \E n \in Matches(buffer', p, searchPos[p]) : m = <<n[1], n[2], p>>
            BY DEF NewMatches
        <3>2. PICK n \in Matches(buffer', p, searchPos[p]) : m = <<n[1], n[2], p>>
            BY <3>1
        <3>3. searchPos[p] \in Nat \ {0}
            BY FeedFacts
        <3>4. PICK s, e \in Nat : n = <<s, e>> /\ Pair(buffer', p, s, e)
            BY <1>1, <3>3, MatchesArePairs
        <3> QED
            BY <1>2, <3>2, <3>4
    <2> QED
        BY <2>1
<1>4. complete' \subseteq (1..MaxBuffer) \X (1..MaxBuffer + 1) \X Names
    BY <1>3 DEF FeedChunk, TypeOK
<1>5. ASSUME NEW new \in Seq(Symbols), NEW done, Len(new) <= MaxBuffer
      PROVE  Incomplete(new, done) \subseteq (1..MaxBuffer) \X Names
    <2> SUFFICES ASSUME NEW a \in Incomplete(new, done)
                 PROVE  a \in (1..MaxBuffer) \X Names
        OBVIOUS
    <2>1. PICK p \in Names : \E s \in Starts(new, p) : a = <<s, p>>
        BY DEF Incomplete, Starts
    <2>2. PICK s \in Starts(new, p) : a = <<s, p>>
        BY <2>1
    <2>3. s \in 1..MaxBuffer
        <3>1. s \in Nat \ {0} /\ s + StartLen(p) - 1 <= Len(new)
            BY StartFacts
        <3>2. StartLen(p) \in Nat \ {0} /\ Len(new) \in Nat
            BY TagFacts, LenProperties
        <3> QED
            BY <1>5, <3>1, <3>2, BoundsAssumption
    <2> QED
        BY <2>2, <2>3
<1>6. active' \subseteq (1..MaxBuffer) \X Names
    <2>1. Incomplete(buffer', complete \cup NewMatches(buffer')) \subseteq (1..MaxBuffer) \X Names
        BY <1>1, <1>5
    <2>2. active' \subseteq active \cup Incomplete(buffer', complete \cup NewMatches(buffer'))
        BY DEF FeedChunk
    <2> QED
        BY <2>1, <2>2 DEF TypeOK
<1>7. longest' \in 0..MaxChunk
    <2>1. /\ Len(chunk) \in 1..MaxChunk
          /\ longest' = IF longest <= Len(chunk) THEN Len(chunk) ELSE longest
        BY FeedFacts
    <2>2. longest \in 0..MaxChunk
        BY DEF TypeOK
    <2> QED
        BY <2>1, <2>2, BoundsAssumption
<1>8. malformed' = {}
    BY DEF FeedChunk
<1> QED
    BY <1>1, <1>4, <1>6, <1>7, <1>8 DEF TypeOK

LEMMA FeedKeepsComplete ==
    ASSUME ExtractorInv, NEW chunk \in Chunks, FeedChunk(chunk)
    PROVE  CompleteInv'
<1>1. TypeOK /\ CompleteInv
    BY DEF ExtractorInv
<1>2. /\ buffer \in Seq(Symbols) /\ chunk \in Seq(Symbols) /\ buffer' \in Seq(Symbols)
      /\ buffer' = buffer \o chunk /\ Len(buffer) \in Nat /\ Len(buffer') \in Nat
      /\ Len(buffer) <= Len(buffer')
      /\ \A p \in Names :
            /\ searchPos[p] \in Nat \ {0} /\ searchPos'[p] \in Nat \ {0}
            /\ EndLen(p) \in Nat \ {0} /\ StartLen(p) \in Nat \ {0}
            /\ \/ searchPos'[p] = searchPos[p]
               \/ Len(buffer') - EndLen(p) + 1 <= searchPos'[p]
            /\ NeedScan(p, buffer') => Len(buffer') - EndLen(p) + 1 <= searchPos'[p]
    <2>1. /\ buffer \in Seq(Symbols) /\ chunk \in Seq(Symbols) /\ buffer' \in Seq(Symbols)
          /\ buffer' = buffer \o chunk /\ Len(buffer) \in Nat /\ Len(chunk) \in 1..MaxChunk
          /\ Len(buffer') = Len(buffer) + Len(chunk)
        BY <1>1, FeedFacts
    <2>2. Len(buffer') \in Nat /\ Len(buffer) <= Len(buffer')
        BY <2>1, BoundsAssumption
    <2>3. ASSUME NEW p \in Names
          PROVE  /\ searchPos[p] \in Nat \ {0} /\ searchPos'[p] \in Nat \ {0}
                 /\ EndLen(p) \in Nat \ {0} /\ StartLen(p) \in Nat \ {0}
                 /\ \/ searchPos'[p] = searchPos[p]
                    \/ Len(buffer') - EndLen(p) + 1 <= searchPos'[p]
                 /\ NeedScan(p, buffer') => Len(buffer') - EndLen(p) + 1 <= searchPos'[p]
        <3>1. /\ searchPos[p] \in Nat \ {0} /\ searchPos'[p] \in 1..MaxBuffer + 1
              /\ IF NeedScan(p, buffer')
                 THEN Len(buffer') - EndLen(p) + 1 <= searchPos'[p]
                 ELSE searchPos'[p] = searchPos[p]
            BY <1>1, FeedFacts
        <3>2. searchPos'[p] \in Nat \ {0}
            BY <3>1, BoundsAssumption
        <3> QED
            BY <3>1, <3>2, TagFacts
    <2> QED
        BY <2>1, <2>2, <2>3
<1>3. ASSUME NEW m \in complete'
      PROVE  /\ m[1] \in Nat /\ m[2] \in Nat /\ m[3] \in Names
             /\ m = <<m[1], m[2], m[3]>>
             /\ Pair(buffer', m[3], m[1], m[2])
             /\ m[2] <= Len(buffer') + 1
             /\ m[2] <= searchPos'[m[3]] + EndLen(m[3])
             /\ \/ m \in complete
                \/ /\ NeedScan(m[3], buffer')
                   /\ <<m[1], m[2]>> \in Matches(buffer', m[3], searchPos[m[3]])
    <2>1. /\ m[1] \in Nat /\ m[2] \in Nat /\ m[3] \in Names /\ m = <<m[1], m[2], m[3]>>
        <3>1. TypeOK'
            BY <1>1, FeedKeepsTypes
        <3>2. m \in (1..MaxBuffer) \X (1..MaxBuffer + 1) \X Names
            BY <3>1 DEF TypeOK
        <3> QED
            BY <3>2, BoundsAssumption
    <2>2. \/ m \in complete
          \/ /\ NeedScan(m[3], buffer')
             /\ <<m[1], m[2]>> \in Matches(buffer', m[3], searchPos[m[3]])
        BY <1>1, <2>1, FeedFacts
    <2>3. Pair(buffer', m[3], m[1], m[2])
        <3>1. CASE m \in complete
            BY <1>1, <1>2, <2>1, <3>1, PairKept DEF CompleteInv
        <3>2. CASE <<m[1], m[2]>> \in Matches(buffer', m[3], searchPos[m[3]])
            <4>1. PICK s, e \in Nat : <<m[1], m[2]>> = <<s, e>> /\ Pair(buffer', m[3], s, e)
                BY <1>2, <2>1, <3>2, MatchesArePairs
            <4> QED
                BY <4>1
        <3> QED
            BY <2>2, <3>1, <3>2
    <2>4. m[2] <= Len(buffer') + 1
        BY <1>2, <2>1, <2>3, PairFacts
    <2>5. m[2] <= searchPos'[m[3]] + EndLen(m[3])
        <3>1. CASE searchPos'[m[3]] = searchPos[m[3]] /\ m \in complete
            BY <1>1, <3>1 DEF CompleteInv
        <3>2. CASE Len(buffer') - EndLen(m[3]) + 1 <= searchPos'[m[3]]
            BY <1>2, <2>1, <2>4, <3>2
        <3> QED
            BY <1>2, <2>1, <2>2, <3>1, <3>2
    <2> QED
        BY <2>1, <2>2, <2>3, <2>4, <2>5
<1>4. ASSUME NEW m \in complete, NEW n \in complete', n \notin complete,
             m[3] = n[3], TagsApart(m[3])
      PROVE  m[2] <= n[1]
    <2> DEFINE p == n[3]
    <2>1. /\ m \in complete' /\ p \in Names
          /\ m[2] \in Nat /\ n[1] \in Nat /\ n[2] \in Nat
        BY <1>3 DEF FeedChunk
    <2>2. /\ Pair(buffer', p, m[1], m[2]) /\ Pair(buffer', p, n[1], n[2])
          /\ m[2] <= searchPos[p] + EndLen(p)
        BY <1>1, <1>3, <1>4, <2>1 DEF CompleteInv
    <2>3. searchPos[p] <= n[1]
        <3>1. <<n[1], n[2]>> \in Matches(buffer', p, searchPos[p])
            BY <1>3, <1>4
        <3>2. buffer' \in Seq(Symbols) /\ p \in Names /\ searchPos[p] \in Nat \ {0}
            BY <1>2, <2>1
        <3> HIDE DEF p
        <3>3. \A l \in Matches(buffer', p, searchPos[p]) :
                 \E s, e \in Nat : l = <<s, e>> /\ searchPos[p] <= s
            BY <3>2, MatchesArePairs
        <3>4. PICK s, e \in Nat : <<n[1], n[2]>> = <<s, e>> /\ searchPos[p] <= s
            BY <3>1, <3>3
        <3> QED
            BY <3>4
    <2>4. /\ n[1] \in Starts(buffer', p) /\ m[2] - EndLen(p) \in Ends(buffer', p)
        BY <2>2 DEF Pair
    <2>5. \/ n[1] + StartLen(p) <= m[2] - EndLen(p)
          \/ (m[2] - EndLen(p)) + EndLen(p) <= n[1]
        BY <1>2, <1>4, <2>1, <2>4, Apart
    <2>6. /\ searchPos[p] \in Nat /\ EndLen(p) \in Nat /\ StartLen(p) \in Nat \ {0}
          /\ m[2] <= searchPos[p] + EndLen(p)
        BY <1>2, <2>1, <2>2
    <2> HIDE DEF p
    <2> QED
        BY <2>1, <2>3, <2>5, <2>6
<1>5. ASSUME NEW m \in complete', NEW n \in complete', m \notin complete, n \notin complete,
             m[3] = n[3], TagsApart(m[3]), m # n
      PROVE  m[2] <= n[1] \/ n[2] <= m[1]
    <2> DEFINE p == n[3]
    <2>1. /\ p \in Names /\ m[1] \in Nat /\ m[2] \in Nat /\ n[1] \in Nat /\ n[2] \in Nat
          /\ m = <<m[1], m[2], p>> /\ n = <<n[1], n[2], p>>
          /\ <<m[1], m[2]>> \in Matches(buffer', p, searchPos[p])
          /\ <<n[1], n[2]>> \in Matches(buffer', p, searchPos[p])
        BY <1>3, <1>5
    <2>2. /\ Direct(buffer', p, searchPos[p], m[1], m[2])
          /\ Direct(buffer', p, searchPos[p], n[1], n[2])
        BY <1>2, <1>5, <2>1, MatchesAreDirect
    <2>3. ~(m[1] = n[1] /\ m[2] = n[2])
        BY <1>5, <2>1
    <2>4. searchPos[p] \in Nat \ {0} /\ TagsApart(p)
        BY <1>2, <1>5, <2>1
    <2> HIDE DEF p
    <2>5. (m[1] = n[1] /\ m[2] = n[2]) \/ m[2] <= n[1] \/ n[2] <= m[1]
        BY <1>2, <2>1, <2>2, <2>4, DirectDisjoint
    <2> QED
        BY <2>3, <2>5
<1>6. ASSUME NEW m \in complete', NEW n \in complete', m[3] = n[3], TagsApart(m[3]), m # n
      PROVE  m[2] <= n[1] \/ n[2] <= m[1]
    <2>1. CASE m \in complete /\ n \in complete
        BY <1>1, <1>6, <2>1 DEF CompleteInv
    <2>2. CASE m \in complete /\ n \notin complete
        BY <1>4, <1>6, <2>2
    <2>3. CASE m \notin complete /\ n \in complete
        BY <1>4, <1>6, <2>3
    <2>4. CASE m \notin complete /\ n \notin complete
        BY <1>5, <1>6, <2>4
    <2> QED
        BY <2>1, <2>2, <2>3, <2>4
<1> QED
    BY <1>3, <1>6 DEF CompleteInv

LEMMA FeedKeepsAgreement ==
    ASSUME ExtractorInv, NEW chunk \in Chunks, FeedChunk(chunk)
    PROVE  AgreeInv'
<1>1. TypeOK /\ CompleteInv /\ AgreeInv
    BY DEF ExtractorInv
<1> SUFFICES ASSUME NEW p \in Names, TagsApart(p), longest' <= EndLen(p)
             PROVE  /\ Resumable(p)'
                    /\ \A s, e \in Nat :
                          <<s, e, p>> \in complete' <=> Direct(buffer', p, 1, s, e)
    BY DEF AgreeInv
<1>2. /\ buffer \in Seq(Symbols) /\ chunk \in Seq(Symbols) /\ buffer' \in Seq(Symbols)
      /\ buffer' = buffer \o chunk /\ Len(buffer) \in Nat /\ Len(buffer') \in Nat
      /\ Len(chunk) \in Nat /\ Len(buffer') = Len(buffer) + Len(chunk)
      /\ longest \in Nat /\ longest' = IF longest <= Len(chunk) THEN Len(chunk) ELSE longest
      /\ searchPos[p] \in Nat \ {0}
      /\ EndLen(p) \in Nat \ {0} /\ StartLen(p) \in Nat \ {0}
    BY <1>1, FeedFacts, TagFacts
<1>3. Len(chunk) <= EndLen(p) /\ longest <= EndLen(p)
    BY <1>2
<1>4. /\ Resumable(p)
      /\ \A s, e \in Nat : <<s, e, p>> \in complete <=> Direct(buffer, p, 1, s, e)
    BY <1>1, <1>3 DEF AgreeInv
<1>5. /\ NeedScan(p, buffer') <=> \E j \in Ends(buffer', p) : Len(buffer) - EndLen(p) + 1 <= j
      /\ IF NeedScan(p, buffer')
         THEN searchPos'[p] = 1 \/ searchPos'[p] = Len(buffer') - EndLen(p) + 1
         ELSE searchPos'[p] = searchPos[p]
      /\ \A s, e : <<s, e, p>> \in complete' <=>
                     \/ <<s, e, p>> \in complete
                     \/ /\ NeedScan(p, buffer')
                        /\ <<s, e>> \in Matches(buffer', p, searchPos[p])
    BY <1>1, FeedFacts
<1>6. /\ Starts(buffer', p) \subseteq Nat \ {0} /\ Ends(buffer', p) \subseteq Nat \ {0}
      /\ Ends(buffer, p) \subseteq Ends(buffer', p)
      /\ \A j \in Ends(buffer', p) : j + EndLen(p) - 1 <= Len(buffer')
      /\ \A j \in Ends(buffer, p) : j + EndLen(p) - 1 <= Len(buffer)
    BY <1>2, StartFacts, LongerText
<1>7. Resumable(p)'
    <2>1. CASE ~NeedScan(p, buffer')
        BY <1>4, <1>5, <1>6, <2>1 DEF Resumable
    <2>2. CASE NeedScan(p, buffer')
        <3>1. PICK j \in Ends(buffer', p) : Len(buffer) - EndLen(p) + 1 <= j
            BY <1>5, <2>2
        <3>2. CASE searchPos'[p] = Len(buffer') - EndLen(p) + 1
            <4>1. j \in Nat /\ j + EndLen(p) - 1 <= Len(buffer')
                BY <1>6
            <4>2. j <= searchPos'[p]
                BY <1>2, <3>2, <4>1
            <4>3. Len(buffer') <= Len(buffer) + EndLen(p)
                BY <1>2, <1>3
            <4>4. searchPos'[p] <= j + EndLen(p)
                BY <1>2, <3>1, <3>2, <4>1, <4>3
            <4> QED
                BY <4>2, <4>4 DEF Resumable
        <3>3. CASE searchPos'[p] = 1
            BY <3>3 DEF Resumable
        <3> QED
            BY <1>5, <2>2, <3>2, <3>3
    <2> QED
        BY <2>1, <2>2
<1>8. ASSUME NEW s \in Nat, NEW e \in Nat, e <= Len(buffer) + 1
      PROVE  Direct(buffer', p, 1, s, e) <=> <<s, e, p>> \in complete
    BY <1>2, <1>4, <1>8, DirectKept
<1>9. ASSUME NEW s \in Nat, NEW e \in Nat, <<s, e, p>> \in complete
      PROVE  e <= Len(buffer) + 1
    <2>1. Pair(buffer, p, s, e)
        BY <1>4, <1>9 DEF Direct
    <2> QED
        BY <1>2, <2>1, PairFacts
<1>10. ASSUME NEW s \in Nat, NEW e \in Nat, Direct(buffer', p, 1, s, e), e > Len(buffer) + 1
       PROVE  NeedScan(p, buffer')
    <2>1. e - EndLen(p) \in Ends(buffer', p)
        BY <1>10 DEF Direct, Pair
    <2> QED
        BY <1>2, <1>5, <1>10, <2>1
\* Once a scan has begun elsewhere than at the beginning, an end tag covers the start tags before.
<1>11. ASSUME searchPos[p] # 1
       PROVE  \E j \in Ends(buffer, p) :
                 /\ j \in Ends(buffer', p) /\ j \in Nat \ {0}
                 /\ j <= searchPos[p] /\ searchPos[p] <= j + EndLen(p)
                 /\ j + EndLen(p) <= Len(buffer) + 1
                 /\ \A i \in Starts(buffer', p) :
                       \/ i < searchPos[p] /\ i + StartLen(p) <= j
                       \/ searchPos[p] <= i /\ j + EndLen(p) <= i
    <2>1. PICK j \in Ends(buffer, p) : j <= searchPos[p] /\ searchPos[p] <= j + EndLen(p)
        BY <1>4, <1>11 DEF Resumable
    <2>2. j \in Ends(buffer', p) /\ j \in Nat \ {0} /\ j + EndLen(p) <= Len(buffer) + 1
        BY <1>2, <1>6
    <2>3. \A i \in Starts(buffer', p) : i + StartLen(p) <= j \/ j + EndLen(p) <= i
        BY <1>2, <2>2, Apart
    <2>4. ASSUME NEW i \in Starts(buffer', p)
          PROVE  \/ i < searchPos[p] /\ i + StartLen(p) <= j
                 \/ searchPos[p] <= i /\ j + EndLen(p) <= i
        <3>1. i \in Nat /\ j \in Nat \ {0}
            BY <1>6, <2>2
        <3>2. CASE i + StartLen(p) <= j
            BY <1>2, <2>1, <3>1, <3>2
        <3>3. CASE j + EndLen(p) <= i
            BY <1>2, <2>1, <3>1, <3>3
        <3> QED
            BY <2>3, <3>2, <3>3
    <2> QED
        BY <2>1, <2>2, <2>4
<1>12. ASSUME NEW s \in Nat, NEW e \in Nat, Direct(buffer', p, searchPos[p], s, e)
       PROVE  Direct(buffer', p, 1, s, e)
    <2>1. CASE searchPos[p] = 1
        BY <1>12, <2>1
    <2>2. CASE searchPos[p] # 1
        <3>1. PICK j \in Ends(buffer', p) :
                 /\ j \in Nat \ {0}
                 /\ \A i \in Starts(buffer', p) :
                       \/ i < searchPos[p] /\ i + StartLen(p) <= j
                       \/ searchPos[p] <= i /\ j + EndLen(p) <= i
            BY <1>11, <2>2
        <3>2. searchPos[p] <= s /\ Pair(buffer', p, s, e) /\ s \in Starts(buffer', p)
            BY <1>12 DEF Direct, Pair
        <3>3. j < s
            <4>1. j \in Nat \ {0} /\ (s < searchPos[p] \/ j + EndLen(p) <= s)
                BY <3>1, <3>2
            <4> QED
                BY <1>2, <3>2, <4>1
        <3>4. ASSUME NEW i \in Starts(buffer', p), i < s
              PROVE  \E k \in Ends(buffer', p) : i + StartLen(p) <= k /\ k < s
            <4>1. CASE searchPos[p] <= i
                BY <1>12, <3>4, <4>1 DEF Direct
            <4>2. CASE i + StartLen(p) <= j
                BY <3>3, <4>2
            <4> QED
                BY <3>1, <4>1, <4>2
        <3> QED
            BY <1>2, <3>2, <3>4 DEF Direct
    <2> QED
        BY <2>1, <2>2
<1>13. ASSUME NEW s \in Nat, NEW e \in Nat, Direct(buffer', p, 1, s, e), e > Len(buffer) + 1
       PROVE  Direct(buffer', p, searchPos[p], s, e)
    <2>1. CASE searchPos[p] = 1
        BY <1>13, <2>1
    <2>2. CASE searchPos[p] # 1
        <3>1. PICK j \in Ends(buffer', p) :
                 /\ j \in Nat \ {0} /\ j + EndLen(p) <= Len(buffer) + 1
                 /\ \A i \in Starts(buffer', p) :
                       \/ i < searchPos[p] /\ i + StartLen(p) <= j
                       \/ searchPos[p] <= i /\ j + EndLen(p) <= i
            BY <1>11, <2>2
        <3>2. Pair(buffer', p, s, e) /\ s \in Starts(buffer', p)
            BY <1>13 DEF Direct, Pair
        <3>3. ~(s + StartLen(p) <= j)
            <4> SUFFICES ASSUME s + StartLen(p) <= j PROVE FALSE
                OBVIOUS
            <4>1. e - EndLen(p) <= j
                BY <3>2 DEF Pair
            <4> QED
                BY <1>2, <1>13, <3>1, <4>1
        <3>4. searchPos[p] <= s
            BY <3>1, <3>2, <3>3
        <3>5. ASSUME NEW i \in Starts(buffer', p), searchPos[p] <= i, i < s
              PROVE  \E k \in Ends(buffer', p) : i + StartLen(p) <= k /\ k < s
            <4>1. 1 <= i
                BY <1>6
            <4> QED
                BY <1>13, <3>5, <4>1 DEF Direct
        <3> QED
            BY <3>2, <3>4, <3>5 DEF Direct
    <2> QED
        BY <2>1, <2>2
<1>14. ASSUME NEW s \in Nat, NEW e \in Nat
       PROVE  <<s, e, p>> \in complete' <=> Direct(buffer', p, 1, s, e)
    <2>1. <<s, e>> \in Matches(buffer', p, searchPos[p]) <=>
            Direct(buffer', p, searchPos[p], s, e)
        BY <1>2, MatchesAreDirect
    <2>2. ASSUME <<s, e, p>> \in complete' PROVE Direct(buffer', p, 1, s, e)
        <3>1. CASE <<s, e, p>> \in complete
            BY <1>8, <1>9, <3>1
        <3>2. CASE <<s, e>> \in Matches(buffer', p, searchPos[p])
            BY <1>12, <2>1, <3>2
        <3> QED
            BY <1>5, <2>2, <3>1, <3>2
    <2>3. ASSUME Direct(buffer', p, 1, s, e) PROVE <<s, e, p>> \in complete'
        <3>1. CASE e <= Len(buffer) + 1
            BY <1>5, <1>8, <2>3, <3>1
        <3>2. CASE e > Len(buffer) + 1
            BY <1>5, <1>10, <1>13, <2>1, <2>3, <3>2
        <3> QED
            BY <1>2, <3>1, <3>2
    <2> QED
        BY <2>2, <2>3
<1> QED
    BY <1>7, <1>14

-----------------------------------------------------------------------------
(* The specification.                                                      *)

\* An empty buffer holds no tag.
LEMMA EmptyBufferIsFine ==
    ASSUME buffer = <<>>, complete = {}, active = {}, longest = 0,
           malformed \subseteq (1..MaxBuffer) \X Names,
           searchPos = [p \in Names |-> 1]
    PROVE  ExtractorInv
<1>1. TypeOK
    BY BoundsAssumption, EmptySeq DEF TypeOK
<1>2. CompleteInv
    BY DEF CompleteInv
<1>3. ASSUME NEW p \in Names PROVE Resumable(p)
    BY DEF Resumable
<1>4. ASSUME NEW p \in Names, NEW s \in Nat, NEW e \in Nat, Direct(buffer, p, 1, s, e)
      PROVE  FALSE
    <2>1. buffer \in Seq(Symbols) /\ Len(buffer) = 0
        BY EmptySeq
    <2>2. Pair(buffer, p, s, e)
        BY <1>4 DEF Direct
    <2>3. EndLen(p) \in Nat \ {0}
        BY TagFacts
    <2>4. /\ s >= 1 /\ e - EndLen(p) \in Nat \ {0} /\ s < e - EndLen(p) /\ e - EndLen(p) < e
          /\ e <= Len(buffer) + 1
        BY <2>1, <2>2, PairFacts
    <2> QED
        BY <2>1, <2>3, <2>4
<1>5. AgreeInv
    BY <1>3, <1>4 DEF AgreeInv
<1> QED
    BY <1>1, <1>2, <1>5 DEF ExtractorInv

LEMMA FinalizeKeeps ==
    ASSUME ExtractorInv, Finalize
    PROVE  ExtractorInv'
<1>1. /\ buffer' = <<>> /\ complete' = {} /\ active' = {} /\ longest' = 0
      /\ searchPos' = [p \in Names |-> 1]
    BY DEF Finalize
<1>2. malformed' \subseteq (1..MaxBuffer) \X Names
    BY DEF Finalize, ExtractorInv, TypeOK
<1>3. TypeOK'
    BY <1>1, <1>2, BoundsAssumption, EmptySeq DEF TypeOK
<1>4. CompleteInv'
    BY <1>1 DEF CompleteInv
<1>5. ASSUME NEW p \in Names PROVE Resumable(p)'
    BY <1>1 DEF Resumable
<1>6. ASSUME NEW p \in Names, NEW s \in Nat, NEW e \in Nat, Direct(buffer', p, 1, s, e)
      PROVE  FALSE
    <2>1. buffer' \in Seq(Symbols) /\ Len(buffer') = 0
        BY <1>1, EmptySeq
    <2>2. Pair(buffer', p, s, e)
        BY <1>6 DEF Direct
    <2>3. EndLen(p) \in Nat \ {0}
        BY TagFacts
    <2>4. /\ s >= 1 /\ e - EndLen(p) \in Nat \ {0} /\ s < e - EndLen(p) /\ e - EndLen(p) < e
          /\ e <= Len(buffer') + 1
        BY <2>1, <2>2, PairFacts
    <2> QED
        BY <2>1, <2>3, <2>4
<1>7. AgreeInv'
    BY <1>1, <1>5, <1>6 DEF AgreeInv
<1> QED
    BY <1>3, <1>4, <1>7 DEF ExtractorInv

\* Nothing the extractor does breaks the invariant.
THEOREM ExtractorInvariance == Spec => []ExtractorInv
<1>1. Init => ExtractorInv
    <2> SUFFICES ASSUME Init PROVE ExtractorInv
        OBVIOUS
    <2>1. malformed \subseteq (1..MaxBuffer) \X Names
        BY DEF Init
    <2> QED
        BY <2>1, EmptyBufferIsFine DEF Init
<1>2. ExtractorInv /\ [Next]_vars => ExtractorInv'
    <2> SUFFICES ASSUME ExtractorInv, [Next]_vars PROVE ExtractorInv'
        OBVIOUS
    <2>1. CASE Finalize
        BY <2>1, FinalizeKeeps
    <2>2. ASSUME NEW chunk \in Chunks, FeedChunk(chunk) PROVE ExtractorInv'
        <3>1. TypeOK
            BY DEF ExtractorInv
        <3>2. TypeOK' /\ CompleteInv' /\ AgreeInv'
            BY <2>2, <3>1, FeedKeepsTypes, FeedKeepsComplete, FeedKeepsAgreement
        <3> QED
            BY <3>2 DEF ExtractorInv
    <2>3. CASE UNCHANGED vars
        BY <2>3 DEF vars, ExtractorInv, TypeOK, CompleteInv, AgreeInv, Resumable
    <2> QED
        BY <2>1, <2>2, <2>3 DEF Next
<1> QED
    BY <1>1, <1>2, PTL DEF Spec

\* The buffer never outgrows its limit, and every position the extractor holds is one of its text.
THEOREM ExtractorTypeCorrect == Spec => []TypeOK
<1>1. ExtractorInv => TypeOK
    BY DEF ExtractorInv
<1> QED
    BY <1>1, ExtractorInvariance, PTL

\* What is completed is a start tag, content without its end tag, and the end tag, however the text
\* was cut; and no text is in two completed patterns of one kind whose tags are apart: feed_chunk
\* does not hand out a tool call twice.
THEOREM CompletedAreWellFormed == Spec => []CompleteWellFormed
<1>1. ExtractorInv => CompleteWellFormed
    <2> SUFFICES ASSUME ExtractorInv PROVE CompleteWellFormed
        OBVIOUS
    <2>1. buffer \in Seq(Symbols)
        BY DEF ExtractorInv, TypeOK
    <2>2. ASSUME NEW m \in complete
          PROVE  LET s == m[1]  e == m[2]  tags == Patterns[m[3]]
                     endTag == e - Len(tags.end)
                 IN  /\ TagAt(buffer, tags.start, s)
                     /\ Occurrences(buffer, tags.end, s + Len(tags.start)) # {}
                     /\ Min(Occurrences(buffer, tags.end, s + Len(tags.start))) = endTag
        <3> DEFINE p == m[3]
                   ends == Occurrences(buffer, Patterns[p].end, m[1] + StartLen(p))
        <3>1. m \in (1..MaxBuffer) \X (1..MaxBuffer + 1) \X Names
            BY DEF ExtractorInv, TypeOK
        <3>2. p \in Names /\ m[1] \in Nat
            BY <3>1, BoundsAssumption
        <3>3. Pair(buffer, p, m[1], m[2])
            BY DEF ExtractorInv, CompleteInv
        <3> HIDE DEF p
        <3>4. StartLen(p) \in Nat \ {0}
            BY <3>2, TagFacts
        <3>5. ends = {j \in Ends(buffer, p) : m[1] + StartLen(p) <= j} /\ ends \subseteq Nat
            BY <2>1, <3>2, <3>4, StartFacts
        <3>6. m[2] - EndLen(p) \in ends /\ \A j \in ends : m[2] - EndLen(p) <= j
            BY <3>3, <3>5 DEF Pair
        <3>7. Min(ends) = m[2] - EndLen(p)
            BY <3>5, <3>6, MinIs
        <3>8. TagAt(buffer, Patterns[p].start, m[1])
            BY <3>3 DEF Pair, Starts, Occurrences
        <3> QED
            BY <3>6, <3>7, <3>8 DEF p, StartLen, EndLen
    <2>3. ASSUME NEW m \in complete, NEW n \in complete,
                 m[3] = n[3], TagsApart(m[3]), m # n
          PROVE  m[2] <= n[1] \/ n[2] <= m[1]
        BY <2>3 DEF ExtractorInv, CompleteInv
    <2> QED
        BY <2>2, <2>3 DEF CompleteWellFormed
<1> QED
    BY <1>1, ExtractorInvariance, PTL

\* With tags that are apart and chunks no longer than the end tag, as when the provider sends a
\* token at a time, the streaming extractor finds what the batch extractor finds.
THEOREM SmallChunksSuffice == Spec => []SmallChunksAgree
<1>1. ExtractorInv => SmallChunksAgree
    <2> SUFFICES ASSUME ExtractorInv, NEW p \in Names, TagsApart(p),
                        longest <= Len(Patterns[p].end)
                 PROVE  {m \in complete : m[3] = p} = {m \in Batch(buffer) : m[3] = p}
        BY DEF SmallChunksAgree
    <2>1. buffer \in Seq(Symbols)
        BY DEF ExtractorInv, TypeOK
    <2>2. \A s, e \in Nat : <<s, e, p>> \in complete <=> Direct(buffer, p, 1, s, e)
        BY DEF ExtractorInv, AgreeInv, EndLen
    <2>3. \A s, e \in Nat : <<s, e>> \in Matches(buffer, p, 1) <=> Direct(buffer, p, 1, s, e)
        <3> SUFFICES ASSUME NEW s \in Nat, NEW e \in Nat
                     PROVE  <<s, e>> \in Matches(buffer, p, 1) <=> Direct(buffer, p, 1, s, e)
            OBVIOUS
        <3>1. 1 \in Nat \ {0}
            OBVIOUS
        <3> QED
            BY <2>1, <3>1, MatchesAreDirect
    <2>4. ASSUME NEW m \in complete, m[3] = p PROVE m \in Batch(buffer)
        <3>1. m \in (1..MaxBuffer) \X (1..MaxBuffer + 1) \X Names
            BY DEF ExtractorInv, TypeOK
        <3>2. m[1] \in Nat /\ m[2] \in Nat /\ m = <<m[1], m[2], p>>
            BY <2>4, <3>1, BoundsAssumption
        <3>3. <<m[1], m[2], p>> \in complete
            BY <3>2
        <3>4. <<m[1], m[2]>> \in Matches(buffer, p, 1)
            BY <2>2, <2>3, <3>2, <3>3
        <3>5. <<m[1], m[2], p>> \in {<<n[1], n[2], p>> : n \in Matches(buffer, p, 1)}
            BY <3>4
        <3> QED
            BY <3>2, <3>5 DEF Batch
    <2>5. ASSUME NEW m \in Batch(buffer), m[3] = p PROVE m \in complete
        <3>1. PICK q \in Names : m \in {<<n[1], n[2], q>> : n \in Matches(buffer, q, 1)}
            BY DEF Batch
        <3>2. PICK n \in Matches(buffer, q, 1) : m = <<n[1], n[2], q>>
            BY <3>1
        <3>3. q = p
            BY <2>5, <3>2
        <3>4. \E s, e \in Nat : n = <<s, e>>
            BY <2>1, MatchesArePairs
        <3>5. PICK s, e \in Nat : n = <<s, e>>
            BY <3>4
        <3>6. m = <<s, e, p>> /\ <<s, e>> \in Matches(buffer, p, 1)
            BY <3>2, <3>3, <3>5
        <3> QED
            BY <2>2, <2>3, <3>6
    <2> QED
        BY <2>4, <2>5
<1> QED
    BY <1>1, ExtractorInvariance, PTL
=============================================================================
