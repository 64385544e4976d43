---------------------------- MODULE ChunkProofs -----------------------------
(***************************************************************************)
(* What the operators of Chunks compute, for every chunk: texts stay texts *)
(* and chunks chunks, whoever rewrites a chunk keeps what it cites and the *)
(* pages it refers to, a sort and a merge of duplicates lose no citation,  *)
(* and the pages of a chunk read back as its text.                         *)
(***************************************************************************)
EXTENDS Chunks, ListProofs

Line == Unit \cup FragmentTypes \cup Markers

----------------------------------------------------------------------------
(* Texts and fragments *)

\* A text is a list of lines, of which a pick, a part and a concatenation are texts.
LEMMA TextFacts ==
  ASSUME NEW t \in Text
  PROVE  /\ Len(t) \in Nat /\ DOMAIN t = 1..Len(t)
         /\ \A i \in 1..Len(t) : t[i] \in Line
         /\ \A I : Pick(t, I) \in Text
         /\ \A u \in Text : t \o u \in Text
         /\ \A m, n \in Int : 1 <= m /\ n <= Len(t) => SubSeq(t, m, n) \in Text
<1>1. t \in Seq(Line) /\ Text = Seq(Line)
  BY DEF Text, Line
<1> HIDE DEF Line
<1>2. /\ Len(t) \in Nat /\ DOMAIN t = 1..Len(t)
      /\ \A i \in 1..Len(t) : t[i] \in Line
  BY <1>1, LenProperties, ElementOfSeq
<1>3. \A I : Pick(t, I) \in Text
  BY <1>1, PickFacts
<1>4. \A u \in Text : t \o u \in Text
  BY <1>1, ConcatProperties
<1>5. ASSUME NEW m \in Int, NEW n \in Int, 1 <= m, n <= Len(t)
      PROVE  SubSeq(t, m, n) \in Text
  <2>1. \A i \in m..n : t[i] \in Line
    BY <1>2, <1>5
  <2>2. QED
    BY <1>1, <2>1, SubSeqProperties
<1>6. QED
  BY <1>2, <1>3, <1>4, <1>5

\* So is a single line, or none.
LEMMA LineFacts ==
  /\ << >> \in Text
  /\ \A x \in Line : <<x>> \in Text
<1>1. \A x \in Line : <<x>> \in Seq(Line)
  OBVIOUS
<1>2. << >> \in Seq(Line)
  BY EmptySeq
<1>3. QED
  BY <1>1, <1>2 DEF Text, Line

\* A text that is made line by line.
LEMMA MappedText ==
  ASSUME NEW t \in Text, NEW u, u = [i \in DOMAIN t |-> u[i]],
         \A i \in 1..Len(t) : u[i] \in Line
  PROVE  u \in Text
BY MappedList DEF Text, Line

\* Another text makes a fragment of a fragment.
LEMMA FragmentFacts ==
  ASSUME NEW f \in RAGFragment
  PROVE  /\ f.type \in FragmentTypes /\ f.text \in Text
         /\ \A t \in Text : [f EXCEPT !.text = t] \in RAGFragment
BY DEF RAGFragment

\* A text of labels and lines.
LEMMA RenderedIsText ==
  ASSUME NEW f \in RAGFragment
  PROVE  Rendered(f) \in Text
<1>1. <<f.type>> \in Text /\ f.text \in Text
  BY FragmentFacts, LineFacts DEF Line
<1>2. Trim(f.text) \in Text
  BY <1>1, TextFacts DEF Trim
<1>3. QED
  BY <1>1, <1>2, TextFacts DEF Rendered

\* The text of fragments is one.
LEMMA TextOfIsText ==
  ASSUME NEW frags \in Seq(RAGFragment)
  PROVE  TextOf(frags) \in Text
<1> DEFINE texts == [i \in DOMAIN frags |-> Rendered(frags[i])]
<1>1. \A i \in 1..Len(frags) : texts[i] \in Text
  <2>1. DOMAIN frags = 1..Len(frags) /\ \A i \in 1..Len(frags) : frags[i] \in RAGFragment
    BY LenProperties, ElementOfSeq
  <2>2. QED
    BY <2>1, RenderedIsText
<1>2. texts = [i \in DOMAIN frags |-> texts[i]]
  OBVIOUS
<1>3. TextOf(frags) = FlattenSeq(texts)
  BY DEF TextOf
<1> HIDE DEF texts
<1>4. texts \in Seq(Text)
  BY <1>1, <1>2, MappedList
<1>5. FlattenSeq(texts) \in Seq(Line)
  <2>1. texts \in Seq(Seq(Line))
    BY <1>4 DEF Text, Line
  <2>2. QED
    BY <2>1, FlattenFacts
<1>6. QED
  BY <1>3, <1>5 DEF Text, Line

\* Placeholders are lines.
LEMMA StableIsLine ==
  ASSUME NEW x \in Line
  PROVE  Stable(x) \in Line
BY UnitAssumption DEF Stable, Line

\* A normalised fragment is a fragment.
LEMMA NormalIsFragment ==
  ASSUME NEW f \in RAGFragment
  PROVE  Normal(f) \in RAGFragment
<1>1. /\ f.text \in Text
      /\ \A t \in Text : [f EXCEPT !.text = t] \in RAGFragment
  BY FragmentFacts
<1>2. StableJSON(f.text) \in Text
  BY <1>1, TextFacts DEF StableJSON
<1> DEFINE u == [i \in DOMAIN f.text |-> Stable(f.text[i])]
<1>3. u \in Text
  <2>1. \A i \in 1..Len(f.text) : u[i] \in Line
    BY <1>1, TextFacts, StableIsLine
  <2>2. u = [i \in DOMAIN f.text |-> u[i]]
    OBVIOUS
  <2> HIDE DEF u
  <2>3. QED
    BY <1>1, <2>1, <2>2, MappedText
<1> HIDE DEF u
<1>4. CASE f.type = "code"
  BY <1>4 DEF Normal
<1>5. CASE f.type = "json"
  <2>1. Normal(f) = [f EXCEPT !.text = StableJSON(f.text)]
    BY <1>5 DEF Normal
  <2>2. QED
    BY <1>1, <1>2, <2>1
<1>6. CASE f.type \notin {"code", "json"}
  <2>1. Normal(f) = [f EXCEPT !.text = u]
    BY <1>6 DEF Normal, u
  <2>2. QED
    BY <1>1, <1>3, <2>1
<1>7. QED
  BY <1>4, <1>5, <1>6

----------------------------------------------------------------------------
(* Sources *)

\* What a list cites is told by numbers, and a list that has more cites more.
LEMMA FoldsFacts ==
  ASSUME NEW s \in Sources
  PROVE  /\ Folds(s) \in SUBSET Nat
         /\ \A t \in Sources : HasAll(t, s) => Folds(s) \subseteq Folds(t)
<1>1. /\ DOMAIN s = 1..Len(s) /\ \A i \in 1..Len(s) : s[i] \in Source
  BY LenProperties, ElementOfSeq DEF Sources
<1>2. Folds(s) \in SUBSET Nat
  BY <1>1, SourceAssumption DEF Folds, ToSet
<1>3. ASSUME NEW t \in Sources, HasAll(t, s)
      PROVE  ToSet(s) \subseteq ToSet(t)
  <2>1. DOMAIN t = 1..Len(t)
    BY LenProperties DEF Sources
  <2>2. QED
    BY <1>1, <1>3, <2>1 DEF HasAll, ToSet
<1>4. QED
  BY <1>2, <1>3 DEF Folds

\* To sort sources is to rearrange them.
LEMMA SortedSources ==
  ASSUME NEW s \in Sources
  PROVE  LET t == Sorted(s, FoldBefore)
         IN  t \in Sources /\ HasAll(t, s) /\ HasAll(s, t)
<1> DEFINE n == Len(s)
           B == {p \in (1..n) \X (1..n) : FoldBefore(s[p[1]], s[p[2]])}
           rank == [i \in DOMAIN s |-> Cardinality({j \in DOMAIN s :
                      FoldBefore(s[j], s[i]) \/ (j <= i /\ ~FoldBefore(s[i], s[j]))})]
           t == Sorted(s, FoldBefore)
<1>1. n \in Nat /\ DOMAIN s = 1..n /\ s \in Seq(Source) /\ \A i \in 1..n : s[i] \in Source
  BY LenProperties, ElementOfSeq DEF Sources
<1> HIDE DEF n
<1>2. \A i, j \in 1..n : <<i, j>> \in B <=> FoldBefore(s[i], s[j])
  BY Zenon
<1> HIDE DEF B
<1>3. WeakOrder(B, n)
  <2> DEFINE key == [i \in 1..n |-> Fold[s[i]]]
  <2>1. \A i \in 1..n : key[i] \in Int
    BY <1>1, SourceAssumption
  <2>2. \A i, j \in 1..n : <<i, j>> \in B <=> key[i] < key[j]
    BY <1>2 DEF FoldBefore
  <2> HIDE DEF key
  <2>3. QED
    BY <1>1, <2>1, <2>2, OrderOfNumbers
<1>4. RanksOf(rank, s, B)
  <2>1. ASSUME NEW i \in DOMAIN s
        PROVE  {j \in DOMAIN s : FoldBefore(s[j], s[i]) \/ (j <= i /\ ~FoldBefore(s[i], s[j]))}
                 = {j \in DOMAIN s : <<j, i>> \in B \/ (j <= i /\ <<i, j>> \notin B)}
    BY <1>1, <1>2
  <2>2. QED
    BY <2>1, Zenon DEF RanksOf
<1>5. InRanks(t, s, rank)
  BY DEF InRanks, Sorted
<1> HIDE DEF rank, t
<1>6. /\ t \in Seq(Source) /\ Len(t) = n
      /\ \A i \in 1..n : \E k \in 1..n : t[k] = s[i]
      /\ \A k \in 1..n : \E i \in 1..n : t[k] = s[i]
  <2>1. WeakOrder(B, Len(s))
    BY <1>3 DEF n
  <2>2. /\ t \in Seq(Source) /\ Len(t) = Len(s)
        /\ \A i \in 1..Len(s) : \E k \in 1..Len(s) : t[k] = s[i]
        /\ \A k \in 1..Len(s) : \E i \in 1..Len(s) : t[k] = s[i]
    <3>1. PICK b, k, l : b = B /\ k = rank /\ l = t
      OBVIOUS
    <3>2. s \in Seq(Source) /\ WeakOrder(b, Len(s)) /\ RanksOf(k, s, b) /\ InRanks(l, s, k)
      BY <1>1, <1>4, <1>5, <2>1, <3>1
    <3>3. /\ l \in Seq(Source) /\ Len(l) = Len(s)
          /\ \A i \in 1..Len(s) : \E j \in 1..Len(s) : l[j] = s[i]
          /\ \A j \in 1..Len(s) : \E i \in 1..Len(s) : l[j] = s[i]
      BY <3>2, SortedByRank
    <3>4. QED
      BY <3>1, <3>3
  <2>3. QED
    BY <2>2 DEF n
<1>7. QED
  BY <1>6 DEF HasAll, Sources, n, t

\* A normalised list cites what the list cites.
LEMMA StableSourcesFacts ==
  ASSUME NEW s \in Sources
  PROVE  StableSources(s) \in Sources /\ Folds(StableSources(s)) = Folds(s)
<1> DEFINE labels == [i \in DOMAIN s |-> Label[s[i]]]
           New == {i \in DOMAIN s :
                     /\ labels[i] # NoSource
                     /\ \A j \in 1..(i - 1) : Fold[labels[j]] # Fold[labels[i]]}
           kept == Pick(labels, New)
           out == Sorted(kept, FoldBefore)
<1>1. PICK n \in Nat : n = Len(s) /\ DOMAIN s = 1..n /\ \A i \in 1..n : s[i] \in Source
  BY LenProperties, ElementOfSeq DEF Sources
<1>2. \A i \in 1..n : labels[i] = Label[s[i]] /\ labels[i] \in Source
  BY <1>1, SourceAssumption
<1>3. labels \in Seq(Source) /\ Len(labels) = n
  <2>1. labels = [i \in DOMAIN s |-> labels[i]]
    OBVIOUS
  <2> HIDE DEF labels
  <2>2. QED
    BY <1>1, <1>2, <2>1, MappedList DEF Sources
<1>4. StableSources(s) = out
  BY DEF StableSources
<1>5. \A i \in New : i \in 1..n /\ labels[i] # NoSource
  BY <1>1
<1>6. \A i \in 1..n : labels[i] # NoSource =>
        \E j \in New : Fold[labels[j]] = Fold[labels[i]]
  <2> SUFFICES ASSUME NEW i \in 1..n, labels[i] # NoSource
               PROVE  \E j \in New : Fold[labels[j]] = Fold[labels[i]]
    OBVIOUS
  <2> HIDE DEF labels
  <2> DEFINE Equal == {j \in 1..n : Fold[labels[j]] = Fold[labels[i]]}
  <2>1. i \in Equal /\ Equal \subseteq Nat
    OBVIOUS
  <2>2. PICK j \in Equal : \A k \in Equal : j <= k
    BY <2>1, LeastNumber
  <2>3. \A k \in 1..(j - 1) : Fold[labels[k]] # Fold[labels[j]]
    BY <2>2
  <2>4. labels[j] # NoSource
    BY <1>2, <2>2, SourceAssumption
  <2>5. QED
    BY <1>1, <2>2, <2>3, <2>4
<1> HIDE DEF labels, New
<1>7. /\ kept \in Sources
      /\ \A i \in New : \E k \in 1..Len(kept) : kept[k] = labels[i]
      /\ \A k \in 1..Len(kept) : \E i \in New : kept[k] = labels[i]
  <2>1. /\ Pick(labels, New) \in Seq(Source)
        /\ \A i \in 1..Len(labels) : i \in New =>
             \E k \in 1..Len(Pick(labels, New)) : Pick(labels, New)[k] = labels[i]
        /\ \A k \in 1..Len(Pick(labels, New)) :
             \E i \in 1..Len(labels) : i \in New /\ Pick(labels, New)[k] = labels[i]
    <3>1. PICK l, I : l = labels /\ I = New
      OBVIOUS
    <3>2. l \in Seq(Source)
      BY <1>3, <3>1
    <3>3. /\ Pick(l, I) \in Seq(Source)
          /\ \A i \in 1..Len(l) : i \in I => \E k \in 1..Len(Pick(l, I)) : Pick(l, I)[k] = l[i]
          /\ \A k \in 1..Len(Pick(l, I)) : \E i \in 1..Len(l) : i \in I /\ Pick(l, I)[k] = l[i]
      BY <3>2, PickFacts
    <3>4. QED
      BY <3>1, <3>3
  <2>2. QED
    BY <1>3, <1>5, <2>1 DEF Sources
<1> HIDE DEF kept
<1>8. out \in Sources /\ HasAll(out, kept) /\ HasAll(kept, out)
  BY <1>7, SortedSources
<1> HIDE DEF out
<1>9. Folds(kept) = Folds(out)
  BY <1>7, <1>8, FoldsFacts
<1>10. Folds(kept) = Folds(s)
  <2>1. DOMAIN kept = 1..Len(kept)
    BY <1>7, LenProperties DEF Sources
  <2>2. ASSUME NEW x \in Folds(kept)
        PROVE  x \in Folds(s)
    <3>1. PICK k \in 1..Len(kept) : kept[k] # NoSource /\ x = Fold[Label[kept[k]]]
      BY <2>1 DEF Folds, ToSet
    <3>2. PICK i \in New : kept[k] = labels[i]
      BY <1>7
    <3>3. i \in 1..n /\ kept[k] = Label[s[i]] /\ s[i] \in Source
      BY <1>1, <1>2, <1>5, <3>2
    <3>4. s[i] # NoSource /\ Label[kept[k]] = Label[s[i]]
      BY <3>1, <3>3, SourceAssumption
    <3>5. QED
      BY <1>1, <3>1, <3>3, <3>4 DEF Folds, ToSet
  <2>3. ASSUME NEW x \in Folds(s)
        PROVE  x \in Folds(kept)
    <3>1. PICK i \in 1..n : s[i] # NoSource /\ x = Fold[Label[s[i]]]
      BY <1>1 DEF Folds, ToSet
    <3>2. labels[i] # NoSource /\ x = Fold[labels[i]]
      BY <1>1, <1>2, <3>1, SourceAssumption
    <3>3. PICK j \in New : Fold[labels[j]] = x
      BY <1>6, <3>2
    <3>4. PICK k \in 1..Len(kept) : kept[k] = labels[j]
      BY <1>7
    <3>5. kept[k] # NoSource /\ Label[kept[k]] = kept[k]
      BY <1>1, <1>2, <1>5, <3>4, SourceAssumption
    <3>6. QED
      BY <2>1, <3>3, <3>4, <3>5 DEF Folds, ToSet
  <2>4. QED
    BY <2>2, <2>3
<1>11. QED
  BY <1>4, <1>8, <1>9, <1>10

----------------------------------------------------------------------------
(* Chunks that are rewritten one by one *)

\* d is chunk c with other fragments: it cites and refers to the same.
Reworked(d, c) ==
  /\ d \in RAGChunk /\ Folds(d.sources) = Folds(c.sources)
  /\ ToSet(d.refs) = ToSet(c.refs)

\* The fields of a chunk.
LEMMA ChunkFacts ==
  ASSUME NEW c \in RAGChunk
  PROVE  /\ c.id \in Nat /\ c.sources \in Sources
         /\ c.frags \in Seq(RAGFragment) /\ c.refs \in Seq(PageRef)
         /\ Len(c.frags) \in Nat /\ DOMAIN c.frags = 1..Len(c.frags)
         /\ \A i \in 1..Len(c.frags) : c.frags[i] \in RAGFragment
<1>1. /\ c.id \in Nat /\ c.sources \in Sources
      /\ c.frags \in Seq(RAGFragment) /\ c.refs \in Seq(PageRef)
  BY DEF RAGChunk
<1>2. QED
  BY <1>1, LenProperties, ElementOfSeq

\* Other fragments make a chunk of it again.
LEMMA Refragmented ==
  ASSUME NEW c \in RAGChunk, NEW frags \in Seq(RAGFragment)
  PROVE  Reworked([c EXCEPT !.frags = frags], c)
BY DEF RAGChunk, Reworked

\* So do fragments that are rewritten one by one.
LEMMA MappedFragments ==
  ASSUME NEW c \in RAGChunk, NEW frags, frags = [i \in DOMAIN c.frags |-> frags[i]],
         \A i \in 1..Len(c.frags) : frags[i] \in RAGFragment
  PROVE  Reworked([c EXCEPT !.frags = frags], c)
<1>1. frags \in Seq(RAGFragment)
  BY ChunkFacts, MappedList
<1>2. QED
  BY <1>1, Refragmented

\* The processors that rewrite texts in place.
LEMMA PlainRewrites ==
  ASSUME NEW c \in RAGChunk
  PROVE  Reworked(CompactChunk(c), c) /\ Reworked(SanitizeChunk(c), c)
<1> DEFINE dense == [i \in DOMAIN c.frags |-> [c.frags[i] EXCEPT !.text = Dense(@)]]
           rich == [i \in DOMAIN c.frags |->
                      IF c.frags[i].type \in {"code", "json"} THEN c.frags[i]
                      ELSE [c.frags[i] EXCEPT !.text = RichText(@)]]
<1>1. \A i \in 1..Len(c.frags) : dense[i] \in RAGFragment /\ rich[i] \in RAGFragment
  <2>1. ASSUME NEW f \in RAGFragment
        PROVE  /\ [f EXCEPT !.text = Dense(f.text)] \in RAGFragment
               /\ [f EXCEPT !.text = RichText(f.text)] \in RAGFragment
    <3>1. Dense(f.text) \in Text /\ RichText(f.text) \in Text
      BY FragmentFacts, TextFacts DEF Dense, RichText
    <3>2. QED
      BY <3>1, FragmentFacts
  <2>2. QED
    BY <2>1, ChunkFacts
<1>2. /\ dense = [i \in DOMAIN c.frags |-> dense[i]]
      /\ rich = [i \in DOMAIN c.frags |-> rich[i]]
  OBVIOUS
<1>3. CompactChunk(c) = [c EXCEPT !.frags = dense]
  BY DEF CompactChunk
<1>4. SanitizeChunk(c) = [c EXCEPT !.frags = rich]
  BY DEF SanitizeChunk
<1> HIDE DEF dense, rich
<1>5. Reworked([c EXCEPT !.frags = dense], c)
  BY <1>1, <1>2, MappedFragments
<1>6. Reworked([c EXCEPT !.frags = rich], c)
  BY <1>1, <1>2, MappedFragments
<1>7. QED
  BY <1>3, <1>4, <1>5, <1>6

\* What is kept of long fragments is text.
LEMMA OutlineIsText ==
  ASSUME NEW t \in Text
  PROVE  Outline(t) \in Text
<1> DEFINE said == Pick(t, {i \in DOMAIN t : t[i] \in Signal})
           once == Once(said)
           kept == SubSeq(once, 1, Least(Keep["outline"], Len(once)))
<1>1. once \in Text
  <2>1. said \in Text
    BY TextFacts
  <2> HIDE DEF said
  <2>2. QED
    BY <2>1, TextFacts DEF Once
<1>2. Outline(t) \in {t, <<"outline">> \o kept}
  BY DEF Outline
<1> HIDE DEF once
<1>3. kept \in Text
  <2>1. Least(Keep["outline"], Len(once)) \in Nat
    BY <1>1, KeepAssumption, TextFacts DEF Least
  <2>2. Least(Keep["outline"], Len(once)) <= Len(once)
    BY <1>1, KeepAssumption, TextFacts DEF Least
  <2>3. QED
    BY <1>1, <2>1, <2>2, TextFacts
<1>4. <<"outline">> \in Text
  BY LineFacts DEF Line, Markers
<1> HIDE DEF kept
<1>5. QED
  BY <1>2, <1>3, <1>4, TextFacts

\* What a reduction leaves of a fragment is a fragment.
LEMMA ReducedIsFragment ==
  ASSUME NEW f \in RAGFragment, f.type \in {"json", "table", "code", "error-stack"}
  PROVE  Reduced(f) \in RAGFragment
<1>1. /\ f.text \in Text
      /\ \A t \in Text : [f EXCEPT !.text = t] \in RAGFragment
  BY FragmentFacts
<1>2. CASE f.type = "json"
  <2>1. Reduced(f) \in {f, [f EXCEPT !.text = <<"keys">>]}
    BY <1>2 DEF Reduced
  <2>2. QED
    BY <1>1, <2>1, LineFacts DEF Line, Markers
<1>3. CASE f.type = "table"
  <2> DEFINE kept == SubSeq(f.text, 1, Keep["table"])
             rest == kept \o <<"omitted">>
  <2>1. Reduced(f) = IF Len(f.text) <= Keep["table"] + 1 THEN f ELSE [f EXCEPT !.text = rest]
    BY <1>3 DEF Reduced
  <2>2. ASSUME ~(Len(f.text) <= Keep["table"] + 1)
        PROVE  rest \in Text
    <3>1. Keep["table"] \in Nat /\ Len(f.text) \in Nat
      BY <1>1, KeepAssumption, TextFacts
    <3>2. Keep["table"] \in Int /\ 1 \in Int /\ 1 <= 1 /\ Keep["table"] <= Len(f.text)
      BY <2>2, <3>1
    <3>3. kept \in Text
      BY <1>1, <3>2, TextFacts
    <3>4. <<"omitted">> \in Text
      BY LineFacts DEF Line, Markers
    <3> HIDE DEF kept
    <3>5. QED
      BY <3>3, <3>4, TextFacts
  <2> HIDE DEF rest
  <2>3. QED
    BY <1>1, <2>1, <2>2
<1>4. CASE f.type \in {"code", "error-stack"}
  <2>1. Reduced(f) = [f EXCEPT !.text = Outline(f.text)]
    BY <1>4 DEF Reduced
  <2>2. QED
    BY <1>1, <2>1, OutlineIsText
<1>5. QED
  BY <1>2, <1>3, <1>4

\* The transforms of stage 2.
LEMMA ReducedChunk ==
  ASSUME NEW c \in RAGChunk, NEW type \in {"json", "table", "code", "error-stack"}
  PROVE  Reworked(ReduceChunk(c, type), c)
<1> DEFINE frags == [i \in DOMAIN c.frags |->
                       IF c.frags[i].type = type THEN Reduced(c.frags[i]) ELSE c.frags[i]]
<1>1. \A i \in 1..Len(c.frags) : frags[i] \in RAGFragment
  BY ChunkFacts, ReducedIsFragment
<1>2. frags = [i \in DOMAIN c.frags |-> frags[i]]
  OBVIOUS
<1>3. ReduceChunk(c, type) = [c EXCEPT !.frags = frags]
  BY DEF ReduceChunk
<1> HIDE DEF frags
<1>4. QED
  BY <1>1, <1>2, <1>3, MappedFragments

\* The head and the tail of a text.
LEMMA SnippedChunk ==
  ASSUME NEW c \in RAGChunk, NEW head \in Nat, NEW tail \in Nat
  PROVE  Reworked(SnipChunk(c, head, tail), c)
<1> DEFINE Ends(t) == SubSeq(t, 1, head) \o <<"snipped">> \o SubSeq(t, Len(t) - tail + 1, Len(t))
           Snipped(f) ==
             IF \/ f.type \notin {"code", "json", "log", "error-stack"}
                \/ Len(f.text) <= head + tail
             THEN f
             ELSE [f EXCEPT !.text = Ends(@)]
           frags == [i \in DOMAIN c.frags |-> Snipped(c.frags[i])]
<1>1. ASSUME NEW f \in RAGFragment
      PROVE  Snipped(f) \in RAGFragment
  <2> SUFFICES ASSUME ~(Len(f.text) <= head + tail)
               PROVE  Ends(f.text) \in Text
    BY FragmentFacts
  <2>1. PICK t \in Text : t = f.text
    BY FragmentFacts
  <2>2. PICK n \in Nat : n = Len(t)
    BY TextFacts
  <2>3. SubSeq(t, 1, head) \in Text
    <3>1. 1 \in Int /\ head \in Int /\ 1 <= 1 /\ head <= n
      BY <2>1, <2>2
    <3>2. QED
      BY <2>2, <3>1, TextFacts
  <2>4. SubSeq(t, n - tail + 1, n) \in Text
    <3>1. n - tail + 1 \in Int /\ n \in Int /\ 1 <= n - tail + 1 /\ n <= n
      BY <2>1, <2>2
    <3>2. QED
      BY <2>2, <3>1, TextFacts
  <2>5. <<"snipped">> \in Text
    BY LineFacts DEF Line, Markers
  <2>6. QED
    BY <2>1, <2>2, <2>3, <2>4, <2>5, TextFacts
<1>2. \A i \in 1..Len(c.frags) : frags[i] \in RAGFragment
  <2> HIDE DEF Snipped
  <2>1. QED
    BY <1>1, ChunkFacts
<1>3. frags = [i \in DOMAIN c.frags |-> frags[i]]
  OBVIOUS
<1>4. SnipChunk(c, head, tail) = [c EXCEPT !.frags = frags]
  BY DEF SnipChunk
<1> HIDE DEF frags
<1>5. Reworked([c EXCEPT !.frags = frags], c)
  BY <1>2, <1>3, MappedFragments
<1>6. QED
  BY <1>4, <1>5

\* Repetitions and blank lines.
LEMMA SafelyCompacted ==
  ASSUME NEW c \in RAGChunk
  PROVE  Reworked(SafeCompactChunk(c), c)
<1> DEFINE Fresh(t) == {i \in DOMAIN t : i = 1 \/ t[i - 1] # t[i]}
           Compacted(f) == IF f.type \notin {"log", "error-stack"} THEN f
                           ELSE [f EXCEPT !.text = Dense(Pick(@, Fresh(f.text)))]
           frags == [i \in DOMAIN c.frags |-> Compacted(c.frags[i])]
<1>1. ASSUME NEW f \in RAGFragment
      PROVE  Compacted(f) \in RAGFragment
  <2>1. Pick(f.text, Fresh(f.text)) \in Text
    BY FragmentFacts, TextFacts
  <2>2. Dense(Pick(f.text, Fresh(f.text))) \in Text
    BY <2>1, TextFacts DEF Dense
  <2> HIDE DEF Fresh
  <2>3. QED
    BY <2>2, FragmentFacts
<1>2. \A i \in 1..Len(c.frags) : frags[i] \in RAGFragment
  <2> HIDE DEF Compacted
  <2>1. QED
    BY <1>1, ChunkFacts
<1>3. frags = [i \in DOMAIN c.frags |-> frags[i]]
  OBVIOUS
<1>4. SafeCompactChunk(c) = [c EXCEPT !.frags = frags]
  BY DEF SafeCompactChunk
<1> HIDE DEF frags
<1>5. QED
  BY <1>2, <1>3, <1>4, MappedFragments

----------------------------------------------------------------------------
(* Normalisation *)

\* Sorting page keys loses none and adds none.
LEMMA SortedRefs ==
  ASSUME NEW refs \in Seq(PageRef)
  PROVE  /\ Sorted(refs, RefBefore) \in Seq(PageRef)
         /\ ToSet(Sorted(refs, RefBefore)) = ToSet(refs)
<1> DEFINE n == Len(refs)
           B == {p \in (1..n) \X (1..n) : RefBefore(refs[p[1]], refs[p[2]])}
           rank == [i \in DOMAIN refs |-> Cardinality({j \in DOMAIN refs :
                      RefBefore(refs[j], refs[i]) \/ (j <= i /\ ~RefBefore(refs[i], refs[j]))})]
           out == Sorted(refs, RefBefore)
<1>1. /\ n \in Nat /\ DOMAIN refs = 1..n
      /\ \A i \in 1..n : refs[i].page \in Nat
  <2>1. \A x \in PageRef : x.page \in Nat
    BY DEF PageRef
  <2>2. QED
    BY <2>1, LenProperties, ElementOfSeq
<1> HIDE DEF n
<1>2. \A i, j \in 1..n : <<i, j>> \in B <=> RefBefore(refs[i], refs[j])
  BY Zenon
<1> HIDE DEF B
<1>3. WeakOrder(B, n)
  <2> DEFINE Key(k) == IF k < 10 THEN 100 * k ELSE 100 * (k \div 10) + 1 + (k % 10)
  <2>1. \A k \in Nat : Key(k) \in Nat
    OBVIOUS
  <2>2. \A i, j \in 1..n : <<i, j>> \in B <=> Key(refs[i].page) < Key(refs[j].page)
    BY <1>2 DEF RefBefore
  <2> HIDE DEF Key
  <2> DEFINE key == [i \in 1..n |-> Key(refs[i].page)]
  <2>3. \A i \in 1..n : key[i] \in Nat
    BY <1>1, <2>1
  <2>4. \A i, j \in 1..n : <<i, j>> \in B <=> key[i] < key[j]
    BY <2>2
  <2> HIDE DEF key
  <2>5. QED
    BY <1>1, <2>3, <2>4, OrderOfNumbers
<1>4. RanksOf(rank, refs, B)
  <2>1. ASSUME NEW i \in DOMAIN refs
        PROVE  {j \in DOMAIN refs : RefBefore(refs[j], refs[i]) \/ (j <= i /\ ~RefBefore(refs[i], refs[j]))}
                 = {j \in DOMAIN refs : <<j, i>> \in B \/ (j <= i /\ <<i, j>> \notin B)}
    BY <1>1, <1>2
  <2>2. QED
    BY <2>1, Zenon DEF RanksOf
<1>5. InRanks(out, refs, rank)
  BY DEF InRanks, Sorted
<1> HIDE DEF rank, out
<1>6. /\ out \in Seq(PageRef) /\ Len(out) = Len(refs)
      /\ \A i \in 1..Len(refs) : \E k \in 1..Len(refs) : out[k] = refs[i]
      /\ \A k \in 1..Len(refs) : \E i \in 1..Len(refs) : out[k] = refs[i]
  <2>1. WeakOrder(B, Len(refs))
    BY <1>3 DEF n
  <2>2. QED
    BY <1>4, <1>5, <2>1, SortedByRank
<1>7. ToSet(out) = ToSet(refs)
  <2>1. DOMAIN out = 1..Len(refs) /\ DOMAIN refs = 1..Len(refs)
    BY <1>6, LenProperties
  <2>2. \A k \in DOMAIN out : \E i \in DOMAIN refs : out[k] = refs[i]
    BY <1>6, <2>1
  <2>3. \A i \in DOMAIN refs : \E k \in DOMAIN out : refs[i] = out[k]
    BY <1>6, <2>1
  <2>4. /\ ToSet(out) = {out[k] : k \in DOMAIN out}
        /\ ToSet(refs) = {refs[i] : i \in DOMAIN refs}
    BY Zenon DEF ToSet
  <2>5. QED
    BY <2>2, <2>3, <2>4
<1>8. QED
  BY <1>6, <1>7 DEF out

\* A normalised chunk cites and refers to what it did.
LEMMA NormalizedChunk ==
  ASSUME NEW c \in RAGChunk
  PROVE  Reworked(NormalizeChunk(c), c)
<1> DEFINE frags == [i \in DOMAIN c.frags |-> Normal(c.frags[i])]
           refs == Sorted(c.refs, RefBefore)
<1>1. frags \in Seq(RAGFragment)
  <2>1. \A i \in 1..Len(c.frags) : frags[i] \in RAGFragment
    BY ChunkFacts, NormalIsFragment
  <2>2. frags = [i \in DOMAIN c.frags |-> frags[i]]
    OBVIOUS
  <2> HIDE DEF frags
  <2>3. QED
    BY <2>1, <2>2, ChunkFacts, MappedList
<1>2. refs \in Seq(PageRef) /\ ToSet(refs) = ToSet(c.refs)
  BY ChunkFacts, SortedRefs
<1>3. NormalizeChunk(c) = [c EXCEPT !.sources = StableSources(c.sources),
                                   !.frags = frags, !.refs = refs]
  BY DEF NormalizeChunk
<1> HIDE DEF frags, refs
<1>4. PICK list \in Sources : list = StableSources(c.sources) /\ Folds(list) = Folds(c.sources)
  BY ChunkFacts, StableSourcesFacts
<1> DEFINE d == [c EXCEPT !.sources = list, !.frags = frags, !.refs = refs]
<1>5. d \in RAGChunk /\ d.sources = list /\ d.refs = refs
  BY <1>1, <1>2 DEF RAGChunk
<1>6. NormalizeChunk(c) = d
  BY <1>3, <1>4
<1> HIDE DEF d
<1>7. QED
  BY <1>2, <1>4, <1>5, <1>6 DEF Reworked

----------------------------------------------------------------------------
(* Canonicalize *)

\* Line x of a body is a title, opens a body or goes on with the one that is open.
LEMMA PutIsFragments ==
  ASSUME NEW frags \in Seq(RAGFragment), NEW x \in Line
  PROVE  /\ Append(frags, [type |-> "title", text |-> <<x>>]) \in Seq(RAGFragment)
         /\ Append(frags, [type |-> "body", text |-> <<x>>]) \in Seq(RAGFragment)
         /\ frags # << >> =>
              [frags EXCEPT ![Len(frags)].text = Append(@, x)] \in Seq(RAGFragment)
<1>1. <<x>> \in Text
  BY LineFacts
<1>2. /\ [type |-> "title", text |-> <<x>>] \in RAGFragment
      /\ [type |-> "body", text |-> <<x>>] \in RAGFragment
  BY <1>1 DEF RAGFragment, FragmentTypes
<1>3. ASSUME frags # << >>
      PROVE  [frags EXCEPT ![Len(frags)].text = Append(@, x)] \in Seq(RAGFragment)
  <2> DEFINE f == frags[Len(frags)]
             g == [f EXCEPT !.text = Append(f.text, x)]
  <2>1. Len(frags) \in 1..Len(frags)
    BY <1>3, EmptySeq
  <2>2. f \in RAGFragment
    BY <2>1, ElementOfSeq
  <2>3. Append(f.text, x) \in Text
    <3>1. f.text \in Text
      BY <2>2, FragmentFacts
    <3>2. QED
      BY <3>1, AppendProperties DEF Text, Line
  <2>4. g \in RAGFragment
    BY <2>2, <2>3, FragmentFacts
  <2>5. [frags EXCEPT ![Len(frags)].text = Append(@, x)] = [frags EXCEPT ![Len(frags)] = g]
    BY <2>1
  <2> HIDE DEF g
  <2>6. QED
    BY <2>1, <2>4, <2>5, ExceptSeq
<1>4. QED
  BY <1>2, <1>3, AppendProperties

\* The sections of a text are fragments.
LEMMA SectionsAreFragments ==
  ASSUME NEW text \in Text
  PROVE  Sections(text) \in Seq(RAGFragment)
<1> DEFINE Said(i) == text[i] # Blank /\ ~IsBoilerplate(text, text[i])
           underlined == CHOOSE underlined : underlined =
             [i \in 0..Len(text) |->
                /\ i \in 1..(Len(text) - 1)
                /\ Said(i) /\ text[i + 1] \in Rule
                /\ ~underlined[i - 1]]
           lines == Pick([i \in DOMAIN text |-> i],
                         {i \in DOMAIN text : Said(i) /\ ~underlined[i - 1]})
           Put(frags, i) ==
             CASE underlined[i] \/ text[i] \in Heading ->
                    Append(frags, [type |-> "title", text |-> <<text[i]>>])
               [] frags # << >> /\ Last(frags).type = "body" ->
                    [frags EXCEPT ![Len(frags)].text = Append(@, text[i])]
               [] OTHER -> Append(frags, [type |-> "body", text |-> <<text[i]>>])
           Ok(f) == f = [n \in Nat |-> IF n \in DOMAIN lines THEN Put(f[n - 1], lines[n]) ELSE << >>]
           sections == CHOOSE f : Ok(f)
<1>1. Sections(text) = sections[Len(lines)]
  BY DEF Sections
<1>2. Len(text) \in Nat /\ DOMAIN text = 1..Len(text) /\ \A i \in 1..Len(text) : text[i] \in Line
  BY TextFacts
<1>3. lines \in Seq(1..Len(text))
  <2> DEFINE all == [i \in DOMAIN text |-> i]
  <2>1. all \in [1..Len(text) -> 1..Len(text)]
    BY <1>2
  <2> HIDE DEF all
  <2>2. all \in Seq(1..Len(text))
    BY <1>2, <2>1, FunctionIsSequence
  <2>3. QED
    BY <2>2, PickFacts DEF all
<1>4. ASSUME NEW frags \in Seq(RAGFragment), NEW i \in 1..Len(text)
      PROVE  Put(frags, i) \in Seq(RAGFragment)
  <2>1. \/ Put(frags, i) = Append(frags, [type |-> "title", text |-> <<text[i]>>])
        \/ Put(frags, i) = Append(frags, [type |-> "body", text |-> <<text[i]>>])
        \/ /\ frags # << >>
           /\ Put(frags, i) = [frags EXCEPT ![Len(frags)].text = Append(@, text[i])]
    <3> HIDE DEF underlined
    <3>1. CASE underlined[i] \/ text[i] \in Heading
      BY <3>1
    <3>2. CASE /\ ~(underlined[i] \/ text[i] \in Heading)
               /\ frags # << >> /\ Last(frags).type = "body"
      BY <3>2
    <3>3. CASE /\ ~(underlined[i] \/ text[i] \in Heading)
               /\ ~(frags # << >> /\ Last(frags).type = "body")
      BY <3>3
    <3>4. QED
      BY <3>1, <3>2, <3>3
  <2> HIDE DEF Put
  <2>2. QED
    BY <1>2, <2>1, PutIsFragments
<1> HIDE DEF Put, lines
<1>5. PICK n \in Nat : n = Len(lines) /\ DOMAIN lines = 1..n /\ \A k \in 1..n : lines[k] \in 1..Len(text)
  BY <1>3, LenProperties, ElementOfSeq
<1> DEFINE E == [p \in Seq(RAGFragment) \X (1..n) |-> Put(p[1], lines[p[2]])]
<1>6. E \in [Seq(RAGFragment) \X (1..n) -> Seq(RAGFragment)]
  BY <1>4, <1>5
<1>7. << >> \in Seq(RAGFragment)
  BY EmptySeq
<1>8. PICK g \in [Nat -> Seq(RAGFragment)] : Recurs(g, << >>, n, E)
  <2> HIDE DEF E
  <2>1. QED
    BY <1>6, <1>7, Recursion
<1>9. Ok(g)
  <2>1. \A k \in 1..n : E[<<g[k - 1], k>>] = Put(g[k - 1], lines[k])
    <3>1. \A k \in 1..n : g[k - 1] \in Seq(RAGFragment)
      BY <1>8
    <3>2. QED
      BY <3>1
  <2> HIDE DEF E
  <2>2. QED
    BY <1>5, <1>8, <2>1 DEF Recurs
<1>10. Ok(sections)
  BY <1>9
<1> HIDE DEF sections
<1>11. \A k \in Nat : sections[k] = IF k \in DOMAIN lines THEN Put(sections[k - 1], lines[k]) ELSE << >>
  BY <1>10
<1> HIDE DEF Ok
<1>12. sections[0] \in Seq(RAGFragment)
  <2>1. 0 \in Nat /\ 0 \notin DOMAIN lines
    BY <1>5
  <2>2. QED
    BY <1>7, <1>11, <2>1
<1>13. \A k \in 1..n : sections[k - 1] \in Seq(RAGFragment) => sections[k] \in Seq(RAGFragment)
  <2> SUFFICES ASSUME NEW k \in 1..n, sections[k - 1] \in Seq(RAGFragment)
               PROVE  sections[k] \in Seq(RAGFragment)
    OBVIOUS
  <2>1. sections[k] = Put(sections[k - 1], lines[k])
    BY <1>5, <1>11
  <2>2. QED
    BY <1>4, <1>5, <2>1
<1>14. \A k \in 0..n : sections[k] \in Seq(RAGFragment)
  BY <1>12, <1>13, RecursionStays
<1>15. QED
  BY <1>1, <1>5, <1>14

\* What canonicalize makes of a fragment are fragments.
LEMMA PreprocessedFragment ==
  ASSUME NEW f \in RAGFragment
  PROVE  PreprocessFragment(f) \in Seq(RAGFragment)
<1>1. \A g \in RAGFragment : <<g>> \in Seq(RAGFragment)
  OBVIOUS
<1>2. f.text \in Text /\ RichText(f.text) \in Text
  BY FragmentFacts, TextFacts DEF RichText
<1>3. Dense(RichText(f.text)) \in Text
  BY <1>2, TextFacts DEF Dense
<1>4. [f EXCEPT !.text = Dense(RichText(f.text))] \in RAGFragment
  BY <1>3, FragmentFacts
<1>5. Sections(RichText(f.text)) \in Seq(RAGFragment)
  BY <1>2, SectionsAreFragments
<1>6. << >> \in Seq(RAGFragment)
  BY EmptySeq
<1>7. PreprocessFragment(f) \in
        {<<Normal(f)>>, <<f>>, Sections(RichText(f.text)),
         <<[f EXCEPT !.text = Dense(RichText(f.text))]>>, << >>}
  BY Zenon DEF PreprocessFragment
<1>8. QED
  BY <1>1, <1>4, <1>5, <1>6, <1>7, NormalIsFragment

\* A canonical chunk cites and refers to what it did.
LEMMA PreprocessedChunk ==
  ASSUME NEW c \in RAGChunk
  PROVE  Reworked(PreprocessChunk(c), c)
<1> DEFINE parts == [i \in DOMAIN c.frags |-> PreprocessFragment(c.frags[i])]
<1>1. \A i \in 1..Len(c.frags) : parts[i] \in Seq(RAGFragment)
  BY ChunkFacts, PreprocessedFragment
<1>2. parts = [i \in DOMAIN c.frags |-> parts[i]]
  OBVIOUS
<1>3. PreprocessChunk(c) = [c EXCEPT !.frags = FlattenSeq(parts)]
  BY DEF PreprocessChunk
<1> HIDE DEF parts
<1>4. parts \in Seq(Seq(RAGFragment))
  BY <1>1, <1>2, ChunkFacts, MappedList
<1>5. FlattenSeq(parts) \in Seq(RAGFragment)
  BY <1>4, FlattenFacts
<1>6. QED
  BY <1>3, <1>5, Refragmented

----------------------------------------------------------------------------
(* Paging *)

\* The pieces of a text are texts.
LEMMA PiecesAreTexts ==
  ASSUME NEW text \in Text
  PROVE  SplitText(text) \in Seq(Text)
<1>1. PICK size \in Nat : size = Len(text)
  BY TextFacts
<1>2. PICK n \in Nat : n = (size + PageLimit - 1) \div PageLimit
  BY PageLimitAssumption
<1> DEFINE Piece(k) == SubSeq(text, PageLimit * (k - 1) + 1, Least(PageLimit * k, size))
<1>3. ASSUME NEW k \in 1..n
      PROVE  Piece(k) \in Text
  <2>1. PICK a \in Nat : a = PageLimit * (k - 1)
    BY PageLimitAssumption
  <2>2. PICK b \in Nat : b = PageLimit * k
    BY PageLimitAssumption
  <2>3. a + 1 \in Int /\ 1 <= a + 1
    OBVIOUS
  <2>4. Least(b, size) \in Int /\ Least(b, size) <= size
    BY DEF Least
  <2>5. SubSeq(text, a + 1, Least(b, size)) \in Text
    BY <1>1, <2>3, <2>4, TextFacts
  <2>6. QED
    BY <2>1, <2>2, <2>5
<1>4. SplitText(text) = [k \in 1..n |-> Piece(k)]
  BY <1>1, <1>2 DEF SplitText
<1> HIDE DEF Piece
<1>5. [k \in 1..n |-> Piece(k)] \in [1..n -> Text]
  BY <1>3
<1>6. QED
  BY <1>4, <1>5, FunctionIsSequence

\* A fragment is cut into fragments.
LEMMA PartsAreFragments ==
  ASSUME NEW f \in RAGFragment
  PROVE  FragmentParts(f) \in Seq(RAGFragment)
<1> DEFINE pieces == SplitText(Dense(f.text))
           parts == [k \in DOMAIN pieces |-> [f EXCEPT !.text = pieces[k]]]
<1>1. pieces \in Seq(Text)
  <2>1. Dense(f.text) \in Text
    BY FragmentFacts, TextFacts DEF Dense
  <2>2. QED
    BY <2>1, PiecesAreTexts
<1>2. FragmentParts(f) = IF Len(f.text) <= PageLimit THEN <<f>> ELSE parts
  BY DEF FragmentParts
<1> HIDE DEF pieces
<1>3. parts \in Seq(RAGFragment)
  <2>1. \A k \in 1..Len(pieces) : pieces[k] \in Text
    BY <1>1, ElementOfSeq
  <2>2. \A k \in 1..Len(pieces) : parts[k] \in RAGFragment
    BY <1>1, <2>1, LenProperties, FragmentFacts
  <2>3. parts = [k \in DOMAIN pieces |-> parts[k]]
    OBVIOUS
  <2> HIDE DEF parts
  <2>4. QED
    BY <1>1, <2>2, <2>3, MappedList
<1>4. <<f>> \in Seq(RAGFragment)
  OBVIOUS
<1>5. QED
  BY <1>2, <1>3, <1>4

\* Lists of pages of which there is one at least.
Book == {p \in Seq(Seq(RAGFragment)) : p # << >>}

\* Another part goes into the last page or into a new one.
LEMMA PackedPart ==
  ASSUME NEW front \in Book, NEW part \in RAGFragment
  PROVE  /\ Append(front, <<part>>) \in Book
         /\ [front EXCEPT ![Len(front)] = Append(@, part)] \in Book
<1>1. <<part>> \in Seq(RAGFragment) /\ front \in Seq(Seq(RAGFragment)) /\ front # << >>
  BY DEF Book
<1>2. PICK m \in Nat : m = Len(front) /\ m \in 1..Len(front) /\ front[m] \in Seq(RAGFragment)
  <2>1. Len(front) \in Nat /\ Len(front) \in 1..Len(front)
    BY <1>1, EmptySeq, LenProperties
  <2>2. QED
    BY <1>1, <2>1, ElementOfSeq
<1>3. Append(front, <<part>>) \in Book
  BY <1>1, AppendProperties DEF Book
<1>4. Append(front[m], part) \in Seq(RAGFragment)
  BY <1>2, AppendProperties
<1>5. [front EXCEPT ![m] = Append(front[m], part)] \in Seq(Seq(RAGFragment))
  BY <1>1, <1>2, <1>4, ExceptSeq
<1>6. [front EXCEPT ![m] = Append(front[m], part)] # << >>
  <2>1. Len([front EXCEPT ![m] = Append(front[m], part)]) = Len(front)
    BY <1>1, <1>2, <1>4, ExceptSeq
  <2>2. QED
    BY <1>2, <2>1
<1>7. QED
  BY <1>2, <1>3, <1>5, <1>6 DEF Book

\* Book b is book a with another part: pages are filled part by part, from an empty one.
Packed(a, b, part) ==
  b \in {Append(a, <<part>>), [a EXCEPT ![Len(a)] = Append(@, part)]}
Packs(pack, parts) ==
  /\ pack[0] = << << >> >>
  /\ \A k \in 1..Len(parts) : Packed(pack[k - 1], pack[k], parts[k])
PartsOf(frags) == FlattenSeq([i \in DOMAIN frags |-> FragmentParts(frags[i])])

\* The books that lead to the pages of a chunk.
LEMMA PackedPages ==
  ASSUME NEW frags \in Seq(RAGFragment)
  PROVE  /\ PartsOf(frags) \in Seq(RAGFragment)
         /\ \E pack : /\ Paginate(frags) = pack[Len(PartsOf(frags))]
                      /\ \A k \in 0..Len(PartsOf(frags)) : pack[k] \in Book
                      /\ Packs(pack, PartsOf(frags))
<1> DEFINE cut == [i \in DOMAIN frags |-> FragmentParts(frags[i])]
           parts == FlattenSeq(cut)
           Put(front, part) ==
             IF /\ Len(TextOf(Last(front))) > 0
                /\ Len(TextOf(Last(front))) + Len(Rendered(part)) > PageLimit
             THEN Append(front, <<part>>)
             ELSE [front EXCEPT ![Len(front)] = Append(@, part)]
           Ok(f) == f = [n \in Nat |-> IF n \notin DOMAIN parts THEN << << >> >>
                                       ELSE Put(f[n - 1], parts[n])]
           pack == CHOOSE f : Ok(f)
<1>1. Paginate(frags) = pack[Len(parts)]
  BY DEF Paginate
<1>2. parts \in Seq(RAGFragment)
  <2>1. \A i \in 1..Len(frags) : cut[i] \in Seq(RAGFragment)
    BY LenProperties, ElementOfSeq, PartsAreFragments
  <2>2. cut = [i \in DOMAIN frags |-> cut[i]]
    OBVIOUS
  <2> HIDE DEF cut
  <2>3. cut \in Seq(Seq(RAGFragment))
    BY <2>1, <2>2, MappedList
  <2>4. QED
    BY <2>3, FlattenFacts
<1>3. ASSUME NEW front \in Book, NEW part \in RAGFragment
      PROVE  Put(front, part) \in Book
  <2>1. \/ Put(front, part) = Append(front, <<part>>)
        \/ Put(front, part) = [front EXCEPT ![Len(front)] = Append(@, part)]
    OBVIOUS
  <2> HIDE DEF Put
  <2>2. QED
    BY <2>1, PackedPart
<1> HIDE DEF Put, parts
<1>4. PICK n \in Nat : n = Len(parts) /\ DOMAIN parts = 1..n /\ \A k \in 1..n : parts[k] \in RAGFragment
  BY <1>2, LenProperties, ElementOfSeq
<1> DEFINE E == [p \in Book \X (1..n) |-> Put(p[1], parts[p[2]])]
<1>5. E \in [Book \X (1..n) -> Book]
  BY <1>3, <1>4
<1>6. << << >> >> \in Book
  <2>1. << >> \in Seq(RAGFragment)
    BY EmptySeq
  <2>2. QED
    BY <2>1 DEF Book
<1>7. PICK g \in [Nat -> Book] : Recurs(g, << << >> >>, n, E)
  <2> HIDE DEF E
  <2>1. QED
    BY <1>5, <1>6, Recursion
<1>8. Ok(g)
  <2>1. \A k \in 1..n : E[<<g[k - 1], k>>] = Put(g[k - 1], parts[k])
    <3>1. \A k \in 1..n : g[k - 1] \in Book
      BY <1>7
    <3>2. QED
      BY <3>1
  <2> HIDE DEF E
  <2>2. QED
    BY <1>4, <1>7, <2>1 DEF Recurs
<1>9. Ok(pack)
  BY <1>8
<1> HIDE DEF pack
<1>10. \A k \in Nat : pack[k] = IF k \notin DOMAIN parts THEN << << >> >>
                                ELSE Put(pack[k - 1], parts[k])
  BY <1>9
<1> HIDE DEF Ok
<1>11. pack[0] \in Book
  <2>1. 0 \in Nat /\ 0 \notin DOMAIN parts
    BY <1>4
  <2>2. QED
    BY <1>6, <1>10, <2>1
<1>12. \A k \in 1..n : pack[k - 1] \in Book => pack[k] \in Book
  <2> SUFFICES ASSUME NEW k \in 1..n, pack[k - 1] \in Book
               PROVE  pack[k] \in Book
    OBVIOUS
  <2>1. pack[k] = Put(pack[k - 1], parts[k])
    BY <1>4, <1>10
  <2>2. QED
    BY <1>3, <1>4, <2>1
<1>13. \A k \in 0..n : pack[k] \in Book
  BY <1>11, <1>12, RecursionStays
<1>14. Packs(pack, parts)
  <2>1. pack[0] = << << >> >>
    <3>1. 0 \in Nat /\ 0 \notin DOMAIN parts
      BY <1>4
    <3>2. QED
      BY <1>10, <3>1
  <2>2. \A k \in 1..n : Packed(pack[k - 1], pack[k], parts[k])
    <3> SUFFICES ASSUME NEW k \in 1..n PROVE Packed(pack[k - 1], pack[k], parts[k])
      OBVIOUS
    <3>1. pack[k] = Put(pack[k - 1], parts[k])
      BY <1>4, <1>10
    <3>2. PICK a, b, part : a = pack[k - 1] /\ b = pack[k] /\ part = parts[k]
      OBVIOUS
    <3>3. b = Put(a, part)
      BY <3>1, <3>2
    <3>4. Packed(a, b, part)
      BY <3>3 DEF Put, Packed
    <3>5. QED
      BY <3>2, <3>4
  <2>3. QED
    BY <1>4, <2>1, <2>2 DEF Packs
<1>15. parts = PartsOf(frags)
  BY DEF parts, PartsOf
<1>16. QED
  BY <1>1, <1>2, <1>4, <1>13, <1>14, <1>15

\* The pages of a chunk are lists of fragments, and there is a first one.
LEMMA PagesAreFragments ==
  ASSUME NEW frags \in Seq(RAGFragment)
  PROVE  Paginate(frags) \in Book
<1>1. PICK n \in Nat : n = Len(PartsOf(frags))
  BY PackedPages, LenProperties
<1>2. PICK pack : Paginate(frags) = pack[n] /\ \A k \in 0..n : pack[k] \in Book
  BY <1>1, PackedPages
<1>3. QED
  BY <1>2

\* The first page stands for the chunk: it cites what the chunk cites, and the
\* pages it refers to are the ones that are saved.
LEMMA FirstPageFacts ==
  ASSUME NEW c \in RAGChunk
  PROVE  LET saved == PagesOf(c)
             n == Len(saved)
         IN  /\ n \in Nat \ {0} /\ DOMAIN saved = 1..n
             /\ \A k \in 1..n : saved[k].key \in PageRef /\ saved[k].text \in Text
             /\ FirstPage(c) \in RAGChunk /\ FirstPage(c).sources = c.sources
             /\ FirstPage(c).refs = [k \in 1..n |-> saved[k].key]
<1> DEFINE saved == PagesOf(c)
           pages == Paginate(c.frags)
           keys == [k \in DOMAIN pages |-> PageKey(c, k)]
<1>1. pages \in Seq(Seq(RAGFragment)) /\ pages # << >>
  BY ChunkFacts, PagesAreFragments DEF Book
<1>2. saved = [k \in DOMAIN pages |-> [key |-> PageKey(c, k), text |-> TextOf(pages[k])]]
  BY DEF PagesOf
<1>3. FirstPage(c) = [c EXCEPT !.frags = pages[1], !.refs = keys]
  BY DEF FirstPage
<1> HIDE DEF pages, saved
<1>4. PICK n \in Nat : n = Len(pages) /\ DOMAIN pages = 1..n /\ \A k \in 1..n : pages[k] \in Seq(RAGFragment)
  BY <1>1, LenProperties, ElementOfSeq
<1>5. n \in Nat \ {0}
  BY <1>1, <1>4, EmptySeq
<1>6. \A k \in 1..n : PageKey(c, k) \in PageRef
  <2>1. TextOf(NormalizeChunk(c).frags) \in Text
    BY NormalizedChunk, ChunkFacts, TextOfIsText DEF Reworked
  <2>2. Folds(c.sources) \in SUBSET Nat
    BY ChunkFacts, FoldsFacts
  <2>3. QED
    BY <2>1, <2>2 DEF PageKey, PageRef
<1>7. \A k \in 1..n : TextOf(pages[k]) \in Text
  BY <1>4, TextOfIsText
<1>8. saved = [k \in 1..n |-> [key |-> PageKey(c, k), text |-> TextOf(pages[k])]]
  BY <1>2, <1>4
<1>9. Len(saved) = n /\ DOMAIN saved = 1..n
  <2>1. saved \in [1..n -> {[key |-> PageKey(c, k), text |-> TextOf(pages[k])] : k \in 1..n}]
    BY <1>8
  <2>2. QED
    BY <2>1, FunctionIsSequence
<1>10. \A k \in 1..n : saved[k].key = PageKey(c, k) /\ saved[k].text = TextOf(pages[k])
  BY <1>8
<1>11. keys \in Seq(PageRef) /\ keys = [k \in 1..n |-> saved[k].key]
  <2>1. keys = [k \in 1..n |-> PageKey(c, k)]
    BY <1>4
  <2>2. keys \in [1..n -> PageRef]
    BY <1>6, <2>1
  <2>3. QED
    BY <1>10, <2>1, <2>2, FunctionIsSequence
<1> HIDE DEF keys
<1>12. FirstPage(c) \in RAGChunk /\ FirstPage(c).sources = c.sources /\ FirstPage(c).refs = keys
  <2>1. PICK page \in Seq(RAGFragment) : page = pages[1]
    BY <1>4, <1>5
  <2> DEFINE d == [c EXCEPT !.frags = page, !.refs = keys]
  <2>2. d \in RAGChunk /\ d.sources = c.sources /\ d.refs = keys
    BY <1>11 DEF RAGChunk
  <2>3. FirstPage(c) = d
    BY <1>3, <2>1
  <2> HIDE DEF d
  <2>4. QED
    BY <2>2, <2>3
<1>13. QED
  BY <1>5, <1>6, <1>7, <1>9, <1>10, <1>11, <1>12 DEF saved

----------------------------------------------------------------------------
(* The order of chunks *)

\* Two sets of numbers that differ have a least difference.
LEMMA LeastDifference ==
  ASSUME NEW S \in SUBSET Nat, NEW T \in SUBSET Nat, S # T
  PROVE  \E d \in Nat : /\ d \in (S \ T) \cup (T \ S)
                        /\ \A e \in (S \ T) \cup (T \ S) : d <= e
<1> DEFINE D == (S \ T) \cup (T \ S)
<1>1. D \subseteq Nat /\ D # {}
  OBVIOUS
<1> HIDE DEF D
<1>2. \E d \in D : \A e \in D : d <= e
  BY <1>1, LeastNumber
<1>3. QED
  BY <1>1, <1>2 DEF D

\* What SourcesBefore says at that difference.
LEMMA BeforeAt ==
  ASSUME NEW S \in SUBSET Nat, NEW T \in SUBSET Nat,
         NEW d \in Nat, d \in (S \ T) \cup (T \ S),
         \A e \in (S \ T) \cup (T \ S) : d <= e
  PROVE  SourcesBefore(S, T) <=> IF d \in S THEN \E t \in T : t > d ELSE ~\E s \in S : s > d
<1>1. ASSUME NEW c \in (S \ T) \cup (T \ S), \A e \in (S \ T) \cup (T \ S) : c <= e
      PROVE  c = d
  BY <1>1
<1>2. QED
  BY <1>1 DEF SourcesBefore

\* Of two lists of sources that differ exactly one comes first.
LEMMA SourcesTotal ==
  ASSUME NEW S \in SUBSET Nat, NEW T \in SUBSET Nat, S # T
  PROVE  SourcesBefore(S, T) <=> ~SourcesBefore(T, S)
<1>1. PICK d \in Nat : /\ d \in (S \ T) \cup (T \ S)
                       /\ \A e \in (S \ T) \cup (T \ S) : d <= e
  BY LeastDifference
<1>2. SourcesBefore(S, T) <=> IF d \in S THEN \E t \in T : t > d ELSE ~\E s \in S : s > d
  BY <1>1, BeforeAt
<1>3. (S \ T) \cup (T \ S) = (T \ S) \cup (S \ T)
  OBVIOUS
<1>4. SourcesBefore(T, S) <=> IF d \in T THEN \E t \in S : t > d ELSE ~\E s \in T : s > d
  BY <1>1, <1>3, BeforeAt
<1>5. QED
  BY <1>1, <1>2, <1>4

\* No list of sources comes before itself.
LEMMA SourcesIrreflexive ==
  ASSUME NEW S \in SUBSET Nat
  PROVE  ~SourcesBefore(S, S)
BY DEF SourcesBefore

\* The order of source lists is transitive: where two lists first differ
\* decides.
LEMMA SourcesTransitive ==
  ASSUME NEW S \in SUBSET Nat, NEW T \in SUBSET Nat, NEW U \in SUBSET Nat,
         SourcesBefore(S, T), SourcesBefore(T, U)
  PROVE  SourcesBefore(S, U)
<1> DEFINE Differ(A, B, d) == /\ d \in (A \ B) \cup (B \ A)
                              /\ \A e \in (A \ B) \cup (B \ A) : d <= e
           First(A, B, d) == IF d \in A THEN \E b \in B : b > d ELSE ~\E a \in A : a > d
<1>1. \A A, B \in SUBSET Nat : A # B => \E d \in Nat : Differ(A, B, d)
  BY LeastDifference
<1>2. \A A, B \in SUBSET Nat : \A d \in Nat :
        Differ(A, B, d) => (SourcesBefore(A, B) <=> First(A, B, d))
  BY BeforeAt
<1>3. S # T /\ T # U
  BY SourcesIrreflexive
<1>4. PICK d1 \in Nat : Differ(S, T, d1)
  BY <1>1, <1>3
<1>5. PICK d2 \in Nat : Differ(T, U, d2)
  BY <1>1, <1>3
<1>6. First(S, T, d1) /\ First(T, U, d2)
  BY <1>2, <1>4, <1>5
<1> SUFFICES \E d \in Nat : Differ(S, U, d) /\ First(S, U, d)
  BY <1>2
<1>7. CASE d1 < d2
  <2>1. Differ(S, U, d1)
    BY <1>4, <1>5, <1>7
  <2>2. First(S, U, d1)
    BY <1>4, <1>5, <1>6, <1>7
  <2>3. QED
    BY <2>1, <2>2
<1>8. CASE d2 < d1
  <2>1. Differ(S, U, d2)
    BY <1>4, <1>5, <1>8
  <2>2. First(S, U, d2)
    BY <1>4, <1>5, <1>6, <1>8
  <2>3. QED
    BY <2>1, <2>2
<1>9. CASE d1 = d2
  <2>1. d1 \notin S /\ d1 \in T /\ d1 \notin U
    BY <1>4, <1>5, <1>6, <1>9
  <2>2. (\A s \in S : ~(s > d1)) /\ (\E u \in U : u > d1)
    BY <1>6, <1>9, <2>1
  <2>3. S # U
    BY <2>2
  <2>4. PICK d \in Nat : Differ(S, U, d)
    BY <1>1, <2>3
  <2>5. \A e \in Nat : e <= d1 => (e \in S <=> e \in U)
    BY <1>4, <1>5, <1>9, <2>1
  <2>6. d > d1
    BY <2>4, <2>5
  <2>7. First(S, U, d)
    BY <2>2, <2>4, <2>6
  <2>8. QED
    BY <2>4, <2>7
<1>10. QED
  BY <1>7, <1>8, <1>9

\* What is before is before or after anything else.
LEMMA ChunkOrder ==
  ASSUME NEW a \in RAGChunk, NEW b \in RAGChunk
  PROVE  /\ ~(ChunkBefore(a, b) /\ ChunkBefore(b, a))
         /\ \A c \in RAGChunk : ChunkBefore(a, c) => ChunkBefore(a, b) \/ ChunkBefore(b, c)
<1>1. \A c \in RAGChunk : Folds(c.sources) \in SUBSET Nat /\ c.id \in Nat
  BY ChunkFacts, FoldsFacts
<1>2. ~(ChunkBefore(a, b) /\ ChunkBefore(b, a))
  BY <1>1, SourcesTotal, SourcesIrreflexive DEF ChunkBefore
<1>3. ASSUME NEW c \in RAGChunk, ChunkBefore(a, c), ~ChunkBefore(a, b), ~ChunkBefore(b, c)
      PROVE  FALSE
  <2>2. /\ Folds(a.sources) = Folds(b.sources) \/ SourcesBefore(Folds(b.sources), Folds(a.sources))
        /\ Folds(b.sources) = Folds(c.sources) \/ SourcesBefore(Folds(c.sources), Folds(b.sources))
    BY <1>1, <1>3, SourcesTotal DEF ChunkBefore
  <2>3. ~SourcesBefore(Folds(a.sources), Folds(b.sources)) /\ ~SourcesBefore(Folds(b.sources), Folds(c.sources))
    BY <1>3 DEF ChunkBefore
  <2>4. CASE Folds(a.sources) = Folds(b.sources) /\ Folds(b.sources) = Folds(c.sources)
    BY <1>1, <1>3, <2>4, SourcesIrreflexive DEF ChunkBefore
  <2>5. CASE Folds(a.sources) # Folds(b.sources) \/ Folds(b.sources) # Folds(c.sources)
    <3>1. SourcesBefore(Folds(c.sources), Folds(a.sources))
      BY <1>1, <2>2, <2>5, SourcesTransitive
    <3>2. ~SourcesBefore(Folds(a.sources), Folds(c.sources)) /\ Folds(a.sources) # Folds(c.sources)
      BY <1>1, <3>1, SourcesTotal, SourcesIrreflexive
    <3>3. QED
      BY <1>3, <3>2 DEF ChunkBefore
  <2>6. QED
    BY <2>4, <2>5
<1>4. QED
  BY <1>2, <1>3

----------------------------------------------------------------------------
(* Lists of chunks that are rewritten, sorted and merged *)

\* The sources of every chunk of cs are together on a chunk of ds.
Covers(ds, cs) ==
  \A i \in 1..Len(cs) : \E k \in 1..Len(ds) : Folds(cs[i].sources) \subseteq Folds(ds[k].sources)

\* A chunk of ds refers to pages that a chunk of cs refers to.
Refers(ds, cs) ==
  \A k \in 1..Len(ds) : \E i \in 1..Len(cs) : ToSet(ds[k].refs) \subseteq ToSet(cs[i].refs)

\* What a chunk of cs refers to, a chunk of ds refers to.
KeepsRefs(ds, cs) ==
  \A i \in 1..Len(cs) : \E k \in 1..Len(ds) : ToSet(cs[i].refs) \subseteq ToSet(ds[k].refs)

\* The chunks ds can stand for cs: no citation goes and no page key comes.
StandFor(ds, cs) == ds \in Seq(RAGChunk) /\ Covers(ds, cs) /\ Refers(ds, cs)

\* Chunks stand for themselves.
LEMMA StandForReflexive ==
  ASSUME NEW cs \in Seq(RAGChunk)
  PROVE  StandFor(cs, cs)
BY DEF StandFor, Covers, Refers

\* Covering is transitive, from processor to processor.
LEMMA CoversTransitive ==
  ASSUME NEW as, NEW bs, NEW cs, Covers(bs, as), Covers(cs, bs)
  PROVE  Covers(cs, as)
<1> SUFFICES ASSUME NEW i \in 1..Len(as)
             PROVE  \E k \in 1..Len(cs) : Folds(as[i].sources) \subseteq Folds(cs[k].sources)
  BY DEF Covers
<1>1. PICK j \in 1..Len(bs) : Folds(as[i].sources) \subseteq Folds(bs[j].sources)
  BY DEF Covers
<1>2. PICK k \in 1..Len(cs) : Folds(bs[j].sources) \subseteq Folds(cs[k].sources)
  BY DEF Covers
<1>3. QED
  BY <1>1, <1>2

\* Page keys that are kept by one processor and by the next are kept.
LEMMA KeepsRefsTransitive ==
  ASSUME NEW as, NEW bs, NEW cs, KeepsRefs(bs, as), KeepsRefs(cs, bs)
  PROVE  KeepsRefs(cs, as)
<1> SUFFICES ASSUME NEW i \in 1..Len(as)
             PROVE  \E k \in 1..Len(cs) : ToSet(as[i].refs) \subseteq ToSet(cs[k].refs)
  BY DEF KeepsRefs
<1>1. PICK j \in 1..Len(bs) : ToSet(as[i].refs) \subseteq ToSet(bs[j].refs)
  BY DEF KeepsRefs
<1>2. PICK k \in 1..Len(cs) : ToSet(bs[j].refs) \subseteq ToSet(cs[k].refs)
  BY DEF KeepsRefs
<1>3. QED
  BY <1>1, <1>2

\* Standing for is transitive too.
LEMMA StandForTransitive ==
  ASSUME NEW as, NEW bs, NEW cs, StandFor(bs, as), StandFor(cs, bs)
  PROVE  StandFor(cs, as)
<1>1. Covers(cs, as)
  BY CoversTransitive DEF StandFor
<1>2. Refers(cs, as)
  <2> SUFFICES ASSUME NEW k \in 1..Len(cs)
               PROVE  \E i \in 1..Len(as) : ToSet(cs[k].refs) \subseteq ToSet(as[i].refs)
    BY DEF Refers
  <2>1. PICK j \in 1..Len(bs) : ToSet(cs[k].refs) \subseteq ToSet(bs[j].refs)
    BY DEF StandFor, Refers
  <2>2. PICK i \in 1..Len(as) : ToSet(bs[j].refs) \subseteq ToSet(as[i].refs)
    BY DEF StandFor, Refers
  <2>3. QED
    BY <2>1, <2>2
<1>3. QED
  BY <1>1, <1>2 DEF StandFor

\* Rewriting chunks one by one.
LEMMA MappedChunks ==
  ASSUME NEW cs \in Seq(RAGChunk), NEW ds, ds = [i \in DOMAIN cs |-> ds[i]],
         \A i \in 1..Len(cs) : Reworked(ds[i], cs[i])
  PROVE  StandFor(ds, cs) /\ KeepsRefs(ds, cs) /\ Len(ds) = Len(cs)
<1>1. \A i \in 1..Len(cs) : /\ ds[i] \in RAGChunk /\ Folds(cs[i].sources) = Folds(ds[i].sources)
                            /\ ToSet(ds[i].refs) = ToSet(cs[i].refs)
  BY DEF Reworked
<1>2. ds \in Seq(RAGChunk) /\ Len(ds) = Len(cs)
  BY <1>1, MappedList
<1>3. QED
  BY <1>1, <1>2 DEF StandFor, Covers, Refers, KeepsRefs

\* The chunks cs in order: a permutation in which none comes before one it follows.
LEMMA SortedInOrder ==
  ASSUME NEW cs \in Seq(RAGChunk)
  PROVE  LET ds == Sorted(cs, ChunkBefore)
             n == Len(cs)
         IN  /\ ds \in Seq(RAGChunk) /\ Len(ds) = n
             /\ \E p : /\ Permutes(p, ds, cs, n)
                       /\ \A k, m \in 1..n : k < m => ~ChunkBefore(ds[m], ds[k])
<1> DEFINE n == Len(cs)
           B == {p \in (1..n) \X (1..n) : ChunkBefore(cs[p[1]], cs[p[2]])}
           rank == [i \in DOMAIN cs |-> Cardinality({j \in DOMAIN cs :
                      ChunkBefore(cs[j], cs[i]) \/ (j <= i /\ ~ChunkBefore(cs[i], cs[j]))})]
           ds == Sorted(cs, ChunkBefore)
<1>1. n \in Nat /\ DOMAIN cs = 1..n /\ \A i \in 1..n : cs[i] \in RAGChunk
  BY LenProperties, ElementOfSeq
<1> HIDE DEF n
<1>2. \A i, j \in 1..n : <<i, j>> \in B <=> ChunkBefore(cs[i], cs[j])
  BY Zenon
<1> HIDE DEF B
<1>3. WeakOrder(B, n)
  BY <1>1, <1>2, ChunkOrder DEF WeakOrder
<1>4. RanksOf(rank, cs, B)
  <2>1. ASSUME NEW i \in DOMAIN cs
        PROVE  {j \in DOMAIN cs : ChunkBefore(cs[j], cs[i]) \/ (j <= i /\ ~ChunkBefore(cs[i], cs[j]))}
                 = {j \in DOMAIN cs : <<j, i>> \in B \/ (j <= i /\ <<i, j>> \notin B)}
    BY <1>1, <1>2
  <2>2. QED
    BY <2>1, Zenon DEF RanksOf
<1>5. InRanks(ds, cs, rank)
  BY DEF InRanks, Sorted
<1> HIDE DEF rank, ds
<1>6. ds \in Seq(RAGChunk) /\ Len(ds) = n /\ \E p : Sorts(p, ds, cs, B, n)
  <2>1. WeakOrder(B, Len(cs))
    BY <1>3 DEF n
  <2>2. QED
    BY <1>4, <1>5, <2>1, SortPermutes DEF n
<1>7. PICK p : Sorts(p, ds, cs, B, n)
  BY <1>6
<1>8. ASSUME NEW k \in 1..n, NEW m \in 1..n, k < m
      PROVE  ~ChunkBefore(ds[m], ds[k])
  <2>1. p[k] \in 1..n /\ p[m] \in 1..n /\ ds[k] = cs[p[k]] /\ ds[m] = cs[p[m]]
    BY <1>7 DEF Sorts, Permutes
  <2>2. <<p[m], p[k]>> \notin B
    BY <1>7, <1>8, Zenon DEF Sorts
  <2>3. QED
    BY <1>2, <2>1, <2>2
<1>9. QED
  BY <1>6, <1>7, <1>8 DEF Sorts, n, ds

\* Sorting chunks loses none.
LEMMA SortedChunks ==
  ASSUME NEW cs \in Seq(RAGChunk)
  PROVE  StandFor(Sorted(cs, ChunkBefore), cs) /\ KeepsRefs(Sorted(cs, ChunkBefore), cs)
<1>1. PICK ds, n : ds = Sorted(cs, ChunkBefore) /\ n = Len(cs) /\ n \in Nat
  BY LenProperties
<1>2. ds \in Seq(RAGChunk) /\ Len(ds) = n /\ \E p : Permutes(p, ds, cs, n)
  BY <1>1, SortedInOrder
<1>3. PICK p : Permutes(p, ds, cs, n)
  BY <1>2
<1>4. Covers(ds, cs) /\ Refers(ds, cs) /\ KeepsRefs(ds, cs)
  <2>1. \A i \in 1..n : \E k \in 1..n : p[k] = i
    BY <1>3 DEF Permutes
  <2>2. \A k \in 1..n : p[k] \in 1..n /\ ds[k] = cs[p[k]]
    BY <1>3 DEF Permutes
  <2>3. ASSUME NEW i \in 1..n
        PROVE  \E k \in 1..n : ds[k] = cs[i]
    <3>1. PICK k \in 1..n : p[k] = i
      BY <2>1
    <3>2. ds[k] = cs[i]
      BY <2>2, <3>1
    <3>3. QED
      BY <3>2
  <2>4. Covers(ds, cs)
    BY <1>1, <1>2, <2>3 DEF Covers
  <2>5. Refers(ds, cs)
    BY <1>1, <1>2, <2>2 DEF Refers
  <2>6. KeepsRefs(ds, cs)
    BY <1>1, <1>2, <2>3 DEF KeepsRefs
  <2>7. QED
    BY <2>4, <2>5, <2>6
<1>5. QED
  BY <1>1, <1>2, <1>4, Zenon DEF StandFor

\* StableChunks normalises and sorts.
LEMMA StableChunksFacts ==
  ASSUME NEW cs \in Seq(RAGChunk)
  PROVE  StandFor(StableChunks(cs), cs) /\ KeepsRefs(StableChunks(cs), cs)
<1> DEFINE ds == [i \in DOMAIN cs |-> NormalizeChunk(cs[i])]
<1>1. \A i \in 1..Len(cs) : Reworked(ds[i], cs[i])
  BY LenProperties, ElementOfSeq, NormalizedChunk
<1>2. StandFor(ds, cs) /\ KeepsRefs(ds, cs)
  <2>1. ds = [i \in DOMAIN cs |-> ds[i]]
    OBVIOUS
  <2> HIDE DEF ds
  <2>2. QED
    BY <1>1, <2>1, MappedChunks
<1>3. StableChunks(cs) = Sorted(ds, ChunkBefore)
  BY DEF StableChunks
<1> HIDE DEF ds
<1>4. StandFor(Sorted(ds, ChunkBefore), ds) /\ KeepsRefs(Sorted(ds, ChunkBefore), ds)
  BY <1>2, SortedChunks DEF StandFor
<1>5. QED
  BY <1>2, <1>3, <1>4, StandForTransitive, KeepsRefsTransitive

\* The sources of several chunks, one after the other.
LEMMA MergedSources ==
  ASSUME NEW cs \in Seq(RAGChunk), NEW I \in SUBSET (DOMAIN cs),
         NEW lists, lists = [j \in DOMAIN cs |-> IF j \in I THEN StableSources(cs[j].sources)
                                                 ELSE << >>]
  PROVE  /\ Once(FlattenSeq(lists)) \in Sources
         /\ \A j \in I : Folds(cs[j].sources) \subseteq Folds(Once(FlattenSeq(lists)))
<1>1. PICK n \in Nat : /\ n = Len(cs) /\ DOMAIN cs = 1..n
                       /\ \A j \in 1..n : cs[j].sources \in Sources
  BY LenProperties, ElementOfSeq, ChunkFacts
<1>2. \A j \in 1..n : lists[j] \in Sources
  <2>1. << >> \in Sources
    BY EmptySeq DEF Sources
  <2>2. QED
    BY <1>1, <2>1, StableSourcesFacts
<1>3. lists \in Seq(Seq(Source)) /\ Len(lists) = n
  <2>1. lists = [j \in DOMAIN cs |-> lists[j]]
    OBVIOUS
  <2>2. QED
    BY <1>1, <1>2, <2>1, MappedList DEF Sources
<1>4. PICK all : all = FlattenSeq(lists)
  OBVIOUS
<1>5. all \in Seq(Source) /\ \A j \in 1..n : HasAll(all, lists[j])
  BY <1>3, <1>4, FlattenFacts
<1>6. Once(all) \in Seq(Source) /\ HasAll(Once(all), all)
  BY <1>5, OnceFacts
<1>7. ASSUME NEW j \in I
      PROVE  Folds(cs[j].sources) \subseteq Folds(Once(all))
  <2>1. j \in 1..n /\ lists[j] = StableSources(cs[j].sources)
    BY <1>1
  <2>2. HasAll(Once(all), lists[j])
    BY <1>5, <1>6, <2>1, HasAllTransitive
  <2>3. Folds(lists[j]) \subseteq Folds(Once(all))
    BY <1>2, <1>6, <2>1, <2>2, FoldsFacts DEF Sources
  <2>4. QED
    BY <1>1, <2>1, <2>3, StableSourcesFacts
<1>8. QED
  BY <1>4, <1>6, <1>7 DEF Sources

\* Of chunks with the same text, the first refers to what the others refer to.
CopiesAgree(cs) ==
  \A i, j \in DOMAIN cs :
    i < j /\ SameText(cs[i], cs[j]) => ToSet(cs[j].refs) \subseteq ToSet(cs[i].refs)

\* Of chunks with the same text the first stays, with the sources of all.
LEMMA CollapsedChunks ==
  ASSUME NEW cs \in Seq(RAGChunk)
  PROVE  /\ StandFor(CollapseChunks(cs), cs)
         /\ CopiesAgree(cs) => KeepsRefs(CollapseChunks(cs), cs)
<1> DEFINE Same(i) == {j \in DOMAIN cs : SameText(cs[j], cs[i])}
           Lists(c) == [j \in DOMAIN cs |-> IF SameText(cs[j], c)
                                            THEN StableSources(cs[j].sources) ELSE << >>]
           merged == [i \in DOMAIN cs |-> [cs[i] EXCEPT !.sources =
                        Once(FlattenSeq(Lists(cs[i])))]]
           I == {i \in DOMAIN cs : ~\E j \in 1..(i - 1) : SameText(cs[i], cs[j])}
           ds == Pick(merged, I)
<1>1. PICK n \in Nat : /\ n = Len(cs) /\ DOMAIN cs = 1..n
                       /\ \A i \in 1..n : cs[i] \in RAGChunk
  BY LenProperties, ElementOfSeq
<1>2. CollapseChunks(cs) = ds
  BY DEF CollapseChunks
<1>3. ASSUME NEW i \in 1..n
      PROVE  /\ merged[i] \in RAGChunk /\ merged[i].refs = cs[i].refs
             /\ \A j \in 1..n : SameText(cs[j], cs[i]) =>
                  Folds(cs[j].sources) \subseteq Folds(merged[i].sources)
  <2> DEFINE all == Once(FlattenSeq(Lists(cs[i])))
  <2>1. /\ all \in Sources
        /\ \A j \in Same(i) : Folds(cs[j].sources) \subseteq Folds(all)
    <3>1. PICK I1, lists : I1 = Same(i) /\ lists = Lists(cs[i])
      OBVIOUS
    <3>2. I1 \in SUBSET (DOMAIN cs)
      BY <3>1
    <3>3. lists = [j \in DOMAIN cs |-> IF j \in I1 THEN StableSources(cs[j].sources) ELSE << >>]
      BY <3>1
    <3>4. /\ Once(FlattenSeq(lists)) \in Sources
          /\ \A j \in I1 : Folds(cs[j].sources) \subseteq Folds(Once(FlattenSeq(lists)))
      BY <3>2, <3>3, MergedSources
    <3>5. QED
      BY <3>1, <3>4
  <2>2. merged[i] = [cs[i] EXCEPT !.sources = all]
    BY <1>1
  <2>3. \A j \in 1..n : SameText(cs[j], cs[i]) => Folds(cs[j].sources) \subseteq Folds(all)
    BY <1>1, <2>1
  <2> HIDE DEF all, merged
  <2>4. cs[i] \in RAGChunk
    BY <1>1
  <2>5. merged[i] \in RAGChunk /\ merged[i].refs = cs[i].refs /\ merged[i].sources = all
    BY <2>1, <2>2, <2>4 DEF RAGChunk
  <2>6. QED
    BY <2>3, <2>5
<1>4. merged \in Seq(RAGChunk) /\ Len(merged) = n
  <2>1. merged = [i \in DOMAIN cs |-> merged[i]]
    OBVIOUS
  <2> HIDE DEF merged
  <2>2. QED
    BY <1>1, <1>3, <2>1, MappedList
<1>5. \A i \in 1..n : \E j \in 1..n : j \in I /\ j <= i /\ SameText(cs[i], cs[j])
  <2> SUFFICES ASSUME NEW i \in 1..n PROVE \E j \in 1..n : j \in I /\ j <= i /\ SameText(cs[i], cs[j])
    OBVIOUS
  <2>1. i \in Same(i) /\ Same(i) \subseteq Nat
    BY <1>1 DEF SameText
  <2>2. PICK j \in Same(i) : \A k \in Same(i) : j <= k
    BY <2>1, LeastNumber
  <2>3. \A k \in 1..(j - 1) : ~SameText(cs[j], cs[k])
    <3> SUFFICES ASSUME NEW k \in 1..(j - 1), SameText(cs[j], cs[k]) PROVE FALSE
      OBVIOUS
    <3>1. k \in 1..n /\ k < j
      BY <1>1, <2>2
    <3>2. SameText(cs[k], cs[i])
      BY <2>2 DEF SameText
    <3>3. QED
      BY <1>1, <2>2, <3>1, <3>2
  <2>4. QED
    BY <1>1, <2>2, <2>3 DEF SameText
<1> HIDE DEF merged, I
<1>6. /\ ds \in Seq(RAGChunk)
      /\ \A i \in 1..n : i \in I => \E k \in 1..Len(ds) : ds[k] = merged[i]
      /\ \A k \in 1..Len(ds) : \E i \in 1..n : i \in I /\ ds[k] = merged[i]
  <2>1. merged \in Seq(RAGChunk)
    BY <1>4
  <2>2. /\ ds \in Seq(RAGChunk)
        /\ \A i \in 1..Len(merged) : i \in I => \E k \in 1..Len(ds) : ds[k] = merged[i]
        /\ \A k \in 1..Len(ds) : \E i \in 1..Len(merged) : i \in I /\ ds[k] = merged[i]
    BY <2>1, PickFacts
  <2> HIDE DEF ds
  <2>3. QED
    BY <1>4, <2>2
<1> HIDE DEF ds
<1>7. Refers(ds, cs)
  <2> SUFFICES ASSUME NEW k \in 1..Len(ds)
               PROVE  \E i \in 1..Len(cs) : ToSet(ds[k].refs) \subseteq ToSet(cs[i].refs)
    BY DEF Refers
  <2>1. PICK i \in 1..n : ds[k] = merged[i]
    BY <1>6
  <2>2. ds[k].refs = cs[i].refs
    BY <1>3, <2>1
  <2>3. QED
    BY <1>1, <2>2
<1>8. Covers(ds, cs)
  <2> SUFFICES ASSUME NEW i \in 1..n
               PROVE  \E k \in 1..Len(ds) : Folds(cs[i].sources) \subseteq Folds(ds[k].sources)
    BY <1>1 DEF Covers
  <2>1. PICK j \in 1..n : j \in I /\ j <= i /\ SameText(cs[i], cs[j])
    BY <1>5
  <2>2. PICK k \in 1..Len(ds) : ds[k] = merged[j]
    BY <1>6, <2>1
  <2>3. QED
    BY <1>3, <2>1, <2>2
<1>9. ASSUME CopiesAgree(cs)
      PROVE  KeepsRefs(ds, cs)
  <2> SUFFICES ASSUME NEW i \in 1..n
               PROVE  \E k \in 1..Len(ds) : ToSet(cs[i].refs) \subseteq ToSet(ds[k].refs)
    BY <1>1 DEF KeepsRefs
  <2>1. PICK j \in 1..n : j \in I /\ j <= i /\ SameText(cs[i], cs[j])
    BY <1>5
  <2>2. PICK k \in 1..Len(ds) : ds[k] = merged[j]
    BY <1>6, <2>1
  <2>3. SameText(cs[j], cs[i])
    BY <2>1 DEF SameText
  <2>4. ToSet(cs[i].refs) \subseteq ToSet(cs[j].refs)
    <3>1. CASE j = i
      BY <3>1
    <3>2. CASE j < i
      <4>1. i \in DOMAIN cs /\ j \in DOMAIN cs
        BY <1>1, Zenon
      <4>2. QED
        BY <1>9, <2>3, <3>2, <4>1, Zenon DEF CopiesAgree
    <3>3. QED
      BY <2>1, <3>1, <3>2
  <2>5. QED
    BY <1>3, <2>2, <2>4
<1>10. QED
  BY <1>2, <1>6, <1>7, <1>8, <1>9 DEF StandFor

----------------------------------------------------------------------------
(* Messages and the prompt *)

\* A message with another text.
LEMMA MessageFacts ==
  ASSUME NEW m \in Message
  PROVE  /\ m.text \in Text
         /\ \A t \in Text : [m EXCEPT !.text = t] \in Message
BY DEF Message

\* A placeholder for a line is a line.
LEMMA NormalMessageFacts ==
  ASSUME NEW m \in Message
  PROVE  NormalMessage(m) \in Message
<1> DEFINE u == [i \in DOMAIN m.text |-> Stable(m.text[i])]
<1>1. \A i \in 1..Len(m.text) : u[i] \in Line
  BY MessageFacts, TextFacts, StableIsLine
<1>2. u = [i \in DOMAIN m.text |-> u[i]]
  OBVIOUS
<1>3. NormalMessage(m) = [m EXCEPT !.text = u]
  BY DEF NormalMessage
<1> HIDE DEF u
<1>4. u \in Text
  BY <1>1, <1>2, MessageFacts, MappedText
<1>5. QED
  BY <1>3, <1>4, MessageFacts

\* The processors make messages of messages.
LEMMA MessagesStay ==
  ASSUME NEW ms \in Seq(Message)
  PROVE  DenseMessages(ms) \in Seq(Message) /\ SanitizeMessages(ms) \in Seq(Message)
<1> DEFINE dense == [i \in DOMAIN ms |-> [ms[i] EXCEPT !.text = Dense(@)]]
           rich == [i \in DOMAIN ms |->
                      IF i = Len(ms) /\ ms[i].role # "system" THEN ms[i]
                      ELSE [ms[i] EXCEPT !.text = RichText(@)]]
<1>1. \A i \in 1..Len(ms) : dense[i] \in Message /\ rich[i] \in Message
  <2>1. ASSUME NEW m \in Message
        PROVE  /\ [m EXCEPT !.text = Dense(m.text)] \in Message
               /\ [m EXCEPT !.text = RichText(m.text)] \in Message
    <3>1. Dense(m.text) \in Text /\ RichText(m.text) \in Text
      BY MessageFacts, TextFacts DEF Dense, RichText
    <3>2. QED
      BY <3>1, MessageFacts
  <2>2. DOMAIN ms = 1..Len(ms) /\ \A i \in 1..Len(ms) : ms[i] \in Message
    BY LenProperties, ElementOfSeq
  <2>3. QED
    BY <2>1, <2>2
<1>2. dense = [i \in DOMAIN ms |-> dense[i]] /\ rich = [i \in DOMAIN ms |-> rich[i]]
  OBVIOUS
<1>3. DenseMessages(ms) = dense /\ SanitizeMessages(ms) = rich
  BY DEF DenseMessages, SanitizeMessages
<1> HIDE DEF dense, rich
<1>4. dense \in Seq(Message)
  BY <1>1, <1>2, MappedList
<1>5. rich \in Seq(Message)
  BY <1>1, <1>2, MappedList
<1>6. QED
  BY <1>3, <1>4, <1>5

\* Messages are put in order as messages.
LEMMA SegmentsFacts ==
  ASSUME NEW ms \in Seq(Message)
  PROVE  LET s == Segments(ms)
         IN  /\ s.system \in Seq(Message) /\ s.memory \in Seq(Message)
             /\ s.active \in Seq(Message)
<1> DEFINE s == Segments(ms)
           empty == [system |-> << >>, memory |-> << >>, active |-> << >>]
<1>1. PICK n \in Nat : n = Len(ms) /\ \A i \in 1..n : ms[i] \in Message
  BY LenProperties, ElementOfSeq
<1>2. << >> \in Seq(Message)
  BY EmptySeq
<1>3. CASE n = 0
  <2>1. s = empty
    BY <1>1, <1>3 DEF Segments
  <2> HIDE DEF s
  <2>2. QED
    BY <1>2, <2>1 DEF s
<1>4. CASE n # 0
  <2> DEFINE stable == [i \in 1..(n - 1) |-> NormalMessage(ms[i])]
             I == {i \in DOMAIN stable : stable[i].role = "system"}
             J == {i \in DOMAIN stable : stable[i].role # "system"}
  <2>1. s = [system |-> Pick(stable, I), memory |-> Pick(stable, J), active |-> <<ms[n]>>]
    BY <1>1, <1>4 DEF Segments
  <2>2. stable \in Seq(Message)
    <3>1. stable \in [1..(n - 1) -> Message] /\ n - 1 \in Nat
      BY <1>1, <1>4, NormalMessageFacts
    <3> HIDE DEF stable
    <3>2. QED
      BY <3>1, FunctionIsSequence
  <2> HIDE DEF stable, I, J, s
  <2>3. Pick(stable, I) \in Seq(Message)
    BY <2>2, PickFacts
  <2>4. Pick(stable, J) \in Seq(Message)
    BY <2>2, PickFacts
  <2>5. <<ms[n]>> \in Seq(Message)
    BY <1>1, <1>4
  <2>6. QED
    BY <2>1, <2>3, <2>4, <2>5 DEF s
<1>5. QED
  BY <1>3, <1>4

\* So are the messages of all segments, one after the other.
LEMMA OrderedMessages ==
  ASSUME NEW ms \in Seq(Message)
  PROVE  OrderMessages(ms) \in Seq(Message)
<1> DEFINE s == Segments(ms)
<1>1. s.system \in Seq(Message) /\ s.memory \in Seq(Message) /\ s.active \in Seq(Message)
  BY SegmentsFacts
<1>2. OrderMessages(ms) = s.system \o s.memory \o s.active
  BY DEF OrderMessages
<1> HIDE DEF s
<1>3. s.system \o s.memory \in Seq(Message)
  BY <1>1, ConcatProperties
<1>4. QED
  BY <1>1, <1>2, <1>3, ConcatProperties

\* A chunk as the prompt has it.
Block == [sources : Sources, text : Text]
Prompt == [rag : Seq(Block), memory : Seq(Message), active : Seq(Message)]

\* The prompt of chunks and messages.
LEMMA AssembledPrompt ==
  ASSUME NEW cs \in Seq(RAGChunk), NEW ms \in Seq(Message)
  PROVE  AssemblePrompt(cs, ms) \in Prompt
<1> DEFINE stable == StableChunks(cs)
           rag == [i \in DOMAIN stable |->
                     [sources |-> stable[i].sources, text |-> TextOf(stable[i].frags)]]
           s == Segments(ms)
<1>1. stable \in Seq(RAGChunk)
  BY StableChunksFacts DEF StandFor
<1>2. RenderChunks(cs) = rag
  BY DEF RenderChunks
<1> HIDE DEF stable
<1>3. rag \in Seq(Block)
  <2>1. \A i \in 1..Len(stable) : rag[i] \in Block
    <3>1. DOMAIN stable = 1..Len(stable) /\ \A i \in 1..Len(stable) : stable[i] \in RAGChunk
      BY <1>1, LenProperties, ElementOfSeq
    <3>2. QED
      BY <3>1, ChunkFacts, TextOfIsText DEF Block
  <2>2. rag = [i \in DOMAIN stable |-> rag[i]]
    OBVIOUS
  <2> HIDE DEF rag
  <2>3. QED
    BY <1>1, <2>1, <2>2, MappedList
<1>4. s.system \in Seq(Message) /\ s.memory \in Seq(Message) /\ s.active \in Seq(Message)
  BY SegmentsFacts
<1>5. AssemblePrompt(cs, ms) = [rag |-> rag, memory |-> s.system \o s.memory, active |-> s.active]
  BY <1>2 DEF AssemblePrompt
<1> HIDE DEF rag, s
<1>6. s.system \o s.memory \in Seq(Message)
  BY <1>4, ConcatProperties
<1>7. QED
  BY <1>3, <1>4, <1>5, <1>6 DEF Prompt

\* A prompt has so many tokens, and each of its blocks no more.
LEMMA TokensAreNat ==
  ASSUME NEW p \in Prompt
  PROVE  /\ PromptTokens(p) \in Nat
         /\ \A i \in 1..Len(p.rag) : Len(p.rag[i].text) <= PromptTokens(p)
<1> DEFINE Sizes(ms) == [i \in DOMAIN ms |-> 1 + Len(ms[i].text)]
           blocks == [i \in DOMAIN p.rag |-> Len(p.rag[i].sources) + Len(p.rag[i].text)]
<1>1. p.rag \in Seq(Block) /\ p.memory \in Seq(Message) /\ p.active \in Seq(Message)
  BY DEF Prompt
<1>2. ASSUME NEW ms \in Seq(Message)
      PROVE  Total(Sizes(ms)) \in Nat
  <2> DEFINE sizes == Sizes(ms)
  <2>1. \A i \in 1..Len(ms) : sizes[i] \in Nat
    BY LenProperties, ElementOfSeq, MessageFacts, TextFacts
  <2>2. sizes = [i \in DOMAIN ms |-> sizes[i]]
    OBVIOUS
  <2> HIDE DEF sizes
  <2>3. sizes \in Seq(Nat)
    BY <2>1, <2>2, MappedList
  <2>4. QED
    BY <2>3, TotalIsNat DEF sizes
<1>3. /\ Total(blocks) \in Nat
      /\ \A i \in 1..Len(p.rag) : Len(p.rag[i].text) \in Nat /\ Len(p.rag[i].text) <= Total(blocks)
  <2>1. ASSUME NEW i \in 1..Len(p.rag)
        PROVE  /\ blocks[i] \in Nat
               /\ Len(p.rag[i].text) \in Nat /\ Len(p.rag[i].text) <= blocks[i]
    <3>1. p.rag[i] \in Block /\ i \in DOMAIN p.rag
      BY <1>1, LenProperties, ElementOfSeq
    <3>2. Len(p.rag[i].sources) \in Nat
      BY <3>1, LenProperties DEF Block, Sources
    <3>3. Len(p.rag[i].text) \in Nat
      BY <3>1, TextFacts DEF Block
    <3>4. PICK a \in Nat, b \in Nat : a = Len(p.rag[i].sources) /\ b = Len(p.rag[i].text)
      BY <3>2, <3>3
    <3>5. blocks[i] = a + b
      BY <3>1, <3>4
    <3> HIDE DEF blocks
    <3>6. a + b \in Nat /\ b <= a + b
      OBVIOUS
    <3>7. QED
      BY <3>4, <3>5, <3>6, Zenon
  <2>2. blocks = [i \in DOMAIN p.rag |-> blocks[i]]
    OBVIOUS
  <2> HIDE DEF blocks
  <2>3. blocks \in Seq(Nat) /\ Len(blocks) = Len(p.rag)
    BY <1>1, <2>1, <2>2, MappedList
  <2>4. Total(blocks) \in Nat /\ \A i \in 1..Len(p.rag) : blocks[i] <= Total(blocks)
    BY <2>3, TotalIsNat
  <2>5. QED
    BY <2>1, <2>4
<1>4. PromptTokens(p) = Total(blocks) + Total(Sizes(p.memory)) + Total(Sizes(p.active))
  BY DEF PromptTokens
<1> HIDE DEF Sizes, blocks
<1>5. Total(Sizes(p.memory)) \in Nat /\ Total(Sizes(p.active)) \in Nat
  BY <1>1, <1>2
<1>6. QED
  BY <1>3, <1>4, <1>5

----------------------------------------------------------------------------
(* The order of chunks does not depend on the order they come in *)

\* Chunks that differ in their key come one before the other.
LEMMA ChunksApart ==
  ASSUME NEW a \in RAGChunk, NEW b \in RAGChunk
  PROVE  \/ ChunkBefore(a, b) \/ ChunkBefore(b, a)
         \/ Folds(a.sources) = Folds(b.sources) /\ a.id = b.id
<1>1. /\ a.id \in Nat /\ b.id \in Nat
      /\ Folds(a.sources) \in SUBSET Nat /\ Folds(b.sources) \in SUBSET Nat
  BY ChunkFacts, FoldsFacts
<1>2. CASE Folds(a.sources) # Folds(b.sources)
  BY <1>1, <1>2, SourcesTotal DEF ChunkBefore
<1>3. CASE Folds(a.sources) = Folds(b.sources)
  BY <1>1, <1>3 DEF ChunkBefore
<1>4. QED
  BY <1>2, <1>3

\* What chunks are sorted into does not depend on the order they come in, if those with
\* the same sources and ID are the same.
LEMMA SortedSame ==
  ASSUME NEW cs \in Seq(RAGChunk), NEW ds \in Seq(RAGChunk),
         NEW p \in Bijection(DOMAIN cs, DOMAIN ds),
         \A i \in DOMAIN cs : cs[i] = ds[p[i]],
         \A i, j \in DOMAIN cs :
           Folds(cs[i].sources) = Folds(cs[j].sources) /\ cs[i].id = cs[j].id => cs[i] = cs[j]
  PROVE  Sorted(cs, ChunkBefore) = Sorted(ds, ChunkBefore)
<1>1. PICK n \in Nat : n = Len(cs) /\ DOMAIN cs = 1..n /\ \A i \in 1..n : cs[i] \in RAGChunk
  BY LenProperties, ElementOfSeq
<1>2. PICK m \in Nat : m = Len(ds) /\ DOMAIN ds = 1..m
  BY LenProperties
<1>3. p \in Injection(1..n, 1..m) /\ p \in Surjection(1..n, 1..m)
  BY <1>1, <1>2, Zenon DEF Bijection
<1>4. m = n
  <2>1. /\ IsFiniteSet(1..n) /\ Cardinality(1..n) = n
        /\ IsFiniteSet(1..m) /\ Cardinality(1..m) = m
    BY Positions
  <2>2. n <= m
    BY <1>3, <2>1, FS_Injection
  <2>3. m <= n
    BY <1>3, <2>1, FS_Surjection
  <2>4. QED
    BY <2>2, <2>3
<1> DEFINE u == Sorted(cs, ChunkBefore)
           v == Sorted(ds, ChunkBefore)
           V == {w \in RAGChunk \X RAGChunk : ChunkBefore(w[1], w[2])}
<1>5. /\ u \in Seq(RAGChunk) /\ Len(u) = n
      /\ \E a : /\ Permutes(a, u, cs, n)
                /\ \A k, j \in 1..n : k < j => ~ChunkBefore(u[j], u[k])
  BY <1>1, SortedInOrder
<1>6. /\ v \in Seq(RAGChunk) /\ Len(v) = n
      /\ \E b : /\ Permutes(b, v, ds, n)
                /\ \A k, j \in 1..n : k < j => ~ChunkBefore(v[j], v[k])
  BY <1>2, <1>4, SortedInOrder
<1> HIDE DEF u, v
<1>7. \A x, y \in RAGChunk : <<x, y>> \in V <=> ChunkBefore(x, y)
  BY Zenon
<1> HIDE DEF V
<1>8. \A i \in 1..n : u[i] \in RAGChunk /\ v[i] \in RAGChunk
  BY <1>5, <1>6, ElementOfSeq
<1>9. Rises(V, u, n) /\ Rises(V, v, n)
  BY <1>5, <1>6, <1>7, <1>8 DEF Rises
<1>10. Separates(V, cs, n)
  <2>1. \A i, j \in 1..n : <<cs[i], cs[j]>> \in V <=> ChunkBefore(cs[i], cs[j])
    BY <1>1, <1>7
  <2>2. \A i \in 1..n : <<cs[i], cs[i]>> \notin V
    BY <1>1, <2>1, ChunkOrder
  <2>3. \A i, j, k \in 1..n :
          <<cs[i], cs[k]>> \in V => <<cs[i], cs[j]>> \in V \/ <<cs[j], cs[k]>> \in V
    BY <1>1, <2>1, ChunkOrder
  <2>4. \A i, j \in 1..n : cs[i] = cs[j] \/ <<cs[i], cs[j]>> \in V \/ <<cs[j], cs[i]>> \in V
    <3> SUFFICES ASSUME NEW i \in 1..n, NEW j \in 1..n,
                        <<cs[i], cs[j]>> \notin V, <<cs[j], cs[i]>> \notin V
                 PROVE  cs[i] = cs[j]
      OBVIOUS
    <3>1. cs[i] \in RAGChunk /\ cs[j] \in RAGChunk /\ i \in DOMAIN cs /\ j \in DOMAIN cs
      BY <1>1
    <3>2. Folds(cs[i].sources) = Folds(cs[j].sources) /\ cs[i].id = cs[j].id
      BY <2>1, <3>1, ChunksApart
    <3>3. QED
      BY <3>1, <3>2
  <2>5. QED
    BY <2>2, <2>3, <2>4 DEF Separates
<1>11. Pairs(p, cs, ds, n) /\ Takes(p, n)
  <2>1. p \in [1..n -> 1..n] /\ IsInjective(p) /\ \A j \in 1..n : \E i \in 1..n : p[i] = j
    BY <1>3, <1>4 DEF Injection, Surjection
  <2>2. QED
    BY <1>1, <2>1 DEF Pairs, Takes, IsInjective
<1>12. \A k \in 1..n : u[k] = v[k]
  <2>1. PICK a : Permutes(a, u, cs, n)
    BY <1>5
  <2>2. PICK b : Permutes(b, v, ds, n)
    BY <1>6
  <2>3. QED
    BY <1>9, <1>10, <1>11, <2>1, <2>2, SortedAlike
<1>13. u = v
  BY <1>5, <1>6, <1>12, SameList
<1>14. QED
  BY <1>13 DEF u, v

----------------------------------------------------------------------------
(* Texts line by line *)

\* What a dense text has of a line, and what a gist has.
Solid == Only(Line, Line \ {Blank})
GistOf == [u \in Line |-> IF Stable(u) = Blank THEN << >> ELSE <<Stable(u)>>]

\* A gist has lines.
LEMMA GistOfType == GistOf \in Giving(Line, Line)
<1>1. \A u \in Line : <<Stable(u)>> \in Seq(Line) /\ << >> \in Seq(Line)
  BY EmptySeq, StableIsLine
<1>2. QED
  BY <1>1 DEF GistOf, Giving

\* Solid is a filter of lines.
LEMMA SolidFacts ==
  /\ Solid \in Giving(Line, Line)
  /\ \A u \in Line : Solid[u] = IF u = Blank THEN << >> ELSE <<u>>
<1>1. PICK D, P : D = Line /\ P = D \ {Blank}
  OBVIOUS
<1>2. Only(D, P) \in Giving(D, D) /\ \A d \in D : Only(D, P)[d] = IF d \in P THEN <<d>> ELSE << >>
  <2>1. Only(D, P) \in Giving(D, D)
    BY OnlyFacts
  <2>2. \A d \in D : Only(D, P)[d] = IF d \in P THEN <<d>> ELSE << >>
    BY OnlyFacts
  <2>3. QED
    BY <2>1, <2>2
<1>3. Solid = Only(D, P)
  BY <1>1 DEF Solid
<1>4. \A d \in D : d \in P <=> d # Blank
  BY <1>1
<1>5. Solid \in Giving(D, D) /\ \A d \in D : Solid[d] = IF d = Blank THEN << >> ELSE <<d>>
  BY <1>2, <1>3, <1>4
<1>6. QED
  BY <1>1, <1>5

\* Density is the filter of solid lines.
LEMMA DenseIsFlat ==
  ASSUME NEW t \in Text
  PROVE  Dense(t) = Flat(Solid, t)
<1> DEFINE I == {i \in DOMAIN t : t[i] # Blank}
<1>1. PICK D, P : D = Line /\ P = D \ {Blank}
  OBVIOUS
<1>2. t \in Seq(D)
  BY <1>1 DEF Text, Line
<1>3. \A i \in 1..Len(t) : i \in I <=> t[i] \in P
  BY <1>1, TextFacts
<1>4. Solid = Only(D, P)
  BY <1>1 DEF Solid
<1>5. Dense(t) = Pick(t, I)
  BY DEF Dense
<1> HIDE DEF I
<1>6. Pick(t, I) = Flat(Only(D, P), t)
  BY <1>2, <1>3, PickIsFlat
<1>7. QED
  BY <1>4, <1>5, <1>6

\* Placeholders one line after the other.
LEMMA StableIsFlat ==
  ASSUME NEW t \in Text, NEW g, g = [u \in Line |-> Stable(u)]
  PROVE  /\ [i \in DOMAIN t |-> Stable(t[i])] = Flat(Each(Line, g), t)
         /\ [i \in DOMAIN t |-> Stable(t[i])] \in Text
<1>1. g \in [Line -> Line] /\ \A u \in Line : g[u] = Stable(u)
  BY StableIsLine
<1>2. PICK D : D = Line
  OBVIOUS
<1>3. t \in Seq(D) /\ g \in [D -> D]
  BY <1>1, <1>2 DEF Text, Line
<1>4. Image(g, t) = Flat(Each(D, g), t)
  BY <1>3, MapIsFlat
<1>5. Image(g, t) = [i \in DOMAIN t |-> Stable(t[i])]
  BY <1>1, TextFacts DEF Image
<1>6. Each(D, g) \in Giving(D, D)
  BY <1>3, EachFacts
<1>7. Flat(Each(D, g), t) \in Seq(D)
  BY <1>3, <1>6, FlatType
<1>8. QED
  BY <1>2, <1>4, <1>5, <1>7 DEF Text, Line

\* Trimming goes by unnoticed where blank lines do.
LEMMA TrimUnnoticed ==
  ASSUME NEW t \in Text, NEW S, NEW h \in Giving(Line, S), h[Blank] = << >>
  PROVE  Flat(h, Trim(t)) = Flat(h, t)
<1> DEFINE I == {i \in DOMAIN t : /\ \E j \in 1..i : t[j] # Blank
                                  /\ \E j \in i..Len(t) : t[j] # Blank}
<1>1. ASSUME NEW i \in 1..Len(t), i \notin I
      PROVE  h[t[i]] = << >>
  <2>1. i \in 1..i /\ i \in i..Len(t) /\ i \in DOMAIN t
    BY TextFacts
  <2>2. t[i] = Blank
    BY <1>1, <2>1
  <2>3. QED
    BY <2>2
<1>2. Trim(t) = Pick(t, I)
  BY DEF Trim
<1> HIDE DEF I
<1>3. PICK D : D = Line
  OBVIOUS
<1>4. t \in Seq(D) /\ h \in Giving(D, S)
  BY <1>3 DEF Text, Line
<1>5. Flat(h, Pick(t, I)) = Flat(h, t)
  BY <1>1, <1>4, FlatPicks
<1>6. QED
  BY <1>2, <1>5

\* The blank line is no line to speak of.
LEMMA BlankLine ==
  /\ Blank \in Line /\ Stable(Blank) = Blank
  /\ Solid[Blank] = << >> /\ GistOf[Blank] = << >>
<1>1. Blank \in Line /\ Stable(Blank) = Blank
  BY UnitAssumption DEF Line, Stable
<1>2. QED
  BY <1>1, SolidFacts DEF GistOf

\* A trimmed text is a text.
LEMMA TrimIsText ==
  ASSUME NEW t \in Text
  PROVE  Trim(t) \in Text
BY TextFacts DEF Trim

\* Only a text of blank lines is trimmed to nothing.
LEMMA TrimmedAway ==
  ASSUME NEW t \in Text
  PROVE  Trim(t) = << >> <=> Dense(t) = << >>
<1>1. Dense(Trim(t)) = Dense(t)
  <2>1. Flat(Solid, Trim(t)) = Flat(Solid, t)
    BY TrimUnnoticed, SolidFacts, BlankLine
  <2>2. QED
    BY <2>1, DenseIsFlat, TrimIsText
<1>2. ASSUME Trim(t) = << >> PROVE Dense(t) = << >>
  <2>1. Flat(Solid, << >>) = << >>
    BY SolidFacts, FlatEmpty
  <2>2. QED
    BY <1>1, <1>2, <2>1, DenseIsFlat, TrimIsText
<1>3. ASSUME Trim(t) # << >> PROVE Dense(t) # << >>
  <2>1. PICK x : x = Trim(t) /\ x \in Text /\ Len(x) \in Nat
    BY TrimIsText, TextFacts
  <2>2. Len(x) # 0
    BY <1>3, <2>1, EmptySeq DEF Text
  <2> DEFINE I == {i \in DOMAIN t : /\ \E j \in 1..i : t[j] # Blank
                                    /\ \E j \in i..Len(t) : t[j] # Blank}
  <2>3. \E i \in 1..Len(t) : i \in I
    <3>1. x = Pick(t, I)
      BY <2>1 DEF Trim
    <3> HIDE DEF I
    <3>2. t \in Seq(Line)
      BY DEF Text, Line
    <3>3. \A k \in 1..Len(x) : \E i \in 1..Len(t) : i \in I /\ x[k] = t[i]
      BY <3>1, <3>2, PickFacts
    <3>4. 1 \in 1..Len(x)
      BY <2>1, <2>2
    <3>5. QED
      BY <3>3, <3>4
  <2>4. PICK j \in 1..Len(t) : t[j] # Blank
    <3>1. PICK i \in 1..Len(t) : i \in I
      BY <2>3
    <3>2. \A j \in 1..i : j \in 1..Len(t)
      BY <3>1, TextFacts
    <3>3. QED
      BY <3>1, <3>2
  <2> HIDE DEF I
  <2> DEFINE J == {i \in DOMAIN t : t[i] # Blank}
  <2>5. j \in J /\ t \in Seq(Line)
    BY <2>4, TextFacts DEF Text, Line
  <2>6. Dense(t) = Pick(t, J)
    BY DEF Dense
  <2> HIDE DEF J
  <2>7. \E k \in 1..Len(Pick(t, J)) : Pick(t, J)[k] = t[j]
    BY <2>4, <2>5, PickFacts
  <2>8. QED
    BY <2>6, <2>7, EmptySeq
<1>4. QED
  BY <1>2, <1>3

\* Placeholders stay what they are.
LEMMA StableTwice ==
  ASSUME NEW u \in Line
  PROVE  Stable(Stable(u)) = Stable(u)
BY UnitAssumption DEF Stable

\* Fragment f with another text.
Relabelled(f, t) == [f EXCEPT !.text = t]

\* Normalisation goes line by line, and leaves blank lines alone.
LEMMA NormalByLine ==
  ASSUME NEW f \in RAGFragment
  PROVE  \E n \in Giving(Line, Line) :
           /\ n[Blank] = <<Blank>>
           /\ \A t \in Text : Normal(Relabelled(f, t)).text = Flat(n, t)
<1>1. \A t \in Text : Relabelled(f, t).type = f.type /\ Relabelled(f, t).text = t
                        /\ \A u : Relabelled(Relabelled(f, t), u).text = u
  BY DEF Relabelled, RAGFragment
<1>2. CASE f.type = "code"
  <2>1. PICK g, n : g = [u \in Line |-> u] /\ n = Each(Line, g)
    OBVIOUS
  <2>2. g \in [Line -> Line]
    BY <2>1
  <2>3. n \in Giving(Line, Line)
    BY <2>1, <2>2, EachFacts
  <2>4. n[Blank] = <<Blank>>
    BY <2>1, BlankLine DEF Each
  <2>5. ASSUME NEW t \in Text
        PROVE  Normal(Relabelled(f, t)).text = Flat(n, t)
    <3>1. t \in Seq(Line)
      BY DEF Text, Line
    <3>2. Image(g, t) = Flat(n, t)
      BY <2>1, <2>2, <3>1, MapIsFlat
    <3>3. Image(g, t) = t
      <4>1. PICK k \in Nat : DOMAIN t = 1..k /\ t \in [1..k -> Line]
        BY <3>1, LenProperties
      <4>2. QED
        BY <2>1, <4>1 DEF Image
    <3>4. Normal(Relabelled(f, t)).text = t
      BY <1>1, <1>2 DEF Normal
    <3>5. QED
      BY <3>2, <3>3, <3>4
  <2>6. QED
    BY <2>3, <2>4, <2>5
<1>3. CASE f.type = "json"
  <2>1. PICK P, n : P = {u \in Line : Stable(u) = u} /\ n = Only(Line, P)
    OBVIOUS
  <2>2. n \in Giving(Line, Line)
    BY <2>1, OnlyFacts
  <2>3. n[Blank] = <<Blank>>
    BY <2>1, BlankLine DEF Only
  <2>4. ASSUME NEW t \in Text
        PROVE  Normal(Relabelled(f, t)).text = Flat(n, t)
    <3> DEFINE I == {i \in DOMAIN t : Stable(t[i]) = t[i]}
    <3>1. t \in Seq(Line)
      BY DEF Text, Line
    <3>2. \A i \in 1..Len(t) : i \in I <=> t[i] \in P
      BY <2>1, TextFacts
    <3>3. StableJSON(t) = Pick(t, I)
      BY DEF StableJSON
    <3> HIDE DEF I
    <3>4. Pick(t, I) = Flat(n, t)
      BY <2>1, <3>1, <3>2, PickIsFlat
    <3>5. Normal(Relabelled(f, t)).text = StableJSON(t)
      <4>1. Normal(Relabelled(f, t)) = Relabelled(Relabelled(f, t), StableJSON(t))
        BY <1>1, <1>3 DEF Normal, Relabelled
      <4>2. QED
        BY <1>1, <4>1
    <3>6. QED
      BY <3>3, <3>4, <3>5
  <2>5. QED
    BY <2>2, <2>3, <2>4
<1>4. CASE f.type \notin {"code", "json"}
  <2>1. PICK g, n : g = [u \in Line |-> Stable(u)] /\ n = Each(Line, g)
    OBVIOUS
  <2>2. g \in [Line -> Line]
    BY <2>1, StableIsLine
  <2>3. n \in Giving(Line, Line)
    BY <2>1, <2>2, EachFacts
  <2>4. n[Blank] = <<Blank>>
    BY <2>1, BlankLine DEF Each
  <2>5. ASSUME NEW t \in Text
        PROVE  Normal(Relabelled(f, t)).text = Flat(n, t)
    <3>1. PICK st : st = [i \in DOMAIN t |-> Stable(t[i])]
      OBVIOUS
    <3>2. st = Flat(n, t)
      BY <2>1, <3>1, StableIsFlat
    <3>3. Normal(Relabelled(f, t)) = Relabelled(Relabelled(f, t), st)
      BY <1>1, <1>4, <3>1 DEF Normal, Relabelled
    <3>4. QED
      BY <1>1, <3>2, <3>3
  <2>6. QED
    BY <2>3, <2>4, <2>5
<1>5. QED
  BY <1>2, <1>3, <1>4

\* Normalisation rewrites the fragments of a chunk one by one.
LEMMA NormalizedParts ==
  ASSUME NEW c \in RAGChunk
  PROVE  /\ NormalizeChunk(c) \in RAGChunk
         /\ NormalizeChunk(c).id = c.id
         /\ NormalizeChunk(c).sources = StableSources(c.sources)
         /\ NormalizeChunk(c).frags = [j \in DOMAIN c.frags |-> Normal(c.frags[j])]
<1>1. NormalizeChunk(c) \in RAGChunk
  BY NormalizedChunk DEF Reworked
<1>2. QED
  BY <1>1 DEF NormalizeChunk, RAGChunk

\* The order of chunks looks at nothing but their sources and IDs.
SameOrder(as, bs) ==
  \A i \in 1..Len(as) : as[i].id = bs[i].id /\ as[i].sources = bs[i].sources

\* So that chunks that only differ in their texts are sorted alike.
LEMMA SortedBySamePlaces ==
  ASSUME NEW as \in Seq(RAGChunk), NEW bs \in Seq(RAGChunk), Len(as) = Len(bs), SameOrder(as, bs)
  PROVE  LET cs == Sorted(as, ChunkBefore)
             ds == Sorted(bs, ChunkBefore)
         IN  /\ DOMAIN cs = 1..Len(as) /\ DOMAIN ds = 1..Len(as)
             /\ \A k \in 1..Len(as) : \E i \in 1..Len(as) : cs[k] = as[i] /\ ds[k] = bs[i]
<1>1. PICK n \in Nat : /\ n = Len(as) /\ DOMAIN as = 1..n /\ DOMAIN bs = 1..n
                       /\ \A i \in 1..n : as[i] \in RAGChunk
  BY LenProperties, ElementOfSeq
<1> DEFINE B == {p \in (1..n) \X (1..n) : ChunkBefore(as[p[1]], as[p[2]])}
           rank == [i \in DOMAIN as |-> Cardinality({j \in DOMAIN as :
                      ChunkBefore(as[j], as[i]) \/ (j <= i /\ ~ChunkBefore(as[i], as[j]))})]
           rank2 == [i \in DOMAIN bs |-> Cardinality({j \in DOMAIN bs :
                      ChunkBefore(bs[j], bs[i]) \/ (j <= i /\ ~ChunkBefore(bs[i], bs[j]))})]
           cs == Sorted(as, ChunkBefore)
           ds == Sorted(bs, ChunkBefore)
<1>2. \A i, j \in 1..n : <<i, j>> \in B <=> ChunkBefore(as[i], as[j])
  BY Zenon
<1> HIDE DEF B
<1> HIDE DEF rank, rank2, cs, ds
<1>3. WeakOrder(B, n)
  <2>1. \A i \in 1..n : as[i] \in RAGChunk
    BY <1>1
  <2>2. QED
    BY <1>2, <2>1, ChunkOrder DEF WeakOrder
<1> USE DEF rank, rank2, cs, ds
<1>4. RanksOf(rank, as, B)
  <2>1. ASSUME NEW i \in DOMAIN as
        PROVE  {j \in DOMAIN as : ChunkBefore(as[j], as[i]) \/ (j <= i /\ ~ChunkBefore(as[i], as[j]))}
                 = {j \in DOMAIN as : <<j, i>> \in B \/ (j <= i /\ <<i, j>> \notin B)}
    BY <1>1, <1>2
  <2>2. QED
    BY <2>1, Zenon DEF RanksOf
<1>5. rank2 = rank
  <2>1. \A i, j \in 1..n : ChunkBefore(as[i], as[j]) <=> ChunkBefore(bs[i], bs[j])
    BY <1>1 DEF ChunkBefore, SameOrder
  <2>2. ASSUME NEW i \in 1..n
        PROVE  {j \in 1..n : ChunkBefore(as[j], as[i]) \/ (j <= i /\ ~ChunkBefore(as[i], as[j]))}
                 = {j \in 1..n : ChunkBefore(bs[j], bs[i]) \/ (j <= i /\ ~ChunkBefore(bs[i], bs[j]))}
    BY <2>1
  <2>3. QED
    BY <1>1, <2>2, Zenon
<1>6. /\ cs = [k \in DOMAIN as |-> as[CHOOSE i \in DOMAIN as : rank[i] = k]]
      /\ ds = [k \in DOMAIN bs |-> bs[CHOOSE i \in DOMAIN bs : rank2[i] = k]]
  BY DEF Sorted
<1> HIDE DEF rank, rank2, cs, ds
<1>7. \A k \in 1..n : \E i \in 1..n : rank[i] = k
  <2>1. PICK b, r : b = B /\ r = rank
    OBVIOUS
  <2>2. WeakOrder(b, Len(as)) /\ RanksOf(r, as, b)
    BY <1>1, <1>3, <1>4, <2>1
  <2>3. /\ \A k \in 1..Len(as) : \E i \in 1..Len(as) : r[i] = k
        /\ \A i \in 1..Len(as) : r[i] \in 1..Len(as)
        /\ \A i, j \in 1..Len(as) : r[i] = r[j] => i = j
        /\ \A i, j \in 1..Len(as) : <<i, j>> \in b => r[i] <= r[j]
    BY <2>2, RankFacts, Zenon
  <2>4. QED
    BY <1>1, <2>1, <2>3
<1>8. ASSUME NEW k \in 1..n
      PROVE  \E i \in 1..n : cs[k] = as[i] /\ ds[k] = bs[i]
  <2>1. PICK i : i = CHOOSE j \in 1..n : rank[j] = k
    OBVIOUS
  <2>2. i \in 1..n
    BY <1>7, <2>1
  <2>3. cs[k] = as[i] /\ ds[k] = bs[i]
    BY <1>1, <1>5, <1>6, <2>1
  <2>4. QED
    BY <2>2, <2>3
<1>9. DOMAIN cs = 1..n /\ DOMAIN ds = 1..n
  BY <1>1, <1>6
<1>10. QED
  BY <1>1, <1>8, <1>9 DEF cs, ds

----------------------------------------------------------------------------
(* Reading pages back *)

\* The words of a line: itself, if it is a unit that is not blank.
WordOf == Only(Line, Unit \ {Blank})

LEMMA WordFacts ==
  /\ WordOf \in Giving(Line, Line)
  /\ \A u \in Line : WordOf[u] = IF u \in Unit \ {Blank} THEN <<u>> ELSE << >>
  /\ WordOf[Blank] = << >>
<1>1. PICK D, P : D = Line /\ P = Unit \ {Blank}
  OBVIOUS
<1>2. /\ Only(D, P) \in Giving(D, D)
      /\ \A d \in D : Only(D, P)[d] = IF d \in P THEN <<d>> ELSE << >>
  BY OnlyFacts
<1>3. WordOf = Only(D, P)
  BY <1>1 DEF WordOf
<1>4. Blank \in D /\ Blank \notin P
  BY <1>1, BlankLine
<1>5. QED
  BY <1>1, <1>2, <1>3, <1>4

\* The words of a text are those of its lines.
LEMMA WordsAreFlat ==
  ASSUME NEW t \in Text
  PROVE  Words(t) = Flat(WordOf, t) /\ Words(t) \in Text
<1> DEFINE I == {i \in DOMAIN t : t[i] \in Unit \ {Blank}}
<1>1. PICK D, P : D = Line /\ P = Unit \ {Blank}
  OBVIOUS
<1>2. t \in Seq(D)
  BY <1>1 DEF Text, Line
<1>3. \A i \in 1..Len(t) : i \in I <=> t[i] \in P
  BY <1>1, TextFacts
<1>4. WordOf = Only(D, P)
  BY <1>1 DEF WordOf
<1>5. Words(t) = Pick(t, I)
  BY DEF Words
<1> HIDE DEF I
<1>6. Pick(t, I) = Flat(Only(D, P), t)
  BY <1>2, <1>3, PickIsFlat
<1>7. Words(t) \in Text
  BY <1>5, TextFacts
<1>8. QED
  BY <1>4, <1>5, <1>6, <1>7

\* Blank lines hold no words.
LEMMA WordsOfDense ==
  ASSUME NEW t \in Text
  PROVE  Dense(t) \in Text /\ Words(Dense(t)) = Words(t) /\ Words(Trim(t)) = Words(t)
<1> DEFINE I == {i \in DOMAIN t : t[i] # Blank}
<1>1. PICK D, h : D = Line /\ h = WordOf
  OBVIOUS
<1>2. t \in Seq(D) /\ h \in Giving(D, D) /\ h[Blank] = << >>
  BY <1>1, WordFacts DEF Text, Line
<1>3. \A i \in 1..Len(t) : i \notin I => h[t[i]] = << >>
  BY <1>2, TextFacts
<1>4. Dense(t) = Pick(t, I)
  BY DEF Dense
<1> HIDE DEF I
<1>5. Flat(h, Pick(t, I)) = Flat(h, t)
  BY <1>2, <1>3, FlatPicks
<1>6. Dense(t) \in Text
  BY <1>4, TextFacts
<1>7. Flat(h, Trim(t)) = Flat(h, t)
  BY <1>1, <1>2, TrimUnnoticed
<1>8. QED
  BY <1>1, <1>4, <1>5, <1>6, <1>7, WordsAreFlat, TrimIsText

\* A label is no word: a fragment reads as its text does.
LEMMA WordsOfRendered ==
  ASSUME LabelsApart, NEW f \in RAGFragment
  PROVE  Words(Rendered(f)) = Words(f.text)
<1>1. PICK t \in Text, u \in Text : t = f.text /\ u = Trim(t)
  BY FragmentFacts, TrimIsText
<1>2. Words(u) = Words(t)
  BY <1>1, WordsOfDense
<1>3. CASE f.type = "body" \/ u = << >>
  BY <1>1, <1>2, <1>3 DEF Rendered
<1>4. CASE ~(f.type = "body" \/ u = << >>)
  <2>1. PICK l \in Line : l = f.type /\ l \notin Unit
    BY FragmentFacts DEF Line, LabelsApart
  <2>2. PICK s \in Seq(Line), v \in Seq(Line) : s = <<l>> /\ v = u
    <3>1. <<l>> \in Seq(Line)
      OBVIOUS
    <3>2. u \in Seq(Line)
      BY DEF Text, Line
    <3>3. QED
      BY <3>1, <3>2
  <2>3. Rendered(f) = s \o v
    BY <1>1, <1>4, <2>1, <2>2 DEF Rendered
  <2>4. Flat(WordOf, s \o v) = Flat(WordOf, s) \o Flat(WordOf, v)
    BY WordFacts, FlatConcat
  <2>5. Flat(WordOf, s) = << >>
    BY <2>1, <2>2, WordFacts, FlatOne
  <2>6. s \o v \in Text
    BY <2>3, RenderedIsText
  <2>7. Words(s \o v) = Flat(WordOf, s \o v) /\ Words(u) = Flat(WordOf, u) /\ Words(u) \in Text
    BY <2>6, WordsAreFlat
  <2>8. << >> \o Words(u) = Words(u)
    BY <2>7, ConcatEmptySeq DEF Text
  <2>9. QED
    BY <1>1, <1>2, <2>2, <2>3, <2>4, <2>5, <2>7, <2>8
<1>5. QED
  BY <1>3, <1>4

\* The words of a fragment, and of fragments.
FragWords == [f \in RAGFragment |-> Words(f.text)]

LEMMA WordsOfFragments ==
  ASSUME LabelsApart, NEW frags \in Seq(RAGFragment)
  PROVE  /\ Words(TextOf(frags)) = Flat(FragWords, frags)
         /\ FragWords \in Giving(RAGFragment, Line)
<1>1. PICK r : r = [f \in RAGFragment |-> Rendered(f)]
  OBVIOUS
<1>2. \A f \in RAGFragment : Rendered(f) \in Text /\ Rendered(f) \in Seq(Line)
                               /\ Words(f.text) \in Seq(Line)
                               /\ Words(Rendered(f)) = Words(f.text)
  BY RenderedIsText, FragmentFacts, WordsOfRendered, WordsAreFlat DEF Text, Line
<1>3. r \in Giving(RAGFragment, Line) /\ FragWords \in Giving(RAGFragment, Line)
  BY <1>1, <1>2 DEF Giving, FragWords
<1>4. TextOf(frags) = Flat(r, frags)
  <2>1. DOMAIN frags = 1..Len(frags) /\ \A i \in 1..Len(frags) : frags[i] \in RAGFragment
    BY LenProperties, ElementOfSeq
  <2>2. [i \in DOMAIN frags |-> Rendered(frags[i])] = [i \in DOMAIN frags |-> r[frags[i]]]
    BY <1>1, <2>1
  <2>3. QED
    BY <2>2 DEF TextOf, Flat
<1>5. Composes(FragWords, WordOf, r, RAGFragment)
  BY <1>1, <1>2, WordsAreFlat DEF Composes, FragWords
<1>6. Flat(WordOf, Flat(r, frags)) = Flat(FragWords, frags)
  BY <1>3, <1>5, WordFacts, FlatFlat
<1>7. TextOf(frags) \in Text
  BY TextOfIsText
<1>8. QED
  BY <1>3, <1>4, <1>6, <1>7, WordsAreFlat

\* Enough pieces of a length for a whole.
LEMMA EnoughPieces ==
  ASSUME NEW size \in Nat, NEW l \in Nat \ {0}
  PROVE  /\ (size + l - 1) \div l \in Nat
         /\ l * ((size + l - 1) \div l) >= size
<1>1. PICK a \in Nat : a = size + l - 1
  OBVIOUS
<1>2. PICK n : n = a \div l
  OBVIOUS
<1>3. n \in Int /\ a = l * n + (a % l) /\ a % l \in 0..(l - 1)
  BY <1>1, <1>2
<1>4. n \in Nat
  BY <1>1, <1>2
<1>5. PICK b \in Int, m \in Int : b = a % l /\ m = l * n
  BY <1>3
<1>6. a = m + b /\ b <= l - 1
  BY <1>3, <1>5
<1>7. m >= size
  BY <1>1, <1>6
<1>8. QED
  BY <1>1, <1>2, <1>4, <1>5, <1>7

\* The pieces of a text, one after the other, are the text.
Whole == [t \in Text |-> t]

LEMMA PiecesJoin ==
  ASSUME NEW t \in Text
  PROVE  Whole \in Giving(Text, Line) /\ Flat(Whole, SplitText(t)) = t
<1>1. Whole \in Giving(Text, Line) /\ \A u \in Text : Whole[u] = u
  BY DEF Whole, Giving, Text, Line
<1>2. PICK size \in Nat : size = Len(t) /\ t \in Seq(Line)
  BY TextFacts DEF Text, Line
<1>3. PICK n \in Nat : n = (size + PageLimit - 1) \div PageLimit /\ PageLimit * n >= size
  BY EnoughPieces, PageLimitAssumption
<1> DEFINE Upto(k) == Least(PageLimit * k, size)
           Piece(k) == SubSeq(t, PageLimit * (k - 1) + 1, Upto(k))
           Begins(k) == SubSeq(t, 1, Upto(k))
<1>4. PICK s \in Seq(Text) : s = SplitText(t)
  BY PiecesAreTexts
<1>5. s = [k \in 1..n |-> Piece(k)]
  BY <1>2, <1>3, <1>4 DEF SplitText
<1> HIDE DEF Piece
<1>6. Len(s) = n /\ \A k \in 1..n : s[k] = Piece(k) /\ s[k] \in Text
  <2>1. DOMAIN s = 1..n
    BY <1>5
  <2>2. Len(s) = n
    BY <2>1, LenProperties
  <2>3. QED
    BY <1>5, <2>2, ElementOfSeq
<1>7. PICK f : Flat(Whole, s) = f[n] /\ FlatSteps(f, Whole, s)
  BY <1>1, <1>6, FlatRecursion
<1> DEFINE S == {k \in Nat : k <= n => f[k] = Begins(k)}
<1>8. 0 \in S
  <2>1. Upto(0) = 0
    BY <1>2, PageLimitAssumption DEF Least
  <2>2. Begins(0) = << >>
    BY <2>1, SubSeqEmpty
  <2>3. QED
    BY <1>7, <2>2 DEF FlatSteps
<1>9. ASSUME NEW k \in Nat, k \in S
      PROVE  k + 1 \in S
  <2> SUFFICES ASSUME k + 1 <= n PROVE f[k + 1] = Begins(k + 1)
    OBVIOUS
  <2>1. f[k] = Begins(k)
    BY <1>9
  <2>2. PICK m \in 1..n : m = k + 1 /\ m - 1 = k
    OBVIOUS
  <2>3. f[m] = f[k] \o Piece(m)
    <3>1. s[m] = Piece(m) /\ Whole[s[m]] = s[m]
      BY <1>1, <1>6
    <3>2. f[m] = f[m - 1] \o Whole[s[m]]
      BY <1>6, <1>7 DEF FlatSteps
    <3>3. QED
      BY <2>2, <3>1, <3>2
  <2>4. PICK a \in Nat, b \in Nat : a = PageLimit * k /\ b = PageLimit * m /\ a <= b
    BY <2>2, PageLimitAssumption
  <2>5. Upto(k) = Least(a, size) /\ Upto(m) = Least(b, size) /\ Piece(m) = SubSeq(t, a + 1, Least(b, size))
    BY <2>2, <2>4 DEF Piece
  <2>6. CASE a <= size
    <3>1. PICK c \in a..size : c = Least(b, size)
      BY <2>4, <2>6 DEF Least
    <3>2. Least(a, size) = a
      BY <2>6 DEF Least
    <3>3. SubSeq(t, 1, a) \o SubSeq(t, a + 1, c) = SubSeq(t, 1, c)
      <4>1. PICK D : D = Line
        OBVIOUS
      <4>2. /\ t \in Seq(D) /\ 1 \in 1..(Len(t) + 1) /\ a \in (1 - 1)..Len(t)
            /\ c \in a..Len(t)
        BY <1>2, <2>6, <3>1, <4>1
      <4>3. QED
        BY <4>2, ConcatAdjacentSubSeq
    <3>4. QED
      BY <2>1, <2>2, <2>3, <2>5, <3>1, <3>2, <3>3
  <2>7. CASE a > size
    <3>1. Least(a, size) = size /\ Least(b, size) = size
      BY <2>4, <2>7 DEF Least
    <3>2. SubSeq(t, a + 1, size) = << >>
      BY <2>7, SubSeqEmpty
    <3>3. SubSeq(t, 1, size) = t /\ t \o << >> = t
      BY <1>2, SubSeqFull, ConcatEmptySeq
    <3>4. QED
      BY <2>1, <2>2, <2>3, <2>5, <3>1, <3>2, <3>3
  <2>8. QED
    BY <2>4, <2>6, <2>7
<1>10. n \in S
  <2> HIDE DEF S
  <2>1. QED
    BY <1>8, <1>9, Induction
<1>11. Upto(n) = size
  BY <1>3, PageLimitAssumption DEF Least
<1>12. f[n] = t
  <2>1. f[n] = Begins(n)
    BY <1>10
  <2>2. Begins(n) = SubSeq(t, 1, size)
    BY <1>11
  <2>3. PICK D : D = Line
    OBVIOUS
  <2>4. t \in Seq(D)
    BY <1>2, <2>3
  <2>5. SubSeq(t, 1, Len(t)) = t
    BY <2>4, SubSeqFull
  <2>6. QED
    BY <1>2, <2>1, <2>2, <2>5
<1>13. QED
  BY <1>1, <1>4, <1>7, <1>12

\* The pieces read as the text does.
TextWords == [t \in Text |-> Words(t)]

LEMMA PiecesRead ==
  ASSUME NEW t \in Text
  PROVE  Flat(TextWords, SplitText(t)) = Words(t)
<1>1. TextWords \in Giving(Text, Line)
  <2>1. \A u \in Text : Words(u) \in Seq(Line)
    BY WordsAreFlat DEF Text, Line
  <2>2. QED
    BY <2>1 DEF TextWords, Giving
<1>2. Whole \in Giving(Text, Line) /\ \A u \in Text : Whole[u] = u
  BY PiecesJoin DEF Whole
<1>3. Composes(TextWords, WordOf, Whole, Text)
  BY <1>2, WordsAreFlat DEF Composes, TextWords
<1>4. Flat(WordOf, Flat(Whole, SplitText(t))) = Flat(TextWords, SplitText(t))
  BY <1>1, <1>2, <1>3, WordFacts, PiecesAreTexts, FlatFlat
<1>5. QED
  BY <1>4, PiecesJoin, WordsAreFlat

\* The parts of a fragment read as the fragment does.
LEMMA PartsRead ==
  ASSUME NEW f \in RAGFragment, FragWords \in Giving(RAGFragment, Line)
  PROVE  Flat(FragWords, FragmentParts(f)) = FragWords[f]
<1> DEFINE pieces == SplitText(Dense(f.text))
           parts == [k \in DOMAIN pieces |-> [f EXCEPT !.text = pieces[k]]]
<1>1. f.text \in Text /\ FragWords[f] = Words(f.text)
  BY FragmentFacts DEF FragWords
<1>2. CASE Len(f.text) <= PageLimit
  <2>1. FragmentParts(f) = <<f>>
    BY <1>2 DEF FragmentParts
  <2>2. QED
    BY <2>1, FlatOne
<1>3. CASE ~(Len(f.text) <= PageLimit)
  <2>1. FragmentParts(f) = parts
    BY <1>3 DEF FragmentParts
  <2>2. PICK s \in Seq(Text) : s = pieces
    BY <1>1, WordsOfDense, PiecesAreTexts
  <2>3. Flat(TextWords, s) = Words(f.text)
    BY <1>1, <2>2, WordsOfDense, PiecesRead
  <2>4. parts = [k \in DOMAIN s |-> [f EXCEPT !.text = s[k]]]
    BY <2>2
  <2> HIDE DEF parts, pieces
  <2>5. DOMAIN parts = DOMAIN s /\ \A k \in DOMAIN s : FragWords[parts[k]] = TextWords[s[k]]
    <3>1. \A k \in DOMAIN s : s[k] \in Text
      BY LenProperties, ElementOfSeq
    <3>2. \A k \in DOMAIN s : /\ parts[k] = [f EXCEPT !.text = s[k]] /\ parts[k] \in RAGFragment
                             /\ parts[k].text = s[k]
      BY <2>4, <3>1, FragmentFacts DEF RAGFragment
    <3>3. QED
      BY <2>4, <3>1, <3>2 DEF FragWords, TextWords
  <2>6. Flat(FragWords, parts) = Flat(TextWords, s)
    BY <2>5, FlatSame
  <2>7. QED
    BY <1>1, <2>1, <2>3, <2>6
<1>4. QED
  BY <1>2, <1>3

\* The words of a page.
PageWords == [p \in Seq(RAGFragment) |-> Flat(FragWords, p)]

\* A part adds its words to a book, in whatever page it goes.
LEMMA PackedReads ==
  ASSUME FragWords \in Giving(RAGFragment, Line),
         NEW a \in Book, NEW b, NEW part \in RAGFragment, Packed(a, b, part)
  PROVE  /\ PageWords \in Giving(Seq(RAGFragment), Line)
         /\ Flat(PageWords, b) = Flat(PageWords, a) \o FragWords[part]
<1>1. PICK P, h, w : P = Seq(RAGFragment) /\ h = PageWords /\ w = FragWords
  OBVIOUS
<1>2. h \in Giving(P, Line) /\ \A p \in P : h[p] = Flat(w, p) /\ h[p] \in Seq(Line)
  <2>1. \A p \in P : Flat(w, p) \in Seq(Line)
    BY <1>1, FlatType
  <2>2. QED
    BY <1>1, <2>1 DEF PageWords, Giving
<1>3. w \in Giving(RAGFragment, Line) /\ w[part] \in Seq(Line)
  BY <1>1 DEF Giving
<1>4. a \in Seq(P) /\ a # << >>
  BY <1>1 DEF Book
<1>5. <<part>> \in P /\ h[<<part>>] = w[part]
  <2>1. <<part>> \in P
    BY <1>1
  <2>2. QED
    BY <1>2, <1>3, <2>1, FlatOne
<1>6. CASE b = Append(a, <<part>>)
  <2>1. Flat(h, Append(a, <<part>>)) = Flat(h, a) \o h[<<part>>]
    BY <1>2, <1>4, <1>5, FlatAppend
  <2>2. QED
    BY <1>1, <1>2, <1>5, <1>6, <2>1
<1>7. CASE b = [a EXCEPT ![Len(a)] = Append(@, part)]
  <2>1. PICK m \in Nat \ {0} : m = Len(a) /\ DOMAIN a = 1..m /\ \A i \in 1..m : a[i] \in P
    BY <1>4, LenProperties, EmptySeq, ElementOfSeq
  <2>2. PICK n \in Nat, last \in P : n + 1 = m /\ n = m - 1 /\ last = a[m]
    BY <2>1
  <2> DEFINE front == SubSeq(a, 1, n)
             longer == Append(last, part)
  <2>3. front \in Seq(P) /\ Len(front) = n /\ \A i \in 1..n : front[i] = a[i]
    <3>1. \A i \in 1..n : a[i] \in P
      BY <2>1, <2>2
    <3>2. QED
      BY <3>1, <2>2, SubSeqProperties
  <2> HIDE DEF front
  <2>4. longer \in P /\ h[longer] = h[last] \o w[part]
    <3>1. longer \in P
      BY <1>1, AppendProperties
    <3>2. Flat(w, longer) = Flat(w, last) \o w[part]
      BY <1>1, <1>3, FlatAppend
    <3> HIDE DEF longer
    <3>3. QED
      BY <1>2, <3>1, <3>2
  <2>5. a = Append(front, last)
    <3>1. Append(front, last) \in Seq(P) /\ Len(Append(front, last)) = m
      BY <2>2, <2>3, AppendProperties
    <3>2. \A i \in 1..m : a[i] = Append(front, last)[i]
      BY <2>2, <2>3, AppendProperties
    <3>3. QED
      BY <1>4, <2>1, <3>1, <3>2, SameList
  <2>6. b = Append(front, longer)
    <3>1. b = [a EXCEPT ![m] = longer]
      BY <1>7, <2>1, <2>2
    <3> HIDE DEF longer
    <3>2. b \in Seq(P) /\ Len(b) = m
      BY <1>4, <2>1, <2>4, <3>1, ExceptSeq
    <3>3. Append(front, longer) \in Seq(P) /\ Len(Append(front, longer)) = m
      BY <2>2, <2>3, <2>4, AppendProperties
    <3>4. \A i \in 1..m : b[i] = Append(front, longer)[i]
      <4>1. \A i \in 1..n : b[i] = a[i] /\ Append(front, longer)[i] = front[i]
        BY <2>1, <2>2, <2>3, <2>4, <3>1, AppendProperties
      <4>2. b[m] = longer /\ Append(front, longer)[m] = longer
        BY <2>1, <2>2, <2>3, <2>4, <3>1, AppendProperties
      <4>3. QED
        BY <2>2, <2>3, <4>1, <4>2
    <3>5. QED
      BY <3>2, <3>3, <3>4, SameList
  <2> HIDE DEF longer
  <2>7. /\ Flat(h, a) = Flat(h, front) \o h[last]
        /\ Flat(h, b) = Flat(h, front) \o h[longer]
    <3>1. PICK x \in P, y \in Seq(P) : x = longer /\ y = front
      BY <2>3, <2>4
    <3>2. Flat(h, Append(y, last)) = Flat(h, y) \o h[last]
      BY <1>2, FlatAppend
    <3>3. Flat(h, Append(y, x)) = Flat(h, y) \o h[x]
      BY <1>2, FlatAppend
    <3>4. QED
      BY <2>5, <2>6, <3>1, <3>2, <3>3
  <2>8. Flat(h, front) \in Seq(Line) /\ h[last] \in Seq(Line)
    BY <1>2, <2>3, FlatType
  <2>9. (Flat(h, front) \o h[last]) \o w[part] = Flat(h, front) \o (h[last] \o w[part])
    <3>1. PICK D : D = Line
      OBVIOUS
    <3>2. PICK x \in Seq(D), y \in Seq(D), z \in Seq(D) :
            x = Flat(h, front) /\ y = h[last] /\ z = w[part]
      BY <1>3, <2>8, <3>1
    <3>3. (x \o y) \o z = x \o (y \o z)
      BY ConcatAssociative
    <3>4. QED
      BY <3>2, <3>3
  <2>10. QED
    BY <1>1, <1>2, <2>4, <2>7, <2>9
<1>8. QED
  BY <1>6, <1>7 DEF Packed

\* The pages of a chunk, read one after the other, are the chunk.
LEMMA PaginateReads ==
  ASSUME FragWords \in Giving(RAGFragment, Line), NEW frags \in Seq(RAGFragment)
  PROVE  Flat(PageWords, Paginate(frags)) = Flat(FragWords, frags)
<1>1. PICK parts \in Seq(RAGFragment) : parts = PartsOf(frags)
  BY PackedPages
<1>2. PICK n \in Nat : n = Len(parts) /\ \A k \in 1..n : parts[k] \in RAGFragment
  BY LenProperties, ElementOfSeq
<1>3. PICK pack : /\ Paginate(frags) = pack[n] /\ \A k \in 0..n : pack[k] \in Book
                  /\ Packs(pack, parts)
  BY <1>1, <1>2, PackedPages
<1>4. PICK f : /\ Flat(FragWords, parts) = f[n] /\ f \in [0..n -> Seq(Line)]
               /\ FlatSteps(f, FragWords, parts)
  BY <1>2, FlatRecursion
<1> DEFINE S == {k \in Nat : k <= n => Flat(PageWords, pack[k]) = f[k]}
<1>5. 0 \in S
  <2>1. pack[0] = << << >> >>
    BY <1>3 DEF Packs
  <2>2. PICK P, h, w : P = Seq(RAGFragment) /\ h = PageWords /\ w = FragWords
    OBVIOUS
  <2>3. h \in Giving(P, Line) /\ \A p \in P : h[p] = Flat(w, p)
    <3>1. \A p \in P : Flat(w, p) \in Seq(Line)
      BY <2>2, FlatType
    <3>2. QED
      BY <2>2, <3>1 DEF PageWords, Giving
  <2>4. << >> \in P
    BY <2>2, EmptySeq
  <2>5. Flat(w, << >>) = << >>
    BY <2>2, FlatEmpty
  <2>6. Flat(h, << << >> >>) = h[<< >>]
    BY <2>3, <2>4, FlatOne
  <2>7. QED
    BY <1>4, <2>1, <2>2, <2>3, <2>4, <2>5, <2>6 DEF FlatSteps
<1>6. ASSUME NEW k \in Nat, k \in S
      PROVE  k + 1 \in S
  <2> SUFFICES ASSUME k + 1 <= n PROVE Flat(PageWords, pack[k + 1]) = f[k + 1]
    OBVIOUS
  <2>1. PICK m \in 1..n : m = k + 1 /\ m - 1 = k
    OBVIOUS
  <2>2. Packed(pack[k], pack[m], parts[m]) /\ pack[k] \in Book /\ parts[m] \in RAGFragment
    BY <1>2, <1>3, <2>1 DEF Packs
  <2>3. Flat(PageWords, pack[m]) = Flat(PageWords, pack[k]) \o FragWords[parts[m]]
    BY <2>2, PackedReads
  <2>4. f[m] = f[k] \o FragWords[parts[m]]
    BY <1>2, <1>4, <2>1 DEF FlatSteps
  <2>5. Flat(PageWords, pack[k]) = f[k]
    BY <1>6
  <2>6. QED
    BY <2>1, <2>3, <2>4, <2>5
<1>7. Flat(PageWords, pack[n]) = f[n]
  <2>1. n \in S
    <3> HIDE DEF S
    <3>1. QED
      BY <1>5, <1>6, Induction
  <2>2. QED
    BY <2>1
<1>8. Flat(FragWords, parts) = Flat(FragWords, frags)
  <2>1. PICK g : g = [x \in RAGFragment |-> FragmentParts(x)]
    OBVIOUS
  <2>2. g \in Giving(RAGFragment, RAGFragment) /\ \A x \in RAGFragment : g[x] = FragmentParts(x)
    BY <2>1, PartsAreFragments DEF Giving
  <2>3. parts = Flat(g, frags)
    <3>1. DOMAIN frags = 1..Len(frags) /\ \A i \in 1..Len(frags) : frags[i] \in RAGFragment
      BY LenProperties, ElementOfSeq
    <3>2. [i \in DOMAIN frags |-> FragmentParts(frags[i])] = [i \in DOMAIN frags |-> g[frags[i]]]
      BY <2>2, <3>1
    <3>3. QED
      BY <1>1, <3>2 DEF PartsOf, Flat
  <2>4. Composes(FragWords, FragWords, g, RAGFragment)
    BY <2>2, PartsRead DEF Composes
  <2>5. QED
    BY <2>2, <2>3, <2>4, FlatFlat
<1>9. QED
  BY <1>3, <1>4, <1>7, <1>8

\* The pages that paging saves of a chunk, whatever its fragments and however they are
\* cut and packed, read back word for word and in order as the chunk (paginateChunk).
THEOREM PagesReadBack ==
  ASSUME LabelsApart, NEW c \in RAGChunk
  PROVE  FlattenSeq([n \in DOMAIN PagesOf(c) |-> Words(PagesOf(c)[n].text)])
           = Words(TextOf(c.frags))
<1>1. PICK frags \in Seq(RAGFragment) : frags = c.frags
  BY ChunkFacts
<1>2. PICK book \in Seq(Seq(RAGFragment)) : book = Paginate(frags)
  BY PagesAreFragments DEF Book
<1>3. PICK w : w = FragWords /\ w \in Giving(RAGFragment, Line)
  BY <1>1, WordsOfFragments
<1>4. PICK saved : saved = PagesOf(c)
  OBVIOUS
<1>5. DOMAIN saved = DOMAIN book /\ \A n \in DOMAIN book : saved[n].text = TextOf(book[n])
  BY <1>1, <1>2, <1>4 DEF PagesOf
<1>6. \A n \in DOMAIN book : Words(saved[n].text) = PageWords[book[n]]
  <2>1. \A n \in DOMAIN book : book[n] \in Seq(RAGFragment)
    BY LenProperties, ElementOfSeq
  <2>2. \A n \in DOMAIN book : Words(TextOf(book[n])) = Flat(FragWords, book[n])
    BY <2>1, WordsOfFragments
  <2>3. QED
    BY <1>5, <2>1, <2>2 DEF PageWords
<1>7. [n \in DOMAIN saved |-> Words(saved[n].text)] = [n \in DOMAIN book |-> PageWords[book[n]]]
  BY <1>5, <1>6
<1>8. FlattenSeq([n \in DOMAIN saved |-> Words(saved[n].text)]) = Flat(PageWords, book)
  BY <1>7 DEF Flat
<1>9. Flat(PageWords, book) = Flat(FragWords, frags)
  BY <1>2, <1>3, PaginateReads
<1>10. QED
  BY <1>1, <1>4, <1>8, <1>9, WordsOfFragments

\* What is normalised is normalised for good.
LEMMA NormalTwice ==
  ASSUME NEW f \in RAGFragment
  PROVE  Normal(Normal(f)) = Normal(f)
<1> DEFINE t == f.text
           json == StableJSON(t)
           other == [i \in DOMAIN t |-> Stable(t[i])]
<1>1. f \in RAGFragment /\ t \in Text /\ f.type \in FragmentTypes
  BY FragmentFacts
<1>2. CASE f.type = "code"
  BY <1>2 DEF Normal
<1>3. CASE f.type = "json"
  <2> DEFINE I == {i \in DOMAIN t : Stable(t[i]) = t[i]}
             J == {i \in DOMAIN json : Stable(json[i]) = json[i]}
  <2>1. json = Pick(t, I)
    BY DEF StableJSON
  <2>2. StableJSON(json) = Pick(json, J)
    BY DEF StableJSON
  <2>3. PICK D : D = Line
    OBVIOUS
  <2>4. t \in Seq(D)
    BY <1>1, <2>3 DEF Text, Line
  <2>5. /\ json \in Seq(D)
        /\ \A k \in 1..Len(json) : \E i \in 1..Len(t) : i \in I /\ json[k] = t[i]
    <3> HIDE DEF I, J, json
    <3>1. QED
      BY <2>1, <2>4, PickFacts
  <2>6. \A k \in 1..Len(json) : k \in J
    <3> SUFFICES ASSUME NEW k \in 1..Len(json) PROVE k \in J
      OBVIOUS
    <3>1. PICK i \in 1..Len(t) : i \in I /\ json[k] = t[i]
      BY <2>5
    <3>2. Stable(t[i]) = t[i]
      BY <3>1
    <3>3. k \in DOMAIN json
      BY <2>5, LenProperties
    <3> HIDE DEF json, t
    <3>4. QED
      BY <3>1, <3>2, <3>3
  <2>7. StableJSON(json) = json
    <3> HIDE DEF J, json
    <3>1. QED
      BY <2>2, <2>5, <2>6, PickAll
  <2> HIDE DEF json, I, J
  <2>8. Normal(f) = [f EXCEPT !.text = json]
    BY <1>3 DEF Normal, json
  <2>9. PICK g : g = Normal(f) /\ g.type = "json" /\ g.text = json
    BY <1>1, <1>3, <2>8 DEF RAGFragment
  <2>10. Normal(g) = [g EXCEPT !.text = StableJSON(json)]
    BY <2>9 DEF Normal
  <2>11. [g EXCEPT !.text = json] = g
    BY <2>8, <2>9
  <2>12. QED
    BY <2>7, <2>9, <2>10, <2>11
<1>4. CASE f.type \notin {"code", "json"}
  <2>1. Normal(f) = [f EXCEPT !.text = other]
    BY <1>4 DEF Normal
  <2>2. [i \in DOMAIN other |-> Stable(other[i])] = other
    BY <1>1, StableTwice, TextFacts
  <2> HIDE DEF other
  <2>3. PICK g : g = Normal(f) /\ g.type = f.type /\ g.text = other
    BY <1>1, <2>1 DEF RAGFragment
  <2>4. Normal(g) = [g EXCEPT !.text = [i \in DOMAIN other |-> Stable(other[i])]]
    BY <1>4, <2>3 DEF Normal
  <2>5. [g EXCEPT !.text = other] = g
    BY <2>1, <2>3
  <2>6. QED
    BY <2>2, <2>3, <2>4, <2>5
<1>5. QED
  BY <1>2, <1>3, <1>4

\* Chunks in order are the chunks, normalised.
Normals(ds, cs) ==
  /\ Len(ds) = Len(cs)
  /\ \A k \in 1..Len(cs) : \E i \in 1..Len(cs) : ds[k] = NormalizeChunk(cs[i])
  /\ \A i \in 1..Len(cs) : \E k \in 1..Len(cs) : ds[k] = NormalizeChunk(cs[i])

LEMMA StableElements ==
  ASSUME NEW cs \in Seq(RAGChunk)
  PROVE  StableChunks(cs) \in Seq(RAGChunk) /\ Normals(StableChunks(cs), cs)
<1> DEFINE ns == [i \in DOMAIN cs |-> NormalizeChunk(cs[i])]
<1>1. PICK n \in Nat : n = Len(cs) /\ DOMAIN cs = 1..n /\ \A i \in 1..n : cs[i] \in RAGChunk
  BY LenProperties, ElementOfSeq
<1>2. \A i \in 1..n : ns[i] = NormalizeChunk(cs[i]) /\ ns[i] \in RAGChunk
  BY <1>1, NormalizedParts
<1>3. ns \in Seq(RAGChunk) /\ Len(ns) = n
  <2>1. ns = [i \in DOMAIN cs |-> ns[i]]
    OBVIOUS
  <2> HIDE DEF ns
  <2>2. QED
    BY <1>1, <1>2, <2>1, MappedList
<1>4. PICK ds : ds = StableChunks(cs) /\ ds = Sorted(ns, ChunkBefore)
  BY DEF StableChunks
<1> HIDE DEF ns
<1>5. ds \in Seq(RAGChunk) /\ Len(ds) = n /\ \E p : Permutes(p, ds, ns, n)
  BY <1>3, <1>4, SortedInOrder
<1>6. PICK p : Permutes(p, ds, ns, n)
  BY <1>5
<1>7. \A k \in 1..n : \E i \in 1..n : ds[k] = NormalizeChunk(cs[i])
  <2> SUFFICES ASSUME NEW k \in 1..n PROVE \E i \in 1..n : ds[k] = NormalizeChunk(cs[i])
    OBVIOUS
  <2>1. p[k] \in 1..n /\ ds[k] = ns[p[k]]
    BY <1>6 DEF Permutes
  <2>2. PICK i \in 1..n : i = p[k]
    BY <2>1
  <2>3. QED
    BY <1>2, <2>1, <2>2
<1>8. \A i \in 1..n : \E k \in 1..n : ds[k] = NormalizeChunk(cs[i])
  <2> SUFFICES ASSUME NEW i \in 1..n PROVE \E k \in 1..n : ds[k] = NormalizeChunk(cs[i])
    OBVIOUS
  <2>1. PICK k \in 1..n : p[k] = i
    BY <1>6 DEF Permutes
  <2>2. ds[k] = ns[i]
    BY <1>6, <2>1 DEF Permutes
  <2>3. QED
    BY <1>2, <2>2
<1>9. QED
  BY <1>1, <1>4, <1>5, <1>7, <1>8 DEF Normals

\* A chunk of a request has no more tokens than the prompt of the request.
LEMMA ChunkInPrompt ==
  ASSUME NEW given \in Seq(RAGChunk), NEW ms \in Seq(Message),
         NEW c \in ToSet(StableChunks(given))
  PROVE  /\ c \in RAGChunk /\ ChunkTokens(c) \in Nat
         /\ ChunkTokens(c) <= PromptTokens(AssemblePrompt(StableChunks(given), ms))
<1>1. PICK cs \in Seq(RAGChunk) : cs = StableChunks(given) /\ Normals(cs, given)
  BY StableElements
<1>2. PICK ds \in Seq(RAGChunk) : ds = StableChunks(cs) /\ Normals(ds, cs)
  BY StableElements
<1>3. PICK n \in Nat : /\ n = Len(cs) /\ n = Len(ds) /\ n = Len(given)
                       /\ DOMAIN cs = 1..n /\ DOMAIN ds = 1..n /\ DOMAIN given = 1..n
                       /\ \A i \in 1..n : given[i] \in RAGChunk /\ cs[i] \in RAGChunk
  <2>1. PICK n \in Nat : n = Len(given)
    BY LenProperties
  <2>2. n = Len(cs) /\ n = Len(ds)
    BY <1>1, <1>2, <2>1 DEF Normals
  <2>3. DOMAIN given = 1..n /\ \A i \in 1..n : given[i] \in RAGChunk
    BY <2>1, LenProperties, ElementOfSeq
  <2>4. DOMAIN cs = 1..n /\ \A i \in 1..n : cs[i] \in RAGChunk
    BY <2>2, LenProperties, ElementOfSeq
  <2>5. DOMAIN ds = 1..n
    BY <2>2, LenProperties
  <2>6. QED
    BY <2>1, <2>2, <2>3, <2>4, <2>5
<1>4. PICK i \in 1..n : c = cs[i]
  BY <1>1, <1>3 DEF ToSet
<1>5. PICK k \in 1..n : c = NormalizeChunk(given[k])
  BY <1>1, <1>3, <1>4 DEF Normals
<1>6. PICK m \in 1..n : ds[m] = NormalizeChunk(c)
  BY <1>2, <1>3, <1>4 DEF Normals
<1>7. NormalizeChunk(c).frags = c.frags
  <2>1. PICK frags \in Seq(RAGFragment) : frags = given[k].frags
    BY <1>3, ChunkFacts
  <2>2. c.frags = [j \in DOMAIN frags |-> Normal(frags[j])]
    BY <1>3, <1>5, <2>1, NormalizedParts
  <2>3. NormalizeChunk(c).frags = [j \in DOMAIN c.frags |-> Normal(c.frags[j])]
    BY <1>3, <1>4, NormalizedParts
  <2>4. \A j \in DOMAIN frags : Normal(Normal(frags[j])) = Normal(frags[j])
    BY NormalTwice, LenProperties, ElementOfSeq
  <2>5. QED
    BY <2>2, <2>3, <2>4
<1>8. PICK p \in Prompt : p = AssemblePrompt(cs, ms)
  BY AssembledPrompt
<1>9. p.rag = [j \in DOMAIN ds |-> [sources |-> ds[j].sources, text |-> TextOf(ds[j].frags)]]
  BY <1>2, <1>8 DEF AssemblePrompt, RenderChunks
<1>10. m \in 1..Len(p.rag) /\ p.rag[m].text = TextOf(c.frags)
  <2>1. p.rag \in Seq(Block)
    BY DEF Prompt
  <2>2. DOMAIN p.rag = 1..n
    BY <1>3, <1>9
  <2>3. Len(p.rag) = n
    BY <2>1, <2>2, LenProperties
  <2>4. QED
    BY <1>3, <1>6, <1>7, <1>9, <2>3
<1>11. Len(p.rag[m].text) <= PromptTokens(p)
  BY <1>10, TokensAreNat
<1>12. c \in RAGChunk /\ ChunkTokens(c) \in Nat
  <2>1. c \in RAGChunk
    BY <1>3, <1>4
  <2>2. TextOf(c.frags) \in Text
    BY <2>1, ChunkFacts, TextOfIsText
  <2>3. QED
    BY <2>1, <2>2, TextFacts DEF ChunkTokens
<1>13. QED
  BY <1>1, <1>8, <1>10, <1>11, <1>12 DEF ChunkTokens
=============================================================================
