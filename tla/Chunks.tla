------------------------------- MODULE Chunks -------------------------------
(***************************************************************************)
(* RAG chunks and what the processors and the text components do to them:  *)
(* rendering, pagination, normalisation, de-duplication, the reductions of *)
(* stage 2 and 3, and the layout of the prompt.                            *)
(*                                                                         *)
(* A text is a sequence of units (a line, a paragraph, a sentence), each   *)
(* one token long; what the regular expressions of the text components     *)
(* look for in a unit is given by the sets it belongs to.  A fragment is   *)
(* [type, text], a chunk [id, sources, frags, refs], a message [role,      *)
(* text].  Labels, headings and markers that the code writes into a text   *)
(* are strings outside Unit.  "log" stands for tool output too.            *)
(***************************************************************************)
EXTENDS Lists

CONSTANTS
  Unit,          \* the units that documents and messages are made of
  Canon,         \* Canon[u]: u with time stamps and identifiers blanked out
  Markup,        \* what the rich-text profile strips: tags, emoji, ...
  Boilerplate,   \* lines canonicalize removes: menus, breadcrumbs, notices
  Short,         \* short lines: removed too when a fragment repeats them
  Heading,       \* headings: marked, numbered, or in capitals
  Rule,          \* lines of - or =: what stands before one is a heading
  Signal,        \* units an outline or a focused error stack keeps
  Blank,         \* a redundant blank line
  PageLimit,     \* paging_token_threshold
  Keep,          \* Keep[x]: lines kept by the reductions, see below
  Source,        \* names of sources as clients write them, 0 for a blank one
  Label,         \* NormalizeSourceLabel: no query or fragment of a URL, / for \
  Fold           \* Fold[s]: s in lower case

ASSUME UnitAssumption ==
  /\ Blank \in Unit
  /\ Canon \in [Unit -> Unit]
  /\ \A u \in Unit : Canon[Canon[u]] = Canon[u]
  /\ Canon[Blank] = Blank
ASSUME PageLimitAssumption == PageLimit \in Nat \ {0}
ASSUME KeepAssumption == Keep \in [{"json", "table", "outline"} -> Nat]

\* A name with control characters within a URL is not among them: to normalise it
\* twice is not to normalise it once.
NoSource == 0
ASSUME SourceAssumption ==
  /\ NoSource \in Source
  /\ Label \in [Source -> Source]
  /\ Fold \in [Source -> Nat]
  /\ \A s \in Source : /\ Label[Label[s]] = Label[s]
                       /\ Label[s] = NoSource <=> s = NoSource
                       /\ Fold[s] = Fold[NoSource] <=> s = NoSource

\* The types of fragments, which are their labels too, and the markers.
FragmentTypes == {"title", "body", "code", "table", "json", "log", "error-stack"}
Markers == {"outline", "keys", "omitted", "snipped"}

\* What some properties take: no label is a unit that a client wrote.
LabelsApart == Unit \cap (FragmentTypes \cup Markers) = {}

Text == Seq(Unit \cup FragmentTypes \cup Markers)
Sources == Seq(Source)
RAGFragment == [type : FragmentTypes, text : Text]
PageRef == [sources : SUBSET Nat, text : Text, page : Nat]
RAGChunk == [id : Nat, sources : Sources, frags : Seq(RAGFragment), refs : Seq(PageRef)]
Message == [role : STRING, text : Text]

----------------------------------------------------------------------------
(* Rendering: FragmentText, ChunkText *)

\* A text without the blank lines before and after it.
Trim(text) ==
  Pick(text, {i \in DOMAIN text : /\ \E j \in 1..i : text[j] # Blank
                                  /\ \E j \in i..Len(text) : text[j] # Blank})

\* A label, unless there is nothing to be labelled.
Rendered(f) ==
  IF f.type = "body" \/ Trim(f.text) = << >> THEN Trim(f.text)
  ELSE <<f.type>> \o Trim(f.text)

TextOf(frags) == FlattenSeq([i \in DOMAIN frags |-> Rendered(frags[i])])

Dense(text) == Pick(text, {i \in DOMAIN text : text[i] # Blank})
\* The words of a rendered text: no labels, no blank lines.
Words(text) == Pick(text, {i \in DOMAIN text : text[i] \in Unit \ {Blank}})

ChunkTokens(c) == Len(TextOf(c.frags))

----------------------------------------------------------------------------
(* Normalisation: NormalizeChunk, StableChunks *)

\* normalizeStableIdentifiers; the markers hold nothing volatile.
Stable(u) == IF u \in Unit THEN Canon[u] ELSE u

\* normalizeJSON: volatile keys go.
StableJSON(text) == Pick(text, {i \in DOMAIN text : Stable(text[i]) = text[i]})

\* Code keeps everything, other text gets placeholders.
Normal(f) ==
  CASE f.type = "code" -> f
    [] f.type = "json" -> [f EXCEPT !.text = StableJSON(@)]
    [] OTHER -> [f EXCEPT !.text = [i \in DOMAIN f.text |-> Stable(f.text[i])]]

\* Page keys are sorted as strings: page 10 comes before page 2.  (Exact up to
\* 99 pages, which is more than any instance has.)
RefBefore(a, b) ==
  LET Key(n) == IF n < 10 THEN 100 * n ELSE 100 * (n \div 10) + 1 + (n % 10)
  IN  Key(a.page) < Key(b.page)

FoldBefore(s, t) == Fold[s] < Fold[t]

\* The labels of a list in order, of several spellings the first.
StableSources(list) ==
  LET labels == [i \in DOMAIN list |-> Label[list[i]]]
      New == {i \in DOMAIN list :
                /\ labels[i] # NoSource
                /\ \A j \in 1..(i - 1) : Fold[labels[j]] # Fold[labels[i]]}
  IN  Sorted(Pick(labels, New), FoldBefore)

\* What a list cites, whatever the spelling: StableSources joined, in lower case.
Folds(list) == {Fold[Label[s]] : s \in ToSet(list) \ {NoSource}}

NormalizeChunk(c) ==
  [c EXCEPT !.sources = StableSources(@),
            !.frags = [i \in DOMAIN c.frags |-> Normal(c.frags[i])],
            !.refs = Sorted(@, RefBefore)]

\* The order of two joined, sorted source lists.
SourcesBefore(S, T) ==
  \E d \in (S \ T) \cup (T \ S) :
    /\ \A e \in (S \ T) \cup (T \ S) : d <= e
    /\ IF d \in S THEN \E t \in T : t > d ELSE ~\E s \in S : s > d

\* (Chunks of the same sources without an ID stay as they are here, where the code
\* orders them by their text.)
ChunkBefore(c, d) ==
  \/ SourcesBefore(Folds(c.sources), Folds(d.sources))
  \/ Folds(c.sources) = Folds(d.sources) /\ c.id < d.id

StableChunks(chunks) ==
  Sorted([i \in DOMAIN chunks |-> NormalizeChunk(chunks[i])], ChunkBefore)

----------------------------------------------------------------------------
(* Paging: paginateChunk *)

\* Mutation of SplitText: a last piece that is short is forgotten.
SplitFull(text) ==
  [k \in 1..(Len(text) \div PageLimit) |-> SubSeq(text, PageLimit * (k - 1) + 1, PageLimit * k)]

\* Pieces of a text, each as long as the limit allows.
SplitText(text) ==
  [k \in 1..((Len(text) + PageLimit - 1) \div PageLimit) |->
     SubSeq(text, PageLimit * (k - 1) + 1, Least(PageLimit * k, Len(text)))]

\* A fragment over the limit is cut into pieces of its type.
FragmentParts(f) ==
  LET pieces == SplitText(Dense(f.text))
  IN  IF Len(f.text) <= PageLimit THEN <<f>>
      ELSE [k \in DOMAIN pieces |-> [f EXCEPT !.text = pieces[k]]]

\* The parts are packed into pages: a part that does not fit opens a new page.
Paginate(frags) ==
  LET parts == FlattenSeq([i \in DOMAIN frags |-> FragmentParts(frags[i])])
      pack[n \in Nat] ==
        IF n \notin DOMAIN parts THEN << << >> >>
        ELSE LET front == pack[n - 1]
                 open  == TextOf(Last(front))
             IN  IF Len(open) > 0 /\ Len(open) + Len(Rendered(parts[n])) > PageLimit
                 THEN Append(front, <<parts[n]>>)
                 ELSE [front EXCEPT ![Len(front)] = Append(@, parts[n])]
  IN  pack[Len(parts)]

\* The key is addressed by content: the sources, the hash of the whole chunk's
\* normalised text, the number of the page.
PageKey(c, n) ==
  [sources |-> Folds(c.sources), text |-> TextOf(NormalizeChunk(c).frags), page |-> n]

Oversized(c) == ChunkTokens(c) > PageLimit

\* What paging saves of a chunk.
PagesOf(c) ==
  LET pages == Paginate(c.frags)
  IN  [n \in DOMAIN pages |-> [key |-> PageKey(c, n), text |-> TextOf(pages[n])]]

FirstPage(c) ==
  [c EXCEPT !.frags = Paginate(c.frags)[1],
            !.refs = [n \in DOMAIN Paginate(c.frags) |-> PageKey(c, n)]]

FirstPages(chunks) ==
  [i \in DOMAIN chunks |-> IF Oversized(chunks[i]) THEN FirstPage(chunks[i]) ELSE chunks[i]]

----------------------------------------------------------------------------
(* Collapse *)

SameText(c, d) == Dense(TextOf(c.frags)) = Dense(TextOf(d.frags))

\* Mutation of CollapseChunks: a duplicate goes with its sources.
CollapseFirst(chunks) ==
  Pick(chunks, {i \in DOMAIN chunks :
                  ~\E j \in 1..(i - 1) : SameText(chunks[i], chunks[j])})

\* Of chunks with the same text the first stays, with the sources of all of
\* them, one after the other; the page keys and the ID of the others go.
CollapseChunks(chunks) ==
  LET Merged(c) == [c EXCEPT !.sources = Once(FlattenSeq([j \in DOMAIN chunks |->
        IF SameText(chunks[j], c) THEN StableSources(chunks[j].sources) ELSE << >>]))]
  IN  Pick([i \in DOMAIN chunks |-> Merged(chunks[i])],
           {i \in DOMAIN chunks :
              ~\E j \in 1..(i - 1) : SameText(chunks[i], chunks[j])})

\* The white space of messages.
DenseMessages(messages) ==
  [i \in DOMAIN messages |-> [messages[i] EXCEPT !.text = Dense(@)]]

----------------------------------------------------------------------------
(* Sanitize; canonicalize: preprocessFragment *)

\* (Of a text that is nothing but tags the code leaves the tags.)
RichText(text) == Pick(text, {i \in DOMAIN text : text[i] \notin Markup})

SanitizeChunk(c) ==
  [c EXCEPT !.frags = [i \in DOMAIN c.frags |->
     IF c.frags[i].type \in {"code", "json"} THEN c.frags[i]
     ELSE [c.frags[i] EXCEPT !.text = RichText(@)]]]

\* The active turn is spared, unless the system speaks last.
SanitizeMessages(messages) ==
  [i \in DOMAIN messages |->
     IF i = Len(messages) /\ messages[i].role # "system" THEN messages[i]
     ELSE [messages[i] EXCEPT !.text = RichText(@)]]

Occurrences(text, u) == Cardinality({i \in DOMAIN text : text[i] = u})
IsBoilerplate(text, u) ==
  u \in Boilerplate \/ (u \in Short /\ Occurrences(text, u) > 1)

\* preprocessBodyFragment: each heading is a title fragment of its own, and what
\* stands between two headings is a body.  A rule goes with the heading above it.
Sections(text) ==
  LET Said(i) == text[i] # Blank /\ ~IsBoilerplate(text, text[i])
      underlined[i \in 0..Len(text)] ==
        /\ i \in 1..(Len(text) - 1)
        /\ Said(i) /\ text[i + 1] \in Rule
        /\ ~underlined[i - 1]
      lines == Pick([i \in DOMAIN text |-> i],
                    {i \in DOMAIN text : Said(i) /\ ~underlined[i - 1]})
      Put(frags, i) ==
        CASE underlined[i] \/ text[i] \in Heading ->
               Append(frags, [type |-> "title", text |-> <<text[i]>>])
          [] frags # << >> /\ Last(frags).type = "body" ->
               [frags EXCEPT ![Len(frags)].text = Append(@, text[i])]
          [] OTHER -> Append(frags, [type |-> "body", text |-> <<text[i]>>])
      sections[n \in Nat] ==
        IF n \in DOMAIN lines THEN Put(sections[n - 1], lines[n]) ELSE << >>
  IN  sections[Len(lines)]

\* A body that is boilerplate throughout stays as it is.
PreprocessFragment(f) ==
  LET rich == RichText(f.text)
  IN  CASE f.type = "title"       -> <<Normal(f)>>
        [] f.type # "body"        -> <<f>>
        [] Sections(rich) # << >> -> Sections(rich)
        [] Dense(rich) # << >>    -> <<[f EXCEPT !.text = Dense(rich)]>>
        [] Dense(f.text) # << >>  -> <<f>>
        [] OTHER                  -> << >>

PreprocessChunk(c) ==
  [c EXCEPT !.frags = FlattenSeq([i \in DOMAIN c.frags |-> PreprocessFragment(c.frags[i])])]

----------------------------------------------------------------------------
(* Stages 2 and 3 *)

Outline(text) ==
  LET said == Pick(text, {i \in DOMAIN text : text[i] \in Signal})
  IN  IF said = << >> THEN text
      ELSE <<"outline">> \o SubSeq(Once(said), 1, Least(Keep["outline"], Len(Once(said))))

\* trimJSON, reduceTable, outlineCode, focusErrorStack.
Reduced(f) ==
  CASE f.type = "json" ->
         IF Len(f.text) <= Keep["json"] THEN f ELSE [f EXCEPT !.text = <<"keys">>]
    [] f.type = "table" ->
         IF Len(f.text) <= Keep["table"] + 1 THEN f
         ELSE [f EXCEPT !.text = SubSeq(@, 1, Keep["table"]) \o <<"omitted">>]
    [] f.type \in {"code", "error-stack"} -> [f EXCEPT !.text = Outline(@)]

\* runFragmentContentTransform for the fragments of one type.
ReduceChunk(c, type) ==
  [c EXCEPT !.frags = [i \in DOMAIN c.frags |->
     IF c.frags[i].type = type THEN Reduced(c.frags[i]) ELSE c.frags[i]]]

\* snipChunk: head and tail of long fragments.
SnipChunk(c, head, tail) ==
  LET Snipped(f) ==
        IF \/ f.type \notin {"code", "json", "log", "error-stack"}
           \/ Len(f.text) <= head + tail
        THEN f
        ELSE [f EXCEPT !.text = SubSeq(@, 1, head) \o <<"snipped">>
                                  \o SubSeq(@, Len(@) - tail + 1, Len(@))]
  IN  [c EXCEPT !.frags = [i \in DOMAIN c.frags |-> Snipped(c.frags[i])]]

\* safeCompactChunk: repetitions of the line before, then redundant blank lines.
SafeCompactChunk(c) ==
  LET Compacted(f) ==
        LET Fresh == {i \in DOMAIN f.text : i = 1 \/ f.text[i - 1] # f.text[i]}
        IN  IF f.type \notin {"log", "error-stack"} THEN f
            ELSE [f EXCEPT !.text = Dense(Pick(@, Fresh))]
  IN  [c EXCEPT !.frags = [i \in DOMAIN c.frags |-> Compacted(c.frags[i])]]

CompactChunk(c) ==
  [c EXCEPT !.frags = [i \in DOMAIN c.frags |-> [c.frags[i] EXCEPT !.text = Dense(@)]]]

----------------------------------------------------------------------------
(* The prompt: StablePromptSegments, AssemblePrompt *)

NormalMessage(m) == [m EXCEPT !.text = [i \in DOMAIN m.text |-> Stable(m.text[i])]]

\* The last message is the active turn, whatever its role; the others are put
\* in order, the system's first.
Segments(messages) ==
  LET n      == Len(messages)
      stable == [i \in 1..(n - 1) |-> NormalMessage(messages[i])]
  IN  IF n = 0 THEN [system |-> << >>, memory |-> << >>, active |-> << >>]
      ELSE [system |-> Pick(stable, {i \in DOMAIN stable : stable[i].role = "system"}),
            memory |-> Pick(stable, {i \in DOMAIN stable : stable[i].role # "system"}),
            active |-> <<messages[n]>>]

OrderMessages(messages) ==
  LET s == Segments(messages) IN s.system \o s.memory \o s.active

RenderChunks(chunks) ==
  LET stable == StableChunks(chunks)
  IN  [i \in DOMAIN stable |->
         [sources |-> stable[i].sources, text |-> TextOf(stable[i].frags)]]

\* buildStablePrefixSections: placeholders in the rendered chunks.
Blanked(rag) ==
  [i \in DOMAIN rag |->
     [rag[i] EXCEPT !.text = [k \in DOMAIN rag[i].text |-> Stable(rag[i].text[k])]]]

AssemblePrompt(chunks, messages) ==
  LET s == Segments(messages)
  IN  [rag |-> RenderChunks(chunks), memory |-> s.system \o s.memory, active |-> s.active]

PromptTokens(p) ==
  LET Messages(ms) == Total([i \in DOMAIN ms |-> 1 + Len(ms[i].text)])
  IN  Total([i \in DOMAIN p.rag |-> Len(p.rag[i].sources) + Len(p.rag[i].text)])
        + Messages(p.memory) + Messages(p.active)
=============================================================================
