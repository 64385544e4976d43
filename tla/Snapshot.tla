------------------------------ MODULE Snapshot ------------------------------
(***************************************************************************)
(* The dashboard's snapshot of Redis (dashboard_repository.go): four scans *)
(* of the key space, the reads of what they found, and two commands about  *)
(* the summary stream, one after the other, while pages, summaries and     *)
(* prefixes come and go.                                                   *)
(*                                                                         *)
(* Keys are numbers in the order of their names.                           *)
(***************************************************************************)
EXTENDS Integers, Lists

CONSTANTS
  Page,          \* storage keys of pages
  Evaluation,    \* storage keys of trace evaluations
  Prefix,        \* storage keys of prefix entries
  Namespace,     \* keys of the sorted sets of hot prefixes
  NamespaceOf,   \* NamespaceOf[p]: the namespace of p
  PageSize,      \* DashboardQuery.Limit as configured
  Stores,        \* what Redis may hold at first: [plain, summary, seen, score, queue]
  MaxChanges,    \* bound: changes of the store during a snapshot
  Faults         \* TRUE when Redis commands may fail

ASSUME KeyAssumption ==
  /\ Page \cup Evaluation \cup Prefix \cup Namespace \subseteq Nat
  /\ IsFiniteSet(Page \cup Evaluation \cup Prefix \cup Namespace)
  /\ Page \cap Evaluation = {}
  /\ NamespaceOf \in [Prefix -> Namespace]
ASSUME StoresAssumption ==
  /\ Stores # {}
  /\ \A s \in Stores :
       /\ s.plain \subseteq Page \cup Evaluation
       /\ s.summary \in [Page -> [there : BOOLEAN, usable : BOOLEAN, created : Nat]]
       /\ \A k \in Page : s.summary[k].usable => s.summary[k].there
       /\ s.seen \in [Prefix -> Nat] /\ s.score \in [Prefix -> Nat]
       /\ s.queue \in [length : Nat, pending : Nat] /\ s.queue.pending <= s.queue.length
ASSUME PageSizeAssumption == PageSize \in Int
ASSUME ChangesAssumption == MaxChanges \in Nat /\ Faults \in BOOLEAN

\* normalizeDashboardLimit
Limit == CASE PageSize <= 0 -> 8
           [] PageSize > 50 -> 50
           [] OTHER -> PageSize

VARIABLES
  plain,         \* the pages and evaluations there are
  summary,       \* summary[k] of page k: [there, usable, created]
  seen,          \* seen[p]: LastSeenAt of prefix entry p; 0 when it is not there
  score,         \* score[p]: of p in the sorted set of its namespace; 0 when not a member
  queue,         \* the summary stream: [length, pending]
  pc,            \* the snapshot: "idle", "scan", "read", "info", "pending", "done" or "failed"
  at,            \* the family of keys it is at
  scan,          \* the keys there were all along, and at any time, since the scan began
  todo,          \* the keys that are still to be read
  rows,          \* the rows so far: [key, rank]
  view,          \* the answer: [list, count, queue]
  kept,          \* history: what has not changed since the snapshot began
  changes,       \* history: changes since then
  resizing,      \* history: Redis shrinks its hash table meanwhile
  slips          \* history: errors that were skipped

store == <<plain, summary, seen, score, queue>>
history == <<kept, changes, resizing, slips>>
snapVars == <<store, pc, at, scan, todo, rows, view, history>>

\* In the order in which they are scanned.
Family == {"pages", "summaries", "prefixes", "hot"}
NextFamily == [pages |-> "summaries", summaries |-> "prefixes", prefixes |-> "hot"]

\* The keys of a family.  isPageStorageKey takes what is not of another family
\* for a page, evaluations included.
KeysOf(f) ==
  CASE f = "pages" -> plain
    [] f = "summaries" -> {k \in Page : summary[k].there}
    [] f = "prefixes" -> {p \in Prefix : seen[p] > 0}
    [] f = "hot" -> {NamespaceOf[p] : p \in {q \in Prefix : score[q] > 0}}

\* What a row of a list is about, one by one.
Things == [f \in Family |->
  CASE f = "pages" -> Page \cup Evaluation
    [] f = "summaries" -> Page
    [] f = "prefixes" -> Prefix
    [] f = "hot" -> Prefix]
Shown(f) == CASE f = "summaries" -> {k \in KeysOf(f) : summary[k].usable}
              [] f = "hot" -> {p \in Prefix : score[p] > 0}
              [] OTHER -> KeysOf(f)
Rank(f, k) == CASE f = "pages" -> 0
                [] f = "summaries" -> summary[k].created
                [] f = "prefixes" -> seen[k]
                [] f = "hot" -> score[k]
Row(f, k) == [key |-> k, rank |-> Rank(f, k)]

Best(r, s) == r.rank > s.rank
\* Mutation of FirstOf: no limit.
AllOf(list) == list

FirstOf(list) == SubSeq(list, 1, IF Len(list) < Limit THEN Len(list) ELSE Limit)
NoScan == [steady |-> {}, ever |-> {}]
NoView == [list |-> [f \in Family |-> << >>], count |-> [f \in Family |-> 0],
           queue |-> [length |-> 0, pending |-> 0]]

Holds(s) ==
  /\ plain = s.plain /\ summary = s.summary
  /\ seen = s.seen /\ score = s.score /\ queue = s.queue

Idle ==
  /\ pc = "idle" /\ at = "pages"
  /\ scan = NoScan /\ todo = << >> /\ rows = << >> /\ view = NoView
  /\ kept = {} /\ changes = 0 /\ slips = FALSE

SnapInit ==
  /\ \E s \in Stores : Holds(s)
  /\ Idle
  /\ resizing \in BOOLEAN

----------------------------------------------------------------------------
(* What everybody else does to the store *)

\* A SCAN that is under way may or may not see a key that came or went.
Changed(things) ==
  /\ pc \notin {"idle", "done", "failed"} /\ changes < MaxChanges
  /\ UNCHANGED <<pc, at, todo, rows, view, resizing, slips>>
  /\ changes' = changes + 1
  /\ kept' = kept \ things
  /\ scan' = IF pc = "scan"
             THEN [steady |-> scan.steady \cap KeysOf(at)', ever |-> scan.ever \cup KeysOf(at)']
             ELSE scan

\* A page or an evaluation is saved, or its time is over.
PlainChanges(k) ==
  /\ plain' = IF k \in plain THEN plain \ {k} ELSE plain \cup {k}
  /\ UNCHANGED <<summary, seen, score, queue>>
  /\ Changed({<<"pages", k>>})

NoSummary == [there |-> FALSE, usable |-> FALSE, created |-> 0]
SummaryChanges(k) ==
  /\ summary' = [summary EXCEPT ![k] =
       IF summary[k].there THEN NoSummary
       ELSE [there |-> TRUE, usable |-> TRUE, created |-> 3]]
  /\ UNCHANGED <<plain, seen, score, queue>>
  /\ Changed({<<"summaries", k>>})

\* RegisterPrefix, or the entry's time is over; the sorted set has a time of its own.
PrefixChanges(p) ==
  /\ \/ seen' = [seen EXCEPT ![p] = 3] /\ score' = [score EXCEPT ![p] = @ + 1]
     \/ seen[p] > 0 /\ seen' = [seen EXCEPT ![p] = 0] /\ UNCHANGED score
  /\ UNCHANGED <<plain, summary, queue>>
  /\ Changed({<<"prefixes", p>>, <<"hot", p>>})

HotExpires(n) ==
  /\ n \in KeysOf("hot")
  /\ score' = [p \in Prefix |-> IF NamespaceOf[p] = n THEN 0 ELSE score[p]]
  /\ UNCHANGED <<plain, summary, seen, queue>>
  /\ Changed({<<"hot", p>> : p \in {q \in Prefix : NamespaceOf[q] = n}})

\* A job is queued, delivered or acknowledged; an acknowledged job stays in the stream.
QueueChanges ==
  /\ \/ queue' = [queue EXCEPT !.length = @ + 1]
     \/ queue.pending < queue.length /\ queue' = [queue EXCEPT !.pending = @ + 1]
     \/ queue.pending > 0 /\ queue' = [queue EXCEPT !.pending = @ - 1]
  /\ UNCHANGED <<plain, summary, seen, score>>
  /\ Changed({<<"queue", 0>>})

----------------------------------------------------------------------------
(* The snapshot *)

ScanFrom(f) ==
  /\ pc' = "scan" /\ at' = f
  /\ scan' = [steady |-> KeysOf(f), ever |-> KeysOf(f)]

Begin ==
  /\ pc = "idle"
  /\ ScanFrom("pages")
  /\ kept' = UNION {{<<f, k>> : k \in Things[f]} : f \in Family} \cup {<<"queue", 0>>}
  /\ UNCHANGED <<store, todo, rows, view, changes, resizing, slips>>

\* Mutation of Scan: only the first batch of keys is taken.
ScanOnce ==
  /\ pc = "scan"
  /\ \E keys \in SUBSET scan.ever :
       /\ todo' = Sorted(SetToSeq(keys), <)
       /\ view' = [view EXCEPT !.count[at] = Len(todo')]
  /\ pc' = "read" /\ scan' = NoScan /\ rows' = << >>
  /\ UNCHANGED <<store, at, history>>

\* scanKeys has followed the cursor back to 0: the keys that were there all along
\* are found, others may be, and some are found twice when the table shrank.
Scan ==
  /\ pc = "scan"
  /\ \E some \in SUBSET (scan.ever \ scan.steady) :
     \E twice \in IF resizing THEN SUBSET (scan.steady \cup some) ELSE {{}} :
       todo' = Sorted(SetToSeq(scan.steady \cup some) \o SetToSeq(twice), <)
  /\ view' = [view EXCEPT !.count[at] = Len(todo')]
  /\ pc' = "read" /\ scan' = NoScan /\ rows' = << >>
  /\ UNCHANGED <<store, at, history>>

\* loadSummaryArtifact: a payload that is of no use is deleted.
SummaryLoaded(k) == IF summary[k].usable THEN summary ELSE [summary EXCEPT ![k] = NoSummary]
Reads(f) ==
  /\ pc = "read" /\ at = f /\ todo # << >>
  /\ todo' = Tail(todo)
  /\ UNCHANGED <<pc, at, scan, view, kept, changes, resizing>>

\* GET of the page, and its summary; a page that is gone is passed over.
ReadPage ==
  /\ Reads("pages") /\ Len(rows) < Limit
  /\ IF Head(todo) \in plain
     THEN /\ rows' = Append(rows, Row("pages", Head(todo)))
          /\ summary' = IF Head(todo) \in Page THEN SummaryLoaded(Head(todo)) ELSE summary
     ELSE UNCHANGED <<rows, summary>>
  /\ UNCHANGED <<plain, seen, score, queue, slips>>

\* A summary that cannot be loaded is passed over, whatever the reason.
ReadSummary ==
  /\ Reads("summaries")
  /\ \/ /\ rows' = IF summary[Head(todo)].usable
                   THEN Append(rows, Row("summaries", Head(todo))) ELSE rows
        /\ summary' = SummaryLoaded(Head(todo))
        /\ UNCHANGED slips
     \/ /\ Faults /\ slips' = TRUE
        /\ UNCHANGED <<rows, summary>>
  /\ UNCHANGED <<plain, seen, score, queue>>

ReadPrefix ==
  /\ Reads("prefixes")
  /\ rows' = IF seen[Head(todo)] > 0
             THEN Append(rows, Row("prefixes", Head(todo))) ELSE rows
  /\ UNCHANGED <<store, slips>>

\* ZREVRANGE 0 limit-1, and the entries of its members: one whose entry is gone is
\* listed with its score alone, one that is listed is not listed again.
Hotter(r, s) == r.rank > s.rank \/ (r.rank = s.rank /\ r.key > s.key)
TopOf(n) ==
  LET members == SetToSeq({p \in Shown("hot") : NamespaceOf[p] = n})
  IN  FirstOf(Sorted([i \in DOMAIN members |-> Row("hot", members[i])], Hotter))
Unlisted(top) == {i \in DOMAIN top : \A k \in DOMAIN rows : rows[k].key # top[i].key}
ReadHot ==
  /\ Reads("hot") /\ Len(rows) < Limit
  /\ LET top == TopOf(Head(todo))
     IN  rows' = FirstOf(rows \o Pick(top, Unlisted(top)))
  /\ UNCHANGED <<store, slips>>

\* A list is complete: all keys are read, or the limit stops the loop.
Full == at \in {"pages", "hot"} /\ Len(rows) >= Limit

\* Mutation of Listed: the list is cut before it is sorted.
ListedUnsorted ==
  /\ pc = "read" /\ (todo = << >> \/ Full)
  /\ view' = [view EXCEPT !.list[at] = FirstOf(rows),
                          !.count[at] = IF at = "summaries" THEN Len(rows) ELSE @]
  /\ IF at = "hot" THEN pc' = "info" /\ UNCHANGED <<at, scan>> ELSE ScanFrom(NextFamily[at])
  /\ todo' = << >> /\ rows' = << >>
  /\ UNCHANGED <<store, history>>

Listed ==
  /\ pc = "read" /\ (todo = << >> \/ Full)
  /\ view' = [view EXCEPT
       !.list[at] = FirstOf(IF at = "pages" THEN rows ELSE Sorted(rows, Best)),
       !.count[at] = IF at = "summaries" THEN Len(rows) ELSE @]
  /\ IF at = "hot" THEN pc' = "info" /\ UNCHANGED <<at, scan>> ELSE ScanFrom(NextFamily[at])
  /\ todo' = << >> /\ rows' = << >>
  /\ UNCHANGED <<store, history>>

\* XINFO STREAM, then XPENDING.
Info ==
  /\ pc = "info"
  /\ pc' = "pending" /\ view' = [view EXCEPT !.queue.length = queue.length]
  /\ UNCHANGED <<store, at, scan, todo, rows, history>>

Pending ==
  /\ pc = "pending"
  /\ pc' = "done" /\ view' = [view EXCEPT !.queue.pending = queue.pending]
  /\ UNCHANGED <<store, at, scan, todo, rows, history>>

\* Any other error ends the snapshot with an error.
SnapshotFails ==
  /\ Faults /\ pc \notin {"idle", "done", "failed"}
  /\ pc' = "failed"
  /\ scan' = NoScan /\ todo' = << >> /\ rows' = << >> /\ view' = NoView
  /\ UNCHANGED <<store, at, history>>

SnapNext ==
  \/ \E k \in Page \cup Evaluation : PlainChanges(k)
  \/ \E k \in Page : SummaryChanges(k)
  \/ \E p \in Prefix : PrefixChanges(p)
  \/ \E n \in Namespace : HotExpires(n)
  \/ QueueChanges
  \/ Begin \/ Scan \/ ReadPage \/ ReadSummary \/ ReadPrefix \/ ReadHot \/ Listed
  \/ Info \/ Pending \/ SnapshotFails

----------------------------------------------------------------------------
(* Properties *)

SnapTypeOK ==
  /\ plain \subseteq Page \cup Evaluation
  /\ summary \in [Page -> [there : BOOLEAN, usable : BOOLEAN, created : Nat]]
  /\ seen \in [Prefix -> Nat] /\ score \in [Prefix -> Nat]
  /\ queue \in [length : Nat, pending : Nat] /\ queue.pending <= queue.length
  /\ pc \in {"idle", "scan", "read", "info", "pending", "done", "failed"}
  /\ at \in Family
  /\ scan.steady \subseteq scan.ever
  /\ todo \in Seq(Nat) /\ rows \in Seq([key : Nat, rank : Nat])
  /\ \A f \in Family : Len(view.list[f]) <= Limit

Listing(f) == view.list[f]
Has(f, k) == \E i \in DOMAIN Listing(f) : Listing(f)[i].key = k
Steady(f) == {k \in Shown(f) : <<f, k>> \in kept}

\* Row r may be in the list of family f in place of k.
Precedes(f, r, k) ==
  CASE f = "pages" -> r.key <= k
    [] f = "hot" -> NamespaceOf[r.key] = NamespaceOf[k] => r.rank >= score[k]
    [] OTHER -> r.rank >= Rank(f, k)

Unhidden(f) ==
  /\ f # "hot" => view.count[f] >= Cardinality(Steady(f))
  /\ \A k \in Steady(f) :
       Has(f, k) \/ (Len(Listing(f)) = Limit
                     /\ \A i \in DOMAIN Listing(f) : Precedes(f, Listing(f)[i], k))

\* What is there all through a snapshot is not hidden by what comes and goes
\* meanwhile: it is counted, and it is listed unless the list is full, with rows
\* that rank no lower (pages: that come first; hot prefixes: of the same or
\* another namespace).  Summaries are the exception when Redis fails: an error is
\* skipped without a word.
NothingSteadyIsHidden ==
  pc = "done" =>
    \A f \in Family : (f = "summaries" => ~slips) => Unhidden(f)

\* A snapshot of a store that nothing changes is exact: every count is the number
\* of keys, no row comes twice, every row is there with its rank, the lists are
\* as long as the limit allows, and no job is pending that is not in the stream.
Exact(f) ==
  LET list == Listing(f)
      n    == Cardinality(Shown(f))
  IN  /\ f # "hot" => view.count[f] = n
      /\ Len(list) = Least(n, Limit)
      /\ \A i, j \in DOMAIN list : i < j => list[i].key # list[j].key
                                           /\ list[i].rank >= list[j].rank
      /\ \A i \in DOMAIN list : list[i].key \in Shown(f) /\ list[i] = Row(f, list[i].key)
QuietSnapshotIsExact ==
  (pc = "done" /\ changes = 0 /\ ~resizing /\ ~slips) =>
    view.queue = queue /\ \A f \in Family : Exact(f)
=============================================================================
