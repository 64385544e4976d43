--------------------------- MODULE DashboardProofs ---------------------------
(***************************************************************************)
(* Theorems about the dashboard, for any keys, namespaces, limits, stores  *)
(* and traces: its types; that nothing steady is hidden from a snapshot,   *)
(* and a quiet one is exact; that the page of a trace is true of the spans *)
(* that have arrived, and only unfolds when it is loaded again.            *)
(***************************************************************************)
EXTENDS Dashboard, ListProofs

Rows == [key : Nat, rank : Nat]

\* The keys there can be of a family.
Names(f) == IF f = "hot" THEN Namespace ELSE Things[f]

Views == [list : [Family -> Seq(Rows)], count : [Family -> Nat],
          queue : [length : Nat, pending : Nat]]

\* The types, in full.
StoreTypes ==
  /\ plain \subseteq Page \cup Evaluation
  /\ summary \in [Page -> [there : BOOLEAN, usable : BOOLEAN, created : Nat]]
  /\ \A k \in Page : summary[k].usable => summary[k].there
  /\ seen \in [Prefix -> Nat] /\ score \in [Prefix -> Nat]
  /\ queue \in [length : Nat, pending : Nat] /\ queue.pending <= queue.length
Types ==
  /\ StoreTypes
  /\ pc \in {"idle", "scan", "read", "info", "pending", "done", "failed"}
  /\ at \in Family
  /\ pc = "idle" => at = "pages"
  /\ pc \in {"info", "pending", "done"} => at = "hot"
  /\ scan \in [steady : SUBSET Nat, ever : SUBSET Nat]
  /\ scan.steady \subseteq scan.ever /\ scan.ever \subseteq Names(at)
  /\ todo \in Seq(Names(at)) /\ rows \in Seq(Rows)
  /\ view \in Views
  /\ \A f \in Family : Len(view.list[f]) <= Limit
  /\ changes \in Nat /\ resizing \in BOOLEAN /\ slips \in BOOLEAN

\* The families whose list is complete.
Position == [pages |-> 1, summaries |-> 2, prefixes |-> 3, hot |-> 4]
Passed(f) == pc \in {"info", "pending", "done"} \/ Position[f] < Position[at]

\* What a scan has to find for thing k to be read.
Target(f, k) == IF f = "hot" THEN NamespaceOf[k] ELSE k

\* Thing k of the family that is being read has its row; is still to be read; or
\* had no place among the hot ones.
HasRow(k) ==
  \E i \in 1..Len(rows) :
    rows[i].key = k /\ (at \in {"summaries", "prefixes"} => rows[i].rank = Rank(at, k))
ToRead(k) ==
  /\ \E i \in 1..Len(todo) : todo[i] = Target(at, k)
  /\ at = "hot" => \A i \in 1..Len(rows) : NamespaceOf[rows[i].key] # NamespaceOf[k]
CutOff(k) ==
  at = "hot" /\ Len(rows) = Limit /\ \A i \in 1..Len(rows) : Precedes("hot", rows[i], k)

\* Pages are read in the order of their names.
InOrder ==
  /\ \A i, j \in 1..Len(todo) : i < j => todo[i] <= todo[j]
  /\ \A i \in 1..Len(rows) : \A j \in 1..Len(todo) : rows[i].key <= todo[j]

Reading ==
  /\ at \in {"pages", "prefixes"} => view.count[at] >= Cardinality(Steady(at))
  /\ at \in {"pages", "hot"} => Len(rows) <= Limit
  /\ at = "pages" => InOrder
  /\ \A k \in Steady(at) : HasRow(k) \/ ToRead(k) \/ CutOff(k)

\* An error that was skipped spoils the summaries.
Spoilt(f) == f = "summaries" /\ slips

SteadyInv ==
  /\ pc = "idle" => kept = {}
  /\ pc = "scan" => \A k \in Steady(at) : Target(at, k) \in scan.steady
  /\ pc = "read" => Spoilt(at) \/ Reading
  /\ pc # "failed" => \A f \in Family : Passed(f) /\ ~Spoilt(f) => Unhidden(f)

\* Nobody disturbs the snapshot.
Quiet == changes = 0 /\ ~resizing /\ ~slips

\* True rows of what is shown, none twice.
TrueRows(f, s) ==
  /\ \A i, j \in 1..Len(s) : i < j => s[i].key # s[j].key
  /\ \A i \in 1..Len(s) : s[i].key \in Shown(f) /\ s[i] = Row(f, s[i].key)

\* What is read of a quiet store: each row is true, none comes twice, and what is
\* shown has its row, is still to be read, or finds the list full.
ReadingQuiet ==
  /\ at \in {"pages", "prefixes"} => view.count[at] = Cardinality(Shown(at))
  /\ at \in {"pages", "hot"} => Len(rows) <= Limit
  /\ at = "pages" => \A i \in 1..Len(todo) : todo[i] \in plain
  /\ \A i, j \in 1..Len(todo) : i < j => todo[i] # todo[j]
  /\ TrueRows(at, rows)
  /\ \A i \in 1..Len(rows) : \A j \in 1..Len(todo) : todo[j] # Target(at, rows[i].key)
  /\ \A k \in Shown(at) :
       \/ \E i \in 1..Len(rows) : rows[i].key = k
       \/ \E i \in 1..Len(todo) : todo[i] = Target(at, k)
       \/ at = "hot" /\ Len(rows) = Limit

QuietInv ==
  Quiet =>
    /\ pc = "scan" => scan.steady = KeysOf(at) /\ scan.ever = KeysOf(at)
    /\ pc = "read" => ReadingQuiet
    /\ pc # "failed" => \A f \in Family : Passed(f) => Exact(f)
    /\ pc \in {"pending", "done"} => view.queue.length = queue.length
    /\ pc = "done" => view.queue.pending = queue.pending

----------------------------------------------------------------------------
(* The lists *)

\* At least one row fits in a list.
LEMMA LimitType == Limit \in Nat /\ 1 <= Limit
BY PageSizeAssumption DEF Limit

\* FirstOf keeps the first rows, all of them if there is room.
LEMMA FirstOfFacts ==
  ASSUME NEW S, NEW s \in Seq(S)
  PROVE  /\ FirstOf(s) \in Seq(S)
         /\ Len(FirstOf(s)) = Least(Len(s), Limit) /\ Len(FirstOf(s)) \in Nat
         /\ Len(FirstOf(s)) <= Limit /\ Len(FirstOf(s)) <= Len(s)
         /\ \A i \in 1..Len(FirstOf(s)) : FirstOf(s)[i] = s[i]
<1>1. PICK n \in Nat : n = Len(s) /\ \A i \in 1..n : s[i] \in S
  BY LenProperties, ElementOfSeq
<1>2. PICK m \in Nat : /\ m = Least(n, Limit) /\ m <= n /\ m <= Limit
                       /\ m = IF n < Limit THEN n ELSE Limit
  BY LimitType DEF Least
<1>3. FirstOf(s) = SubSeq(s, 1, m)
  BY <1>1, <1>2 DEF FirstOf
<1>4. 1 \in Int /\ m \in Int /\ \A i \in 1..m : s[i] \in S
  BY <1>1, <1>2
<1>5. /\ SubSeq(s, 1, m) \in Seq(S)
      /\ Len(SubSeq(s, 1, m)) = IF 1 <= m THEN m - 1 + 1 ELSE 0
      /\ \A i \in 1..(m - 1 + 1) : SubSeq(s, 1, m)[i] = s[1 + i - 1]
  BY <1>4, SubSeqProperties
<1>6. Len(SubSeq(s, 1, m)) = m /\ \A i \in 1..m : SubSeq(s, 1, m)[i] = s[i]
  BY <1>2, <1>5
<1>7. QED
  BY <1>1, <1>2, <1>3, <1>5, <1>6

\* t is the list s in another order, the best rank first.
Ranked(t, s) ==
  /\ t \in Seq(Rows) /\ Len(t) = Len(s)
  /\ \E p : Permutes(p, t, s, Len(s))
  /\ \A k, m \in 1..Len(s) : k < m => t[k].rank >= t[m].rank

\* What a sort in an order that goes by the ranks returns.
LEMMA SortedByOrder ==
  ASSUME NEW s \in Seq(Rows), NEW B, WeakOrder(B, Len(s)),
         \A i, j \in 1..Len(s) : s[i].rank > s[j].rank => <<i, j>> \in B,
         NEW rank, RanksOf(rank, s, B), NEW t, InRanks(t, s, rank)
  PROVE  Ranked(t, s)
<1>1. Len(s) \in Nat /\ \A i \in 1..Len(s) : s[i] \in Rows
  BY LenProperties, ElementOfSeq
<1>2. t \in Seq(Rows) /\ Len(t) = Len(s) /\ \E p : Sorts(p, t, s, B, Len(s))
  BY SortPermutes
<1>3. PICK p : Sorts(p, t, s, B, Len(s))
  BY <1>2
<1>4. Permutes(p, t, s, Len(s))
  BY <1>3 DEF Sorts
<1>5. ASSUME NEW k \in 1..Len(s), NEW m \in 1..Len(s), k < m
      PROVE  t[k].rank >= t[m].rank
  <2>1. p[k] \in 1..Len(s) /\ p[m] \in 1..Len(s) /\ t[k] = s[p[k]] /\ t[m] = s[p[m]]
    BY <1>4 DEF Permutes
  <2>2. <<p[m], p[k]>> \notin B
    BY <1>3, <1>5 DEF Sorts
  <2>3. ~(s[p[m]].rank > s[p[k]].rank)
    BY <2>1, <2>2
  <2>4. s[p[m]].rank \in Nat /\ s[p[k]].rank \in Nat
    BY <1>1, <2>1 DEF Rows
  <2>5. QED
    BY <2>1, <2>3, <2>4
<1>6. QED
  BY <1>2, <1>4, <1>5 DEF Ranked

\* The ranks and the keys of rows are numbers.
LEMMA NumbersOfRows ==
  ASSUME NEW s \in Seq(Rows)
  PROVE  /\ \E r \in [1..Len(s) -> Nat] : \A i \in 1..Len(s) : s[i].rank = r[i]
         /\ \E k \in [1..Len(s) -> Nat] : \A i \in 1..Len(s) : s[i].key = k[i]
<1> DEFINE r == [i \in 1..Len(s) |-> s[i].rank]
           k == [i \in 1..Len(s) |-> s[i].key]
<1>1. \A i \in 1..Len(s) : s[i] \in Rows
  BY ElementOfSeq
<1>2. \A i \in 1..Len(s) : s[i].rank \in Nat /\ s[i].key \in Nat
  BY <1>1 DEF Rows
<1>3. /\ r \in [1..Len(s) -> Nat] /\ k \in [1..Len(s) -> Nat]
      /\ \A i \in 1..Len(s) : s[i].rank = r[i] /\ s[i].key = k[i]
  BY <1>2
<1> HIDE DEF r, k
<1>4. QED
  BY <1>3

\* The rows of summaries, prefixes and hot prefixes, sorted.
LEMMA SortedBest ==
  ASSUME NEW s \in Seq(Rows)
  PROVE  Ranked(Sorted(s, Best), s)
<1> DEFINE n == Len(s)
           B == {p \in (1..n) \X (1..n) : Best(s[p[1]], s[p[2]])}
           rank == [i \in DOMAIN s |-> Cardinality({j \in DOMAIN s :
                      Best(s[j], s[i]) \/ (j <= i /\ ~Best(s[i], s[j]))})]
           t == Sorted(s, Best)
<1>1. n \in Nat /\ DOMAIN s = 1..n
  BY LenProperties
<1>2. PICK r \in [1..n -> Nat] : \A i \in 1..n : s[i].rank = r[i]
  BY NumbersOfRows
<1> HIDE DEF n
<1>3. \A i, j \in 1..n : <<i, j>> \in B <=> Best(s[i], s[j])
  BY Zenon
<1> HIDE DEF B
<1>4. WeakOrder(B, n)
  <2>1. PICK q \in [1..n -> Nat] : \A i \in 1..n : q[i] = 0
    <3>1. [i \in 1..n |-> 0] \in [1..n -> Nat]
      OBVIOUS
    <3>2. QED
      BY <3>1
  <2>2. \A i, j \in 1..n : <<i, j>> \in B <=> r[i] > r[j]
    BY <1>2, <1>3 DEF Best
  <2>3. ASSUME NEW i \in 1..n, NEW j \in 1..n
        PROVE  <<i, j>> \in B <=> r[i] > r[j] \/ (r[i] = r[j] /\ q[i] > q[j])
    <3>1. ~(q[i] > q[j])
      BY <2>1
    <3>2. QED
      BY <2>2, <3>1
  <2>4. QED
    BY <1>1, <2>3, OrderOfPairs
<1>5. RanksOf(rank, s, B)
  <2>1. ASSUME NEW i \in DOMAIN s
        PROVE  {j \in DOMAIN s : Best(s[j], s[i]) \/ (j <= i /\ ~Best(s[i], s[j]))}
                 = {j \in DOMAIN s : <<j, i>> \in B \/ (j <= i /\ <<i, j>> \notin B)}
    BY <1>1, <1>3
  <2>2. QED
    BY <2>1, Zenon DEF RanksOf
<1>6. InRanks(t, s, rank)
  BY DEF InRanks, Sorted
<1> HIDE DEF rank, t
<1>7. \A i, j \in 1..n : s[i].rank > s[j].rank => <<i, j>> \in B
  BY <1>3 DEF Best
<1>8. Ranked(t, s)
  BY <1>4, <1>5, <1>6, <1>7, SortedByOrder DEF n
<1>9. QED
  BY <1>8 DEF t

\* The rows of one namespace, as ZREVRANGE has them.
LEMMA SortedHot ==
  ASSUME NEW s \in Seq(Rows)
  PROVE  Ranked(Sorted(s, Hotter), s)
<1> DEFINE n == Len(s)
           B == {p \in (1..n) \X (1..n) : Hotter(s[p[1]], s[p[2]])}
           rank == [i \in DOMAIN s |-> Cardinality({j \in DOMAIN s :
                      Hotter(s[j], s[i]) \/ (j <= i /\ ~Hotter(s[i], s[j]))})]
           t == Sorted(s, Hotter)
<1>1. n \in Nat /\ DOMAIN s = 1..n
  BY LenProperties
<1>2. /\ \E r \in [1..n -> Nat] : \A i \in 1..n : s[i].rank = r[i]
      /\ \E k \in [1..n -> Nat] : \A i \in 1..n : s[i].key = k[i]
  BY NumbersOfRows
<1>3. PICK r \in [1..n -> Nat], k \in [1..n -> Nat] :
        \A i \in 1..n : s[i].rank = r[i] /\ s[i].key = k[i]
  BY <1>2
<1> HIDE DEF n
<1>4. \A i, j \in 1..n : <<i, j>> \in B <=> Hotter(s[i], s[j])
  BY Zenon
<1> HIDE DEF B
<1>5. WeakOrder(B, n)
  <2>1. \A i, j \in 1..n : <<i, j>> \in B <=> r[i] > r[j] \/ (r[i] = r[j] /\ k[i] > k[j])
    BY <1>4, <1>3 DEF Hotter
  <2>2. QED
    BY <1>1, <2>1, OrderOfPairs
<1>6. RanksOf(rank, s, B)
  <2>1. ASSUME NEW i \in DOMAIN s
        PROVE  {j \in DOMAIN s : Hotter(s[j], s[i]) \/ (j <= i /\ ~Hotter(s[i], s[j]))}
                 = {j \in DOMAIN s : <<j, i>> \in B \/ (j <= i /\ <<i, j>> \notin B)}
    BY <1>1, <1>4
  <2>2. QED
    BY <2>1, Zenon DEF RanksOf
<1>7. InRanks(t, s, rank)
  BY DEF InRanks, Sorted
<1> HIDE DEF rank, t
<1>8. \A i, j \in 1..n : s[i].rank > s[j].rank => <<i, j>> \in B
  BY <1>4 DEF Hotter
<1>9. Ranked(t, s)
  BY <1>5, <1>6, <1>7, <1>8, SortedByOrder DEF n
<1>10. QED
  BY <1>9 DEF t

\* What a scan finds: the set A, the part B of it twice, in the order of the names.
Finds(t, A, B) == t = Sorted(SetToSeq(A) \o SetToSeq(B), <)

\* It is sorted, and has all of A and nothing else.
IsFound(t, A, B) ==
  /\ t \in Seq(Nat) /\ Len(t) \in Nat /\ Len(t) >= Cardinality(A)
  /\ Cardinality(A) \in Nat
  /\ \A x \in A : \E i \in 1..Len(t) : t[i] = x
  /\ \A i \in 1..Len(t) : t[i] \in A
  /\ \A i, j \in 1..Len(t) : i < j => t[i] <= t[j]
  /\ B = {} => /\ Len(t) = Cardinality(A)
               /\ \A i, j \in 1..Len(t) : i < j => t[i] # t[j]

LEMMA Found ==
  ASSUME NEW A, A \subseteq Nat, IsFiniteSet(A), NEW B, B \subseteq A, NEW t, Finds(t, A, B)
  PROVE  IsFound(t, A, B)
<1>1. PICK a : a = SetToSeq(A)
  OBVIOUS
<1>2. PICK b : b = SetToSeq(B)
  OBVIOUS
<1>3. IsFiniteSet(B)
  BY FS_Subset
<1>4. /\ a \in Seq(A) /\ Len(a) = Cardinality(A) /\ Cardinality(A) \in Nat
      /\ \A x \in A : \E i \in 1..Cardinality(A) : a[i] = x
      /\ \A i, j \in 1..Cardinality(A) : i < j => a[i] # a[j]
  BY <1>1, SetToSeqFacts
<1>5. b \in Seq(B) /\ Len(b) = Cardinality(B) /\ Cardinality(B) \in Nat
  BY <1>2, <1>3, SetToSeqFacts
<1>6. PICK s : s = a \o b
  OBVIOUS
<1>7. /\ s \in Seq(A) /\ Len(s) = Cardinality(A) + Cardinality(B) /\ HasAll(s, a)
      /\ B = {} => s = a
  <2>1. b \in Seq(A)
    BY <1>5, SeqMonotonic
  <2>2. B = {} => Cardinality(B) = 0
    BY FS_EmptySet
  <2>3. Len(b) = 0 => b = << >>
    BY <1>5, EmptySeq
  <2>4. a \o << >> = a
    BY <1>4, ConcatEmptySeq
  <2>5. s \in Seq(A) /\ Len(s) = Len(a) + Len(b) /\ HasAll(s, a)
    BY <1>4, <1>6, <2>1, ConcatFacts
  <2>6. QED
    BY <1>4, <1>5, <1>6, <2>2, <2>3, <2>4, <2>5
<1>8. PICK n \in Nat : n = Len(s)
  BY <1>7, LenProperties
<1>9. s \in Seq(Nat)
  BY <1>7, SeqMonotonic
<1>10. t \in Seq(Nat) /\ Len(t) = n
       /\ \E p : /\ Permutes(p, t, s, n)
                 /\ \A k, m \in 1..n : k < m => t[k] <= t[m]
  <2>1. t = Sorted(s, <)
    BY <1>1, <1>2, <1>6 DEF Finds
  <2>2. QED
    BY <1>8, <1>9, <2>1, SortedNumbers
<1>11. PICK p : Permutes(p, t, s, n) /\ \A k, m \in 1..n : k < m => t[k] <= t[m]
  BY <1>10
<1>12. ASSUME NEW x \in A
       PROVE  \E i \in 1..n : t[i] = x
  <2>1. PICK i \in 1..Len(a) : a[i] = x
    BY <1>4
  <2>2. PICK k \in 1..n : s[k] = x
    BY <1>7, <1>8, <2>1 DEF HasAll
  <2>3. PICK m \in 1..n : p[m] = k
    BY <1>11 DEF Permutes
  <2>4. QED
    BY <1>11, <2>2, <2>3 DEF Permutes
<1>13. \A i \in 1..n : t[i] \in A
  <2>1. \A i \in 1..n : s[i] \in A
    BY <1>7, <1>8, ElementOfSeq
  <2>2. QED
    BY <1>11, <2>1 DEF Permutes
<1>14. ASSUME B = {}, NEW i \in 1..n, NEW j \in 1..n, i < j
       PROVE  t[i] # t[j]
  <2>1. /\ p[i] \in 1..n /\ p[j] \in 1..n
        /\ t[i] = s[p[i]] /\ t[j] = s[p[j]] /\ (p[i] = p[j] => i = j)
    BY <1>11 DEF Permutes
  <2>2. \A k, m \in 1..n : k < m => s[k] # s[m]
    BY <1>4, <1>7, <1>8, <1>14
  <2>3. i \in Int /\ j \in Int /\ p[i] \in Int /\ p[j] \in Int /\ p[i] # p[j]
    BY <1>14, <2>1
  <2>4. p[i] < p[j] \/ p[j] < p[i]
    BY <2>3
  <2>5. QED
    BY <2>1, <2>2, <2>4
<1>15. B = {} => n = Cardinality(A)
  BY <1>4, <1>7, <1>8
<1>16. n >= Cardinality(A)
  <2>1. PICK c \in Nat, d \in Nat : c = Cardinality(A) /\ d = Cardinality(B)
    BY <1>4, <1>5
  <2>2. n = c + d
    BY <1>7, <1>8, <2>1
  <2>3. QED
    BY <2>1, <2>2
<1>17. QED
  BY <1>4, <1>10, <1>11, <1>12, <1>13, <1>14, <1>15, <1>16 DEF IsFound

----------------------------------------------------------------------------
(* The keys, and what is shown of them *)

\* The names of keys are numbers, and there are finitely many.
LEMMA NamesType ==
  ASSUME NEW f \in Family
  PROVE  /\ Names(f) \subseteq Nat /\ IsFiniteSet(Names(f))
         /\ Things[f] \subseteq Nat /\ IsFiniteSet(Things[f])
         /\ f # "hot" => Names(f) = Things[f]
<1> DEFINE All == Page \cup Evaluation \cup Prefix \cup Namespace
<1>1. Names(f) \subseteq All /\ Things[f] \subseteq All
  BY DEF Names, Things, Family
<1>2. All \subseteq Nat /\ IsFiniteSet(All)
  BY KeyAssumption
<1> HIDE DEF All
<1>3. QED
  BY <1>1, <1>2, FS_Subset DEF Names

\* The keys of a family are among its names, now and after a step.
LEMMA KeysAreNames ==
  ASSUME NEW f \in Family
  PROVE  /\ StoreTypes => KeysOf(f) \subseteq Names(f)
         /\ StoreTypes' => KeysOf(f)' \subseteq Names(f)
<1>1. CASE f = "hot"
  BY <1>1, KeyAssumption DEF KeysOf, Names
<1>2. CASE f = "pages"
  BY <1>2 DEF KeysOf, Names, Things, Family, StoreTypes
<1>3. CASE f = "summaries"
  BY <1>3 DEF KeysOf, Names, Things, Family
<1>4. CASE f = "prefixes"
  BY <1>4 DEF KeysOf, Names, Things, Family
<1>5. QED
  BY <1>1, <1>2, <1>3, <1>4 DEF Family

\* What is shown is found by a scan, now and after a step.
LEMMA ShownIsFound ==
  ASSUME NEW f \in Family
  PROVE  /\ \A k \in Shown(f) : Target(f, k) \in KeysOf(f)
         /\ \A k \in Shown(f)' : Target(f, k) \in KeysOf(f)'
BY DEF Family, Shown, KeysOf, Target

\* What is shown, and how it ranks.
LEMMA ShownFacts ==
  ASSUME StoreTypes, NEW f \in Family
  PROVE  /\ Shown(f) \subseteq Things[f] /\ IsFiniteSet(Shown(f)) /\ Cardinality(Shown(f)) \in Nat
         /\ \A k \in Shown(f) : Row(f, k) \in Rows /\ Rank(f, k) \in Nat
         /\ f \in {"pages", "prefixes"} => Shown(f) = KeysOf(f)
<1>1. f \in {"pages", "prefixes"} => Shown(f) = KeysOf(f)
  BY DEF Shown
<1>2. Shown(f) \subseteq Things[f]
  <2>1. CASE f = "hot"
    BY <2>1 DEF Shown, Things, Family
  <2>2. CASE f # "hot"
    <3>1. Shown(f) \subseteq KeysOf(f)
      BY <2>2 DEF Shown
    <3>2. QED
      BY <2>2, <3>1, KeysAreNames, NamesType
  <2>3. QED
    BY <2>1, <2>2
<1>3. \A k \in Things[f] : Rank(f, k) \in Nat
  <2>1. CASE f = "pages"
    BY <2>1 DEF Rank
  <2>2. CASE f = "summaries"
    BY <2>2 DEF Rank, Things, Family, StoreTypes
  <2>3. CASE f = "prefixes"
    BY <2>3 DEF Rank, Things, Family, StoreTypes
  <2>4. CASE f = "hot"
    BY <2>4 DEF Rank, Things, Family, StoreTypes
  <2>5. QED
    BY <2>1, <2>2, <2>3, <2>4 DEF Family
<1>4. \A k \in Shown(f) : Row(f, k) \in Rows /\ Rank(f, k) \in Nat
  BY <1>2, <1>3, NamesType DEF Row, Rows
<1>5. IsFiniteSet(Shown(f))
  BY <1>2, NamesType, FS_Subset
<1>6. QED
  BY <1>1, <1>2, <1>4, <1>5, FS_CardinalityType

\* The first of the hot prefixes of namespace n: no others, none twice, the hottest
\* first; one that is not there is no hotter than any that is, and there are as many
\* as the limit allows.
IsTop(top, n) ==
  /\ top \in Seq(Rows) /\ Len(top) \in Nat /\ Len(top) <= Limit
  /\ \A i \in 1..Len(top) :
       /\ top[i].key \in Shown("hot") /\ NamespaceOf[top[i].key] = n
       /\ top[i] = Row("hot", top[i].key)
  /\ \A i, j \in 1..Len(top) : i < j => /\ top[i].key # top[j].key
                                        /\ top[i].rank >= top[j].rank
  /\ \A p \in Shown("hot") : NamespaceOf[p] = n =>
       \/ \E i \in 1..Len(top) : top[i].key = p
       \/ Len(top) = Limit /\ \A i \in 1..Len(top) : top[i].rank >= score[p]

LEMMA TopFacts ==
  ASSUME StoreTypes, NEW n
  PROVE  IsTop(TopOf(n), n)
<1> DEFINE M == {p \in Shown("hot") : NamespaceOf[p] = n}
           a == SetToSeq(M)
           s == [i \in DOMAIN a |-> Row("hot", a[i])]
           t == Sorted(s, Hotter)
           top == FirstOf(t)
<1>1. TopOf(n) = top
  BY DEF TopOf
<1>2. /\ Shown("hot") \subseteq Things["hot"] /\ IsFiniteSet(Shown("hot"))
      /\ \A k \in Shown("hot") : Row("hot", k) \in Rows /\ Rank("hot", k) \in Nat
  BY ShownFacts DEF Family
<1>3. M \subseteq Shown("hot") /\ IsFiniteSet(M)
  BY <1>2, FS_Subset
<1>4. \A p \in Shown("hot") : NamespaceOf[p] = n <=> p \in M
  OBVIOUS
<1> HIDE DEF M
<1>5. PICK m \in Nat :
        /\ a \in Seq(M) /\ Len(a) = m
        /\ \A x \in M : \E i \in 1..m : a[i] = x
        /\ \A i, j \in 1..m : i < j => a[i] # a[j]
  BY <1>3, SetToSeqFacts
<1> HIDE DEF a
<1>6. \A i \in 1..m : a[i] \in M
  BY <1>5, ElementOfSeq
<1>7. DOMAIN a = 1..m
  BY <1>5, LenProperties
<1>8. \A i \in 1..m : s[i] = Row("hot", a[i]) /\ s[i] \in Rows
  BY <1>2, <1>3, <1>6, <1>7
<1>9. s \in Seq(Rows) /\ Len(s) = m
  <2>1. s \in [1..m -> Rows]
    BY <1>7, <1>8
  <2> HIDE DEF s
  <2>2. QED
    BY <2>1, FunctionIsSequence
<1> HIDE DEF s
<1>10. Ranked(t, s)
  BY <1>9, SortedHot
<1> HIDE DEF t
<1>11. PICK p : Permutes(p, t, s, m)
  BY <1>9, <1>10 DEF Ranked
<1>12. /\ t \in Seq(Rows) /\ Len(t) = m
       /\ \A i, j \in 1..m : i < j => t[i].rank >= t[j].rank
  BY <1>9, <1>10 DEF Ranked
<1>13. \A i \in 1..m : p[i] \in 1..m /\ t[i] = Row("hot", a[p[i]]) /\ a[p[i]] \in M
  BY <1>6, <1>8, <1>11 DEF Permutes
<1>14. \A i \in 1..m : t[i].key = a[p[i]] /\ t[i].rank = Rank("hot", a[p[i]])
  <2> TAKE i \in 1..m
  <2>1. PICK x : x = a[p[i]]
    OBVIOUS
  <2>2. t[i] = Row("hot", x)
    BY <1>13, <2>1
  <2>3. QED
    BY <2>1, <2>2 DEF Row
<1>15. ASSUME NEW i \in 1..m, NEW j \in 1..m, i < j
       PROVE  t[i].key # t[j].key
  <2>1. p[i] \in 1..m /\ p[j] \in 1..m /\ p[i] # p[j]
    BY <1>11, <1>15 DEF Permutes
  <2>2. PICK c \in 1..m, d \in 1..m : c = p[i] /\ d = p[j] /\ c # d
    BY <2>1
  <2>3. a[c] # a[d]
    BY <1>5, <2>2
  <2>4. QED
    BY <1>14, <2>2, <2>3
<1>16. PICK l \in Nat :
         /\ l = Len(top) /\ l = Least(m, Limit) /\ l <= Limit /\ l <= m
         /\ top \in Seq(Rows) /\ \A i \in 1..l : top[i] = t[i]
  BY <1>12, FirstOfFacts
<1> HIDE DEF top
<1>17. \A i \in 1..l : i \in 1..m /\ top[i] = t[i]
  BY <1>16
<1>18. ASSUME NEW i \in 1..l
       PROVE  /\ top[i].key \in Shown("hot") /\ NamespaceOf[top[i].key] = n
              /\ top[i] = Row("hot", top[i].key)
  <2>1. top[i] = Row("hot", a[p[i]]) /\ top[i].key = a[p[i]] /\ a[p[i]] \in M
    BY <1>13, <1>14, <1>17
  <2>2. a[p[i]] \in Shown("hot") /\ NamespaceOf[a[p[i]]] = n
    BY <1>3, <1>4, <2>1
  <2>3. QED
    BY <2>1, <2>2
<1>19. \A i, j \in 1..l : i < j => top[i].key # top[j].key /\ top[i].rank >= top[j].rank
  BY <1>12, <1>15, <1>17
<1>20. ASSUME NEW x \in Shown("hot"), NamespaceOf[x] = n
       PROVE  \/ \E i \in 1..l : top[i].key = x
              \/ l = Limit /\ \A i \in 1..l : top[i].rank >= score[x]
  <2>1. PICK c \in 1..m : a[c] = x
    BY <1>4, <1>5, <1>20
  <2>2. PICK d \in 1..m : p[d] = c
    BY <1>11 DEF Permutes
  <2>3. t[d].key = x /\ t[d].rank = score[x]
    BY <1>14, <2>1, <2>2 DEF Rank
  <2>4. CASE d <= l
    BY <1>17, <2>3, <2>4
  <2>5. CASE d > l
    <3>1. l = Limit
      BY <1>16, <2>5, LimitType DEF Least
    <3>2. \A i \in 1..l : top[i].rank >= score[x]
      <4> TAKE i \in 1..l
      <4>1. i \in 1..m /\ i < d
        BY <1>16, <2>5
      <4>2. t[i].rank >= t[d].rank
        BY <1>12, <4>1
      <4>3. QED
        BY <1>17, <2>3, <4>2
    <3>3. QED
      BY <3>1, <3>2
  <2>6. QED
    BY <1>16, <2>4, <2>5
<1>21. IsTop(top, n)
  BY <1>16, <1>18, <1>19, <1>20 DEF IsTop
<1>22. QED
  BY <1>1, <1>21

----------------------------------------------------------------------------
(* The types *)

\* What Redis may hold at first.
LEMMA StoresType ==
  ASSUME NEW s \in Stores, Holds(s)
  PROVE  StoreTypes
BY StoresAssumption DEF Holds, StoreTypes

LEMMA IdleTypes ==
  ASSUME StoreTypes, Idle, resizing \in BOOLEAN
  PROVE  Types
<1>1. << >> \in Seq(Names(at)) /\ << >> \in Seq(Rows) /\ Len(<< >>) = 0
  BY EmptySeq
<1>2. NoView \in Views /\ view = NoView
  BY <1>1 DEF Idle, NoView, Views
<1>3. \A f \in Family : Len(view.list[f]) <= Limit
  BY <1>1, <1>2, LimitType DEF NoView
<1>4. QED
  BY <1>1, <1>2, <1>3 DEF Types, Idle, NoScan, Family

\* The types of the store, whatever is changed.
LEMMA StoreChangesTypes ==
  ASSUME StoreTypes
  PROVE  /\ \A k \in Page \cup Evaluation : PlainChanges(k) => StoreTypes'
         /\ \A k \in Page : SummaryChanges(k) => StoreTypes'
         /\ \A p \in Prefix : PrefixChanges(p) => StoreTypes'
         /\ \A n \in Namespace : HotExpires(n) => StoreTypes'
         /\ QueueChanges => StoreTypes'
<1>1. ASSUME NEW k \in Page \cup Evaluation, PlainChanges(k)
      PROVE  StoreTypes'
  BY <1>1 DEF StoreTypes, PlainChanges
<1>2. ASSUME NEW k \in Page, SummaryChanges(k)
      PROVE  StoreTypes'
  <2>1. /\ NoSummary \in [there : BOOLEAN, usable : BOOLEAN, created : Nat]
        /\ ~NoSummary.usable
    BY DEF NoSummary
  <2>2. PICK new \in [there : BOOLEAN, usable : BOOLEAN, created : Nat] :
          summary' = [summary EXCEPT ![k] = new] /\ (new.usable => new.there)
    <3>1. CASE summary[k].there
      BY <1>2, <2>1, <3>1 DEF SummaryChanges
    <3>2. CASE ~summary[k].there
      <4>1. [there |-> TRUE, usable |-> TRUE, created |-> 3]
              \in [there : BOOLEAN, usable : BOOLEAN, created : Nat]
        OBVIOUS
      <4>2. QED
        BY <1>2, <3>2, <4>1 DEF SummaryChanges
    <3>3. QED
      BY <3>1, <3>2
  <2>3. summary' \in [Page -> [there : BOOLEAN, usable : BOOLEAN, created : Nat]]
    BY <2>2 DEF StoreTypes
  <2>4. \A j \in Page : summary'[j].usable => summary'[j].there
    BY <2>2 DEF StoreTypes
  <2>5. QED
    BY <1>2, <2>3, <2>4 DEF StoreTypes, SummaryChanges
<1>3. ASSUME NEW p \in Prefix, PrefixChanges(p)
      PROVE  StoreTypes'
  BY <1>3 DEF StoreTypes, PrefixChanges
<1>4. ASSUME NEW n \in Namespace, HotExpires(n)
      PROVE  StoreTypes'
  BY <1>4 DEF StoreTypes, HotExpires
<1>5. ASSUME QueueChanges
      PROVE  StoreTypes'
  <2>1. PICK l \in Nat, q \in Nat : queue = [length |-> l, pending |-> q] /\ q <= l
    BY DEF StoreTypes
  <2>2. \/ queue' = [length |-> l + 1, pending |-> q]
        \/ q < l /\ queue' = [length |-> l, pending |-> q + 1]
        \/ q > 0 /\ queue' = [length |-> l, pending |-> q - 1]
    BY <1>5, <2>1 DEF QueueChanges
  <2>3. queue' \in [length : Nat, pending : Nat] /\ queue'.pending <= queue'.length
    BY <2>1, <2>2
  <2>4. QED
    BY <1>5, <2>3 DEF StoreTypes, QueueChanges
<1>6. QED
  BY <1>1, <1>2, <1>3, <1>4, <1>5

\* A change of the store leaves the snapshot its types.
LEMMA ChangedTypes ==
  ASSUME Types, StoreTypes', NEW things, Changed(things)
  PROVE  Types'
<1>1. /\ pc' = pc /\ at' = at /\ todo' = todo /\ rows' = rows /\ view' = view
      /\ resizing' = resizing /\ slips' = slips /\ changes' = changes + 1
  BY DEF Changed
<1>2. at \in Family /\ KeysOf(at)' \subseteq Names(at) /\ Names(at) \subseteq Nat
  BY <1>1, KeysAreNames, NamesType DEF Types
<1>3. /\ scan' \in [steady : SUBSET Nat, ever : SUBSET Nat]
      /\ scan'.steady \subseteq scan'.ever /\ scan'.ever \subseteq Names(at)
  BY <1>2 DEF Changed, Types
<1>4. Names(at)' = Names(at)
  BY <1>1 DEF Names
<1>5. QED
  BY <1>1, <1>3, <1>4 DEF Types

\* So does the start of a scan.
LEMMA ScanFromTypes ==
  ASSUME StoreTypes, NEW f \in Family, ScanFrom(f)
  PROVE  /\ pc' = "scan" /\ at' = f
         /\ scan' \in [steady : SUBSET Nat, ever : SUBSET Nat]
         /\ scan'.steady \subseteq scan'.ever /\ scan'.ever \subseteq Names(f)
<1>1. KeysOf(f) \subseteq Names(f) /\ Names(f) \subseteq Nat
  BY KeysAreNames, NamesType
<1>2. QED
  BY <1>1 DEF ScanFrom

LEMMA BeginTypes ==
  ASSUME Types, Begin
  PROVE  Types'
<1>1. "pages" \in Family /\ StoreTypes /\ ScanFrom("pages")
  BY DEF Family, Types, Begin
<1>2. /\ pc' = "scan" /\ at' = "pages" /\ at' \in Family
      /\ scan' \in [steady : SUBSET Nat, ever : SUBSET Nat]
      /\ scan'.steady \subseteq scan'.ever /\ scan'.ever \subseteq Names("pages")
  BY <1>1, ScanFromTypes
<1>3. StoreTypes' /\ todo' = todo /\ rows' = rows /\ view' = view
      /\ changes' = changes /\ resizing' = resizing /\ slips' = slips
  BY DEF Begin, StoreTypes, Types, store
<1>4. at' = at
  BY <1>2 DEF Types, Begin
<1>5. QED
  BY <1>2, <1>3, <1>4 DEF Types

\* What Scan finds: everything that was there all along, twice if Redis shrinks its
\* table, and nothing that was not there at any time.
LEMMA ScanChoice ==
  ASSUME Types, Scan
  PROVE  \E A, B : /\ A \subseteq Nat /\ IsFiniteSet(A) /\ B \subseteq A
                   /\ Finds(todo', A, B)
                   /\ scan.steady \subseteq A /\ A \subseteq scan.ever /\ A \subseteq Names(at)
                   /\ ~resizing => B = {}
<1>1. PICK some \in SUBSET (scan.ever \ scan.steady) :
        \E twice \in IF resizing THEN SUBSET (scan.steady \cup some) ELSE {{}} :
          todo' = Sorted(SetToSeq(scan.steady \cup some) \o SetToSeq(twice), <)
  BY Zenon DEF Scan
<1>2. PICK twice \in IF resizing THEN SUBSET (scan.steady \cup some) ELSE {{}} :
        Finds(todo', scan.steady \cup some, twice)
  BY <1>1, Zenon DEF Finds
<1>3. twice \subseteq scan.steady \cup some /\ (~resizing => twice = {})
  BY <1>2
<1>4. /\ scan.steady \subseteq scan.ever /\ scan.ever \subseteq Names(at)
      /\ Names(at) \subseteq Nat /\ IsFiniteSet(Names(at))
  BY NamesType DEF Types
<1>5. /\ scan.steady \cup some \subseteq scan.ever
      /\ scan.steady \cup some \subseteq Names(at)
      /\ scan.steady \cup some \subseteq Nat
  BY <1>4
<1>6. IsFiniteSet(scan.steady \cup some)
  BY <1>4, <1>5, FS_Subset
<1>7. QED
  BY <1>2, <1>3, <1>5, <1>6

LEMMA ScanTypes ==
  ASSUME Types, Scan
  PROVE  Types'
<1>1. PICK A, B : /\ A \subseteq Nat /\ IsFiniteSet(A) /\ B \subseteq A
                  /\ Finds(todo', A, B) /\ A \subseteq Names(at)
  BY ScanChoice
<1>2. todo' \in Seq(Nat) /\ Len(todo') \in Nat /\ \A i \in 1..Len(todo') : todo'[i] \in A
  <2>1. IsFound(todo', A, B)
    BY <1>1, Found
  <2>2. QED
    BY <2>1 DEF IsFound
<1>3. todo' \in Seq(A)
  <2>1. todo' \in [1..Len(todo') -> A]
    BY <1>2, LenProperties
  <2>2. QED
    BY <1>2, <2>1, FunctionIsSequence
<1>4. todo' \in Seq(Names(at))
  BY <1>1, <1>3, SeqMonotonic
<1>5. /\ pc' = "read" /\ at' = at /\ scan' = NoScan /\ rows' = << >>
      /\ changes' = changes /\ resizing' = resizing /\ slips' = slips
      /\ view' = [view EXCEPT !.count[at] = Len(todo')]
  BY DEF Scan, history
<1>6. StoreTypes'
  BY DEF Scan, store, StoreTypes, Types
<1>7. view' \in Views /\ view'.list = view.list
  BY <1>2, <1>5 DEF Types, Views
<1>8. << >> \in Seq(Rows)
  BY EmptySeq
<1>9. QED
  BY <1>4, <1>5, <1>6, <1>7, <1>8 DEF Types, NoScan, Names

\* A row less to read.
LEMMA ReadsFacts ==
  ASSUME Types, NEW f, Reads(f)
  PROVE  /\ pc = "read" /\ at = f /\ todo # << >>
         /\ pc' = pc /\ at' = at /\ scan' = scan /\ view' = view
         /\ kept' = kept /\ changes' = changes /\ resizing' = resizing
         /\ Head(todo) = todo[1] /\ todo[1] \in Names(f) /\ 1 \in 1..Len(todo)
         /\ todo' \in Seq(Names(f)) /\ Len(todo) \in Nat /\ Len(todo') = Len(todo) - 1
         /\ \A i \in 1..Len(todo') : i + 1 \in 1..Len(todo) /\ todo'[i] = todo[i + 1]
         /\ \A i \in 1..Len(todo) : i # 1 => \E k \in 1..Len(todo') : todo'[k] = todo[i]
<1>1. todo \in Seq(Names(f)) /\ todo # << >> /\ todo' = Tail(todo)
  BY DEF Types, Reads
<1>2. /\ Len(todo) \in Nat \ {0} /\ Head(todo) = todo[1] /\ todo[1] \in Names(f)
      /\ todo' \in Seq(Names(f)) /\ Len(todo') = Len(todo) - 1
      /\ \A i \in 1..(Len(todo) - 1) : todo'[i] = todo[i + 1]
      /\ \A i \in 1..Len(todo) : i # 1 => \E k \in 1..Len(todo') : todo'[k] = todo[i]
  BY <1>1, TailFacts
<1>3. /\ 1 \in 1..Len(todo)
      /\ \A i \in 1..Len(todo') : i + 1 \in 1..Len(todo) /\ todo'[i] = todo[i + 1]
  <2>1. PICK n \in Nat : n = Len(todo) /\ n >= 1
    BY <1>2
  <2>2. \A i \in 1..(n - 1) : i + 1 \in 1..n /\ i \in 1..(n - 1)
    OBVIOUS
  <2>3. Len(todo') = n - 1
    BY <1>2, <2>1
  <2>4. QED
    BY <1>2, <2>1, <2>2, <2>3
<1>4. QED
  BY <1>1, <1>2, <1>3 DEF Reads

\* A row of a family that is read.
LEMMA ReadTypes ==
  ASSUME Types, NEW f, Reads(f), StoreTypes', rows' \in Seq(Rows), slips' \in BOOLEAN
  PROVE  Types'
<1>1. /\ pc' = pc /\ at' = at /\ scan' = scan /\ view' = view /\ at = f
      /\ changes' = changes /\ resizing' = resizing /\ todo' \in Seq(Names(f))
  BY ReadsFacts
<1>2. QED
  BY <1>1 DEF Types, Names

\* The rows so far and one more.
LEMMA OneMore ==
  ASSUME Types, NEW r \in Rows, rows' = Append(rows, r)
  PROVE  /\ rows' \in Seq(Rows) /\ Len(rows) \in Nat /\ Len(rows') = Len(rows) + 1
         /\ \A i \in 1..Len(rows) : rows'[i] = rows[i]
         /\ rows'[Len(rows) + 1] = r
<1>1. rows \in Seq(Rows)
  BY DEF Types
<1>2. QED
  BY <1>1, AppendProperties, LenProperties

\* SummaryLoaded deletes what is of no use, and nothing else.
LEMMA SummaryLoadedFacts ==
  ASSUME StoreTypes, NEW k \in Page
  PROVE  /\ SummaryLoaded(k) \in [Page -> [there : BOOLEAN, usable : BOOLEAN, created : Nat]]
         /\ \A j \in Page : /\ SummaryLoaded(k)[j].usable = summary[j].usable
                            /\ summary[j].usable => SummaryLoaded(k)[j] = summary[j]
                            /\ SummaryLoaded(k)[j].usable => SummaryLoaded(k)[j].there
<1>1. CASE summary[k].usable
  BY <1>1 DEF SummaryLoaded, StoreTypes
<1>2. CASE ~summary[k].usable
  <2>1. PICK no \in [there : BOOLEAN, usable : BOOLEAN, created : Nat] :
          no = NoSummary /\ no.usable = FALSE
    <3>1. /\ NoSummary \in [there : BOOLEAN, usable : BOOLEAN, created : Nat]
          /\ NoSummary.usable = FALSE
      BY DEF NoSummary
    <3>2. QED
      BY <3>1
  <2>2. SummaryLoaded(k) = [summary EXCEPT ![k] = no]
    BY <1>2, <2>1 DEF SummaryLoaded
  <2>3. \A j \in Page : SummaryLoaded(k)[j] = IF j = k THEN no ELSE summary[j]
    BY <2>2 DEF StoreTypes
  <2>4. SummaryLoaded(k) \in [Page -> [there : BOOLEAN, usable : BOOLEAN, created : Nat]]
    BY <2>2 DEF StoreTypes
  <2>5. summary[k].usable \in BOOLEAN
    BY DEF StoreTypes
  <2>6. QED
    BY <1>2, <2>1, <2>3, <2>4, <2>5 DEF StoreTypes
<1>3. QED
  BY <1>1, <1>2

\* A step that only deletes summaries of no use.
OnlyUselessGo ==
  /\ plain' = plain /\ seen' = seen /\ score' = score /\ queue' = queue
  /\ StoreTypes'
  /\ \A k \in Page : /\ summary'[k].usable = summary[k].usable
                     /\ summary[k].usable => summary'[k] = summary[k]

LEMMA NothingGoes ==
  ASSUME StoreTypes, UNCHANGED store
  PROVE  OnlyUselessGo
BY DEF OnlyUselessGo, store, StoreTypes

LEMMA UselessGoes ==
  ASSUME StoreTypes, plain' = plain, seen' = seen, score' = score, queue' = queue,
         NEW k \in Page, summary' = SummaryLoaded(k)
  PROVE  OnlyUselessGo
<1>1. /\ SummaryLoaded(k) \in [Page -> [there : BOOLEAN, usable : BOOLEAN, created : Nat]]
      /\ \A j \in Page : /\ SummaryLoaded(k)[j].usable = summary[j].usable
                         /\ summary[j].usable => SummaryLoaded(k)[j] = summary[j]
                         /\ SummaryLoaded(k)[j].usable => SummaryLoaded(k)[j].there
  BY SummaryLoadedFacts
<1> HIDE DEF SummaryLoaded
<1>2. QED
  BY <1>1 DEF OnlyUselessGo, StoreTypes

\* The row that a read adds, if it adds one.
LEMMA ReadPageRow ==
  ASSUME Types, ReadPage
  PROVE  /\ Reads("pages") /\ slips' = slips /\ OnlyUselessGo /\ Len(rows) < Limit
         /\ Row("pages", todo[1]) \in Rows
         /\ rows' = IF todo[1] \in plain THEN Append(rows, Row("pages", todo[1])) ELSE rows
<1>1. Reads("pages") /\ slips' = slips /\ Len(rows) < Limit /\ StoreTypes
  BY DEF ReadPage, Types
<1>2. Head(todo) = todo[1] /\ todo[1] \in Names("pages") /\ Names("pages") \subseteq Nat
  BY <1>1, ReadsFacts, NamesType DEF Family
<1>3. rows' = IF todo[1] \in plain THEN Append(rows, Row("pages", todo[1])) ELSE rows
  BY <1>2 DEF ReadPage
<1>4. /\ plain' = plain /\ seen' = seen /\ score' = score /\ queue' = queue
      /\ UNCHANGED summary \/ (todo[1] \in Page /\ summary' = SummaryLoaded(todo[1]))
  BY <1>2 DEF ReadPage
<1>5. OnlyUselessGo
  BY <1>1, <1>4, NothingGoes, UselessGoes DEF store
<1>6. Row("pages", todo[1]) \in Rows
  BY <1>2 DEF Row, Rank, Rows
<1>7. QED
  BY <1>1, <1>3, <1>5, <1>6

LEMMA ReadSummaryRow ==
  ASSUME Types, ReadSummary
  PROVE  /\ Reads("summaries") /\ OnlyUselessGo
         /\ Row("summaries", todo[1]) \in Rows
         /\ \/ /\ rows' = IF summary[todo[1]].usable
                          THEN Append(rows, Row("summaries", todo[1])) ELSE rows
               /\ slips' = slips
            \/ slips' = TRUE /\ rows' = rows
<1>1. Reads("summaries") /\ StoreTypes
  BY DEF ReadSummary, Types
<1>2. Head(todo) = todo[1] /\ todo[1] \in Page
  <2>1. Names("summaries") = Page
    BY DEF Names, Things, Family
  <2>2. QED
    BY <1>1, <2>1, ReadsFacts
<1>3. /\ plain' = plain /\ seen' = seen /\ score' = score /\ queue' = queue
      /\ UNCHANGED summary \/ summary' = SummaryLoaded(todo[1])
  BY <1>2 DEF ReadSummary
<1>4. OnlyUselessGo
  BY <1>1, <1>2, <1>3, NothingGoes, UselessGoes DEF store
<1>5. Row("summaries", todo[1]) \in Rows
  BY <1>1, <1>2, KeyAssumption DEF Row, Rank, Rows, StoreTypes
<1>6. \/ /\ rows' = IF summary[todo[1]].usable
                    THEN Append(rows, Row("summaries", todo[1])) ELSE rows
         /\ slips' = slips
      \/ slips' = TRUE /\ rows' = rows
  BY <1>2 DEF ReadSummary
<1>7. QED
  BY <1>1, <1>4, <1>5, <1>6

LEMMA ReadPrefixRow ==
  ASSUME Types, ReadPrefix
  PROVE  /\ Reads("prefixes") /\ slips' = slips /\ OnlyUselessGo
         /\ Row("prefixes", todo[1]) \in Rows
         /\ rows' = IF seen[todo[1]] > 0 THEN Append(rows, Row("prefixes", todo[1])) ELSE rows
<1>1. Reads("prefixes") /\ StoreTypes /\ slips' = slips /\ UNCHANGED store
  BY DEF ReadPrefix, Types
<1>2. Head(todo) = todo[1] /\ todo[1] \in Prefix
  <2>1. Names("prefixes") = Prefix
    BY DEF Names, Things, Family
  <2>2. QED
    BY <1>1, <2>1, ReadsFacts
<1>3. rows' = IF seen[todo[1]] > 0 THEN Append(rows, Row("prefixes", todo[1])) ELSE rows
  BY <1>2 DEF ReadPrefix
<1>4. Row("prefixes", todo[1]) \in Rows
  BY <1>1, <1>2, KeyAssumption DEF Row, Rank, Rows, StoreTypes
<1>5. QED
  BY <1>1, <1>3, <1>4, NothingGoes

\* The rows that ReadHot adds are of the top of the namespace, and they are all of
\* it that has room if none of the namespace is listed yet.
LEMMA ReadHotRows ==
  ASSUME Types, ReadHot, NEW top, top = TopOf(todo[1])
  PROVE  /\ Reads("hot") /\ slips' = slips /\ OnlyUselessGo /\ IsTop(top, todo[1])
         /\ Len(rows) \in Nat /\ Len(rows) < Limit
         /\ rows' \in Seq(Rows) /\ Len(rows') \in Nat
         /\ Len(rows) <= Len(rows') /\ Len(rows') <= Limit
         /\ \A i \in 1..Len(rows) : rows'[i] = rows[i]
         /\ \A i \in 1..Len(rows') : i > Len(rows) =>
              \E j \in 1..Len(top) : rows'[i] = top[j]
         /\ (\A i \in 1..Len(rows) : NamespaceOf[rows[i].key] # todo[1]) =>
              /\ Len(rows') = Least(Len(rows) + Len(top), Limit)
              /\ \A j \in 1..Len(top) : Len(rows) + j <= Limit => rows'[Len(rows) + j] = top[j]
              /\ \A i \in 1..Len(rows') : i > Len(rows) => rows'[i] = top[i - Len(rows)]
<1>1. Reads("hot") /\ StoreTypes /\ slips' = slips /\ UNCHANGED store /\ Len(rows) < Limit
  BY DEF ReadHot, Types
<1>2. Head(todo) = todo[1] /\ todo[1] \in Namespace
  BY <1>1, ReadsFacts DEF Names
<1>3. rows' = FirstOf(rows \o Pick(top, Unlisted(top)))
  BY <1>2 DEF ReadHot
<1>4. IsTop(top, todo[1])
  BY <1>1, TopFacts
<1>5. rows \in Seq(Rows) /\ top \in Seq(Rows) /\ Len(top) \in Nat
  BY <1>4 DEF Types, IsTop
<1>6. PICK n \in Nat, l \in Nat : n = Len(rows) /\ n < l /\ l = Limit
  BY <1>1, <1>5, LimitType, LenProperties
<1>7. PICK more : more = Pick(top, Unlisted(top))
  OBVIOUS
<1>8. PICK m \in Nat :
        /\ m = Len(more) /\ more \in Seq(Rows)
        /\ \A k \in 1..m : \E i \in 1..Len(top) : more[k] = top[i]
  <2>0. top \in Seq(Rows)
    BY <1>5
  <2> DEFINE I == Unlisted(top)
  <2> HIDE DEF I
  <2>1. /\ Pick(top, I) \in Seq(Rows)
        /\ Len(Pick(top, I)) <= Len(top)
        /\ \A i \in 1..Len(top) : i \in I => \E k \in 1..Len(Pick(top, I)) : Pick(top, I)[k] = top[i]
        /\ \A k \in 1..Len(Pick(top, I)) :
             \E i \in 1..Len(top) : i \in I /\ Pick(top, I)[k] = top[i]
    BY <2>0, PickFacts, SMTT(30)
  <2>2. more \in Seq(Rows) /\ \A k \in 1..Len(more) : \E i \in 1..Len(top) : more[k] = top[i]
    BY <1>7, <2>1 DEF I
  <2>3. QED
    BY <2>2, LenProperties
<1>9. PICK s : s = rows \o more
  OBVIOUS
<1>10. /\ s \in Seq(Rows) /\ Len(s) = n + m
       /\ \A i \in 1..(n + m) : s[i] = IF i <= n THEN rows[i] ELSE more[i - n]
  BY <1>5, <1>6, <1>8, <1>9, ConcatProperties
<1>11. PICK d \in Nat :
         /\ d = Len(rows') /\ rows' \in Seq(Rows) /\ d = Least(n + m, l) /\ d <= l /\ d <= n + m
         /\ \A i \in 1..d : rows'[i] = s[i]
  <2>1. rows' = FirstOf(s) /\ Len(s) = n + m /\ s \in Seq(Rows)
    BY <1>3, <1>7, <1>9, <1>10
  <2>2. /\ FirstOf(s) \in Seq(Rows)
        /\ Len(FirstOf(s)) = Least(Len(s), Limit) /\ Len(FirstOf(s)) \in Nat
        /\ Len(FirstOf(s)) <= Limit /\ Len(FirstOf(s)) <= Len(s)
        /\ \A i \in 1..Len(FirstOf(s)) : FirstOf(s)[i] = s[i]
    BY <2>1, FirstOfFacts
  <2> HIDE DEF FirstOf
  <2>3. QED
    BY <1>6, <2>1, <2>2
<1>12. n <= d /\ \A i \in 1..d : i \in 1..(n + m)
  BY <1>6, <1>11 DEF Least
<1>13. /\ \A i \in 1..n : rows'[i] = rows[i]
       /\ \A i \in 1..d : i > n => i - n \in 1..m /\ rows'[i] = more[i - n]
  <2>1. ASSUME NEW i \in 1..n PROVE rows'[i] = rows[i]
    BY <1>10, <1>11, <1>12
  <2>2. ASSUME NEW i \in 1..d, i > n PROVE i - n \in 1..m /\ rows'[i] = more[i - n]
    <3>1. i \in 1..(n + m) /\ ~(i <= n) /\ i - n \in 1..m
      BY <1>11, <2>2
    <3>2. QED
      BY <1>10, <1>11, <3>1
  <2>3. QED
    BY <2>1, <2>2
<1>14. \A i \in 1..d : i > n => \E j \in 1..Len(top) : rows'[i] = top[j]
  BY <1>8, <1>13
<1>15. ASSUME \A i \in 1..n : NamespaceOf[rows[i].key] # todo[1]
       PROVE  /\ d = Least(n + Len(top), l)
              /\ \A j \in 1..Len(top) : n + j <= l => rows'[n + j] = top[j]
              /\ \A i \in 1..d : i > n => rows'[i] = top[i - n]
  <2>1. \A j \in 1..Len(top) : NamespaceOf[top[j].key] = todo[1]
    BY <1>4 DEF IsTop
  <2>2. DOMAIN rows = 1..n /\ DOMAIN top = 1..Len(top)
    BY <1>5, <1>6, LenProperties
  <2>3. \A j \in 1..Len(top) : j \in Unlisted(top)
    BY <1>15, <2>1, <2>2 DEF Unlisted
  <2>4. more = top
    BY <1>5, <1>7, <2>3, PickAll
  <2>5. m = Len(top)
    BY <1>8, <2>4
  <2>6. ASSUME NEW j \in 1..m, n + j <= l
        PROVE  rows'[n + j] = top[j]
    <3>1. n + j \in 1..d /\ n + j > n /\ (n + j) - n = j
      BY <1>11, <2>6 DEF Least
    <3>2. QED
      BY <1>13, <2>4, <3>1
  <2>7. QED
    BY <1>11, <1>13, <2>4, <2>5, <2>6
<1>16. QED
  BY <1>1, <1>4, <1>6, <1>11, <1>12, <1>13, <1>14, <1>15, NothingGoes

\* A row more, if any.
LEMMA OneMoreType ==
  ASSUME Types, NEW r \in Rows, NEW P, rows' = IF P THEN Append(rows, r) ELSE rows
  PROVE  rows' \in Seq(Rows)
<1>1. CASE P
  BY <1>1, OneMore
<1>2. CASE ~P
  BY <1>2 DEF Types
<1>3. QED
  BY <1>1, <1>2

LEMMA AnyReadTypes ==
  ASSUME Types, ReadPage \/ ReadSummary \/ ReadPrefix \/ ReadHot
  PROVE  Types'
<1>1. slips \in BOOLEAN /\ rows \in Seq(Rows)
  BY DEF Types
<1>2. CASE ReadPage
  <2>1. Reads("pages") /\ slips' = slips /\ StoreTypes' /\ rows' \in Seq(Rows)
    BY <1>2, ReadPageRow, OneMoreType DEF OnlyUselessGo
  <2>2. QED
    BY <1>1, <2>1, ReadTypes
<1>3. CASE ReadSummary
  <2>1. Reads("summaries") /\ slips' \in BOOLEAN /\ StoreTypes' /\ rows' \in Seq(Rows)
    BY <1>1, <1>3, ReadSummaryRow, OneMoreType DEF OnlyUselessGo
  <2>2. QED
    BY <2>1, ReadTypes
<1>4. CASE ReadPrefix
  <2>1. Reads("prefixes") /\ slips' = slips /\ StoreTypes' /\ rows' \in Seq(Rows)
    BY <1>4, ReadPrefixRow, OneMoreType DEF OnlyUselessGo
  <2>2. QED
    BY <1>1, <2>1, ReadTypes
<1>5. CASE ReadHot
  <2>1. Reads("hot") /\ slips' = slips /\ StoreTypes' /\ rows' \in Seq(Rows)
    BY <1>5, ReadHotRows DEF OnlyUselessGo
  <2>2. QED
    BY <1>1, <2>1, ReadTypes
<1>6. QED
  BY <1>2, <1>3, <1>4, <1>5

\* The next family to scan.
LEMMA NextFamilyFacts ==
  ASSUME NEW f \in Family, f # "hot"
  PROVE  /\ NextFamily[f] \in Family /\ Position[NextFamily[f]] = Position[f] + 1
         /\ NextFamily[f] # "pages"
<1>1. CASE f = "pages"
  BY <1>1 DEF NextFamily, Family, Position
<1>2. CASE f = "summaries"
  BY <1>2 DEF NextFamily, Family, Position
<1>3. CASE f = "prefixes"
  BY <1>3 DEF NextFamily, Family, Position
<1>4. QED
  BY <1>1, <1>2, <1>3 DEF Family

\* What Listed makes of the rows.
InOrderOfRank == IF at = "pages" THEN rows ELSE Sorted(rows, Best)
LEMMA ListedParts ==
  ASSUME Types, Listed
  PROVE  /\ pc = "read" /\ (todo = << >> \/ Full)
         /\ kept' = kept /\ changes' = changes /\ resizing' = resizing /\ slips' = slips
         /\ UNCHANGED store /\ todo' = << >> /\ rows' = << >>
         /\ InOrderOfRank \in Seq(Rows)
         /\ FirstOf(InOrderOfRank) \in Seq(Rows) /\ Len(FirstOf(InOrderOfRank)) <= Limit
         /\ view' \in Views /\ view'.queue = view.queue
         /\ view'.list[at] = FirstOf(InOrderOfRank)
         /\ view'.count[at] = IF at = "summaries" THEN Len(rows) ELSE view.count[at]
         /\ \A f \in Family \ {at} : /\ view'.list[f] = view.list[f]
                                     /\ view'.count[f] = view.count[f]
         /\ IF at = "hot" THEN pc' = "info" /\ at' = at /\ scan' = scan
                          ELSE ScanFrom(NextFamily[at])
<1>1. rows \in Seq(Rows) /\ at \in Family /\ view \in Views
  BY DEF Types
<1>2. InOrderOfRank \in Seq(Rows)
  BY <1>1, SortedBest DEF InOrderOfRank, Ranked
<1>3. FirstOf(InOrderOfRank) \in Seq(Rows) /\ Len(FirstOf(InOrderOfRank)) <= Limit
  BY <1>2, FirstOfFacts
<1>4. PICK l \in Seq(Rows) : l = FirstOf(InOrderOfRank)
  BY <1>3
<1>5. PICK c \in Nat : c = IF at = "summaries" THEN Len(rows) ELSE view.count[at]
  BY <1>1, LenProperties DEF Views
<1>6. view' = [view EXCEPT !.list[at] = l, !.count[at] = c]
  BY <1>4, <1>5 DEF Listed, InOrderOfRank
<1>7. /\ view' \in Views /\ view'.queue = view.queue
      /\ view'.list[at] = l /\ view'.count[at] = c
      /\ \A f \in Family \ {at} : /\ view'.list[f] = view.list[f]
                                  /\ view'.count[f] = view.count[f]
  BY <1>1, <1>6 DEF Views
<1>8. /\ pc = "read" /\ (todo = << >> \/ Full)
      /\ kept' = kept /\ changes' = changes /\ resizing' = resizing /\ slips' = slips
      /\ UNCHANGED store /\ todo' = << >> /\ rows' = << >>
      /\ IF at = "hot" THEN pc' = "info" /\ at' = at /\ scan' = scan
                       ELSE ScanFrom(NextFamily[at])
  BY DEF Listed, history
<1>9. QED
  BY <1>2, <1>3, <1>4, <1>5, <1>7, <1>8

LEMMA ListedTypes ==
  ASSUME Types, Listed
  PROVE  Types'
<1>1. at \in Family /\ StoreTypes
  BY DEF Types
<1>2. /\ << >> \in Seq(Rows) /\ \A f : << >> \in Seq(Names(f))
  BY EmptySeq
<1>3. OnlyUselessGo
  BY <1>1, ListedParts, NothingGoes
<1>4. \A f \in Family : Len(view'.list[f]) <= Limit
  BY ListedParts DEF Types
<1>5. /\ changes' = changes /\ resizing' = resizing /\ slips' = slips
      /\ todo' = << >> /\ rows' = << >> /\ view' \in Views
  BY ListedParts
<1>6. CASE at = "hot"
  <2>1. pc' = "info" /\ at' = at /\ scan' = scan
    BY <1>6, ListedParts
  <2>2. QED
    BY <1>2, <1>3, <1>4, <1>5, <1>6, <2>1 DEF Types, OnlyUselessGo, Names
<1>7. CASE at # "hot"
  <2>1. NextFamily[at] \in Family /\ ScanFrom(NextFamily[at])
    BY <1>1, <1>7, ListedParts, NextFamilyFacts
  <2>2. /\ pc' = "scan" /\ at' \in Family
        /\ scan' \in [steady : SUBSET Nat, ever : SUBSET Nat]
        /\ scan'.steady \subseteq scan'.ever /\ scan'.ever \subseteq Names(at')
    BY <1>1, <2>1, ScanFromTypes
  <2>3. QED
    BY <1>2, <1>3, <1>4, <1>5, <2>2 DEF Types, OnlyUselessGo, Names
<1>8. QED
  BY <1>6, <1>7

\* The two commands about the queue.
LEMMA QueueReads ==
  ASSUME Types, Info \/ Pending
  PROVE  Types' /\ view'.list = view.list /\ view'.count = view.count
<1>1. view \in Views /\ StoreTypes
  BY DEF Types
<1>2. PICK q \in [length : Nat, pending : Nat] :
        view' = [view EXCEPT !.queue = q]
  <2>1. CASE Info
    BY <1>1, <2>1 DEF Info, Views, StoreTypes
  <2>2. CASE Pending
    BY <1>1, <2>2 DEF Pending, Views, StoreTypes
  <2>3. QED
    BY <2>1, <2>2
<1>3. view' \in Views /\ view'.list = view.list /\ view'.count = view.count
  BY <1>1, <1>2 DEF Views
<1>4. OnlyUselessGo /\ UNCHANGED <<at, scan, todo, rows, history>>
      /\ pc \in {"info", "pending"} /\ pc' \in {"pending", "done"}
  BY <1>1, NothingGoes DEF Info, Pending
<1>5. Types'
  BY <1>3, <1>4 DEF Types, OnlyUselessGo, history, Names
<1>6. QED
  BY <1>3, <1>5

LEMMA FailsTypes ==
  ASSUME Types, SnapshotFails
  PROVE  Types'
<1>1. << >> \in Seq(Rows) /\ (\A f : << >> \in Seq(Names(f))) /\ Len(<< >>) = 0
  BY EmptySeq
<1>2. OnlyUselessGo
  BY NothingGoes DEF SnapshotFails, Types
<1>3. NoView \in Views /\ \A f \in Family : NoView.list[f] = << >>
  BY <1>1 DEF NoView, Views
<1>4. QED
  BY <1>1, <1>2, <1>3, LimitType
     DEF Types, OnlyUselessGo, SnapshotFails, history, NoScan, Names

\* Every step keeps the types.
LEMMA TypesAreKept ==
  ASSUME Types, [SnapNext]_snapVars
  PROVE  Types'
<1>0. StoreTypes
  BY DEF Types
<1>1. ASSUME NEW k \in Page \cup Evaluation, PlainChanges(k)
      PROVE  Types'
  <2>1. Changed({<<"pages", k>>})
    BY <1>1 DEF PlainChanges
  <2>2. QED
    BY <1>0, <1>1, <2>1, StoreChangesTypes, ChangedTypes
<1>2. ASSUME NEW k \in Page, SummaryChanges(k)
      PROVE  Types'
  <2>1. Changed({<<"summaries", k>>})
    BY <1>2 DEF SummaryChanges
  <2>2. QED
    BY <1>0, <1>2, <2>1, StoreChangesTypes, ChangedTypes
<1>3. ASSUME NEW p \in Prefix, PrefixChanges(p)
      PROVE  Types'
  <2>1. Changed({<<"prefixes", p>>, <<"hot", p>>})
    BY <1>3 DEF PrefixChanges
  <2>2. QED
    BY <1>0, <1>3, <2>1, StoreChangesTypes, ChangedTypes
<1>4. ASSUME NEW n \in Namespace, HotExpires(n)
      PROVE  Types'
  <2>1. Changed({<<"hot", p>> : p \in {q \in Prefix : NamespaceOf[q] = n}})
    BY <1>4 DEF HotExpires
  <2>2. QED
    BY <1>0, <1>4, <2>1, StoreChangesTypes, ChangedTypes
<1>5. ASSUME QueueChanges
      PROVE  Types'
  <2>1. Changed({<<"queue", 0>>})
    BY <1>5 DEF QueueChanges
  <2>2. QED
    BY <1>0, <1>5, <2>1, StoreChangesTypes, ChangedTypes
<1>6. CASE UNCHANGED snapVars
  BY <1>6 DEF snapVars, store, history, Types, StoreTypes, Names
<1>7. QED
  BY <1>1, <1>2, <1>3, <1>4, <1>5, <1>6, BeginTypes, ScanTypes, AnyReadTypes, ListedTypes,
     QueueReads, FailsTypes DEF SnapNext

----------------------------------------------------------------------------
(* What is steady *)

\* A step after which the steady things were steady before, and rank as they did.
Settled ==
  \A f \in Family : /\ Steady(f)' \subseteq Steady(f)
                    /\ \A k \in Steady(f)' : Rank(f, k)' = Rank(f, k)

\* A step after which the same is shown, in the same rank.
SameShown ==
  \A f \in Family : /\ Shown(f)' = Shown(f)
                    /\ \A k \in Shown(f) : Rank(f, k)' = Rank(f, k)

\* Useless summaries are not shown.
LEMMA LoadSettles ==
  ASSUME StoreTypes, OnlyUselessGo
  PROVE  SameShown /\ (kept' = kept => Settled)
<1>1. ASSUME NEW f \in Family
      PROVE  Shown(f)' = Shown(f) /\ \A k \in Shown(f) : Rank(f, k)' = Rank(f, k)
  <2>1. CASE f = "summaries"
    <3>1. /\ Shown(f) = {k \in Page : summary[k].usable}
          /\ Shown(f)' = {k \in Page : summary'[k].usable}
      BY <2>1 DEF Shown, KeysOf, StoreTypes, OnlyUselessGo
    <3>2. QED
      BY <2>1, <3>1 DEF OnlyUselessGo, Rank
  <2>2. CASE f = "pages"
    BY <2>2 DEF OnlyUselessGo, Shown, KeysOf, Rank
  <2>3. CASE f = "prefixes"
    BY <2>3 DEF OnlyUselessGo, Shown, KeysOf, Rank
  <2>4. CASE f = "hot"
    BY <2>4 DEF OnlyUselessGo, Shown, Rank
  <2>5. QED
    BY <2>1, <2>2, <2>3, <2>4 DEF Family
<1>2. kept' = kept => Settled
  BY <1>1 DEF Settled, Steady
<1>3. QED
  BY <1>1, <1>2 DEF SameShown

\* What is steady is shown.
LEMMA SteadyIsShown ==
  ASSUME StoreTypes, NEW f \in Family
  PROVE  /\ Steady(f) \subseteq Shown(f) /\ Steady(f) \subseteq Things[f]
         /\ IsFiniteSet(Steady(f)) /\ Cardinality(Steady(f)) \in Nat
<1>1. Steady(f) \subseteq Shown(f) /\ Steady(f) \subseteq Things[f]
  BY ShownFacts DEF Steady
<1>2. IsFiniteSet(Steady(f))
  BY <1>1, ShownFacts, FS_Subset
<1>3. QED
  BY <1>1, <1>2, FS_CardinalityType

\* Whatever changes is not steady any more.
LEMMA ChangeSettles ==
  ASSUME StoreTypes
  PROVE  /\ \A k \in Page \cup Evaluation : PlainChanges(k) => Settled
         /\ \A k \in Page : SummaryChanges(k) => Settled
         /\ \A p \in Prefix : PrefixChanges(p) => Settled
         /\ \A n \in Namespace : HotExpires(n) => Settled
         /\ QueueChanges => Settled
<1>1. ASSUME NEW k \in Page \cup Evaluation, PlainChanges(k)
      PROVE  Settled
  <2>1. /\ \A j : j # k => (j \in plain' <=> j \in plain)
        /\ summary' = summary /\ seen' = seen /\ score' = score
        /\ kept' = kept \ {<<"pages", k>>}
    BY <1>1 DEF PlainChanges, Changed
  <2>2. ASSUME NEW f \in Family
        PROVE  Steady(f)' \subseteq Steady(f) /\ \A j \in Steady(f)' : Rank(f, j)' = Rank(f, j)
    <3>1. CASE f = "pages"
      BY <2>1, <3>1 DEF Steady, Shown, KeysOf, Rank
    <3>2. CASE f = "summaries"
      BY <2>1, <3>2 DEF Steady, Shown, KeysOf, Rank
    <3>3. CASE f = "prefixes"
      BY <2>1, <3>3 DEF Steady, Shown, KeysOf, Rank
    <3>4. CASE f = "hot"
      BY <2>1, <3>4 DEF Steady, Shown, Rank
    <3>5. QED
      BY <3>1, <3>2, <3>3, <3>4 DEF Family
  <2>3. QED
    BY <2>2 DEF Settled
<1>2. ASSUME NEW k \in Page, SummaryChanges(k)
      PROVE  Settled
  <2>1. /\ \A j \in Page : j # k => summary'[j] = summary[j]
        /\ plain' = plain /\ seen' = seen /\ score' = score
        /\ kept' = kept \ {<<"summaries", k>>}
    BY <1>2 DEF SummaryChanges, Changed, StoreTypes
  <2>2. ASSUME NEW f \in Family
        PROVE  Steady(f)' \subseteq Steady(f) /\ \A j \in Steady(f)' : Rank(f, j)' = Rank(f, j)
    <3>1. CASE f = "pages"
      BY <2>1, <3>1 DEF Steady, Shown, KeysOf, Rank
    <3>2. CASE f = "summaries"
      BY <2>1, <3>2 DEF Steady, Shown, KeysOf, Rank
    <3>3. CASE f = "prefixes"
      BY <2>1, <3>3 DEF Steady, Shown, KeysOf, Rank
    <3>4. CASE f = "hot"
      BY <2>1, <3>4 DEF Steady, Shown, Rank
    <3>5. QED
      BY <3>1, <3>2, <3>3, <3>4 DEF Family
  <2>3. QED
    BY <2>2 DEF Settled
<1>3. ASSUME NEW gone \in SUBSET Prefix, plain' = plain, summary' = summary,
             \A j \in Prefix \ gone : seen'[j] = seen[j] /\ score'[j] = score[j],
             \A j \in gone : <<"hot", j>> \notin kept',
             \A j \in gone : <<"prefixes", j>> \in kept' => seen'[j] = seen[j],
             kept' \subseteq kept
      PROVE  Settled
  <2>1. ASSUME NEW f \in Family
        PROVE  Steady(f)' \subseteq Steady(f) /\ \A j \in Steady(f)' : Rank(f, j)' = Rank(f, j)
    <3>1. CASE f = "pages"
      BY <1>3, <3>1 DEF Steady, Shown, KeysOf, Rank
    <3>2. CASE f = "summaries"
      BY <1>3, <3>2 DEF Steady, Shown, KeysOf, Rank
    <3>3. CASE f = "prefixes"
      BY <1>3, <3>3 DEF Steady, Shown, KeysOf, Rank
    <3>4. CASE f = "hot"
      BY <1>3, <3>4 DEF Steady, Shown, Rank
    <3>5. QED
      BY <3>1, <3>2, <3>3, <3>4 DEF Family
  <2>2. QED
    BY <2>1 DEF Settled
<1>4. ASSUME NEW p \in Prefix, PrefixChanges(p)
      PROVE  Settled
  <2>1. /\ \A j \in Prefix \ {p} : seen'[j] = seen[j] /\ score'[j] = score[j]
        /\ plain' = plain /\ summary' = summary
        /\ kept' = kept \ {<<"prefixes", p>>, <<"hot", p>>}
    BY <1>4 DEF PrefixChanges, Changed, StoreTypes
  <2>2. /\ \A j \in {p} : <<"hot", j>> \notin kept' /\ <<"prefixes", j>> \notin kept'
        /\ kept' \subseteq kept
    BY <2>1
  <2>3. PICK gone \in SUBSET Prefix : gone = {p}
    OBVIOUS
  <2>4. QED
    BY <1>3, <2>1, <2>2, <2>3
<1>5. ASSUME NEW n \in Namespace, HotExpires(n)
      PROVE  Settled
  <2> DEFINE gone == {q \in Prefix : NamespaceOf[q] = n}
  <2>1. /\ \A j \in Prefix \ gone : score'[j] = score[j]
        /\ plain' = plain /\ summary' = summary /\ seen' = seen
        /\ kept' = kept \ {<<"hot", q>> : q \in gone}
    BY <1>5 DEF HotExpires, Changed, StoreTypes
  <2>2. gone \in SUBSET Prefix
    OBVIOUS
  <2> HIDE DEF gone
  <2>3. (\A j \in gone : <<"hot", j>> \notin kept') /\ kept' \subseteq kept
    BY <2>1
  <2>4. QED
    BY <1>3, <2>1, <2>2, <2>3
<1>6. ASSUME QueueChanges
      PROVE  Settled
  <2>1. {} \in SUBSET Prefix /\ plain' = plain /\ summary' = summary /\ seen' = seen
        /\ score' = score /\ kept' \subseteq kept
    BY <1>6 DEF QueueChanges, Changed
  <2>2. QED
    BY <1>3, <2>1
<1>7. QED
  BY <1>1, <1>2, <1>4, <1>5, <1>6

\* What a complete list does not hide, it does not hide after such a step.
LEMMA UnhiddenStays ==
  ASSUME StoreTypes, Settled, NEW f \in Family, Unhidden(f), view.count[f] \in Nat,
         view'.list[f] = view.list[f], view'.count[f] = view.count[f]
  PROVE  Unhidden(f)'
<1>1. /\ Steady(f)' \subseteq Steady(f)
      /\ \A k \in Steady(f)' : Rank(f, k)' = Rank(f, k)
  BY DEF Settled
<1>2. f # "hot" => view'.count[f] >= Cardinality(Steady(f)')
  <2>1. IsFiniteSet(Steady(f)) /\ Cardinality(Steady(f)) \in Nat
    BY SteadyIsShown
  <2>2. Cardinality(Steady(f)') <= Cardinality(Steady(f)) /\ Cardinality(Steady(f)') \in Nat
    BY <1>1, <2>1, FS_Subset, FS_CardinalityType
  <2>3. QED
    BY <2>1, <2>2 DEF Unhidden
<1>3. Listing(f)' = Listing(f)
  BY DEF Listing
<1>4. ASSUME NEW k \in Steady(f)'
      PROVE  Has(f, k)' \/ (Len(Listing(f)') = Limit
               /\ \A i \in (DOMAIN Listing(f))' : Precedes(f, Listing(f)[i], k)')
  <2>1. Has(f, k) => Has(f, k)'
    BY <1>3 DEF Has
  <2>2. \A r : Precedes(f, r, k) => Precedes(f, r, k)'
    <3>1. CASE f = "hot"
      BY <1>1, <1>4, <3>1 DEF Precedes, Rank
    <3>2. CASE f # "hot"
      BY <1>1, <1>4, <3>2 DEF Precedes
    <3>3. QED
      BY <3>1, <3>2
  <2>3. QED
    BY <1>1, <1>3, <1>4, <2>1, <2>2 DEF Unhidden
<1>5. QED
  BY <1>2, <1>4 DEF Unhidden

----------------------------------------------------------------------------
(* Nothing steady is hidden *)

\* The lists that are complete stay so.
LEMMA PassedStay ==
  ASSUME Types, SteadyInv, Settled, pc # "failed", slips => slips',
         NEW f \in Family, Passed(f), ~Spoilt(f)',
         view'.list[f] = view.list[f], view'.count[f] = view.count[f]
  PROVE  Unhidden(f)'
<1>1. Unhidden(f)
  BY DEF SteadyInv, Spoilt
<1>2. StoreTypes /\ view.count[f] \in Nat
  BY DEF Types, Views
<1>3. QED
  BY <1>1, <1>2, UnhiddenStays

\* Fewer things are steady.
LEMMA FewerSteady ==
  ASSUME StoreTypes, Settled, NEW f \in Family
  PROVE  /\ Cardinality(Steady(f)') \in Nat
         /\ Cardinality(Steady(f)') <= Cardinality(Steady(f)) /\ Cardinality(Steady(f)) \in Nat
<1>1. IsFiniteSet(Steady(f)) /\ Cardinality(Steady(f)) \in Nat
  BY SteadyIsShown
<1>2. Steady(f)' \subseteq Steady(f)
  BY DEF Settled
<1>3. QED
  BY <1>1, <1>2, FS_Subset, FS_CardinalityType

\* A change of the store.
LEMMA ChangeKeeps ==
  ASSUME Types, SteadyInv, NEW things, Changed(things), Settled
  PROVE  SteadyInv'
<1>1. /\ pc' = pc /\ at' = at /\ todo' = todo /\ rows' = rows /\ view' = view
      /\ slips' = slips /\ pc \notin {"idle", "done", "failed"}
  BY DEF Changed
<1>2. PICK f \in Family : f = at /\ f = at' /\ view.count[f] \in Nat
  BY <1>1 DEF Types, Views
<1>3. /\ Steady(f)' \subseteq Steady(f)
      /\ \A k \in Steady(f)' : Rank(f, k)' = Rank(f, k)
  BY DEF Settled
<1>4. ASSUME pc = "scan", NEW k \in Steady(f)'
      PROVE  Target(f, k) \in scan'.steady
  <2>1. Target(f, k) \in scan.steady
    BY <1>2, <1>3, <1>4 DEF SteadyInv
  <2>2. Target(f, k) \in KeysOf(f)'
    BY <1>4, ShownIsFound DEF Steady
  <2>3. scan'.steady = scan.steady \cap KeysOf(f)'
    BY <1>2, <1>4 DEF Changed
  <2>4. QED
    BY <2>1, <2>2, <2>3
<1>5. ASSUME pc = "read", ~Spoilt(f)
      PROVE  Reading'
  <2>1. Reading
    BY <1>2, <1>5 DEF SteadyInv
  <2>2. f \in {"pages", "prefixes"} => view.count[f] >= Cardinality(Steady(f)')
    <3>1. /\ Cardinality(Steady(f)') \in Nat
          /\ Cardinality(Steady(f)') <= Cardinality(Steady(f)) /\ Cardinality(Steady(f)) \in Nat
      BY FewerSteady DEF Types
    <3>2. QED
      BY <1>2, <2>1, <3>1 DEF Reading
  <2>3. f \in {"pages", "hot"} => Len(rows') <= Limit
    BY <1>1, <1>2, <2>1 DEF Reading
  <2>4. f = "pages" => InOrder'
    BY <1>1, <1>2, <2>1 DEF Reading, InOrder
  <2>5. ASSUME NEW k \in Steady(f)'
        PROVE  HasRow(k)' \/ ToRead(k)' \/ CutOff(k)'
    <3>1. HasRow(k) \/ ToRead(k) \/ CutOff(k)
      BY <1>2, <1>3, <2>1, <2>5 DEF Reading
    <3>2. HasRow(k) => HasRow(k)'
      BY <1>1, <1>2, <1>3, <2>5 DEF HasRow
    <3>3. ToRead(k) => ToRead(k)'
      BY <1>1 DEF ToRead, Target
    <3>4. CutOff(k) => CutOff(k)'
      BY <1>1, <1>2, <1>3, <2>5 DEF CutOff, Precedes, Rank
    <3>5. QED
      BY <3>1, <3>2, <3>3, <3>4
  <2>6. QED
    BY <1>1, <1>2, <2>2, <2>3, <2>4, <2>5 DEF Reading
<1>6. ASSUME NEW g \in Family, Passed(g)', ~Spoilt(g)'
      PROVE  Unhidden(g)'
  <2>1. Passed(g)
    BY <1>1, <1>6 DEF Passed
  <2>2. QED
    BY <1>1, <1>6, <2>1, PassedStay
<1>7. pc' = "scan" => \A k \in Steady(at)' : Target(at, k)' \in scan'.steady
  BY <1>1, <1>2, <1>4 DEF Target
<1>8. Spoilt(f) => Spoilt(at)'
  BY <1>1, <1>2 DEF Spoilt
<1>9. QED
  BY <1>1, <1>2, <1>5, <1>6, <1>7, <1>8 DEF SteadyInv

\* A scan that is over.
LEMMA ScanKeeps ==
  ASSUME Types, SteadyInv, Scan
  PROVE  SteadyInv'
<1>1. /\ pc = "scan" /\ pc' = "read" /\ at' = at /\ rows' = << >>
      /\ kept' = kept /\ slips' = slips /\ UNCHANGED store
      /\ view' = [view EXCEPT !.count[at] = Len(todo')]
  BY DEF Scan, history
<1>2. PICK f \in Family : f = at /\ f = at' /\ StoreTypes /\ view \in Views
  BY <1>1 DEF Types
<1>3. PICK A, B : /\ A \subseteq Nat /\ IsFiniteSet(A) /\ B \subseteq A
                  /\ Finds(todo', A, B) /\ scan.steady \subseteq A
  BY ScanChoice
<1>4. /\ todo' \in Seq(Nat) /\ Len(todo') \in Nat /\ Len(todo') >= Cardinality(A)
      /\ Cardinality(A) \in Nat
      /\ \A x \in A : \E i \in 1..Len(todo') : todo'[i] = x
      /\ \A i, j \in 1..Len(todo') : i < j => todo'[i] <= todo'[j]
  <2>1. IsFound(todo', A, B)
    BY <1>3, Found
  <2>2. QED
    BY <2>1 DEF IsFound
<1>5. /\ view'.list = view.list /\ view'.count[f] = Len(todo')
      /\ \A g \in Family \ {f} : view'.count[g] = view.count[g]
  BY <1>1, <1>2, <1>4 DEF Views
<1>6. OnlyUselessGo /\ Settled
  BY <1>1, <1>2, NothingGoes, LoadSettles
<1>7. /\ Steady(f)' \subseteq Steady(f) /\ Cardinality(Steady(f)') \in Nat
      /\ Cardinality(Steady(f)') <= Cardinality(Steady(f)) /\ Cardinality(Steady(f)) \in Nat
  BY <1>2, <1>6, FewerSteady DEF Settled
<1>8. \A k \in Steady(f) : Target(f, k) \in A
  BY <1>1, <1>2, <1>3 DEF SteadyInv
<1>9. f \in {"pages", "prefixes"} => view'.count[f] >= Cardinality(Steady(f)')
  <2>1. ASSUME f \in {"pages", "prefixes"}
        PROVE  Cardinality(Steady(f)) <= Cardinality(A)
    <3>1. Steady(f) \subseteq A
      BY <1>8, <2>1 DEF Target
    <3>2. QED
      BY <1>3, <3>1, FS_Subset
  <2>2. QED
    BY <1>4, <1>5, <1>7, <2>1
<1>10. Len(rows') = 0 /\ Limit \in Nat /\ 1..0 = {}
  BY <1>1, EmptySeq, LimitType
<1>11. InOrder'
  BY <1>4, <1>10 DEF InOrder
<1>12. ASSUME NEW k \in Steady(f)'
       PROVE  ToRead(k)'
  <2>1. Target(f, k) \in A
    BY <1>7, <1>8, <1>12
  <2>2. \E i \in 1..Len(todo') : todo'[i] = Target(f, k)
    BY <1>4, <2>1
  <2>3. QED
    BY <1>2, <1>10, <2>2 DEF ToRead, Target
<1>13. Reading'
  BY <1>2, <1>9, <1>10, <1>11, <1>12 DEF Reading
<1>14. ASSUME NEW g \in Family, Passed(g)', ~Spoilt(g)'
       PROVE  Unhidden(g)'
  <2>1. Passed(g) /\ g # f
    BY <1>1, <1>2, <1>14 DEF Passed, Position, Family
  <2>2. view'.list[g] = view.list[g] /\ view'.count[g] = view.count[g]
    BY <1>5, <2>1
  <2>3. QED
    BY <1>1, <1>6, <1>14, <2>1, <2>2, PassedStay
<1>15. QED
  BY <1>1, <1>13, <1>14 DEF SteadyInv

\* A read, if it leaves the rest of the family as it should be.
LEMMA ReadKeeps ==
  ASSUME Types, SteadyInv, NEW f, Reads(f), OnlyUselessGo, slips => slips',
         ~Spoilt(f)' => Reading'
  PROVE  SteadyInv'
<1>1. /\ pc = "read" /\ at = f /\ pc' = pc /\ at' = at /\ view' = view /\ kept' = kept
  BY ReadsFacts
<1>2. Settled
  BY <1>1, LoadSettles DEF Types
<1>3. ASSUME NEW g \in Family, Passed(g)', ~Spoilt(g)'
      PROVE  Unhidden(g)'
  <2>1. Passed(g)
    BY <1>1, <1>3 DEF Passed
  <2>2. QED
    BY <1>1, <1>2, <1>3, <2>1, PassedStay
<1>4. Spoilt(f)' => Spoilt(at)'
  BY <1>1 DEF Spoilt
<1>5. QED
  BY <1>1, <1>3, <1>4 DEF SteadyInv

\* A page, a summary or a prefix is read; what is shown gets its row.
LEMMA ReadingOneMore ==
  ASSUME Types, NEW f \in {"pages", "summaries", "prefixes"}, Reads(f), OnlyUselessGo, Reading,
         Row(f, todo[1]) \in Rows,
         NEW P, rows' = IF P THEN Append(rows, Row(f, todo[1])) ELSE rows,
         f = "pages" => Len(rows) < Limit, todo[1] \in Shown(f) => P
  PROVE  Reading'
<1>1. /\ f = at /\ f \in Family /\ StoreTypes /\ at' = at /\ view' = view /\ kept' = kept
      /\ 1 \in 1..Len(todo) /\ Len(todo) \in Nat /\ todo[1] \in Names(f)
      /\ \A i \in 1..Len(todo') : i + 1 \in 1..Len(todo) /\ todo'[i] = todo[i + 1]
      /\ \A i \in 1..Len(todo) : i # 1 => \E k \in 1..Len(todo') : todo'[k] = todo[i]
  BY ReadsFacts DEF Types, Family
<1>2. Settled
  BY <1>1, LoadSettles
<1>3. /\ Steady(f)' \subseteq Steady(f) /\ Cardinality(Steady(f)') \in Nat
      /\ Cardinality(Steady(f)') <= Cardinality(Steady(f)) /\ Cardinality(Steady(f)) \in Nat
      /\ \A k \in Steady(f)' : Rank(f, k)' = Rank(f, k)
  BY <1>1, <1>2, FewerSteady DEF Settled
<1>4. view.count[f] \in Nat /\ Limit \in Nat
  BY <1>1, LimitType DEF Types, Views
<1>5. f \in {"pages", "prefixes"} => view'.count[f] >= Cardinality(Steady(f)')
  BY <1>1, <1>3, <1>4 DEF Reading
<1>6. PICK n \in Nat, m \in Nat :
        /\ n = Len(rows) /\ m = Len(rows') /\ m \in {n, n + 1} /\ (P => m = n + 1)
        /\ \A i \in 1..n : rows'[i] = rows[i]
        /\ m = n + 1 => rows'[n + 1] = Row(f, todo[1])
  <2>1. rows \in Seq(Rows) /\ Len(rows) \in Nat
    BY LenProperties DEF Types
  <2>2. CASE P
    BY <2>1, <2>2, OneMore
  <2>3. CASE ~P
    BY <2>1, <2>3
  <2>4. QED
    BY <2>2, <2>3
<1>7. f = "pages" => Len(rows') <= Limit
  BY <1>4, <1>6
<1>8. ASSUME f = "pages"
      PROVE  InOrder'
  <2>1. InOrder /\ todo \in Seq(Nat)
    BY <1>1, <1>8, NamesType, SeqMonotonic DEF Reading, Types
  <2>2. \A i \in 1..Len(todo) : todo[i] \in Nat
    BY <2>1, ElementOfSeq
  <2>3. \A i, j \in 1..Len(todo') : i < j => todo'[i] <= todo'[j]
    <3> SUFFICES ASSUME NEW i \in 1..Len(todo'), NEW j \in 1..Len(todo'), i < j
                 PROVE  todo'[i] <= todo'[j]
      OBVIOUS
    <3>1. i + 1 < j + 1
      OBVIOUS
    <3>2. QED
      BY <1>1, <2>1, <3>1 DEF InOrder
  <2>4. ASSUME NEW i \in 1..m, NEW j \in 1..Len(todo')
        PROVE  rows'[i].key <= todo'[j]
    <3>1. j + 1 \in 1..Len(todo) /\ todo'[j] = todo[j + 1] /\ 1 < j + 1
      BY <1>1
    <3>2. CASE i \in 1..n
      BY <1>6, <2>1, <3>1, <3>2 DEF InOrder
    <3>3. CASE i \notin 1..n
      <4>1. i = n + 1 /\ m = n + 1
        BY <1>6, <3>3
      <4>2. rows'[i].key = todo[1]
        BY <1>6, <4>1 DEF Row
      <4>3. QED
        BY <1>1, <2>1, <3>1, <4>2 DEF InOrder
    <3>4. QED
      BY <3>2, <3>3
  <2>5. QED
    BY <1>6, <2>3, <2>4 DEF InOrder
<1>9. ASSUME NEW k \in Steady(f)'
      PROVE  HasRow(k)' \/ ToRead(k)'
  <2>1. HasRow(k) \/ ToRead(k)
    BY <1>1, <1>3, <1>9 DEF Reading, CutOff
  <2>2. ASSUME HasRow(k)
        PROVE  HasRow(k)'
    <3>1. PICK i \in 1..n : rows[i].key = k
                            /\ (f \in {"summaries", "prefixes"} => rows[i].rank = Rank(f, k))
      BY <1>1, <1>6, <2>2 DEF HasRow
    <3>2. i \in 1..m /\ rows'[i] = rows[i]
      BY <1>6
    <3>3. QED
      BY <1>1, <1>3, <1>6, <1>9, <3>1, <3>2 DEF HasRow
  <2>3. ASSUME NEW i \in 1..Len(todo), todo[i] = k
        PROVE  HasRow(k)' \/ ToRead(k)'
    <3>1. CASE i = 1
      <4>1. k \in Shown(f) /\ k = todo[1]
        BY <1>1, <1>3, <1>9, <2>3, <3>1, SteadyIsShown
      <4>2. m = n + 1 /\ rows'[m] = Row(f, k) /\ m \in 1..m
        BY <1>6, <4>1
      <4>3. rows'[m].key = k /\ rows'[m].rank = Rank(f, k)
        <5>1. Row(f, k).key = k /\ Row(f, k).rank = Rank(f, k)
          BY DEF Row
        <5>2. QED
          BY <4>2, <5>1
      <4>4. QED
        BY <1>1, <1>3, <1>6, <1>9, <4>2, <4>3 DEF HasRow
    <3>2. CASE i # 1
      <4>1. \E j \in 1..Len(todo') : todo'[j] = k
        BY <1>1, <2>3, <3>2
      <4>2. QED
        BY <1>1, <4>1 DEF ToRead, Target
    <3>3. QED
      BY <3>1, <3>2
  <2>4. ToRead(k) => \E i \in 1..Len(todo) : todo[i] = k
    BY <1>1 DEF ToRead, Target
  <2>5. QED
    BY <2>1, <2>2, <2>3, <2>4
<1>10. QED
  BY <1>1, <1>5, <1>7, <1>8, <1>9 DEF Reading

\* The hot prefixes of a namespace are read; what has no place is no hotter.
LEMMA ReadingHot ==
  ASSUME Types, ReadHot, Reading
  PROVE  Reading'
<1>1. PICK top : top = TopOf(todo[1])
  OBVIOUS
<1>2. /\ Reads("hot") /\ slips' = slips /\ OnlyUselessGo /\ IsTop(top, todo[1])
      /\ Len(rows) \in Nat /\ Len(rows) < Limit
      /\ rows' \in Seq(Rows) /\ Len(rows') \in Nat
      /\ Len(rows) <= Len(rows') /\ Len(rows') <= Limit
      /\ \A i \in 1..Len(rows) : rows'[i] = rows[i]
      /\ \A i \in 1..Len(rows') : i > Len(rows) =>
           \E j \in 1..Len(top) : rows'[i] = top[j]
      /\ (\A i \in 1..Len(rows) : NamespaceOf[rows[i].key] # todo[1]) =>
           /\ Len(rows') = Least(Len(rows) + Len(top), Limit)
           /\ \A j \in 1..Len(top) : Len(rows) + j <= Limit => rows'[Len(rows) + j] = top[j]
           /\ \A i \in 1..Len(rows') : i > Len(rows) => rows'[i] = top[i - Len(rows)]
  BY <1>1, ReadHotRows
<1>3. /\ at = "hot" /\ at' = at /\ kept' = kept
      /\ 1 \in 1..Len(todo)
      /\ \A i \in 1..Len(todo) : i # 1 => \E k \in 1..Len(todo') : todo'[k] = todo[i]
  BY <1>2, ReadsFacts
<1>4. Settled /\ score' = score /\ StoreTypes
  BY <1>2, <1>3, LoadSettles DEF Types, OnlyUselessGo
<1>5. Steady("hot")' \subseteq Steady("hot") /\ Steady("hot") \subseteq Shown("hot")
  BY <1>4, SteadyIsShown DEF Settled, Family
<1>6. PICK n \in Nat, d \in Nat, l \in Nat :
        n = Len(rows) /\ d = Len(rows') /\ l = Limit /\ n < l /\ n <= d /\ d <= l
  BY <1>2, LimitType
<1>7. ASSUME NEW k \in Steady("hot")'
      PROVE  HasRow(k)' \/ ToRead(k)' \/ CutOff(k)'
  <2>1. HasRow(k) \/ ToRead(k)
    BY <1>2, <1>3, <1>5, <1>6, <1>7 DEF Reading, CutOff
  <2>2. ASSUME HasRow(k)
        PROVE  HasRow(k)'
    <3>1. PICK i \in 1..n : rows[i].key = k
      BY <1>6, <2>2 DEF HasRow
    <3>2. i \in 1..d /\ rows'[i].key = k
      BY <1>2, <1>6, <3>1
    <3>3. QED
      BY <1>3, <1>6, <3>2 DEF HasRow
  <2>3. ASSUME ToRead(k)
        PROVE  HasRow(k)' \/ ToRead(k)' \/ CutOff(k)'
    <3>1. PICK i \in 1..Len(todo) : todo[i] = NamespaceOf[k]
      BY <1>3, <2>3 DEF ToRead, Target
    <3>2. \A h \in 1..n : NamespaceOf[rows[h].key] # NamespaceOf[k]
      BY <1>3, <1>6, <2>3 DEF ToRead
    <3>3. CASE NamespaceOf[k] # todo[1]
      <4>1. \E j \in 1..Len(todo') : todo'[j] = NamespaceOf[k]
        BY <1>3, <3>1, <3>3
      <4>2. \A h \in 1..d : NamespaceOf[rows'[h].key] # NamespaceOf[k]
        <5> TAKE h \in 1..d
        <5>1. CASE h <= n
          BY <1>2, <1>6, <3>2, <5>1
        <5>2. CASE h > n
          <6>1. PICK j \in 1..Len(top) : rows'[h] = top[j]
            BY <1>2, <1>6, <5>2
          <6>2. QED
            BY <1>2, <3>3, <6>1 DEF IsTop
        <5>3. QED
          BY <1>6, <5>1, <5>2
      <4>3. QED
        BY <1>3, <1>6, <4>1, <4>2 DEF ToRead, Target
    <3>4. CASE NamespaceOf[k] = todo[1]
      <4>1. /\ d = Least(n + Len(top), l)
            /\ \A j \in 1..Len(top) : n + j <= l => rows'[n + j] = top[j]
            /\ \A h \in 1..d : h > n => rows'[h] = top[h - n]
        BY <1>2, <1>6, <3>2, <3>4
      <4>2. PICK m \in Nat : m = Len(top)
        BY <1>2 DEF IsTop
      <4>3. ASSUME d = l, \A h \in 1..d : h > n => rows'[h].rank >= score[k]
            PROVE  CutOff(k)'
        <5>1. ASSUME NEW h \in 1..d, NamespaceOf[rows'[h].key] = NamespaceOf[k]
              PROVE  rows'[h].rank >= score[k]
          <6>1. h > n
            BY <1>2, <1>6, <3>2, <5>1
          <6>2. QED
            BY <4>3, <6>1
        <5>2. QED
          BY <1>3, <1>4, <1>6, <4>3, <5>1 DEF CutOff, Precedes
      <4>4. CASE \E j \in 1..m : top[j].key = k
        <5>1. PICK j \in 1..m : top[j].key = k
          BY <4>4
        <5>2. top[j].rank = score[k]
          <6>1. top[j] = Row("hot", k)
            BY <1>2, <4>2, <5>1 DEF IsTop
          <6>2. Row("hot", k).rank = score[k]
            BY DEF Row, Rank
          <6>3. QED
            BY <6>1, <6>2
        <5>3. CASE n + j <= l
          <6>1. n + j \in 1..d /\ rows'[n + j].key = k
            BY <1>6, <4>1, <4>2, <5>1, <5>3 DEF Least
          <6>2. QED
            BY <1>3, <1>6, <6>1 DEF HasRow
        <5>4. CASE n + j > l
          <6>1. d = l
            BY <1>6, <4>1, <4>2, <5>4 DEF Least
          <6>2. ASSUME NEW h \in 1..d, h > n
                PROVE  rows'[h].rank >= score[k]
            <7>1. h - n \in 1..m /\ h - n < j /\ rows'[h] = top[h - n]
              BY <1>6, <4>1, <5>4, <6>2
            <7>2. QED
              BY <1>2, <4>2, <5>2, <7>1 DEF IsTop
          <6>3. QED
            BY <4>3, <6>1, <6>2
        <5>5. QED
          BY <5>3, <5>4
      <4>5. CASE m = l /\ \A j \in 1..m : top[j].rank >= score[k]
        <5>1. d = l
          BY <1>6, <4>1, <4>2, <4>5 DEF Least
        <5>2. ASSUME NEW h \in 1..d, h > n
              PROVE  rows'[h].rank >= score[k]
          <6>1. h - n \in 1..m /\ rows'[h] = top[h - n]
            BY <1>6, <4>1, <4>5, <5>1, <5>2
          <6>2. QED
            BY <4>5, <6>1
        <5>3. QED
          BY <4>3, <5>1, <5>2
      <4>6. QED
        BY <1>2, <1>5, <1>6, <1>7, <3>4, <4>2, <4>4, <4>5 DEF IsTop
    <3>5. QED
      BY <3>3, <3>4
  <2>4. QED
    BY <2>1, <2>2, <2>3
<1>8. QED
  BY <1>2, <1>3, <1>7 DEF Reading

\* Whatever is read.
LEMMA AnyReadKeeps ==
  ASSUME Types, SteadyInv, ReadPage \/ ReadSummary \/ ReadPrefix \/ ReadHot
  PROVE  SteadyInv'
<1>1. CASE ReadPage
  <2>1. /\ Reads("pages") /\ slips' = slips /\ OnlyUselessGo /\ Len(rows) < Limit
        /\ Row("pages", todo[1]) \in Rows
        /\ rows' = IF todo[1] \in plain THEN Append(rows, Row("pages", todo[1])) ELSE rows
    BY <1>1, ReadPageRow
  <2>2. pc = "read" /\ at = "pages"
    BY <2>1, ReadsFacts
  <2>3. Reading
    BY <2>2 DEF SteadyInv, Spoilt
  <2>4. todo[1] \in Shown("pages") => todo[1] \in plain
    BY DEF Shown, KeysOf
  <2>5. Reading'
    BY <2>1, <2>3, <2>4, ReadingOneMore
  <2>6. QED
    BY <2>1, <2>5, ReadKeeps
<1>2. CASE ReadSummary
  <2>1. /\ Reads("summaries") /\ OnlyUselessGo
        /\ Row("summaries", todo[1]) \in Rows
        /\ \/ /\ rows' = IF summary[todo[1]].usable
                         THEN Append(rows, Row("summaries", todo[1])) ELSE rows
              /\ slips' = slips
           \/ slips' = TRUE /\ rows' = rows
    BY <1>2, ReadSummaryRow
  <2>2. pc = "read" /\ at = "summaries"
    BY <2>1, ReadsFacts
  <2>3. ASSUME ~Spoilt("summaries")'
        PROVE  Reading'
    <3>1. ~slips'
      BY <2>3 DEF Spoilt
    <3>2. /\ rows' = IF summary[todo[1]].usable
                     THEN Append(rows, Row("summaries", todo[1])) ELSE rows
          /\ slips' = slips
      BY <2>1, <3>1
    <3>3. Reading
      BY <2>2, <3>1, <3>2 DEF SteadyInv, Spoilt
    <3>4. todo[1] \in Shown("summaries") => summary[todo[1]].usable
      BY DEF Shown
    <3>5. QED
      BY <2>1, <3>2, <3>3, <3>4, ReadingOneMore
  <2>4. QED
    BY <2>1, <2>3, ReadKeeps
<1>3. CASE ReadPrefix
  <2>1. /\ Reads("prefixes") /\ slips' = slips /\ OnlyUselessGo
        /\ Row("prefixes", todo[1]) \in Rows
        /\ rows' = IF seen[todo[1]] > 0 THEN Append(rows, Row("prefixes", todo[1])) ELSE rows
    BY <1>3, ReadPrefixRow
  <2>2. pc = "read" /\ at = "prefixes"
    BY <2>1, ReadsFacts
  <2>3. Reading
    BY <2>2 DEF SteadyInv, Spoilt
  <2>4. todo[1] \in Shown("prefixes") => seen[todo[1]] > 0
    BY DEF Shown, KeysOf
  <2>5. Reading'
    BY <2>1, <2>3, <2>4, ReadingOneMore
  <2>6. QED
    BY <2>1, <2>5, ReadKeeps
<1>4. CASE ReadHot
  <2>1. Reads("hot") /\ slips' = slips /\ OnlyUselessGo
    BY <1>4, ReadHotRows
  <2>2. pc = "read" /\ at = "hot"
    BY <2>1, ReadsFacts
  <2>3. Reading
    BY <2>2 DEF SteadyInv, Spoilt
  <2>4. QED
    BY <1>4, <2>1, <2>3, ReadingHot, ReadKeeps
<1>5. QED
  BY <1>1, <1>2, <1>3, <1>4

\* A thing that has its row is in the list, or the list is full of what ranks no
\* lower.
InOrFull(list, k, r) ==
  \/ \E i \in 1..Len(list) : list[i].key = k
  \/ Len(list) = Limit /\ \A i \in 1..Len(list) : list[i].rank >= r
LEMMA ListedHas ==
  ASSUME NEW s \in Seq(Rows), NEW t, Ranked(t, s), NEW r \in Nat,
         NEW j \in 1..Len(s), s[j].rank = r
  PROVE  InOrFull(FirstOf(t), s[j].key, r)
<1>1. PICK k : k = s[j].key
  OBVIOUS
<1>2. PICK n \in Nat : n = Len(s) /\ n = Len(t)
  BY LenProperties DEF Ranked
<1>3. PICK p : Permutes(p, t, s, n)
  BY <1>2 DEF Ranked
<1>4. PICK i \in 1..n : s[i].key = k /\ s[i].rank = r
  BY <1>1, <1>2
<1>5. PICK m \in 1..n : p[m] = i
  BY <1>3 DEF Permutes
<1>6. t[m].key = k /\ t[m].rank = r
  BY <1>3, <1>4, <1>5 DEF Permutes
<1>7. t \in Seq(Rows)
  BY DEF Ranked
<1>8. PICK l \in Nat, e \in Nat :
        /\ l = Len(FirstOf(t)) /\ e = Limit /\ l = Least(n, e)
        /\ \A h \in 1..l : FirstOf(t)[h] = t[h]
  BY <1>2, <1>7, FirstOfFacts, LimitType
<1>9. CASE m <= l
  BY <1>1, <1>6, <1>8, <1>9 DEF InOrFull
<1>10. CASE m > l
  <2>1. l = e /\ \A h \in 1..l : h \in 1..n /\ h < m
    BY <1>8, <1>10 DEF Least
  <2>2. \A h \in 1..l : t[h].rank >= r
    BY <1>2, <1>6, <2>1 DEF Ranked
  <2>3. QED
    BY <1>8, <2>1, <2>2 DEF InOrFull
<1>11. QED
  BY <1>8, <1>9, <1>10

\* Enough rows for whatever is steady.
LEMMA EnoughRows ==
  ASSUME NEW S, NEW s \in Seq(Rows), \A k \in S : \E i \in 1..Len(s) : s[i].key = k
  PROVE  Cardinality(S) \in Nat /\ Cardinality(S) <= Len(s)
<1> DEFINE keys == [i \in 1..Len(s) |-> s[i].key]
<1>1. Len(s) \in Nat
  BY LenProperties
<1>2. S \subseteq Items(keys, Len(s))
  BY DEF Items
<1> HIDE DEF keys
<1>3. QED
  BY <1>1, <1>2, ListCounts

\* The list that becomes complete hides nothing steady.
LEMMA ListedUnhidden ==
  ASSUME Types, SteadyInv, Listed, NEW f \in Family, f = at, ~Spoilt(f)
  PROVE  Unhidden(f)'
<1>1. f = at
  OBVIOUS
<1>2. /\ pc = "read" /\ (todo = << >> \/ Full)
      /\ kept' = kept /\ UNCHANGED store
      /\ view'.list[f] = FirstOf(InOrderOfRank)
      /\ view'.count[f] = IF f = "summaries" THEN Len(rows) ELSE view.count[f]
  BY <1>1, ListedParts
<1>3. /\ rows \in Seq(Rows) /\ Len(rows) \in Nat /\ Limit \in Nat /\ StoreTypes
      /\ view.count[f] \in Nat
  BY <1>1, LenProperties, LimitType DEF Types, Views
<1>4. /\ Reading
      /\ \A k \in Steady(f) : HasRow(k) \/ ToRead(k) \/ CutOff(k)
  BY <1>1, <1>2 DEF SteadyInv, Reading
<1>5. Settled /\ Steady(f)' \subseteq Steady(f)
      /\ \A k \in Steady(f)' : Rank(f, k)' = Rank(f, k)
  BY <1>2, <1>3, NothingGoes, LoadSettles DEF Settled
<1>6. PICK list : /\ list = FirstOf(InOrderOfRank) /\ list \in Seq(Rows)
                  /\ DOMAIN list = 1..Len(list) /\ Len(list) \in Nat
  BY ListedParts, LenProperties
<1>7. todo = << >> => \A k : ~ToRead(k)
  BY EmptySeq DEF ToRead
<1>8. f \in {"summaries", "prefixes"} => todo = << >>
  BY <1>1, <1>2 DEF Full
<1>9. f \in {"pages", "hot"} =>
        /\ Len(rows) <= Limit
        /\ todo # << >> => Len(rows) = Limit
  BY <1>1, <1>2, <1>3, <1>4 DEF Reading, Full
<1>10. f # "hot" => view'.count[f] >= Cardinality(Steady(f)')
  <2>1. /\ Cardinality(Steady(f)') \in Nat
        /\ Cardinality(Steady(f)') <= Cardinality(Steady(f)) /\ Cardinality(Steady(f)) \in Nat
    BY <1>3, <1>5, FewerSteady
  <2>2. CASE f \in {"pages", "prefixes"}
    BY <1>1, <1>2, <1>3, <1>4, <2>1, <2>2 DEF Reading
  <2>3. CASE f = "summaries"
    <3>1. \A k \in Steady(f) : \E i \in 1..Len(rows) : rows[i].key = k
      BY <1>1, <1>4, <1>7, <1>8, <2>3 DEF HasRow, CutOff
    <3>2. Cardinality(Steady(f)) <= Len(rows)
      BY <1>3, <3>1, EnoughRows
    <3>3. QED
      BY <1>2, <1>3, <2>1, <2>3, <3>2
  <2>4. QED
    BY <2>2, <2>3 DEF Family
<1>11. ASSUME NEW k \in Steady(f)
       PROVE  \/ \E i \in 1..Len(list) : list[i].key = k
              \/ Len(list) = Limit /\ \A i \in 1..Len(list) : Precedes(f, list[i], k)
  <2>1. CASE f = "pages"
    <3>1. /\ list = FirstOf(rows) /\ Len(list) = Len(rows)
          /\ \A i \in 1..Len(list) : list[i] = rows[i]
      <4>1. list = FirstOf(rows)
        BY <1>1, <1>6, <2>1 DEF InOrderOfRank
      <4>2. Least(Len(rows), Limit) = Len(rows)
        BY <1>3, <1>9, <2>1 DEF Least
      <4>3. QED
        BY <1>3, <4>1, <4>2, FirstOfFacts
    <3>2. CASE HasRow(k)
      BY <3>1, <3>2 DEF HasRow
    <3>3. CASE ToRead(k)
      <4>1. PICK j \in 1..Len(todo) : todo[j] = k
        BY <1>1, <2>1, <3>3 DEF ToRead, Target
      <4>2. Len(list) = Limit
        BY <1>7, <1>9, <2>1, <3>1, <3>3
      <4>3. \A i \in 1..Len(list) : list[i].key <= k
        BY <1>1, <1>4, <2>1, <3>1, <4>1 DEF Reading, InOrder
      <4>4. QED
        BY <2>1, <4>2, <4>3 DEF Precedes
    <3>4. QED
      BY <1>1, <1>4, <2>1, <3>2, <3>3 DEF CutOff
  <2>2. CASE f \in {"summaries", "prefixes"}
    <3>1. HasRow(k)
      BY <1>1, <1>4, <1>7, <1>8, <2>2 DEF CutOff
    <3>2. Rank(f, k) \in Nat
      BY <1>3, SteadyIsShown, ShownFacts
    <3>3. \E i \in 1..Len(rows) : rows[i].key = k /\ rows[i].rank = Rank(f, k)
      BY <1>1, <2>2, <3>1 DEF HasRow
    <3>4. Ranked(InOrderOfRank, rows)
      BY <1>1, <1>3, <2>2, SortedBest DEF InOrderOfRank
    <3>5. PICK r \in Nat : r = Rank(f, k)
      BY <3>2
    <3>6. \/ \E i \in 1..Len(list) : list[i].key = k
          \/ Len(list) = Limit /\ \A i \in 1..Len(list) : list[i].rank >= r
      <4>1. rows \in Seq(Rows) /\ \E i \in 1..Len(rows) : rows[i].key = k /\ rows[i].rank = r
        BY <1>3, <3>3, <3>5
      <4>2. PICK t : t = InOrderOfRank /\ Ranked(t, rows)
        BY <3>4
      <4>3. PICK j \in 1..Len(rows) : rows[j].key = k /\ rows[j].rank = r
        BY <4>1
      <4>4. InOrFull(FirstOf(t), rows[j].key, r)
        BY <4>1, <4>2, <4>3, ListedHas
      <4>5. FirstOf(t) = list
        BY <1>6, <4>2
      <4>6. QED
        BY <4>3, <4>4, <4>5 DEF InOrFull
    <3>7. QED
      BY <2>2, <3>5, <3>6 DEF Precedes
  <2>3. CASE f = "hot"
    <3>1. Ranked(InOrderOfRank, rows)
      BY <1>1, <1>3, <2>3, SortedBest DEF InOrderOfRank
    <3>2. PICK t, p : /\ t = InOrderOfRank /\ t \in Seq(Rows) /\ Len(t) = Len(rows)
                      /\ Permutes(p, t, rows, Len(rows))
      BY <3>1 DEF Ranked
    <3>3. PICK n \in Nat : n = Len(rows) /\ Permutes(p, t, rows, n)
      BY <1>3, <3>2
    <3>4. Len(list) = n /\ \A i \in 1..n : list[i] = t[i]
      <4>1. Least(Len(t), Limit) = Len(rows)
        BY <1>3, <1>9, <2>3, <3>2 DEF Least
      <4>2. QED
        BY <1>6, <3>2, <3>3, <4>1, FirstOfFacts
    <3>5. /\ \A i \in 1..Len(rows) : \E j \in 1..Len(list) : list[j] = rows[i]
          /\ \A j \in 1..Len(list) : \E i \in 1..Len(rows) : list[j] = rows[i]
      <4>1. \A j \in 1..n : p[j] \in 1..n /\ list[j] = rows[p[j]]
        BY <3>4, <3>3 DEF Permutes
      <4>2. \A i \in 1..n : \E j \in 1..n : p[j] = i
        BY <3>3 DEF Permutes
      <4>3. \A i \in 1..n : \E j \in 1..n : list[j] = rows[i]
        BY <4>1, <4>2
      <4>4. \A j \in 1..n : \E i \in 1..n : list[j] = rows[i]
        BY <4>1
      <4>5. QED
        BY <3>4, <3>3, <4>3, <4>4
    <3>6. CASE HasRow(k)
      <4>1. PICK i \in 1..Len(rows) : rows[i].key = k
        BY <3>6 DEF HasRow
      <4>2. QED
        BY <3>5, <4>1
    <3>7. CASE ToRead(k)
      <4>1. Len(list) = Limit
        BY <1>7, <1>9, <2>3, <3>4, <3>3, <3>7
      <4>2. \A i \in 1..Len(rows) : NamespaceOf[rows[i].key] # NamespaceOf[k]
        BY <1>1, <2>3, <3>7 DEF ToRead
      <4>3. \A i \in 1..Len(list) : NamespaceOf[list[i].key] # NamespaceOf[k]
        BY <3>5, <4>2
      <4>4. QED
        BY <2>3, <4>1, <4>3 DEF Precedes
    <3>8. CASE CutOff(k)
      <4>1. Len(list) = Limit /\ \A i \in 1..Len(rows) : Precedes("hot", rows[i], k)
        BY <3>4, <3>3, <3>8 DEF CutOff
      <4>2. \A i \in 1..Len(list) : Precedes("hot", list[i], k)
        BY <3>5, <4>1
      <4>3. QED
        BY <2>3, <4>1, <4>2
    <3>9. QED
      BY <1>4, <3>6, <3>7, <3>8
  <2>4. QED
    BY <2>1, <2>2, <2>3 DEF Family
<1>12. ASSUME NEW k \in Steady(f)'
       PROVE  Has(f, k)' \/ (/\ (Len(Listing(f)) = Limit)'
                             /\ \A i \in (DOMAIN Listing(f))' : Precedes(f, Listing(f)[i], k)')
  <2>1. Listing(f)' = list
    BY <1>2, <1>6 DEF Listing
  <2>2. \A r : Precedes(f, r, k) => Precedes(f, r, k)'
    <3>1. CASE f = "hot"
      BY <1>2, <3>1 DEF Precedes, store
    <3>2. CASE f # "hot"
      BY <1>5, <1>12, <3>2 DEF Precedes
    <3>3. QED
      BY <3>1, <3>2
  <2>3. \/ \E i \in 1..Len(list) : list[i].key = k
        \/ Len(list) = Limit /\ \A i \in 1..Len(list) : Precedes(f, list[i], k)
    BY <1>5, <1>11, <1>12
  <2>4. QED
    BY <1>6, <2>1, <2>2, <2>3 DEF Has
<1>13. QED
  BY <1>10, <1>12 DEF Unhidden

\* A list is complete, and the next family is scanned.
LEMMA ListedKeeps ==
  ASSUME Types, SteadyInv, Listed
  PROVE  SteadyInv'
<1>1. PICK f \in Family : f = at
  BY DEF Types
<1>2. /\ pc = "read" /\ kept' = kept /\ slips' = slips /\ UNCHANGED store
      /\ \A g \in Family \ {f} : /\ view'.list[g] = view.list[g]
                                 /\ view'.count[g] = view.count[g]
  BY <1>1, ListedParts
<1>3. OnlyUselessGo /\ Settled
  BY <1>2, NothingGoes, LoadSettles DEF Types
<1>4. ASSUME NEW g \in Family, Passed(g) \/ g = f, ~Spoilt(g)'
      PROVE  Unhidden(g)'
  <2>1. CASE g = f
    <3>1. ~Spoilt(f)
      BY <1>2, <1>4, <2>1 DEF Spoilt
    <3>2. QED
      BY <1>1, <2>1, <3>1, ListedUnhidden
  <2>2. CASE g # f
    <3>1. view'.list[g] = view.list[g] /\ view'.count[g] = view.count[g]
      BY <1>2, <2>2
    <3>2. QED
      BY <1>2, <1>3, <1>4, <2>2, <3>1, PassedStay
  <2>3. QED
    BY <2>1, <2>2
<1>5. CASE f = "hot"
  <2>1. pc' = "info" /\ at' = at
    BY <1>1, <1>5, ListedParts
  <2>2. \A g \in Family : Passed(g) \/ g = f
    BY <1>1, <1>5 DEF Passed, Position, Family
  <2>3. QED
    BY <1>4, <2>1, <2>2 DEF SteadyInv
<1>6. CASE f # "hot"
  <2>1. ScanFrom(NextFamily[f])
    BY <1>1, <1>6, ListedParts
  <2>2. PICK h \in Family : /\ h = NextFamily[f] /\ pc' = "scan" /\ at' = h
                            /\ scan'.steady = KeysOf(h) /\ Position[h] = Position[f] + 1
    BY <1>6, <2>1, NextFamilyFacts DEF ScanFrom
  <2>3. \A g \in Family : Passed(g)' => Passed(g) \/ g = f
    BY <1>1, <2>2 DEF Passed, Position, Family
  <2>4. ASSUME NEW k \in Steady(h)'
        PROVE  Target(h, k) \in scan'.steady
    <3>1. k \in Shown(h)
      BY <1>3, <2>4, SteadyIsShown DEF Settled, Types
    <3>2. QED
      BY <2>2, <3>1, ShownIsFound
  <2>5. \A k \in Steady(at)' : Target(at, k)' \in scan'.steady
    BY <2>2, <2>4 DEF Target
  <2>6. QED
    BY <1>4, <2>2, <2>3, <2>5 DEF SteadyInv
<1>7. QED
  BY <1>5, <1>6

LEMMA BeginKeeps ==
  ASSUME Types, SteadyInv, Begin
  PROVE  SteadyInv'
<1>1. /\ pc' = "scan" /\ at' = "pages" /\ scan'.steady = KeysOf("pages") /\ UNCHANGED store
  BY DEF Begin, ScanFrom
<1>2. \A f \in Family : ~Passed(f)'
  BY <1>1 DEF Passed, Position, Family
<1>3. KeysOf("pages")' = KeysOf("pages")
  BY <1>1 DEF KeysOf, store
<1>4. \A k \in Steady("pages")' : Target("pages", k) \in scan'.steady
  BY <1>1, <1>3, ShownIsFound DEF Steady, Family
<1>5. \A k \in Steady(at)' : Target(at, k)' \in scan'.steady
  BY <1>1, <1>4 DEF Target
<1>6. QED
  BY <1>1, <1>2, <1>5 DEF SteadyInv

\* Between the last list and the answer.
LEMMA QueueReadsKeep ==
  ASSUME Types, SteadyInv, Info \/ Pending
  PROVE  SteadyInv'
<1>1. /\ pc \in {"info", "pending"} /\ pc' \in {"pending", "done"}
      /\ kept' = kept /\ slips' = slips /\ UNCHANGED store
  BY DEF Info, Pending, history
<1>2. view'.list = view.list /\ view'.count = view.count
  BY QueueReads
<1>3. Settled
  BY <1>1, NothingGoes, LoadSettles DEF Types
<1>4. ASSUME NEW f \in Family, ~Spoilt(f)'
      PROVE  Unhidden(f)'
  <2>1. Passed(f)
    BY <1>1 DEF Passed
  <2>2. QED
    BY <1>1, <1>2, <1>3, <1>4, <2>1, PassedStay
<1>5. QED
  BY <1>1, <1>4 DEF SteadyInv

LEMMA FailsKeeps ==
  ASSUME Types, SteadyInv, SnapshotFails
  PROVE  SteadyInv'
BY DEF SnapshotFails, SteadyInv

LEMMA StutterKeeps ==
  ASSUME SteadyInv, UNCHANGED snapVars
  PROVE  SteadyInv'
<1>1. /\ pc' = pc /\ at' = at /\ scan' = scan /\ todo' = todo /\ rows' = rows /\ view' = view
      /\ kept' = kept /\ slips' = slips /\ UNCHANGED store
  BY DEF snapVars, history
<1>2. \A f : Steady(f)' = Steady(f)
  BY <1>1 DEF Steady, Shown, KeysOf, store
<1>3. \A f, k : Rank(f, k)' = Rank(f, k)
  BY <1>1 DEF Rank, store
<1>4. \A f, r, k : Precedes(f, r, k)' <=> Precedes(f, r, k)
  BY <1>1, <1>3 DEF Precedes, store
<1>5. \A f : Unhidden(f)' <=> Unhidden(f)
  BY <1>1, <1>2, <1>4 DEF Unhidden, Has, Listing
<1>6. Reading' <=> Reading
  <2>1. \A k : HasRow(k)' <=> HasRow(k)
    BY <1>1, <1>3 DEF HasRow
  <2>2. \A k : (ToRead(k)' <=> ToRead(k)) /\ (CutOff(k)' <=> CutOff(k))
    BY <1>1, <1>4 DEF ToRead, Target, CutOff
  <2>3. InOrder' <=> InOrder
    BY <1>1 DEF InOrder
  <2>4. QED
    BY <1>1, <1>2, <2>1, <2>2, <2>3 DEF Reading
<1>7. QED
  BY <1>1, <1>2, <1>5, <1>6 DEF SteadyInv, Spoilt, Passed, Target

\* Every step keeps it.
LEMMA SteadyIsKept ==
  ASSUME Types, SteadyInv, [SnapNext]_snapVars
  PROVE  SteadyInv'
<1>0. StoreTypes
  BY DEF Types
<1>1. ASSUME NEW k \in Page \cup Evaluation, PlainChanges(k)
      PROVE  SteadyInv'
  <2>1. Changed({<<"pages", k>>})
    BY <1>1 DEF PlainChanges
  <2>2. QED
    BY <1>0, <1>1, <2>1, ChangeSettles, ChangeKeeps
<1>2. ASSUME NEW k \in Page, SummaryChanges(k)
      PROVE  SteadyInv'
  <2>1. Changed({<<"summaries", k>>})
    BY <1>2 DEF SummaryChanges
  <2>2. QED
    BY <1>0, <1>2, <2>1, ChangeSettles, ChangeKeeps
<1>3. ASSUME NEW p \in Prefix, PrefixChanges(p)
      PROVE  SteadyInv'
  <2>1. Changed({<<"prefixes", p>>, <<"hot", p>>})
    BY <1>3 DEF PrefixChanges
  <2>2. QED
    BY <1>0, <1>3, <2>1, ChangeSettles, ChangeKeeps
<1>4. ASSUME NEW n \in Namespace, HotExpires(n)
      PROVE  SteadyInv'
  <2>1. Changed({<<"hot", p>> : p \in {q \in Prefix : NamespaceOf[q] = n}})
    BY <1>4 DEF HotExpires
  <2>2. QED
    BY <1>0, <1>4, <2>1, ChangeSettles, ChangeKeeps
<1>5. ASSUME QueueChanges
      PROVE  SteadyInv'
  <2>1. Changed({<<"queue", 0>>})
    BY <1>5 DEF QueueChanges
  <2>2. QED
    BY <1>0, <1>5, <2>1, ChangeSettles, ChangeKeeps
<1>6. CASE UNCHANGED snapVars
  BY <1>6, StutterKeeps
<1>7. QED
  BY <1>1, <1>2, <1>3, <1>4, <1>5, <1>6, BeginKeeps, ScanKeeps, AnyReadKeeps, ListedKeeps,
     QueueReadsKeep, FailsKeeps DEF SnapNext

----------------------------------------------------------------------------
(* A quiet snapshot *)

\* A list with nothing twice is no longer than the set is large.
LEMMA ListFits ==
  ASSUME NEW S, IsFiniteSet(S), NEW n \in Nat, NEW s, \A i \in 1..n : s[i] \in S,
         \A i, j \in 1..n : i < j => s[i] # s[j]
  PROVE  n <= Cardinality(S) /\ Cardinality(S) \in Nat
<1> DEFINE f == [i \in 1..n |-> s[i]]
<1>1. \A i, j \in 1..n : s[i] = s[j] => i = j
  OBVIOUS
<1>2. f \in Injection(1..n, S)
  BY <1>1 DEF Injection, IsInjective
<1> HIDE DEF f
<1>3. Cardinality(1..n) <= Cardinality(S)
  BY <1>2, FS_Injection
<1>4. QED
  BY <1>3, Positions, FS_CardinalityType

\* All of what is shown has a row.
Complete(f, s) == \A k \in Shown(f) : \E i \in 1..Len(s) : s[i].key = k

IsExact(f, list) ==
  /\ list \in Seq(Rows) /\ Len(list) = Least(Cardinality(Shown(f)), Limit)
  /\ \A i, j \in 1..Len(list) : i < j => list[i].key # list[j].key
                                       /\ list[i].rank >= list[j].rank
  /\ \A i \in 1..Len(list) : list[i].key \in Shown(f) /\ list[i] = Row(f, list[i].key)

\* Such rows, sorted and cut, make an exact list when there are all of them, or as
\* many as the limit allows.
LEMMA ExactList ==
  ASSUME StoreTypes, NEW f \in Family, NEW s \in Seq(Rows), TrueRows(f, s),
         Complete(f, s) \/ Len(s) = Limit, NEW t, Ranked(t, s)
  PROVE  /\ IsExact(f, FirstOf(t))
         /\ Complete(f, s) => Len(s) = Cardinality(Shown(f))
<1>1. PICK list : list = FirstOf(t)
  OBVIOUS
<1>2. PICK n \in Nat : n = Len(s) /\ n = Len(t) /\ t \in Seq(Rows)
  BY LenProperties DEF Ranked
<1>3. PICK l \in Nat : l = Limit
  BY LimitType
<1>4. PICK p : Permutes(p, t, s, n)
  BY <1>2 DEF Ranked
<1>5. PICK m \in Nat : /\ m = Len(list) /\ list \in Seq(Rows) /\ m = Least(n, l) /\ m <= n
                       /\ \A i \in 1..m : i \in 1..n /\ list[i] = t[i]
  <2>1. /\ FirstOf(t) \in Seq(Rows) /\ Len(FirstOf(t)) = Least(Len(t), Limit)
        /\ Len(FirstOf(t)) \in Nat /\ Len(FirstOf(t)) <= Len(t)
        /\ \A i \in 1..Len(FirstOf(t)) : FirstOf(t)[i] = t[i]
    BY <1>2, FirstOfFacts
  <2>2. QED
    BY <1>1, <1>2, <1>3, <2>1
<1>6. PICK c \in Nat : c = Cardinality(Shown(f)) /\ IsFiniteSet(Shown(f))
  BY ShownFacts
<1> DEFINE key == [i \in 1..n |-> s[i].key]
<1>7. /\ \A i \in 1..n : key[i] \in Shown(f) /\ key[i] = s[i].key
      /\ \A i, j \in 1..n : i < j => key[i] # key[j]
  BY <1>2 DEF TrueRows
<1>8. n <= c
  <2> HIDE DEF key
  <2>1. QED
    BY <1>6, <1>7, ListFits
<1>9. Complete(f, s) => n = c
  <2> HAVE Complete(f, s)
  <2>1. \A k \in Shown(f) : \E i \in 1..Len(s) : s[i].key = k
    BY DEF Complete
  <2>2. Cardinality(Shown(f)) <= Len(s)
    BY <2>1, EnoughRows
  <2>3. QED
    BY <1>2, <1>6, <1>8, <2>2
<1>10. m = Least(c, l)
  BY <1>2, <1>3, <1>5, <1>8, <1>9 DEF Least
<1>11. \A i \in 1..n : p[i] \in 1..n /\ t[i] = s[p[i]]
  BY <1>4 DEF Permutes
<1>12. ASSUME NEW i \in 1..m, NEW j \in 1..m, i < j
       PROVE  list[i].key # list[j].key /\ list[i].rank >= list[j].rank
  <2>1. i \in 1..n /\ j \in 1..n /\ i # j
    BY <1>5, <1>12
  <2>2. p[i] # p[j]
    BY <1>4, <2>1 DEF Permutes
  <2>3. PICK a \in 1..n, b \in 1..n : a = p[i] /\ b = p[j] /\ (a < b \/ b < a)
    BY <1>5, <1>11, <2>2
  <2>4. s[a].key # s[b].key
    BY <1>2, <2>3 DEF TrueRows
  <2>5. list[i] = s[a] /\ list[j] = s[b]
    BY <1>5, <1>11, <2>3
  <2>6. t[i].rank >= t[j].rank
    BY <1>2, <1>5, <1>12 DEF Ranked
  <2>7. QED
    BY <1>5, <2>4, <2>5, <2>6
<1>13. ASSUME NEW i \in 1..m
       PROVE  list[i].key \in Shown(f) /\ list[i] = Row(f, list[i].key)
  <2>1. PICK a \in 1..n : list[i] = s[a]
    BY <1>5, <1>11
  <2>2. QED
    BY <1>2, <2>1 DEF TrueRows
<1>14. IsExact(f, list)
  BY <1>3, <1>5, <1>6, <1>10, <1>12, <1>13 DEF IsExact
<1>15. Complete(f, s) => Len(s) = Cardinality(Shown(f))
  BY <1>2, <1>6, <1>9
<1>16. QED
  BY <1>1, <1>14, <1>15

\* Rows that are alike in rank are sorted as they are.
LEMMA RankedAsIs ==
  ASSUME NEW s \in Seq(Rows), \A i \in 1..Len(s) : s[i].rank = 0
  PROVE  Ranked(s, s)
<1>1. Permutes([i \in 1..Len(s) |-> i], s, s, Len(s))
  BY DEF Permutes
<1>2. \A k, m \in 1..Len(s) : k < m => s[k].rank >= s[m].rank
  OBVIOUS
<1>3. QED
  BY <1>1, <1>2 DEF Ranked

\* A row of what is shown stays true when the same is shown.
LEMMA SameRows ==
  ASSUME SameShown, NEW f \in Family
  PROVE  /\ Shown(f)' = Shown(f)
         /\ \A k \in Shown(f) : Row(f, k)' = Row(f, k)
<1>1. Shown(f)' = Shown(f) /\ \A k \in Shown(f) : Rank(f, k)' = Rank(f, k)
  BY DEF SameShown
<1>2. QED
  BY <1>1 DEF Row

\* An exact list stays exact.
LEMMA ExactStays ==
  ASSUME SameShown, NEW f \in Family, Exact(f),
         view'.list[f] = view.list[f], view'.count[f] = view.count[f]
  PROVE  Exact(f)'
<1>1. Shown(f)' = Shown(f) /\ \A k \in Shown(f) : Row(f, k)' = Row(f, k)
  BY SameRows
<1>2. Listing(f)' = Listing(f)
  BY DEF Listing
<1>3. PICK list : list = Listing(f) /\ list = Listing(f)'
  BY <1>2
<1>4. /\ f # "hot" => view.count[f] = Cardinality(Shown(f))
      /\ Len(list) = Least(Cardinality(Shown(f)), Limit)
      /\ \A i, j \in DOMAIN list : i < j => list[i].key # list[j].key
                                           /\ list[i].rank >= list[j].rank
      /\ \A i \in DOMAIN list : list[i].key \in Shown(f) /\ list[i] = Row(f, list[i].key)
  BY <1>3 DEF Exact
<1>5. \A i \in DOMAIN list : list[i].key \in Shown(f)' /\ list[i] = Row(f, list[i].key)'
  BY <1>1, <1>4
<1>6. QED
  BY <1>1, <1>3, <1>4, <1>5 DEF Exact

\* The rows after a step that shows the same.
LEMMA StillTrueRows ==
  ASSUME SameShown, NEW f \in Family, at' = f, TrueRows(f, rows')
  PROVE  TrueRows(at, rows)'
<1>1. Shown(f)' = Shown(f) /\ \A k \in Shown(f) : Rank(f, k)' = Rank(f, k)
  BY DEF SameShown
<1>2. \A i \in 1..Len(rows') : rows'[i].key \in Shown(at)'
  BY <1>1 DEF TrueRows
<1>3. ASSUME NEW i \in 1..Len(rows')
      PROVE  (rows[i] = Row(at, rows[i].key))'
  <2>1. PICK k \in Shown(f) : rows'[i].key = k /\ rows'[i] = Row(f, k)
    BY DEF TrueRows
  <2>2. rows'[i] = [key |-> k, rank |-> Rank(f, k)']
    BY <1>1, <2>1 DEF Row
  <2>3. Rank(f, k)' = Rank(at, rows[i].key)'
    BY <2>1
  <2>4. QED
    BY <2>1, <2>2, <2>3 DEF Row
<1>4. QED
  BY <1>2, <1>3 DEF TrueRows

\* What is left to read of a list with nothing twice has nothing twice.
LEMMA TailIsDistinct ==
  ASSUME Types, NEW f, Reads(f), \A i, j \in 1..Len(todo) : i < j => todo[i] # todo[j]
  PROVE  \A i, j \in 1..Len(todo') : i < j => todo'[i] # todo'[j]
<1>1. PICK n \in Nat : n = Len(todo') /\ Len(todo) = n + 1 /\ \A i \in 1..n : todo'[i] = todo[i + 1]
  <2>1. /\ Len(todo) \in Nat /\ 1 \in 1..Len(todo) /\ Len(todo') = Len(todo) - 1
        /\ \A i \in 1..Len(todo') : todo'[i] = todo[i + 1]
    BY ReadsFacts
  <2>2. QED
    BY <2>1
<1>2. \A i, j \in 1..(n + 1) : i < j => todo[i] # todo[j]
  BY <1>1
<1>3. ASSUME NEW i \in 1..n, NEW j \in 1..n, i < j
      PROVE  todo'[i] # todo'[j]
  <2>1. i + 1 \in 1..(n + 1) /\ j + 1 \in 1..(n + 1) /\ i + 1 < j + 1
    BY <1>3
  <2>2. todo[i + 1] # todo[j + 1]
    BY <1>2, <2>1
  <2>3. QED
    BY <1>1, <2>2
<1>4. QED
  BY <1>1, <1>3

\* A page, a summary or a prefix is read while nobody disturbs.
LEMMA QuietOneMore ==
  ASSUME Types, NEW f \in {"pages", "summaries", "prefixes"}, Reads(f), OnlyUselessGo,
         ReadingQuiet, Row(f, todo[1]) \in Rows,
         NEW P, rows' = IF P THEN Append(rows, Row(f, todo[1])) ELSE rows,
         f = "pages" => Len(rows) < Limit, todo[1] \in Shown(f) <=> P
  PROVE  ReadingQuiet'
<1>1. /\ f = at /\ f \in Family /\ StoreTypes /\ at' = at /\ view' = view
      /\ 1 \in 1..Len(todo) /\ Len(todo) \in Nat /\ Len(todo') = Len(todo) - 1
      /\ \A i \in 1..Len(todo') : i + 1 \in 1..Len(todo) /\ todo'[i] = todo[i + 1]
      /\ \A i \in 1..Len(todo) : i # 1 => \E k \in 1..Len(todo') : todo'[k] = todo[i]
  BY ReadsFacts DEF Types, Family
<1>2. SameShown
  BY <1>1, LoadSettles
<1>3. Shown(f)' = Shown(f) /\ \A k \in Shown(f) : Row(f, k)' = Row(f, k)
  BY <1>1, <1>2, SameRows
<1>4. PICK n \in Nat, m \in Nat, l \in Nat :
        /\ n = Len(rows) /\ m = Len(rows') /\ l = Limit
        /\ (P => m = n + 1) /\ (~P => m = n)
        /\ \A i \in 1..n : rows'[i] = rows[i]
        /\ P => rows'[n + 1] = Row(f, todo[1])
  <2>1. rows \in Seq(Rows) /\ Len(rows) \in Nat /\ Limit \in Nat
    BY LenProperties, LimitType DEF Types
  <2>2. CASE P
    BY <2>1, <2>2, OneMore
  <2>3. CASE ~P
    BY <2>1, <2>3
  <2>4. QED
    BY <2>2, <2>3
<1>5. /\ f = "pages" => \A i \in 1..Len(todo) : todo[i] \in plain
      /\ \A i, j \in 1..Len(todo) : i < j => todo[i] # todo[j]
      /\ \A i, j \in 1..n : i < j => rows[i].key # rows[j].key
      /\ \A i \in 1..n : rows[i].key \in Shown(f) /\ rows[i] = Row(f, rows[i].key)
      /\ \A i \in 1..n : \A j \in 1..Len(todo) : todo[j] # rows[i].key
      /\ \A k \in Shown(f) : \/ \E i \in 1..n : rows[i].key = k
                             \/ \E i \in 1..Len(todo) : todo[i] = k
  BY <1>1, <1>4 DEF ReadingQuiet, Target, TrueRows
<1>6. ASSUME NEW i \in 1..m, i \notin 1..n
      PROVE  /\ i = n + 1 /\ P /\ rows'[i] = Row(f, todo[1]) /\ rows'[i].key = todo[1]
             /\ todo[1] \in Shown(f)
  <2>1. i = n + 1 /\ P
    BY <1>4, <1>6
  <2>2. Row(f, todo[1]).key = todo[1]
    BY DEF Row
  <2>3. QED
    BY <1>4, <2>1, <2>2
<1>7. f \in {"pages", "prefixes"} => view'.count[f] = Cardinality(Shown(f)')
  BY <1>1, <1>3 DEF ReadingQuiet
<1>8. f = "pages" => m <= l
  BY <1>4
<1>9. f = "pages" => \A i \in 1..Len(todo') : todo'[i] \in plain'
  <2>1. ASSUME f = "pages", NEW i \in 1..Len(todo')
        PROVE  todo'[i] \in plain
    BY <1>1, <1>5, <2>1
  <2>2. QED
    BY <2>1 DEF OnlyUselessGo
<1>10. \A i, j \in 1..Len(todo') : i < j => todo'[i] # todo'[j]
  BY <1>5, TailIsDistinct
<1>11. \A i, j \in 1..m : i < j => rows'[i].key # rows'[j].key
  <2> SUFFICES ASSUME NEW i \in 1..m, NEW j \in 1..m, i < j
               PROVE  rows'[i].key # rows'[j].key
    OBVIOUS
  <2>1. i \in 1..n
    BY <1>4
  <2>2. CASE j \in 1..n
    BY <1>4, <1>5, <2>1, <2>2
  <2>3. CASE j \notin 1..n
    BY <1>1, <1>4, <1>5, <1>6, <2>1, <2>3
  <2>4. QED
    BY <2>2, <2>3
<1>12. TrueRows(at, rows)'
  <2>1. ASSUME NEW i \in 1..m
        PROVE  \E k \in Shown(f) : rows'[i].key = k /\ rows'[i] = Row(f, k)
    <3>1. CASE i \in 1..n
      BY <1>4, <1>5, <3>1
    <3>2. CASE i \notin 1..n
      BY <1>6, <3>2
    <3>3. QED
      BY <3>1, <3>2
  <2>2. TrueRows(f, rows')
    BY <1>4, <1>11, <2>1 DEF TrueRows
  <2>3. QED
    BY <1>1, <1>2, <2>2, StillTrueRows
<1>13. ASSUME NEW i \in 1..m, NEW j \in 1..Len(todo')
       PROVE  todo'[j] # rows'[i].key
  <2>1. j + 1 \in 1..Len(todo) /\ todo'[j] = todo[j + 1] /\ 1 < j + 1
    BY <1>1
  <2>2. CASE i \in 1..n
    BY <1>4, <1>5, <2>1, <2>2
  <2>3. CASE i \notin 1..n
    <3>1. rows'[i].key = todo[1]
      BY <1>6, <2>3
    <3>2. todo[1] # todo[j + 1]
      BY <1>1, <1>5, <2>1
    <3>3. QED
      BY <2>1, <3>1, <3>2
  <2>4. QED
    BY <2>2, <2>3
<1>14. ASSUME NEW k \in Shown(f)
       PROVE  \/ \E i \in 1..m : rows'[i].key = k
              \/ \E i \in 1..Len(todo') : todo'[i] = k
  <2>1. CASE \E i \in 1..n : rows[i].key = k
    BY <1>4, <2>1
  <2>2. ASSUME NEW i \in 1..Len(todo), todo[i] = k
        PROVE  \/ \E j \in 1..m : rows'[j].key = k
               \/ \E j \in 1..Len(todo') : todo'[j] = k
    <3>1. CASE i = 1
      <4>1. n + 1 \in 1..m /\ n + 1 \notin 1..n
        BY <1>4, <1>14, <2>2, <3>1
      <4>2. rows'[n + 1].key = k
        BY <1>6, <2>2, <3>1, <4>1
      <4>3. QED
        BY <4>1, <4>2
    <3>2. CASE i # 1
      BY <1>1, <2>2, <3>2
    <3>3. QED
      BY <3>1, <3>2
  <2>3. QED
    BY <1>5, <1>14, <2>1, <2>2
<1>15. \A k : Target(at, k)' = k
  BY <1>1 DEF Target
<1>16. at' \in {"pages", "prefixes"} => view'.count[at'] = Cardinality(Shown(at)')
  BY <1>1, <1>7
<1>17. at' \in {"pages", "hot"} => Len(rows') <= Limit
  BY <1>1, <1>4, <1>8
<1>18. \A i \in 1..Len(rows') : \A j \in 1..Len(todo') : todo'[j] # Target(at, rows[i].key)'
  BY <1>4, <1>13, <1>15
<1>19. ASSUME NEW k \in Shown(at)'
       PROVE  \/ \E i \in 1..Len(rows') : rows'[i].key = k
              \/ \E i \in 1..Len(todo') : todo'[i] = Target(at, k)'
  <2>1. k \in Shown(f)
    BY <1>1, <1>3, <1>19
  <2>2. \/ \E i \in 1..m : rows'[i].key = k
        \/ \E i \in 1..Len(todo') : todo'[i] = k
    BY <1>14, <2>1
  <2>3. QED
    BY <1>4, <1>15, <2>2
<1>20. QED
  BY <1>1, <1>9, <1>10, <1>12, <1>16, <1>17, <1>18, <1>19 DEF ReadingQuiet

\* The hot prefixes of a namespace are read while nobody disturbs.
LEMMA QuietHot ==
  ASSUME Types, ReadHot, ReadingQuiet
  PROVE  ReadingQuiet'
<1>1. PICK top : top = TopOf(todo[1])
  OBVIOUS
<1>2. /\ Reads("hot") /\ slips' = slips /\ OnlyUselessGo /\ IsTop(top, todo[1])
      /\ Len(rows) \in Nat /\ Len(rows) < Limit
      /\ rows' \in Seq(Rows) /\ Len(rows') \in Nat
      /\ Len(rows) <= Len(rows') /\ Len(rows') <= Limit
      /\ \A i \in 1..Len(rows) : rows'[i] = rows[i]
      /\ \A i \in 1..Len(rows') : i > Len(rows) =>
           \E j \in 1..Len(top) : rows'[i] = top[j]
      /\ (\A i \in 1..Len(rows) : NamespaceOf[rows[i].key] # todo[1]) =>
           /\ Len(rows') = Least(Len(rows) + Len(top), Limit)
           /\ \A j \in 1..Len(top) : Len(rows) + j <= Limit => rows'[Len(rows) + j] = top[j]
           /\ \A i \in 1..Len(rows') : i > Len(rows) => rows'[i] = top[i - Len(rows)]
  BY <1>1, ReadHotRows
<1>3. /\ at = "hot" /\ at' = at /\ view' = view
      /\ 1 \in 1..Len(todo) /\ Len(todo) \in Nat /\ Len(todo') = Len(todo) - 1
      /\ \A i \in 1..Len(todo') : i + 1 \in 1..Len(todo) /\ todo'[i] = todo[i + 1]
      /\ \A i \in 1..Len(todo) : i # 1 => \E k \in 1..Len(todo') : todo'[k] = todo[i]
  BY <1>2, ReadsFacts
<1>4. SameShown /\ StoreTypes /\ "hot" \in Family
  BY <1>2, LoadSettles DEF Types, Family
<1>5. Shown("hot")' = Shown("hot")
  BY <1>4, SameRows
<1>6. PICK n \in Nat, d \in Nat, l \in Nat, m \in Nat :
        n = Len(rows) /\ d = Len(rows') /\ l = Limit /\ n < l /\ n <= d /\ d <= l /\ m = Len(top)
  BY <1>2, LimitType DEF IsTop
<1>7. /\ \A i, j \in 1..Len(todo) : i < j => todo[i] # todo[j]
      /\ \A i, j \in 1..n : i < j => rows[i].key # rows[j].key
      /\ \A i \in 1..n : rows[i].key \in Shown("hot") /\ rows[i] = Row("hot", rows[i].key)
      /\ \A i \in 1..n : \A j \in 1..Len(todo) : todo[j] # NamespaceOf[rows[i].key]
      /\ \A k \in Shown("hot") : \/ \E i \in 1..n : rows[i].key = k
                                 \/ \E i \in 1..Len(todo) : todo[i] = NamespaceOf[k]
  <2>1. \A k : Target(at, k) = NamespaceOf[k]
    BY <1>3 DEF Target
  <2>2. TrueRows("hot", rows)
    BY <1>3 DEF ReadingQuiet
  <2>3. \A i \in 1..Len(rows) : \A j \in 1..Len(todo) : todo[j] # NamespaceOf[rows[i].key]
    BY <2>1 DEF ReadingQuiet
  <2>4. ASSUME NEW k \in Shown("hot")
        PROVE  \/ \E i \in 1..Len(rows) : rows[i].key = k
               \/ \E i \in 1..Len(todo) : todo[i] = NamespaceOf[k]
    <3>1. \/ \E i \in 1..Len(rows) : rows[i].key = k
          \/ \E i \in 1..Len(todo) : todo[i] = Target(at, k)
          \/ Len(rows) = Limit
      BY <1>3, <2>4 DEF ReadingQuiet
    <3>2. Len(rows) # Limit
      BY <1>6
    <3>3. QED
      BY <2>1, <3>1, <3>2
  <2>5. QED
    BY <1>6, <2>2, <2>3, <2>4 DEF ReadingQuiet, TrueRows
<1>8. /\ d = Least(n + m, l)
      /\ \A j \in 1..m : n + j <= l => rows'[n + j] = top[j]
      /\ \A i \in 1..d : i > n => rows'[i] = top[i - n]
  <2>1. \A i \in 1..n : NamespaceOf[rows[i].key] # todo[1]
    BY <1>3, <1>7
  <2>2. QED
    BY <1>2, <1>6, <2>1
<1>9. /\ \A i \in 1..m : /\ top[i].key \in Shown("hot") /\ NamespaceOf[top[i].key] = todo[1]
                         /\ top[i] = Row("hot", top[i].key)
      /\ \A i, j \in 1..m : i < j => top[i].key # top[j].key
      /\ \A p \in Shown("hot") : NamespaceOf[p] = todo[1] =>
           \/ \E i \in 1..m : top[i].key = p
           \/ m = l
  BY <1>2, <1>6 DEF IsTop
<1>10. ASSUME NEW i \in 1..d, i \notin 1..n
       PROVE  i - n \in 1..m /\ rows'[i] = top[i - n]
  <2>1. i > n /\ i <= n + m
    BY <1>6, <1>8, <1>10 DEF Least
  <2>2. QED
    BY <1>6, <1>8, <2>1
<1>11. ASSUME NEW i \in 1..d, NEW j \in 1..d, i < j
       PROVE  rows'[i].key # rows'[j].key
  <2>1. CASE j \in 1..n
    <3>1. i \in 1..n
      BY <1>6, <1>11, <2>1
    <3>2. QED
      BY <1>2, <1>6, <1>7, <1>11, <2>1, <3>1
  <2>2. CASE i \in 1..n /\ j \notin 1..n
    <3>1. PICK b \in 1..m : rows'[j] = top[b]
      BY <1>10, <2>2
    <3>2. NamespaceOf[rows'[j].key] = todo[1]
      BY <1>9, <3>1
    <3>3. NamespaceOf[rows[i].key] # todo[1]
      BY <1>3, <1>7, <2>2
    <3>4. rows'[i] = rows[i]
      BY <1>2, <1>6, <2>2
    <3>5. QED
      BY <3>2, <3>3, <3>4
  <2>3. CASE i \notin 1..n /\ j \notin 1..n
    <3>1. i - n \in 1..m /\ j - n \in 1..m /\ i - n < j - n
      BY <1>6, <1>10, <1>11, <2>3
    <3>2. top[i - n].key # top[j - n].key
      BY <1>9, <3>1
    <3>3. QED
      BY <1>10, <2>3, <3>2
  <2>4. QED
    BY <2>1, <2>2, <2>3
<1>12. TrueRows(at, rows)'
  <2>1. ASSUME NEW i \in 1..d
        PROVE  \E k \in Shown("hot") : rows'[i].key = k /\ rows'[i] = Row("hot", k)
    <3>1. CASE i \in 1..n
      BY <1>2, <1>6, <1>7, <3>1
    <3>2. CASE i \notin 1..n
      <4>1. PICK b \in 1..m : rows'[i] = top[b]
        BY <1>10, <3>2
      <4>2. QED
        BY <1>9, <4>1
    <3>3. QED
      BY <3>1, <3>2
  <2>2. TrueRows("hot", rows')
    BY <1>6, <1>11, <2>1 DEF TrueRows
  <2>3. QED
    BY <1>3, <1>4, <2>2, StillTrueRows
<1>13. \A i, j \in 1..Len(todo') : i < j => todo'[i] # todo'[j]
  BY <1>2, <1>7, TailIsDistinct
<1>14. ASSUME NEW i \in 1..d, NEW j \in 1..Len(todo')
       PROVE  todo'[j] # NamespaceOf[rows'[i].key]
  <2>1. j + 1 \in 1..Len(todo) /\ todo'[j] = todo[j + 1] /\ 1 < j + 1
    <3>1. j + 1 \in 1..Len(todo) /\ todo'[j] = todo[j + 1]
      BY <1>3
    <3>2. QED
      BY <3>1
  <2>2. CASE i \in 1..n
    BY <1>2, <1>6, <1>7, <2>1, <2>2
  <2>3. CASE i \notin 1..n
    <3>1. PICK b \in 1..m : rows'[i] = top[b]
      BY <1>10, <2>3
    <3>2. NamespaceOf[rows'[i].key] = todo[1]
      BY <1>9, <3>1
    <3>3. todo[1] # todo[j + 1]
      BY <1>3, <1>7, <2>1
    <3>4. QED
      BY <2>1, <3>2, <3>3
  <2>4. QED
    BY <2>2, <2>3
<1>15. ASSUME NEW k \in Shown("hot")
       PROVE  \/ \E i \in 1..d : rows'[i].key = k
              \/ \E i \in 1..Len(todo') : todo'[i] = NamespaceOf[k]
              \/ d = l
  <2>1. CASE \E i \in 1..n : rows[i].key = k
    <3>1. PICK i \in 1..n : rows[i].key = k
      BY <2>1
    <3>2. i \in 1..d /\ rows'[i].key = k
      BY <1>2, <1>6, <3>1
    <3>3. QED
      BY <3>2
  <2>2. CASE NamespaceOf[k] = todo[1]
    <3>1. CASE m = l
      BY <1>6, <1>8, <3>1 DEF Least
    <3>2. ASSUME NEW j \in 1..m, top[j].key = k
          PROVE  d = l \/ \E i \in 1..d : rows'[i].key = k
      <4>1. CASE n + j <= l
        <5>1. n + j \in 1..d /\ rows'[n + j].key = k
          BY <1>6, <1>8, <3>2, <4>1 DEF Least
        <5>2. QED
          BY <5>1
      <4>2. CASE n + j > l
        BY <1>6, <1>8, <4>2 DEF Least
      <4>3. QED
        BY <1>6, <4>1, <4>2
    <3>3. QED
      BY <1>9, <1>15, <2>2, <3>1, <3>2
  <2>3. ASSUME NEW i \in 1..Len(todo), todo[i] = NamespaceOf[k], NamespaceOf[k] # todo[1]
        PROVE  \E j \in 1..Len(todo') : todo'[j] = NamespaceOf[k]
    BY <1>3, <2>3
  <2>4. QED
    BY <1>7, <1>15, <2>1, <2>2, <2>3
<1>16. \A k : Target(at, k)' = NamespaceOf[k]
  BY <1>3 DEF Target
<1>17. \A i \in 1..Len(rows') : \A j \in 1..Len(todo') : todo'[j] # Target(at, rows[i].key)'
  BY <1>6, <1>14, <1>16
<1>18. ASSUME NEW k \in Shown(at)'
       PROVE  \/ \E i \in 1..Len(rows') : rows'[i].key = k
              \/ \E i \in 1..Len(todo') : todo'[i] = Target(at, k)'
              \/ at' = "hot" /\ Len(rows') = Limit
  <2>1. k \in Shown("hot")
    BY <1>3, <1>5, <1>18
  <2>2. \/ \E i \in 1..d : rows'[i].key = k
        \/ \E i \in 1..Len(todo') : todo'[i] = NamespaceOf[k]
        \/ d = l
    BY <1>15, <2>1
  <2>3. QED
    BY <1>3, <1>6, <1>16, <2>2
<1>19. QED
  BY <1>2, <1>3, <1>12, <1>13, <1>17, <1>18 DEF ReadingQuiet

\* Whatever is read while nobody disturbs.
LEMMA QuietRead ==
  ASSUME Types, QuietInv, ReadPage \/ ReadSummary \/ ReadPrefix \/ ReadHot
  PROVE  QuietInv'
<1> SUFFICES ASSUME Quiet'
             PROVE  /\ pc' = "read" => ReadingQuiet'
                    /\ pc' = "read" /\ \A f \in Family : Passed(f)' => Exact(f)'
  BY DEF QuietInv
<1>1. ASSUME NEW f, Reads(f), OnlyUselessGo, slips' = slips
      PROVE  /\ pc = "read" /\ at = f /\ pc' = pc /\ at' = at /\ view' = view
             /\ ReadingQuiet /\ \A g \in Family : Passed(g)' => Exact(g)'
  <2>1. /\ pc = "read" /\ at = f /\ pc' = pc /\ at' = at /\ view' = view
        /\ changes' = changes /\ resizing' = resizing
    BY <1>1, ReadsFacts
  <2>2. Quiet
    BY <1>1, <2>1 DEF Quiet
  <2>3. SameShown
    BY <1>1, LoadSettles DEF Types
  <2>4. ASSUME NEW g \in Family, Passed(g)'
        PROVE  Exact(g)'
    <3>1. Passed(g)
      BY <2>1, <2>4 DEF Passed
    <3>2. Exact(g)
      BY <2>1, <2>2, <3>1 DEF QuietInv
    <3>3. QED
      BY <2>1, <2>3, <3>2, ExactStays
  <2>5. QED
    BY <2>1, <2>2, <2>4 DEF QuietInv
<1>2. CASE ReadPage
  <2>1. /\ Reads("pages") /\ slips' = slips /\ OnlyUselessGo /\ Len(rows) < Limit
        /\ Row("pages", todo[1]) \in Rows
        /\ rows' = IF todo[1] \in plain THEN Append(rows, Row("pages", todo[1])) ELSE rows
    BY <1>2, ReadPageRow
  <2>2. todo[1] \in Shown("pages") <=> todo[1] \in plain
    BY DEF Shown, KeysOf
  <2>3. ReadingQuiet'
    BY <1>1, <2>1, <2>2, QuietOneMore
  <2>4. QED
    BY <1>1, <2>1, <2>3
<1>3. CASE ReadSummary
  <2>1. /\ Reads("summaries") /\ OnlyUselessGo
        /\ Row("summaries", todo[1]) \in Rows
        /\ \/ /\ rows' = IF summary[todo[1]].usable
                         THEN Append(rows, Row("summaries", todo[1])) ELSE rows
              /\ slips' = slips
           \/ slips' = TRUE /\ rows' = rows
    BY <1>3, ReadSummaryRow
  <2>2. /\ rows' = IF summary[todo[1]].usable
                   THEN Append(rows, Row("summaries", todo[1])) ELSE rows
        /\ slips' = slips
    BY <2>1 DEF Quiet
  <2>3. todo[1] \in Page
    <3>1. todo[1] \in Names("summaries")
      BY <2>1, ReadsFacts
    <3>2. Names("summaries") = Page
      BY DEF Names, Things, Family
    <3>3. QED
      BY <3>1, <3>2
  <2>4. todo[1] \in Shown("summaries") <=> summary[todo[1]].usable
    BY <2>3 DEF Shown, KeysOf, Types, StoreTypes
  <2>5. ReadingQuiet'
    BY <1>1, <2>1, <2>2, <2>4, QuietOneMore
  <2>6. QED
    BY <1>1, <2>1, <2>2, <2>5
<1>4. CASE ReadPrefix
  <2>1. /\ Reads("prefixes") /\ slips' = slips /\ OnlyUselessGo
        /\ Row("prefixes", todo[1]) \in Rows
        /\ rows' = IF seen[todo[1]] > 0 THEN Append(rows, Row("prefixes", todo[1])) ELSE rows
    BY <1>4, ReadPrefixRow
  <2>2. todo[1] \in Prefix
    <3>1. todo[1] \in Names("prefixes")
      BY <2>1, ReadsFacts
    <3>2. Names("prefixes") = Prefix
      BY DEF Names, Things, Family
    <3>3. QED
      BY <3>1, <3>2
  <2>3. todo[1] \in Shown("prefixes") <=> seen[todo[1]] > 0
    BY <2>2 DEF Shown, KeysOf
  <2>4. ReadingQuiet'
    BY <1>1, <2>1, <2>3, QuietOneMore
  <2>5. QED
    BY <1>1, <2>1, <2>4
<1>5. CASE ReadHot
  <2>1. Reads("hot") /\ slips' = slips /\ OnlyUselessGo
    BY <1>5, ReadHotRows
  <2>2. ReadingQuiet'
    BY <1>1, <1>5, <2>1, QuietHot
  <2>3. QED
    BY <1>1, <2>1, <2>2
<1>6. QED
  BY <1>2, <1>3, <1>4, <1>5

\* A scan that is over, while nobody disturbs.
LEMMA QuietScan ==
  ASSUME Types, QuietInv, Scan
  PROVE  QuietInv'
<1>1. /\ pc = "scan" /\ pc' = "read" /\ at' = at /\ rows' = << >>
      /\ changes' = changes /\ resizing' = resizing /\ slips' = slips /\ UNCHANGED store
      /\ view' = [view EXCEPT !.count[at] = Len(todo')]
  BY DEF Scan, history
<1>2. PICK f \in Family : f = at /\ f = at' /\ StoreTypes /\ view \in Views
  BY <1>1 DEF Types
<1> SUFFICES ASSUME Quiet'
             PROVE  ReadingQuiet' /\ \A g \in Family : Passed(g)' => Exact(g)'
  BY <1>1 DEF QuietInv
<1>3. Quiet /\ ~resizing
  BY <1>1 DEF Quiet
<1>4. scan.steady = KeysOf(f) /\ scan.ever = KeysOf(f)
  BY <1>1, <1>2, <1>3 DEF QuietInv
<1>5. PICK A : A = KeysOf(f) /\ A \subseteq Nat /\ IsFiniteSet(A) /\ Finds(todo', A, {})
  BY <1>3, <1>4, ScanChoice
<1>6. /\ todo' \in Seq(Nat) /\ Len(todo') \in Nat /\ Len(todo') = Cardinality(A)
      /\ \A x \in A : \E i \in 1..Len(todo') : todo'[i] = x
      /\ \A i \in 1..Len(todo') : todo'[i] \in A
      /\ \A i, j \in 1..Len(todo') : i < j => todo'[i] # todo'[j]
  <2>1. IsFound(todo', A, {})
    BY <1>5, Found
  <2>2. QED
    BY <2>1 DEF IsFound
<1>7. /\ view'.list = view.list /\ view'.count[f] = Len(todo')
      /\ \A g \in Family \ {f} : view'.count[g] = view.count[g]
  BY <1>1, <1>2, <1>6 DEF Views
<1>8. SameShown
  BY <1>1, <1>2, NothingGoes, LoadSettles
<1>9. Shown(f)' = Shown(f)
  BY <1>8, SameRows
<1>10. ASSUME NEW g \in Family, Passed(g)'
       PROVE  Exact(g)'
  <2>1. Passed(g) /\ g # f
    BY <1>1, <1>2, <1>10 DEF Passed, Position, Family
  <2>2. view'.list[g] = view.list[g] /\ view'.count[g] = view.count[g]
    BY <1>7, <2>1
  <2>3. Exact(g)
    BY <1>1, <1>3, <2>1 DEF QuietInv
  <2>4. QED
    BY <1>8, <2>2, <2>3, ExactStays
<1>11. Len(rows') = 0 /\ Limit \in Nat /\ 1..0 = {}
  BY <1>1, EmptySeq, LimitType
<1>12. f \in {"pages", "prefixes"} => view'.count[f] = Cardinality(Shown(f)')
  BY <1>2, <1>5, <1>6, <1>7, <1>9, ShownFacts
<1>13. f = "pages" => \A i \in 1..Len(todo') : todo'[i] \in plain'
  BY <1>1, <1>5, <1>6 DEF KeysOf, store
<1>14. ASSUME NEW k \in Shown(f)
       PROVE  \E i \in 1..Len(todo') : todo'[i] = Target(f, k)
  <2>1. Target(f, k) \in A
    BY <1>5, <1>14, ShownIsFound
  <2>2. QED
    BY <1>6, <2>1
<1>15. \A k : Target(at, k)' = Target(f, k)
  BY <1>2 DEF Target
<1>16. ASSUME NEW k \in Shown(at)'
       PROVE  \E i \in 1..Len(todo') : todo'[i] = Target(at, k)'
  <2>1. k \in Shown(f)
    BY <1>2, <1>9, <1>16
  <2>2. QED
    BY <1>14, <1>15, <2>1
<1>17. TrueRows(at, rows)'
  BY <1>11 DEF TrueRows
<1>18. ReadingQuiet'
  BY <1>2, <1>6, <1>11, <1>12, <1>13, <1>16, <1>17 DEF ReadingQuiet
<1>19. QED
  BY <1>10, <1>18

\* The list that becomes complete is exact.
LEMMA ListedExact ==
  ASSUME Types, ReadingQuiet, Listed, NEW f \in Family, f = at
  PROVE  Exact(f)'
<1>1. /\ f = at /\ (todo = << >> \/ Full) /\ UNCHANGED store
      /\ view'.list[f] = FirstOf(InOrderOfRank)
      /\ view'.count[f] = IF f = "summaries" THEN Len(rows) ELSE view.count[f]
  BY ListedParts
<1>2. PICK n \in Nat, l \in Nat : n = Len(rows) /\ l = Limit /\ rows \in Seq(Rows) /\ StoreTypes
  BY LenProperties, LimitType DEF Types
<1>3. /\ TrueRows(f, rows)
      /\ f \in {"pages", "prefixes"} => view.count[f] = Cardinality(Shown(f))
      /\ f \in {"pages", "hot"} => n <= l
  BY <1>1, <1>2 DEF ReadingQuiet
<1>4. Full => f \in {"pages", "hot"} /\ n = l
  BY <1>1, <1>2, <1>3 DEF Full
<1>5. ASSUME NEW k \in Shown(f), todo = << >>
      PROVE  (\E i \in 1..n : rows[i].key = k) \/ (f = "hot" /\ n = l)
  <2>1. \/ \E i \in 1..n : rows[i].key = k
        \/ \E i \in 1..Len(todo) : todo[i] = Target(at, k)
        \/ f = "hot" /\ n = l
    BY <1>1, <1>2, <1>5 DEF ReadingQuiet
  <2>2. 1..Len(todo) = {}
    BY <1>5, EmptySeq
  <2>3. QED
    BY <2>1, <2>2
<1>6. Complete(f, rows) \/ n = l
  BY <1>1, <1>2, <1>4, <1>5 DEF Complete
<1>7. Ranked(InOrderOfRank, rows)
  <2>1. CASE f = "pages"
    <3>1. ASSUME NEW i \in 1..n
          PROVE  rows[i].rank = 0
      <4>1. rows[i] = Row("pages", rows[i].key)
        BY <1>2, <1>3, <2>1 DEF TrueRows
      <4>2. Row("pages", rows[i].key).rank = 0
        BY DEF Row, Rank
      <4>3. QED
        BY <4>1, <4>2
    <3>2. QED
      BY <1>1, <1>2, <2>1, <3>1, RankedAsIs DEF InOrderOfRank
  <2>2. CASE f # "pages"
    BY <1>1, <1>2, <2>2, SortedBest DEF InOrderOfRank
  <2>3. QED
    BY <2>1, <2>2
<1>8. PICK t, list : t = InOrderOfRank /\ list = FirstOf(t) /\ list = Listing(f)'
  BY <1>1 DEF Listing
<1>9. IsExact(f, list) /\ (Complete(f, rows) => Len(rows) = Cardinality(Shown(f)))
  <2>1. Complete(f, rows) \/ Len(rows) = Limit
    BY <1>2, <1>6
  <2>2. Ranked(t, rows)
    BY <1>7, <1>8
  <2>3. QED
    BY <1>2, <1>3, <1>8, <2>1, <2>2, ExactList
<1>10. SameShown
  BY <1>1, <1>2, NothingGoes, LoadSettles
<1>11. Shown(f)' = Shown(f) /\ \A k \in Shown(f) : Row(f, k)' = Row(f, k)
  BY <1>10, SameRows
<1>12. f # "hot" => view'.count[f] = Cardinality(Shown(f))
  <2>1. CASE f \in {"pages", "prefixes"}
    BY <1>1, <1>3, <2>1
  <2>2. CASE f = "summaries"
    <3>1. Complete(f, rows)
      BY <1>1, <1>2, <1>4, <1>5, <2>2 DEF Complete
    <3>2. QED
      BY <1>1, <1>2, <1>9, <2>2, <3>1
  <2>3. QED
    BY <2>1, <2>2 DEF Family
<1>13. DOMAIN list = 1..Len(list)
  BY <1>9, LenProperties DEF IsExact
<1>14. \A i \in DOMAIN list : list[i].key \in Shown(f)' /\ list[i] = Row(f, list[i].key)'
  BY <1>9, <1>11, <1>13 DEF IsExact
<1>15. QED
  BY <1>8, <1>9, <1>11, <1>12, <1>13, <1>14 DEF Exact, IsExact

\* A list is complete, and the next family is scanned, while nobody disturbs.
LEMMA QuietListed ==
  ASSUME Types, QuietInv, Listed
  PROVE  QuietInv'
<1>1. PICK f \in Family : f = at
  BY DEF Types
<1>2. /\ pc = "read" /\ UNCHANGED store
      /\ changes' = changes /\ resizing' = resizing /\ slips' = slips
      /\ \A g \in Family \ {f} : /\ view'.list[g] = view.list[g]
                                 /\ view'.count[g] = view.count[g]
  BY <1>1, ListedParts
<1>3. SameShown
  BY <1>2, NothingGoes, LoadSettles DEF Types
<1>4. Quiet' => Quiet
  BY <1>2 DEF Quiet
<1>5. ASSUME Quiet', NEW g \in Family, Passed(g) \/ g = f
      PROVE  Exact(g)'
  <2>1. CASE g = f
    <3>1. ReadingQuiet
      BY <1>2, <1>4, <1>5 DEF QuietInv
    <3>2. QED
      BY <1>1, <2>1, <3>1, ListedExact
  <2>2. CASE g # f
    <3>1. Exact(g)
      BY <1>2, <1>4, <1>5, <2>2 DEF QuietInv
    <3>2. view'.list[g] = view.list[g] /\ view'.count[g] = view.count[g]
      BY <1>2, <2>2
    <3>3. QED
      BY <1>3, <3>1, <3>2, ExactStays
  <2>3. QED
    BY <2>1, <2>2
<1>6. CASE f = "hot"
  <2>1. pc' = "info" /\ at' = at
    BY <1>1, <1>6, ListedParts
  <2>2. \A g \in Family : Passed(g) \/ g = f
    BY <1>1, <1>6 DEF Passed, Position, Family
  <2>3. QED
    BY <1>5, <2>1, <2>2 DEF QuietInv
<1>7. CASE f # "hot"
  <2>1. ScanFrom(NextFamily[f])
    BY <1>1, <1>7, ListedParts
  <2>2. PICK h \in Family : /\ h = NextFamily[f] /\ pc' = "scan" /\ at' = h
                            /\ scan'.steady = KeysOf(h) /\ scan'.ever = KeysOf(h)
                            /\ Position[h] = Position[f] + 1
    BY <1>7, <2>1, NextFamilyFacts DEF ScanFrom
  <2>3. \A g \in Family : Passed(g)' => Passed(g) \/ g = f
    BY <1>1, <2>2 DEF Passed, Position, Family
  <2>4. KeysOf(h)' = KeysOf(h)
    BY <1>2 DEF KeysOf, store
  <2>5. KeysOf(at)' = KeysOf(h)
    BY <2>2, <2>4
  <2>6. QED
    BY <1>5, <2>2, <2>3, <2>5 DEF QuietInv
<1>8. QED
  BY <1>6, <1>7

LEMMA QuietBegin ==
  ASSUME Types, QuietInv, Begin
  PROVE  QuietInv'
<1>1. /\ pc' = "scan" /\ at' = "pages" /\ UNCHANGED store
      /\ scan'.steady = KeysOf("pages") /\ scan'.ever = KeysOf("pages")
  BY DEF Begin, ScanFrom
<1>2. \A f \in Family : ~Passed(f)'
  BY <1>1 DEF Passed, Position, Family
<1>3. KeysOf(at)' = KeysOf("pages")
  BY <1>1 DEF KeysOf, store
<1>4. QED
  BY <1>1, <1>2, <1>3 DEF QuietInv

\* Between the last list and the answer; the queue is read field by field.
LEMMA QuietQueueReads ==
  ASSUME Types, QuietInv, Info \/ Pending
  PROVE  QuietInv'
<1>1. /\ pc \in {"info", "pending"} /\ pc' \in {"pending", "done"} /\ UNCHANGED store
      /\ changes' = changes /\ resizing' = resizing /\ slips' = slips
  BY DEF Info, Pending, history
<1>2. view'.list = view.list /\ view'.count = view.count
  BY QueueReads
<1>3. SameShown
  BY <1>1, NothingGoes, LoadSettles DEF Types
<1>4. Quiet' => Quiet
  BY <1>1 DEF Quiet
<1>5. ASSUME Quiet', NEW f \in Family
      PROVE  Exact(f)'
  <2>1. Passed(f)
    BY <1>1 DEF Passed
  <2>2. Exact(f)
    BY <1>1, <1>4, <1>5, <2>1 DEF QuietInv
  <2>3. view'.list[f] = view.list[f] /\ view'.count[f] = view.count[f]
    BY <1>2
  <2>4. QED
    BY <1>3, <2>2, <2>3, ExactStays
<1>6. PICK q \in [length : Nat, pending : Nat] : q = view.queue
  BY DEF Types, Views
<1>7. view \in Views
  BY DEF Types
<1>8. CASE Info
  <2>1. pc' = "pending" /\ view' = [view EXCEPT !.queue.length = queue.length] /\ queue' = queue
    BY <1>8 DEF Info, store
  <2>2. view'.queue.length = queue'.length
    BY <1>7, <2>1 DEF Views
  <2>3. QED
    BY <1>5, <2>1, <2>2 DEF QuietInv
<1>9. CASE Pending
  <2>1. /\ pc = "pending" /\ pc' = "done" /\ queue' = queue
        /\ view' = [view EXCEPT !.queue.pending = queue.pending]
    BY <1>9 DEF Pending, store
  <2>2. view'.queue.pending = queue'.pending /\ view'.queue.length = view.queue.length
    BY <1>7, <2>1 DEF Views
  <2>3. Quiet => view.queue.length = queue.length
    BY <2>1 DEF QuietInv
  <2>4. QED
    BY <1>4, <1>5, <2>1, <2>2, <2>3 DEF QuietInv
<1>10. QED
  BY <1>8, <1>9

\* A change of the store is a disturbance.
LEMMA QuietChange ==
  ASSUME Types, NEW things, Changed(things)
  PROVE  QuietInv'
<1>1. changes \in Nat /\ changes' = changes + 1
  BY DEF Types, Changed
<1>2. changes' # 0
  BY <1>1
<1>3. QED
  BY <1>2 DEF QuietInv, Quiet

LEMMA QuietFails ==
  ASSUME Types, QuietInv, SnapshotFails
  PROVE  QuietInv'
BY DEF SnapshotFails, QuietInv

LEMMA QuietStutter ==
  ASSUME QuietInv, UNCHANGED snapVars
  PROVE  QuietInv'
<1>1. /\ pc' = pc /\ at' = at /\ scan' = scan /\ todo' = todo /\ rows' = rows /\ view' = view
      /\ changes' = changes /\ resizing' = resizing /\ slips' = slips /\ UNCHANGED store
      /\ queue' = queue /\ plain' = plain
  BY DEF snapVars, history, store
<1>2. \A f : KeysOf(f)' = KeysOf(f) /\ Shown(f)' = Shown(f)
  BY <1>1 DEF Shown, KeysOf, store
<1>3. \A f, k : Row(f, k)' = Row(f, k)
  BY <1>1 DEF Row, Rank, store
<1>4. \A f : Exact(f)' <=> Exact(f)
  BY <1>1, <1>2, <1>3 DEF Exact, Listing
<1>5. TrueRows(at, rows)' <=> TrueRows(at, rows)
  BY <1>1, <1>2, <1>3 DEF TrueRows
<1>6. \A k : Target(at, k)' = Target(at, k)
  BY <1>1 DEF Target
<1>7. ReadingQuiet' <=> ReadingQuiet
  BY <1>1, <1>2, <1>5, <1>6 DEF ReadingQuiet
<1>8. \A f : Passed(f)' <=> Passed(f)
  BY <1>1 DEF Passed
<1>9. Quiet' <=> Quiet
  BY <1>1 DEF Quiet
<1>10. QED
  BY <1>1, <1>2, <1>4, <1>7, <1>8, <1>9 DEF QuietInv

\* Every step keeps it.
LEMMA QuietIsKept ==
  ASSUME Types, QuietInv, [SnapNext]_snapVars
  PROVE  QuietInv'
<1>1. ASSUME NEW k \in Page \cup Evaluation, PlainChanges(k)
      PROVE  QuietInv'
  BY <1>1, QuietChange DEF PlainChanges
<1>2. ASSUME NEW k \in Page, SummaryChanges(k)
      PROVE  QuietInv'
  BY <1>2, QuietChange DEF SummaryChanges
<1>3. ASSUME NEW p \in Prefix, PrefixChanges(p)
      PROVE  QuietInv'
  BY <1>3, QuietChange DEF PrefixChanges
<1>4. ASSUME NEW n \in Namespace, HotExpires(n)
      PROVE  QuietInv'
  BY <1>4, QuietChange DEF HotExpires
<1>5. ASSUME QueueChanges
      PROVE  QuietInv'
  BY <1>5, QuietChange DEF QueueChanges
<1>6. CASE UNCHANGED snapVars
  BY <1>6, QuietStutter
<1>7. QED
  BY <1>1, <1>2, <1>3, <1>4, <1>5, <1>6, QuietBegin, QuietScan, QuietRead, QuietListed,
     QuietQueueReads, QuietFails DEF SnapNext

----------------------------------------------------------------------------
(* The theorems *)

\* Whether the browser shows the store or the traces, the snapshot starts idle, with
\* a store that Redis may hold; what is done about traces does not touch it.
LEMMA StartsIdle ==
  ASSUME Init
  PROVE  Types /\ Idle
<1>1. Idle /\ resizing \in BOOLEAN
  BY DEF Init, SnapInit
<1>2. \E s \in Stores : Holds(s)
  BY StoresAssumption DEF Init, SnapInit, SomeStore
<1>3. StoreTypes
  BY <1>2, StoresType
<1>4. QED
  BY <1>1, <1>3, IdleTypes

LEMMA SnapshotSteps ==
  ASSUME [Next]_vars
  PROVE  [SnapNext]_snapVars
BY DEF Next, vars

\* The types of the snapshot (dashboard_repository.go): what is to be read are names
\* of the family that was scanned, and no list is longer than the limit.
LEMMA SnapshotTypes == Spec => []SnapTypeOK
<1>1. Init => Types
  BY StartsIdle
<1>2. Types /\ [Next]_vars => Types'
  BY SnapshotSteps, TypesAreKept
<1>3. Types => SnapTypeOK
  <2> SUFFICES ASSUME Types PROVE SnapTypeOK
    OBVIOUS
  <2>1. todo \in Seq(Nat)
    BY NamesType, SeqMonotonic DEF Types
  <2>2. QED
    BY <2>1 DEF Types, StoreTypes, SnapTypeOK, Rows
<1>4. QED
  BY <1>1, <1>2, <1>3, PTL DEF Spec

\* What is there all through a snapshot is counted, and listed unless the list is
\* full of what ranks no lower, whatever comes and goes meanwhile
\* (LoadDashboardSnapshot).
THEOREM SteadyIsNotHidden == Spec => []NothingSteadyIsHidden
<1>1. Init => Types /\ SteadyInv
  <2> SUFFICES ASSUME Init PROVE Types /\ SteadyInv
    OBVIOUS
  <2>1. Types /\ Idle
    BY StartsIdle
  <2>2. SteadyInv
    BY <2>1 DEF Idle, SteadyInv, Passed, Position, Family
  <2>3. QED
    BY <2>1, <2>2
<1>2. Types /\ SteadyInv /\ [Next]_vars => Types' /\ SteadyInv'
  BY SnapshotSteps, TypesAreKept, SteadyIsKept
<1>3. SteadyInv => NothingSteadyIsHidden
  BY DEF SteadyInv, NothingSteadyIsHidden, Passed, Spoilt
<1>4. QED
  BY <1>1, <1>2, <1>3, PTL DEF Spec

\* The answer to a question that nobody disturbs is exact: counts, lists, ranks and
\* the queue (LoadDashboardSnapshot).
THEOREM QuietIsExact == Spec => []QuietSnapshotIsExact
<1>1. Init => Types /\ QuietInv
  <2> SUFFICES ASSUME Init PROVE Types /\ QuietInv
    OBVIOUS
  <2>1. Types /\ Idle
    BY StartsIdle
  <2>2. \A f \in Family : ~Passed(f)
    BY <2>1 DEF Idle, Passed, Position, Family
  <2>3. QuietInv
    BY <2>1, <2>2 DEF Idle, QuietInv
  <2>4. QED
    BY <2>1, <2>3
<1>2. Types /\ QuietInv /\ [Next]_vars => Types' /\ QuietInv'
  BY SnapshotSteps, TypesAreKept, QuietIsKept
<1>3. Types /\ QuietInv => QuietSnapshotIsExact
  <2> SUFFICES ASSUME Types, QuietInv, pc = "done", Quiet
               PROVE  view.queue = queue /\ \A f \in Family : Exact(f)
    BY DEF QuietSnapshotIsExact, Quiet
  <2>1. view.queue.length = queue.length /\ view.queue.pending = queue.pending
    BY DEF QuietInv
  <2>2. view.queue \in [length : Nat, pending : Nat] /\ queue \in [length : Nat, pending : Nat]
    BY DEF Types, StoreTypes, Views
  <2>3. view.queue = queue
    BY <2>1, <2>2
  <2>4. QED
    BY <2>3 DEF QuietInv, Passed
<1>4. QED
  BY <1>1, <1>2, <1>3, PTL DEF Spec

----------------------------------------------------------------------------
(* Traces: the depths of spans *)

\* The ancestors of span s that the spans A tell of.
Parents(A) == UNION {Above(u) : u \in A}
Closed(set, A, s) == Above(s) \subseteq set /\ \A u \in set \cap A : Above(u) \subseteq set
Ups(A, s) == {a \in Parents(A) : \A set \in SUBSET Parents(A) : Closed(set, A, s) => a \in set}

\* What is known of a trace.
Trees ==
  /\ Acyclic(trace)
  /\ \A s \in Span :
       /\ trace[s].start \in Nat /\ trace[s].end \in Nat
       /\ trace[s].service \in Services \cup {NoService}

\* The parents of spans are no more than the spans.
LEMMA ParentsFew ==
  ASSUME NEW A \in SUBSET Span
  PROVE  /\ IsFiniteSet(A) /\ Cardinality(A) \in Nat
         /\ IsFiniteSet(Parents(A)) /\ Cardinality(Parents(A)) \in Nat
         /\ Cardinality(Parents(A)) <= Cardinality(A)
         /\ Cardinality(A) <= Cardinality(Span) /\ Cardinality(Span) \in Nat
<1>1. /\ IsFiniteSet(A) /\ Cardinality(A) <= Cardinality(Span)
      /\ Cardinality(A) \in Nat /\ Cardinality(Span) \in Nat
  BY SpanAssumption, FS_Subset, FS_CardinalityType
<1> DEFINE all == {trace[u].parent : u \in A}
           f == [u \in A |-> trace[u].parent]
<1>2. f \in Surjection(A, all)
  BY DEF Surjection
<1>3. IsFiniteSet(all) /\ Cardinality(all) <= Cardinality(A)
  BY <1>1, <1>2, FS_Surjection
<1>4. Parents(A) \in SUBSET all
  BY DEF Parents, Above
<1> HIDE DEF all, f
<1>5. /\ IsFiniteSet(Parents(A)) /\ Cardinality(Parents(A)) <= Cardinality(all)
      /\ Cardinality(Parents(A)) \in Nat /\ Cardinality(all) \in Nat
  BY <1>3, <1>4, FS_Subset, FS_CardinalityType
<1>6. QED
  BY <1>1, <1>3, <1>5

\* The parent of a span is an ancestor of it, and so are those of its ancestors.
LEMMA UpsClosed ==
  ASSUME NEW A, NEW s \in A
  PROVE  /\ Ups(A, s) \subseteq Parents(A) /\ Above(s) \subseteq Ups(A, s)
         /\ \A u \in Ups(A, s) \cap A : Above(u) \subseteq Ups(A, s)
<1>1. \A q \in A : Above(q) \subseteq Parents(A)
  BY DEF Parents
<1>2. QED
  BY <1>1 DEF Ups, Closed

\* The ancestors of a span are its parent and the ancestors of that.
LEMMA UpsUnfold ==
  ASSUME NEW A, NEW s \in A
  PROVE  LET p == trace[s].parent
         IN  Ups(A, s) = IF p = NoSpan THEN {}
                         ELSE {p} \cup (IF p \in A THEN Ups(A, p) ELSE {})
<1> DEFINE p == trace[s].parent
           rest == IF p \in A THEN Ups(A, p) ELSE {}
<1>1. CASE p = NoSpan
  <2>1. Closed({}, A, s) /\ {} \in SUBSET Parents(A)
    BY <1>1 DEF Closed, Above
  <2>2. Ups(A, s) = {}
    BY <2>1 DEF Ups
  <2>3. QED
    BY <1>1, <2>2
<1>2. CASE p # NoSpan
  <2>1. Above(s) = {p}
    BY <1>2 DEF Above
  <2>2. \A q \in A : Above(q) \subseteq Parents(A)
    BY DEF Parents
  <2>3. ASSUME NEW q \in A
        PROVE  /\ Ups(A, q) \subseteq Parents(A) /\ Above(q) \subseteq Ups(A, q)
               /\ \A u \in Ups(A, q) \cap A : Above(u) \subseteq Ups(A, q)
    BY UpsClosed
  <2>4. Ups(A, s) \subseteq {p} \cup rest
    <3>1. {p} \cup rest \subseteq Parents(A)
      BY <2>1, <2>2, <2>3
    <3>2. ASSUME NEW u \in ({p} \cup rest) \cap A
          PROVE  Above(u) \subseteq {p} \cup rest
      BY <2>3, <3>2
    <3>3. Closed({p} \cup rest, A, s)
      BY <2>1, <3>2 DEF Closed
    <3> HIDE DEF rest, p
    <3>4. QED
      BY <3>1, <3>3 DEF Ups
  <2>5. p \in Ups(A, s)
    BY <2>1, <2>3
  <2>6. rest \subseteq Ups(A, s)
    <3> SUFFICES ASSUME p \in A PROVE Ups(A, p) \subseteq Ups(A, s)
      OBVIOUS
    <3>1. ASSUME NEW set \in SUBSET Parents(A), Closed(set, A, s)
          PROVE  Closed(set, A, p)
      BY <2>1, <3>1 DEF Closed
    <3>2. QED
      BY <3>1 DEF Ups
  <2>7. QED
    BY <1>2, <2>4, <2>5, <2>6
<1>3. QED
  BY <1>1, <1>2

\* No span is its own ancestor.
LEMMA NotItsOwn ==
  ASSUME Trees, NEW A \in SUBSET Span, NEW s \in A
  PROVE  s \notin Ups(A, s)
<1> SUFFICES ASSUME s \in Ups(A, s) PROVE FALSE
  OBVIOUS
<1> DEFINE circle == {u \in A : u \in Ups(A, s) /\ s \in Ups(A, u)}
<1>1. circle \in (SUBSET Span) \ {{}}
  OBVIOUS
<1>2. ASSUME NEW u \in circle
      PROVE  trace[u].parent \in circle
  <2> DEFINE p == trace[u].parent
  <2>1. u \in A /\ u \in Ups(A, s) /\ s \in Ups(A, u)
    OBVIOUS
  <2>2. p # NoSpan /\ (p = s \/ (p \in A /\ s \in Ups(A, p)))
    BY <2>1, UpsUnfold
  <2>3. p \in Ups(A, s)
    <3>1. Above(u) = {p}
      BY <2>2 DEF Above
    <3>2. QED
      BY <2>1, <3>1, UpsClosed
  <2>4. QED
    BY <2>2, <2>3
<1>3. QED
  BY <1>1, <1>2 DEF Trees, Acyclic

\* What buildDepthIndex computes: the number of ancestors.
DepthOf(A, u) == IF u \in A THEN Cardinality(Ups(A, u)) ELSE 0

LEMMA DepthSteps ==
  ASSUME Trees, NEW A \in SUBSET Span, NEW u
  PROVE  LET p == trace[u].parent
         IN  DepthOf(A, u) = IF u \notin A \/ p = NoSpan THEN 0 ELSE DepthOf(A, p) + 1
<1> DEFINE p == trace[u].parent
<1>1. CASE u \notin A
  BY <1>1 DEF DepthOf
<1>2. CASE u \in A /\ p = NoSpan
  BY <1>2, UpsUnfold, FS_EmptySet DEF DepthOf
<1>3. CASE u \in A /\ p # NoSpan /\ p \notin A
  <2>1. Ups(A, u) = {p}
    BY <1>3, UpsUnfold
  <2>2. DepthOf(A, u) = 1
    BY <1>3, <2>1, FS_Singleton DEF DepthOf
  <2>3. DepthOf(A, p) = 0
    BY <1>3 DEF DepthOf
  <2>4. QED
    BY <1>3, <2>2, <2>3
<1>4. CASE u \in A /\ p # NoSpan /\ p \in A
  <2>1. Ups(A, u) = Ups(A, p) \cup {p}
    BY <1>4, UpsUnfold
  <2>2. p \notin Ups(A, p)
    BY <1>4, NotItsOwn
  <2>3. Ups(A, p) \in SUBSET Parents(A)
    BY DEF Ups
  <2>4. IsFiniteSet(Ups(A, p))
    BY <2>3, ParentsFew, FS_Subset
  <2>5. QED
    BY <1>4, <2>1, <2>2, <2>4, FS_AddElement DEF DepthOf
<1>5. QED
  BY <1>1, <1>2, <1>3, <1>4

\* The depth index of the spans that have arrived.
LEMMA DepthFacts ==
  ASSUME Trees, arrived \subseteq Span, NEW s \in arrived
  PROVE  Depth(s) = Cardinality(Ups(arrived, s))
<1> DEFINE A == arrived
           all == A \cup {trace[v].parent : v \in A}
           Step(f) == [u \in all |-> IF u \notin A \/ trace[u].parent = NoSpan THEN 0
                                     ELSE f[trace[u].parent] + 1]
           index == [u \in all |-> DepthOf(A, u)]
           chosen == CHOOSE f : f = Step(f)
<1>1. Depth(s) = chosen[s]
  BY DEF Depth
<1>2. index = Step(index)
  <2>1. \A u \in A : trace[u].parent \in all
    OBVIOUS
  <2>2. \A u \in all : index[u] = Step(index)[u]
    BY <2>1, DepthSteps
  <2>3. QED
    BY <2>2
<1>3. chosen = Step(chosen)
  BY <1>2
<1> HIDE DEF chosen
<1>4. \A u \in A : chosen[u] = index[u]
  <2> DEFINE wrong == {u \in A : chosen[u] # index[u]}
  <2>1. \A u \in wrong : trace[u].parent \in wrong
    <3> SUFFICES ASSUME NEW u \in wrong, trace[u].parent \notin wrong PROVE FALSE
      OBVIOUS
    <3>1. u \in all /\ trace[u].parent \in all
      OBVIOUS
    <3> DEFINE p == trace[u].parent
    <3>2. /\ chosen[u] = IF u \notin A \/ p = NoSpan THEN 0 ELSE chosen[p] + 1
          /\ index[u] = IF u \notin A \/ p = NoSpan THEN 0 ELSE index[p] + 1
      BY <1>2, <1>3, <3>1
    <3>3. p \notin A
      BY <3>2
    <3>4. chosen[p] = 0 /\ index[p] = 0
      BY <1>3, <3>1, <3>3 DEF DepthOf
    <3>5. QED
      BY <3>2, <3>4
  <2>2. wrong = {}
    BY <2>1 DEF Trees, Acyclic
  <2>3. QED
    BY <2>2
<1>5. QED
  BY <1>1, <1>4 DEF DepthOf

----------------------------------------------------------------------------
(* Traces: the root of a page, and the time it covers *)

\* A finite set of numbers that is not empty has a greatest one.
LEMMA GreatestNumber ==
  ASSUME NEW S, S \subseteq Nat, IsFiniteSet(S), S # {}
  PROVE  \E m \in S : \A n \in S : n <= m
<1> DEFINE Sized(n) == {T \in SUBSET Nat : IsFiniteSet(T) /\ Cardinality(T) = n}
           good == {n \in Nat : \A T \in Sized(n) : T # {} => \E m \in T : \A k \in T : k <= m}
<1>1. 0 \in good
  BY FS_EmptySet
<1>2. ASSUME NEW n \in Nat, n \in good
      PROVE  n + 1 \in good
  <2> SUFFICES ASSUME NEW T \in Sized(n + 1), T # {}
               PROVE  \E m \in T : \A k \in T : k <= m
    OBVIOUS
  <2>1. PICK x \in T : TRUE
    OBVIOUS
  <2>2. T \ {x} \in Sized(n)
    <3>1. IsFiniteSet(T) /\ Cardinality(T) = n + 1 /\ T \subseteq Nat
      OBVIOUS
    <3>2. IsFiniteSet(T \ {x}) /\ Cardinality(T \ {x}) = (n + 1) - 1
      BY <2>1, <3>1, FS_RemoveElement
    <3>3. QED
      BY <3>1, <3>2
  <2>3. CASE T \ {x} = {}
    BY <2>1, <2>3
  <2>4. CASE T \ {x} # {}
    <3>1. PICK m \in T \ {x} : \A k \in T \ {x} : k <= m
      BY <1>2, <2>2, <2>4
    <3>2. \A k \in T : k \in Nat
      OBVIOUS
    <3>3. CASE x <= m
      BY <3>1, <3>3
    <3>4. CASE ~(x <= m)
      <4>1. \A k \in T : k <= x
        BY <2>1, <3>1, <3>2, <3>4
      <4>2. QED
        BY <2>1, <4>1
    <3>5. QED
      BY <3>3, <3>4
  <2>5. QED
    BY <2>3, <2>4
<1> HIDE DEF good
<1>3. Nat \subseteq good
  BY <1>1, <1>2, Induction
<1>4. Cardinality(S) \in good /\ S \in Sized(Cardinality(S))
  BY <1>3, FS_CardinalityType
<1>5. QED
  BY <1>4 DEF good

\* Of some spans one is the first, by its start and by its ID.
LEMMA FirstFacts ==
  ASSUME Trees, NEW A \in SUBSET Span, A # {}
  PROVE  /\ First(A) \in A
         /\ \A u \in A : trace[First(A)].start <= trace[u].start
<1>1. \A s \in A : s \in Nat /\ trace[s].start \in Nat
  BY SpanAssumption DEF Trees
<1> DEFINE starts == {trace[s].start : s \in A}
<1>2. PICK t \in starts : \A u \in starts : t <= u
  <2>1. starts \subseteq Nat /\ starts # {}
    BY <1>1
  <2> HIDE DEF starts
  <2>2. QED
    BY <2>1, LeastNumber
<1> DEFINE early == {s \in A : trace[s].start = t}
<1>3. PICK s \in early : \A u \in early : s <= u
  <2>1. early \subseteq Nat /\ early # {}
    BY <1>1, <1>2
  <2> HIDE DEF early
  <2>2. QED
    BY <2>1, LeastNumber
<1>4. s \in A /\ \A u \in A \ {s} : Earlier(s, u)
  <2> SUFFICES ASSUME NEW u \in A \ {s} PROVE Earlier(s, u)
    OBVIOUS
  <2>1. t <= trace[u].start /\ trace[s].start = t
    BY <1>2, <1>3
  <2>2. trace[u].start = t => s <= u
    BY <1>3
  <2>3. QED
    BY <1>1, <2>1, <2>2 DEF Earlier
<1>5. First(A) \in A /\ \A u \in A \ {First(A)} : Earlier(First(A), u)
  BY <1>4 DEF First
<1>6. QED
  BY <1>1, <1>5 DEF Earlier

\* The root: a span without a parent if there is one, and the first of these.
LEMMA RootFacts ==
  ASSUME Trees, arrived \subseteq Span, arrived # {}
  PROVE  /\ RootSpan \in arrived
         /\ \A s \in arrived : trace[s].parent = NoSpan =>
              trace[RootSpan].parent = NoSpan /\ trace[RootSpan].start <= trace[s].start
<1> DEFINE tops == {s \in arrived : trace[s].parent = NoSpan}
<1>1. CASE tops = {}
  BY <1>1, FirstFacts DEF RootSpan
<1>2. CASE tops # {}
  <2>1. First(tops) \in tops /\ \A u \in tops : trace[First(tops)].start <= trace[u].start
    BY <1>2, FirstFacts
  <2>2. RootSpan = First(tops)
    BY <1>2 DEF RootSpan
  <2>3. QED
    BY <2>1, <2>2
<1>3. QED
  BY <1>1, <1>2

\* The time that spans cover: from the first start that is known to the last end.
Covering(start, end, A) ==
  /\ start \in Nat /\ end \in Nat
  /\ start > 0 => \E s \in A : trace[s].start = start
  /\ \E s \in A : trace[s].end = end
  /\ \A s \in A : /\ trace[s].start > 0 => start \in 1..trace[s].start
                  /\ trace[s].end <= end

LEMMA TimesFacts ==
  ASSUME Trees, arrived \subseteq Span, arrived # {}
  PROVE  Covering(MinStart, MaxEnd, arrived)
<1>1. \A s \in arrived : trace[s].start \in Nat /\ trace[s].end \in Nat
  BY DEF Trees
<1> DEFINE known == {trace[s].start : s \in arrived} \ {0}
           ends == {trace[s].end : s \in arrived}
<1>2. /\ MinStart \in Nat
      /\ MinStart > 0 => \E s \in arrived : trace[s].start = MinStart
      /\ \A s \in arrived : trace[s].start > 0 => MinStart \in 1..trace[s].start
  <2>1. CASE known = {}
    BY <1>1, <2>1 DEF MinStart
  <2>2. CASE known # {}
    <3>1. \E t \in known : \A u \in known : t <= u
      BY <1>1, <2>2, LeastNumber
    <3>2. MinStart = CHOOSE t \in known : \A u \in known : t <= u
      BY <2>2 DEF MinStart
    <3>3. MinStart \in known /\ \A u \in known : MinStart <= u
      BY <3>1, <3>2
    <3>4. QED
      BY <1>1, <3>3
  <2>3. QED
    BY <2>1, <2>2
<1>3. MaxEnd \in ends /\ \A s \in arrived : trace[s].end <= MaxEnd
  <2>1. IsFiniteSet(arrived)
    BY SpanAssumption, FS_Subset
  <2> DEFINE f == [s \in arrived |-> trace[s].end]
  <2>2. f \in Surjection(arrived, ends)
    BY DEF Surjection
  <2>3. IsFiniteSet(ends)
    BY <2>1, <2>2, FS_Surjection
  <2>4. \E t \in ends : \A u \in ends : u <= t
    <3>1. ends \subseteq Nat /\ ends # {}
      BY <1>1
    <3> HIDE DEF ends
    <3>2. QED
      BY <2>3, <3>1, GreatestNumber
  <2>5. \E t \in ends : \A s \in arrived : trace[s].end <= t
    BY <2>4
  <2>6. QED
    BY <2>5 DEF MaxEnd
<1>4. QED
  BY <1>1, <1>2, <1>3 DEF Covering

\* The whole milliseconds in a time: they take no longer, and a shorter time has no
\* more of them.
LEMMA Milliseconds ==
  ASSUME NEW t \in Nat
  PROVE  /\ t \div Milli \in Nat
         /\ (t \div Milli) * Milli <= t
         /\ \A u \in 0..t : u \div Milli <= t \div Milli
<1>1. Milli \in Nat /\ Milli > 0
  BY MilliAssumption
<1>2. \A u \in Nat : /\ u \div Milli \in Nat
                     /\ Milli * (u \div Milli) <= u
                     /\ u < Milli * (u \div Milli) + Milli
  BY <1>1
<1>3. ASSUME NEW u \in 0..t
      PROVE  u \div Milli <= t \div Milli
  <2> DEFINE p == u \div Milli
             q == t \div Milli
  <2>1. /\ p \in Nat /\ q \in Nat
        /\ Milli * p <= u /\ t < Milli * q + Milli
    BY <1>2
  <2> HIDE DEF p, q
  <2>2. Milli * p < Milli * (q + 1)
    BY <1>1, <2>1
  <2>3. p < q + 1
    BY <1>1, <2>1, <2>2
  <2>4. QED
    BY <2>1, <2>3 DEF p, q
<1>4. (t \div Milli) * Milli <= t
  BY <1>1, <1>2
<1>5. QED
  BY <1>2, <1>3, <1>4

\* A duration is that of spans A, which go from start to end, with this root: as long
\* as each of them whose start is known, and no longer than that time.
Lasting(duration, root, start, end, A) ==
  /\ \A s \in A : trace[s].start > 0 => SpanMs(s) <= 1 \/ SpanMs(s) <= duration
  /\ trace[root].start > 0 => duration <= 1 \/ duration * Milli <= end - start

\* A span that lies between two times has no more milliseconds than they have.
LEMMA SpanMsFits ==
  ASSUME NEW s, NEW b \in Nat, NEW e \in Nat,
         trace[s].start \in Nat, trace[s].end \in Nat, b <= trace[s].start, trace[s].end <= e
  PROVE  /\ SpanMs(s) \in Nat
         /\ SpanMs(s) <= 1 \/ (b < e /\ SpanMs(s) <= (e - b) \div Milli)
<1>1. CASE trace[s].end <= trace[s].start
  BY <1>1 DEF SpanMs
<1>2. CASE trace[s].end > trace[s].start
  <2>1. trace[s].end - trace[s].start \in 0..(e - b) /\ e - b \in Nat /\ b < e
    BY <1>2
  <2>2. /\ (trace[s].end - trace[s].start) \div Milli \in Nat
        /\ (trace[s].end - trace[s].start) \div Milli <= (e - b) \div Milli
    BY <2>1, Milliseconds
  <2>3. SpanMs(s) \in {1, (trace[s].end - trace[s].start) \div Milli}
    BY <1>2 DEF SpanMs
  <2>4. QED
    BY <2>1, <2>2, <2>3
<1>3. QED
  BY <1>1, <1>2

\* The duration of the spans there are.
LEMMA DurationFacts ==
  ASSUME Trees, arrived \subseteq Span, arrived # {}
  PROVE  Lasting(Duration, RootSpan, MinStart, MaxEnd, arrived)
<1>1. \A s \in arrived : trace[s].start \in Nat /\ trace[s].end \in Nat
  BY DEF Trees
<1>2. /\ MinStart \in Nat /\ MaxEnd \in Nat
      /\ \A s \in arrived : /\ trace[s].start > 0 => MinStart \in 1..trace[s].start
                            /\ trace[s].end <= MaxEnd
  BY TimesFacts DEF Covering
<1> DEFINE ms == (MaxEnd - MinStart) \div Milli
<1>3. ASSUME NEW s \in arrived, trace[s].start > 0
      PROVE  /\ SpanMs(s) \in Nat
             /\ SpanMs(s) <= 1 \/ (0 < MinStart /\ MinStart < MaxEnd /\ SpanMs(s) <= ms)
  BY <1>1, <1>2, <1>3, SpanMsFits
<1>4. MinStart < MaxEnd => ms \in Nat /\ ms * Milli <= MaxEnd - MinStart
  BY <1>2, Milliseconds
<1>5. RootSpan \in arrived
  BY RootFacts
<1>6. \/ 0 < MinStart /\ MinStart < MaxEnd /\ ms # 0 /\ Duration = ms
      \/ Duration = SpanMs(RootSpan) /\ ((0 < MinStart /\ MinStart < MaxEnd) => ms = 0)
  BY <1>2 DEF Duration
<1> HIDE DEF ms
<1>7. QED
  BY <1>3, <1>4, <1>5, <1>6 DEF Lasting

----------------------------------------------------------------------------
(* Traces: the errors of a page *)

\* A sum over the subsets of W that is taken item by item, from any item, with the
\* numbers g.
AddsUp(f, W, g) ==
  f = [T \in SUBSET W |-> IF T = {} THEN 0
                          ELSE g[CHOOSE x \in T : TRUE] + f[T \ {CHOOSE x \in T : TRUE}]]

\* There is one such sum.
LEMMA OneSum ==
  ASSUME NEW W, IsFiniteSet(W), NEW g, NEW f, AddsUp(f, W, g), NEW h, AddsUp(h, W, g)
  PROVE  \A T \in SUBSET W : f[T] = h[T]
<1> DEFINE Sized(n) == {T \in SUBSET W : Cardinality(T) = n}
           good == {n \in Nat : \A T \in Sized(n) : f[T] = h[T]}
<1>1. \A T \in SUBSET W : IsFiniteSet(T) /\ Cardinality(T) \in Nat
  BY FS_Subset, FS_CardinalityType
<1>2. ASSUME NEW T \in SUBSET W, T = {}
      PROVE  f[T] = 0 /\ h[T] = 0
  BY <1>2 DEF AddsUp
<1>3. ASSUME NEW T \in SUBSET W, T # {}
      PROVE  \E x \in T : f[T] = g[x] + f[T \ {x}] /\ h[T] = g[x] + h[T \ {x}]
  <2> DEFINE x == CHOOSE y \in T : TRUE
  <2>1. x \in T
    BY <1>3
  <2>2. f[T] = g[x] + f[T \ {x}] /\ h[T] = g[x] + h[T \ {x}]
    BY <1>3 DEF AddsUp
  <2> HIDE DEF x
  <2>3. QED
    BY <2>1, <2>2
<1>4. 0 \in good
  <2> SUFFICES ASSUME NEW T \in Sized(0) PROVE f[T] = h[T]
    OBVIOUS
  <2>1. T = {}
    BY <1>1, FS_EmptySet
  <2>2. QED
    BY <1>2, <2>1
<1>5. ASSUME NEW n \in Nat, n \in good
      PROVE  n + 1 \in good
  <2> SUFFICES ASSUME NEW T \in Sized(n + 1) PROVE f[T] = h[T]
    OBVIOUS
  <2>1. IsFiniteSet(T) /\ T # {}
    BY <1>1, FS_EmptySet
  <2>2. PICK x \in T : f[T] = g[x] + f[T \ {x}] /\ h[T] = g[x] + h[T \ {x}]
    BY <1>3, <2>1
  <2>3. Cardinality(T \ {x}) = (n + 1) - 1
    BY <2>1, FS_RemoveElement
  <2>4. T \ {x} \in Sized(n)
    BY <2>3
  <2>5. QED
    BY <1>5, <2>2, <2>4
<1> HIDE DEF good
<1>6. Nat \subseteq good
  BY <1>4, <1>5, Induction
<1>7. QED
  BY <1>1, <1>6 DEF good

\* The errors of spans that are of one of the services T.
Erring(A, T) == {s \in A : trace[s].service \in T /\ SpanError(s)}

\* The errors of the services add up to those of their spans.
LEMMA ServiceErrors ==
  ASSUME NEW A \in SUBSET Span, NEW stats,
         stats = [v \in ServicesOf(A) |-> stats[v]],
         \A v \in ServicesOf(A) : stats[v].errors = Cardinality(Erring(A, {v}))
  PROVE  ErrorsIn(stats) = Cardinality(Erring(A, ServicesOf(A)))
<1> DEFINE W == ServicesOf(A)
           g == [v \in W |-> stats[v].errors]
           Step(f) == [T \in SUBSET W |-> IF T = {} THEN 0
                        ELSE stats[CHOOSE x \in T : TRUE].errors
                               + f[T \ {CHOOSE x \in T : TRUE}]]
           chosen == CHOOSE f : f = Step(f)
           sum == [T \in SUBSET W |-> Cardinality(Erring(A, T))]
<1>1. ErrorsIn(stats) = chosen[W]
  <2>1. DOMAIN stats = W
    OBVIOUS
  <2>2. QED
    BY <2>1 DEF ErrorsIn, MapThenSumSet, MapThenFoldSet
<1>2. IsFiniteSet(A) /\ IsFiniteSet(W)
  <2>1. IsFiniteSet(A)
    BY SpanAssumption, FS_Subset
  <2> DEFINE f == [s \in A |-> trace[s].service]
             all == {trace[s].service : s \in A}
  <2>2. f \in Surjection(A, all)
    BY DEF Surjection
  <2>3. IsFiniteSet(all)
    BY <2>1, <2>2, FS_Surjection
  <2>4. W \in SUBSET all
    BY DEF ServicesOf
  <2>5. QED
    BY <2>1, <2>3, <2>4, FS_Subset
<1>3. ASSUME NEW T \in SUBSET W
      PROVE  sum[T] = IF T = {} THEN 0 ELSE g[CHOOSE x \in T : TRUE] + sum[T \ {CHOOSE x \in T : TRUE}]
  <2>1. CASE T = {}
    <3>1. Erring(A, T) = {}
      BY <2>1 DEF Erring
    <3>2. QED
      BY <2>1, <3>1, FS_EmptySet
  <2>2. CASE T # {}
    <3> DEFINE x == CHOOSE y \in T : TRUE
               one == Erring(A, {x})
               rest == Erring(A, T \ {x})
    <3>1. x \in T
      BY <2>2
    <3> HIDE DEF x
    <3>2. Erring(A, T) = one \cup rest /\ one \cap rest = {}
      BY <3>1 DEF Erring
    <3>3. IsFiniteSet(one) /\ IsFiniteSet(rest)
      BY <1>2, FS_Subset DEF Erring
    <3>4. Cardinality(one \cap rest) = 0
      BY <3>2, FS_EmptySet
    <3>5. /\ Cardinality(one) \in Nat /\ Cardinality(rest) \in Nat
          /\ Cardinality(one \cup rest) = Cardinality(one) + Cardinality(rest) - Cardinality(one \cap rest)
      BY <3>3, FS_Union, FS_CardinalityType
    <3>6. g[x] = Cardinality(one) /\ sum[T \ {x}] = Cardinality(rest)
      BY <3>1
    <3>7. sum[T] = g[x] + sum[T \ {x}]
      <4>1. sum[T] = Cardinality(one \cup rest)
        BY <3>2
      <4> HIDE DEF one, rest, g, sum
      <4>2. QED
        BY <3>4, <3>5, <3>6, <4>1
    <3>8. QED
      BY <2>2, <3>7 DEF x
  <2>3. QED
    BY <2>1, <2>2
<1>4. AddsUp(sum, W, g)
  <2> HIDE DEF g
  <2>1. QED
    BY <1>3 DEF AddsUp
<1>5. \A f : AddsUp(f, W, g) <=> f = Step(f)
  <2> SUFFICES ASSUME NEW f
               PROVE  Step(f) = [T \in SUBSET W |-> IF T = {} THEN 0
                          ELSE g[CHOOSE x \in T : TRUE] + f[T \ {CHOOSE x \in T : TRUE}]]
    BY DEF AddsUp
  <2>1. ASSUME NEW T \in SUBSET W, NEW x \in T
        PROVE  g[x] = stats[x].errors
    BY <2>1
  <2>2. ASSUME NEW T \in SUBSET W
        PROVE  (IF T = {} THEN 0 ELSE stats[CHOOSE x \in T : TRUE].errors
                               + f[T \ {CHOOSE x \in T : TRUE}])
                 = (IF T = {} THEN 0 ELSE g[CHOOSE x \in T : TRUE]
                               + f[T \ {CHOOSE x \in T : TRUE}])
    <3> HIDE DEF g, W
    <3>1. QED
      BY <2>1
  <2> HIDE DEF g, W
  <2>3. QED
    BY <2>2, Zenon
<1> HIDE DEF g, Step
<1>6. AddsUp(chosen, W, g)
  BY <1>4, <1>5
<1> HIDE DEF W, chosen
<1>7. chosen[W] = sum[W]
  BY <1>2, <1>4, <1>6, OneSum
<1>8. QED
  BY <1>1, <1>7 DEF W

\* Every error is one of a service or of a span without one.
LEMMA ErrorsFacts ==
  ASSUME Trees, arrived \subseteq Span
  PROVE  Cardinality({s \in arrived : SpanError(s)})
           = ErrorsIn([v \in ServicesOf(arrived) |-> StatsOf(v)])
             + Cardinality({s \in arrived : trace[s].service = NoService /\ SpanError(s)})
<1> DEFINE W == ServicesOf(arrived)
           stats == [v \in W |-> StatsOf(v)]
           served == Erring(arrived, W)
           apart == {s \in arrived : trace[s].service = NoService /\ SpanError(s)}
           all == {s \in arrived : SpanError(s)}
<1>1. \A v \in W : stats[v].errors = Cardinality(Erring(arrived, {v}))
  <2> SUFFICES ASSUME NEW v \in W
               PROVE  Cardinality({s \in {s \in arrived : trace[s].service = v} : SpanError(s)})
                        = Cardinality(Erring(arrived, {v}))
    BY DEF StatsOf
  <2>1. {s \in {s \in arrived : trace[s].service = v} : SpanError(s)} = Erring(arrived, {v})
    BY DEF Erring
  <2>2. QED
    BY <2>1
<1>2. ErrorsIn(stats) = Cardinality(served)
  <2>1. stats = [v \in W |-> stats[v]]
    OBVIOUS
  <2> HIDE DEF stats
  <2>2. QED
    BY <1>1, <2>1, ServiceErrors
<1>3. all = served \cup apart /\ served \cap apart = {}
  BY DEF Erring, ServicesOf
<1>4. IsFiniteSet(served) /\ IsFiniteSet(apart)
  <2>1. IsFiniteSet(arrived)
    BY SpanAssumption, FS_Subset
  <2>2. QED
    BY <2>1, FS_Subset DEF Erring
<1>5. Cardinality(served \cap apart) = 0
  BY <1>3, FS_EmptySet
<1>6. /\ Cardinality(served) \in Nat /\ Cardinality(apart) \in Nat
      /\ Cardinality(served \cup apart) = Cardinality(served) + Cardinality(apart) - Cardinality(served \cap apart)
  BY <1>4, FS_Union, FS_CardinalityType
<1> HIDE DEF all, served, apart
<1>7. Cardinality(all) = Cardinality(served) + Cardinality(apart)
  BY <1>3, <1>5, <1>6
<1>8. QED
  BY <1>2, <1>7 DEF all, apart

----------------------------------------------------------------------------
(* Traces: the theorems *)

\* The page d of a trace: each of its parts is that of the spans it shows.
TruePage(d) ==
  /\ d.spans # {}
  /\ d.depth = [s \in d.spans |-> Cardinality(Ups(d.spans, s))]
  /\ d.root \in d.spans
  /\ \A s \in d.spans : trace[s].parent = NoSpan =>
       trace[d.root].parent = NoSpan /\ trace[d.root].start <= trace[s].start
  /\ Covering(d.start, d.end, d.spans)
  /\ Lasting(d.duration, d.root, d.start, d.end, d.spans)
  /\ d.errors = Cardinality({s \in d.spans : SpanError(s)})
  /\ d.errors = ErrorsIn(d.stats)
                + Cardinality({s \in d.spans : trace[s].service = NoService /\ SpanError(s)})

TraceInv ==
  /\ Trees /\ arrived \subseteq Span
  /\ shown.kind \in {"nothing", "detail", "item"}
  /\ IsDetail => shown.spans \subseteq arrived /\ TruePage(shown)

\* LoadTraceDetail makes such a page of the spans that have arrived.
LEMMA DetailIsTruePage ==
  ASSUME Trees, arrived \subseteq Span, arrived # {}, NEW d, d = Detail
  PROVE  d.kind = "detail" /\ d.spans = arrived /\ TruePage(d)
<1>1. /\ d.kind = "detail" /\ d.spans = arrived
      /\ d.depth = [s \in arrived |-> Depth(s)]
      /\ d.root = RootSpan /\ d.start = MinStart /\ d.end = MaxEnd /\ d.duration = Duration
      /\ d.errors = Cardinality({s \in arrived : SpanError(s)})
      /\ d.stats = [v \in ServicesOf(arrived) |-> StatsOf(v)]
  BY DEF Detail
<1>2. d.depth = [s \in arrived |-> Cardinality(Ups(arrived, s))]
  BY <1>1, DepthFacts
<1>3. QED
  BY <1>1, <1>2, RootFacts, TimesFacts, DurationFacts, ErrorsFacts DEF TruePage

\* The traces there may be are trees.
LEMMA TraceStarts ==
  ASSUME Init
  PROVE  TraceInv
<1>1. trace \in Trace
  BY TraceAssumption DEF Init, TraceInit, SomeTrace
<1>2. Trees
  BY <1>1, TraceAssumption DEF Trees
<1>3. QED
  BY <1>2 DEF Init, TraceInit, NothingYet, TraceInv, IsDetail

LEMMA TraceIsKept == TraceInv /\ [Next]_vars => TraceInv'
<1> SUFFICES ASSUME TraceInv, [Next]_vars PROVE TraceInv'
  OBVIOUS
<1>1. [TraceNext]_traceVars
  BY DEF Next, vars
<1>2. trace' = trace
  BY <1>1 DEF TraceNext, traceVars, Arrive, LoadTraceDetail, SearchTraces
<1>3. Trees'
  BY <1>2 DEF TraceInv, Trees, Acyclic
<1>4. ASSUME NEW d, TruePage(d)
      PROVE  TruePage(d)'
  BY <1>2, <1>4 DEF TruePage, Ups, Parents, Closed, Above, Covering, Lasting, SpanMs,
                     SpanError, MarkedError
<1>5. ASSUME NEW s \in Span, Arrive(s)
      PROVE  TraceInv'
  BY <1>3, <1>4, <1>5 DEF Arrive, TraceInv, IsDetail
<1>6. CASE LoadTraceDetail
  <2>1. shown' = Detail /\ arrived' = arrived /\ arrived # {}
    BY <1>6 DEF LoadTraceDetail
  <2>2. shown'.kind = "detail" /\ shown'.spans = arrived /\ TruePage(shown')
    BY <2>1, DetailIsTruePage DEF TraceInv
  <2>3. QED
    BY <1>3, <1>4, <2>1, <2>2 DEF TraceInv, IsDetail
<1>7. CASE SearchTraces
  <2>1. shown'.kind = "item" /\ arrived' = arrived
    BY <1>7 DEF SearchTraces, Item
  <2>2. QED
    BY <1>3, <2>1 DEF TraceInv, IsDetail
<1>8. CASE UNCHANGED traceVars
  BY <1>3, <1>4, <1>8 DEF traceVars, TraceInv, IsDetail
<1>9. QED
  BY <1>1, <1>5, <1>6, <1>7, <1>8 DEF TraceNext

\* A span of a page has no more ancestors than there are spans.
LEMMA UpsFew ==
  ASSUME NEW A \in SUBSET Span, NEW s
  PROVE  /\ IsFiniteSet(Ups(A, s)) /\ Cardinality(Ups(A, s)) \in 0..Cardinality(Span)
<1>1. Ups(A, s) \in SUBSET Parents(A)
  BY DEF Ups
<1>2. /\ IsFiniteSet(Ups(A, s)) /\ Cardinality(Ups(A, s)) <= Cardinality(Parents(A))
      /\ Cardinality(Ups(A, s)) \in Nat
  BY <1>1, ParentsFew, FS_Subset, FS_CardinalityType
<1>3. QED
  BY <1>2, ParentsFew

\* More spans tell of more ancestors.
LEMMA UpsGrow ==
  ASSUME NEW A, NEW B, A \subseteq B, NEW s \in A
  PROVE  Ups(A, s) \subseteq Ups(B, s)
<1>1. Parents(A) \subseteq Parents(B)
  BY DEF Parents
<1>2. \A u \in A : Above(u) \subseteq Parents(A)
  BY DEF Parents
<1>3. ASSUME NEW set \in SUBSET Parents(B), Closed(set, B, s)
      PROVE  Closed(set \cap Parents(A), A, s)
  BY <1>2, <1>3 DEF Closed
<1>4. QED
  BY <1>1, <1>3 DEF Ups

\* The types of the snapshot and of the page of a trace: its spans are there, its root
\* is one of them, and no span is deeper than there are spans.
THEOREM TypeCorrect == Spec => []TypeOK
<1>1. TraceInv => TraceTypeOK
  <2> SUFFICES ASSUME TraceInv PROVE TraceTypeOK
    OBVIOUS
  <2>1. ASSUME IsDetail
        PROVE  shown.depth \in [shown.spans -> 0..Cardinality(Span)]
    <3>1. shown.spans \in SUBSET Span
      BY <2>1 DEF TraceInv
    <3>2. QED
      BY <2>1, <3>1, UpsFew DEF TraceInv, TruePage
  <2>2. QED
    BY <2>1 DEF TraceInv, TruePage, TraceTypeOK
<1>2. Spec => []TraceInv
  BY TraceStarts, TraceIsKept, PTL DEF Spec
<1>3. SnapTypeOK /\ TraceTypeOK => TypeOK
  BY DEF TypeOK
<1>4. QED
  BY <1>1, <1>2, <1>3, SnapshotTypes, PTL

\* Whatever spans have arrived, and in whatever order, the depth at which a span is
\* shown is the number of its ancestors that are known of, and the page adds up
\* (buildDepthIndex, LoadTraceDetail).
THEOREM PagesAreTrue == Spec => []DetailIsTrue
<1>1. TraceInv => DetailIsTrue
  <2> SUFFICES ASSUME TraceInv, IsDetail PROVE DepthsAreTrue /\ PageAddsUp
    BY DEF DetailIsTrue
  <2>1. \A s \in shown.spans : Ancestors(s) = Ups(shown.spans, s)
    BY DEF Ancestors, Ups, ClosedAbove, Closed, Parents
  <2>2. DepthsAreTrue
    BY <2>1 DEF DepthsAreTrue, TraceInv, TruePage
  <2>3. PageAddsUp
    BY DEF PageAddsUp, TraceInv, TruePage, Covering, Lasting
  <2>4. QED
    BY <2>2, <2>3
<1>2. QED
  BY <1>1, TraceStarts, TraceIsKept, PTL DEF Spec

\* A trace that is loaded again only unfolds: the page that replaces another one shows
\* its spans, none higher up, all its errors, and no less time (LoadTraceDetail).
THEOREM PagesUnfold == Spec => TracesUnfold
<1>1. TraceInv /\ TraceInv' /\ [Next]_vars =>
        [(IsDetail /\ shown'.kind = "detail") =>
           /\ shown.spans \subseteq shown'.spans
           /\ \A s \in shown.spans : shown.depth[s] <= shown'.depth[s]
           /\ shown.errors <= shown'.errors
           /\ shown.start > 0 => shown'.start \in 1..shown.start
           /\ shown.end <= shown'.end]_traceVars
  <2> SUFFICES ASSUME TraceInv, TraceInv', [Next]_vars, traceVars' # traceVars,
                      IsDetail, shown'.kind = "detail"
               PROVE  /\ shown.spans \subseteq shown'.spans
                      /\ \A s \in shown.spans : shown.depth[s] <= shown'.depth[s]
                      /\ shown.errors <= shown'.errors
                      /\ shown.start > 0 => shown'.start \in 1..shown.start
                      /\ shown.end <= shown'.end
    OBVIOUS
  <2> DEFINE A == shown.spans
             B == shown'.spans
  <2>1. (\E s \in Span : Arrive(s)) \/ LoadTraceDetail \/ SearchTraces
    BY DEF Next, TraceNext, vars
  <2>2. trace' = trace /\ TruePage(shown) /\ A \subseteq arrived
    BY <2>1 DEF Arrive, LoadTraceDetail, SearchTraces, TraceInv
  <2>3. TruePage(shown') /\ A \subseteq B /\ B \subseteq Span
    <3>1. CASE LoadTraceDetail
      BY <2>2, <3>1, DetailIsTruePage DEF LoadTraceDetail, TraceInv
    <3>2. CASE shown' = shown
      BY <2>2, <3>2 DEF TraceInv
    <3>3. CASE SearchTraces
      BY <3>3 DEF SearchTraces, Item
    <3>4. QED
      BY <2>1, <3>1, <3>2, <3>3 DEF Arrive
  <2>4. ASSUME NEW s \in A
        PROVE  shown.depth[s] <= shown'.depth[s]
    <3>1. Ups(A, s) \in SUBSET Ups(B, s) /\ IsFiniteSet(Ups(B, s))
      BY <2>3, <2>4, UpsGrow, UpsFew
    <3>2. Cardinality(Ups(A, s)) <= Cardinality(Ups(B, s))
      BY <3>1, FS_Subset
    <3>3. QED
      BY <2>2, <2>3, <2>4, <3>2 DEF TruePage
  <2>5. shown.errors <= shown'.errors
    <3> DEFINE few == {s \in A : SpanError(s)}
               more == {s \in B : SpanError(s)}
    <3>1. IsFiniteSet(more) /\ few \in SUBSET more
      BY <2>3, SpanAssumption, FS_Subset
    <3>2. Cardinality(few) <= Cardinality(more)
      <4> HIDE DEF few, more
      <4>1. QED
        BY <3>1, FS_Subset
    <3>3. shown.errors = Cardinality(few) /\ shown'.errors = Cardinality(more)
      BY <2>2, <2>3 DEF TruePage
    <3>4. QED
      BY <3>2, <3>3
  <2>6. shown.start > 0 => shown'.start \in 1..shown.start
    BY <2>2, <2>3 DEF TruePage, Covering
  <2>7. shown.end <= shown'.end
    BY <2>2, <2>3 DEF TruePage, Covering
  <2>8. QED
    BY <2>3, <2>4, <2>5, <2>6, <2>7
<1>2. QED
  BY <1>1, TraceStarts, TraceIsKept, PTL DEF Spec, TracesUnfold
=============================================================================
