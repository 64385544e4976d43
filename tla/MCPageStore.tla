---------------------------- MODULE MCPageStore -----------------------------
(* Instances of PageStore for model checking. *)
EXTENDS PageStore, TLC

CONSTANTS h1, h2, s1, s2, c1, c2, w1, t1, t2

K1 == [hash |-> h1, page |-> 1]
K2 == [hash |-> h1, page |-> 2]

BothKeys == {K1, K2}
\* The same key twice, or both.
TwoAtATime == {<<K1, K1>>, <<K1, K2>>}

OneKey == {K1}
OneAsked == {<<K1>>}

\* Left behind by an earlier release: a payload without artifact fields, with
\* and without a creation time, and an artifact of another schema version.
Legacy == [form |-> "legacy", hash |-> h1, release |-> "old", created |-> 1, expires |-> 0]
Undated == [Legacy EXCEPT !.created = 0]
Outdated == [form |-> "artifact", hash |-> h1, release |-> "old", created |-> 1,
             expires |-> 3]
LeftBehind == {Legacy, Undated, Outdated}
Dated == {Legacy, Outdated}

\* Two instances that one run explores; a step stays within the one or the other.
Called(calls) == {c \in DOMAIN calls : calls[c].pc # "new"}

\* In depth: one key, two savers of two texts, a reader that asks for the key twice, all
\* that was left behind, failures, and two lives of a page.
InDepth ==
  /\ page[K2].exp = 0 /\ summary[K2].payload = NoPayload
  /\ \A r \in Called(reader) : reader[r].asked = <<K1, K1>> /\ Called(reader) = {r}

\* In breadth: two keys, two readers that ask for both, a saver, and a legacy payload
\* under any of the keys, for one life; no call fails.
InBreadth ==
  /\ now <= 3
  /\ \A k \in Key :
       summary[k].payload = NoPayload
         \/ summary[k].payload.origin.first \notin {Undated, Outdated}
  /\ \A r \in Called(reader) : reader[r].asked = <<K1, K2>> /\ reader[r].pc # "failed"
  /\ \A s \in Called(saver) :
       Called(saver) = {s} /\ saver[s].text = t1 /\ saver[s].pc # "failed"
  /\ \A w \in Writer :
       writer[w].pc = "idle" \/ (writer[w].pc = "save" /\ writer[w].hash = h1)

\* In both, the worker has the first page to summarise.
Within ==
  /\ InDepth \/ InBreadth
  /\ \A w \in Writer : writer[w].pc = "save" => writer[w].key = K1
BoundedInit == Init /\ Within
BoundedNext ==             \* Next /\ Within', by who takes the step
  \/ Tick /\ Within'
  \/ \E s \in Saver : SaverStep(s) /\ Within'
  \/ \E r \in Reader : ReaderStep(r) /\ Within'
  \/ \E w \in Writer : WriterStep(w) /\ Within'
BoundedSpec == BoundedInit /\ [][BoundedNext]_vars

CallSymmetry == Permutations(Reader) \cup Permutations(Saver)
=============================================================================
