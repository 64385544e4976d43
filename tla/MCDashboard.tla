---------------------------- MODULE MCDashboard -----------------------------
(* Instances of Dashboard for model checking. *)
EXTENDS Dashboard

\* Pages 1 and 3, evaluation 2; prefixes 1 and 2 in namespace 1, 3 in namespace 2.
Namespaces == <<1, 1, 2>>

Good(t) == [there |-> TRUE, usable |-> TRUE, created |-> t]
Useless == [there |-> TRUE, usable |-> FALSE, created |-> 1]
Empty == [plain |-> {}, summary |-> [k \in Page |-> NoSummary],
          seen |-> [p \in Prefix |-> 0], score |-> [p \in Prefix |-> 0],
          queue |-> [length |-> 0, pending |-> 0]]

\* The families of keys one at a time: pages and their summaries, prefixes, jobs.
PageStores == {[Empty EXCEPT !.plain = ks, !.summary = s] :
                 ks \in SUBSET (Page \cup Evaluation),
                 s \in [Page -> {NoSummary, Good(1), Good(2), Useless}]}
PrefixStores == {[Empty EXCEPT !.seen = a, !.score = b] :
                   a \in [Prefix -> {0, 2}], b \in [Prefix -> 0..2]}
QueueStores == {[Empty EXCEPT !.queue = [length |-> 2, pending |-> n]] : n \in 0..2}
SomeStores == PageStores \cup PrefixStores \cup QueueStores

\* The parent of a span is a span, one that never arrives (9), or none; the spans
\* of a trace differ in their times, services and in how they tell of an error: one
\* of unknown start, one of a millisecond and a half, one that took no time and one
\* of half a millisecond.
Kind(p) == {[parent |-> p, start |-> 0, end |-> 2, failed |-> FALSE, marked |-> TRUE, service |-> "none"],
            [parent |-> p, start |-> 1, end |-> 4, failed |-> TRUE, marked |-> FALSE, service |-> "a"],
            [parent |-> p, start |-> 2, end |-> 2, failed |-> FALSE, marked |-> FALSE, service |-> "b"],
            [parent |-> p, start |-> 2, end |-> 3, failed |-> FALSE, marked |-> TRUE, service |-> "a"]}
Kinds == UNION {Kind(p) : p \in Span \cup {0, 9}}

SomeTraces == {t \in [Span -> Kinds] : Acyclic(t)}
=============================================================================
