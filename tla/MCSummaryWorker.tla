-------------------------- MODULE MCSummaryWorker ---------------------------
(* Instances of SummaryWorker for model checking. *)
EXTENDS SummaryWorker, TLC

CONSTANTS w1, w2, r1, r2, d1, d2

Kind(d, n, unchanged, says) ==
  [doc |-> d, pages |-> n, same |-> unchanged, text |-> says]

\* Cut into two pages; the pipeline goes on with the first.
Paged == Kind(d1, 2, FALSE, TRUE)
\* Over the limit only by its labels and separators: its text is one page, and
\* no later stage changes it.
OnePage == Kind(d2, 1, TRUE, TRUE)
\* Not paged: the policy has no paging stage, or the chunk was small.
Unpaged == Kind(d1, 0, FALSE, TRUE)
\* Nothing to summarise.
Blank == Kind(d1, 0, TRUE, FALSE)

AllChunks == {Paged, OnePage, Unpaged, Blank}
PagedChunks == {Paged, OnePage}
OnlyPaged == {Paged}

Symmetric == Permutations(Worker) \cup Permutations(Request)
=============================================================================
