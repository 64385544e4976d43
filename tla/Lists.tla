------------------------------- MODULE Lists --------------------------------
(***************************************************************************)
(* Lists as the code handles them: a sort, a filter, a sum.  They stand    *)
(* for Go's sort.SliceStable and for loops that append what passes a test; *)
(* ListProofs has what they compute for every list.                        *)
(***************************************************************************)
EXTENDS Naturals, Sequences, FiniteSets, SequencesExt

\* The elements of s at the positions I, in order.
Pick(s, I) ==
  LET pick[n \in Nat] ==
        IF n \notin DOMAIN s THEN << >>
        ELSE IF n \in I THEN Append(pick[n - 1], s[n]) ELSE pick[n - 1]
  IN  pick[Len(s)]

\* Of equal elements the first.
Once(s) == Pick(s, {i \in DOMAIN s : \A j \in 1..(i - 1) : s[j] # s[i]})

\* A stable sort.
Sorted(s, Before(_, _)) ==
  LET rank == [i \in DOMAIN s |-> Cardinality({j \in DOMAIN s :
                 Before(s[j], s[i]) \/ (j <= i /\ ~Before(s[i], s[j]))})]
  IN  [k \in DOMAIN s |-> s[CHOOSE i \in DOMAIN s : rank[i] = k]]

Total(s) ==
  LET total[n \in Nat] == IF n \in DOMAIN s THEN total[n - 1] + s[n] ELSE 0
  IN  total[Len(s)]
Least(m, n) == IF m < n THEN m ELSE n
=============================================================================
