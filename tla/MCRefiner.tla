----------------------------- MODULE MCRefiner ------------------------------
(* Instances of Refiner for model checking. *)
EXTENDS Refiner, TLC

CONSTANTS c1, c2, r1, h1, h2

\* The two calls page out the same text, in one page.  Nothing changes what is
\* left in the first one; later stages rewrite it in the second one.
Docs == (c1 :> [hash |-> h1, rest |-> h1, pages |-> 1, job |-> TRUE]) @@
        (c2 :> [hash |-> h1, rest |-> h2, pages |-> 1, job |-> TRUE])
=============================================================================
