--------------------------- MODULE MCPrefixCache ----------------------------
(* Instances of PrefixCache for model checking. *)
EXTENDS PrefixCache, TLC

CONSTANTS c1, c2, u1, warm, m1, m2, a, b

Make(s, m, r, n) == [system |-> s, memory |-> m, rag |-> r, norm |-> n, tokens |-> 40]

Base == Make(a, a, a, 1)
NewSystem == Make(b, b, a, 1)
NewMemory == Make(a, b, b, 1)
NewRAG == Make(a, a, b, 1)
NewNorm == Make(a, a, a, 2)
Short == [Make(b, a, a, 1) EXCEPT !.tokens = 8]
Thin == Make(a, Blank, Blank, 1)

OnePrefix == {Base}
TwoPrefixes == {Base, NewSystem}
AllPrefixes == {Base, NewSystem, NewMemory, NewRAG, NewNorm, Short, Thin}

CallSymmetry == Permutations(Call)
=============================================================================
