----------------------------- MODULE ListProofs -----------------------------
(***************************************************************************)
(* What the operators of Lists compute, for every list: a pick keeps the   *)
(* elements and their order, a sort is a permutation in the given order,   *)
(* and picks, maps and joins one after the other go through the list once. *)
(* The operators are folds over positions, so the proofs are by induction; *)
(* the library states induction with an operator parameter, which the      *)
(* provers cannot instantiate, and here it is stated for sets of numbers.  *)
(***************************************************************************)
EXTENDS Lists, Integers, SequenceTheorems, FiniteSetTheorems, WellFoundedInduction, TLAPS

\* A set of numbers that is not empty has a least one.
LEMMA LeastNumber ==
  ASSUME NEW S, S \subseteq Nat, S # {}
  PROVE  \E m \in S : \A n \in S : m <= n
<1>1. PICK m \in S : \A n \in S : ~(<<n, m>> \in OpToRel(<, Nat))
  BY WFMin, NatLessThanWellFounded
<1>2. \A n \in S : ~(n < m)
  BY <1>1 DEF OpToRel
<1>3. QED
  BY <1>2

\* Induction on numbers, stated for a set.
LEMMA Induction ==
  ASSUME NEW S, 0 \in S, \A n \in Nat : n \in S => n + 1 \in S
  PROVE  Nat \subseteq S
<1> SUFFICES ASSUME Nat \ S # {} PROVE FALSE
  OBVIOUS
<1>1. PICK m \in Nat \ S : \A n \in Nat \ S : m <= n
  BY LeastNumber
<1>2. m # 0 /\ m - 1 \in Nat /\ m - 1 \notin Nat \ S
  BY <1>1
<1>3. QED
  BY <1>1, <1>2

\* A function on 1..n is a sequence.
LEMMA FunctionIsSequence ==
  ASSUME NEW S, NEW n \in Nat, NEW t \in [1..n -> S]
  PROVE  t \in Seq(S) /\ Len(t) = n /\ DOMAIN t = 1..n
OBVIOUS

\* A sequence, of whatever.
IsSequence(s) == s \in Seq({s[i] : i \in DOMAIN s})

\* Every sequence is one of its own elements.
LEMMA SequenceOfItsElements ==
  ASSUME NEW S, NEW t \in Seq(S)
  PROVE  IsSequence(t)
<1>1. /\ Len(t) \in Nat
      /\ t \in [1..Len(t) -> S]
  BY LenProperties
<1>2. PICK R : R = {t[i] : i \in DOMAIN t}
  OBVIOUS
<1>3. t \in [1..Len(t) -> R]
  BY <1>1, <1>2
<1>4. t \in Seq(R)
  BY <1>1, <1>3, FunctionIsSequence
<1>5. QED
  BY <1>2, <1>4 DEF IsSequence

\* Appending to a sequence leaves its elements where they are.
LEMMA AppendFacts ==
  ASSUME NEW s, IsSequence(s), NEW e
  PROVE  /\ IsSequence(Append(s, e))
         /\ Len(s) \in Nat
         /\ DOMAIN s = 1..Len(s)
         /\ DOMAIN Append(s, e) = 1..(Len(s) + 1)
         /\ Len(Append(s, e)) = Len(s) + 1
         /\ Append(s, e)[Len(s) + 1] = e
         /\ \A i \in 1..Len(s) : Append(s, e)[i] = s[i]
<1> DEFINE S == {s[i] : i \in DOMAIN s}
           T == S \cup {e}
           t == Append(s, e)
<1>1. s \in Seq(T)
  BY SeqMonotonic DEF IsSequence
<1>2. /\ Len(s) \in Nat
      /\ DOMAIN s = 1..Len(s)
  BY <1>1, LenProperties
<1>3. /\ t \in Seq(T)
      /\ Len(t) = Len(s) + 1
      /\ \A i \in 1..Len(s) : t[i] = s[i]
      /\ t[Len(s) + 1] = e
  BY <1>1, AppendProperties
<1>4. t \in [1..(Len(s) + 1) -> T] /\ DOMAIN t = 1..(Len(s) + 1)
  BY <1>3, LenProperties
<1>5. IsSequence(t)
  BY <1>3, SequenceOfItsElements
<1>6. QED
  BY <1>2, <1>3, <1>4, <1>5

\* f begins with b and takes the steps E at 1..n.
Recurs(f, b, n, E) == f = [i \in Nat |-> IF i \in 1..n THEN E[<<f[i - 1], i>>] ELSE b]

\* A function defined by recursion over 1..n exists, if its steps stay in a set.
LEMMA Recursion ==
  ASSUME NEW S, NEW b \in S, NEW n \in Nat, NEW E \in [S \X (1..n) -> S]
  PROVE  \E f \in [Nat -> S] : Recurs(f, b, n, E)
<1> DEFINE Ok(m, f) ==
             /\ f \in [0..m -> S] /\ f[0] = b
             /\ \A i \in 1..m : f[i] = E[<<f[i - 1], i>>]
           D == {m \in Nat : m <= n => \E f : Ok(m, f)}
<1>1. 0 \in D
  <2>1. Ok(0, [i \in 0..0 |-> b])
    OBVIOUS
  <2>2. QED
    BY <2>1
<1>2. ASSUME NEW m \in Nat, m \in D
      PROVE  m + 1 \in D
  <2> SUFFICES ASSUME m + 1 <= n PROVE \E f : Ok(m + 1, f)
    OBVIOUS
  <2>1. PICK f : Ok(m, f)
    BY <1>2
  <2> DEFINE g == [i \in 0..(m + 1) |-> IF i <= m THEN f[i] ELSE E[<<f[m], m + 1>>]]
  <2>2. f[m] \in S /\ m + 1 \in 1..n
    BY <2>1
  <2>3. g \in [0..(m + 1) -> S] /\ g[0] = b
    BY <2>1, <2>2
  <2>4. ASSUME NEW i \in 1..(m + 1)
        PROVE  g[i] = E[<<g[i - 1], i>>]
    <3>1. i - 1 \in 0..m /\ g[i - 1] = f[i - 1]
      OBVIOUS
    <3>2. CASE i <= m
      BY <2>1, <3>1, <3>2
    <3>3. CASE i = m + 1
      <4>1. g[i] = E[<<f[m], m + 1>>]
        BY <3>3
      <4>2. g[i - 1] = f[m] /\ i = m + 1
        BY <3>1, <3>3
      <4> HIDE DEF g
      <4>3. QED
        BY <4>1, <4>2
    <3>4. QED
      BY <3>2, <3>3
  <2> HIDE DEF g
  <2>5. QED
    BY <2>3, <2>4
<1>3. PICK f : Ok(n, f)
  <2> HIDE DEF D
  <2>1. Nat \subseteq D
    BY <1>1, <1>2, Induction
  <2> HIDE DEF Ok
  <2>2. QED
    BY <2>1 DEF D
<1> DEFINE g == [i \in Nat |-> IF i <= n THEN f[i] ELSE b]
<1>4. g \in [Nat -> S]
  BY <1>3
<1>5. ASSUME NEW i \in Nat
      PROVE  g[i] = IF i \in 1..n THEN E[<<g[i - 1], i>>] ELSE b
  <2>1. CASE i \in 1..n
    <3>1. i - 1 \in Nat /\ g[i] = f[i] /\ g[i - 1] = f[i - 1]
      BY <2>1
    <3>2. QED
      BY <1>3, <2>1, <3>1
  <2>2. CASE i \notin 1..n
    BY <1>3, <2>2
  <2>3. QED
    BY <2>1, <2>2
<1>6. g = [i \in Nat |-> IF i \in 1..n THEN E[<<g[i - 1], i>>] ELSE b]
  <2>1. g = [i \in Nat |-> g[i]]
    OBVIOUS
  <2> HIDE DEF g
  <2>2. QED
    BY <1>5, <2>1
<1> HIDE DEF g
<1>7. QED
  BY <1>4, <1>6 DEF Recurs

\* What every step of a recursion keeps, every value of it has.
LEMMA RecursionStays ==
  ASSUME NEW S, NEW n \in Nat, NEW f, f[0] \in S,
         \A i \in 1..n : f[i - 1] \in S => f[i] \in S
  PROVE  \A i \in 0..n : f[i] \in S
<1> DEFINE D == {i \in Nat : i <= n => f[i] \in S}
<1>1. 0 \in D
  OBVIOUS
<1>2. ASSUME NEW i \in Nat, i \in D
      PROVE  i + 1 \in D
  <2>1. i + 1 <= n => i + 1 \in 1..n /\ (i + 1) - 1 = i /\ i <= n
    OBVIOUS
  <2>2. QED
    BY <1>2, <2>1
<1>3. Nat \subseteq D
  <2> HIDE DEF D
  <2>1. QED
    BY <1>1, <1>2, Induction
<1>4. QED
  BY <1>3

\* Pick goes through the positions one by one.
PickSteps(pick, s, I) ==
  /\ pick[0] = << >>
  /\ \A n \in 1..Len(s) :
       pick[n] = IF n \in I THEN Append(pick[n - 1], s[n]) ELSE pick[n - 1]

\* It stops at the last one.
LEMMA PickRecursion ==
  ASSUME NEW S, NEW s \in Seq(S), NEW I
  PROVE  \E pick : Pick(s, I) = pick[Len(s)] /\ PickSteps(pick, s, I)
<1> DEFINE E == [p \in Seq(S) \X (1..Len(s)) |->
                   IF p[2] \in I THEN Append(p[1], s[p[2]]) ELSE p[1]]
           Ok(f) == f = [n \in Nat |->
                      IF n \notin DOMAIN s THEN << >>
                      ELSE IF n \in I THEN Append(f[n - 1], s[n]) ELSE f[n - 1]]
<1>1. Len(s) \in Nat /\ DOMAIN s = 1..Len(s) /\ s \in [1..Len(s) -> S]
  BY LenProperties
<1>2. E \in [Seq(S) \X (1..Len(s)) -> Seq(S)]
  <2>1. \A t \in Seq(S) : \A i \in 1..Len(s) : Append(t, s[i]) \in Seq(S)
    BY <1>1, AppendProperties
  <2>2. QED
    BY <2>1
<1>3. << >> \in Seq(S)
  BY EmptySeq
<1>4. PICK f \in [Nat -> Seq(S)] : Recurs(f, << >>, Len(s), E)
  <2> HIDE DEF E
  <2>1. QED
    BY <1>1, <1>2, <1>3, Recursion
<1>5. Ok(f)
  <2>1. ASSUME NEW n \in 1..Len(s)
        PROVE  E[<<f[n - 1], n>>] = IF n \in I THEN Append(f[n - 1], s[n]) ELSE f[n - 1]
    <3>1. f[n - 1] \in Seq(S)
      BY <1>1
    <3>2. QED
      BY <3>1
  <2> HIDE DEF E
  <2>2. QED
    BY <1>1, <1>4, <2>1 DEF Recurs
<1> DEFINE pick == CHOOSE g : Ok(g)
<1>6. Ok(pick)
  BY <1>5
<1>7. Pick(s, I) = pick[Len(s)]
  BY DEF Pick
<1> HIDE DEF pick
<1>8. \A n \in Nat : pick[n] = IF n \notin DOMAIN s THEN << >>
        ELSE IF n \in I THEN Append(pick[n - 1], s[n]) ELSE pick[n - 1]
  BY <1>6
<1> HIDE DEF Ok
<1>9. 0 \notin DOMAIN s /\ \A n \in 1..Len(s) : n \in DOMAIN s /\ n \in Nat
  BY <1>1
<1>10. PickSteps(pick, s, I)
  BY <1>8, <1>9 DEF PickSteps
<1>11. QED
  BY <1>7, <1>10

\* Pick has the elements of s at the positions I, and no others, in their order.
LEMMA PickFacts ==
  ASSUME NEW S, NEW s \in Seq(S), NEW I
  PROVE  LET t == Pick(s, I)
         IN  /\ t \in Seq(S)
             /\ Len(t) <= Len(s)
             /\ \A i \in 1..Len(s) : i \in I => \E k \in 1..Len(t) : t[k] = s[i]
             /\ \A k \in 1..Len(t) : \E i \in 1..Len(s) : i \in I /\ t[k] = s[i]
<1>1. Len(s) \in Nat /\ s \in [1..Len(s) -> S]
  BY LenProperties
<1>2. PICK pick : Pick(s, I) = pick[Len(s)] /\ PickSteps(pick, s, I)
  BY PickRecursion
<1> DEFINE Picked(n, t) ==
             /\ t \in Seq(S)
             /\ Len(t) <= n
             /\ \A i \in 1..n : i \in I => \E k \in 1..Len(t) : t[k] = s[i]
             /\ \A k \in 1..Len(t) : \E i \in 1..n : i \in I /\ t[k] = s[i]
           D == {n \in Nat : n <= Len(s) => Picked(n, pick[n])}
<1>3. 0 \in D
  <2>1. Picked(0, << >>)
    BY EmptySeq
  <2> HIDE DEF Picked
  <2>2. QED
    BY <1>2, <2>1 DEF PickSteps
<1>4. ASSUME NEW n \in Nat, n \in D
      PROVE  n + 1 \in D
  <2> SUFFICES ASSUME n + 1 <= Len(s) PROVE Picked(n + 1, pick[n + 1])
    OBVIOUS
  <2>1. Picked(n, pick[n])
    BY <1>1, <1>4
  <2> DEFINE t == pick[n]
             u == pick[n + 1]
  <2>2. CASE n + 1 \notin I
    <3>1. u = t
      BY <1>2, <2>2 DEF PickSteps
    <3>2. QED
      BY <1>1, <2>1, <2>2, <3>1
  <2>3. CASE n + 1 \in I
    <3>1. u = Append(t, s[n + 1]) /\ s[n + 1] \in S
      <4>1. n + 1 \in 1..Len(s) /\ (n + 1) - 1 = n
        BY <1>1
      <4>2. s[n + 1] \in S
        BY <1>1, <4>1
      <4>3. u = Append(pick[(n + 1) - 1], s[n + 1])
        BY <1>2, <2>3, <4>1 DEF PickSteps
      <4>4. QED
        BY <4>1, <4>2, <4>3
    <3> HIDE DEF t, u
    <3>2. t \in Seq(S)
      BY <2>1 DEF t
    <3>3. /\ u \in Seq(S)
          /\ Len(t) \in Nat /\ Len(u) = Len(t) + 1
          /\ \A k \in 1..Len(t) : u[k] = t[k]
          /\ u[Len(t) + 1] = s[n + 1]
      BY <3>1, <3>2, AppendProperties, LenProperties
    <3>4. ASSUME NEW i \in 1..(n + 1), i \in I
          PROVE  \E k \in 1..Len(u) : u[k] = s[i]
      <4>1. CASE i = n + 1
        BY <3>3, <4>1
      <4>2. CASE i \in 1..n
        <5>1. PICK k \in 1..Len(t) : t[k] = s[i]
          BY <2>1, <3>4, <4>2 DEF t
        <5>2. QED
          BY <3>3, <5>1
      <4>3. QED
        BY <4>1, <4>2
    <3>5. ASSUME NEW k \in 1..Len(u)
          PROVE  \E i \in 1..(n + 1) : i \in I /\ u[k] = s[i]
      <4>1. CASE k = Len(t) + 1
        BY <2>3, <3>3, <4>1
      <4>2. CASE k \in 1..Len(t)
        <5>1. PICK i \in 1..n : i \in I /\ t[k] = s[i]
          BY <2>1, <4>2 DEF t
        <5>2. QED
          BY <3>3, <4>2, <5>1
      <4>3. QED
        BY <3>3, <4>1, <4>2
    <3>6. Len(t) <= n
      BY <2>1 DEF t
    <3>7. QED
      BY <3>3, <3>4, <3>5, <3>6 DEF u
  <2>4. QED
    BY <2>2, <2>3
<1> HIDE DEF D
<1>5. Len(s) \in D
  BY <1>1, <1>3, <1>4, Induction
<1>6. QED
  BY <1>1, <1>2, <1>5 DEF D

\* One more element: it is picked last, or not at all.
LEMMA PickAppend ==
  ASSUME NEW S, NEW s \in Seq(S), NEW e \in S, NEW I, NEW J,
         \A i \in 1..Len(s) : i \in I <=> i \in J
  PROVE  Pick(Append(s, e), J) = IF Len(s) + 1 \in J THEN Append(Pick(s, I), e) ELSE Pick(s, I)
<1> DEFINE t == Append(s, e)
<1>1. /\ t \in Seq(S) /\ Len(s) \in Nat /\ Len(t) = Len(s) + 1 /\ t[Len(s) + 1] = e
      /\ \A i \in 1..Len(s) : t[i] = s[i]
  BY AppendProperties, LenProperties
<1> HIDE DEF t
<1>2. PICK p : Pick(s, I) = p[Len(s)] /\ PickSteps(p, s, I)
  BY PickRecursion
<1>3. PICK q : Pick(t, J) = q[Len(t)] /\ PickSteps(q, t, J)
  BY <1>1, PickRecursion
<1> DEFINE D == {n \in Nat : n <= Len(s) => p[n] = q[n]}
<1>4. 0 \in D
  BY <1>2, <1>3 DEF PickSteps
<1>5. ASSUME NEW n \in Nat, n \in D
      PROVE  n + 1 \in D
  <2> SUFFICES ASSUME n + 1 <= Len(s) PROVE p[n + 1] = q[n + 1]
    OBVIOUS
  <2>1. n + 1 \in 1..Len(s) /\ n + 1 \in 1..Len(t) /\ (n + 1) - 1 = n
    BY <1>1
  <2>2. p[n] = q[n]
    BY <1>1, <1>5
  <2>3. t[n + 1] = s[n + 1] /\ (n + 1 \in I <=> n + 1 \in J)
    BY <1>1, <2>1
  <2>4. p[n + 1] = IF n + 1 \in I THEN Append(p[n], s[n + 1]) ELSE p[n]
    BY <1>2, <2>1 DEF PickSteps
  <2>5. q[n + 1] = IF n + 1 \in J THEN Append(q[n], t[n + 1]) ELSE q[n]
    BY <1>3, <2>1 DEF PickSteps
  <2>6. QED
    BY <2>2, <2>3, <2>4, <2>5
<1> HIDE DEF D
<1>6. Len(s) \in D
  BY <1>1, <1>4, <1>5, Induction
<1>7. p[Len(s)] = q[Len(s)]
  BY <1>6 DEF D
<1>8. q[Len(s) + 1] = IF Len(s) + 1 \in J THEN Append(q[Len(s)], e) ELSE q[Len(s)]
  <2>1. Len(s) + 1 \in 1..Len(t) /\ (Len(s) + 1) - 1 = Len(s)
    BY <1>1
  <2>2. QED
    BY <1>1, <1>3, <2>1 DEF PickSteps
<1>9. QED
  BY <1>1, <1>2, <1>3, <1>7, <1>8 DEF t

----------------------------------------------------------------------------
(* Sorting *)

\* R orders the finite set I: any two elements one way or the other, not both.
Orders(R, I) ==
  /\ \A i, j \in I : <<i, j>> \in R \/ <<j, i>> \in R
  /\ \A i, j \in I : <<i, j>> \in R /\ <<j, i>> \in R => i = j
  /\ \A i, j, k \in I : <<i, j>> \in R /\ <<j, k>> \in R => <<i, k>> \in R

\* In an ordered set every rank is taken: the element of rank k has k elements
\* up to and with itself.
Ranks(rank, R, I) == \A i \in I : rank[i] = Cardinality({j \in I : <<j, i>> \in R})

\* The ranks of a finite order are 1, 2, ... up to the size of the set, each
\* of them taken by exactly one element.
LEMMA RanksAreTaken ==
  ASSUME NEW I, IsFiniteSet(I), NEW R, Orders(R, I), NEW rank, Ranks(rank, R, I)
  PROVE  /\ \A k \in 1..Cardinality(I) : \E i \in I : rank[i] = k
         /\ \A i \in I : rank[i] \in 1..Cardinality(I)
         /\ \A i, j \in I : rank[i] = rank[j] => i = j
<1> DEFINE Down(i) == {j \in I : <<j, i>> \in R}
           N == Cardinality(I)
           f == [i \in I |-> rank[i]]
<1>1. N \in Nat /\ IsFiniteSet(1..N) /\ Cardinality(1..N) = N
  BY FS_CardinalityType, FS_Interval
<1>2. ASSUME NEW i \in I
      PROVE  /\ IsFiniteSet(Down(i)) /\ Cardinality(Down(i)) \in 1..N
             /\ i \in Down(i)
  <2>1. i \in Down(i)
    BY DEF Orders
  <2>2. IsFiniteSet(Down(i)) /\ Cardinality(Down(i)) <= N
    BY FS_Subset
  <2>3. Cardinality(Down(i)) \in Nat /\ Cardinality(Down(i)) # 0
    BY <2>1, <2>2, FS_CardinalityType, FS_EmptySet
  <2>4. QED
    BY <1>1, <2>1, <2>2, <2>3
<1>3. ASSUME NEW i \in I, NEW j \in I, i # j, <<i, j>> \in R
      PROVE  Cardinality(Down(i)) # Cardinality(Down(j))
  <2>1. Down(i) \subseteq Down(j) /\ j \in Down(j) /\ j \notin Down(i)
    BY <1>3 DEF Orders
  <2> HIDE DEF Down
  <2>2. QED
    BY <1>2, <2>1, FS_Subset
<1>4. \A i \in I : rank[i] = Cardinality(Down(i))
  BY DEF Ranks
<1> HIDE DEF Down
<1>5. \A i \in I : rank[i] \in 1..N
  BY <1>2, <1>4
<1>6. \A i, j \in I : rank[i] = rank[j] => i = j
  BY <1>3, <1>4 DEF Orders
<1>7. f \in Injection(I, 1..N)
  BY <1>5, <1>6 DEF Injection, IsInjective
<1> HIDE DEF f, N
<1>8. f \in Surjection(I, 1..N)
  BY <1>1, <1>7, FS_Injection DEF N
<1>9. \A k \in 1..N : \E i \in I : f[i] = k
  BY <1>8 DEF Surjection
<1>10. QED
  BY <1>5, <1>6, <1>9 DEF f, N

\* B is a strict weak order of the positions 1..n: what is not before each other
\* is interchangeable.
WeakOrder(B, n) ==
  /\ \A i, j \in 1..n : ~(<<i, j>> \in B /\ <<j, i>> \in B)
  /\ \A i, j, k \in 1..n : <<i, k>> \in B => <<i, j>> \in B \/ <<j, k>> \in B

\* Numbers give a weak order.
LEMMA OrderOfNumbers ==
  ASSUME NEW n \in Nat, NEW B, NEW key, \A i \in 1..n : key[i] \in Int,
         \A i, j \in 1..n : <<i, j>> \in B <=> key[i] < key[j]
  PROVE  WeakOrder(B, n)
BY DEF WeakOrder

\* So do pairs of numbers, the second of which decides between equals.
LEMMA OrderOfPairs ==
  ASSUME NEW n \in Nat, NEW B, NEW r \in [1..n -> Nat], NEW q \in [1..n -> Nat],
         \A i, j \in 1..n : <<i, j>> \in B <=> r[i] > r[j] \/ (r[i] = r[j] /\ q[i] > q[j])
  PROVE  WeakOrder(B, n)
<1>1. \A i, j \in 1..n : ~(<<i, j>> \in B /\ <<j, i>> \in B)
  <2> TAKE i, j \in 1..n
  <2>1. PICK a \in Nat, b \in Nat, c \in Nat, d \in Nat :
          a = r[i] /\ b = r[j] /\ c = q[i] /\ d = q[j]
    OBVIOUS
  <2>2. ~((a > b \/ (a = b /\ c > d)) /\ (b > a \/ (b = a /\ d > c)))
    OBVIOUS
  <2>3. QED
    BY <2>1, <2>2
<1>2. \A i, j, k \in 1..n : <<i, k>> \in B => <<i, j>> \in B \/ <<j, k>> \in B
  <2> TAKE i, j, k \in 1..n
  <2>1. PICK a \in Nat, b \in Nat, e \in Nat, c \in Nat, d \in Nat, f \in Nat :
          /\ a = r[i] /\ b = r[j] /\ e = r[k]
          /\ c = q[i] /\ d = q[j] /\ f = q[k]
    OBVIOUS
  <2>2. a > e \/ (a = e /\ c > f)
          => (a > b \/ (a = b /\ c > d)) \/ (b > e \/ (b = e /\ d > f))
    OBVIOUS
  <2>3. QED
    BY <2>1, <2>2
<1>3. QED
  BY <1>1, <1>2 DEF WeakOrder

\* A weak order becomes a total one when positions decide its ties: the order
\* of a stable sort.
LEMMA StableOrder ==
  ASSUME NEW n \in Nat, NEW B, WeakOrder(B, n)
  PROVE  Orders({p \in (1..n) \X (1..n) :
                   <<p[1], p[2]>> \in B \/ (p[1] <= p[2] /\ <<p[2], p[1]>> \notin B)}, 1..n)
<1> DEFINE Up(i, j) == <<i, j>> \in B \/ (i <= j /\ <<j, i>> \notin B)
           R == {p \in (1..n) \X (1..n) : Up(p[1], p[2])}
<1>1. \A i, j \in 1..n : <<i, j>> \in R <=> Up(i, j)
  BY Zenon
<1>2. \A i, j \in 1..n : Up(i, j) \/ Up(j, i)
  OBVIOUS
<1>3. \A i, j \in 1..n : Up(i, j) /\ Up(j, i) => i = j
  BY DEF WeakOrder
<1>4. \A i, j, k \in 1..n : Up(i, j) /\ Up(j, k) => Up(i, k)
  BY DEF WeakOrder
<1> HIDE DEF R, Up
<1>5. Orders(R, 1..n)
  BY <1>1, <1>2, <1>3, <1>4 DEF Orders
<1>6. QED
  BY <1>5 DEF R, Up

\* The ranks that Sorted works out, and the list it returns.
RanksOf(rank, s, B) ==
  rank = [i \in DOMAIN s |-> Cardinality({j \in DOMAIN s :
            <<j, i>> \in B \/ (j <= i /\ <<i, j>> \notin B)})]
InRanks(t, s, rank) ==
  t = [k \in DOMAIN s |-> s[CHOOSE i \in DOMAIN s : rank[i] = k]]

\* There are n positions.
LEMMA Positions ==
  ASSUME NEW n \in Nat
  PROVE  IsFiniteSet(1..n) /\ Cardinality(1..n) = n
<1>1. 1 \in Int /\ n \in Int /\ n - 1 + 1 = n
  OBVIOUS
<1>2. CASE n = 0
  <2>1. 1..n = {}
    BY <1>2
  <2>2. QED
    BY <1>2, <2>1, FS_EmptySet
<1>3. CASE n # 0
  BY <1>1, <1>3, FS_Interval
<1>4. QED
  BY <1>2, <1>3

\* The ranks of a weak order: each of 1, 2, ... is taken, none twice, and what comes
\* before has the smaller one.
LEMMA RankFacts ==
  ASSUME NEW S, NEW s \in Seq(S), NEW B, WeakOrder(B, Len(s)), NEW rank, RanksOf(rank, s, B)
  PROVE  /\ \A k \in 1..Len(s) : \E i \in 1..Len(s) : rank[i] = k
         /\ \A i \in 1..Len(s) : rank[i] \in 1..Len(s)
         /\ \A i, j \in 1..Len(s) : rank[i] = rank[j] => i = j
         /\ \A i, j \in 1..Len(s) : <<i, j>> \in B => rank[i] <= rank[j]
<1>1. PICK n \in Nat : n = Len(s) /\ DOMAIN s = 1..n
  BY LenProperties
<1> DEFINE R == {p \in (1..n) \X (1..n) :
                   <<p[1], p[2]>> \in B \/ (p[1] <= p[2] /\ <<p[2], p[1]>> \notin B)}
<1>2. IsFiniteSet(1..n) /\ Cardinality(1..n) = n
  BY Positions
<1>3. Orders(R, 1..n)
  BY <1>1, StableOrder
<1>4. \A i \in 1..n : rank[i] = Cardinality({j \in 1..n : <<j, i>> \in R})
  <2>1. ASSUME NEW i \in 1..n
        PROVE  {j \in 1..n : <<j, i>> \in R}
                 = {j \in DOMAIN s : <<j, i>> \in B \/ (j <= i /\ <<i, j>> \notin B)}
    BY <1>1
  <2>2. \A i \in 1..n : rank[i] = Cardinality({j \in DOMAIN s :
                            <<j, i>> \in B \/ (j <= i /\ <<i, j>> \notin B)})
    BY <1>1 DEF RanksOf
  <2> HIDE DEF R
  <2>3. QED
    BY <2>1, <2>2
<1>5. \A i, j \in 1..n : <<i, j>> \in B => <<i, j>> \in R
  OBVIOUS
<1> HIDE DEF R
<1> DEFINE I == 1..n
<1>6. IsFiniteSet(I) /\ Cardinality(I) = n /\ Orders(R, I)
  BY <1>2, <1>3
<1>7. Ranks(rank, R, I)
  BY <1>4 DEF Ranks
<1> HIDE DEF I
<1>8. /\ \A k \in 1..Cardinality(I) : \E i \in I : rank[i] = k
      /\ \A i \in I : rank[i] \in 1..Cardinality(I)
      /\ \A i, j \in I : rank[i] = rank[j] => i = j
  BY <1>6, <1>7, RanksAreTaken
<1>9. ASSUME NEW i \in I, NEW j \in I, <<i, j>> \in R
      PROVE  rank[i] <= rank[j]
  <2> DEFINE Down(k) == {h \in I : <<h, k>> \in R}
  <2>1. Down(i) \subseteq Down(j) /\ Down(j) \subseteq I
    BY <1>6, <1>9 DEF Orders
  <2>2. rank[i] = Cardinality(Down(i)) /\ rank[j] = Cardinality(Down(j))
    BY <1>7 DEF Ranks
  <2> HIDE DEF Down
  <2>3. IsFiniteSet(Down(j))
    BY <1>6, <2>1, FS_Subset
  <2>4. QED
    BY <2>1, <2>2, <2>3, FS_Subset
<1>10. QED
  BY <1>1, <1>5, <1>6, <1>8, <1>9 DEF I

\* p is a permutation of the n positions of s that gives t.
Permutes(p, t, s, n) ==
  /\ \A k \in 1..n : p[k] \in 1..n /\ t[k] = s[p[k]]
  /\ \A i \in 1..n : \E k \in 1..n : p[k] = i
  /\ \A k, m \in 1..n : p[k] = p[m] => k = m

\* And it puts nothing before what it should follow.
Sorts(p, t, s, B, n) ==
  /\ Permutes(p, t, s, n)
  /\ \A k, m \in 1..n : k < m => <<p[m], p[k]>> \notin B

\* A stable sort is such a permutation.
LEMMA SortPermutes ==
  ASSUME NEW S, NEW s \in Seq(S), NEW B, WeakOrder(B, Len(s)),
         NEW rank, RanksOf(rank, s, B), NEW t, InRanks(t, s, rank)
  PROVE  t \in Seq(S) /\ Len(t) = Len(s) /\ \E p : Sorts(p, t, s, B, Len(s))
<1>1. PICK n \in Nat : n = Len(s) /\ DOMAIN s = 1..n /\ s \in [1..n -> S]
  BY LenProperties
<1>2. /\ \A k \in 1..n : \E i \in 1..n : rank[i] = k
      /\ \A i \in 1..n : rank[i] \in 1..n
      /\ \A i, j \in 1..n : rank[i] = rank[j] => i = j
      /\ \A i, j \in 1..n : <<i, j>> \in B => rank[i] <= rank[j]
  <2>1. /\ \A k \in 1..Len(s) : \E i \in 1..Len(s) : rank[i] = k
        /\ \A i \in 1..Len(s) : rank[i] \in 1..Len(s)
        /\ \A i, j \in 1..Len(s) : rank[i] = rank[j] => i = j
        /\ \A i, j \in 1..Len(s) : <<i, j>> \in B => rank[i] <= rank[j]
    BY RankFacts
  <2>2. QED
    BY <1>1, <2>1
<1> DEFINE At(k) == CHOOSE i \in 1..n : rank[i] = k
           p == [k \in 1..n |-> At(k)]
<1>3. \A k \in 1..n : At(k) \in 1..n /\ rank[At(k)] = k
  BY <1>2
<1>4. t = [k \in 1..n |-> s[At(k)]]
  BY <1>1 DEF InRanks
<1> HIDE DEF At
<1>5. \A k \in 1..n : p[k] = At(k) /\ t[k] = s[At(k)]
  BY <1>4
<1> HIDE DEF p
<1>6. \A k \in 1..n : p[k] \in 1..n /\ t[k] = s[p[k]] /\ rank[p[k]] = k
  BY <1>3, <1>5
<1>7. \A i \in 1..n : \E k \in 1..n : p[k] = i
  <2> TAKE i \in 1..n
  <2>1. rank[i] \in 1..n /\ p[rank[i]] = i
    BY <1>2, <1>6
  <2>2. QED
    BY <2>1
<1>8. \A k, m \in 1..n : p[k] = p[m] => k = m
  BY <1>6
<1>9. \A k, m \in 1..n : k < m => <<p[m], p[k]>> \notin B
  <2> SUFFICES ASSUME NEW k \in 1..n, NEW m \in 1..n, k < m, <<p[m], p[k]>> \in B
               PROVE  FALSE
    OBVIOUS
  <2>1. rank[p[m]] <= rank[p[k]]
    BY <1>2, <1>6
  <2>2. QED
    BY <1>6, <2>1
<1>10. t \in Seq(S) /\ Len(t) = n
  <2>1. t \in [1..n -> S]
    BY <1>1, <1>3, <1>4
  <2>2. QED
    BY <2>1, FunctionIsSequence
<1>11. Sorts(p, t, s, B, n)
  BY <1>6, <1>7, <1>8, <1>9 DEF Sorts, Permutes
<1>12. QED
  BY <1>1, <1>10, <1>11

\* A stable sort rearranges: what is in the list is in the sorted list, and
\* nothing else.
LEMMA SortedByRank ==
  ASSUME NEW S, NEW s \in Seq(S), NEW B, WeakOrder(B, Len(s)),
         NEW rank, RanksOf(rank, s, B), NEW t, InRanks(t, s, rank)
  PROVE  /\ t \in Seq(S)
         /\ Len(t) = Len(s)
         /\ \A i \in 1..Len(s) : \E k \in 1..Len(s) : t[k] = s[i]
         /\ \A k \in 1..Len(s) : \E i \in 1..Len(s) : t[k] = s[i]
<1>1. t \in Seq(S) /\ Len(t) = Len(s) /\ \E p : Sorts(p, t, s, B, Len(s))
  BY SortPermutes
<1>2. PICK p : Sorts(p, t, s, B, Len(s))
  BY <1>1
<1>3. \A i \in 1..Len(s) : \E k \in 1..Len(s) : t[k] = s[i]
  <2> TAKE i \in 1..Len(s)
  <2>1. PICK k \in 1..Len(s) : p[k] = i
    BY <1>2 DEF Sorts, Permutes
  <2>2. QED
    BY <1>2, <2>1 DEF Sorts, Permutes
<1>4. \A k \in 1..Len(s) : \E i \in 1..Len(s) : t[k] = s[i]
  BY <1>2 DEF Sorts, Permutes
<1>5. QED
  BY <1>1, <1>3, <1>4

\* t is s sorted by numbers, the smallest first.
LEMMA SortedNumbers ==
  ASSUME NEW s \in Seq(Nat)
  PROVE  LET t == Sorted(s, <)
         IN  /\ t \in Seq(Nat) /\ Len(t) = Len(s)
             /\ \E p : /\ Permutes(p, t, s, Len(s))
                       /\ \A k, m \in 1..Len(s) : k < m => t[k] <= t[m]
<1> DEFINE n == Len(s)
           B == {p \in (1..n) \X (1..n) : s[p[1]] < s[p[2]]}
           rank == [i \in DOMAIN s |-> Cardinality({j \in DOMAIN s :
                      s[j] < s[i] \/ (j <= i /\ ~(s[i] < s[j]))})]
           t == Sorted(s, <)
<1>1. n \in Nat /\ DOMAIN s = 1..n /\ \A i \in 1..n : s[i] \in Nat
  BY LenProperties, ElementOfSeq
<1> HIDE DEF n
<1>2. \A i, j \in 1..n : <<i, j>> \in B <=> s[i] < s[j]
  BY Zenon
<1> HIDE DEF B
<1>3. WeakOrder(B, n)
  <2>1. \A i \in 1..n : s[i] \in Int
    BY <1>1
  <2>2. QED
    BY <1>1, <1>2, <2>1, OrderOfNumbers
<1>4. RanksOf(rank, s, B)
  <2>1. ASSUME NEW i \in DOMAIN s
        PROVE  {j \in DOMAIN s : s[j] < s[i] \/ (j <= i /\ ~(s[i] < s[j]))}
                 = {j \in DOMAIN s : <<j, i>> \in B \/ (j <= i /\ <<i, j>> \notin B)}
    BY <1>1, <1>2
  <2>2. QED
    BY <2>1, Zenon DEF RanksOf
<1>5. InRanks(t, s, rank)
  BY DEF InRanks, Sorted
<1> HIDE DEF rank, t
<1>6. t \in Seq(Nat) /\ Len(t) = n /\ \E p : Sorts(p, t, s, B, n)
  <2>1. WeakOrder(B, Len(s))
    BY <1>3 DEF n
  <2>2. t \in Seq(Nat) /\ Len(t) = Len(s) /\ \E p : Sorts(p, t, s, B, Len(s))
    BY <1>4, <1>5, <2>1, SortPermutes
  <2>3. QED
    BY <2>2 DEF n
<1>7. PICK p : Sorts(p, t, s, B, n)
  BY <1>6
<1>8. Permutes(p, t, s, n)
  BY <1>7 DEF Sorts
<1>9. ASSUME NEW k \in 1..n, NEW m \in 1..n, k < m
      PROVE  t[k] <= t[m]
  <2>1. p[k] \in 1..n /\ p[m] \in 1..n /\ t[k] = s[p[k]] /\ t[m] = s[p[m]]
    BY <1>8 DEF Permutes
  <2>2. <<p[m], p[k]>> \notin B
    BY <1>7, <1>9 DEF Sorts
  <2>3. ~(s[p[m]] < s[p[k]])
    BY <1>2, <2>1, <2>2
  <2>4. QED
    BY <1>1, <2>1, <2>3
<1>10. QED
  BY <1>6, <1>8, <1>9 DEF t, n

----------------------------------------------------------------------------
(* Lists made of lists, and sums *)

\* A list made element by element.
LEMMA MappedList ==
  ASSUME NEW S, NEW s \in Seq(S), NEW T, NEW t, t = [i \in DOMAIN s |-> t[i]],
         \A i \in 1..Len(s) : t[i] \in T
  PROVE  t \in Seq(T) /\ Len(t) = Len(s)
<1>1. PICK n \in Nat : n = Len(s) /\ DOMAIN s = 1..n
  BY LenProperties
<1>2. t \in [1..n -> T]
  BY <1>1
<1>3. QED
  BY <1>1, <1>2, FunctionIsSequence

\* t has what s has.
HasAll(t, s) == \A k \in 1..Len(s) : \E m \in 1..Len(t) : t[m] = s[k]

\* So has a list that has what t has.
LEMMA HasAllTransitive ==
  ASSUME NEW s, NEW t, NEW u, HasAll(t, s), HasAll(u, t)
  PROVE  HasAll(u, s)
<1> SUFFICES ASSUME NEW k \in 1..Len(s) PROVE \E m \in 1..Len(u) : u[m] = s[k]
  BY DEF HasAll
<1>1. PICK i \in 1..Len(t) : t[i] = s[k]
  BY DEF HasAll
<1>2. PICK m \in 1..Len(u) : u[m] = t[i]
  BY DEF HasAll
<1>3. QED
  BY <1>1, <1>2

\* Of equal elements one is kept.
LEMMA OnceFacts ==
  ASSUME NEW S, NEW s \in Seq(S)
  PROVE  Once(s) \in Seq(S) /\ HasAll(Once(s), s)
<1> DEFINE I == {i \in DOMAIN s : \A j \in 1..(i - 1) : s[j] # s[i]}
<1>1. PICK n \in Nat : n = Len(s) /\ DOMAIN s = 1..n
  BY LenProperties
<1>2. \A i \in 1..n : \E j \in 1..n : j \in I /\ s[j] = s[i]
  <2> TAKE i \in 1..n
  <2> DEFINE Equal == {j \in 1..n : s[j] = s[i]}
  <2>1. i \in Equal /\ Equal \subseteq Nat
    OBVIOUS
  <2>2. PICK j \in Equal : \A k \in Equal : j <= k
    BY <2>1, LeastNumber
  <2>3. \A k \in 1..(j - 1) : s[k] # s[j]
    BY <2>2
  <2>4. QED
    BY <1>1, <2>2, <2>3
<1>3. Once(s) = Pick(s, I)
  BY DEF Once
<1> HIDE DEF I
<1>4. /\ Pick(s, I) \in Seq(S)
      /\ \A i \in 1..n : i \in I => \E k \in 1..Len(Pick(s, I)) : Pick(s, I)[k] = s[i]
  BY <1>1, PickFacts
<1>5. HasAll(Pick(s, I), s)
  <2> SUFFICES ASSUME NEW i \in 1..n
               PROVE  \E k \in 1..Len(Pick(s, I)) : Pick(s, I)[k] = s[i]
    BY <1>1 DEF HasAll
  <2>1. PICK j \in 1..n : j \in I /\ s[j] = s[i]
    BY <1>2
  <2>2. QED
    BY <1>4, <2>1
<1>6. QED
  BY <1>3, <1>4, <1>5

\* The concatenation of two lists has what both have.
LEMMA ConcatFacts ==
  ASSUME NEW S, NEW t \in Seq(S), NEW s \in Seq(S)
  PROVE  /\ t \o s \in Seq(S) /\ Len(t \o s) = Len(t) + Len(s)
         /\ HasAll(t \o s, t) /\ HasAll(t \o s, s)
<1> DEFINE u == t \o s
<1>1. PICK n \in Nat, m \in Nat : n = Len(t) /\ m = Len(s)
  BY LenProperties
<1>2. u \in Seq(S) /\ Len(u) = n + m
  BY <1>1, ConcatProperties
<1>3. \A k \in 1..(n + m) : u[k] = IF k <= n THEN t[k] ELSE s[k - n]
  BY <1>1, ConcatProperties
<1> HIDE DEF u
<1>4. HasAll(u, t)
  <2>1. \A k \in 1..n : k \in 1..(n + m) /\ k <= n
    OBVIOUS
  <2>2. QED
    BY <1>1, <1>2, <1>3, <2>1 DEF HasAll
<1>5. HasAll(u, s)
  <2>1. ASSUME NEW k \in 1..m
        PROVE  n + k \in 1..(n + m) /\ u[n + k] = s[k]
    <3>1. n + k \in 1..(n + m) /\ ~(n + k <= n) /\ (n + k) - n = k
      OBVIOUS
    <3>2. QED
      BY <1>3, <3>1
  <2>2. QED
    BY <1>1, <1>2, <2>1 DEF HasAll
<1>6. QED
  BY <1>1, <1>2, <1>4, <1>5 DEF u

\* f joins the lists one by one.
Joins(f, ss) == f = [i \in 1..Len(ss) |-> IF i = 1 THEN ss[i] ELSE f[i - 1] \o ss[i]]

JoinSteps(f, ss) ==
  /\ f[0] = << >>
  /\ \A i \in 1..Len(ss) : f[i] = f[i - 1] \o ss[i]

\* FlattenSeq goes through the lists one by one.
LEMMA FlattenRecursion ==
  ASSUME NEW S, NEW ss \in Seq(Seq(S))
  PROVE  \E f : /\ FlattenSeq(ss) = f[Len(ss)] /\ f \in [0..Len(ss) -> Seq(S)]
                /\ JoinSteps(f, ss)
<1>1. PICK n \in Nat : /\ n = Len(ss) /\ DOMAIN ss = 1..n
                       /\ \A i \in 1..n : ss[i] \in Seq(S)
  BY LenProperties, ElementOfSeq
<1> DEFINE E == [p \in Seq(S) \X (1..n) |-> p[1] \o ss[p[2]]]
<1>2. E \in [Seq(S) \X (1..n) -> Seq(S)]
  <2>1. \A t \in Seq(S) : \A i \in 1..n : t \o ss[i] \in Seq(S)
    BY <1>1, ConcatProperties
  <2>2. QED
    BY <1>1, <2>1
<1>3. << >> \in Seq(S)
  BY EmptySeq
<1>4. PICK g \in [Nat -> Seq(S)] : Recurs(g, << >>, n, E)
  <2> HIDE DEF E
  <2>1. QED
    BY <1>2, <1>3, Recursion
<1>5. g[0] = << >> /\ \A i \in 1..n : g[i] = g[i - 1] \o ss[i]
  <2>1. \A i \in 1..n : i \in Nat /\ i - 1 \in Nat
    OBVIOUS
  <2>2. \A i \in Nat : g[i] \in Seq(S)
    OBVIOUS
  <2>3. \A t \in Seq(S) : \A i \in 1..n : E[<<t, i>>] = t \o ss[i]
    OBVIOUS
  <2> HIDE DEF E
  <2>4. \A i \in 1..n : g[i] = E[<<g[i - 1], i>>]
    BY <1>4, <2>1 DEF Recurs
  <2>5. 0 \in Nat /\ 0 \notin 1..n
    OBVIOUS
  <2>6. g[0] = << >>
    BY <1>4, <2>5 DEF Recurs
  <2>7. QED
    BY <2>1, <2>2, <2>3, <2>4, <2>6
<1> DEFINE f == [i \in 0..n |-> g[i]]
<1>6. f \in [0..n -> Seq(S)] /\ JoinSteps(f, ss)
  <2>1. \A i \in 1..n : i \in 0..n /\ i - 1 \in 0..n
    OBVIOUS
  <2>2. f[0] = g[0] /\ \A i \in 1..n : f[i] = g[i] /\ f[i - 1] = g[i - 1]
    BY <2>1
  <2>3. f \in [0..n -> Seq(S)]
    OBVIOUS
  <2> HIDE DEF f
  <2>4. QED
    BY <1>1, <1>5, <2>2, <2>3 DEF JoinSteps
<1>7. FlattenSeq(ss) = f[n]
  <2>1. CASE n = 0
    <3>1. ss = << >>
      BY <1>1, <2>1, EmptySeq
    <3>2. FlattenSeq(ss) = ss
      BY <1>1, <2>1 DEF FlattenSeq
    <3>3. QED
      BY <1>6, <2>1, <3>1, <3>2 DEF JoinSteps
  <2>2. CASE n # 0
    <3> DEFINE h == [i \in 1..n |-> g[i]]
    <3>1. Joins(h, ss)
      <4>1. g[0] \o ss[1] = ss[1] /\ 1 \in 1..n /\ 1 - 1 = 0
        BY <1>1, <1>5, <2>2, ConcatEmptySeq
      <4>2. \A i \in 1..n : g[i] = IF i = 1 THEN ss[i] ELSE g[i - 1] \o ss[i]
        BY <1>5, <4>1
      <4>3. \A i \in 1..n : i # 1 => i - 1 \in 1..n
        OBVIOUS
      <4>4. \A i \in 1..n : h[i] = IF i = 1 THEN ss[i] ELSE h[i - 1] \o ss[i]
        BY <4>2, <4>3
      <4>5. h = [i \in 1..n |-> h[i]]
        OBVIOUS
      <4> HIDE DEF h
      <4>6. QED
        BY <1>1, <4>4, <4>5 DEF Joins
    <3> DEFINE x == CHOOSE y : Joins(y, ss)
    <3>2. Joins(x, ss)
      BY <3>1
    <3>3. FlattenSeq(ss) = x[n]
      BY <1>1, <2>2 DEF FlattenSeq, Joins
    <3> HIDE DEF x
    <3>4. \A i \in 1..n : x[i] = IF i = 1 THEN ss[i] ELSE x[i - 1] \o ss[i]
      BY <1>1, <3>2 DEF Joins
    <3> DEFINE D == {i \in Nat : i >= 1 /\ i <= n => x[i] = g[i]}
    <3>5. ASSUME NEW i \in Nat, i \in D
          PROVE  i + 1 \in D
      <4> SUFFICES ASSUME i + 1 <= n PROVE x[i + 1] = g[i + 1]
        OBVIOUS
      <4>1. i + 1 \in 1..n /\ (i + 1) - 1 = i
        OBVIOUS
      <4>2. CASE i = 0
        <5>1. i + 1 = 1 /\ 1 \in 1..n /\ 1 - 1 = 0
          BY <4>1, <4>2
        <5>2. x[1] = ss[1] /\ g[1] = g[0] \o ss[1]
          BY <1>5, <3>4, <5>1
        <5>3. g[0] \o ss[1] = ss[1]
          BY <1>1, <1>5, <5>1, ConcatEmptySeq
        <5>4. x[1] = g[1]
          BY <5>2, <5>3
        <5>5. QED
          BY <5>1, <5>4
      <4>3. CASE i # 0
        <5>1. i >= 1 /\ i <= n /\ i + 1 # 1
          BY <4>3
        <5>2. x[i] = g[i]
          BY <3>5, <5>1
        <5>3. x[i + 1] = x[i] \o ss[i + 1] /\ g[i + 1] = g[i] \o ss[i + 1]
          <6>1. PICK m \in 1..n : m = i + 1 /\ m - 1 = i /\ m # 1
            BY <4>1, <5>1
          <6> HIDE DEF D
          <6>2. x[m] = x[m - 1] \o ss[m] /\ g[m] = g[m - 1] \o ss[m]
            BY <1>5, <3>4, <6>1
          <6>3. QED
            BY <6>1, <6>2
        <5>4. QED
          BY <5>2, <5>3
      <4>4. QED
        BY <4>2, <4>3
    <3>6. n \in D
      <4>1. 0 \in D
        OBVIOUS
      <4> HIDE DEF D
      <4>2. QED
        BY <3>5, <4>1, Induction
    <3>7. f[n] = g[n] /\ n >= 1
      BY <2>2
    <3>8. QED
      BY <3>3, <3>6, <3>7
  <2>3. QED
    BY <2>1, <2>2
<1>8. QED
  BY <1>1, <1>6, <1>7

\* A list of lists is joined into a list that has what they have.
LEMMA FlattenFacts ==
  ASSUME NEW S, NEW ss \in Seq(Seq(S))
  PROVE  /\ FlattenSeq(ss) \in Seq(S)
         /\ \A i \in 1..Len(ss) : HasAll(FlattenSeq(ss), ss[i])
<1>1. PICK n \in Nat : n = Len(ss) /\ \A i \in 1..n : ss[i] \in Seq(S)
  BY LenProperties, ElementOfSeq
<1>2. PICK f : FlattenSeq(ss) = f[n] /\ f \in [0..n -> Seq(S)] /\ JoinSteps(f, ss)
  BY <1>1, FlattenRecursion
<1> DEFINE Good(m) == \A i \in 1..m : HasAll(f[m], ss[i])
           D == {m \in Nat : m <= n => Good(m)}
<1>3. ASSUME NEW m \in Nat, m \in D
      PROVE  m + 1 \in D
  <2> SUFFICES ASSUME m + 1 <= n PROVE Good(m + 1)
    OBVIOUS
  <2>1. /\ m \in 0..n /\ m + 1 \in 1..n /\ (m + 1) - 1 = m /\ m <= n
        /\ \A i \in 1..(m + 1) : i \in 1..m \/ i = m + 1
    OBVIOUS
  <2>2. PICK t, u, w : t = f[m] /\ u = f[m + 1] /\ w = ss[m + 1]
    OBVIOUS
  <2>3. u = t \o w /\ t \in Seq(S) /\ w \in Seq(S)
    BY <1>1, <1>2, <2>1, <2>2 DEF JoinSteps
  <2>4. HasAll(u, t) /\ HasAll(u, w)
    BY <2>3, ConcatFacts
  <2>5. \A i \in 1..m : HasAll(t, ss[i])
    BY <1>3, <2>1, <2>2
  <2>6. \A i \in 1..m : HasAll(u, ss[i])
    BY <2>4, <2>5, HasAllTransitive
  <2>7. QED
    BY <2>1, <2>2, <2>4, <2>6
<1>4. n \in D
  <2>1. 0 \in D
    OBVIOUS
  <2> HIDE DEF D
  <2>2. QED
    BY <1>3, <2>1, Induction
<1>5. n \in 0..n
  BY <1>1
<1>6. QED
  BY <1>1, <1>2, <1>4, <1>5

\* f adds up the numbers of s.
Adds(f, s) == f = [n \in Nat |-> IF n \in DOMAIN s THEN f[n - 1] + s[n] ELSE 0]

\* A sum of natural numbers is one, and no less than any of them.
LEMMA TotalIsNat ==
  ASSUME NEW s \in Seq(Nat)
  PROVE  Total(s) \in Nat /\ \A i \in 1..Len(s) : s[i] <= Total(s)
<1>1. PICK n \in Nat : n = Len(s) /\ DOMAIN s = 1..n /\ \A i \in 1..n : s[i] \in Nat
  BY LenProperties, ElementOfSeq
<1> DEFINE E == [p \in Nat \X (1..n) |-> p[1] + s[p[2]]]
<1>2. E \in [Nat \X (1..n) -> Nat]
  BY <1>1
<1>3. PICK g \in [Nat -> Nat] : Recurs(g, 0, n, E)
  <2> HIDE DEF E
  <2>1. QED
    BY <1>2, Recursion
<1>4. Adds(g, s)
  <2>1. \A i \in 1..n : E[<<g[i - 1], i>>] = g[i - 1] + s[i]
    <3>1. \A i \in 1..n : g[i - 1] \in Nat
      OBVIOUS
    <3>2. QED
      BY <3>1
  <2> HIDE DEF E
  <2>2. QED
    BY <1>1, <1>3, <2>1 DEF Recurs, Adds
<1> DEFINE f == CHOOSE x : Adds(x, s)
<1>5. Adds(f, s)
  BY <1>4
<1>6. Total(s) = f[Len(s)]
  BY DEF Total, Adds
<1> HIDE DEF f
<1>7. \A i \in Nat : f[i] = IF i \in DOMAIN s THEN f[i - 1] + s[i] ELSE 0
  BY <1>5 DEF Adds
<1>8. f[0] \in Nat
  BY <1>1, <1>7
<1>9. \A i \in 1..n : f[i - 1] \in Nat => f[i] \in Nat
  <2> SUFFICES ASSUME NEW i \in 1..n, f[i - 1] \in Nat PROVE f[i] \in Nat
    OBVIOUS
  <2>1. f[i] = f[i - 1] + s[i] /\ s[i] \in Nat
    BY <1>1, <1>7
  <2>2. PICK a \in Nat, b \in Nat : a = f[i - 1] /\ b = s[i]
    BY <2>1
  <2>3. f[i] = a + b
    BY <2>1, <2>2
  <2>4. QED
    BY <2>3
<1>10. \A i \in 0..n : f[i] \in Nat
  BY <1>8, <1>9, RecursionStays
<1>11. ASSUME NEW i \in 1..n
       PROVE  s[i] <= f[n]
  <2> DEFINE G == {k \in Nat : i <= k /\ k <= n => s[i] <= f[k]}
  <2>1. 0 \in G
    OBVIOUS
  <2>2. ASSUME NEW k \in Nat, k \in G
        PROVE  k + 1 \in G
    <3> SUFFICES ASSUME i <= k + 1, k + 1 <= n PROVE s[i] <= f[k + 1]
      OBVIOUS
    <3>1. PICK m \in 1..n : m = k + 1 /\ m - 1 = k
      OBVIOUS
    <3>2. f[m] = f[k] + s[m]
      BY <1>1, <1>7, <3>1
    <3>3. PICK a \in Nat, b \in Nat, d \in Nat : a = f[k] /\ b = s[m] /\ d = s[i]
      <4>1. k \in 0..n
        OBVIOUS
      <4>2. f[k] \in Nat /\ s[m] \in Nat /\ s[i] \in Nat
        BY <1>1, <1>10, <4>1
      <4>3. QED
        BY <4>2
    <3>4. f[k + 1] = a + b
      BY <3>1, <3>2, <3>3
    <3>5. d <= a + b
      <4>1. CASE i = m
        <5>1. d = b
          BY <3>3, <4>1
        <5>2. QED
          BY <5>1
      <4>2. CASE i <= k
        <5>1. s[i] <= f[k]
          BY <2>2, <4>2
        <5>2. d <= a
          BY <3>3, <5>1, Zenon
        <5>3. QED
          BY <5>2
      <4>3. QED
        BY <3>1, <4>1, <4>2
    <3>6. QED
      BY <3>3, <3>4, <3>5
  <2>3. n \in G
    <3> HIDE DEF G
    <3>1. QED
      BY <2>1, <2>2, Induction
  <2>4. QED
    BY <1>1, <2>3
<1>12. QED
  BY <1>1, <1>6, <1>10, <1>11

----------------------------------------------------------------------------
(* Heads, counts, and lists of a set *)

\* What a list has is its head or in its tail.
LEMMA TailFacts ==
  ASSUME NEW S, NEW s \in Seq(S), s # << >>
  PROVE  /\ Len(s) \in Nat \ {0} /\ Head(s) = s[1] /\ s[1] \in S
         /\ Tail(s) \in Seq(S) /\ Len(Tail(s)) = Len(s) - 1
         /\ \A i \in 1..(Len(s) - 1) : Tail(s)[i] = s[i + 1]
         /\ \A i \in 1..Len(s) : i # 1 => \E k \in 1..Len(Tail(s)) : Tail(s)[k] = s[i]
<1>1. Len(s) \in Nat \ {0} /\ Head(s) = s[1] /\ s[1] \in S
  BY EmptySeq, ElementOfSeq
<1>2. /\ Tail(s) \in Seq(S) /\ Len(Tail(s)) = Len(s) - 1
      /\ \A i \in 1..Len(Tail(s)) : Tail(s)[i] = s[i + 1]
  BY HeadTailProperties
<1>3. ASSUME NEW i \in 1..Len(s), i # 1
      PROVE  \E k \in 1..Len(Tail(s)) : Tail(s)[k] = s[i]
  <2>1. i - 1 \in 1..Len(Tail(s)) /\ (i - 1) + 1 = i
    BY <1>1, <1>2, <1>3
  <2>2. QED
    BY <1>2, <2>1
<1>4. QED
  BY <1>1, <1>2, <1>3

Items(s, n) == {s[i] : i \in 1..n}

\* The first n items of a list are a set no larger than n.
LEMMA ListCounts ==
  ASSUME NEW S, NEW n \in Nat, NEW s, S \subseteq Items(s, n)
  PROVE  IsFiniteSet(S) /\ Cardinality(S) \in Nat /\ Cardinality(S) <= n
<1> DEFINE f == [i \in 1..n |-> s[i]]
<1>1. f \in Surjection(1..n, Items(s, n))
  BY DEF Surjection, Items
<1>2. IsFiniteSet(1..n) /\ Cardinality(1..n) = n
  BY Positions
<1>3. IsFiniteSet(Items(s, n)) /\ Cardinality(Items(s, n)) <= Cardinality(1..n)
  <2> HIDE DEF f
  <2>1. QED
    BY <1>1, <1>2, FS_Surjection
<1>4. IsFiniteSet(S) /\ Cardinality(S) <= Cardinality(Items(s, n))
  BY <1>3, FS_Subset
<1>5. Cardinality(S) \in Nat /\ Cardinality(Items(s, n)) \in Nat
  BY <1>3, <1>4, FS_CardinalityType
<1>6. QED
  BY <1>2, <1>3, <1>4, <1>5

\* SetToSeq lists a finite set, each element once.
LEMMA SetToSeqFacts ==
  ASSUME NEW S, IsFiniteSet(S)
  PROVE  /\ SetToSeq(S) \in Seq(S) /\ Len(SetToSeq(S)) = Cardinality(S)
         /\ Cardinality(S) \in Nat
         /\ \A x \in S : \E i \in 1..Cardinality(S) : SetToSeq(S)[i] = x
         /\ \A i, j \in 1..Cardinality(S) : i < j => SetToSeq(S)[i] # SetToSeq(S)[j]
<1> DEFINE n == Cardinality(S)
           s == SetToSeq(S)
<1>1. n \in Nat /\ ExistsBijection(1..n, S)
  BY FS_CardinalityType
<1>2. PICK f \in Bijection(1..n, S) : TRUE
  BY <1>1 DEF ExistsBijection
<1>3. f \in [1..n -> S] /\ IsInjective(f)
  BY <1>2 DEF Bijection, Injection, IsInjective
<1>4. s \in [1..n -> S] /\ IsInjective(s)
  <2> HIDE DEF n
  <2>1. \E g \in [1..n -> S] : IsInjective(g)
    BY <1>3
  <2>2. s = CHOOSE g \in [1..n -> S] : IsInjective(g)
    BY DEF SetToSeq, n
  <2> HIDE DEF s
  <2>3. QED
    BY <2>1, <2>2
<1> HIDE DEF n, s
<1>5. s \in Seq(S) /\ Len(s) = n
  BY <1>1, <1>4, FunctionIsSequence
<1>6. \A i, j \in 1..n : i < j => s[i] # s[j]
  BY <1>1, <1>4 DEF IsInjective
<1>7. s \in Injection(1..n, S)
  BY <1>4 DEF Injection
<1>8. s \in Surjection(1..n, S)
  <2>1. Cardinality(1..n) = n /\ n = Cardinality(S)
    BY <1>1, Positions DEF n
  <2>2. QED
    BY <1>7, <2>1, FS_Injection
<1>9. \A x \in S : \E i \in 1..n : s[i] = x
  BY <1>8 DEF Surjection
<1>10. QED
  BY <1>1, <1>5, <1>6, <1>9 DEF n, s

\* To pick every position is to take the whole list.
LEMMA PickAll ==
  ASSUME NEW S, NEW s \in Seq(S), NEW I, \A i \in 1..Len(s) : i \in I
  PROVE  Pick(s, I) = s
<1>1. PICK pick : Pick(s, I) = pick[Len(s)] /\ PickSteps(pick, s, I)
  BY PickRecursion
<1>2. PICK n \in Nat : n = Len(s) /\ DOMAIN s = 1..n /\ \A i \in 1..n : s[i] \in S
  BY LenProperties, ElementOfSeq
<1> DEFINE Copied(m) == m <= n => pick[m] \in Seq(S) /\ Len(pick[m]) = m
                                 /\ \A i \in 1..m : pick[m][i] = s[i]
           D == {m \in Nat : Copied(m)}
<1>3. 0 \in D
  <2>1. pick[0] = << >> /\ << >> \in Seq(S) /\ Len(<< >>) = 0
    BY <1>1, EmptySeq DEF PickSteps
  <2>2. \A i \in 1..0 : pick[0][i] = s[i]
    OBVIOUS
  <2>3. Copied(0)
    BY <2>1, <2>2, Zenon
  <2>4. QED
    BY <2>3
<1>4. ASSUME NEW m \in Nat, m \in D
      PROVE  m + 1 \in D
  <2> SUFFICES ASSUME m + 1 <= n PROVE Copied(m + 1)
    OBVIOUS
  <2>1. pick[m] \in Seq(S) /\ Len(pick[m]) = m /\ \A i \in 1..m : pick[m][i] = s[i]
    BY <1>4
  <2>2. m + 1 \in 1..Len(s) /\ (m + 1) - 1 = m /\ s[m + 1] \in S /\ m + 1 \in I
    BY <1>2
  <2>3. pick[m + 1] = Append(pick[m], s[m + 1])
    BY <1>1, <2>2 DEF PickSteps
  <2>4. /\ pick[m + 1] \in Seq(S) /\ Len(pick[m + 1]) = m + 1
        /\ \A i \in 1..m : pick[m + 1][i] = pick[m][i]
        /\ pick[m + 1][m + 1] = s[m + 1]
    BY <2>1, <2>2, <2>3, AppendProperties
  <2>5. QED
    BY <2>1, <2>4
<1> HIDE DEF D
<1>5. n \in D
  BY <1>2, <1>3, <1>4, Induction
<1>6. /\ Pick(s, I) \in Seq(S) /\ Len(Pick(s, I)) = n
      /\ \A i \in 1..n : Pick(s, I)[i] = s[i]
  BY <1>1, <1>2, <1>5 DEF D
<1>7. QED
  <2>1. DOMAIN Pick(s, I) = 1..n
    BY <1>6, LenProperties
  <2>2. Pick(s, I) \in [1..n -> S] /\ s \in [1..n -> S]
    BY <1>2, <1>6, LenProperties
  <2>3. QED
    BY <1>6, <2>2

----------------------------------------------------------------------------
(* Lists that are related element by element, and sorted lists of the same *)
(* elements                                                                *)

\* Two lists that are related element by element stay so when related elements are
\* appended to them.
LEMMA AppendRelated ==
  ASSUME NEW S, NEW s \in Seq(S), NEW T, NEW t \in Seq(T), NEW R, Len(s) = Len(t),
         \A k \in 1..Len(s) : <<s[k], t[k]>> \in R,
         NEW a \in S, NEW b \in T, <<a, b>> \in R
  PROVE  /\ Append(s, a) \in Seq(S) /\ Append(t, b) \in Seq(T)
         /\ Len(Append(s, a)) = Len(Append(t, b))
         /\ \A k \in 1..Len(Append(s, a)) : <<Append(s, a)[k], Append(t, b)[k]>> \in R
<1>1. /\ IsSequence(s) /\ IsSequence(t)
      /\ Append(s, a) \in Seq(S) /\ Append(t, b) \in Seq(T)
  BY SequenceOfItsElements, AppendProperties
<1>2. /\ Len(Append(s, a)) = Len(s) + 1 /\ Append(s, a)[Len(s) + 1] = a
      /\ \A k \in 1..Len(s) : Append(s, a)[k] = s[k]
  BY <1>1, AppendFacts
<1>3. /\ Len(Append(t, b)) = Len(t) + 1 /\ Append(t, b)[Len(t) + 1] = b
      /\ \A k \in 1..Len(t) : Append(t, b)[k] = t[k]
  BY <1>1, AppendFacts
<1>4. PICK u, v : u = Append(s, a) /\ v = Append(t, b)
  OBVIOUS
<1>5. PICK n \in Nat : n = Len(s) /\ n = Len(t)
  BY LenProperties
<1>6. /\ Len(u) = n + 1 /\ Len(v) = n + 1 /\ u[n + 1] = a /\ v[n + 1] = b
      /\ \A k \in 1..n : u[k] = s[k] /\ v[k] = t[k]
  BY <1>2, <1>3, <1>4, <1>5, Zenon
<1>7. \A k \in 1..(n + 1) : k = n + 1 \/ k \in 1..n
  OBVIOUS
<1>8. \A k \in 1..(n + 1) : <<u[k], v[k]>> \in R
  BY <1>5, <1>6, <1>7, Zenon
<1>9. QED
  BY <1>1, <1>4, <1>6, <1>8, Zenon

\* Lists related element by element, s and t, stay so when the same positions are picked.
LEMMA PickRelated ==
  ASSUME NEW S, NEW s \in Seq(S), NEW T, NEW t \in Seq(T), NEW I, NEW R,
         Len(t) <= Len(s),
         \A i \in 1..Len(s) : i \in I => i <= Len(t) /\ <<s[i], t[i]>> \in R
  PROVE  /\ Len(Pick(s, I)) = Len(Pick(t, I))
         /\ \A k \in 1..Len(Pick(s, I)) : <<Pick(s, I)[k], Pick(t, I)[k]>> \in R
<1>1. PICK m \in Nat, n \in Nat : m = Len(s) /\ n = Len(t) /\ n <= m
  BY LenProperties
<1>2. (\A i \in 1..m : s[i] \in S) /\ (\A i \in 1..n : t[i] \in T)
  BY <1>1, ElementOfSeq
<1>3. PICK p : Pick(s, I) = p[m] /\ PickSteps(p, s, I)
  BY <1>1, PickRecursion
<1>4. PICK q : Pick(t, I) = q[n] /\ PickSteps(q, t, I)
  BY <1>1, PickRecursion
<1> DEFINE Alike(x, y) ==
             /\ x \in Seq(S) /\ y \in Seq(T) /\ Len(x) = Len(y)
             /\ \A k \in 1..Len(x) : <<x[k], y[k]>> \in R
           D == {i \in Nat : i <= m => Alike(p[i], q[Least(i, n)])}
<1>5. 0 \in D
  <2>1. p[0] = << >> /\ q[0] = << >> /\ Least(0, n) = 0
    BY <1>1, <1>3, <1>4 DEF PickSteps, Least
  <2>2. << >> \in Seq(S) /\ << >> \in Seq(T) /\ Len(<< >>) = 0
    BY EmptySeq
  <2>3. Alike(<< >>, << >>)
    BY <2>2
  <2> HIDE DEF Alike
  <2>4. QED
    BY <1>1, <2>1, <2>3
<1>6. ASSUME NEW i \in Nat, i \in D
      PROVE  i + 1 \in D
  <2> SUFFICES ASSUME i + 1 <= m PROVE Alike(p[i + 1], q[Least(i + 1, n)])
    OBVIOUS
  <2> DEFINE x == p[i]
             y == q[Least(i, n)]
  <2>1. Alike(x, y)
    <3> HIDE DEF Alike
    <3>1. i <= m
      BY <1>1
    <3>2. QED
      BY <1>6, <3>1
  <2>2. p[i + 1] = IF i + 1 \in I THEN Append(x, s[i + 1]) ELSE x
    BY <1>1, <1>3 DEF PickSteps
  <2>3. CASE i + 1 \in I
    <3>1. i + 1 <= n /\ <<s[i + 1], t[i + 1]>> \in R
      BY <1>1, <2>3
    <3>2. Least(i, n) = i /\ Least(i + 1, n) = i + 1
      BY <1>1, <3>1 DEF Least
    <3>3. q[i + 1] = Append(y, t[i + 1])
      <4>1. i + 1 \in 1..Len(t) /\ (i + 1) - 1 = i
        BY <1>1, <3>1
      <4>2. QED
        BY <1>4, <2>3, <3>2, <4>1 DEF PickSteps
    <3>4. s[i + 1] \in S /\ t[i + 1] \in T
      BY <1>1, <1>2, <3>1
    <3> HIDE DEF x, y
    <3>5. Alike(Append(x, s[i + 1]), Append(y, t[i + 1]))
      <4>1. PICK u, v, a, b : u = x /\ v = y /\ a = s[i + 1] /\ b = t[i + 1]
        OBVIOUS
      <4>2. /\ u \in Seq(S) /\ v \in Seq(T) /\ Len(u) = Len(v) /\ a \in S /\ b \in T
            /\ \A k \in 1..Len(u) : <<u[k], v[k]>> \in R
            /\ <<a, b>> \in R
        BY <2>1, <3>1, <3>4, <4>1
      <4>3. /\ Append(u, a) \in Seq(S) /\ Append(v, b) \in Seq(T)
            /\ Len(Append(u, a)) = Len(Append(v, b))
            /\ \A k \in 1..Len(Append(u, a)) : <<Append(u, a)[k], Append(v, b)[k]>> \in R
        BY <4>2, AppendRelated, Zenon
      <4>4. Alike(Append(u, a), Append(v, b))
        BY <4>3
      <4>5. QED
        BY <4>1, <4>4
    <3>6. QED
      BY <2>2, <2>3, <3>2, <3>3, <3>5
  <2>4. CASE i + 1 \notin I
    <3>1. CASE i + 1 <= n
      <4>1. Least(i, n) = i /\ Least(i + 1, n) = i + 1
        BY <1>1, <3>1 DEF Least
      <4>2. q[i + 1] = y
        BY <1>1, <1>4, <2>4, <3>1, <4>1 DEF PickSteps
      <4>3. QED
        BY <2>1, <2>2, <2>4, <4>1, <4>2
    <3>2. CASE i + 1 > n
      <4>1. Least(i, n) = Least(i + 1, n)
        BY <1>1, <3>2 DEF Least
      <4>2. QED
        BY <2>1, <2>2, <2>4, <4>1
    <3>3. QED
      BY <1>1, <3>1, <3>2
  <2>5. QED
    BY <2>3, <2>4
<1> HIDE DEF Alike
<1>7. m \in D
  <2> HIDE DEF D
  <2>1. QED
    BY <1>1, <1>5, <1>6, Induction
<1>8. Alike(p[m], q[n])
  <2>1. Least(m, n) = n
    BY <1>1 DEF Least
  <2>2. QED
    BY <1>7, <2>1
<1>9. QED
  BY <1>3, <1>4, <1>8 DEF Alike

\* Lists are equal that have the same length and the same elements.
LEMMA SameList ==
  ASSUME NEW S, NEW s \in Seq(S), NEW T, NEW t \in Seq(T), Len(s) = Len(t),
         \A i \in 1..Len(s) : s[i] = t[i]
  PROVE  s = t
<1>1. s = [i \in 1..Len(s) |-> s[i]] /\ t = [i \in 1..Len(t) |-> t[i]]
  BY LenProperties
<1>2. QED
  BY <1>1

\* p pairs off the elements of s with equal ones of t.
Pairs(p, s, t, n) ==
  /\ \A i \in 1..n : p[i] \in 1..n /\ s[i] = t[p[i]]
  /\ \A i, j \in 1..n : p[i] = p[j] => i = j

\* Function p takes every value up to n.
Takes(p, n) == \A j \in 1..n : \E i \in 1..n : p[i] = j

\* V orders the elements of s, those apart that differ.
Separates(V, s, n) ==
  /\ \A i \in 1..n : <<s[i], s[i]>> \notin V
  /\ \A i, j, k \in 1..n : <<s[i], s[k]>> \in V => <<s[i], s[j]>> \in V \/ <<s[j], s[k]>> \in V
  /\ \A i, j \in 1..n : s[i] = s[j] \/ <<s[i], s[j]>> \in V \/ <<s[j], s[i]>> \in V

\* No element of s comes after one that it is before by V.
Rises(V, s, n) == \A k, m \in 1..n : k < m => <<s[m], s[k]>> \notin V

\* Of two sorted lists with the same elements, s and t, none has a smaller one at some
\* position: those of s up to there would have too few places in t.
LEMMA SortedNotSmaller ==
  ASSUME NEW n \in Nat, NEW s, NEW t, NEW V, NEW q, Pairs(q, s, t, n),
         Separates(V, t, n), Rises(V, s, n), Rises(V, t, n),
         NEW k \in 1..n
  PROVE  <<s[k], t[k]>> \notin V
<1> SUFFICES ASSUME <<s[k], t[k]>> \in V PROVE FALSE
  OBVIOUS
<1>1. \A i \in 1..n : q[i] \in 1..n /\ s[i] = t[q[i]]
  BY DEF Pairs
<1>2. ASSUME NEW i \in 1..n, NEW j \in 1..n, i <= j
      PROVE  <<s[j], s[i]>> \notin V /\ <<t[j], t[i]>> \notin V
  <2>1. CASE i < j
    BY <2>1 DEF Rises
  <2>2. CASE i = j
    BY <1>1, <2>2 DEF Separates
  <2>3. QED
    BY <1>2, <2>1, <2>2
<1>3. ASSUME NEW j \in 1..k
      PROVE  q[j] \in 1..(k - 1)
  <2>1. j \in 1..n /\ q[j] \in 1..n /\ j <= k /\ s[j] = t[q[j]]
    BY <1>1
  <2>2. CASE k <= q[j]
    <3>1. <<s[k], s[j]>> \notin V
      BY <1>2, <2>1, Zenon
    <3>2. <<t[q[j]], t[k]>> \notin V
      BY <1>2, <2>1, <2>2, Zenon
    <3>3. q[k] \in 1..n /\ s[k] = t[q[k]]
      BY <1>1
    <3>4. <<t[q[k]], t[q[j]]>> \in V \/ <<t[q[j]], t[k]>> \in V
      BY <2>1, <3>3, Zenon DEF Separates
    <3>5. QED
      BY <2>1, <3>1, <3>2, <3>3, <3>4, Zenon
  <2>3. QED
    BY <2>1, <2>2
<1> DEFINE f == [j \in 1..k |-> q[j]]
<1>4. f \in [1..k -> 1..(k - 1)]
  BY <1>3
<1>5. /\ IsFiniteSet(1..k) /\ IsFiniteSet(1..(k - 1))
      /\ Cardinality(1..(k - 1)) < Cardinality(1..k)
  <2>1. k \in Nat /\ k - 1 \in Nat
    OBVIOUS
  <2>2. QED
    BY <2>1, Positions
<1>6. \E x, y \in 1..k : x # y /\ f[x] = f[y]
  <2>1. PICK K, L, g : K = 1..k /\ L = 1..(k - 1) /\ g = f
    OBVIOUS
  <2>2. /\ IsFiniteSet(K) /\ IsFiniteSet(L) /\ Cardinality(L) < Cardinality(K)
        /\ g \in [K -> L]
    BY <1>4, <1>5, <2>1
  <2>3. \E x, y \in K : x # y /\ g[x] = g[y]
    BY <2>2, FS_PigeonHole
  <2>4. QED
    BY <2>1, <2>3
<1>7. QED
  BY <1>6 DEF Pairs

TakenFrom(a, u, s, n) == \A i \in 1..n : a[i] \in 1..n /\ u[i] = s[a[i]]

\* The elements of u are all from s, and what V separates it separates there too.
LEMMA SeparatesAmong ==
  ASSUME NEW n \in Nat, NEW s, NEW V, Separates(V, s, n), NEW u, NEW a, TakenFrom(a, u, s, n)
  PROVE  Separates(V, u, n)
BY DEF Separates, TakenFrom

\* Two sorted lists of the same elements are the same.
LEMMA SortedAlike ==
  ASSUME NEW n \in Nat, NEW s, NEW t, NEW V, NEW p, Pairs(p, s, t, n), Takes(p, n),
         Separates(V, s, n),
         NEW u, NEW a, Permutes(a, u, s, n), Rises(V, u, n),
         NEW v, NEW b, Permutes(b, v, t, n), Rises(V, v, n),
         NEW k \in 1..n
  PROVE  u[k] = v[k]
<1> DEFINE x == [i \in 1..n |-> CHOOSE m \in 1..n : b[m] = p[a[i]]]
           y == [j \in 1..n |-> CHOOSE m \in 1..n : p[a[m]] = b[j]]
<1>p. \A i \in 1..n : a[i] \in 1..n /\ b[i] \in 1..n /\ u[i] = s[a[i]] /\ v[i] = t[b[i]]
  BY DEF Permutes
<1>q. \A i \in 1..n : p[i] \in 1..n /\ s[i] = t[p[i]]
  BY DEF Pairs
<1>r. \A i, j \in 1..n : (a[i] = a[j] => i = j) /\ (b[i] = b[j] => i = j)
                           /\ (p[i] = p[j] => i = j)
  BY DEF Permutes, Pairs
<1>1. ASSUME NEW i \in 1..n
      PROVE  x[i] \in 1..n /\ b[x[i]] = p[a[i]]
  <2>1. p[a[i]] \in 1..n
    BY <1>p, <1>q
  <2>2. \E m \in 1..n : b[m] = p[a[i]]
    BY <2>1, Zenon DEF Permutes
  <2>3. QED
    BY <2>2
<1>2. ASSUME NEW j \in 1..n
      PROVE  y[j] \in 1..n /\ p[a[y[j]]] = b[j]
  <2>1. PICK i \in 1..n : p[i] = b[j]
    BY <1>p, Zenon DEF Takes
  <2>2. PICK m \in 1..n : a[m] = i
    BY Zenon DEF Permutes
  <2>3. \E l \in 1..n : p[a[l]] = b[j]
    BY <2>1, <2>2
  <2>4. QED
    BY <2>3
<1> HIDE DEF x, y
<1>3. Pairs(x, u, v, n)
  <2>1. ASSUME NEW i \in 1..n
        PROVE  u[i] = v[x[i]]
    <3>1. u[i] = s[a[i]] /\ v[x[i]] = t[b[x[i]]]
      BY <1>1, <1>p, Zenon
    <3>2. s[a[i]] = t[p[a[i]]]
      BY <1>p, <1>q, Zenon
    <3>3. QED
      BY <1>1, <3>1, <3>2, Zenon
  <2>2. ASSUME NEW i \in 1..n, NEW j \in 1..n, x[i] = x[j]
        PROVE  i = j
    <3>1. p[a[i]] = p[a[j]] /\ a[i] \in 1..n /\ a[j] \in 1..n
      <4>1. b[x[i]] = p[a[i]] /\ b[x[j]] = p[a[j]]
        BY <1>1, Zenon
      <4>2. QED
        BY <1>p, <2>2, <4>1, Zenon
    <3>2. QED
      BY <1>r, <3>1, Zenon
  <2>3. QED
    BY <1>1, <2>1, <2>2, Zenon DEF Pairs
<1>4. Pairs(y, v, u, n)
  <2>1. ASSUME NEW i \in 1..n
        PROVE  v[i] = u[y[i]]
    <3>1. v[i] = t[b[i]] /\ a[y[i]] \in 1..n /\ u[y[i]] = s[a[y[i]]]
      BY <1>2, <1>p, Zenon
    <3>2. s[a[y[i]]] = t[p[a[y[i]]]]
      BY <1>q, <3>1, Zenon
    <3>3. QED
      BY <1>2, <3>1, <3>2, Zenon
  <2>2. ASSUME NEW i \in 1..n, NEW j \in 1..n, y[i] = y[j]
        PROVE  i = j
    <3>1. p[a[y[i]]] = b[i] /\ p[a[y[j]]] = b[j]
      BY <1>2, Zenon
    <3>2. b[i] = b[j]
      BY <2>2, <3>1, Zenon
    <3>3. QED
      BY <1>r, <3>2, Zenon
  <2>3. QED
    BY <1>2, <2>1, <2>2, Zenon DEF Pairs
<1>5. Separates(V, u, n)
  <2>1. TakenFrom(a, u, s, n)
    BY <1>p DEF TakenFrom
  <2>2. QED
    BY <2>1, SeparatesAmong
<1>6. Separates(V, v, n)
  <2>1. TakenFrom(y, v, u, n)
    BY <1>4 DEF Pairs, TakenFrom
  <2>2. QED
    BY <1>5, <2>1, SeparatesAmong
<1>7. <<u[k], v[k]>> \notin V /\ <<v[k], u[k]>> \notin V
  BY <1>3, <1>4, <1>5, <1>6, SortedNotSmaller, Zenon
<1>8. PICK i \in 1..n : v[k] = u[i]
  BY <1>4, Zenon DEF Pairs
<1>9. QED
  BY <1>5, <1>7, <1>8, Zenon DEF Separates

----------------------------------------------------------------------------
(* Sums of differences *)

\* What falls from one number to the next, falls in all from the first to the last.
LEMMA Telescope ==
  ASSUME NEW n \in Nat, NEW s, DOMAIN s = 1..n, Len(s) = n,
         NEW a \in [0..n -> Int], \A i \in 1..n : s[i] = a[i] - a[i - 1]
  PROVE  Total(s) = a[n] - a[0]
<1> DEFINE g == [m \in Nat |-> IF m \in 1..n THEN a[m] - a[0] ELSE 0]
<1>1. Adds(g, s)
  <2>1. ASSUME NEW m \in Nat
        PROVE  g[m] = IF m \in DOMAIN s THEN g[m - 1] + s[m] ELSE 0
    <3>1. CASE m \in 1..n
      <4>1. m - 1 \in 0..n /\ m - 1 \in Nat /\ m \in 0..n /\ 0 \in 0..n
        BY <3>1
      <4>2. a[m] \in Int /\ a[m - 1] \in Int /\ a[0] \in Int
        BY <4>1
      <4>3. s[m] = a[m] - a[m - 1] /\ g[m] = a[m] - a[0]
        BY <3>1
      <4>4. g[m - 1] = a[m - 1] - a[0]
        <5>1. CASE m = 1
          BY <4>2, <5>1
        <5>2. CASE m # 1
          BY <3>1, <4>1, <5>2
        <5>3. QED
          BY <5>1, <5>2
      <4> HIDE DEF g
      <4>5. QED
        BY <3>1, <4>2, <4>3, <4>4
    <3>2. CASE m \notin 1..n
      BY <3>2
    <3>3. QED
      BY <3>1, <3>2
  <2>2. g = [m \in Nat |-> g[m]]
    OBVIOUS
  <2> HIDE DEF g
  <2>3. QED
    BY <2>1, <2>2 DEF Adds
<1> DEFINE f == CHOOSE x : Adds(x, s)
<1>2. Adds(f, s) /\ Total(s) = f[n]
  BY <1>1 DEF Total, Adds
<1> HIDE DEF f, g
<1>3. /\ \A m \in Nat : f[m] = IF m \in DOMAIN s THEN f[m - 1] + s[m] ELSE 0
      /\ \A m \in Nat : g[m] = IF m \in DOMAIN s THEN g[m - 1] + s[m] ELSE 0
  BY <1>1, <1>2 DEF Adds
<1> DEFINE D == {m \in Nat : m <= n => f[m] = g[m]}
<1>4. 0 \in D
  BY <1>3
<1>5. ASSUME NEW m \in Nat, m \in D
      PROVE  m + 1 \in D
  <2>1. m + 1 <= n => f[m] = g[m] /\ (m + 1) - 1 = m /\ m + 1 \in 1..n
    BY <1>5
  <2>2. QED
    BY <1>3, <2>1
<1> HIDE DEF D
<1>6. Nat \subseteq D
  BY <1>4, <1>5, Induction
<1>7. f[n] = g[n]
  BY <1>6 DEF D
<1>8. g[n] = a[n] - a[0]
  <2>1. 0 \in 0..n /\ a[0] \in Int
    OBVIOUS
  <2>2. CASE n = 0
    BY <2>1, <2>2 DEF g
  <2>3. CASE n # 0
    BY <2>3 DEF g
  <2>4. QED
    BY <2>2, <2>3
<1>9. QED
  BY <1>2, <1>7, <1>8

----------------------------------------------------------------------------
(* Lists that go through lists: picks, maps and joins are all of them Flats *)

\* Induction on lists, stated for a set.
LEMMA ListInduction ==
  ASSUME NEW D, NEW G, << >> \in G, \A s \in Seq(D) : \A e \in D : s \in G => Append(s, e) \in G
  PROVE  Seq(D) \subseteq G
<1> DEFINE H == {n \in Nat : \A s \in Seq(D) : Len(s) = n => s \in G}
<1>1. 0 \in H
  <2>1. \A s \in Seq(D) : Len(s) = 0 => s = << >>
    BY EmptySeq
  <2>2. QED
    BY <2>1
<1>2. ASSUME NEW n \in Nat, n \in H
      PROVE  n + 1 \in H
  <2> SUFFICES ASSUME NEW s \in Seq(D), Len(s) = n + 1 PROVE s \in G
    OBVIOUS
  <2> DEFINE t == [i \in 1..n |-> s[i]]
  <2>1. s \in [1..(n + 1) -> D] /\ \A i \in 1..(n + 1) : s[i] \in D
    BY LenProperties
  <2>2. t \in [1..n -> D] /\ n + 1 \in 1..(n + 1) /\ \A i \in 1..n : t[i] = s[i]
    BY <2>1
  <2> HIDE DEF t
  <2>3. t \in Seq(D) /\ Len(t) = n
    BY <2>2, FunctionIsSequence
  <2> DEFINE u == Append(t, s[n + 1])
  <2>4. s[n + 1] \in D
    BY <2>1, <2>2
  <2>5. /\ u \in Seq(D) /\ Len(u) = n + 1 /\ u[n + 1] = s[n + 1]
        /\ \A i \in 1..n : u[i] = t[i]
    BY <2>3, <2>4, AppendProperties
  <2>6. u \in G
    <3>1. t \in G
      BY <1>2, <2>3
    <3>2. QED
      BY <2>3, <2>4, <3>1
  <2> HIDE DEF u
  <2>7. \A i \in 1..(n + 1) : i = n + 1 \/ i \in 1..n
    OBVIOUS
  <2>8. \A i \in 1..Len(s) : s[i] = u[i]
    BY <2>2, <2>5, <2>7
  <2>9. s = u
    BY <2>5, <2>8, SameList
  <2>10. QED
    BY <2>6, <2>9
<1>3. Nat \subseteq H
  <2> HIDE DEF H
  <2>1. QED
    BY <1>1, <1>2, Induction
<1>4. QED
  BY <1>3, LenProperties

\* Functions that give a list of elements of S for each element of D.
Giving(D, S) == [D -> Seq(S)]

\* The lists that h has for the elements of s, joined.
Flat(h, s) == FlattenSeq([i \in DOMAIN s |-> h[s[i]]])

\* A Flat goes through its list element by element.
FlatSteps(f, h, s) ==
  /\ f[0] = << >>
  /\ \A i \in 1..Len(s) : f[i] = f[i - 1] \o h[s[i]]

\* It ends with the last one.
LEMMA FlatRecursion ==
  ASSUME NEW D, NEW S, NEW h \in Giving(D, S), NEW s \in Seq(D)
  PROVE  \E f : Flat(h, s) = f[Len(s)] /\ f \in [0..Len(s) -> Seq(S)] /\ FlatSteps(f, h, s)
<1> DEFINE ss == [i \in DOMAIN s |-> h[s[i]]]
<1>1. PICK n \in Nat : n = Len(s) /\ DOMAIN s = 1..n /\ \A i \in 1..n : s[i] \in D
  BY LenProperties, ElementOfSeq
<1>2. ss \in [1..n -> Seq(S)] /\ \A i \in 1..n : ss[i] = h[s[i]]
  BY <1>1 DEF Giving
<1>3. Flat(h, s) = FlattenSeq(ss)
  BY DEF Flat
<1> HIDE DEF ss
<1>4. ss \in Seq(Seq(S)) /\ n = Len(ss)
  BY <1>2, FunctionIsSequence
<1>5. PICK f : /\ FlattenSeq(ss) = f[Len(ss)] /\ f \in [0..Len(ss) -> Seq(S)]
               /\ JoinSteps(f, ss)
  BY <1>4, FlattenRecursion
<1>6. FlatSteps(f, h, s)
  BY <1>1, <1>2, <1>4, <1>5 DEF JoinSteps, FlatSteps
<1>7. QED
  BY <1>1, <1>3, <1>4, <1>5, <1>6

\* A Flat of lists of S is one.
LEMMA FlatType ==
  ASSUME NEW D, NEW S, NEW h \in Giving(D, S), NEW s \in Seq(D)
  PROVE  Flat(h, s) \in Seq(S)
<1>1. PICK n \in Nat : n = Len(s)
  BY LenProperties
<1>2. n \in 0..n
  BY <1>1
<1>3. QED
  BY <1>1, <1>2, FlatRecursion

\* Of nothing it is nothing.
LEMMA FlatEmpty ==
  ASSUME NEW D, NEW S, NEW h \in Giving(D, S)
  PROVE  Flat(h, << >>) = << >>
<1>1. PICK s \in Seq(D) : s = << >> /\ Len(s) = 0
  BY EmptySeq
<1>2. PICK f : Flat(h, s) = f[Len(s)] /\ FlatSteps(f, h, s)
  BY FlatRecursion
<1>3. f[0] = << >>
  BY <1>2 DEF FlatSteps
<1>4. QED
  BY <1>1, <1>2, <1>3

\* One more element adds what h has for it.
LEMMA FlatAppend ==
  ASSUME NEW D, NEW S, NEW h \in Giving(D, S), NEW s \in Seq(D), NEW e \in D
  PROVE  Flat(h, Append(s, e)) = Flat(h, s) \o h[e]
<1>1. PICK n \in Nat : n = Len(s)
  BY LenProperties
<1> DEFINE u == Append(s, e)
<1>2. PICK t : t = u
  OBVIOUS
<1>3. /\ u \in Seq(D) /\ Len(u) = n + 1 /\ u[n + 1] = e
       /\ \A i \in 1..n : u[i] = s[i]
  BY <1>1, AppendProperties
<1> HIDE DEF u
<1>4. /\ t \in Seq(D) /\ Len(t) = n + 1 /\ t[n + 1] = e
       /\ \A i \in 1..n : t[i] = s[i]
  BY <1>2, <1>3
<1>5. PICK f : Flat(h, s) = f[n] /\ FlatSteps(f, h, s)
  BY <1>1, FlatRecursion
<1>6. PICK g : Flat(h, t) = g[n + 1] /\ FlatSteps(g, h, t)
  BY <1>4, FlatRecursion
<1>7. /\ f[0] = << >> /\ \A i \in 1..n : f[i] = f[i - 1] \o h[s[i]]
      /\ g[0] = << >> /\ \A i \in 1..(n + 1) : g[i] = g[i - 1] \o h[t[i]]
  BY <1>1, <1>4, <1>5, <1>6 DEF FlatSteps
<1> DEFINE E == {i \in Nat : i <= n => g[i] = f[i]}
<1>8. ASSUME NEW i \in Nat, i \in E
      PROVE  i + 1 \in E
  <2> SUFFICES ASSUME i + 1 <= n PROVE g[i + 1] = f[i + 1]
    OBVIOUS
  <2>1. i + 1 \in 1..n /\ i + 1 \in 1..(n + 1) /\ (i + 1) - 1 = i /\ i <= n
    OBVIOUS
  <2>2. g[i] = f[i]
    BY <1>8, <2>1
  <2>3. QED
    BY <1>4, <1>7, <2>1, <2>2
<1>9. n \in E
  <2>1. 0 \in E
    BY <1>7
  <2> HIDE DEF E
  <2>2. QED
    BY <1>8, <2>1, Induction
<1>10. n + 1 \in 1..(n + 1) /\ (n + 1) - 1 = n
  OBVIOUS
<1>11. g[n] = f[n]
  BY <1>9
<1>12. g[n + 1] = g[n] \o h[t[n + 1]]
  BY <1>7, <1>10
<1>13. g[n + 1] = f[n] \o h[e]
  BY <1>4, <1>11, <1>12
<1>14. QED
  BY <1>2, <1>5, <1>6, <1>13 DEF u

\* A single element gives what h has for it.
LEMMA FlatOne ==
  ASSUME NEW D, NEW S, NEW h \in Giving(D, S), NEW e \in D
  PROVE  Flat(h, <<e>>) = h[e]
<1>1. << >> \in Seq(D) /\ Append(<< >>, e) = <<e>>
  BY EmptySeq
<1>2. Flat(h, <<e>>) = << >> \o h[e]
  <2>1. PICK s \in Seq(D) : s = << >> /\ Append(s, e) = <<e>>
    BY <1>1
  <2>2. Flat(h, s) = << >>
    BY <2>1, FlatEmpty
  <2>3. Flat(h, Append(s, e)) = Flat(h, s) \o h[e]
    BY FlatAppend
  <2>4. QED
    BY <2>1, <2>2, <2>3
<1>3. h[e] \in Seq(S)
  BY DEF Giving
<1>4. QED
  BY <1>2, <1>3, ConcatEmptySeq

\* A Flat of two lists, one after the other.
LEMMA FlatConcat ==
  ASSUME NEW D, NEW S, NEW h \in Giving(D, S), NEW s \in Seq(D), NEW t \in Seq(D)
  PROVE  Flat(h, s \o t) = Flat(h, s) \o Flat(h, t)
<1> DEFINE G == {u \in Seq(D) : Flat(h, s \o u) = Flat(h, s) \o Flat(h, u)}
<1>1. << >> \in G
  <2>1. << >> \in Seq(D) /\ s \o << >> = s /\ Flat(h, << >>) = << >>
    BY EmptySeq, ConcatEmptySeq, FlatEmpty
  <2>2. Flat(h, s) \o << >> = Flat(h, s)
    BY FlatType, ConcatEmptySeq
  <2>3. QED
    BY <2>1, <2>2
<1>2. ASSUME NEW u \in Seq(D), NEW e \in D, u \in G
      PROVE  Append(u, e) \in G
  <2>1. /\ Append(u, e) \in Seq(D) /\ Append(u, e) = u \o <<e>>
        /\ s \o u \in Seq(D) /\ <<e>> \in Seq(D)
    BY AppendIsConcat, AppendProperties, ConcatProperties
  <2>2. s \o Append(u, e) = Append(s \o u, e)
    <3>1. (s \o u) \o <<e>> = s \o (u \o <<e>>)
      BY <2>1, ConcatAssociative
    <3>2. Append(s \o u, e) = (s \o u) \o <<e>>
      BY <2>1, AppendIsConcat
    <3>3. QED
      BY <2>1, <3>1, <3>2
  <2>3. /\ Flat(h, Append(s \o u, e)) = Flat(h, s \o u) \o h[e]
        /\ Flat(h, Append(u, e)) = Flat(h, u) \o h[e]
    BY <2>1, FlatAppend
  <2>4. Flat(h, s) \in Seq(S) /\ Flat(h, u) \in Seq(S) /\ h[e] \in Seq(S)
    BY FlatType DEF Giving
  <2>5. (Flat(h, s) \o Flat(h, u)) \o h[e] = Flat(h, s) \o (Flat(h, u) \o h[e])
    <3>1. PICK x \in Seq(S), y \in Seq(S), z \in Seq(S) :
            x = Flat(h, s) /\ y = Flat(h, u) /\ z = h[e]
      BY <2>4
    <3>2. (x \o y) \o z = x \o (y \o z)
      BY ConcatAssociative
    <3>3. QED
      BY <3>1, <3>2
  <2>6. Flat(h, s \o Append(u, e)) = Flat(h, s) \o Flat(h, Append(u, e))
    BY <1>2, <2>2, <2>3, <2>5
  <2>7. QED
    BY <2>1, <2>6
<1>3. Seq(D) \subseteq G
  <2> HIDE DEF G
  <2>1. QED
    BY <1>1, <1>2, ListInduction
<1>4. QED
  BY <1>3

\* k is h after g.
Composes(k, h, g, D) == \A d \in D : k[d] = Flat(h, g[d])

\* Flats compose: the Flat of a Flat goes through the list once.
LEMMA FlatFlat ==
  ASSUME NEW D, NEW E, NEW S, NEW g \in Giving(D, E), NEW h \in Giving(E, S),
         NEW k \in Giving(D, S), Composes(k, h, g, D), NEW s \in Seq(D)
  PROVE  Flat(h, Flat(g, s)) = Flat(k, s)
<1>1. ASSUME NEW x \in Seq(E), NEW y \in Seq(E)
      PROVE  Flat(h, x \o y) = Flat(h, x) \o Flat(h, y)
  BY FlatConcat
<1> DEFINE G == {u \in Seq(D) : Flat(h, Flat(g, u)) = Flat(k, u)}
<1>2. << >> \in G
  <2>1. Flat(g, << >>) = << >> /\ Flat(h, << >>) = << >> /\ Flat(k, << >>) = << >>
    BY FlatEmpty
  <2>2. << >> \in Seq(D)
    BY EmptySeq
  <2>3. QED
    BY <2>1, <2>2
<1>3. ASSUME NEW u \in Seq(D), NEW e \in D, u \in G
      PROVE  Append(u, e) \in G
  <2>1. /\ Append(u, e) \in Seq(D) /\ Flat(g, u) \in Seq(E) /\ g[e] \in Seq(E)
    BY AppendProperties, FlatType DEF Giving
  <2>2. Flat(h, Flat(g, u) \o g[e]) = Flat(h, Flat(g, u)) \o Flat(h, g[e])
    BY <1>1, <2>1
  <2>3. Flat(g, Append(u, e)) = Flat(g, u) \o g[e] /\ Flat(k, Append(u, e)) = Flat(k, u) \o k[e]
    BY FlatAppend
  <2>4. k[e] = Flat(h, g[e])
    BY DEF Composes
  <2>5. QED
    BY <1>3, <2>1, <2>2, <2>3, <2>4
<1>4. Seq(D) \subseteq G
  <2> HIDE DEF G
  <2>1. QED
    BY <1>2, <1>3, ListInduction
<1>5. QED
  BY <1>4

\* What gives nothing may as well be left out.
LEMMA FlatPicks ==
  ASSUME NEW D, NEW S, NEW h \in Giving(D, S), NEW s \in Seq(D), NEW I,
         \A i \in 1..Len(s) : i \notin I => h[s[i]] = << >>
  PROVE  Flat(h, Pick(s, I)) = Flat(h, s)
<1> DEFINE Misses(u) == \A i \in 1..Len(u) : i \notin I => h[u[i]] = << >>
           G == {u \in Seq(D) : Misses(u) => Flat(h, Pick(u, I)) = Flat(h, u)}
<1>1. << >> \in G
  <2>1. << >> \in Seq(D) /\ Len(<< >>) = 0
    BY EmptySeq
  <2>2. Pick(<< >>, I) = << >>
    <3>1. PICK u \in Seq(D) : u = << >> /\ Len(u) = 0
      BY <2>1
    <3>2. PICK f : Pick(u, I) = f[Len(u)] /\ PickSteps(f, u, I)
      BY PickRecursion
    <3>3. f[0] = << >>
      BY <3>2 DEF PickSteps
    <3>4. QED
      BY <3>1, <3>2, <3>3
  <2>3. QED
    BY <2>1, <2>2
<1>2. ASSUME NEW u \in Seq(D), NEW e \in D, u \in G
      PROVE  Append(u, e) \in G
  <2> DEFINE v == Append(u, e)
  <2>1. PICK n \in Nat : n = Len(u)
    BY LenProperties
  <2>2. v \in Seq(D) /\ Len(v) = n + 1 /\ v[n + 1] = e /\ \A i \in 1..n : v[i] = u[i]
    BY <2>1, AppendProperties
  <2>3. Pick(v, I) = IF n + 1 \in I THEN Append(Pick(u, I), e) ELSE Pick(u, I)
    BY <2>1, PickAppend
  <2>4. Flat(h, v) = Flat(h, u) \o h[e]
    BY FlatAppend
  <2>5. Pick(u, I) \in Seq(D)
    BY PickFacts
  <2>6. Flat(h, u) \in Seq(S)
    BY FlatType
  <2> SUFFICES ASSUME Misses(v) PROVE Flat(h, Pick(v, I)) = Flat(h, v)
    BY <2>2
  <2> HIDE DEF v
  <2>7. \A i \in 1..n : i \in 1..(n + 1)
    BY <2>1
  <2>8. Misses(u)
    BY <2>1, <2>2, <2>7
  <2>9. Flat(h, Pick(u, I)) = Flat(h, u)
    BY <1>2, <2>8
  <2>10. CASE n + 1 \in I
    BY <2>3, <2>4, <2>5, <2>9, <2>10, FlatAppend
  <2>11. CASE n + 1 \notin I
    <3>1. n + 1 \in 1..(n + 1)
      BY <2>1
    <3>2. h[e] = << >>
      BY <2>2, <2>11, <3>1
    <3>3. QED
      BY <2>3, <2>4, <2>6, <2>9, <2>11, <3>2, ConcatEmptySeq
  <2>12. QED
    BY <2>10, <2>11
<1>3. Seq(D) \subseteq G
  <2> HIDE DEF G
  <2>1. QED
    BY <1>1, <1>2, ListInduction
<1>4. QED
  BY <1>3

\* The elements of P, and an image for each element.
Only(D, P) == [d \in D |-> IF d \in P THEN <<d>> ELSE << >>]
Each(D, g) == [d \in D |-> <<g[d]>>]

\* Only is a filter.
LEMMA OnlyFacts ==
  ASSUME NEW D, NEW P
  PROVE  /\ Only(D, P) \in Giving(D, D)
         /\ \A d \in D : Only(D, P)[d] = IF d \in P THEN <<d>> ELSE << >>
<1>1. \A d \in D : <<d>> \in Seq(D) /\ << >> \in Seq(D)
  BY EmptySeq
<1>2. QED
  BY <1>1 DEF Only, Giving

\* Each is a map.
LEMMA EachFacts ==
  ASSUME NEW D, NEW E, NEW g \in [D -> E]
  PROVE  /\ Each(D, g) \in Giving(D, E)
         /\ \A d \in D : Each(D, g)[d] = <<g[d]>>
<1>1. \A d \in D : <<g[d]>> \in Seq(E)
  OBVIOUS
<1>2. QED
  BY <1>1 DEF Each, Giving

\* A pick by what the elements are is a Flat.
LEMMA PickIsFlat ==
  ASSUME NEW D, NEW P, NEW s \in Seq(D), NEW I, \A i \in 1..Len(s) : i \in I <=> s[i] \in P
  PROVE  Pick(s, I) = Flat(Only(D, P), s)
<1>1. PICK h : h = Only(D, P)
  OBVIOUS
<1>2. h \in Giving(D, D) /\ \A d \in D : h[d] = IF d \in P THEN <<d>> ELSE << >>
  <2>1. Only(D, P) \in Giving(D, D)
    BY OnlyFacts
  <2>2. \A d \in D : Only(D, P)[d] = IF d \in P THEN <<d>> ELSE << >>
    BY OnlyFacts
  <2>3. QED
    BY <1>1, <2>1, <2>2
<1> DEFINE Fits(u) == \A i \in 1..Len(u) : i \in I <=> u[i] \in P
           G == {u \in Seq(D) : Fits(u) => Pick(u, I) = Flat(h, u)}
<1>3. << >> \in G
  <2>1. << >> \in Seq(D) /\ Len(<< >>) = 0
    BY EmptySeq
  <2>2. Pick(<< >>, I) = << >>
    <3>1. PICK u \in Seq(D) : u = << >> /\ Len(u) = 0
      BY <2>1
    <3>2. PICK f : Pick(u, I) = f[Len(u)] /\ PickSteps(f, u, I)
      BY PickRecursion
    <3>3. f[0] = << >>
      BY <3>2 DEF PickSteps
    <3>4. QED
      BY <3>1, <3>2, <3>3
  <2>3. QED
    BY <1>2, <2>1, <2>2, FlatEmpty
<1>4. ASSUME NEW u \in Seq(D), NEW e \in D, u \in G
      PROVE  Append(u, e) \in G
  <2> DEFINE v == Append(u, e)
  <2>1. PICK n \in Nat : n = Len(u)
    BY LenProperties
  <2>2. v \in Seq(D) /\ Len(v) = n + 1 /\ v[n + 1] = e /\ \A i \in 1..n : v[i] = u[i]
    BY <2>1, AppendProperties
  <2>3. Pick(v, I) = IF n + 1 \in I THEN Append(Pick(u, I), e) ELSE Pick(u, I)
    BY <2>1, PickAppend
  <2>4. Flat(h, v) = Flat(h, u) \o h[e]
    <3>1. PICK k \in Giving(D, D) : k = h
      BY <1>2
    <3>2. Flat(k, Append(u, e)) = Flat(k, u) \o k[e]
      BY FlatAppend
    <3>3. QED
      BY <3>1, <3>2
  <2>5. Pick(u, I) \in Seq(D)
    BY PickFacts
  <2> SUFFICES ASSUME Fits(v) PROVE Pick(v, I) = Flat(h, v)
    BY <2>2
  <2> HIDE DEF v
  <2>6. (\A i \in 1..n : i \in 1..(n + 1)) /\ n + 1 \in 1..(n + 1)
    BY <2>1
  <2>7. Pick(u, I) = Flat(h, u)
    <3>1. Fits(u)
      BY <2>1, <2>2, <2>6
    <3>2. QED
      BY <1>4, <3>1
  <2>8. n + 1 \in I <=> e \in P
    BY <2>2, <2>6
  <2>9. CASE e \in P
    <3>1. h[e] = <<e>>
      BY <1>2, <2>9
    <3>2. QED
      BY <2>3, <2>4, <2>5, <2>7, <2>8, <2>9, <3>1, AppendIsConcat
  <2>10. CASE e \notin P
    <3>1. h[e] = << >>
      BY <1>2, <2>10
    <3>2. QED
      BY <2>3, <2>4, <2>5, <2>7, <2>8, <2>10, <3>1, ConcatEmptySeq
  <2>11. QED
    BY <2>9, <2>10
<1>5. Seq(D) \subseteq G
  <2> HIDE DEF G
  <2>1. QED
    BY <1>3, <1>4, ListInduction
<1>6. Fits(s) => Pick(s, I) = Flat(h, s)
  BY <1>5
<1>7. QED
  BY <1>1, <1>6

\* The list of what g has for the elements of s.
Image(g, s) == [i \in DOMAIN s |-> g[s[i]]]

\* A map is a Flat.
LEMMA MapIsFlat ==
  ASSUME NEW D, NEW E, NEW g \in [D -> E], NEW s \in Seq(D)
  PROVE  Image(g, s) = Flat(Each(D, g), s)
<1>1. PICK h : h = Each(D, g)
  OBVIOUS
<1>2. h \in Giving(D, E) /\ \A d \in D : h[d] = <<g[d]>>
  <2>1. Each(D, g) \in Giving(D, E)
    BY EachFacts
  <2>2. \A d \in D : Each(D, g)[d] = <<g[d]>>
    BY DEF Each
  <2>3. QED
    BY <1>1, <2>1, <2>2
<1> DEFINE Map(u) == [i \in DOMAIN u |-> g[u[i]]]
           G == {u \in Seq(D) : Map(u) = Flat(h, u)}
<1>3. << >> \in G
  <2>1. << >> \in Seq(D) /\ DOMAIN << >> = {} /\ Len(<< >>) = 0
    BY EmptySeq
  <2>2. Map(<< >>) = << >>
    OBVIOUS
  <2>3. QED
    BY <1>2, <2>1, <2>2, FlatEmpty
<1>4. ASSUME NEW u \in Seq(D), NEW e \in D, u \in G
      PROVE  Append(u, e) \in G
  <2> DEFINE v == Append(u, e)
  <2>1. PICK n \in Nat : n = Len(u) /\ DOMAIN u = 1..n /\ \A i \in 1..n : u[i] \in D
    BY LenProperties, ElementOfSeq
  <2>2. v \in Seq(D) /\ Len(v) = n + 1 /\ v[n + 1] = e /\ \A i \in 1..n : v[i] = u[i]
    BY <2>1, AppendProperties
  <2>3. DOMAIN v = 1..(n + 1)
    BY <2>2, LenProperties
  <2>4. Flat(h, v) = Flat(h, u) \o <<g[e]>>
    <3>1. h[e] = <<g[e]>>
      BY <1>2
    <3>2. PICK k \in Giving(D, E) : k = h
      BY <1>2
    <3>3. Flat(k, Append(u, e)) = Flat(k, u) \o k[e]
      BY FlatAppend
    <3>4. QED
      BY <3>1, <3>2, <3>3
  <2> HIDE DEF v
  <2>5. Map(u) \in [1..n -> E] /\ \A i \in 1..n : Map(u)[i] = g[u[i]]
    BY <2>1
  <2>6. Map(v) \in [1..(n + 1) -> E] /\ \A i \in 1..(n + 1) : Map(v)[i] = g[v[i]]
    <3>1. \A i \in 1..(n + 1) : i = n + 1 \/ i \in 1..n
      BY <2>1
    <3>2. \A i \in 1..(n + 1) : v[i] \in D
      BY <2>1, <2>2, <3>1
    <3>3. QED
      BY <2>3, <3>2
  <2>7. PICK x, y : x = Map(u) /\ y = Map(v)
    OBVIOUS
  <2> HIDE DEF Map
  <2>8. x \in Seq(E) /\ Len(x) = n /\ y \in Seq(E) /\ Len(y) = n + 1
    <3>1. n + 1 \in Nat
      BY <2>1
    <3>2. QED
      BY <2>1, <2>5, <2>6, <2>7, <3>1, FunctionIsSequence
  <2>9. PICK z : /\ z = Append(x, g[e]) /\ z \in Seq(E) /\ Len(z) = n + 1
                 /\ z[n + 1] = g[e] /\ \A i \in 1..n : z[i] = x[i]
    <3>1. PICK b \in E : b = g[e]
      OBVIOUS
    <3>2. /\ Append(x, b) \in Seq(E) /\ Len(Append(x, b)) = n + 1
          /\ Append(x, b)[n + 1] = b /\ \A i \in 1..n : Append(x, b)[i] = x[i]
      BY <2>8, AppendProperties
    <3>3. QED
      BY <3>1, <3>2
  <2>10. \A i \in 1..(n + 1) : y[i] = z[i]
    <3>1. \A i \in 1..(n + 1) : i = n + 1 \/ i \in 1..n
      BY <2>1
    <3>2. \A i \in 1..n : y[i] = z[i]
      <4>1. ASSUME NEW i \in 1..n
            PROVE  y[i] = z[i]
        <5>1. i \in 1..(n + 1)
          BY <2>1
        <5>2. y[i] = g[v[i]] /\ x[i] = g[u[i]] /\ v[i] = u[i] /\ z[i] = x[i]
          BY <2>2, <2>5, <2>6, <2>7, <2>9, <5>1, Zenon
        <5>3. QED
          BY <5>2
      <4>2. QED
        BY <4>1
    <3>3. n + 1 \in 1..(n + 1)
      BY <2>1
    <3>4. y[n + 1] = z[n + 1]
      BY <2>2, <2>6, <2>7, <2>9, <3>3
    <3>5. QED
      BY <3>1, <3>2, <3>4
  <2>11. y = z
    BY <2>8, <2>9, <2>10, SameList
  <2>12. z = x \o <<g[e]>>
    BY <2>8, <2>9, AppendIsConcat
  <2>13. Map(u) = Flat(h, u)
    BY <1>4
  <2>14. Map(v) = Flat(h, v)
    BY <2>4, <2>7, <2>11, <2>12, <2>13
  <2>15. QED
    BY <2>2, <2>14 DEF v
<1>5. Seq(D) \subseteq G
  <2> HIDE DEF G
  <2>1. QED
    BY <1>3, <1>4, ListInduction
<1>6. Map(s) = Flat(h, s)
  BY <1>5
<1>7. QED
  BY <1>1, <1>6 DEF Image

\* Nothing from each element is nothing at all.
LEMMA FlatNothing ==
  ASSUME NEW D, NEW S, NEW h \in Giving(D, S), NEW s \in Seq(D),
         \A i \in 1..Len(s) : h[s[i]] = << >>
  PROVE  Flat(h, s) = << >>
<1>1. PICK n \in Nat : n = Len(s)
  BY LenProperties
<1>2. PICK f : Flat(h, s) = f[n] /\ FlatSteps(f, h, s)
  BY <1>1, FlatRecursion
<1>3. f[0] = << >> /\ \A i \in 1..n : f[i] = f[i - 1] \o << >>
  BY <1>1, <1>2 DEF FlatSteps
<1> DEFINE E == {i \in Nat : i <= n => f[i] = << >>}
<1>4. ASSUME NEW i \in Nat, i \in E
      PROVE  i + 1 \in E
  <2> SUFFICES ASSUME i + 1 <= n PROVE f[i + 1] = << >>
    OBVIOUS
  <2>1. i + 1 \in 1..n /\ (i + 1) - 1 = i /\ f[i] = << >>
    BY <1>4
  <2>2. << >> \o << >> = << >>
    BY EmptySeq, ConcatEmptySeq
  <2>3. QED
    BY <1>3, <2>1, <2>2
<1>5. 0 \in E
  BY <1>3
<1> HIDE DEF E
<1>6. n \in E
  BY <1>4, <1>5, Induction
<1>7. QED
  BY <1>2, <1>6 DEF E

\* Two lists whose elements have the same to give, one by one.
LEMMA FlatSame ==
  ASSUME NEW h, NEW s, NEW k, NEW t, DOMAIN s = DOMAIN t,
         \A i \in DOMAIN s : h[s[i]] = k[t[i]]
  PROVE  Flat(h, s) = Flat(k, t)
<1>1. [i \in DOMAIN s |-> h[s[i]]] = [i \in DOMAIN t |-> k[t[i]]]
  OBVIOUS
<1>2. QED
  BY <1>1 DEF Flat

\* k is h for the elements of P, and has nothing for others.
Restricts(k, h, P, D) == \A d \in D : k[d] = IF d \in P THEN h[d] ELSE << >>

\* I are the positions of s with an element of P.
Locates(I, s, P) == \A i \in 1..Len(s) : i \in I <=> s[i] \in P

\* To pick the elements of P and go through them is to go through all of them with k.
LEMMA FlatPicked ==
  ASSUME NEW D, NEW S, NEW P, NEW h \in Giving(D, S), NEW k \in Giving(D, S),
         Restricts(k, h, P, D), NEW s \in Seq(D), NEW I, Locates(I, s, P)
  PROVE  Flat(h, Pick(s, I)) = Flat(k, s)
<1>1. PICK only : only = Only(D, P)
  OBVIOUS
<1>2. only \in Giving(D, D) /\ \A d \in D : only[d] = IF d \in P THEN <<d>> ELSE << >>
  <2>1. Only(D, P) \in Giving(D, D)
    BY OnlyFacts
  <2>2. \A d \in D : Only(D, P)[d] = IF d \in P THEN <<d>> ELSE << >>
    BY OnlyFacts
  <2>3. QED
    BY <1>1, <2>1, <2>2
<1>3. Pick(s, I) = Flat(only, s)
  BY <1>1, PickIsFlat DEF Locates
<1>4. Composes(k, h, only, D)
  <2> SUFFICES ASSUME NEW d \in D PROVE k[d] = Flat(h, only[d])
    BY DEF Composes
  <2>1. Flat(h, <<d>>) = h[d] /\ Flat(h, << >>) = << >>
    BY FlatOne, FlatEmpty
  <2>2. QED
    BY <1>2, <2>1 DEF Restricts
<1>5. only \in Giving(D, D)
  BY <1>2
<1>6. Flat(h, Flat(only, s)) = Flat(k, s)
  BY <1>4, <1>5, FlatFlat
<1>7. QED
  BY <1>3, <1>6

=============================================================================
