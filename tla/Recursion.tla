----------------------------- MODULE Recursion -----------------------------
(***************************************************************************)
(* A function that is defined by recursion over a sequence, whatever is    *)
(* done in a step: it exists, so that what its definition says is true.    *)
(***************************************************************************)
EXTENDS Naturals, Sequences, TLAPS, WellFoundedInduction

CONSTANT Step(_, _)   \* from the result so far and the next element

\* A set of numbers without a least element is empty.
LEMMA NoLeast ==
  ASSUME NEW S, S \subseteq Nat, \A n \in S : \E m \in S : m < n
  PROVE  S = {}
<1> SUFFICES ASSUME S # {} PROVE FALSE
  OBVIOUS
<1>1. PICK i \in S : \A j \in S : <<j, i>> \notin OpToRel(<, Nat)
  BY WFMin, NatLessThanWellFounded, Zenon
<1>2. \A j \in S : ~(j < i)
  BY <1>1, Zenon DEF OpToRel
<1> QED
  BY <1>2


Folding(s, n, f) == f = [i \in 0..n |-> IF i = 0 THEN 0 ELSE Step(f[i - 1], s[i])]

LEMMA Pointwise ==
  ASSUME NEW s, NEW n, NEW f, f = [i \in 0..n |-> f[i]],
         \A i \in 0..n : f[i] = IF i = 0 THEN 0 ELSE Step(f[i - 1], s[i])
  PROVE  Folding(s, n, f)
BY DEF Folding

LEMMA FoldingExists ==
  ASSUME NEW s, NEW n \in Nat
  PROVE  \E f : Folding(s, n, f)
<1> DEFINE Bad == {i \in Nat : ~(\E f : Folding(s, i, f))}
<1>1. ASSUME NEW i \in Bad PROVE \E j \in Bad : j < i
  <2>1. i # 0
    <3>1. Folding(s, 0, [j \in 0..0 |-> 0])
      BY DEF Folding
    <3> QED
      BY <3>1
  <2>2. i - 1 \in Nat /\ i - 1 < i
    BY <2>1
  <2>3. ASSUME NEW f, Folding(s, i - 1, f) PROVE FALSE
    <3> DEFINE g == [j \in 0..i |-> IF j = i THEN Step(f[i - 1], s[i]) ELSE f[j]]
    <3>1. \A j \in 0..(i - 1) : g[j] = f[j] /\ j \in 0..i
      BY <2>2
    <3>2. \A j \in 0..(i - 1) : f[j] = IF j = 0 THEN 0 ELSE Step(f[j - 1], s[j])
      BY <2>3 DEF Folding
    <3>3. ASSUME NEW j \in 0..i PROVE g[j] = IF j = 0 THEN 0 ELSE Step(g[j - 1], s[j])
      <4>1. CASE j = i
        <5>1. g[j] = Step(f[i - 1], s[i]) /\ j # 0
          BY <4>1, <2>1
        <5>2. g[j - 1] = f[i - 1]
          BY <4>1, <3>1, <2>2
        <5> HIDE DEF g
        <5> QED
          BY <4>1, <5>1, <5>2
      <4>2. CASE j # i
        <5>1. j \in 0..(i - 1) /\ (j # 0 => j - 1 \in 0..(i - 1))
          BY <4>2, <2>2
        <5>2. g[j] = f[j] /\ (j # 0 => g[j - 1] = f[j - 1])
          BY <5>1, <3>1
        <5> HIDE DEF g
        <5> QED
          BY <5>1, <5>2, <3>2
      <4> QED
        BY <4>1, <4>2
    <3>4. DOMAIN g = 0..i /\ g = [j \in 0..i |-> g[j]]
      OBVIOUS
    <3> HIDE DEF g
    <3>5. Folding(s, i, g)
      BY <3>3, <3>4, Pointwise
    <3> QED
      BY <3>5
  <2> QED
    BY <2>2, <2>3
<1>2. Bad \subseteq Nat
  OBVIOUS
<1> HIDE DEF Bad
<1>3. \A i \in Bad : \E j \in Bad : j < i
  BY <1>1
<1>4. Bad = {}
  BY <1>2, <1>3, NoLeast, Zenon
<1> QED
  BY <1>4 DEF Bad

Folded(s, n) ==
  LET f[i \in 0..n] == IF i = 0 THEN 0 ELSE Step(f[i - 1], s[i])
  IN  f

\* The recursive function over the first elements of a sequence satisfies its
\* definition: of the rounds of parse_duration, for one (duration.rs:21-70).
THEOREM Unfolding ==
  ASSUME NEW s, NEW n \in Nat
  PROVE  \A i \in 0..n : Folded(s, n)[i] = IF i = 0 THEN 0 ELSE Step(Folded(s, n)[i - 1], s[i])
<1> DEFINE f == Folded(s, n)
<1>1. f = CHOOSE g : Folding(s, n, g)
  BY DEF Folded, Folding
<1> HIDE DEF f
<1>2. Folding(s, n, f)
  BY <1>1, FoldingExists
<1>3. \A i \in 0..n : f[i] = IF i = 0 THEN 0 ELSE Step(f[i - 1], s[i])
  BY <1>2 DEF Folding
<1> QED
  BY <1>3 DEF f
=============================================================================
