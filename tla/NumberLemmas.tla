---------------------------- MODULE NumberLemmas ----------------------------
(***************************************************************************)
(* The least number principle, in the form in which the other proofs use   *)
(* it for induction: if something fails for some number, there is a least  *)
(* number for which it fails; and recursive functions on 0..n.             *)
(***************************************************************************)
EXTENDS Naturals, FiniteSetsExt, WellFoundedInduction, TLAPS

\* A nonempty set of natural numbers has a least element.
LEMMA LeastNumber ==
    ASSUME NEW S, S \subseteq Nat, S # {}
    PROVE  \E x \in S : \A y \in S : x =< y
  <1> DEFINE R == OpToRel(<, Nat)
  <1>1. IsWellFoundedOn(R, Nat)
    BY NatLessThanWellFounded
  <1>2. \A a, b \in Nat : a < b => <<a, b>> \in R
    BY DEF OpToRel
  <1> HIDE DEF R
  <1>3. PICK x \in S : \A y \in S : ~(<<y, x>> \in R)
    BY <1>1, WFMin
  <1>4. ASSUME NEW y \in S PROVE x =< y
    <2>1. x \in Nat /\ y \in Nat
      OBVIOUS
    <2>2. y < x => <<y, x>> \in R
      BY <1>2, <2>1
    <2>3. ~(<<y, x>> \in R)
      BY <1>3
    <2> QED
      BY <2>1, <2>2, <2>3
  <1> QED
    BY <1>4

\* Min returns it.
LEMMA MinInSet ==
    ASSUME NEW S, S \subseteq Nat, S # {}
    PROVE  Min(S) \in S /\ \A y \in S : Min(S) =< y
  BY LeastNumber DEF Min

\* There are n+1 values of which the first is a and each next one is a step from
\* the one before.
Reaches(S, a, n, step) ==
    \E f \in [0..n -> S] : f[0] = a /\ \A i \in 1..n : f[i] = step[i][f[i-1]]

\* A value and a step from each value to the next define a function on 0..n.
LEMMA RecursionExists ==
    ASSUME NEW S, NEW a \in S, NEW n \in Nat, NEW step \in [1..n -> [S -> S]]
    PROVE  Reaches(S, a, n, step)
  <1> DEFINE Bad == {m \in 0..n : ~\E f \in [0..m -> S] :
                        f[0] = a /\ \A i \in 1..m : f[i] = step[i][f[i-1]]}
  <1>1. ASSUME Bad # {} PROVE FALSE
    <2>1. PICK m \in Bad : \A k \in Bad : m =< k
      <3>1. Bad \subseteq Nat
        OBVIOUS
      <3> QED
        BY <1>1, <3>1, LeastNumber
    <2>2. CASE m = 0
      <3> DEFINE g == [i \in 0..0 |-> a]
      <3>1. g \in [0..0 -> S] /\ g[0] = a /\ \A i \in 1..0 : g[i] = step[i][g[i-1]]
        OBVIOUS
      <3> QED
        BY <2>1, <2>2, <3>1
    <2>3. CASE m # 0
      <3>1. m - 1 \in 0..n /\ m - 1 \notin Bad /\ m \in 1..n
        <4>1. Bad \subseteq 0..n
          OBVIOUS
        <4> HIDE DEF Bad
        <4>2. m \in 0..n
          BY <2>1, <4>1
        <4> QED
          BY <2>1, <2>3, <4>2
      <3>2. PICK f \in [0..(m-1) -> S] :
              f[0] = a /\ \A i \in 1..(m-1) : f[i] = step[i][f[i-1]]
        BY <3>1
      <3> DEFINE g == [i \in 0..m |-> IF i < m THEN f[i] ELSE step[m][f[m-1]]]
      <3>3. step[m][f[m-1]] \in S
        BY <3>1, <3>2
      <3>4. g \in [0..m -> S] /\ g[0] = a
        BY <2>3, <3>1, <3>2, <3>3
      <3>5. ASSUME NEW i \in 1..m PROVE g[i] = step[i][g[i-1]]
        <4>1. CASE i = m
          BY <3>1, <4>1
        <4>2. CASE i # m
          <5>1. i \in 1..(m-1) /\ g[i] = f[i] /\ g[i-1] = f[i-1]
            BY <3>1, <4>2
          <5> QED
            BY <3>2, <5>1
        <4> QED
          BY <4>1, <4>2
      <3> QED
        BY <2>1, <3>4, <3>5
    <2> QED
      BY <2>2, <2>3
  <1>2. n \in 0..n
    OBVIOUS
  <1>3. n \notin Bad
    <2> HIDE DEF Bad
    <2> QED
      BY <1>1
  <1> QED
    BY <1>2, <1>3, Zenon DEF Reaches

\* Two sequences of values are equal if they begin alike and each next value
\* follows from the one before.
LEMMA RecursionUnique ==
    ASSUME NEW n \in Nat, NEW f, NEW g, f[0] = g[0],
           \A i \in 1..n : f[i-1] = g[i-1] => f[i] = g[i]
    PROVE  \A i \in 0..n : f[i] = g[i]
  <1> DEFINE Bad == {i \in 0..n : f[i] # g[i]}
  <1> SUFFICES ASSUME Bad # {} PROVE FALSE
    OBVIOUS
  <1>1. Bad \subseteq Nat
    OBVIOUS
  <1>2. PICK m \in Bad : \A k \in Bad : m =< k
    BY <1>1, LeastNumber
  <1>3. m \in 1..n /\ m - 1 \in 0..n /\ m - 1 \notin Bad
    BY <1>2
  <1> QED
    BY <1>2, <1>3

\* f and g are alike on 0..n.
Alike(n, f, g) == \A i \in 0..n : f[i] = g[i]

\* RecursionUnique with the conclusion as one fact.
LEMMA RecursionAlike ==
    ASSUME NEW n \in Nat, NEW f, NEW g, f[0] = g[0],
           \A i \in 1..n : f[i-1] = g[i-1] => f[i] = g[i]
    PROVE  Alike(n, f, g)
  BY RecursionUnique DEF Alike
=============================================================================
