-------------------------- MODULE ReadBufferProofs --------------------------
(***************************************************************************)
(* The read buffer for any data, in any number of pieces of any size, read *)
(* with any calls of recv and setopts: the counts are exact, and what is   *)
(* delivered is what was sent.                                             *)
(***************************************************************************)
EXTENDS ReadBuffer, NumberLemmas, SequenceTheorems, TLAPS

-----------------------------------------------------------------------------
(***************************************************************************)
(* Sums                                                                    *)
(***************************************************************************)

\* Totals is a function of the number of summands, and adds one at a time.
LEMMA TotalsIs ==
    ASSUME NEW s \in Seq(Nat)
    PROVE  /\ Totals(s) \in [0..Len(s) -> Nat] /\ Totals(s)[0] = 0
           /\ \A i \in 1..Len(s) : Totals(s)[i] = Totals(s)[i-1] + s[i]
  <1> DEFINE n == Len(s)
             step == [i \in 1..n |-> [v \in Nat |-> v + s[i]]]
             T == Totals(s)
             Adds(f) == f = [i \in 0..n |-> IF i = 0 THEN 0 ELSE f[i-1] + s[i]]
  <1>1. n \in Nat /\ \A i \in 1..n : s[i] \in Nat
    BY ElementOfSeq, LenProperties
  <1>2. step \in [1..n -> [Nat -> Nat]]
    BY <1>1
  <1>3. PICK f \in [0..n -> Nat] : f[0] = 0 /\ \A i \in 1..n : f[i] = step[i][f[i-1]]
    <2> HIDE DEF n, step
    <2>1. Reaches(Nat, 0, n, step)
      BY <1>1, <1>2, RecursionExists
    <2> QED
      BY <2>1 DEF Reaches
  <1>4. f[0] = 0 /\ \A i \in 1..n : f[i] = f[i-1] + s[i]
    <2>1. \A i \in 1..n : f[i-1] \in Nat
      BY <1>1
    <2> QED
      BY <1>3, <2>1
  <1>5. Adds(f)
    <2> HIDE DEF n
    <2>1. \A i \in 0..n : f[i] = IF i = 0 THEN 0 ELSE f[i-1] + s[i]
      BY <1>1, <1>4
    <2> QED
      BY <2>1
  <1>6. Adds(T)
    BY <1>5 DEF Totals
  <1>7. \A i \in 0..n : T[i] = f[i]
    <2> HIDE DEF n, T
    <2>1. T[0] = f[0]
      BY <1>1, <1>4, <1>6
    <2>2. \A i \in 1..n : T[i-1] = f[i-1] => T[i] = f[i]
      BY <1>1, <1>4, <1>6
    <2>3. Alike(n, T, f)
      BY <1>1, <2>1, <2>2, RecursionAlike
    <2> QED
      BY <2>3 DEF Alike
  <1>8. T = f
    <2> HIDE DEF n, T
    <2> QED
      BY <1>6, <1>7
  <1> QED
    BY <1>4, <1>8

\* Sequences that begin alike have the same totals so far.
LEMMA TotalsSame ==
    ASSUME NEW s \in Seq(Nat), NEW t \in Seq(Nat), NEW n \in Nat,
           n =< Len(s), n =< Len(t), \A i \in 1..n : s[i] = t[i]
    PROVE  \A i \in 0..n : Totals(s)[i] = Totals(t)[i]
  <1> DEFINE S == Totals(s)
             T == Totals(t)
  <1>1. /\ S \in [0..Len(s) -> Nat] /\ S[0] = 0 /\ \A i \in 1..n : S[i] = S[i-1] + s[i]
        /\ T \in [0..Len(t) -> Nat] /\ T[0] = 0 /\ \A i \in 1..n : T[i] = T[i-1] + t[i]
    BY TotalsIs, LenProperties
  <1> HIDE DEF S, T
  <1>2. S[0] = T[0] /\ \A i \in 1..n : S[i-1] = T[i-1] => S[i] = T[i]
    BY <1>1
  <1>3. \A i \in 0..n : S[i] = T[i]
    <2>1. Alike(n, S, T)
      BY <1>2, RecursionAlike
    <2> QED
      BY <2>1 DEF Alike
  <1> QED
    BY <1>3 DEF S, T

\* Totals grow.
LEMMA TotalsGrow ==
    ASSUME NEW s \in Seq(Nat), NEW i \in 0..Len(s), NEW j \in 0..Len(s), i =< j
    PROVE  Totals(s)[i] =< Totals(s)[j]
  <1> DEFINE T == Totals(s)
             Bad == {m \in 0..Len(s) : i =< m /\ ~(T[i] =< T[m])}
  <1>1. /\ Len(s) \in Nat /\ T \in [0..Len(s) -> Nat]
        /\ \A m \in 1..Len(s) : s[m] \in Nat /\ T[m] = T[m-1] + s[m]
    BY TotalsIs, LenProperties, ElementOfSeq
  <1> HIDE DEF T
  <1> SUFFICES ASSUME Bad # {} PROVE FALSE
    BY DEF T
  <1>2. Bad \subseteq Nat
    BY <1>1
  <1>3. PICK m \in Bad : \A k \in Bad : m =< k
    BY <1>2, LeastNumber
  <1>4. m \in 0..Len(s) /\ i =< m /\ ~(T[i] =< T[m])
    BY <1>3
  <1>5. T[i] \in Nat /\ m # i
    <2>1. T[i] \in Nat
      BY <1>1
    <2>2. T[i] =< T[i]
      BY <2>1
    <2> QED
      BY <1>4, <2>1, <2>2
  <1>6. m \in 1..Len(s) /\ m - 1 \in 0..Len(s) /\ i =< m - 1
    BY <1>1, <1>4, <1>5
  <1>7. m - 1 \notin Bad
    <2> HIDE DEF Bad
    <2> QED
      BY <1>2, <1>3, <1>6
  <1>8. T[i] =< T[m-1]
    <2>1. PICK k : k = m - 1
      OBVIOUS
    <2>2. k \in 0..Len(s) /\ i =< k /\ k \notin Bad
      BY <1>6, <1>7, <2>1
    <2> QED
      BY <2>1, <2>2
  <1>9. T[m] \in Nat /\ T[m-1] \in Nat /\ s[m] \in Nat /\ T[m] = T[m-1] + s[m]
    BY <1>1, <1>6
  <1>10. PICK a \in Nat, b \in Nat, c \in Nat, d \in Nat :
            a = T[i] /\ b = T[m-1] /\ c = T[m] /\ d = s[m]
    BY <1>5, <1>9, Zenon
  <1>11. ~(a =< c) /\ a =< b /\ c = b + d
    BY <1>4, <1>8, <1>9, <1>10
  <1> QED
    BY ONLY <1>11

\* One more summand.
LEMMA TotalAppend ==
    ASSUME NEW s \in Seq(Nat), NEW n \in Nat
    PROVE  /\ \A i \in 0..Len(s) : Totals(Append(s, n))[i] = Totals(s)[i]
           /\ Total(Append(s, n)) = Total(s) + n
  <1> DEFINE t == Append(s, n)
  <1>1. /\ t \in Seq(Nat) /\ Len(t) = Len(s) + 1 /\ Len(s) \in Nat
        /\ \A i \in 1..Len(s) : t[i] = s[i]
        /\ t[Len(s) + 1] = n
    BY AppendProperties, LenProperties
  <1> HIDE DEF t
  <1>2. \A i \in 0..Len(s) : Totals(t)[i] = Totals(s)[i]
    <2>1. Len(s) =< Len(s) /\ Len(s) =< Len(t)
      BY <1>1
    <2> QED
      BY <1>1, <2>1, TotalsSame
  <1>3. Totals(t)[Len(t)] = Totals(t)[Len(s)] + n
    BY <1>1, TotalsIs
  <1>4. Totals(t)[Len(s)] = Totals(s)[Len(s)]
    BY <1>1, <1>2
  <1> QED
    BY <1>2, <1>3, <1>4 DEF Total, t

\* What is left after the first k summands.
LEMMA TotalRest ==
    ASSUME NEW s \in Seq(Nat), NEW k \in 0..Len(s)
    PROVE  Total(SubSeq(s, k + 1, Len(s))) = Total(s) - Totals(s)[k]
  <1> DEFINE t == SubSeq(s, k + 1, Len(s))
             S == Totals(s)
             T == Totals(t)
             g == [i \in 0..Len(t) |-> S[k + i] - S[k]]
  <1>1. Len(s) \in Nat /\ \A i \in 1..Len(s) : s[i] \in Nat
    BY LenProperties, ElementOfSeq
  <1>2. /\ t \in Seq(Nat) /\ Len(t) = Len(s) - k
        /\ \A i \in 1..(Len(s) - k) : t[i] = s[k + i]
    <2>1. k + 1 \in Int /\ \A i \in (k+1)..Len(s) : s[i] \in Nat
      BY <1>1
    <2>2. /\ t \in Seq(Nat)
          /\ Len(t) = IF k + 1 <= Len(s) THEN Len(s) - (k + 1) + 1 ELSE 0
          /\ \A i \in 1..(Len(s) - (k + 1) + 1) : t[i] = s[(k + 1) + i - 1]
      BY <1>1, <2>1, SubSeqProperties
    <2> HIDE DEF t
    <2>3. /\ k \in Nat /\ Len(s) \in Nat /\ k <= Len(s)
          /\ Len(s) - (k + 1) + 1 = Len(s) - k
      BY <1>1
    <2>4. Len(t) = Len(s) - k
      <3>1. CASE k + 1 <= Len(s)
        BY <2>2, <2>3, <3>1
      <3>2. CASE ~(k + 1 <= Len(s))
        <4>1. Len(s) - k = 0
          <5>1. PICK n \in Nat : n = Len(s)
            BY <2>3
          <5>2. k \in Nat /\ k <= n /\ ~(k + 1 <= n)
            BY <2>3, <3>2, <5>1
          <5>3. n - k = 0
            BY ONLY <5>2
          <5> QED
            BY <5>1, <5>3
        <4> QED
          BY <2>2, <3>2, <4>1
      <3> QED
        BY <3>1, <3>2
    <2>5. ASSUME NEW i \in 1..(Len(s) - k) PROVE t[i] = s[k + i]
      <3>1. (k + 1) + i - 1 = k + i
        BY <2>3
      <3> QED
        BY <2>2, <2>3, <3>1
    <2> QED
      BY <2>2, <2>4, <2>5
  <1>3. /\ S \in [0..Len(s) -> Nat]
        /\ \A i \in 1..Len(s) : S[i] = S[i-1] + s[i]
        /\ T \in [0..Len(t) -> Nat] /\ T[0] = 0
        /\ \A i \in 1..Len(t) : T[i] = T[i-1] + t[i]
    BY <1>2, TotalsIs
  <1> HIDE DEF S, T, t
  <1>4. T[0] = g[0]
    <2>1. S[k] \in Nat /\ k + 0 = k
      BY <1>1, <1>3
    <2>3. 0 \in 0..Len(t)
      BY <1>1, <1>2
    <2>2. g[0] = S[k] - S[k]
      BY <2>1, <2>3
    <2> QED
      BY <1>3, <2>1, <2>2
  <1>5. ASSUME NEW i \in 1..Len(t), T[i-1] = g[i-1] PROVE T[i] = g[i]
    <2>1. k + i \in 1..Len(s) /\ i - 1 \in 0..Len(t) /\ k + i - 1 \in 0..Len(s)
      BY <1>1, <1>2
    <2>2. S[k + i] = S[k + i - 1] + s[k + i] /\ t[i] = s[k + i]
      <3>1. PICK m : m = k + i
        OBVIOUS
      <3>2. m \in 1..Len(s)
        BY <2>1, <3>1
      <3>3. S[m] = S[m - 1] + s[m]
        BY <1>3, <3>2
      <3>4. t[i] = s[k + i]
        BY <1>2
      <3> QED
        BY <3>1, <3>3, <3>4
    <2>3. g[i] = S[k + i] - S[k] /\ g[i-1] = S[k + i - 1] - S[k]
      <3>1. k + (i - 1) = k + i - 1 /\ i \in 0..Len(t)
        BY <1>1, <1>2
      <3> QED
        BY <2>1, <3>1
    <2>4. T[i] = T[i-1] + t[i]
      BY <1>3
    <2>5. S[k + i - 1] \in Nat /\ S[k] \in Nat /\ s[k + i] \in Nat
      BY <1>1, <1>3, <2>1
    <2> HIDE DEF g
    <2>6. T[i] = (S[k + i - 1] - S[k]) + s[k + i]
      BY <1>5, <2>2, <2>3, <2>4
    <2>7. PICK a \in Nat, b \in Nat, d \in Nat :
            a = S[k + i - 1] /\ b = S[k] /\ d = s[k + i]
      BY <2>5, Zenon
    <2>8. T[i] = (a - b) + d /\ g[i] = (a + d) - b
      BY <2>2, <2>3, <2>6, <2>7
    <2>9. (a - b) + d = (a + d) - b
      OBVIOUS
    <2> QED
      BY ONLY <2>8, <2>9
  <1>6. Len(t) \in Nat
    BY <1>1, <1>2
  <1>7. \A i \in 0..Len(t) : T[i] = g[i]
    <2> HIDE DEF g
    <2> QED
      BY <1>4, <1>5, <1>6, RecursionUnique, ZenonT(60)
  <1>8. T[Len(t)] = S[Len(s)] - S[k]
    BY <1>1, <1>2, <1>7
  <1> QED
    BY <1>8 DEF S, T, t, Total

\* A summand in front.
LEMMA TotalCons ==
    ASSUME NEW s \in Seq(Nat), NEW n \in Nat
    PROVE  Total(<<n>> \o s) = n + Total(s)
  <1> DEFINE t == <<n>> \o s
  <1>1. Len(s) \in Nat /\ <<n>> \in Seq(Nat) /\ Len(<<n>>) = 1
    BY LenProperties
  <1>2. /\ t \in Seq(Nat) /\ Len(t) = 1 + Len(s)
        /\ \A i \in 1..(1 + Len(s)) : t[i] = IF i =< 1 THEN <<n>>[i] ELSE s[i - 1]
    BY <1>1, ConcatProperties
  <1>3. t[1] = n
    BY <1>1, <1>2
  <1>4. SubSeq(t, 2, Len(t)) = s
    <2> DEFINE u == SubSeq(t, 2, Len(t))
    <2>1. \A i \in 2..Len(t) : t[i] \in Nat
      BY <1>1, <1>2, ElementOfSeq
    <2>2. Len(t) \in Int
      BY <1>1, <1>2
    <2>3. /\ u \in Seq(Nat) /\ Len(u) = IF 2 <= Len(t) THEN Len(t) - 2 + 1 ELSE 0
          /\ \A i \in 1..(Len(t) - 2 + 1) : u[i] = t[2 + i - 1]
      <3> HIDE DEF t
      <3> QED
        BY <2>1, <2>2, SubSeqProperties
    <2> HIDE DEF u, t
    <2>4. Len(u) = Len(s)
      BY <1>1, <1>2, <2>3
    <2>5. ASSUME NEW i \in 1..Len(u) PROVE u[i] = s[i]
      <3>1. i + 1 \in 1..(1 + Len(s)) /\ ~(i + 1 =< 1) /\ 2 + i - 1 = i + 1 /\ i + 1 - 1 = i
        BY <1>1, <2>4
      <3>2. t[i + 1] = s[i]
        <4>1. PICK m : m = i + 1
          OBVIOUS
        <4>2. m \in 1..(1 + Len(s)) /\ ~(m =< 1) /\ m - 1 = i
          BY <3>1, <4>1
        <4>3. t[m] = s[m - 1]
          BY <1>2, <4>2
        <4> QED
          BY <4>1, <4>2, <4>3
      <3>3. u[i] = t[i + 1]
        BY <1>1, <1>2, <2>3, <2>4, <3>1
      <3> QED
        BY <3>2, <3>3
    <2>6. u = s
      BY <2>3, <2>4, <2>5, SeqEqual
    <2> QED
      BY <2>6 DEF u
  <1> HIDE DEF t
  <1>5. 1 \in 0..Len(t) /\ 1 \in 1..Len(t) /\ Len(t) \in 0..Len(t)
    BY <1>1, <1>2
  <1>6. Total(s) = Total(t) - Totals(t)[1]
    <2>1. Total(SubSeq(t, 1 + 1, Len(t))) = Total(t) - Totals(t)[1]
      BY <1>2, <1>5, TotalRest
    <2>2. 1 + 1 = 2
      OBVIOUS
    <2> QED
      BY <1>4, <2>1, <2>2
  <1>7. /\ Totals(t) \in [0..Len(t) -> Nat] /\ Totals(t)[0] = 0
        /\ \A i \in 1..Len(t) : Totals(t)[i] = Totals(t)[i-1] + t[i]
    BY <1>2, TotalsIs
  <1>8. Totals(t)[1] = n /\ Total(t) \in Nat
    BY <1>3, <1>5, <1>7 DEF Total
  <1> QED
    BY <1>6, <1>8 DEF t

\* Elements i+1 to j of a sequence of members of S
IsSlice(S, s, i, j) ==
    /\ SubSeq(s, i + 1, j) \in Seq(S) /\ Len(SubSeq(s, i + 1, j)) = j - i
    /\ \A e \in 1..(j - i) : SubSeq(s, i + 1, j)[e] = s[i + e]

\* A part of a sequence has these elements.
LEMMA SliceIs ==
    ASSUME NEW S, NEW s \in Seq(S), NEW i \in Nat, NEW j \in Nat, i <= j, j <= Len(s)
    PROVE  IsSlice(S, s, i, j)
  <1>1. Len(s) \in Nat /\ \A e \in 1..Len(s) : s[e] \in S
    BY LenProperties, ElementOfSeq
  <1>2. \A e \in (i+1)..j : s[e] \in S
    BY <1>1
  <1>3. i + 1 \in Int /\ j \in Int
    OBVIOUS
  <1>4. /\ SubSeq(s, i + 1, j) \in Seq(S)
        /\ Len(SubSeq(s, i + 1, j)) = IF i + 1 <= j THEN j - (i + 1) + 1 ELSE 0
        /\ \A e \in 1..(j - (i + 1) + 1) : SubSeq(s, i + 1, j)[e] = s[i + 1 + e - 1]
    BY <1>2, <1>3, SubSeqProperties
  <1>5. j - (i + 1) + 1 = j - i /\ \A e \in Nat : i + 1 + e - 1 = i + e
    OBVIOUS
  <1> QED
    BY <1>4, <1>5 DEF IsSlice

-----------------------------------------------------------------------------
(***************************************************************************)
(* Lengths                                                                 *)
(***************************************************************************)

\* A function on 1..k is a sequence of k elements.
LEMMA FunctionIsSeq ==
    ASSUME NEW S, NEW k \in Nat, NEW f \in [1..k -> S]
    PROVE  f \in Seq(S) /\ Len(f) = k
  <1>1. f \in Seq(S)
    BY SeqDef
  <1>2. DOMAIN f = 1..k /\ DOMAIN f = 1..Len(f) /\ Len(f) \in Nat
    BY <1>1, LenProperties
  <1> QED
    BY <1>1, <1>2

\* The bytes of a number are shifted out one at a time.
LEMMA ShiftedIs ==
    ASSUME NEW n \in Nat, NEW k \in Nat
    PROVE  /\ Shifted(n, k) \in [0..k -> Nat] /\ Shifted(n, k)[0] = n
           /\ \A i \in 1..k : Shifted(n, k)[i] = Shifted(n, k)[i-1] \div Base
  <1> DEFINE step == [i \in 1..k |-> [v \in Nat |-> v \div Base]]
             T == Shifted(n, k)
             Shifts(f) == f = [i \in 0..k |-> IF i = 0 THEN n ELSE f[i-1] \div Base]
  <1>1. \A v \in Nat : v \div Base \in Nat
    BY BaseAssumption
  <1>2. step \in [1..k -> [Nat -> Nat]]
    BY <1>1
  <1>3. PICK f \in [0..k -> Nat] : f[0] = n /\ \A i \in 1..k : f[i] = step[i][f[i-1]]
    <2> HIDE DEF step
    <2>1. Reaches(Nat, n, k, step)
      BY <1>2, RecursionExists
    <2> QED
      BY <2>1 DEF Reaches
  <1>4. \A i \in 1..k : f[i] = f[i-1] \div Base
    <2>1. \A i \in 1..k : f[i-1] \in Nat
      OBVIOUS
    <2> QED
      BY <1>3, <2>1
  <1>5. Shifts(f)
    <2>1. \A i \in 0..k : f[i] = IF i = 0 THEN n ELSE f[i-1] \div Base
      BY <1>3, <1>4
    <2> QED
      BY <2>1
  <1>6. Shifts(T)
    BY <1>5 DEF Shifted
  <1>7. \A i \in 0..k : T[i] = f[i]
    <2> HIDE DEF T
    <2>1. T[0] = f[0]
      BY <1>3, <1>6
    <2>2. \A i \in 1..k : T[i-1] = f[i-1] => T[i] = f[i]
      BY <1>4, <1>6
    <2>3. Alike(k, T, f)
      BY <2>1, <2>2, RecursionAlike
    <2> QED
      BY <2>3 DEF Alike
  <1>8. T = f
    <2> HIDE DEF T
    <2> QED
      BY <1>6, <1>7
  <1> QED
    BY <1>3, <1>4, <1>8

\* A number is its last byte and the rest.
LEMMA LastByte ==
    ASSUME NEW n \in Nat
    PROVE  n = Base * (n \div Base) + (n % Base) /\ n % Base \in Byte
  BY BaseAssumption DEF Byte

\* The length outputv puts in front of the data is the length emit_read_buffer
\* reads, if nothing of it is cut off.
LEMMA LengthIsRead ==
    ASSUME NEW n \in Nat, NEW k \in Nat, Shifted(n, k)[k] = 0
    PROVE  /\ LengthBytes(n, k) \in [1..k -> Byte]
           /\ LengthValue(LengthBytes(n, k)) = n
  <1> DEFINE T == Shifted(n, k)
             bs == LengthBytes(n, k)
             g == [i \in 0..k |-> T[k-i]]
             Reads(f) == f = [i \in 0..k |-> IF i = 0 THEN 0 ELSE Base * f[i-1] + bs[i]]
  <1>1. /\ T \in [0..k -> Nat] /\ T[0] = n /\ T[k] = 0
        /\ \A i \in 1..k : T[i] = T[i-1] \div Base
    BY ShiftedIs
  <1>2. bs = [i \in 1..k |-> T[k-i] % Base]
    BY DEF LengthBytes
  <1> HIDE DEF T, bs
  <1>3. \A i \in 1..k : /\ k - i \in 0..k /\ k - i + 1 \in 1..k
                         /\ k - (i - 1) = k - i + 1 /\ k - i + 1 - 1 = k - i
    OBVIOUS
  <1>4. \A i \in 1..k : T[k-i] \in Nat /\ T[k-(i-1)] = T[k-i] \div Base
    BY <1>1, <1>3
  <1>5. bs \in [1..k -> Byte]
    BY <1>2, <1>4, LastByte
  <1>6. \A i \in 1..k : T[k-i] = Base * T[k-(i-1)] + bs[i]
    BY <1>2, <1>4, LastByte
  <1>7. Len(bs) = k
    BY <1>5, FunctionIsSeq
  <1>8. g[0] = 0 /\ g[k] = n /\ \A i \in 1..k : g[i] = Base * g[i-1] + bs[i]
    <2>1. g[0] = T[k-0] /\ g[k] = T[k-k] /\ k - 0 = k /\ k - k = 0
      OBVIOUS
    <2>2. \A i \in 1..k : g[i] = T[k-i] /\ g[i-1] = T[k-(i-1)]
      OBVIOUS
    <2> QED
      BY <1>1, <1>6, <2>1, <2>2
  <1>9. Reads(g)
    <2> DEFINE G == [i \in 0..k |-> IF i = 0 THEN 0 ELSE Base * g[i-1] + bs[i]]
    <2>1. \A i \in 0..k : g[i] = G[i]
      <3> HIDE DEF g
      <3> QED
        BY <1>8
    <2> QED
      BY <2>1
  <1> DEFINE value == CHOOSE f : Reads(f)
  <1>10. Reads(value)
    BY <1>9
  <1>11. LengthValue(bs) = value[k]
    BY <1>7 DEF LengthValue
  <1> HIDE DEF value, g
  <1>12. value[0] = g[0]
    BY <1>8, <1>10
  <1>13. \A i \in 1..k : value[i-1] = g[i-1] => value[i] = g[i]
    BY <1>8, <1>10
  <1>14. \A i \in 0..k : value[i] = g[i]
    <2> HIDE DEF Reads
    <2>1. Alike(k, value, g)
      BY <1>12, <1>13, RecursionAlike
    <2> QED
      BY <2>1 DEF Alike
  <1> QED
    BY <1>5, <1>8, <1>11, <1>14 DEF bs

\* A length of no bytes is 0.
LEMMA NoLength == ASSUME NEW bs \in [1..0 -> Byte] PROVE LengthValue(bs) = 0
  <1> DEFINE Reads(f) == f = [i \in 0..0 |-> IF i = 0 THEN 0 ELSE Base * f[i-1] + bs[i]]
  <1>1. Reads([i \in 0..0 |-> 0])
    OBVIOUS
  <1> DEFINE value == CHOOSE f : Reads(f)
  <1>2. Reads(value)
    BY <1>1
  <1>3. Len(bs) = 0
    BY FunctionIsSeq
  <1>4. LengthValue(bs) = value[0]
    BY <1>3 DEF LengthValue
  <1> HIDE DEF value
  <1> QED
    BY <1>2, <1>4

-----------------------------------------------------------------------------
(***************************************************************************)
(* What the invariant says of the sender, and of a handler x of the        *)
(* receiver after the messages del                                         *)
(***************************************************************************)

SentInv ==
    /\ packet \in {0, 1, 2, 4} /\ packet \in Packets
    /\ stream \in Seq(Byte) /\ sent \in Seq(Payloads)
    /\ packet # 0 =>
        /\ Len(stream) = Start(Len(sent) + 1)
        /\ \A k \in 1..Len(sent) :
             SubSeq(stream, Start(k) + 1, Start(k+1)) =
                 LengthBytes(Len(sent[k]), packet) \o sent[k]

Queues(x) ==
    /\ x.taken <= x.recvd /\ x.recvd <= Len(stream)
    /\ x.cuts \subseteq (x.taken+1)..x.recvd
    /\ x.recvd > x.taken => x.recvd \in x.cuts

Packs(x, del) ==
    packet # 0 =>
        /\ del = SubSeq(sent, 1, Len(del)) /\ Len(del) <= Len(sent)
        /\ x.taken = Start(Len(del) + 1)
        /\ \A c \in x.cuts : ~InsideLength(c)

Ends(del) == Totals([i \in 1..Len(del) |-> Len(del[i])])

Chops(x, del) ==
    packet = 0 =>
        /\ x.taken = Ends(del)[Len(del)]
        /\ \A i \in 1..Len(del) :
             del[i] = SubSeq(stream, Ends(del)[i-1] + 1, Ends(del)[i])

Handled(x, del) ==
    /\ x \in Handler /\ del \in Seq(Seq(Byte)) /\ Queues(x)
    /\ Total(x.read_count) = driver_sizeq(x) + packet * Len(del)
    /\ Packs(x, del) /\ Chops(x, del)

\* BufferInv in these terms.
LEMMA InvIs == BufferInv <=> SentInv /\ Handled(r, delivered) /\ OptionsInv
  BY DEF BufferInv, TypeOK, ReadCountExact, OptionsInv, PacketsInv, BytesInv, SentInv,
         Handled, Queues, Packs, Ends, Chops

\* With framing both ends frame alike, and lengths are not split.
LEMMA FramedAlike ==
    ASSUME Sound, SentInv
    PROVE  packet # 0 => ~Splits /\ Agree
  BY DEF Sound, SentInv

\* Packets follow each other: Start(k) is where packet k begins.
LEMMA StartIs ==
    ASSUME SentInv
    PROVE  /\ Start(1) = 0 /\ \A k \in 1..(Len(sent) + 1) : Start(k) \in Nat
           /\ \A k \in 1..Len(sent) :
                /\ sent[k] \in Seq(Byte) /\ Len(sent[k]) \in Nat \ {0}
                /\ Start(k+1) = Start(k) + packet + Len(sent[k])
  <1> DEFINE w == [i \in 1..Len(sent) |-> packet + Len(sent[i])]
  <1>1. Len(sent) \in Nat /\ packet \in Nat
    BY LenProperties DEF SentInv
  <1>2. ASSUME NEW k \in 1..Len(sent)
        PROVE  sent[k] \in Seq(Byte) /\ Len(sent[k]) \in Nat \ {0}
    <2>1. sent[k] \in Payloads
      BY ElementOfSeq DEF SentInv
    <2>2. sent[k] \in Seq(Byte) /\ sent[k] # <<>>
      BY <2>1, PayloadsAssumption DEF Byte
    <2> QED
      BY <2>2, EmptySeq
  <1>3. w \in [1..Len(sent) -> Nat]
    BY <1>1, <1>2
  <1>4. w \in Seq(Nat) /\ Len(w) = Len(sent)
    <2> HIDE DEF w
    <2> QED
      BY <1>1, <1>3, FunctionIsSeq
  <1>5. \A k : Start(k) = Totals(w)[k-1]
    BY DEF Start
  <1>6. \A i \in 1..Len(sent) : w[i] = packet + Len(sent[i])
    OBVIOUS
  <1> HIDE DEF w
  <1>7. /\ Totals(w) \in [0..Len(sent) -> Nat] /\ Totals(w)[0] = 0
        /\ \A i \in 1..Len(sent) : Totals(w)[i] = Totals(w)[i-1] + w[i]
    BY <1>4, TotalsIs
  <1>8. Start(1) = 0 /\ \A k \in 1..(Len(sent) + 1) : Start(k) \in Nat
    BY <1>1, <1>5, <1>7
  <1>9. ASSUME NEW k \in 1..Len(sent) PROVE Start(k+1) = Start(k) + packet + Len(sent[k])
    <2>1. k + 1 - 1 = k /\ k - 1 \in 0..Len(sent) /\ Totals(w)[k-1] \in Nat
      BY <1>1, <1>7
    <2>2. Totals(w)[k] = Totals(w)[k-1] + (packet + Len(sent[k]))
      BY <1>6, <1>7
    <2> QED
      BY <1>1, <1>2, <1>5, <2>1, <2>2
  <1> QED
    BY <1>2, <1>8, <1>9

\* A later packet begins later.
LEMMA StartGrows ==
    ASSUME SentInv, NEW i \in 1..(Len(sent) + 1), NEW j \in 1..(Len(sent) + 1), i =< j
    PROVE  Start(i) =< Start(j)
  <1> DEFINE w == [m \in 1..Len(sent) |-> packet + Len(sent[m])]
  <1>1. Len(sent) \in Nat /\ packet \in Nat
    BY LenProperties DEF SentInv
  <1>2. w \in [1..Len(sent) -> Nat]
    BY <1>1, StartIs
  <1>3. w \in Seq(Nat) /\ Len(w) = Len(sent)
    <2> HIDE DEF w
    <2> QED
      BY <1>1, <1>2, FunctionIsSeq
  <1>4. Start(i) = Totals(w)[i-1] /\ Start(j) = Totals(w)[j-1]
    BY DEF Start
  <1> HIDE DEF w
  <1>5. i - 1 \in 0..Len(w) /\ j - 1 \in 0..Len(w) /\ i - 1 =< j - 1
    BY <1>1, <1>3
  <1> QED
    BY <1>3, <1>4, <1>5, TotalsGrow

-----------------------------------------------------------------------------
(***************************************************************************)
(* Taking data off the queue                                               *)
(***************************************************************************)

\* Handler x after n bytes, with read_count rc
Taken(x, n, rc) ==
    [x EXCEPT !.taken = @ + n, !.cuts = {c \in @ : c > x.taken + n}, !.read_count = rc]

Faults == {"none", "front of empty read_count", "read past the data", "negative length"}
Outcome == [x : Handler, did : BOOLEAN, msgs : Seq(Seq(Byte)), fault : Faults]

LEMMA TakenIs ==
    ASSUME NEW x \in Handler, NEW n \in Nat, NEW rc \in Seq(Nat \ {0}), Queues(x),
           n =< driver_sizeq(x)
    PROVE  /\ Taken(x, n, rc) \in Handler /\ Queues(Taken(x, n, rc))
           /\ driver_sizeq(Taken(x, n, rc)) = driver_sizeq(x) - n
           /\ Taken(x, n, rc).taken = x.taken + n
           /\ Taken(x, n, rc).recvd = x.recvd
           /\ Taken(x, n, rc).cuts \subseteq x.cuts
           /\ Taken(x, n, rc).read_count = rc
           /\ Taken(x, n, rc).waiting = x.waiting
           /\ Taken(x, n, rc).recv_len = x.recv_len
           /\ Taken(x, n, rc).active = x.active
           /\ Taken(x, n, rc).packet = x.packet
           /\ Taken(x, n, rc).header = x.header
  <1> DEFINE y == Taken(x, n, rc)
  <1>1. x.taken \in Nat /\ x.recvd \in Nat /\ x.cuts \subseteq Nat
    BY DEF Handler
  <1>2. y \in Handler
    <2>1. PICK t \in Nat, cs \in SUBSET Nat :
            t = x.taken + n /\ cs = {c \in x.cuts : c > x.taken + n}
      <3>1. x.taken + n \in Nat /\ {c \in x.cuts : c > x.taken + n} \in SUBSET Nat
        BY <1>1
      <3> QED
        BY <3>1, Zenon
    <2>2. y = [x EXCEPT !.taken = t, !.cuts = cs, !.read_count = rc]
      BY <2>1 DEF Handler, Taken
    <2> HIDE DEF y
    <2> QED
      BY <2>2 DEF Handler
  <1>3. /\ y.taken = x.taken + n /\ y.recvd = x.recvd
        /\ y.cuts = {c \in x.cuts : c > x.taken + n} /\ y.read_count = rc
        /\ y.waiting = x.waiting /\ y.recv_len = x.recv_len
        /\ y.active = x.active /\ y.packet = x.packet /\ y.header = x.header
    BY DEF Handler, Taken
  <1> HIDE DEF y
  <1>4. driver_sizeq(y) = driver_sizeq(x) - n
    BY <1>1, <1>3 DEF driver_sizeq
  <1>5. Queues(y)
    <2>1. /\ x.taken + n <= x.recvd /\ x.recvd <= Len(stream)
          /\ x.cuts \subseteq (x.taken+1)..x.recvd
          /\ x.recvd > x.taken => x.recvd \in x.cuts
      BY <1>1 DEF Queues, driver_sizeq
    <2>2. {c \in x.cuts : c > x.taken + n} \subseteq (x.taken + n + 1)..x.recvd
      BY <1>1, <2>1
    <2>3. x.recvd > x.taken + n => x.recvd \in {c \in x.cuts : c > x.taken + n}
      BY <1>1, <2>1
    <2> QED
      BY <1>3, <2>1, <2>2, <2>3 DEF Queues
  <1> QED
    BY <1>2, <1>3, <1>4, <1>5 DEF y

\* driver_deq of what is there
LEMMA DeqIs ==
    ASSUME NEW x \in Handler, NEW n \in Nat, n =< driver_sizeq(x)
    PROVE  driver_deq(x, n) = Taken(x, n, x.read_count)
  <1>1. ~(n > driver_sizeq(x))
    BY DEF Handler, driver_sizeq
  <1> QED
    BY <1>1 DEF Handler, driver_deq, Taken

\* The first n bytes of the queue are the next n of the stream.
LEMMA QueuedIs ==
    ASSUME SentInv, NEW x \in Handler, Queues(x),
           NEW n \in Nat \ {0}, n =< driver_sizeq(x)
    PROVE  /\ SubSeq(Queued(x), 1, n) = SubSeq(stream, x.taken + 1, x.taken + n)
           /\ SubSeq(stream, x.taken + 1, x.taken + n) \in Seq(Byte)
           /\ Len(SubSeq(stream, x.taken + 1, x.taken + n)) = n
           /\ \A i \in 1..n : Queued(x)[i] = stream[x.taken + i]
  <1> DEFINE q == Queued(x)
             m == SubSeq(stream, x.taken + 1, x.taken + n)
  <1>1. /\ x.taken \in Nat /\ x.recvd \in Nat /\ Len(stream) \in Nat
        /\ stream \in Seq(Byte) /\ x.taken + n <= x.recvd /\ x.recvd <= Len(stream)
    BY LenProperties DEF Handler, SentInv, Queues, driver_sizeq
  <1>4. /\ q \in Seq(Byte) /\ Len(q) = x.recvd - x.taken
        /\ \A i \in 1..(x.recvd - x.taken) : q[i] = stream[x.taken + i]
    <2>1. x.taken <= x.recvd
      BY DEF Queues
    <2>2. IsSlice(Byte, stream, x.taken, x.recvd)
      BY <1>1, <2>1, SliceIs
    <2> QED
      BY <2>2 DEF IsSlice, Queued
  <1>5. /\ m \in Seq(Byte) /\ Len(m) = n
        /\ \A i \in 1..n : m[i] = stream[x.taken + i]
    <2>1. PICK hi \in Nat : hi = x.taken + n
      BY <1>1
    <2>2. x.taken <= hi /\ hi <= Len(stream) /\ hi - x.taken = n
      BY <1>1, <2>1
    <2>3. IsSlice(Byte, stream, x.taken, hi)
      BY <1>1, <2>2, SliceIs
    <2> QED
      BY <2>1, <2>2, <2>3 DEF IsSlice
  <1> DEFINE p == SubSeq(q, 1, n)
  <1> HIDE DEF q, m
  <1>6. p \in Seq(Byte) /\ Len(p) = n /\ \A i \in 1..n : p[i] = q[i]
    <2>1. \A i \in 1..n : q[i] \in Byte
      BY <1>1, <1>4, ElementOfSeq
    <2>2. /\ p \in Seq(Byte) /\ Len(p) = IF 1 <= n THEN n - 1 + 1 ELSE 0
          /\ \A i \in 1..(n - 1 + 1) : p[i] = q[1 + i - 1]
      BY <2>1, SubSeqProperties
    <2> QED
      BY <2>2
  <1>7. \A i \in 1..n : q[i] = stream[x.taken + i]
    BY <1>1, <1>4
  <1> HIDE DEF p
  <1>8. p = m
    <2>1. \A i \in 1..Len(p) : p[i] = m[i]
      BY <1>5, <1>6, <1>7
    <2> QED
      BY <1>5, <1>6, <2>1, SeqEqual
  <1> QED
    BY <1>5, <1>7, <1>8 DEF p, m, q

\* An outcome with a message of n bytes more
Moved(o, n) ==
    [o EXCEPT !.x = Taken(o.x, n, o.x.read_count),
              !.msgs = Append(@, SubSeq(stream, o.x.taken + 1, o.x.taken + n))]

\* move_read_data of what is there
LEMMA MoveIs ==
    ASSUME SentInv, NEW o \in Outcome, Queues(o.x),
           NEW n \in Nat \ {0}, n =< driver_sizeq(o.x), o.x.header =< n
    PROVE  move_read_data(o, n) = Moved(o, n)
  <1>1. o.x \in Handler /\ o.x.header \in Nat /\ driver_sizeq(o.x) \in Nat
    BY DEF Outcome, Handler, Queues, driver_sizeq
  <1>2. driver_deq(o.x, n) = Taken(o.x, n, o.x.read_count)
    BY <1>1, DeqIs
  <1>3. Min({n, driver_sizeq(o.x)}) = n
    <2>1. {n, driver_sizeq(o.x)} \subseteq Nat /\ {n, driver_sizeq(o.x)} # {}
      BY <1>1
    <2>2. /\ Min({n, driver_sizeq(o.x)}) \in {n, driver_sizeq(o.x)}
          /\ \A y \in {n, driver_sizeq(o.x)} : Min({n, driver_sizeq(o.x)}) =< y
      BY <2>1, MinInSet
    <2> QED
      BY <1>1, <2>2
  <1>4. SubSeq(Queued(o.x), 1, n) = SubSeq(stream, o.x.taken + 1, o.x.taken + n)
    BY <1>1, QueuedIs
  <1>5. ~(n > driver_sizeq(o.x)) /\ ~(n < o.x.header)
    BY <1>1
  <1> QED
    BY <1>2, <1>3, <1>4, <1>5 DEF move_read_data, Moved, Outcome

\* reduce_read_count of what is counted
LEMMA ReduceIs ==
    ASSUME NEW o \in Outcome, NEW n \in Nat, n =< Total(o.x.read_count)
    PROVE  \E rc \in Seq(Nat \ {0}) :
             /\ Total(rc) = Total(o.x.read_count) - n
             /\ reduce_read_count(o, n) = [o EXCEPT !.x.read_count = rc]
  <1> DEFINE rc == o.x.read_count
             S == {i \in 0..Len(rc) : Totals(rc)[i] >= n}
             k == Min(S)
             rest == SubSeq(rc, k + 1, Len(rc))
             over == Totals(rc)[k] - n
             all == IF over > 0 THEN <<over>> \o rest ELSE rest
  <1>1. /\ rc \in Seq(Nat \ {0}) /\ rc \in Seq(Nat) /\ Len(rc) \in Nat
        /\ Totals(rc) \in [0..Len(rc) -> Nat]
    <2>1. rc \in Seq(Nat \ {0})
      BY DEF Outcome, Handler
    <2>2. rc \in Seq(Nat)
      BY <2>1, SeqMonotonic
    <2> QED
      BY <2>1, <2>2, LenProperties, TotalsIs
  <1> HIDE DEF rc
  <1>2. Total(rc) \in Nat /\ n =< Total(rc) /\ Len(rc) \in S /\ S \subseteq Nat
    BY <1>1 DEF Total, rc
  <1>3. k \in 0..Len(rc) /\ Totals(rc)[k] >= n
    <2>1. k \in S
      <3> HIDE DEF S
      <3> QED
        BY <1>2, MinInSet
    <2> HIDE DEF k
    <2> QED
      BY <2>1
  <1> HIDE DEF k
  <1>4. over \in Nat /\ Totals(rc)[k] \in Nat
    BY <1>1, <1>3
  <1>5. rest \in Seq(Nat \ {0}) /\ rest \in Seq(Nat)
    <2>1. \A i \in (k+1)..Len(rc) : rc[i] \in Nat \ {0}
      BY <1>1, <1>3, ElementOfSeq
    <2>2. k + 1 \in Int /\ Len(rc) \in Int
      BY <1>1, <1>3
    <2>3. rest \in Seq(Nat \ {0})
      BY <2>1, <2>2, SubSeqProperties
    <2> QED
      BY <2>3, SeqMonotonic
  <1>6. Total(rest) = Total(rc) - Totals(rc)[k]
    BY <1>1, <1>3, TotalRest
  <1>7. all \in Seq(Nat \ {0}) /\ Total(all) = Total(rc) - n
    <2> HIDE DEF rest
    <2>1. CASE over > 0
      <3>1. <<over>> \in Seq(Nat \ {0})
        BY <1>4, <2>1
      <3>2. all \in Seq(Nat \ {0})
        BY <1>5, <2>1, <3>1, ConcatProperties
      <3>3. Total(all) = over + Total(rest)
        <4> HIDE DEF over
        <4> QED
          BY <1>4, <1>5, <2>1, TotalCons
      <3> QED
        BY <1>2, <1>4, <1>6, <3>2, <3>3
    <2>2. CASE ~(over > 0)
      <3>1. over = 0
        BY <1>4, <2>2
      <3> QED
        BY <1>2, <1>4, <1>5, <1>6, <2>2, <3>1
    <2> QED
      BY <2>1, <2>2
  <1>8. ~(Total(rc) < n)
    BY <1>2
  <1>9. reduce_read_count(o, n) = [o EXCEPT !.x.read_count = all]
    BY <1>8 DEF reduce_read_count, rc, k
  <1> HIDE DEF all
  <1> QED
    BY <1>7, <1>9 DEF rc

-----------------------------------------------------------------------------
(***************************************************************************)
(* A message more                                                          *)
(***************************************************************************)

\* Where the messages end
LEMMA EndsIs ==
    ASSUME NEW del \in Seq(Seq(Byte))
    PROVE  /\ Ends(del) \in [0..Len(del) -> Nat] /\ Ends(del)[0] = 0
           /\ \A i \in 1..Len(del) :
                /\ del[i] \in Seq(Byte) /\ Len(del[i]) \in Nat
                /\ Ends(del)[i] = Ends(del)[i-1] + Len(del[i])
  <1> DEFINE lens == [i \in 1..Len(del) |-> Len(del[i])]
  <1>1. Len(del) \in Nat /\ \A i \in 1..Len(del) : del[i] \in Seq(Byte)
    BY LenProperties, ElementOfSeq
  <1>2. \A i \in 1..Len(del) : Len(del[i]) \in Nat
    BY <1>1, LenProperties
  <1>3. lens \in [1..Len(del) -> Nat] /\ \A i \in 1..Len(del) : lens[i] = Len(del[i])
    BY <1>2
  <1>4. Ends(del) = Totals(lens)
    BY DEF Ends
  <1> HIDE DEF lens
  <1>5. lens \in Seq(Nat) /\ Len(lens) = Len(del)
    BY <1>1, <1>3, FunctionIsSeq
  <1>6. /\ Totals(lens) \in [0..Len(del) -> Nat] /\ Totals(lens)[0] = 0
        /\ \A i \in 1..Len(del) : Totals(lens)[i] = Totals(lens)[i-1] + lens[i]
    BY <1>5, TotalsIs
  <1> QED
    BY <1>1, <1>2, <1>3, <1>4, <1>6

\* One message more ends later by its length.
LEMMA EndsAppend ==
    ASSUME NEW del \in Seq(Seq(Byte)), NEW m \in Seq(Byte)
    PROVE  /\ \A i \in 0..Len(del) : Ends(Append(del, m))[i] = Ends(del)[i]
           /\ Ends(Append(del, m))[Len(del) + 1] = Ends(del)[Len(del)] + Len(m)
  <1> DEFINE e == Append(del, m)
             E == Ends(del)
             F == Ends(e)
  <1>1. /\ e \in Seq(Seq(Byte)) /\ Len(e) = Len(del) + 1 /\ Len(del) \in Nat
        /\ \A i \in 1..Len(del) : e[i] = del[i]
        /\ e[Len(del) + 1] = m
    BY AppendProperties, LenProperties
  <1> HIDE DEF e
  <1>2. /\ E[0] = 0 /\ \A i \in 1..Len(del) : E[i] = E[i-1] + Len(del[i])
        /\ F[0] = 0 /\ \A i \in 1..(Len(del) + 1) : F[i] = F[i-1] + Len(e[i])
    BY <1>1, EndsIs
  <1> HIDE DEF E, F
  <1>3. F[0] = E[0] /\ \A i \in 1..Len(del) : F[i-1] = E[i-1] => F[i] = E[i]
    <2>1. ASSUME NEW i \in 1..Len(del), F[i-1] = E[i-1] PROVE F[i] = E[i]
      <3>1. i \in 1..(Len(del) + 1) /\ e[i] = del[i]
        BY <1>1
      <3>2. F[i] = F[i-1] + Len(e[i]) /\ E[i] = E[i-1] + Len(del[i])
        BY <1>2, <3>1
      <3> QED
        BY <2>1, <3>1, <3>2
    <2> QED
      BY <1>2, <2>1
  <1>4. \A i \in 0..Len(del) : F[i] = E[i]
    <2>1. Alike(Len(del), F, E)
      BY <1>1, <1>3, RecursionAlike
    <2> QED
      BY <2>1 DEF Alike
  <1>5. F[Len(del) + 1] = E[Len(del)] + Len(m)
    <2>1. /\ Len(del) + 1 \in 1..(Len(del) + 1) /\ Len(del) + 1 - 1 = Len(del)
          /\ Len(del) \in 0..Len(del)
      BY <1>1
    <2>2. F[Len(del) + 1] = F[Len(del)] + Len(e[Len(del) + 1])
      BY <1>2, <2>1
    <2> QED
      BY <1>1, <1>4, <2>1, <2>2
  <1> QED
    BY <1>4, <1>5 DEF e, E, F

\* Without framing the next n bytes become a message.
LEMMA BytesHandled ==
    ASSUME SentInv, packet = 0, NEW x, NEW del, Handled(x, del),
           NEW n \in Nat \ {0}, n =< driver_sizeq(x),
           NEW rc \in Seq(Nat \ {0}), Total(rc) = Total(x.read_count) - n
    PROVE  Handled(Taken(x, n, rc),
                   Append(del, SubSeq(stream, x.taken + 1, x.taken + n)))
  <1> DEFINE y == Taken(x, n, rc)
             m == SubSeq(stream, x.taken + 1, x.taken + n)
             e == Append(del, m)
             E == Ends(del)
             F == Ends(e)
  <1>1. /\ x \in Handler /\ del \in Seq(Seq(Byte)) /\ Queues(x) /\ Chops(x, del)
        /\ Total(x.read_count) = driver_sizeq(x) + packet * Len(del)
    BY DEF Handled
  <1>2. m \in Seq(Byte) /\ Len(m) = n
    BY <1>1, QueuedIs
  <1>3. /\ e \in Seq(Seq(Byte)) /\ Len(e) = Len(del) + 1 /\ Len(del) \in Nat
        /\ \A i \in 1..Len(del) : e[i] = del[i]
        /\ e[Len(del) + 1] = m
    <2> HIDE DEF m
    <2> QED
      BY <1>1, <1>2, AppendProperties, LenProperties
  <1>4. /\ y \in Handler /\ Queues(y) /\ driver_sizeq(y) = driver_sizeq(x) - n
        /\ y.taken = x.taken + n /\ y.read_count = rc
    BY <1>1, TakenIs
  <1>5. /\ \A i \in 0..Len(del) : F[i] = E[i]
        /\ F[Len(del) + 1] = E[Len(del)] + Len(m)
    BY <1>1, <1>2, EndsAppend
  <1>6. /\ x.taken = E[Len(del)] /\ x.taken \in Nat
        /\ \A i \in 1..Len(del) : del[i] = SubSeq(stream, E[i-1] + 1, E[i])
    BY <1>1 DEF Chops, Handler
  <1>7. m = SubSeq(stream, x.taken + 1, x.taken + n)
    OBVIOUS
  <1> HIDE DEF y, m, e, E, F
  <1>8. y.taken = F[Len(e)]
    BY <1>2, <1>3, <1>4, <1>5, <1>6
  <1>9. ASSUME NEW i \in 1..Len(e) PROVE e[i] = SubSeq(stream, F[i-1] + 1, F[i])
    <2>1. CASE i = Len(del) + 1
      <3>1. i - 1 = Len(del) /\ Len(del) \in 0..Len(del)
        BY <1>3, <2>1
      <3>2. F[i-1] = x.taken /\ F[i] = x.taken + n
        BY <1>2, <1>5, <1>6, <2>1, <3>1
      <3> QED
        BY <1>3, <1>7, <2>1, <3>2
    <2>2. CASE i # Len(del) + 1
      <3>1. i \in 1..Len(del) /\ i \in 0..Len(del) /\ i - 1 \in 0..Len(del)
        BY <1>3, <2>2
      <3>2. F[i-1] = E[i-1] /\ F[i] = E[i] /\ e[i] = del[i]
        BY <1>3, <1>5, <3>1
      <3> QED
        BY <1>6, <3>1, <3>2
    <2> QED
      BY <2>1, <2>2
  <1>10. Chops(y, e)
    BY <1>8, <1>9 DEF Chops, F
  <1>11. Total(rc) = driver_sizeq(y) + packet * Len(e)
    <2>1. driver_sizeq(x) \in Nat /\ packet * Len(del) = 0 /\ packet * Len(e) = 0
      <3>1. driver_sizeq(x) \in Nat
        BY <1>1 DEF Handler, Queues, driver_sizeq
      <3>2. Len(del) \in Nat /\ Len(e) \in Nat
        BY <1>1, <1>3, LenProperties
      <3> QED
        BY <3>1, <3>2
    <2> QED
      BY <1>1, <1>4, <2>1
  <1>12. Packs(y, e)
    BY DEF Packs
  <1>13. Handled(y, e)
    BY <1>3, <1>4, <1>10, <1>11, <1>12 DEF Handled
  <1> QED
    BY <1>13 DEF y, e, m

\* With framing the next packet becomes a message.
LEMMA PacketHandled ==
    ASSUME SentInv, packet # 0, NEW x, NEW del, Handled(x, del),
           Len(del) + 1 \in 1..Len(sent), NEW n \in Nat, Len(sent[Len(del) + 1]) = n,
           packet + n =< driver_sizeq(x),
           NEW rc \in Seq(Nat \ {0}), Total(rc) = Total(x.read_count) - n
    PROVE  Handled(Taken(x, packet + n, rc), Append(del, sent[Len(del) + 1]))
  <1> DEFINE m == sent[Len(del) + 1]
             y == Taken(x, packet + n, rc)
             e == Append(del, m)
  <1>1. /\ x \in Handler /\ del \in Seq(Seq(Byte)) /\ Queues(x) /\ Packs(x, del)
        /\ Total(x.read_count) = driver_sizeq(x) + packet * Len(del)
    BY DEF Handled
  <1>2. /\ m \in Seq(Byte) /\ Start(Len(del) + 2) = Start(Len(del) + 1) + packet + n
        /\ Start(Len(del) + 1) \in Nat /\ packet \in Nat \ {0} /\ Len(sent) \in Nat
        /\ sent \in Seq(Payloads)
    <2>1. Len(del) \in Nat /\ Len(sent) \in Nat
      BY <1>1, LenProperties DEF SentInv
    <2>2. Len(del) + 1 + 1 = Len(del) + 2 /\ Len(del) + 1 \in 1..(Len(sent) + 1)
      BY <2>1
    <2>3. /\ m \in Seq(Byte) /\ Start(Len(del) + 1 + 1) = Start(Len(del) + 1) + packet + Len(m)
          /\ Start(Len(del) + 1) \in Nat
      BY <2>2, StartIs
    <2> QED
      BY <2>1, <2>2, <2>3 DEF SentInv
  <1>3. /\ e \in Seq(Seq(Byte)) /\ Len(e) = Len(del) + 1 /\ Len(del) \in Nat
        /\ \A i \in 1..Len(del) : e[i] = del[i]
        /\ e[Len(del) + 1] = m
    BY <1>1, <1>2, AppendProperties, LenProperties
  <1>4. /\ y \in Handler /\ Queues(y) /\ driver_sizeq(y) = driver_sizeq(x) - (packet + n)
        /\ y.taken = x.taken + (packet + n) /\ y.read_count = rc /\ y.cuts \subseteq x.cuts
    <2>1. packet + n \in Nat
      BY <1>2
    <2> QED
      BY <1>1, <1>2, <2>1, TakenIs
  <1>5. /\ del = SubSeq(sent, 1, Len(del)) /\ Len(del) <= Len(sent)
        /\ x.taken = Start(Len(del) + 1)
        /\ \A c \in x.cuts : ~InsideLength(c)
    BY <1>1 DEF Packs
  <1>6. e = SubSeq(sent, 1, Len(e))
    <2>1. SubSeq(sent, 1, Len(del) + 1) = SubSeq(sent, 1, Len(del) + 1 - 1) \o <<m>>
      <3>1. PICK k : k = Len(del) + 1
        OBVIOUS
      <3>2. 1 \in 1..Len(sent) /\ k \in 1..Len(sent)
        BY <1>2, <1>3, <3>1
      <3>3. SubSeq(sent, 1, k) = SubSeq(sent, 1, k - 1) \o <<sent[k]>>
        BY <1>2, <3>2, SubSeqRecursiveSecond
      <3> QED
        BY <3>1, <3>3
    <2>2. e = del \o <<m>>
      BY <1>1, <1>2, AppendIsConcat
    <2>3. Len(del) + 1 - 1 = Len(del)
      BY <1>3
    <2> HIDE DEF e, m
    <2> QED
      BY <1>3, <1>5, <2>1, <2>2, <2>3
  <1> HIDE DEF y, m, e
  <1>7. Packs(y, e)
    <2>1. Len(e) <= Len(sent) /\ Len(e) + 1 = Len(del) + 2
      BY <1>2, <1>3
    <2>2. y.taken = Start(Len(e) + 1)
      BY <1>2, <1>4, <1>5, <2>1
    <2> QED
      BY <1>4, <1>5, <1>6, <2>1, <2>2 DEF Packs
  <1>8. Total(rc) = driver_sizeq(y) + packet * Len(e)
    <2>1. driver_sizeq(x) \in Nat /\ packet * Len(del) \in Nat
      <3>1. driver_sizeq(x) \in Nat
        BY <1>1 DEF Handler, Queues, driver_sizeq
      <3>2. packet \in Nat /\ Len(del) \in Nat
        BY <1>2, <1>3
      <3>3. packet * Len(del) \in Nat
        BY ONLY <3>2
      <3> QED
        BY <3>1, <3>3
    <2>2. packet * Len(e) = packet * Len(del) + packet
      BY <1>2, <1>3
    <2> QED
      BY <1>1, <1>2, <1>4, <2>1, <2>2
  <1>9. Chops(y, e)
    BY DEF Chops
  <1>10. Handled(y, e)
    BY <1>3, <1>4, <1>7, <1>8, <1>9 DEF Handled
  <1> QED
    BY <1>10 DEF y, e, m

-----------------------------------------------------------------------------
(***************************************************************************)
(* emit_read_buffer with framing                                           *)
(***************************************************************************)

\* LengthBytes makes a sequence of bytes, whatever the length.
LEMMA LengthBytesIs ==
    ASSUME NEW n \in Nat, NEW k \in Nat
    PROVE  LengthBytes(n, k) \in Seq(Byte) /\ Len(LengthBytes(n, k)) = k
  <1> DEFINE bs == LengthBytes(n, k)
  <1>1. \A i \in 1..k : Shifted(n, k)[k-i] \in Nat
    <2>1. Shifted(n, k) \in [0..k -> Nat]
      BY ShiftedIs
    <2>2. \A i \in 1..k : k - i \in 0..k
      OBVIOUS
    <2> QED
      BY <2>1, <2>2
  <1>2. bs \in [1..k -> Byte]
    BY <1>1, LastByte DEF LengthBytes
  <1> HIDE DEF bs
  <1>3. bs \in Seq(Byte) /\ Len(bs) = k
    BY <1>2, FunctionIsSeq
  <1> QED
    BY <1>3 DEF bs

\* Where the bytes of packet j are
LEMMA PacketBytes ==
    ASSUME SentInv, packet # 0, NEW j \in 1..Len(sent), NEW n \in Nat, Len(sent[j]) = n
    PROVE  /\ Start(j) \in Nat /\ Start(j) + packet + n <= Len(stream)
           /\ \A i \in 1..packet : stream[Start(j) + i] = LengthBytes(n, packet)[i]
           /\ \A i \in 1..n : stream[Start(j) + packet + i] = sent[j][i]
  <1> DEFINE bs == LengthBytes(n, packet)
             s == Start(j)
             t == Start(j + 1)
  <1>1. /\ packet \in Nat /\ Len(sent) \in Nat /\ Len(stream) \in Nat
        /\ stream \in Seq(Byte)
    BY LenProperties DEF SentInv
  <1>2. /\ j \in 1..(Len(sent) + 1) /\ j + 1 \in 1..(Len(sent) + 1)
        /\ Len(sent) + 1 \in 1..(Len(sent) + 1) /\ j + 1 =< Len(sent) + 1
    BY <1>1
  <1>3. /\ s \in Nat /\ t \in Nat /\ t = s + packet + n
        /\ sent[j] \in Seq(Byte) /\ Len(sent[j]) \in Nat
    BY <1>2, StartIs
  <1>4. t <= Len(stream)
    BY <1>2, StartGrows DEF SentInv
  <1>5. bs \in Seq(Byte) /\ Len(bs) = packet
    BY <1>1, LengthBytesIs
  <1>6. SubSeq(stream, s + 1, t) = bs \o sent[j]
    BY DEF SentInv
  <1> HIDE DEF bs, s, t
  <1>7. IsSlice(Byte, stream, s, t)
    <2>1. s <= t
      BY <1>1, <1>3
    <2> QED
      BY <1>1, <1>3, <1>4, <2>1, SliceIs
  <1>8. \A i \in 1..(packet + n) : stream[s + i] = (bs \o sent[j])[i]
    <2>1. t - s = packet + n
      BY <1>1, <1>3
    <2> QED
      BY <1>6, <1>7, <2>1 DEF IsSlice
  <1>9. \A i \in 1..(packet + n) :
          (bs \o sent[j])[i] = IF i <= packet THEN bs[i] ELSE sent[j][i - packet]
    BY <1>3, <1>5, ConcatProperties
  <1>10. ASSUME NEW i \in 1..packet PROVE stream[s + i] = bs[i]
    <2>1. i \in 1..(packet + n) /\ i <= packet
      BY <1>1
    <2> QED
      BY <1>8, <1>9, <2>1
  <1>11. ASSUME NEW i \in 1..n PROVE stream[s + packet + i] = sent[j][i]
    <2>1. PICK k : k = packet + i
      OBVIOUS
    <2>2. /\ k \in 1..(packet + n) /\ ~(k <= packet) /\ k - packet = i
          /\ s + packet + i = s + k
      BY <1>1, <1>3, <2>1
    <2> QED
      BY <1>8, <1>9, <2>2
  <1> QED
    BY <1>3, <1>4, <1>10, <1>11 DEF bs, s, t

\* The data of packet j is the part of the stream behind its length.
LEMMA PacketData ==
    ASSUME SentInv, packet # 0, NEW j \in 1..Len(sent), NEW n \in Nat, Len(sent[j]) = n,
           NEW t, t = Start(j) + packet
    PROVE  SubSeq(stream, t + 1, t + n) = sent[j]
  <1>0. j \in 1..(Len(sent) + 1) /\ Len(sent) \in Nat
    BY LenProperties DEF SentInv
  <1>1. /\ packet \in Nat /\ Start(j) \in Nat /\ stream \in Seq(Byte)
        /\ sent[j] \in Seq(Byte) /\ Len(sent[j]) \in Nat
    <2>1. packet \in Nat /\ stream \in Seq(Byte)
      BY DEF SentInv
    <2> QED
      BY <1>0, <2>1, StartIs
  <1>a. t + n <= Len(stream) /\ \A i \in 1..n : stream[t + i] = sent[j][i]
    BY PacketBytes
  <1>2. PICK hi \in Nat : hi = t + n /\ t \in Nat /\ t <= hi /\ hi - t = n
    <2>1. t \in Nat /\ Len(sent[j]) \in Nat
      BY <1>1
    <2>2. t + n \in Nat /\ t <= t + n /\ t + n - t = n
      BY <2>1
    <2> QED
      BY <2>1, <2>2
  <1>3. IsSlice(Byte, stream, t, hi)
    BY <1>1, <1>a, <1>2, SliceIs
  <1> DEFINE m == SubSeq(stream, t + 1, hi)
  <1>4. m \in Seq(Byte) /\ Len(m) = n /\ \A i \in 1..n : m[i] = sent[j][i]
    BY <1>a, <1>2, <1>3 DEF IsSlice
  <1> HIDE DEF m
  <1>5. m = sent[j]
    BY <1>1, <1>4, SeqEqual
  <1> QED
    BY <1>2, <1>5 DEF m

\* If there are bytes of a length, they are those of the next packet's length,
\* and all of them are in the first vector.
LEMMA FramedSize ==
    ASSUME Sound, SentInv, packet # 0, NEW x, NEW del, Handled(x, del),
           x.packet = packet, driver_sizeq(x) >= packet
    PROVE  /\ Len(del) + 1 \in 1..Len(sent)
           /\ \A n \in PktSizes(x) : n = Len(sent[Len(del) + 1])
  <1> DEFINE j == Len(del) + 1
  <1>1. /\ x \in Handler /\ Len(del) \in Nat /\ Len(sent) \in Nat
        /\ packet \in Nat \ {0} /\ x.taken \in Nat /\ x.recvd \in Nat
        /\ Len(del) <= Len(sent) /\ x.taken = Start(j)
        /\ \A c \in x.cuts : ~InsideLength(c)
        /\ Queues(x)
    BY LenProperties DEF Handled, Handler, SentInv, Packs
  <1>2. j \in 1..Len(sent)
    <2>1. x.taken < x.recvd /\ x.recvd <= Start(Len(sent) + 1)
      BY <1>1 DEF Queues, SentInv, driver_sizeq
    <2>2. j # Len(sent) + 1
      <3>1. Start(Len(sent) + 1) \in Nat
        BY <1>1, StartIs
      <3> QED
        BY <1>1, <2>1, <3>1
    <2> QED
      BY <1>1, <2>2
  <1> DEFINE len == Len(sent[j])
             bs == LengthBytes(len, packet)
  <1>3. len \in Nat
    BY <1>2, StartIs
  <1>4. bs \in [1..packet -> Byte] /\ LengthValue(bs) = len
    <2>1. packet \in Packets \ {0}
      BY DEF SentInv
    <2>2. sent[j] \in Payloads
      BY <1>2, ElementOfSeq DEF SentInv
    <2>3. Shifted(len, packet)[packet] = 0
      BY <2>1, <2>2 DEF Sound
    <2> HIDE DEF len
    <2> QED
      BY <1>1, <1>3, <2>3, LengthIsRead
  <1>5. FirstVector(x) \in Nat /\ packet <= FirstVector(x)
    <2>1. x.cuts \subseteq Nat /\ x.cuts # {}
      BY <1>1 DEF Handler, Queues, driver_sizeq
    <2>2. Min(x.cuts) \in x.cuts
      BY <2>1, MinInSet
    <2>3. PICK c \in x.cuts : c = Min(x.cuts)
      BY <2>2
    <2>4. c > Start(j) /\ c \in Nat
      BY <1>1, <2>1, <2>3 DEF Queues
    <2>5. ~(c < Start(j) + packet)
      BY <1>1, <1>2, <2>4 DEF InsideLength
    <2> QED
      BY <1>1, <2>3, <2>4, <2>5 DEF FirstVector
  <1>6. Min({packet, FirstVector(x)}) = packet
    <2>1. {packet, FirstVector(x)} \subseteq Nat /\ {packet, FirstVector(x)} # {}
      BY <1>1, <1>5
    <2>2. /\ Min({packet, FirstVector(x)}) \in {packet, FirstVector(x)}
          /\ \A y \in {packet, FirstVector(x)} : Min({packet, FirstVector(x)}) =< y
      BY <2>1, MinInSet
    <2> QED
      BY <1>1, <1>5, <2>2
  <1>7. \A i \in 1..packet : Queued(x)[i] = bs[i]
    <2>1. \A i \in 1..packet : Queued(x)[i] = stream[x.taken + i]
      BY <1>1, QueuedIs
    <2>2. \A i \in 1..packet : stream[Start(j) + i] = bs[i]
      <3> HIDE DEF j
      <3> QED
        BY <1>2, <1>3, PacketBytes
    <2> QED
      BY <1>1, <2>1, <2>2
  <1>8. ASSUME NEW n \in PktSizes(x) PROVE n = len
    <2>1. PICK b \in [1..packet -> Byte] :
            n = LengthValue(b) /\ \A i \in 1..packet : b[i] = Queued(x)[i]
      BY <1>6 DEF PktSizes
    <2> HIDE DEF bs
    <2>3. \A i \in 1..packet : b[i] = bs[i]
      BY <1>7, <2>1
    <2>2. b = bs
      <3>1. b = [i \in 1..packet |-> b[i]] /\ bs = [i \in 1..packet |-> bs[i]]
        BY <1>4
      <3> QED
        BY <2>3, <3>1, Zenon
    <2> QED
      BY <1>4, <2>1, <2>2
  <1> QED
    BY <1>2, <1>8

-----------------------------------------------------------------------------
(***************************************************************************)
(* What emit_read_buffer makes                                             *)
(***************************************************************************)

\* Outcome o goes on from handler x after the messages del.
Emits(x, del, o) ==
    /\ o \in Outcome /\ o.fault = "none" /\ Handled(o.x, del \o o.msgs)
    /\ x.taken <= o.x.taken
    /\ o.x.waiting = x.waiting /\ o.x.recv_len = x.recv_len
    /\ o.x.packet = x.packet /\ o.x.header = x.header

\* A handler with other counts has the same queue.
LEMMA WithCounts ==
    ASSUME NEW x \in Handler, NEW rc \in Seq(Nat \ {0}), NEW y,
           y = [x EXCEPT !.read_count = rc], Queues(x)
    PROVE  /\ y \in Handler /\ Queues(y) /\ y.read_count = rc
           /\ driver_sizeq(y) = driver_sizeq(x) /\ y.taken = x.taken
           /\ y.header = x.header
           /\ \A n : Taken(y, n, rc) = Taken(x, n, rc)
  <1>1. y \in Handler /\ y.read_count = rc /\ y.taken = x.taken
    BY DEF Handler
  <1>2. /\ y.recvd = x.recvd /\ y.cuts = x.cuts /\ y.header = x.header
    BY DEF Handler
  <1>3. ASSUME NEW n PROVE Taken(y, n, rc) = Taken(x, n, rc)
    BY DEF Taken, Handler
  <1> QED
    BY <1>1, <1>2, <1>3 DEF Queues, driver_sizeq

\* Two takings are one.
LEMMA TakenTwice ==
    ASSUME NEW x \in Handler, NEW m \in Nat, NEW n \in Nat, NEW rc, NEW rc2
    PROVE  Taken(Taken(x, m, rc2), n, rc) = Taken(x, m + n, rc)
  <1>1. x.taken \in Nat /\ x.cuts \subseteq Nat
    BY DEF Handler
  <1>2. x.taken + m + n = x.taken + (m + n)
    BY <1>1
  <1>3. {c \in {e \in x.cuts : e > x.taken + m} : c > x.taken + m + n}
           = {c \in x.cuts : c > x.taken + (m + n)}
    BY <1>1
  <1> DEFINE t == x.taken + m
             cs == {e \in x.cuts : e > x.taken + m}
             y == [x EXCEPT !.taken = t, !.cuts = cs, !.read_count = rc2]
  <1>4. Taken(x, m, rc2) = y /\ y.taken = t /\ y.cuts = cs
    BY DEF Taken, Handler
  <1>5. Taken(y, n, rc) =
          [y EXCEPT !.taken = t + n, !.cuts = {c \in cs : c > t + n}, !.read_count = rc]
    BY <1>4 DEF Taken, Handler
  <1>6. Taken(x, m + n, rc) =
          [x EXCEPT !.taken = t + n, !.cuts = {c \in cs : c > t + n}, !.read_count = rc]
    BY <1>2, <1>3 DEF Taken, Handler
  <1> HIDE DEF t, cs
  <1> QED
    BY <1>4, <1>5, <1>6 DEF Handler

\* A record of the right fields is an outcome.
LEMMA OutcomeIs ==
    ASSUME NEW x \in Handler, NEW ms \in Seq(Seq(Byte))
    PROVE  [x |-> x, did |-> FALSE, msgs |-> ms, fault |-> "none"] \in Outcome
  BY DEF Outcome, Faults

\* Nothing is an outcome.
LEMMA NothingIs ==
    ASSUME NEW x, NEW del, Handled(x, del)
    PROVE  Nothing(x) \in Outcome /\ Emits(x, del, Nothing(x))
  <1>1. /\ x \in Handler /\ x.taken \in Nat /\ del \in Seq(Seq(Byte))
    BY DEF Handled, Handler
  <1>2. /\ Nothing(x) \in Outcome /\ Nothing(x).x = x /\ Nothing(x).msgs = <<>>
        /\ Nothing(x).fault = "none"
    <2>1. <<>> \in Seq(Seq(Byte))
      BY EmptySeq
    <2> QED
      BY <1>1, <2>1, OutcomeIs DEF Nothing
  <1>3. del \o <<>> = del
    BY <1>1, ConcatEmptySeq
  <1>4. x.taken <= x.taken
    BY <1>1
  <1> QED
    BY <1>2, <1>3, <1>4 DEF Emits

\* The options of a handler stay when data is taken off.
LEMMA TakenEmits ==
    ASSUME NEW x, NEW del, Handled(x, del), NEW n \in Nat, n =< driver_sizeq(x),
           NEW rc \in Seq(Nat \ {0}), NEW m \in Seq(Byte),
           Handled(Taken(x, n, rc), Append(del, m)),
           NEW o, o = [x |-> Taken(x, n, rc), did |-> FALSE, msgs |-> <<m>>,
                       fault |-> "none"]
    PROVE  Emits(x, del, o) /\ o.x.active = x.active
  <1>1. /\ x \in Handler /\ x.taken \in Nat /\ del \in Seq(Seq(Byte)) /\ Queues(x)
    BY DEF Handled, Handler
  <1>2. /\ Taken(x, n, rc) \in Handler /\ Taken(x, n, rc).taken = x.taken + n
        /\ Taken(x, n, rc).waiting = x.waiting
        /\ Taken(x, n, rc).recv_len = x.recv_len
        /\ Taken(x, n, rc).active = x.active
        /\ Taken(x, n, rc).packet = x.packet
        /\ Taken(x, n, rc).header = x.header
    BY <1>1, TakenIs
  <1>3. <<m>> \in Seq(Seq(Byte)) /\ Append(del, m) = del \o <<m>>
    BY <1>1, AppendIsConcat
  <1>4. /\ o \in Outcome /\ o.x = Taken(x, n, rc) /\ o.msgs = <<m>> /\ o.fault = "none"
    BY <1>2, <1>3, OutcomeIs
  <1>5. x.taken <= x.taken + n
    BY <1>1
  <1> QED
    BY <1>2, <1>3, <1>4, <1>5 DEF Emits

\* With framing the next packet comes out, with its length off the queue.
LEMMA EmitPacketIs ==
    ASSUME Sound, SentInv, packet # 0, NEW x, NEW del, Handled(x, del),
           x.packet = packet, x.header \in Headers,
           Len(del) + 1 \in 1..Len(sent), NEW n \in Nat, Len(sent[Len(del) + 1]) = n,
           packet + n =< driver_sizeq(x)
    PROVE  Emits(x, del, EmitPacket(x, n)) /\ EmitPacket(x, n).x.active = x.active
  <1> DEFINE j == Len(del) + 1
             m == sent[j]
             y == Taken(x, packet, x.read_count)
             z == Taken(y, n, y.read_count)
             o1 == [Nothing(x) EXCEPT !.x = driver_deq(@, x.packet)]
             o2 == move_read_data(o1, n)
  <1>1. /\ x \in Handler /\ del \in Seq(Seq(Byte)) /\ Queues(x) /\ x.taken = Start(j)
        /\ Total(x.read_count) = driver_sizeq(x) + packet * Len(del)
        /\ Len(del) \in Nat
    BY LenProperties DEF Handled, Packs
  <1>2. packet \in Nat /\ x.header \in {0, 1} /\ x.read_count \in Seq(Nat \ {0})
    <2>1. Headers \subseteq {0, 1}
      BY DEF Sound
    <2>2. packet \in Nat
      BY DEF SentInv
    <2> QED
      BY <1>1, <2>1, <2>2 DEF Handler
  <1>3. /\ n \in Nat \ {0} /\ m \in Seq(Byte) /\ driver_sizeq(x) \in Nat
        /\ packet =< driver_sizeq(x) /\ n =< driver_sizeq(x) - packet
        /\ n =< Total(x.read_count)
    <2>1. Len(m) \in Nat \ {0} /\ m \in Seq(Byte)
      BY StartIs
    <2>2. driver_sizeq(x) \in Nat
      BY <1>1 DEF Handler, Queues, driver_sizeq
    <2>3. PICK p \in Nat : p = packet * Len(del)
      BY <1>1, <1>2
    <2>4. n \in Nat \ {0}
      BY <2>1
    <2>5. Total(x.read_count) = driver_sizeq(x) + p
      BY <1>1, <2>3
    <2> QED
      BY <1>2, <2>1, <2>2, <2>4, <2>5
  <1>4. /\ y \in Handler /\ Queues(y) /\ driver_sizeq(y) = driver_sizeq(x) - packet
        /\ y.taken = x.taken + packet /\ y.read_count = x.read_count
        /\ y.header = x.header
    BY <1>1, <1>2, <1>3, TakenIs
  <1>5. o1 = [x |-> y, did |-> FALSE, msgs |-> <<>>, fault |-> "none"] /\ o1 \in Outcome
    <2>1. driver_deq(x, x.packet) = y
      BY <1>1, <1>2, <1>3, DeqIs
    <2>2. o1 = [Nothing(x) EXCEPT !.x = y]
      BY <2>1 DEF Nothing
    <2> HIDE DEF y, o1
    <2>3. o1 = [x |-> y, did |-> FALSE, msgs |-> <<>>, fault |-> "none"]
      BY <2>2 DEF Nothing
    <2>4. <<>> \in Seq(Seq(Byte))
      BY EmptySeq
    <2> QED
      BY <1>4, <2>3, <2>4, OutcomeIs
  <1> HIDE DEF y, o1
  <1>6. SubSeq(stream, y.taken + 1, y.taken + n) = m
    BY <1>1, <1>3, <1>4, PacketData
  <1>7. z \in Handler
    BY <1>2, <1>3, <1>4, TakenIs
  <1>8. o2 = [x |-> z, did |-> FALSE, msgs |-> <<m>>, fault |-> "none"]
    <2>1. o1.x = y /\ Queues(o1.x) /\ n =< driver_sizeq(o1.x) /\ o1.x.header =< n
      BY <1>2, <1>3, <1>4, <1>5
    <2>2. o2 = Moved(o1, n)
      BY <1>3, <1>5, <2>1, MoveIs
    <2>3. o2 = [o1 EXCEPT !.x = z, !.msgs = Append(@, m)]
      BY <1>6, <2>1, <2>2 DEF Moved
    <2> HIDE DEF o2, z, m
    <2>4. Append(<<>>, m) = <<m>>
      OBVIOUS
    <2> QED
      BY <1>5, <2>3, <2>4
  <1>9. o2 \in Outcome
    <2>1. <<m>> \in Seq(Seq(Byte))
      BY <1>3
    <2> HIDE DEF o2, z, m
    <2> QED
      BY <1>7, <1>8, <2>1, OutcomeIs
  <1>10. o2.x = z /\ z.read_count = x.read_count
    <2>1. z.read_count = x.read_count
      BY <1>2, <1>3, <1>4, TakenIs
    <2> HIDE DEF o2, z
    <2> QED
      BY <1>8, <2>1
  <1>11. EmitPacket(x, n) = reduce_read_count(o2, n)
    BY DEF EmitPacket, o1
  <1> HIDE DEF o2
  <1>12. PICK rc \in Seq(Nat \ {0}) :
           /\ Total(rc) = Total(x.read_count) - n
           /\ reduce_read_count(o2, n) = [o2 EXCEPT !.x.read_count = rc]
    BY <1>3, <1>9, <1>10, ReduceIs
  <1>13. [z EXCEPT !.read_count = rc] = Taken(x, packet + n, rc)
    <2>1. [z EXCEPT !.read_count = rc] = Taken(y, n, rc)
      BY <1>4 DEF Taken, Handler
    <2>2. Taken(y, n, rc) = Taken(x, packet + n, rc)
      BY <1>1, <1>2, TakenTwice DEF y
    <2> QED
      BY <2>1, <2>2
  <1>14. EmitPacket(x, n) =
           [x |-> Taken(x, packet + n, rc), did |-> FALSE, msgs |-> <<m>>, fault |-> "none"]
    <2> HIDE DEF z, m
    <2> QED
      BY <1>8, <1>11, <1>12, <1>13
  <1>15. Handled(Taken(x, packet + n, rc), Append(del, m))
    BY <1>12, PacketHandled
  <1> HIDE DEF m
  <1>16. packet + n \in Nat
    BY <1>2
  <1> QED
    BY <1>3, <1>14, <1>15, <1>16, TakenEmits

\* Without framing there is no length.
LEMMA PlainSize ==
    ASSUME NEW x, x.packet = 0
    PROVE  \A n \in PktSizes(x) : n = 0
  <1>1. ASSUME NEW n \in PktSizes(x) PROVE n = 0
    <2>1. PICK b \in [1..0 -> Byte] : n = LengthValue(b)
      BY DEF PktSizes
    <2> QED
      BY <2>1, NoLength
  <1> QED
    BY <1>1

\* Without framing the counts are exact.
LEMMA PlainCounts ==
    ASSUME packet = 0, NEW x, NEW del, Handled(x, del)
    PROVE  /\ x \in Handler /\ Queues(x) /\ del \in Seq(Seq(Byte))
           /\ x.read_count \in Seq(Nat \ {0}) /\ x.header \in Nat
           /\ driver_sizeq(x) \in Nat /\ Total(x.read_count) = driver_sizeq(x)
  <1>1. /\ x \in Handler /\ Queues(x) /\ del \in Seq(Seq(Byte)) /\ Len(del) \in Nat
        /\ Total(x.read_count) = driver_sizeq(x) + packet * Len(del)
    BY LenProperties DEF Handled
  <1>2. x.read_count \in Seq(Nat \ {0}) /\ x.header \in Nat /\ driver_sizeq(x) \in Nat
    BY <1>1 DEF Handler, Queues, driver_sizeq
  <1>3. packet * Len(del) = 0
    BY <1>1
  <1> QED
    BY <1>1, <1>2, <1>3

\* No summands
LEMMA TotalNone == Total(<<>>) = 0
  <1>1. <<>> \in Seq(Nat) /\ Len(<<>>) = 0
    BY EmptySeq
  <1> QED
    BY <1>1, TotalsIs DEF Total

\* What was asked for, or all there is, comes out.
LEMMA EmitBytesIs ==
    ASSUME Sound, SentInv, packet = 0, NEW x, NEW del, Handled(x, del),
           x.header \in Headers, NEW len \in Nat, len =< driver_sizeq(x), driver_sizeq(x) # 0
    PROVE  Emits(x, del, EmitBytes(x, len)) /\ EmitBytes(x, len).x.active = x.active
  <1>1. /\ x \in Handler /\ Queues(x) /\ del \in Seq(Seq(Byte))
        /\ x.read_count \in Seq(Nat \ {0}) /\ x.header \in {0, 1}
        /\ driver_sizeq(x) \in Nat \ {0} /\ Total(x.read_count) = driver_sizeq(x)
    BY PlainCounts DEF Sound
  <1> DEFINE n == IF len = 0 THEN driver_sizeq(x) ELSE len
  <1>2. n \in Nat \ {0} /\ n =< driver_sizeq(x) /\ x.header =< n /\ n =< Total(x.read_count)
    BY <1>1
  <1>3. PICK rc \in Seq(Nat \ {0}), o \in Outcome :
          /\ Total(rc) = Total(x.read_count) - n
          /\ o = [Nothing(x) EXCEPT !.x.read_count = rc]
          /\ EmitBytes(x, len) = move_read_data(o, n)
    <2>1. Nothing(x) \in Outcome /\ Nothing(x).x = x
      BY NothingIs DEF Nothing
    <2>2. \A rc \in Seq(Nat \ {0}) : [Nothing(x) EXCEPT !.x.read_count = rc] \in Outcome
      <3>1. ASSUME NEW rc \in Seq(Nat \ {0})
            PROVE  [Nothing(x) EXCEPT !.x.read_count = rc] \in Outcome
        <4>1. PICK y : y = [x EXCEPT !.read_count = rc]
          OBVIOUS
        <4>2. y \in Handler
          BY <1>1, <4>1, WithCounts
        <4>3. [Nothing(x) EXCEPT !.x.read_count = rc] =
                [x |-> y, did |-> FALSE, msgs |-> <<>>, fault |-> "none"]
          <5>1. PICK p : p = [Nothing(x) EXCEPT !.x.read_count = rc]
            OBVIOUS
          <5>2. p = [x |-> y, did |-> FALSE, msgs |-> <<>>, fault |-> "none"]
            BY <4>1, <5>1 DEF Nothing
          <5> QED
            BY <5>1, <5>2
        <4>4. <<>> \in Seq(Seq(Byte))
          BY EmptySeq
        <4> QED
          BY <4>2, <4>3, <4>4, OutcomeIs
      <3> QED
        BY <3>1
    <2>3. CASE len = 0
      <3>1. <<>> \in Seq(Nat \ {0}) /\ Total(<<>>) = Total(x.read_count) - n
        BY <1>1, <2>3, TotalNone, EmptySeq
      <3>2. EmitBytes(x, len) =
              move_read_data([Nothing(x) EXCEPT !.x.read_count = <<>>], n)
        BY <2>3 DEF EmitBytes
      <3> HIDE DEF n
      <3> QED
        BY <2>2, <3>1, <3>2
    <2>4. CASE len # 0
      <3>1. n = len
        BY <2>4
      <3> HIDE DEF n
      <3>2. PICK rc \in Seq(Nat \ {0}) :
              /\ Total(rc) = Total(x.read_count) - n
              /\ reduce_read_count(Nothing(x), n) = [Nothing(x) EXCEPT !.x.read_count = rc]
        BY <1>2, <2>1, ReduceIs
      <3>3. EmitBytes(x, len) = move_read_data(reduce_read_count(Nothing(x), n), n)
        BY <2>4, <3>1 DEF EmitBytes
      <3> QED
        BY <2>2, <3>2, <3>3
    <2> QED
      BY <2>3, <2>4
  <1> HIDE DEF n
  <1>4. /\ o.x = [x EXCEPT !.read_count = rc] /\ o.did = FALSE /\ o.msgs = <<>>
        /\ o.fault = "none"
    BY <1>3 DEF Nothing
  <1>5. /\ Queues(o.x) /\ o.x.read_count = rc /\ driver_sizeq(o.x) = driver_sizeq(x)
        /\ o.x.taken = x.taken /\ o.x.header = x.header
        /\ Taken(o.x, n, rc) = Taken(x, n, rc)
    BY <1>1, <1>4, WithCounts
  <1> DEFINE m == SubSeq(stream, x.taken + 1, x.taken + n)
  <1>6. EmitBytes(x, len) =
          [x |-> Taken(x, n, rc), did |-> FALSE, msgs |-> <<m>>, fault |-> "none"]
    <2>1. EmitBytes(x, len) = Moved(o, n)
      BY <1>2, <1>3, <1>5, MoveIs
    <2>2. PICK t : t = Taken(x, n, rc)
      OBVIOUS
    <2>3. Append(<<>>, m) = <<m>>
      OBVIOUS
    <2>4. Moved(o, n) = [o EXCEPT !.x = t, !.msgs = <<m>>]
      BY <1>4, <1>5, <2>2, <2>3 DEF Moved
    <2>5. [o EXCEPT !.x = t, !.msgs = <<m>>] =
            [x |-> t, did |-> FALSE, msgs |-> <<m>>, fault |-> "none"]
      <3> HIDE DEF m
      <3>1. PICK v : v = o.x
        OBVIOUS
      <3>2. o = [x |-> v, did |-> FALSE, msgs |-> <<>>, fault |-> "none"]
        BY <1>4, <3>1 DEF Outcome
      <3>3. PICK p : p = [o EXCEPT !.x = t, !.msgs = <<m>>]
        OBVIOUS
      <3>4. p = [x |-> t, did |-> FALSE, msgs |-> <<m>>, fault |-> "none"]
        BY <3>2, <3>3
      <3> QED
        BY <3>3, <3>4
    <2> QED
      BY <2>1, <2>2, <2>4, <2>5
  <1>7. m \in Seq(Byte)
    BY <1>1, <1>2, QueuedIs
  <1>8. Handled(Taken(x, n, rc), Append(del, m))
    BY <1>2, <1>3, BytesHandled
  <1> HIDE DEF m
  <1> QED
    BY <1>2, <1>6, <1>7, <1>8, TakenEmits

\* The first count is taken off.
Pop(o) == [o EXCEPT !.x.read_count = Tail(@)]
Popped(o) == move_read_data(Pop(o), Head(o.x.read_count))

\* Outcomes of handler x with its own active option
Going(x, del) == {o \in Outcome : Emits(x, del, o) /\ o.x.active = x.active}

\* The piece in front comes out.
LEMMA PoppedIs ==
    ASSUME Sound, SentInv, packet = 0, NEW x, NEW del, del \in Seq(Seq(Byte)),
           x.header \in Headers, x.taken \in Nat,
           NEW o \in Going(x, del), o.x.read_count # <<>>
    PROVE  /\ Popped(o) \in Going(x, del)
           /\ Len(Popped(o).x.read_count) = Len(o.x.read_count) - 1
  <1> DEFINE y == o.x
             c == y.read_count
             n == Head(c)
             rc == Tail(c)
             d == del \o o.msgs
             m == SubSeq(stream, y.taken + 1, y.taken + n)
             p == Pop(o)
             z == Taken(y, n, rc)
  <1>1. /\ o \in Outcome /\ o.fault = "none" /\ Handled(y, d) /\ x.taken <= y.taken
        /\ y.waiting = x.waiting /\ y.recv_len = x.recv_len
        /\ y.packet = x.packet /\ y.header = x.header /\ y.active = x.active
        /\ o.msgs \in Seq(Seq(Byte))
    BY DEF Going, Emits, Outcome
  <1>2. /\ y \in Handler /\ Queues(y) /\ c \in Seq(Nat \ {0}) /\ y.header \in {0, 1}
        /\ driver_sizeq(y) \in Nat /\ Total(c) = driver_sizeq(y) /\ y.taken \in Nat
    BY <1>1, PlainCounts DEF Sound, Handler
  <1> HIDE DEF d
  <1>3. /\ n \in Nat \ {0} /\ rc \in Seq(Nat \ {0}) /\ Len(rc) = Len(c) - 1
        /\ Total(rc) = Total(c) - n /\ n =< Total(c)
    <2>1. /\ n \in Nat \ {0} /\ rc \in Seq(Nat \ {0}) /\ Len(rc) = Len(c) - 1
          /\ rc = SubSeq(c, 2, Len(c)) /\ Len(c) \in Nat \ {0} /\ n = c[1]
      BY <1>2, HeadTailProperties, TailIsSubSeq, EmptySeq
    <2>2. c \in Seq(Nat)
      BY <1>2, SeqMonotonic
    <2> HIDE DEF c, n, rc
    <2>3. Total(rc) = Total(c) - Totals(c)[1]
      <3>1. 1 \in 0..Len(c)
        BY <2>1
      <3>2. Total(SubSeq(c, 1 + 1, Len(c))) = Total(c) - Totals(c)[1]
        BY <2>2, <3>1, TotalRest
      <3>3. 1 + 1 = 2
        OBVIOUS
      <3> QED
        BY <2>1, <3>2, <3>3
    <2>4. Totals(c)[1] = n
      <3>1. /\ Totals(c)[0] = 0 /\ 1 \in 1..Len(c) /\ 1 - 1 = 0
            /\ \A i \in 1..Len(c) : Totals(c)[i] = Totals(c)[i-1] + c[i]
        BY <2>1, <2>2, TotalsIs
      <3>2. Totals(c)[1] = Totals(c)[0] + c[1]
        BY <3>1
      <3> QED
        BY <2>1, <3>1, <3>2
    <2>5. Total(rc) \in Nat
      <3>1. rc \in Seq(Nat) /\ Len(rc) \in Nat
        BY <2>1, SeqMonotonic, LenProperties
      <3>2. Totals(rc) \in [0..Len(rc) -> Nat] /\ Len(rc) \in 0..Len(rc)
        BY <3>1, TotalsIs
      <3> QED
        BY <3>2 DEF Total
    <2>6. Total(c) \in Nat
      BY <1>2 DEF c
    <2> QED
      BY <2>1, <2>3, <2>4, <2>5, <2>6
  <1> HIDE DEF n, rc
  <1>4. PICK w : w = [y EXCEPT !.read_count = rc]
    OBVIOUS
  <1>5. /\ w \in Handler /\ Queues(w) /\ w.read_count = rc
        /\ driver_sizeq(w) = driver_sizeq(y) /\ w.taken = y.taken /\ w.header = y.header
        /\ Taken(w, n, rc) = z
    BY <1>2, <1>3, <1>4, WithCounts
  <1> HIDE DEF z
  <1>6. p \in Outcome /\ p.x = w /\ p.msgs = o.msgs /\ p.fault = "none" /\ p.did = o.did
    <2>1. p = [o EXCEPT !.x = w]
      BY <1>4 DEF Pop, rc
    <2> HIDE DEF p
    <2> QED
      BY <1>1, <1>5, <2>1 DEF Outcome
  <1> HIDE DEF p
  <1>7. n =< driver_sizeq(p.x) /\ p.x.header =< n /\ Queues(p.x)
    BY <1>2, <1>3, <1>5, <1>6
  <1>8. Popped(o) = Moved(p, n)
    BY <1>3, <1>6, <1>7, MoveIs DEF Popped, p, n
  <1>9. m \in Seq(Byte)
    BY <1>2, <1>3, QueuedIs
  <1>10. Handled(z, Append(d, m))
    BY <1>1, <1>2, <1>3, BytesHandled DEF z
  <1>11. /\ z \in Handler /\ z.taken = y.taken + n /\ z.read_count = rc
         /\ z.waiting = y.waiting /\ z.recv_len = y.recv_len
         /\ z.active = y.active /\ z.packet = y.packet /\ z.header = y.header
    <2>1. n \in Nat /\ n =< driver_sizeq(y) /\ rc \in Seq(Nat \ {0})
      BY <1>2, <1>3
    <2>2. /\ Taken(y, n, rc) \in Handler /\ Taken(y, n, rc).taken = y.taken + n
          /\ Taken(y, n, rc).read_count = rc
      BY <1>2, <2>1, TakenIs
    <2>3. PICK h : h = Taken(y, n, rc)
      OBVIOUS
    <2>4. /\ h.waiting = y.waiting /\ h.recv_len = y.recv_len
          /\ h.active = y.active /\ h.packet = y.packet /\ h.header = y.header
      BY <1>2, <2>3 DEF Taken, Handler
    <2>5. z = h
      BY <2>3 DEF z
    <2> HIDE DEF z
    <2> QED
      BY <2>2, <2>3, <2>4, <2>5
  <1>12. /\ Append(o.msgs, m) \in Seq(Seq(Byte))
         /\ Append(d, m) = del \o Append(o.msgs, m)
    <2> HIDE DEF m
    <2>1. /\ Append(o.msgs, m) \in Seq(Seq(Byte)) /\ <<m>> \in Seq(Seq(Byte))
          /\ Append(o.msgs, m) = o.msgs \o <<m>>
      BY <1>1, <1>9, AppendProperties, AppendIsConcat
    <2>2. d \in Seq(Seq(Byte))
      BY <1>1 DEF Handled
    <2>3. Append(d, m) = d \o <<m>>
      BY <1>9, <2>2, AppendIsConcat
    <2>4. (del \o o.msgs) \o <<m>> = del \o (o.msgs \o <<m>>)
      <3>1. PICK S : S = Seq(Byte)
        OBVIOUS
      <3>2. PICK v, u : v = <<m>> /\ u = o.msgs
        OBVIOUS
      <3>3. del \in Seq(S) /\ u \in Seq(S) /\ v \in Seq(S)
        BY <1>1, <2>1, <3>1, <3>2
      <3>4. (del \o u) \o v = del \o (u \o v)
        BY ONLY <3>3, ConcatAssociative
      <3> QED
        BY <3>2, <3>4
    <2> QED
      BY <2>1, <2>3, <2>4 DEF d
  <1>13. /\ Popped(o).x = z /\ Popped(o).msgs = Append(o.msgs, m)
         /\ Popped(o).fault = "none" /\ Popped(o) \in Outcome
    <2>1. PICK q : q = [p EXCEPT !.x = z, !.msgs = Append(o.msgs, m)]
      OBVIOUS
    <2>2. Moved(p, n) = q
      BY <1>5, <1>6, <2>1 DEF Moved
    <2>3. PICK ms \in Seq(Seq(Byte)) : ms = Append(o.msgs, m)
      BY <1>12
    <2>4. q = [p EXCEPT !.x = z, !.msgs = ms]
      BY <2>1, <2>3
    <2>5. q.x = z /\ q.msgs = ms /\ q.fault = p.fault /\ q \in Outcome
      BY <1>6, <1>11, <2>4 DEF Outcome
    <2> QED
      BY <1>6, <1>8, <2>2, <2>3, <2>5
  <1> HIDE DEF m, y
  <1>14. x.taken <= z.taken
    BY <1>1, <1>2, <1>3, <1>11
  <1>15. Emits(x, del, Popped(o)) /\ Popped(o).x.active = x.active
    BY <1>1, <1>10, <1>11, <1>12, <1>13, <1>14 DEF Emits
  <1> QED
    BY <1>3, <1>11, <1>13, <1>15 DEF Going, c, y

\* The pieces come out one after the other.
LEMMA EmitPiecesIs ==
    ASSUME Sound, SentInv, packet = 0, NEW x, NEW del, Handled(x, del),
           x.header \in Headers, NEW n \in 0..Len(x.read_count)
    PROVE  /\ EmitPieces(x, n) \in Going(x, del)
           /\ Len(EmitPieces(x, n).x.read_count) = Len(x.read_count) - n
  <1> DEFINE S == Going(x, del)
             next(o) == IF o.x.read_count = <<>> THEN o ELSE Popped(o)
             step == [i \in 1..n |-> [o \in S |-> next(o)]]
             L == Len(x.read_count)
             piece(i, o) == IF i = 0 THEN Nothing(x)
                            ELSE IF o.fault # "none" THEN o
                            ELSE IF o.x.read_count = <<>>
                            THEN [o EXCEPT !.fault = "front of empty read_count"]
                            ELSE Popped(o)
             Pieces(f) == f = [i \in 0..n |-> piece(i, f[i-1])]
  <1>1. /\ x \in Handler /\ x.taken \in Nat /\ del \in Seq(Seq(Byte)) /\ L \in Nat
        /\ n \in Nat /\ n =< L
    BY PlainCounts, LenProperties DEF Handler
  <1>2. \A o \in S : o.x.read_count \in Seq(Nat \ {0}) /\ Len(o.x.read_count) \in Nat
    <2>1. \A o \in S : o.x.read_count \in Seq(Nat \ {0})
      BY DEF Going, Outcome, Handler
    <2> QED
      BY <2>1, LenProperties
  <1>3. \A o \in S : o.x.read_count # <<>> =>
          Popped(o) \in S /\ Len(Popped(o).x.read_count) = Len(o.x.read_count) - 1
    BY <1>1, PoppedIs
  <1>4. Nothing(x) \in S /\ Nothing(x).x = x
    BY NothingIs DEF Going, Nothing
  <1> HIDE DEF S
  <1>5. \A o \in S : next(o) \in S
    BY <1>3
  <1>6. PICK f \in [0..n -> S] : f[0] = Nothing(x) /\ \A i \in 1..n : f[i] = step[i][f[i-1]]
    <2>1. step \in [1..n -> [S -> S]]
      BY <1>5
    <2> HIDE DEF step
    <2>2. Reaches(S, Nothing(x), n, step)
      BY <1>1, <1>4, <2>1, RecursionExists
    <2> QED
      BY <2>2 DEF Reaches
  <1>7. \A i \in 1..n : f[i-1] \in S /\ f[i] = next(f[i-1])
    <2>1. \A i \in 1..n : f[i-1] \in S
      BY <1>1
    <2> QED
      BY <1>6, <2>1
  <1> HIDE DEF step
  <1>8. \A i \in 0..n : Len(f[i].x.read_count) = L - i
    <2> DEFINE g == [i \in 0..n |-> Len(f[i].x.read_count)]
               h == [i \in 0..n |-> L - i]
    <2>1. g[0] = h[0]
      BY <1>1, <1>4, <1>6
    <2>2. ASSUME NEW i \in 1..n, g[i-1] = h[i-1] PROVE g[i] = h[i]
      <3>1. i - 1 \in 0..n /\ i \in 0..n /\ L - (i - 1) \in Nat \ {0}
            /\ L - (i - 1) - 1 = L - i
        BY <1>1
      <3>2. Len(f[i-1].x.read_count) = L - (i - 1)
        BY <2>2, <3>1
      <3>3. f[i-1].x.read_count # <<>>
        BY <3>1, <3>2
      <3>4. f[i] = Popped(f[i-1]) /\ f[i-1] \in S
        BY <1>7, <3>3
      <3>5. Len(f[i].x.read_count) = L - i
        BY <1>3, <3>1, <3>2, <3>3, <3>4
      <3> QED
        BY <3>1, <3>5
    <2> HIDE DEF g, h
    <2>3. \A i \in 0..n : g[i] = h[i]
      <3>1. n \in Nat /\ \A i \in 1..n : g[i-1] = h[i-1] => g[i] = h[i]
        BY <1>1, <2>2
      <3>2. Alike(n, g, h)
        BY <2>1, <3>1, RecursionAlike
      <3> QED
        BY <3>2 DEF Alike
    <2> QED
      BY <2>3 DEF g, h
  <1>9. \A i \in 0..n : f[i] = piece(i, f[i-1])
    <2>1. ASSUME NEW i \in 1..n PROVE f[i] = piece(i, f[i-1])
      <3>1. i - 1 \in 0..n /\ L - (i - 1) \in Nat \ {0} /\ i # 0
        BY <1>1
      <3>2. f[i-1].x.read_count # <<>>
        BY <1>8, <3>1
      <3>3. f[i-1] \in S /\ f[i-1].fault = "none"
        BY <1>7 DEF S, Going, Emits
      <3> QED
        BY <1>7, <3>1, <3>2, <3>3
    <2>2. f[0] = piece(0, f[0-1])
      BY <1>6
    <2>3. \A i \in 0..n : i = 0 \/ i \in 1..n
      BY <1>1
    <2> HIDE DEF piece
    <2> QED
      BY <2>1, <2>2, <2>3
  <1>10. Pieces(f)
    <2> HIDE DEF piece
    <2> QED
      BY <1>9
  <1> DEFINE v == CHOOSE g : Pieces(g)
  <1>11. Pieces(v)
    BY <1>10
  <1>12. EmitPieces(x, n) = v[n]
    BY DEF EmitPieces, Popped, Pop
  <1> HIDE DEF v, piece
  <1>13. \A i \in 0..n : v[i] = f[i]
    <2>1. v[0] = f[0]
      <3>1. v[0] = piece(0, v[0-1])
        BY <1>1, <1>11
      <3> QED
        BY <1>6, <3>1 DEF piece
    <2>2. n \in Nat /\ \A i \in 1..n : v[i-1] = f[i-1] => v[i] = f[i]
      BY <1>1, <1>9, <1>11
    <2> HIDE DEF Pieces
    <2>3. Alike(n, v, f)
      BY <2>1, <2>2, RecursionAlike
    <2> QED
      BY <2>3 DEF Alike
  <1>14. n \in 0..n /\ f[n] \in S
    BY <1>1
  <1> QED
    BY <1>8, <1>12, <1>13, <1>14 DEF S

\* A handler with other options has the same data.
LEMMA OtherOptions ==
    ASSUME NEW x, NEW del, Handled(x, del), NEW y \in Handler,
           y.recvd = x.recvd, y.taken = x.taken, y.cuts = x.cuts,
           y.read_count = x.read_count
    PROVE  Handled(y, del) /\ driver_sizeq(y) = driver_sizeq(x)
  BY DEF Handled, Queues, Packs, Chops, driver_sizeq

\* Available, for handler x after the messages del
AvailableIn(x, del, len) ==
    /\ driver_sizeq(x) > 0 /\ driver_sizeq(x) >= len
    /\ packet # 0 =>
        /\ Len(del) + 1 <= Len(sent)
        /\ driver_sizeq(x) >= packet + Len(sent[Len(del) + 1])

\* Sending data ends {active, once}.
LEMMA AfterEmitIs ==
    ASSUME NEW x, NEW del, NEW o, Emits(x, del, o)
    PROVE  /\ Emits(x, del, AfterEmit(o)) /\ AfterEmit(o).did = TRUE
           /\ AfterEmit(o).x.active = IF o.x.active = "once" THEN "false" ELSE o.x.active
           /\ driver_sizeq(AfterEmit(o).x) = driver_sizeq(o.x)
  <1>1. /\ o \in Outcome /\ o.x \in Handler /\ o.fault = "none"
        /\ Handled(o.x, del \o o.msgs) /\ x.taken <= o.x.taken
        /\ o.x.waiting = x.waiting /\ o.x.recv_len = x.recv_len
        /\ o.x.packet = x.packet /\ o.x.header = x.header
    BY DEF Emits, Outcome
  <1>2. PICK a \in {"false", "once", "true"} :
          a = IF o.x.active = "once" THEN "false" ELSE o.x.active
    BY <1>1 DEF Handler
  <1>3. PICK y : y = [o.x EXCEPT !.active = a]
    OBVIOUS
  <1>4. /\ y \in Handler /\ y.recvd = o.x.recvd /\ y.taken = o.x.taken
        /\ y.cuts = o.x.cuts /\ y.read_count = o.x.read_count /\ y.active = a
        /\ y.waiting = o.x.waiting /\ y.recv_len = o.x.recv_len
        /\ y.packet = o.x.packet /\ y.header = o.x.header
    BY <1>1, <1>3 DEF Handler
  <1>5. Handled(y, del \o o.msgs) /\ driver_sizeq(y) = driver_sizeq(o.x)
    BY <1>1, <1>4, OtherOptions
  <1>6. PICK p : p = AfterEmit(o)
    OBVIOUS
  <1>7. p = [o EXCEPT !.did = TRUE, !.x = y]
    BY <1>1, <1>2, <1>3, <1>6 DEF AfterEmit, Outcome
  <1>8. /\ p \in Outcome /\ p.x = y /\ p.did = TRUE /\ p.msgs = o.msgs
        /\ p.fault = "none"
    BY <1>1, <1>4, <1>7 DEF Outcome
  <1>9. Emits(x, del, p)
    BY <1>1, <1>4, <1>5, <1>8 DEF Emits
  <1> QED
    BY <1>2, <1>4, <1>5, <1>6, <1>8, <1>9

\* The whole of emit_read_buffer
LEMMA EmitIs ==
    ASSUME Sound, SentInv, NEW x, NEW del, Handled(x, del), x.packet = packet,
           x.header \in Headers, NEW len \in Nat, NEW o \in emit_read_buffer(x, len)
    PROVE  /\ Emits(x, del, o) /\ o.x.active \in {x.active, "false"}
           /\ ~o.did => o = Nothing(x) /\ ~AvailableIn(x, del, len)
           /\ o.did => /\ o.x.active # "once"
                       /\ o.x.active = "true" /\ packet = 0 => driver_sizeq(o.x) = 0
  <1>1. /\ x \in Handler /\ Queues(x) /\ driver_sizeq(x) \in Nat /\ packet \in Nat
        /\ Len(del) \in Nat /\ x.active \in {"false", "once", "true"}
    <2>1. /\ x \in Handler /\ Queues(x) /\ Len(del) \in Nat
      BY LenProperties DEF Handled
    <2>2. driver_sizeq(x) \in Nat /\ x.active \in {"false", "once", "true"}
      BY <2>1 DEF Handler, Queues, driver_sizeq
    <2>3. packet \in Nat
      BY DEF SentInv
    <2> QED
      BY <2>1, <2>2, <2>3
  <1>2. Emits(x, del, Nothing(x)) /\ Nothing(x).x = x /\ Nothing(x).did = FALSE
    BY NothingIs DEF Nothing
  <1>3. CASE driver_sizeq(x) = 0 \/ driver_sizeq(x) < len \/ driver_sizeq(x) < x.packet
    <2>1. o = Nothing(x)
      BY <1>3 DEF emit_read_buffer
    <2>2. ~AvailableIn(x, del, len)
      <3>1. CASE driver_sizeq(x) = 0 \/ driver_sizeq(x) < len
        BY <1>1, <3>1 DEF AvailableIn
      <3>2. CASE driver_sizeq(x) < x.packet
        <4>1. packet # 0
          BY <1>1, <3>2
        <4>2. SUFFICES ASSUME Len(del) + 1 <= Len(sent)
                       PROVE  ~(driver_sizeq(x) >= packet + Len(sent[Len(del) + 1]))
          BY <4>1 DEF AvailableIn
        <4>3. Len(sent) \in Nat
          BY LenProperties DEF SentInv
        <4>4. Len(del) + 1 \in 1..Len(sent)
          BY <1>1, <4>2, <4>3
        <4>5. Len(sent[Len(del) + 1]) \in Nat
          BY <4>4, StartIs
        <4> QED
          BY <1>1, <3>2, <4>5
      <3> QED
        BY <1>3, <3>1, <3>2
    <2> QED
      BY <1>2, <2>1, <2>2
  <1>4. CASE ~(driver_sizeq(x) = 0 \/ driver_sizeq(x) < len \/ driver_sizeq(x) < x.packet)
    <2>1. /\ driver_sizeq(x) # 0 /\ len =< driver_sizeq(x) /\ driver_sizeq(x) >= packet
      BY <1>1, <1>4
    <2>2. PICK n \in PktSizes(x) :
            o = IF n # 0 /\ ~WholePacket(x, n) THEN Nothing(x) ELSE AfterEmit(Emit(x, len, n))
      BY <1>4 DEF emit_read_buffer
    <2>3. CASE packet # 0
      <3>1. PICK k : k = Len(sent[Len(del) + 1])
        OBVIOUS
      <3>2. /\ Len(del) + 1 \in 1..Len(sent) /\ n = k
        BY <2>1, <2>2, <2>3, <3>1, FramedSize
      <3>3. k \in Nat \ {0}
        BY <3>1, <3>2, StartIs
      <3>6. WholePacket(x, n) <=> driver_sizeq(x) >= packet + k
        <4>1. packet \in Packets \ {0} /\ sent[Len(del) + 1] \in Payloads
          BY <2>3, <3>2, ElementOfSeq DEF SentInv
        <4>2. packet + k < Word
          BY <3>1, <4>1 DEF Sound
        <4>3. PICK a, w : a = packet + k /\ w = Word /\ a \in Nat /\ w \in Nat
          BY <1>1, <3>3, BaseAssumption DEF Word
        <4>4. a % w = a
          BY <4>2, <4>3
        <4> QED
          BY <3>2, <4>3, <4>4 DEF WholePacket
      <3>4. CASE ~WholePacket(x, n)
        <4>1. o = Nothing(x)
          BY <2>2, <3>2, <3>3, <3>4
        <4>2. ~(driver_sizeq(x) >= packet + k)
          BY <3>4, <3>6
        <4>3. ~AvailableIn(x, del, len)
          BY <2>3, <3>1, <4>2 DEF AvailableIn
        <4> QED
          BY <1>2, <4>1, <4>3
      <3>5. CASE WholePacket(x, n)
        <4>1. o = AfterEmit(EmitPacket(x, k))
          BY <2>2, <3>2, <3>3, <3>5 DEF Emit
        <4>2. packet + k =< driver_sizeq(x)
          BY <1>1, <3>3, <3>5, <3>6
        <4>3. Emits(x, del, EmitPacket(x, k)) /\ EmitPacket(x, k).x.active = x.active
          BY <2>3, <3>1, <3>2, <3>3, <4>2, EmitPacketIs
        <4> QED
          BY <2>3, <4>1, <4>3, AfterEmitIs
      <3> QED
        BY <3>4, <3>5
    <2>4. CASE packet = 0
      <3>1. n = 0
        BY <2>2, <2>4, PlainSize
      <3>2. PICK e : e = Emit(x, len, n) /\ o = AfterEmit(e)
        BY <2>2, <3>1
      <3>3. /\ x.read_count \in Seq(Nat \ {0}) /\ Len(x.read_count) \in Nat \ {0}
        <4>1. x.read_count \in Seq(Nat \ {0}) /\ Total(x.read_count) # 0
          BY <2>1, <2>4, PlainCounts
        <4> QED
          BY <4>1, TotalNone, EmptySeq
      <3>4. CASE x.active = "false"
        <4>1. e = EmitBytes(x, len)
          BY <3>1, <3>2, <3>4 DEF Emit
        <4>2. Emits(x, del, e) /\ e.x.active = x.active
          BY <2>1, <2>4, <4>1, EmitBytesIs
        <4> QED
          BY <3>2, <3>4, <4>2, AfterEmitIs
      <3>5. CASE x.active = "once"
        <4>1. e = EmitPieces(x, 1)
          BY <3>1, <3>2, <3>5 DEF Emit
        <4>2. e \in Going(x, del)
          <5>1. 1 \in 0..Len(x.read_count)
            BY <3>3
          <5> QED
            BY <2>4, <4>1, <5>1, EmitPiecesIs
        <4>3. Emits(x, del, e) /\ e.x.active = x.active
          BY <4>2 DEF Going
        <4> QED
          BY <3>2, <3>5, <4>3, AfterEmitIs
      <3>6. CASE x.active = "true"
        <4>1. PICK k : k = Len(x.read_count)
          OBVIOUS
        <4>2. e = EmitPieces(x, k) /\ k \in 0..Len(x.read_count)
          BY <3>1, <3>2, <3>3, <3>6, <4>1 DEF Emit
        <4>3. e \in Going(x, del) /\ Len(e.x.read_count) = Len(x.read_count) - k
          BY <2>4, <4>2, EmitPiecesIs
        <4>4. Emits(x, del, e) /\ e.x.active = x.active
          BY <4>3 DEF Going
        <4>5. Handled(e.x, del \o e.msgs)
          BY <4>4 DEF Emits
        <4>6. /\ e.x.read_count \in Seq(Nat \ {0})
              /\ Total(e.x.read_count) = driver_sizeq(e.x)
          BY <2>4, <4>5, PlainCounts
        <4>7. driver_sizeq(e.x) = 0
          <5>1. Len(e.x.read_count) = 0
            BY <3>3, <4>1, <4>3
          <5> QED
            BY <4>6, <5>1, EmptySeq, TotalNone
        <4>8. /\ Emits(x, del, o) /\ o.did = TRUE /\ o.x.active = "true"
              /\ driver_sizeq(o.x) = driver_sizeq(e.x)
          BY <3>2, <3>6, <4>4, AfterEmitIs
        <4> QED
          BY <3>6, <4>7, <4>8
      <3> QED
        BY <1>1, <3>4, <3>5, <3>6
    <2> QED
      BY <2>3, <2>4
  <1> QED
    BY <1>3, <1>4

-----------------------------------------------------------------------------
(***************************************************************************)
(* The steps                                                               *)
(***************************************************************************)

RecvServed == r.waiting => r.active = "false" /\ ~Available(r.recv_len)

\* What a step of the receiver keeps
Kept ==
    /\ BufferInv' /\ NoFault' /\ r.taken <= r'.taken
    /\ \E ms \in Seq(Seq(Byte)) : delivered' = delivered \o ms
    /\ RecvServed /\ ~Shared => RecvServed'
    /\ ActiveServed /\ NoTrue => ActiveServed'

\* do_read adds a vector and a count.
LEMMA DoReadIs ==
    ASSUME SentInv, Handled(r, delivered), NEW n \in Nat \ {0},
           r.recvd + n <= Len(stream), ~InsideLength(r.recvd + n)
    PROVE  /\ Handled(do_read(n), delivered)
           /\ do_read(n).taken = r.taken /\ do_read(n).waiting = r.waiting
           /\ do_read(n).recv_len = r.recv_len /\ do_read(n).active = r.active
           /\ do_read(n).packet = r.packet /\ do_read(n).header = r.header
  <1> DEFINE x == do_read(n)
  <1>1. /\ r \in Handler /\ delivered \in Seq(Seq(Byte)) /\ Queues(r)
        /\ Total(r.read_count) = driver_sizeq(r) + packet * Len(delivered)
        /\ Packs(r, delivered) /\ Chops(r, delivered)
    BY DEF Handled
  <1>2. /\ r.recvd \in Nat /\ r.taken \in Nat /\ r.cuts \in SUBSET Nat
        /\ r.read_count \in Seq(Nat \ {0}) /\ Len(delivered) \in Nat /\ packet \in Nat
        /\ r.taken <= r.recvd /\ r.cuts \subseteq (r.taken + 1)..r.recvd
        /\ Len(stream) \in Nat
    BY <1>1, LenProperties DEF Handler, Queues, SentInv
  <1>3. PICK h \in Nat, cs \in SUBSET Nat, rc \in Seq(Nat \ {0}) :
          h = r.recvd + n /\ cs = r.cuts \cup {h} /\ rc = Append(r.read_count, n)
    <2>1. r.recvd + n \in Nat /\ r.cuts \cup {r.recvd + n} \in SUBSET Nat
      BY <1>2
    <2>2. Append(r.read_count, n) \in Seq(Nat \ {0})
      BY <1>2, AppendProperties
    <2> QED
      BY <2>1, <2>2, Zenon
  <1>4. x = [r EXCEPT !.recvd = h, !.cuts = cs, !.read_count = rc]
    BY <1>1, <1>3 DEF do_read, Handler
  <1> HIDE DEF x
  <1>5. /\ x \in Handler /\ x.recvd = h /\ x.cuts = cs /\ x.read_count = rc
        /\ x.taken = r.taken /\ x.waiting = r.waiting /\ x.recv_len = r.recv_len
        /\ x.active = r.active /\ x.packet = r.packet /\ x.header = r.header
    BY <1>1, <1>4 DEF Handler
  <1>6. Queues(x)
    <2>1. cs \subseteq (r.taken + 1)..h /\ h \in cs
      BY <1>2, <1>3
    <2>2. r.taken <= h /\ h <= Len(stream)
      BY <1>2, <1>3
    <2> QED
      BY <1>5, <2>1, <2>2 DEF Queues
  <1>7. Total(rc) = driver_sizeq(x) + packet * Len(delivered)
    <2>1. Total(rc) = Total(r.read_count) + n
      <3>1. r.read_count \in Seq(Nat)
        BY <1>2, SeqMonotonic
      <3> QED
        BY <1>3, <3>1, TotalAppend
    <2>2. PICK k \in Nat : k = packet * Len(delivered)
      BY <1>2
    <2>3. Total(r.read_count) = r.recvd - r.taken + k
      BY <1>1, <2>2 DEF driver_sizeq
    <2>4. driver_sizeq(x) = r.recvd + n - r.taken
      <3>1. driver_sizeq(x) = h - r.taken
        BY <1>5 DEF driver_sizeq
      <3> QED
        BY <1>2, <1>3, <3>1
    <2>5. r.recvd - r.taken + k + n = r.recvd + n - r.taken + k
      BY <1>2
    <2> QED
      BY <2>1, <2>2, <2>3, <2>4, <2>5
  <1>8. Packs(x, delivered) /\ Chops(x, delivered)
    <2>1. packet # 0 => \A c \in cs : ~InsideLength(c)
      BY <1>1, <1>3 DEF Packs
    <2> QED
      BY <1>1, <1>5, <2>1 DEF Packs, Chops
  <1>9. Handled(x, delivered)
    BY <1>1, <1>5, <1>6, <1>7, <1>8 DEF Handled
  <1> QED
    BY <1>5, <1>9 DEF x

\* An active socket has been sent what there was.
LEMMA ServedIs ==
    ASSUME NoTrue, SentInv, NEW x, Handled(x, delivered), NEW a, x.active = a,
           a \in Actives[packet] \cup {"false"}, NEW o, r' = o.x,
           o.x.active \in {a, "false"},
           ~o.did => o = Nothing(x) /\ ~AvailableIn(x, delivered, 0),
           o.did => /\ o.x.active # "once"
                    /\ o.x.active = "true" /\ packet = 0 => driver_sizeq(o.x) = 0,
           a \in {"false", "once", "true"},
           \A len : Available(len)' <=> AvailableIn(o.x, delivered \o o.msgs, len)
    PROVE  ActiveServed'
  <1>1. CASE ~o.did
    <2>1. o.x = x /\ o.msgs = <<>>
      BY <1>1 DEF Nothing
    <2>2. delivered \o o.msgs = delivered
      BY <2>1, ConcatEmptySeq DEF Handled
    <2>3. ~Available(0)'
      BY <1>1, <2>1, <2>2
    <2> QED
      BY <2>3 DEF ActiveServed
  <1>2. CASE o.did /\ o.x.active = "true"
    <2>1. packet = 0
      BY <1>2 DEF NoTrue, SentInv
    <2>2. ~(driver_sizeq(o.x) > 0)
      BY <1>2, <2>1
    <2>3. ~Available(0)'
      BY <2>2 DEF AvailableIn
    <2> QED
      BY <2>3 DEF ActiveServed
  <1>3. CASE o.did /\ o.x.active = "false"
    BY <1>3 DEF ActiveServed
  <1> QED
    BY <1>1, <1>2, <1>3

\* A step that sends nothing leaves what has been sent.
LEMMA SameSent ==
    ASSUME UNCHANGED <<packet, stream, sent>>, SentInv, Handled(r', delivered')
    PROVE  /\ SentInv' /\ Handled(r, delivered)'
           /\ \A len : Available(len)' <=> AvailableIn(r', delivered', len)
  <1>1. SentInv'
    BY DEF SentInv, Start
  <1>2. Handled(r, delivered)'
    BY DEF Handled, Queues, Packs, Chops, Ends, driver_sizeq, InsideLength, Start
  <1>3. \A len : Available(len)' <=> AvailableIn(r', delivered', len)
    BY DEF Available, AvailableIn, driver_sizeq
  <1> QED
    BY <1>1, <1>2, <1>3

\* A step that sends the messages of an outcome keeps the invariant.
LEMMA EmittedInv ==
    ASSUME SentInv, NEW x, NEW o, Emits(x, delivered, o), r.taken <= x.taken,
           r \in Handler, x \in Handler,
           NEW y \in Handler, y.recvd = o.x.recvd, y.taken = o.x.taken,
           y.cuts = o.x.cuts, y.read_count = o.x.read_count,
           Emitted(o, y), OptionsInv'
    PROVE  /\ BufferInv' /\ NoFault' /\ r.taken <= r'.taken
           /\ \E ms \in Seq(Seq(Byte)) : delivered' = delivered \o ms
           /\ \A len : Available(len)' <=> AvailableIn(y, delivered \o o.msgs, len)
  <1>1. /\ r' = y /\ delivered' = delivered \o o.msgs /\ fault' = o.fault
        /\ UNCHANGED <<packet, stream, sent>>
    BY DEF Emitted
  <1>2. /\ o.fault = "none" /\ Handled(o.x, delivered \o o.msgs) /\ x.taken <= o.x.taken
        /\ o.msgs \in Seq(Seq(Byte)) /\ o.x \in Handler
    BY DEF Emits, Outcome
  <1>3. Handled(y, delivered \o o.msgs)
    BY <1>2, OtherOptions
  <1>4. Handled(r', delivered')
    BY <1>1, <1>3
  <1>5. /\ SentInv' /\ Handled(r, delivered)'
        /\ \A len : Available(len)' <=> AvailableIn(r', delivered', len)
    BY <1>1, <1>4, SameSent
  <1>7. r.taken <= r'.taken
    <2>1. r.taken \in Nat /\ x.taken \in Nat /\ o.x.taken \in Nat
      BY <1>2 DEF Handler
    <2>2. r'.taken = o.x.taken
      BY <1>1
    <2> QED
      BY <1>2, <2>1, <2>2
  <1>8. BufferInv'
    <2>1. BufferInv' <=> SentInv' /\ Handled(r, delivered)' /\ OptionsInv'
      BY InvIs, PTL
    <2> QED
      BY <1>5, <2>1
  <1> QED
    BY <1>1, <1>2, <1>5, <1>7, <1>8 DEF NoFault

\* A handler with the sender's packet option has agreed options.
LEMMA OptionsAgree ==
    ASSUME SentInv, UNCHANGED packet, r'.packet = packet, r'.header \in Headers,
           r'.active \in Actives[packet] \cup {"false"}
    PROVE  OptionsInv'
  BY DEF OptionsInv, SentInv

\* Data that is there but has not been sent is not what a reader waits for.
LEMMA ReadKept ==
    ASSUME Sound, BufferInv, NEW n \in 1..MaxPiece, Read(n)
    PROVE  Kept /\ UNCHANGED <<packet, stream, sent>>
  <1>1. SentInv /\ Handled(r, delivered) /\ OptionsInv
    BY InvIs
  <1>2. PICK x : x = do_read(n)
    OBVIOUS
  <1>3. /\ Handled(x, delivered) /\ x.taken = r.taken /\ x.waiting = r.waiting
        /\ x.recv_len = r.recv_len /\ x.active = r.active /\ x.packet = r.packet
        /\ x.header = r.header
    <2>1. n \in Nat \ {0} /\ r.recvd + n <= Len(stream)
      BY DEF Read
    <2>2. ~InsideLength(r.recvd + n)
      <3>1. CASE packet # 0
        BY <1>1, <3>1, FramedAlike DEF Read
      <3>2. CASE packet = 0
        <4>1. PICK c \in Nat : c = r.recvd + n
          BY <1>1, <2>1 DEF Handled, Handler
        <4>2. ASSUME NEW k \in 1..Len(sent), c > Start(k) PROVE ~(c < Start(k) + packet)
          <5>1. k \in 1..(Len(sent) + 1)
            BY <1>1, LenProperties DEF SentInv
          <5>2. Start(k) \in Nat
            BY <1>1, <5>1, StartIs
          <5> QED
            BY <3>2, <4>1, <4>2, <5>2
        <4> QED
          BY <4>1, <4>2 DEF InsideLength
      <3> QED
        BY <3>1, <3>2
    <2> QED
      BY <1>1, <1>2, <2>1, <2>2, DoReadIs
  <1>4. /\ r \in Handler /\ x \in Handler /\ r.taken <= x.taken
        /\ r.recv_len \in Nat /\ 0 \in Nat /\ r.active \in {"false", "once", "true"}
    BY <1>1, <1>3 DEF Handled, Handler
  <1>5. /\ packet \in Packets /\ r.active \in Actives[packet] \cup {"false"}
        /\ r.header \in Headers
        /\ r.packet # packet => /\ r.packet = 0 /\ r.active = "false" /\ ~r.waiting
                               /\ r.taken = 0 /\ delivered = <<>>
    BY <1>1, FramedAlike DEF OptionsInv
  <1>6. CASE r.active = "false" /\ ~r.waiting /\ Emitted(Nothing(r), x)
    <2>1. Emits(x, delivered, Nothing(x)) /\ Nothing(x).x = x /\ Nothing(x).msgs = <<>>
      BY <1>3, NothingIs DEF Nothing
    <2>2. Emitted(Nothing(x), x)
      BY <1>6 DEF Emitted, Nothing
    <2>3. /\ r' = x /\ UNCHANGED <<packet, stream, sent>>
      BY <2>2 DEF Emitted
    <2>4. delivered' = delivered
      <3>1. delivered' = delivered \o <<>>
        BY <2>1, <2>2 DEF Emitted
      <3> QED
        BY <1>1, <3>1, ConcatEmptySeq DEF Handled
    <2>5. OptionsInv'
      BY <1>3, <1>5, <2>3, <2>4 DEF OptionsInv
    <2>6. /\ BufferInv' /\ NoFault' /\ r.taken <= r'.taken
          /\ \E ms \in Seq(Seq(Byte)) : delivered' = delivered \o ms
      BY <1>1, <1>4, <2>1, <2>2, <2>5, EmittedInv
    <2>7. ~r'.waiting /\ r'.active = "false"
      BY <1>3, <1>6, <2>3
    <2> QED
      BY <2>3, <2>6, <2>7 DEF Kept, RecvServed, ActiveServed
  <1>7. CASE r.active = "false" /\ r.waiting
    <2>1. r.packet = packet
      BY <1>5, <1>7
    <2>2. PICK o \in emit_read_buffer(x, r.recv_len) :
            Emitted(o, IF o.did THEN reset_waiting_recv(o.x) ELSE o.x)
      BY <1>2, <1>7 DEF Read
    <2>3. PICK y : y = IF o.did THEN reset_waiting_recv(o.x) ELSE o.x
      OBVIOUS
    <2>4. /\ Emits(x, delivered, o) /\ o.x.active = "false"
          /\ ~o.did => o = Nothing(x) /\ ~AvailableIn(x, delivered, r.recv_len)
      BY <1>1, <1>3, <1>4, <1>5, <1>7, <2>1, <2>2, EmitIs
    <2>5. /\ o.x \in Handler /\ o.x.waiting = x.waiting /\ o.x.recv_len = x.recv_len
          /\ o.x.packet = x.packet /\ o.x.header = x.header
      BY <2>4 DEF Emits, Outcome
    <2>6. /\ y \in Handler /\ y.recvd = o.x.recvd /\ y.taken = o.x.taken
          /\ y.cuts = o.x.cuts /\ y.read_count = o.x.read_count
          /\ y.active = o.x.active /\ y.packet = o.x.packet /\ y.header = o.x.header
          /\ o.did => ~y.waiting
          /\ ~o.did => y.recv_len = o.x.recv_len
      BY <2>3, <2>5 DEF reset_waiting_recv, Handler
    <2>7. r' = y /\ UNCHANGED <<packet, stream, sent>> /\ Emitted(o, y)
      BY <2>2, <2>3 DEF Emitted
    <2>8. OptionsInv'
      BY <1>1, <1>3, <1>5, <2>1, <2>4, <2>5, <2>6, <2>7, OptionsAgree
    <2>9. /\ BufferInv' /\ NoFault' /\ r.taken <= r'.taken
          /\ \E ms \in Seq(Seq(Byte)) : delivered' = delivered \o ms
          /\ \A len : Available(len)' <=> AvailableIn(y, delivered \o o.msgs, len)
      BY <1>1, <1>4, <2>4, <2>6, <2>7, <2>8, EmittedInv
    <2>10. RecvServed'
      <3>1. CASE o.did
        BY <2>6, <2>7, <3>1 DEF RecvServed
      <3>2. CASE ~o.did
        <4>1. y = x /\ delivered \o o.msgs = delivered
          BY <1>1, <2>3, <2>4, <3>2, ConcatEmptySeq DEF Nothing, Handled
        <4>2. \A len : Available(len)' <=> AvailableIn(x, delivered, len)
          BY <2>9, <4>1
        <4>3. r'.recv_len = r.recv_len /\ r'.active = "false"
          BY <1>3, <1>7, <2>7, <4>1
        <4>4. ~Available(r.recv_len)'
          BY <2>4, <3>2, <4>2, <4>3
        <4> QED
          BY <4>3, <4>4 DEF RecvServed
      <3> QED
        BY <3>1, <3>2
    <2>11. ActiveServed'
      BY <2>4, <2>6, <2>7 DEF ActiveServed
    <2> QED
      BY <2>7, <2>9, <2>10, <2>11 DEF Kept
  <1>8. CASE r.active # "false"
    <2>1. r.packet = packet
      BY <1>5, <1>8
    <2>2. PICK o \in emit_read_buffer(x, 0) : Emitted(o, o.x)
      BY <1>2, <1>8 DEF Read
    <2>3. /\ Emits(x, delivered, o) /\ o.x.active \in {x.active, "false"}
          /\ ~o.did => o = Nothing(x) /\ ~AvailableIn(x, delivered, 0)
          /\ o.did => /\ o.x.active # "once"
                      /\ o.x.active = "true" /\ packet = 0 => driver_sizeq(o.x) = 0
      BY <1>1, <1>3, <1>4, <1>5, <2>1, <2>2, EmitIs
    <2>4. /\ o.x \in Handler /\ o.x.waiting = x.waiting
          /\ o.x.packet = x.packet /\ o.x.header = x.header
      BY <2>3 DEF Emits, Outcome
    <2>5. r' = o.x /\ UNCHANGED <<packet, stream, sent>>
      BY <2>2 DEF Emitted
    <2>6. OptionsInv'
      BY <1>1, <1>3, <1>5, <2>1, <2>3, <2>4, <2>5, OptionsAgree
    <2>7. /\ BufferInv' /\ NoFault' /\ r.taken <= r'.taken
          /\ \E ms \in Seq(Seq(Byte)) : delivered' = delivered \o ms
          /\ \A len : Available(len)' <=> AvailableIn(o.x, delivered \o o.msgs, len)
      BY <1>1, <1>4, <2>2, <2>3, <2>4, <2>6, EmittedInv
    <2>8. RecvServed => RecvServed'
      BY <1>3, <1>8, <2>4, <2>5 DEF RecvServed
    <2>9. NoTrue => ActiveServed'
      <3>1. PICK a : a = x.active
        OBVIOUS
      <3>2. /\ x.active = a /\ a \in Actives[packet] \cup {"false"}
            /\ o.x.active \in {a, "false"} /\ a \in {"false", "once", "true"}
        BY <1>3, <1>4, <1>5, <2>3, <3>1
      <3> QED
        BY <1>1, <1>3, <2>3, <2>5, <2>7, <3>2, ServedIs
    <2> QED
      BY <2>5, <2>7, <2>8, <2>9 DEF Kept
  <1> QED
    BY <1>2, <1>6, <1>7, <1>8 DEF Read

\* What is there depends on the queue only.
LEMMA SameQueue ==
    ASSUME NEW x, NEW y, driver_sizeq(y) = driver_sizeq(x), NEW del, NEW len
    PROVE  AvailableIn(y, del, len) <=> AvailableIn(x, del, len)
  BY DEF AvailableIn

LEMMA RecvKept ==
    ASSUME Sound, BufferInv, NEW len \in RecvLens, Recv(len)
    PROVE  Kept /\ UNCHANGED <<packet, stream, sent>>
  <1>1. SentInv /\ Handled(r, delivered) /\ OptionsInv
    BY InvIs
  <1>2. /\ r \in Handler /\ r.taken <= r.taken /\ len \in Nat
        /\ r.active = "false" /\ ~r.waiting /\ r.packet = packet
        /\ r.header \in Headers
    <2>1. r \in Handler /\ r.taken \in Nat
      BY <1>1 DEF Handled, Handler
    <2> QED
      BY <1>1, <2>1, FramedAlike, OptionsAssumption DEF Recv, OptionsInv
  <1>3. PICK o \in emit_read_buffer(r, len) :
          Emitted(o, IF o.did THEN o.x
                     ELSE [o.x EXCEPT !.waiting = TRUE, !.recv_len = len])
    BY DEF Recv
  <1>4. PICK y : y = IF o.did THEN o.x ELSE [o.x EXCEPT !.waiting = TRUE, !.recv_len = len]
    OBVIOUS
  <1>5. /\ Emits(r, delivered, o) /\ o.x.active = "false"
        /\ ~o.did => o = Nothing(r) /\ ~AvailableIn(r, delivered, len)
    BY <1>1, <1>2, EmitIs
  <1>6. /\ o.x \in Handler /\ o.x.waiting = r.waiting
        /\ o.x.packet = r.packet /\ o.x.header = r.header
    BY <1>5 DEF Emits, Outcome
  <1>7. /\ y \in Handler /\ y.recvd = o.x.recvd /\ y.taken = o.x.taken
        /\ y.cuts = o.x.cuts /\ y.read_count = o.x.read_count
        /\ y.active = o.x.active /\ y.packet = o.x.packet /\ y.header = o.x.header
        /\ o.did => y.waiting = o.x.waiting
        /\ ~o.did => y.recv_len = len
    BY <1>2, <1>4, <1>6 DEF Handler
  <1>8. r' = y /\ UNCHANGED <<packet, stream, sent>> /\ Emitted(o, y)
    BY <1>3, <1>4 DEF Emitted
  <1>9. OptionsInv'
    BY <1>1, <1>2, <1>5, <1>6, <1>7, <1>8, OptionsAgree
  <1>10. /\ BufferInv' /\ NoFault' /\ r.taken <= r'.taken
         /\ \E ms \in Seq(Seq(Byte)) : delivered' = delivered \o ms
         /\ \A n : Available(n)' <=> AvailableIn(y, delivered \o o.msgs, n)
    BY <1>1, <1>2, <1>5, <1>7, <1>8, <1>9, EmittedInv
  <1>11. RecvServed'
    <2>1. CASE o.did
      BY <1>2, <1>6, <1>7, <1>8, <2>1 DEF RecvServed
    <2>2. CASE ~o.did
      <3>1. o.x = r /\ delivered \o o.msgs = delivered
        BY <1>1, <1>5, <2>2, ConcatEmptySeq DEF Nothing, Handled
      <3>2. driver_sizeq(y) = driver_sizeq(r)
        BY <1>7, <3>1 DEF driver_sizeq
      <3>3. ~AvailableIn(y, delivered, len)
        BY <1>5, <2>2, <3>2, SameQueue
      <3>4. r'.recv_len = len /\ r'.active = "false"
        BY <1>5, <1>7, <1>8, <2>2
      <3>5. ~Available(r.recv_len)'
        BY <1>10, <3>1, <3>3, <3>4
      <3> QED
        BY <3>4, <3>5 DEF RecvServed
    <2> QED
      BY <2>1, <2>2
  <1>12. ActiveServed'
    BY <1>5, <1>7, <1>8 DEF ActiveServed
  <1> QED
    BY <1>8, <1>10, <1>11, <1>12 DEF Kept

\* A handler that keeps its data and has the sender's packet option
LEMMA QuietKept ==
    ASSUME Sound, BufferInv, NEW y \in Handler, r' = y, y.recvd = r.recvd,
           y.taken = r.taken, y.cuts = r.cuts, y.read_count = r.read_count,
           y.header = r.header, y.packet = packet,
           y.active \in Actives[packet] \cup {"false"}, Emitted(Nothing(r), y)
    PROVE  /\ BufferInv' /\ NoFault' /\ r.taken <= r'.taken
           /\ \E ms \in Seq(Seq(Byte)) : delivered' = delivered \o ms
           /\ UNCHANGED <<packet, stream, sent>>
           /\ \A len : Available(len)' <=> Available(len)
  <1>1. SentInv /\ Handled(r, delivered) /\ OptionsInv
    BY InvIs
  <1>2. r \in Handler /\ r.taken <= r.taken /\ r.header \in Headers
    <2>1. r \in Handler /\ r.taken \in Nat
      BY <1>1 DEF Handled, Handler
    <2> QED
      BY <1>1, <2>1 DEF OptionsInv
  <1>3. /\ Emits(r, delivered, Nothing(r)) /\ Nothing(r).x = r /\ Nothing(r).msgs = <<>>
    BY <1>1, NothingIs DEF Nothing
  <1>4. UNCHANGED <<packet, stream, sent>>
    BY DEF Emitted
  <1>5. OptionsInv'
    BY <1>1, <1>2, <1>4, OptionsAgree
  <1>6. /\ BufferInv' /\ NoFault' /\ r.taken <= r'.taken
        /\ \E ms \in Seq(Seq(Byte)) : delivered' = delivered \o ms
        /\ \A len : Available(len)' <=> AvailableIn(y, delivered \o <<>>, len)
    BY <1>1, <1>2, <1>3, <1>5, EmittedInv
  <1>7. delivered \o <<>> = delivered /\ driver_sizeq(y) = driver_sizeq(r)
    BY <1>1, ConcatEmptySeq DEF Handled, driver_sizeq
  <1>8. ASSUME NEW len PROVE Available(len)' <=> Available(len)
    <2>1. AvailableIn(y, delivered, len) <=> AvailableIn(r, delivered, len)
      BY <1>7, SameQueue
    <2>2. Available(len) <=> AvailableIn(r, delivered, len)
      BY DEF Available, AvailableIn
    <2> QED
      BY <1>6, <1>7, <2>1, <2>2
  <1> QED
    BY <1>4, <1>6, <1>8

LEMMA CancelKept ==
    ASSUME Sound, BufferInv, CancelRecv
    PROVE  Kept /\ UNCHANGED <<packet, stream, sent>>
  <1>1. SentInv /\ Handled(r, delivered) /\ OptionsInv
    BY InvIs
  <1>2. /\ r \in Handler /\ r.waiting /\ r.packet = packet
        /\ r.active \in Actives[packet] \cup {"false"}
    BY <1>1, FramedAlike DEF CancelRecv, OptionsInv, Handled
  <1>3. PICK y : y = reset_waiting_recv(r)
    OBVIOUS
  <1>4. /\ y \in Handler /\ y.recvd = r.recvd /\ y.taken = r.taken /\ y.cuts = r.cuts
        /\ y.read_count = r.read_count /\ y.header = r.header /\ y.packet = packet
        /\ y.active = r.active /\ ~y.waiting
    BY <1>2, <1>3 DEF reset_waiting_recv, Handler
  <1>5. Emitted(Nothing(r), y) /\ r' = y
    BY <1>3 DEF CancelRecv, Emitted
  <1>6. /\ BufferInv' /\ NoFault' /\ r.taken <= r'.taken
        /\ \E ms \in Seq(Seq(Byte)) : delivered' = delivered \o ms
        /\ UNCHANGED <<packet, stream, sent>>
        /\ \A len : Available(len)' <=> Available(len)
    BY <1>2, <1>4, <1>5, QuietKept
  <1>7. RecvServed'
    BY <1>4, <1>5 DEF RecvServed
  <1>8. ActiveServed => ActiveServed'
    BY <1>4, <1>5, <1>6 DEF ActiveServed
  <1> QED
    BY <1>6, <1>7, <1>8 DEF Kept

LEMMA SetoptsKept ==
    ASSUME Sound, BufferInv, NEW a \in Actives[packet], NEW k \in {0, packet},
           Setopts(a, k)
    PROVE  Kept /\ UNCHANGED <<packet, stream, sent>>
  <1>1. SentInv /\ Handled(r, delivered) /\ OptionsInv
    BY InvIs
  <1>2. /\ r \in Handler /\ r.taken \in Nat /\ r.taken <= r.taken
        /\ r.header \in Headers /\ k = packet /\ (Shared \/ ~r.waiting)
        /\ a \in {"false", "once", "true"}
    <2>1. r \in Handler /\ r.taken \in Nat
      BY <1>1 DEF Handled, Handler
    <2>2. a \in {"false", "once", "true"}
      BY <1>1, OptionsAssumption DEF SentInv
    <2> QED
      BY <1>1, <2>1, <2>2, FramedAlike DEF OptionsInv, Setopts
  <1>3. PICK x : x = [r EXCEPT !.active = a, !.packet = k]
    OBVIOUS
  <1>4. /\ x \in Handler /\ x.recvd = r.recvd /\ x.taken = r.taken /\ x.cuts = r.cuts
        /\ x.read_count = r.read_count /\ x.header = r.header /\ x.packet = packet
        /\ x.active = a /\ x.waiting = r.waiting
    BY <1>1, <1>2, <1>3 DEF Handler, SentInv
  <1>5. PICK o \in IF SetoptsSends(r, a) THEN emit_read_buffer(x, 0) ELSE {Nothing(x)} :
          Emitted(o, o.x)
    BY <1>3 DEF Setopts
  <1>6. CASE SetoptsSends(r, a)
    <2>1. Handled(x, delivered)
      BY <1>1, <1>4, OtherOptions
    <2>2. /\ Emits(x, delivered, o) /\ o.x.active \in {a, "false"}
          /\ ~o.did => o = Nothing(x) /\ ~AvailableIn(x, delivered, 0)
          /\ o.did => /\ o.x.active # "once"
                      /\ o.x.active = "true" /\ packet = 0 => driver_sizeq(o.x) = 0
      <3>1. x.header \in Headers /\ o \in emit_read_buffer(x, 0) /\ 0 \in Nat
        BY <1>2, <1>4, <1>5, <1>6
      <3> QED
        BY <1>1, <1>4, <2>1, <3>1, EmitIs
    <2>3. /\ o.x \in Handler /\ o.x.waiting = x.waiting
          /\ o.x.packet = x.packet /\ o.x.header = x.header
      BY <2>2 DEF Emits, Outcome
    <2>4. r' = o.x /\ UNCHANGED <<packet, stream, sent>>
      BY <1>5 DEF Emitted
    <2>5. OptionsInv'
      BY <1>1, <1>2, <1>4, <2>2, <2>3, <2>4, OptionsAgree
    <2>6. /\ BufferInv' /\ NoFault' /\ r.taken <= r'.taken
          /\ \E ms \in Seq(Seq(Byte)) : delivered' = delivered \o ms
          /\ \A len : Available(len)' <=> AvailableIn(o.x, delivered \o o.msgs, len)
      BY <1>1, <1>2, <1>4, <1>5, <2>2, <2>3, <2>5, EmittedInv
    <2>7. ~Shared => RecvServed'
      BY <1>2, <1>4, <2>3, <2>4 DEF RecvServed
    <2>8. NoTrue => ActiveServed'
      BY <1>1, <1>2, <1>4, <2>1, <2>2, <2>4, <2>6, ServedIs
    <2> QED
      BY <2>4, <2>6, <2>7, <2>8 DEF Kept
  <1>7. CASE ~SetoptsSends(r, a)
    <2>1. Emitted(Nothing(r), x) /\ r' = x
      BY <1>5, <1>7 DEF Emitted, Nothing
    <2>2. /\ BufferInv' /\ NoFault' /\ r.taken <= r'.taken
          /\ \E ms \in Seq(Seq(Byte)) : delivered' = delivered \o ms
          /\ UNCHANGED <<packet, stream, sent>>
          /\ \A len : Available(len)' <=> Available(len)
      BY <1>4, <2>1, QuietKept
    <2>3. ~Shared => RecvServed'
      BY <1>2, <1>4, <2>1 DEF RecvServed
    <2>4. ActiveServed => ActiveServed'
      <3>1. CASE a = "false" \/ r.active # "false"
        BY <1>4, <2>1, <2>2, <3>1 DEF ActiveServed
      <3>2. CASE a = "once" /\ r.active = "false"
        <4>1. r.read_count = <<>>
          BY <1>7, <3>2 DEF SetoptsSends
        <4>2. PICK p \in Nat : p = packet * Len(delivered)
          <5>1. packet \in Nat /\ Len(delivered) \in Nat
            BY <1>1, LenProperties DEF Handled, SentInv
          <5> QED
            BY <5>1
        <4>3. 0 = driver_sizeq(r) + p
          BY <1>1, <4>1, <4>2, TotalNone DEF Handled
        <4>4. driver_sizeq(r) \in Nat
          BY <1>1 DEF Handled, Handler, Queues, driver_sizeq
        <4>5. ~(driver_sizeq(r) > 0)
          BY <4>3, <4>4
        <4>6. ~Available(0)
          BY <4>5 DEF Available
        <4> QED
          BY <2>2, <4>6 DEF ActiveServed
      <3>3. a # "true"
        BY <1>7 DEF SetoptsSends
      <3> QED
        BY <1>2, <3>1, <3>2, <3>3
    <2> QED
      BY <2>2, <2>3, <2>4 DEF Kept
  <1> QED
    BY <1>6, <1>7

-----------------------------------------------------------------------------
(***************************************************************************)
(* The sender's step                                                       *)
(***************************************************************************)

\* What is behind a sequence does not change its parts.
LEMMA PartStays ==
    ASSUME NEW S, NEW s \in Seq(S), NEW t \in Seq(S), NEW i \in Nat, NEW j \in Nat,
           i <= j, j <= Len(s)
    PROVE  SubSeq(s \o t, i + 1, j) = SubSeq(s, i + 1, j)
  <1> DEFINE u == s \o t
             p == SubSeq(s, i + 1, j)
             q == SubSeq(u, i + 1, j)
  <1>1. /\ u \in Seq(S) /\ Len(u) = Len(s) + Len(t) /\ Len(s) \in Nat /\ Len(t) \in Nat
        /\ \A e \in 1..(Len(s) + Len(t)) : u[e] = IF e <= Len(s) THEN s[e] ELSE t[e - Len(s)]
    BY ConcatProperties, LenProperties
  <1> HIDE DEF u
  <1>2. j <= Len(u)
    BY <1>1
  <1>3. IsSlice(S, s, i, j) /\ IsSlice(S, u, i, j)
    BY <1>1, <1>2, SliceIs
  <1>4. /\ p \in Seq(S) /\ Len(p) = j - i /\ \A e \in 1..(j - i) : p[e] = s[i + e]
        /\ q \in Seq(S) /\ Len(q) = j - i /\ \A e \in 1..(j - i) : q[e] = u[i + e]
    BY <1>3 DEF IsSlice
  <1> HIDE DEF p, q
  <1>5. ASSUME NEW e \in 1..Len(p) PROVE p[e] = q[e]
    <2>1. e \in 1..(j - i) /\ i + e \in 1..(Len(s) + Len(t)) /\ i + e <= Len(s)
      BY <1>1, <1>4
    <2> QED
      BY <1>1, <1>4, <2>1
  <1>6. p = q
    BY <1>4, <1>5, SeqEqual
  <1> QED
    BY <1>6 DEF p, q, u

\* What is behind a sequence is its continuation.
LEMMA PartBehind ==
    ASSUME NEW S, NEW s \in Seq(S), NEW t \in Seq(S), NEW n \in Nat, n = Len(s) + Len(t)
    PROVE  SubSeq(s \o t, Len(s) + 1, n) = t
  <1> DEFINE u == s \o t
             q == SubSeq(u, Len(s) + 1, n)
  <1>1. /\ u \in Seq(S) /\ Len(u) = Len(s) + Len(t) /\ Len(s) \in Nat /\ Len(t) \in Nat
        /\ \A e \in 1..(Len(s) + Len(t)) : u[e] = IF e <= Len(s) THEN s[e] ELSE t[e - Len(s)]
    BY ConcatProperties, LenProperties
  <1> HIDE DEF u
  <1>2. n <= Len(u) /\ Len(s) <= n /\ n - Len(s) = Len(t)
    BY <1>1
  <1>3. IsSlice(S, u, Len(s), n)
    BY <1>1, <1>2, SliceIs
  <1>4. q \in Seq(S) /\ Len(q) = Len(t) /\ \A e \in 1..Len(t) : q[e] = u[Len(s) + e]
    BY <1>2, <1>3 DEF IsSlice
  <1> HIDE DEF q
  <1>5. ASSUME NEW e \in 1..Len(q) PROVE q[e] = t[e]
    <2>1. /\ e \in 1..Len(t) /\ Len(s) + e \in 1..(Len(s) + Len(t))
          /\ ~(Len(s) + e <= Len(s)) /\ Len(s) + e - Len(s) = e
      BY <1>1, <1>4
    <2>2. u[Len(s) + e] = t[Len(s) + e - Len(s)]
      BY <1>1, <2>1
    <2> QED
      BY <1>4, <2>1, <2>2
  <1>6. q = t
    BY <1>4, <1>5, SeqEqual
  <1> QED
    BY <1>6 DEF q, u

\* Earlier packets stay where they are, and the new one is behind them.
LEMMA StartSends ==
    ASSUME SentInv, NEW data \in Payloads, Outputv(data), NEW k, k = Len(sent) + 2
    PROVE  /\ \A i \in 1..(Len(sent) + 1) : Start(i)' = Start(i)
           /\ Start(k)' = Start(Len(sent) + 1) + packet + Len(data)
  <1> DEFINE w == [i \in 1..Len(sent) |-> packet + Len(sent[i])]
             v == [i \in 1..Len(sent') |-> packet + Len(sent'[i])]
             a == packet + Len(data)
  <1>1. /\ packet \in Nat /\ Len(sent) \in Nat /\ sent \in Seq(Payloads)
        /\ packet' = packet /\ sent' = Append(sent, data) /\ Len(data) \in Nat
    <2>1. packet \in Nat /\ Len(sent) \in Nat /\ sent \in Seq(Payloads)
      BY LenProperties DEF SentInv
    <2>2. Len(data) \in Nat
      BY PayloadsAssumption, LenProperties
    <2> QED
      BY <2>1, <2>2 DEF Outputv
  <1>2. /\ Len(sent') = Len(sent) + 1 /\ sent'[Len(sent) + 1] = data
        /\ \A i \in 1..Len(sent) : sent'[i] = sent[i]
    BY <1>1, AppendProperties
  <1>3. w \in [1..Len(sent) -> Nat] /\ \A i \in 1..Len(sent) : w[i] = packet + Len(sent[i])
    BY <1>1, StartIs
  <1>4. /\ \A i \in 1..Len(sent) : v[i] = w[i]
        /\ v[Len(sent) + 1] = a
        /\ v = [i \in 1..(Len(sent) + 1) |-> v[i]]
    BY <1>1, <1>2
  <1>5. /\ \A i : Start(i) = Totals(w)[i-1]
        /\ \A i : Start(i)' = Totals(v)[i-1]
    BY <1>1 DEF Start
  <1>6. a \in Nat
    BY <1>1
  <1> HIDE DEF w, v, a
  <1>7. w \in Seq(Nat) /\ Len(w) = Len(sent)
    BY <1>1, <1>3, FunctionIsSeq
  <1>8. v = Append(w, a)
    <2>1. v \in [1..(Len(sent) + 1) -> Nat]
      <3>1. \A i \in 1..(Len(sent) + 1) : v[i] \in Nat
        <4>1. ASSUME NEW i \in 1..(Len(sent) + 1) PROVE v[i] \in Nat
          <5>1. i \in 1..Len(sent) \/ i = Len(sent) + 1
            BY <1>1
          <5> QED
            BY <1>3, <1>4, <1>6, <5>1
        <4> QED
          BY <4>1
      <3> QED
        BY <1>4, <3>1
    <2>2. Len(sent) + 1 \in Nat
      BY <1>1
    <2>3. v \in Seq(Nat) /\ Len(v) = Len(sent) + 1
      BY <2>1, <2>2, FunctionIsSeq
    <2>4. PICK u : u = Append(w, a)
      OBVIOUS
    <2>5. /\ u \in Seq(Nat) /\ Len(u) = Len(sent) + 1
          /\ \A i \in 1..Len(sent) : u[i] = w[i]
          /\ u[Len(sent) + 1] = a
      BY <1>6, <1>7, <2>4, AppendProperties
    <2>6. ASSUME NEW i \in 1..Len(v) PROVE v[i] = u[i]
      <3>1. i \in 1..Len(sent) \/ i = Len(sent) + 1
        BY <1>1, <2>3
      <3> QED
        BY <1>4, <2>5, <3>1
    <2>7. v = u
      BY <2>3, <2>5, <2>6, SeqEqual
    <2> QED
      BY <2>4, <2>7
  <1>9. /\ \A i \in 0..Len(sent) : Totals(v)[i] = Totals(w)[i]
        /\ Total(v) = Total(w) + a
    BY <1>6, <1>7, <1>8, TotalAppend
  <1>10. ASSUME NEW i \in 1..(Len(sent) + 1) PROVE Start(i)' = Start(i)
    <2>1. i - 1 \in 0..Len(sent)
      BY <1>1
    <2>2. Totals(v)[i-1] = Totals(w)[i-1]
      BY <1>9, <2>1
    <2> QED
      BY <1>5, <2>2
  <1>11. Start(k)' = Start(Len(sent) + 1) + packet + Len(data)
    <2>1. k - 1 = Len(sent) + 1 /\ Len(sent) + 1 - 1 = Len(sent)
      BY <1>1
    <2>2. Len(v) = Len(sent) + 1
      BY <1>6, <1>7, <1>8, AppendProperties
    <2>3. Totals(v)[k-1] = Total(w) + a
      BY <1>9, <2>1, <2>2 DEF Total
    <2>4. Start(Len(sent) + 1) = Total(w)
      BY <1>5, <1>7, <2>1 DEF Total
    <2>5. Start(Len(sent) + 1) \in Nat
      BY <1>1, StartIs
    <2>6. Totals(v)[k-1] = Start(Len(sent) + 1) + packet + Len(data)
      <3>1. Total(w) + a = Total(w) + packet + Len(data)
        BY <1>1, <2>4, <2>5 DEF a
      <3> QED
        BY <2>3, <2>4, <3>1
    <2> QED
      BY <1>5, <2>6
  <1> QED
    BY <1>10, <1>11

\* The ends of the messages do not lie behind the last one.
LEMMA EndsGrow ==
    ASSUME NEW del \in Seq(Seq(Byte)), NEW i \in 0..Len(del), NEW j \in 0..Len(del), i =< j
    PROVE  Ends(del)[i] =< Ends(del)[j]
  <1> DEFINE lens == [m \in 1..Len(del) |-> Len(del[m])]
  <1>1. Len(del) \in Nat
    BY LenProperties
  <1>2. lens \in [1..Len(del) -> Nat]
    BY EndsIs
  <1>3. Ends(del) = Totals(lens)
    BY DEF Ends
  <1> HIDE DEF lens
  <1>4. lens \in Seq(Nat) /\ Len(lens) = Len(del)
    BY <1>1, <1>2, FunctionIsSeq
  <1> QED
    BY <1>3, <1>4, TotalsGrow

\* outputv only adds to what has been sent.
LEMMA OutputvKept ==
    ASSUME Sound, BufferInv, NoFault, NEW data \in Payloads, Outputv(data)
    PROVE  /\ Kept
           /\ sent' = Append(sent, data) /\ UNCHANGED <<packet, r, delivered>>
           /\ \E more \in Seq(Byte) : stream' = stream \o more /\ Len(more) # 0
  <1>1. SentInv /\ Handled(r, delivered) /\ OptionsInv
    BY InvIs
  <1>2. PICK n \in Nat, L \in Nat, d \in Nat : n = Len(sent) /\ L = Len(stream) /\ d = Len(data)
    <2>1. Len(sent) \in Nat /\ Len(stream) \in Nat
      BY <1>1, LenProperties DEF SentInv
    <2>2. Len(data) \in Nat
      BY PayloadsAssumption, LenProperties
    <2> QED
      BY <2>1, <2>2, Zenon
  <1>3. /\ packet \in Nat /\ stream \in Seq(Byte) /\ sent \in Seq(Payloads)
        /\ data \in Seq(Byte) /\ d # 0
        /\ packet' = packet /\ sent' = Append(sent, data)
        /\ stream' = stream \o LengthBytes(d, packet) \o data
        /\ r' = r /\ delivered' = delivered /\ fault' = fault
    <2>1. packet \in Nat /\ stream \in Seq(Byte) /\ sent \in Seq(Payloads)
      BY <1>1 DEF SentInv
    <2>2. data \in Seq(Byte) /\ Len(data) # 0
      BY PayloadsAssumption, EmptySeq DEF Byte
    <2> QED
      BY <1>2, <2>1, <2>2 DEF Outputv
  <1>4. PICK lb \in Seq(Byte), more \in Seq(Byte) :
          /\ lb = LengthBytes(d, packet) /\ Len(lb) = packet
          /\ more = lb \o data /\ Len(more) = packet + d
    <2>1. /\ LengthBytes(d, packet) \in Seq(Byte) /\ Len(LengthBytes(d, packet)) = packet
      BY <1>3, LengthBytesIs
    <2>2. PICK lb \in Seq(Byte) : lb = LengthBytes(d, packet) /\ Len(lb) = packet
      BY <2>1
    <2>3. lb \o data \in Seq(Byte) /\ Len(lb \o data) = Len(lb) + Len(data)
      <3>1. data \in Seq(Byte)
        BY <1>3
      <3> QED
        BY ONLY <3>1, <2>2, ConcatProperties
    <2> QED
      BY <1>2, <2>2, <2>3
  <1>5. /\ stream' = stream \o more /\ stream' \in Seq(Byte)
        /\ Len(stream') = L + packet + d
    <2>1. (stream \o lb) \o data = stream \o (lb \o data)
      <3>1. PICK S, s : S = Byte /\ s = stream
        OBVIOUS
      <3>2. s \in Seq(S) /\ lb \in Seq(S) /\ data \in Seq(S)
        BY <1>3, <1>4, <3>1
      <3>3. (s \o lb) \o data = s \o (lb \o data)
        BY ONLY <3>2, ConcatAssociative, SMTT(30)
      <3> QED
        BY <3>1, <3>3
    <2>2. stream' = stream \o more
      BY <1>3, <1>4, <2>1
    <2>3. stream \o more \in Seq(Byte) /\ Len(stream \o more) = Len(stream) + Len(more)
      BY <1>3, <1>4, ConcatProperties
    <2>4. L + (packet + d) = L + packet + d
      BY <1>3
    <2> QED
      BY <1>2, <1>4, <2>2, <2>3, <2>4
  <1>6. /\ sent' \in Seq(Payloads) /\ Len(sent') = n + 1 /\ sent'[n + 1] = data
        /\ \A i \in 1..n : sent'[i] = sent[i]
    BY <1>2, <1>3, AppendProperties
  <1>7. /\ \A k \in 1..(n + 1) : Start(k)' = Start(k) /\ Start(k) \in Nat
        /\ \A k \in 1..n : Start(k + 1) = Start(k) + packet + Len(sent[k])
        /\ \A k : k = n + 2 => Start(k)' = Start(n + 1) + packet + d
    <2>1. \A k \in 1..(n + 1) : Start(k) \in Nat
      BY <1>1, <1>2, StartIs
    <2>2. \A k \in 1..n : Start(k + 1) = Start(k) + packet + Len(sent[k])
      BY <1>1, <1>2, StartIs
    <2>3. PICK k : k = Len(sent) + 2
      OBVIOUS
    <2>4. /\ \A i \in 1..(Len(sent) + 1) : Start(i)' = Start(i)
          /\ Start(k)' = Start(Len(sent) + 1) + packet + Len(data)
      BY <1>1, <2>3, StartSends
    <2> QED
      BY <1>2, <2>1, <2>2, <2>3, <2>4
  <1>8. \A i \in Nat, j \in Nat : i <= j /\ j <= L =>
          SubSeq(stream', i + 1, j) = SubSeq(stream, i + 1, j)
    BY <1>2, <1>3, <1>4, <1>5, PartStays
  <1>9. packet # 0 => /\ L = Start(n + 1)
                      /\ \A k \in 1..n : SubSeq(stream, Start(k) + 1, Start(k+1)) =
                                            LengthBytes(Len(sent[k]), packet) \o sent[k]
    BY <1>1, <1>2 DEF SentInv
  <1>10. ASSUME packet # 0, NEW k \in 1..(n + 1), NEW b, b = k + 1
         PROVE  SubSeq(stream', Start(k)' + 1, Start(b)') =
                  LengthBytes(Len(sent'[k]), packet) \o sent'[k]
    <2>1. CASE k = n + 1
      <3>1. Start(k)' = L /\ Start(b)' = L + packet + d
        <4>1. b = n + 2
          BY <1>10, <2>1
        <4> QED
          BY <1>7, <1>9, <1>10, <2>1, <4>1
      <3>2. PICK e \in Nat : e = Len(stream) + Len(more) /\ e = L + packet + d
        BY <1>2, <1>3, <1>4
      <3>3. SubSeq(stream \o more, Len(stream) + 1, e) = more
        BY <1>3, <3>2, PartBehind
      <3> QED
        BY <1>2, <1>4, <1>5, <1>6, <2>1, <3>1, <3>2, <3>3
    <2>2. CASE k # n + 1
      <3>1. k \in 1..n /\ b \in 1..(n + 1) /\ n + 1 \in 1..(n + 1) /\ b =< n + 1
        BY <1>10, <2>2
      <3>2. /\ Start(k)' = Start(k) /\ Start(b)' = Start(b) /\ Start(b) = Start(k + 1)
            /\ Start(k) \in Nat /\ Start(b) \in Nat /\ sent'[k] = sent[k]
        BY <1>6, <1>7, <1>10, <3>1
      <3>3. Start(k) <= Start(b) /\ Start(b) <= L
        <4>1. k \in 1..(Len(sent) + 1) /\ b \in 1..(Len(sent) + 1) /\ k =< b
              /\ Len(sent) + 1 \in 1..(Len(sent) + 1) /\ b =< Len(sent) + 1
          BY <1>2, <1>10, <3>1
        <4>2. Start(k) =< Start(b) /\ Start(b) =< Start(Len(sent) + 1)
          BY <1>1, <4>1, StartGrows
        <4> QED
          BY <1>2, <1>9, <1>10, <4>2
      <3>4. SubSeq(stream', Start(k) + 1, Start(b)) = SubSeq(stream, Start(k) + 1, Start(b))
        BY <1>8, <3>2, <3>3
      <3> QED
        BY <1>9, <1>10, <3>1, <3>2, <3>4
    <2> QED
      BY <2>1, <2>2
  <1>11. SentInv'
    <2>1. packet \in {0, 1, 2, 4} /\ packet \in Packets
      BY <1>1 DEF SentInv
    <2>2. ASSUME packet # 0, NEW k, k = n + 2 PROVE Len(stream') = Start(k)'
      BY <1>5, <1>7, <1>9, <2>2
    <2>4. n + 1 + 1 = n + 2
      OBVIOUS
    <2> QED
      BY <1>3, <1>5, <1>6, <1>10, <2>1, <2>2, <2>4 DEF SentInv
  <1>12. /\ r \in Handler /\ delivered \in Seq(Seq(Byte)) /\ Queues(r)
         /\ Total(r.read_count) = driver_sizeq(r) + packet * Len(delivered)
         /\ Packs(r, delivered) /\ Chops(r, delivered) /\ Len(delivered) \in Nat
         /\ r.taken \in Nat /\ r.recvd \in Nat /\ r.taken <= r.recvd /\ r.recvd <= L
         /\ r.cuts \subseteq (r.taken + 1)..r.recvd
    BY <1>1, <1>2, LenProperties DEF Handled, Handler, Queues
  <1>13. Queues(r)'
    <2>1. r.recvd <= Len(stream')
      <3>1. L \in Nat /\ packet \in Nat /\ d \in Nat /\ r.recvd \in Nat /\ r.recvd <= L
        BY <1>3, <1>12
      <3>2. r.recvd <= L + packet + d
        BY ONLY <3>1
      <3> QED
        BY ONLY <3>2, <1>5
    <2>2. r.recvd > r.taken => r.recvd \in r.cuts
      BY <1>12 DEF Queues
    <2>3. /\ r'.taken = r.taken /\ r'.recvd = r.recvd /\ r'.cuts = r.cuts
      BY <1>3
    <2> QED
      BY <1>12, <2>1, <2>2, <2>3 DEF Queues
  <1>14. Packs(r, delivered)'
    <2>1. SUFFICES ASSUME packet # 0 PROVE Packs(r, delivered)'
      BY <1>3 DEF Packs
    <2>2. PICK m \in Nat : m = Len(delivered)
      BY <1>12
    <2>3. /\ delivered = SubSeq(sent, 1, m) /\ m <= n /\ r.taken = Start(m + 1)
          /\ \A c \in r.cuts : ~InsideLength(c)
      BY <1>2, <1>12, <2>1, <2>2 DEF Packs
    <2>4. delivered = SubSeq(sent', 1, m)
      <3>1. <<data>> \in Seq(Payloads) /\ sent' = sent \o <<data>>
        BY <1>3, AppendIsConcat
      <3>2. 0 \in Nat /\ 0 <= m /\ m <= Len(sent)
        BY <1>2, <2>3
      <3>3. SubSeq(sent \o <<data>>, 0 + 1, m) = SubSeq(sent, 0 + 1, m)
        BY <1>3, <2>2, <3>1, <3>2, PartStays
      <3>4. 0 + 1 = 1
        OBVIOUS
      <3> QED
        BY <2>3, <3>1, <3>3, <3>4
    <2>5. m <= Len(sent')
      BY <1>6, <2>3
    <2>6. ASSUME NEW k, k = m + 1 PROVE r.taken = Start(k)'
      <3>1. k \in 1..(n + 1)
        BY <2>3, <2>6
      <3> QED
        BY <1>7, <2>3, <2>6, <3>1
    <2>7. ASSUME NEW c \in r.cuts, NEW k \in 1..(n + 1), c > Start(k)'
          PROVE  ~(c < Start(k)' + packet)
      <3>1. c \in Nat /\ c <= L /\ Start(k)' = Start(k)
        <4>1. c \in (r.taken + 1)..r.recvd
          BY <1>12
        <4>2. c \in Nat /\ c <= r.recvd
          BY <1>12, <4>1
        <4> QED
          BY <1>7, <1>12, <4>2
      <3>2. CASE k = n + 1
        <4>1. Start(k) = L
          BY <1>9, <2>1, <3>2
        <4> QED
          BY <2>7, <3>1, <4>1
      <3>3. CASE k # n + 1
        <4>1. k \in 1..Len(sent)
          BY <1>2, <3>3
        <4> QED
          BY <2>3, <2>7, <3>1, <4>1 DEF InsideLength
      <3> QED
        BY <3>2, <3>3
    <2>8. \A c \in r.cuts : ~InsideLength(c)'
      BY <1>3, <1>6, <2>7 DEF InsideLength
    <2> QED
      BY <1>3, <2>2, <2>4, <2>5, <2>6, <2>8 DEF Packs
  <1>15. Chops(r, delivered)'
    <2>1. SUFFICES ASSUME packet = 0 PROVE Chops(r, delivered)'
      BY <1>3 DEF Chops
    <2>2. PICK E : E = Ends(delivered)
      OBVIOUS
    <2>3. /\ E \in [0..Len(delivered) -> Nat] /\ r.taken = E[Len(delivered)]
          /\ \A i \in 1..Len(delivered) : delivered[i] = SubSeq(stream, E[i-1] + 1, E[i])
      BY <1>12, <2>1, <2>2, EndsIs DEF Chops
    <2>4. ASSUME NEW i \in 1..Len(delivered)
          PROVE  delivered[i] = SubSeq(stream', E[i-1] + 1, E[i])
      <3>1. /\ i - 1 \in 0..Len(delivered) /\ i \in 0..Len(delivered)
            /\ Len(delivered) \in 0..Len(delivered) /\ i - 1 =< i /\ i =< Len(delivered)
        BY <1>12
      <3>2. E[i-1] =< E[i] /\ E[i] =< E[Len(delivered)]
        BY <1>12, <2>2, <3>1, EndsGrow
      <3>3. E[i-1] \in Nat /\ E[i] \in Nat /\ E[i] <= L
        <4>1. E[i-1] \in Nat /\ E[i] \in Nat
          BY <2>3, <3>1
        <4>2. E[i] =< r.taken /\ r.taken \in Nat /\ r.recvd \in Nat
          BY <1>12, <2>3, <3>2
        <4>3. r.taken <= r.recvd /\ r.recvd <= L /\ L \in Nat
          BY <1>12
        <4> QED
          BY ONLY <4>1, <4>2, <4>3
      <3>4. SubSeq(stream', E[i-1] + 1, E[i]) = SubSeq(stream, E[i-1] + 1, E[i])
        BY <1>8, <3>2, <3>3
      <3> QED
        BY <2>3, <3>4
    <2>5. Ends(delivered)' = E
      BY <1>3, <2>2 DEF Ends
    <2> QED
      BY <1>3, <2>3, <2>4, <2>5 DEF Chops
  <1>16. Handled(r, delivered)'
    BY <1>3, <1>12, <1>13, <1>14, <1>15 DEF Handled, driver_sizeq
  <1>17. OptionsInv'
    BY <1>1, <1>3 DEF OptionsInv
  <1>18. BufferInv'
    <2>1. BufferInv' <=> SentInv' /\ Handled(r, delivered)' /\ OptionsInv'
      BY InvIs, PTL
    <2> QED
      BY <1>11, <1>16, <1>17, <2>1
  <1>19. NoFault' /\ r.taken <= r'.taken
    BY <1>3, <1>12 DEF NoFault
  <1>20. \E ms \in Seq(Seq(Byte)) : delivered' = delivered \o ms
    <2>1. <<>> \in Seq(Seq(Byte)) /\ delivered \o <<>> = delivered
      BY <1>12, EmptySeq, ConcatEmptySeq
    <2> QED
      BY <1>3, <2>1
  <1>21. ASSUME NEW len, Available(len)' PROVE Available(len)
    <2>1. driver_sizeq(r) > 0 /\ driver_sizeq(r) >= len
      BY <1>3, <1>21 DEF Available, driver_sizeq
    <2>2. CASE packet = 0
      BY <2>1, <2>2 DEF Available
    <2>3. CASE packet # 0
      <3>1. PICK k : k = Len(delivered) + 1
        OBVIOUS
      <3>2. k <= n + 1 /\ driver_sizeq(r) >= packet + Len(sent'[k])
        BY <1>3, <1>6, <1>21, <2>3, <3>1 DEF Available, driver_sizeq
      <3>3. k # n + 1
        <4>1. r.taken = Start(k)
          BY <1>12, <2>3, <3>1 DEF Packs
        <4>2. k = n + 1 => r.taken = L
          BY <1>9, <2>3, <4>1
        <4> QED
          BY <1>12, <2>1, <4>2 DEF driver_sizeq
      <3>4. k \in 1..n
        BY <1>12, <3>1, <3>2, <3>3
      <3>5. sent'[k] = sent[k]
        BY <1>6, <3>4
      <3> QED
        BY <1>2, <2>1, <3>1, <3>2, <3>4, <3>5 DEF Available
    <2> QED
      BY <2>2, <2>3
  <1>22. RecvServed => RecvServed'
    <2>1. PICK len : len = r.recv_len
      OBVIOUS
    <2>2. ~Available(len) => ~Available(len)'
      BY <1>21
    <2> QED
      BY <1>3, <2>1, <2>2 DEF RecvServed
  <1>23. ActiveServed => ActiveServed'
    BY <1>3, <1>21 DEF ActiveServed
  <1>24. more # <<>> /\ Len(more) # 0
    BY <1>2, <1>3, <1>4, EmptySeq
  <1> QED
    BY <1>3, <1>5, <1>18, <1>19, <1>20, <1>22, <1>23, <1>24 DEF Kept

-----------------------------------------------------------------------------
(***************************************************************************)
(* The theorems                                                            *)
(***************************************************************************)

\* Before anything is sent the counts, the vectors and the messages are empty.
LEMMA InitInv == Init => BufferInv /\ NoFault /\ RecvServed /\ ActiveServed
  <1> SUFFICES ASSUME Init PROVE BufferInv /\ NoFault /\ RecvServed /\ ActiveServed
    OBVIOUS
  <1>1. /\ packet \in Packets /\ packet \in {0, 1, 2, 4} /\ packet \in Nat
        /\ stream = <<>> /\ sent = <<>> /\ delivered = <<>> /\ fault = "none"
    BY OptionsAssumption DEF Init
  <1>2. PICK k \in {0, packet}, a \in Actives[packet], hd \in Headers :
          /\ (Agree /\ k # packet) => a = "false"
          /\ r = [recvd |-> 0, taken |-> 0, cuts |-> {}, read_count |-> <<>>,
                  waiting |-> FALSE, recv_len |-> 0, active |-> a, packet |-> k,
                  header |-> hd]
    BY DEF Init
  <1>3. k \in {0, 1, 2, 4} /\ a \in {"false", "once", "true"} /\ hd \in Nat
    BY <1>1, OptionsAssumption
  <1>4. /\ r.recvd = 0 /\ r.taken = 0 /\ r.cuts = {} /\ r.read_count = <<>>
        /\ r.waiting = FALSE /\ r.recv_len = 0 /\ r.active = a /\ r.packet = k
        /\ r.header = hd
    BY <1>2
  <1>5. /\ <<>> \in Seq(Byte) /\ <<>> \in Seq(Payloads) /\ <<>> \in Seq(Seq(Byte))
        /\ <<>> \in Seq(Nat \ {0}) /\ Len(<<>>) = 0
    OBVIOUS
  <1>6. r \in Handler
    BY <1>2, <1>3, <1>5 DEF Handler
  <1>7. Start(1) = 0
    <2> DEFINE w == [i \in 1..Len(sent) |-> packet + Len(sent[i])]
    <2>1. Len(sent) = 0
      BY <1>1, <1>5
    <2>2. w \in [1..0 -> Nat] /\ Start(1) = Totals(w)[0]
      BY <2>1 DEF Start
    <2> HIDE DEF w
    <2>3. w \in Seq(Nat)
      BY <2>2, FunctionIsSeq
    <2> QED
      BY <2>2, <2>3, TotalsIs
  <1>8. SentInv
    <2>1. Len(stream) = 0 /\ Len(sent) = 0
      BY <1>1, <1>5
    <2>2. Len(sent) + 1 = 1 /\ 1..Len(sent) = {}
      BY <2>1
    <2> QED
      BY <1>1, <1>5, <1>7, <2>1, <2>2 DEF SentInv
  <1>9. Handled(r, delivered)
    <2>1. Len(delivered) = 0 /\ Len(stream) = 0 /\ Len(sent) = 0 /\ driver_sizeq(r) = 0
      BY <1>1, <1>4, <1>5 DEF driver_sizeq
    <2>2. Queues(r)
      BY <1>4, <2>1 DEF Queues
    <2>3. Total(r.read_count) = driver_sizeq(r) + packet * Len(delivered)
      BY <1>1, <1>4, <2>1, TotalNone
    <2>4. Packs(r, delivered)
      <3>1. SubSeq(sent, 1, 0) = <<>>
        BY <1>1, <1>5
      <3>2. Len(delivered) + 1 = 1
        BY <2>1
      <3> QED
        BY <1>1, <1>4, <1>7, <2>1, <3>1, <3>2 DEF Packs
    <2>5. Chops(r, delivered)
      <3>1. Ends(delivered)[0] = 0
        BY <1>1, <1>5, EndsIs
      <3>2. 1..Len(delivered) = {}
        BY <2>1
      <3> QED
        BY <1>4, <2>1, <3>1, <3>2 DEF Chops
    <2> QED
      BY <1>1, <1>5, <1>6, <2>2, <2>3, <2>4, <2>5 DEF Handled
  <1>10. OptionsInv
    BY <1>1, <1>2, <1>4 DEF OptionsInv
  <1>11. ~Available(0)
    BY <1>4 DEF Available, driver_sizeq
  <1> QED
    BY <1>1, <1>4, <1>8, <1>9, <1>10, <1>11, InvIs DEF NoFault, RecvServed, ActiveServed

\* Every step keeps the invariant, and the messages only grow.
LEMMA NextKept ==
    ASSUME Sound, BufferInv, NoFault, Next
    PROVE  Kept
  <1>1. ASSUME NEW data \in Payloads, Outputv(data) PROVE Kept
    BY <1>1, OutputvKept
  <1>2. ASSUME NEW n \in 1..MaxPiece, Read(n) PROVE Kept
    <2>1. n \in Nat \ {0}
      OBVIOUS
    <2> QED
      BY <1>2, <2>1, ReadKept
  <1>3. ASSUME NEW len \in RecvLens, Recv(len) PROVE Kept
    BY <1>3, RecvKept
  <1>4. ASSUME CancelRecv PROVE Kept
    BY <1>4, CancelKept
  <1>5. ASSUME NEW a \in Actives[packet], NEW k \in {0, packet}, Setopts(a, k) PROVE Kept
    BY <1>5, SetoptsKept
  <1> QED
    BY <1>1, <1>2, <1>3, <1>4, <1>5 DEF Next


\* The invariant: read_count adds up to what is queued (do_read,
\* reduce_read_count, emit_read_buffer), and what has been taken off the driver
\* queue is what was delivered, for any data in any pieces and any calls.
THEOREM BufferCorrect == ASSUME Sound PROVE Spec => [](BufferInv /\ NoFault)
  <1>1. Init => BufferInv /\ NoFault
    BY InitInv
  <1>2. BufferInv /\ NoFault /\ [Next]_vars => (BufferInv /\ NoFault)'
    <2> SUFFICES ASSUME BufferInv, NoFault, [Next]_vars PROVE (BufferInv /\ NoFault)'
      OBVIOUS
    <2>1. CASE Next
      BY <2>1, NextKept DEF Kept
    <2>2. CASE UNCHANGED vars
      <3>1. SentInv /\ Handled(r, delivered) /\ OptionsInv
        BY InvIs
      <3>2. /\ UNCHANGED <<packet, stream, sent>> /\ r' = r /\ delivered' = delivered
            /\ fault' = fault
        BY <2>2 DEF vars
      <3>3. SentInv' /\ Handled(r, delivered)'
        BY <3>1, <3>2, SameSent
      <3>4. OptionsInv' /\ NoFault'
        BY <3>1, <3>2 DEF OptionsInv, NoFault
      <3>5. BufferInv' <=> SentInv' /\ Handled(r, delivered)' /\ OptionsInv'
        BY InvIs, PTL
      <3> QED
        BY <3>3, <3>4, <3>5
    <2> QED
      BY <2>1, <2>2
  <1> QED
    BY <1>1, <1>2, PTL DEF Spec

\* emit_read_buffer and reduce_read_count meet no undefined behaviour: no front
\* of an empty read_count, no message longer than its data or shorter than its
\* header.
THEOREM FaultFree == ASSUME Sound PROVE Spec => []NoFault
  BY BufferCorrect, PTL

\* recv, the read callback and setopts leave nobody waiting in recv for data
\* that is there, if nobody else calls setopts meanwhile.
THEOREM ReceiversServed ==
    ASSUME Sound, ~Shared
    PROVE  Spec => []ReceiverServed
  <1>1. Init => RecvServed
    BY InitInv
  <1>2. BufferInv /\ NoFault /\ RecvServed /\ [Next]_vars => RecvServed'
    <2> SUFFICES ASSUME BufferInv, NoFault, RecvServed, [Next]_vars PROVE RecvServed'
      OBVIOUS
    <2>1. CASE Next
      BY <2>1, NextKept DEF Kept
    <2>2. CASE UNCHANGED vars
      BY <2>2 DEF vars, RecvServed, Available, driver_sizeq
    <2> QED
      BY <2>1, <2>2
  <1>3. RecvServed => ReceiverServed
    BY DEF RecvServed, ReceiverServed
  <1> QED
    BY <1>1, <1>2, <1>3, BufferCorrect, PTL DEF Spec

\* The read callback and setopts leave nothing in the queue of an active socket
\* that could be delivered, unless it is {active, true} with framing.
THEOREM ActivesServed ==
    ASSUME Sound, NoTrue
    PROVE  Spec => []ActiveServed
  <1>1. Init => ActiveServed
    BY InitInv
  <1>2. BufferInv /\ NoFault /\ ActiveServed /\ [Next]_vars => ActiveServed'
    <2> SUFFICES ASSUME BufferInv, NoFault, ActiveServed, [Next]_vars PROVE ActiveServed'
      OBVIOUS
    <2>1. CASE Next
      BY <2>1, NextKept DEF Kept
    <2>2. CASE UNCHANGED vars
      BY <2>2 DEF vars, ActiveServed, Available, driver_sizeq
    <2> QED
      BY <2>1, <2>2
  <1> QED
    BY <1>1, <1>2, BufferCorrect, PTL DEF Spec

-----------------------------------------------------------------------------
(***************************************************************************)
(* The reading end implements MessageStream                                *)
(***************************************************************************)

\* What is delivered without framing, end to end, is what has been taken.
LEMMA BytesDelivered ==
    BufferInv /\ packet = 0 => FlattenSeq(delivered) = SubSeq(stream, 1, r.taken)
  <1> SUFFICES ASSUME BufferInv, packet = 0
               PROVE  FlattenSeq(delivered) = SubSeq(stream, 1, r.taken)
    OBVIOUS
  <1>1. SentInv /\ Handled(r, delivered)
    BY InvIs
  <1>2. PICK n \in Nat, del \in Seq(Seq(Byte)) : del = delivered /\ n = Len(del)
    <2>1. delivered \in Seq(Seq(Byte)) /\ Len(delivered) \in Nat
      BY <1>1, LenProperties DEF Handled
    <2> QED
      BY <2>1, Zenon
  <1>3. PICK E : E = Ends(del)
    OBVIOUS
  <1>4. /\ E \in [0..n -> Nat] /\ E[0] = 0
        /\ \A i \in 1..n : E[i] = E[i-1] + Len(del[i])
    BY <1>2, <1>3, EndsIs
  <1>5. /\ r.taken = E[n]
        /\ \A i \in 1..n : del[i] = SubSeq(stream, E[i-1] + 1, E[i])
    BY <1>1, <1>2, <1>3 DEF Handled, Chops
  <1>6. stream \in Seq(Byte) /\ Len(stream) \in Nat /\ E[n] <= Len(stream)
    <2>1. r.taken \in Nat /\ r.recvd \in Nat /\ r.taken <= r.recvd /\ r.recvd <= Len(stream)
      BY <1>1 DEF Handled, Handler, Queues
    <2>2. stream \in Seq(Byte) /\ Len(stream) \in Nat
      BY <1>1, LenProperties DEF SentInv
    <2> QED
      BY <1>5, <2>1, <2>2
  <1>7. ASSUME NEW i \in 1..n PROVE E[i-1] \in 0..E[i] /\ E[i] \in Nat /\ E[i] <= Len(stream)
    <2>1. i - 1 \in 0..n /\ i \in 0..n /\ n \in 0..n /\ i - 1 =< i /\ i =< n
      OBVIOUS
    <2>2. E[i-1] =< E[i] /\ E[i] =< E[n]
      BY <1>2, <1>3, <2>1, EndsGrow
    <2>3. E[i-1] \in Nat /\ E[i] \in Nat /\ E[n] \in Nat
      BY <1>4, <2>1
    <2> QED
      BY <1>6, <2>2, <2>3
  <1>8. CASE n = 0
    <2>1. del = <<>> /\ FlattenSeq(del) = del
      BY <1>2, <1>8, EmptySeq DEF FlattenSeq
    <2>2. SubSeq(stream, 1, 0) = <<>>
      BY <1>6
    <2> QED
      BY <1>2, <1>4, <1>5, <1>8, <2>1, <2>2
  <1>9. CASE n # 0
    <2> DEFINE Flattens(f) == f = [i \in 1..n |-> IF i = 1 THEN del[i] ELSE f[i-1] \o del[i]]
               g == [i \in 1..n |-> SubSeq(stream, 1, E[i])]
               flat == CHOOSE f : Flattens(f)
    <2>1. FlattenSeq(del) = flat[n]
      BY <1>2, <1>9 DEF FlattenSeq
    <2>2. g[1] = del[1]
      <3>1. 1 \in 1..n /\ 1 - 1 = 0 /\ 0 + 1 = 1
        BY <1>9
      <3>2. del[1] = SubSeq(stream, E[0] + 1, E[1])
        BY <1>5, <3>1
      <3> QED
        BY <1>4, <3>1, <3>2
    <2>3. ASSUME NEW i \in 1..n, i # 1 PROVE g[i] = g[i-1] \o del[i]
      <3>1. i - 1 \in 1..n
        BY <2>3
      <3>2. /\ 1 \in 1..(Len(stream) + 1) /\ E[i-1] \in (1 - 1)..Len(stream)
            /\ E[i] \in E[i-1]..Len(stream)
        BY <1>6, <1>7
      <3>3. SubSeq(stream, 1, E[i-1]) \o SubSeq(stream, E[i-1] + 1, E[i]) = SubSeq(stream, 1, E[i])
        BY <1>6, <3>2, ConcatAdjacentSubSeq
      <3>4. del[i] = SubSeq(stream, E[i-1] + 1, E[i])
        BY <1>5
      <3>5. g[i] = SubSeq(stream, 1, E[i]) /\ g[i-1] = SubSeq(stream, 1, E[i-1])
        BY <3>1
      <3> QED
        BY <3>3, <3>4, <3>5
    <2>4. g = [i \in 1..n |-> g[i]]
      OBVIOUS
    <2>5. g[n] = SubSeq(stream, 1, E[n])
      <3>1. n \in 1..n
        BY <1>9
      <3> QED
        BY <3>1
    <2> HIDE DEF g
    <2>6. Flattens(g)
      <3>1. \A i \in 1..n : g[i] = IF i = 1 THEN del[i] ELSE g[i-1] \o del[i]
        BY <2>2, <2>3
      <3> QED
        BY <2>4, <3>1
    <2>7. Flattens(flat)
      BY <2>6
    <2> HIDE DEF flat
    <2>8. flat[1] = g[1] /\ \A i \in 1..n : i # 1 => flat[i] = flat[i-1] \o del[i]
      <3>1. \A i \in 1..n : flat[i] = IF i = 1 THEN del[i] ELSE flat[i-1] \o del[i]
        BY <2>7
      <3>2. 1 \in 1..n
        BY <1>9
      <3>3. flat[1] = del[1]
        BY <3>1, <3>2, Zenon
      <3> QED
        BY <2>2, <3>1, <3>3, Zenon
    <2> DEFINE a == [i \in 0..(n-1) |-> flat[i+1]]
               b == [i \in 0..(n-1) |-> g[i+1]]
    <2>9. a[0] = b[0]
      <3>1. 0 \in 0..(n-1) /\ 0 + 1 = 1
        BY <1>9
      <3> QED
        BY <2>8, <3>1
    <2>10. ASSUME NEW i \in 1..(n-1), a[i-1] = b[i-1] PROVE a[i] = b[i]
      <3>1. /\ i + 1 \in 1..n /\ i + 1 # 1 /\ i + 1 - 1 = i
            /\ i \in 0..(n-1) /\ i - 1 \in 0..(n-1) /\ i - 1 + 1 = i
        BY <1>9
      <3>2. flat[i+1] = flat[i] \o del[i+1] /\ g[i+1] = g[i] \o del[i+1]
        <4>1. PICK m : m = i + 1
          OBVIOUS
        <4>2. m \in 1..n /\ m # 1 /\ m - 1 = i
          BY <3>1, <4>1
        <4>3. flat[m] = flat[m-1] \o del[m] /\ g[m] = g[m-1] \o del[m]
          BY <2>3, <2>8, <4>2, Zenon
        <4> QED
          BY <4>1, <4>2, <4>3
      <3>3. /\ a[i] = flat[i+1] /\ b[i] = g[i+1]
            /\ a[i-1] = flat[i] /\ b[i-1] = g[i]
        BY <3>1
      <3> QED
        BY <2>10, <3>2, <3>3
    <2>11. a[n-1] = flat[n] /\ b[n-1] = g[n] /\ n - 1 \in Nat /\ n - 1 \in 0..(n-1)
      BY <1>9
    <2> HIDE DEF a, b
    <2>12. Alike(n - 1, a, b)
      BY <2>9, <2>10, <2>11, RecursionAlike
    <2>13. flat[n] = g[n]
      BY <2>11, <2>12 DEF Alike
    <2> QED
      BY <1>2, <1>5, <2>1, <2>5, <2>13
  <1> QED
    BY <1>8, <1>9

\* The whole of a sequence, and the beginning of a longer one
LEMMA Whole ==
    ASSUME NEW S, NEW s \in Seq(S)
    PROVE  /\ SubSeq(s, 1, Len(s)) = s
           /\ \A t \in Seq(S) : SubSeq(s \o t, 1, Len(s)) = s
  <1>1. Len(s) \in Nat /\ 0 + 1 = 1
    BY LenProperties
  <1>2. SubSeq(s, 1, Len(s)) = s
    OBVIOUS
  <1>3. ASSUME NEW t \in Seq(S) PROVE SubSeq(s \o t, 1, Len(s)) = s
    <2>1. PICK n \in Nat : n = Len(s)
      BY <1>1
    <2>2. 0 \in Nat /\ 0 <= n /\ n <= Len(s)
      BY <2>1
    <2>3. SubSeq(s \o t, 0 + 1, n) = SubSeq(s, 0 + 1, n)
      BY <2>1, <2>2, PartStays
    <2> QED
      BY <1>1, <1>2, <2>1, <2>3
  <1> QED
    BY <1>2, <1>3

\* Whatever outputv takes at one end, emit_read_buffer hands over at the other:
\* in order, each byte once, and with framing as the packets that were sent.
THEOREM ReadingIsStream == ASSUME Sound PROVE Spec => ImplementsStream
  <1> DEFINE S == IF packet = 0 THEN stream ELSE sent
             G == IF packet = 0 THEN FlattenSeq(delivered) ELSE delivered
  <1>1. Init => Stream!StreamInit
    <2> SUFFICES ASSUME Init PROVE S = <<>> /\ G = <<>>
      BY DEF Stream!StreamInit
    <2>1. FlattenSeq(<<>>) = <<>>
      BY DEF FlattenSeq
    <2> QED
      BY <2>1 DEF Init
  <1>2. BufferInv /\ NoFault /\ BufferInv' /\ [Next]_vars =>
          [Stream!StreamNext]_(Stream!streamVars)
    <2> SUFFICES ASSUME BufferInv, NoFault, BufferInv', [Next]_vars
                 PROVE  \/ Len(S') > Len(S) /\ SubSeq(S', 1, Len(S)) = S /\ G' = G
                        \/ /\ Len(G') \in Len(G) + 1 .. Len(S)
                           /\ G' = SubSeq(S, 1, Len(G')) /\ S' = S
                        \/ S' = S /\ G' = G
      BY DEF Stream!StreamNext, Stream!Send, Stream!Deliver, Stream!streamVars
    <2>1. SentInv /\ Handled(r, delivered)
      BY InvIs
    <2>2. SentInv' /\ Handled(r, delivered)'
      <3>1. BufferInv' <=> SentInv' /\ Handled(r, delivered)' /\ OptionsInv'
        BY InvIs, PTL
      <3> QED
        BY <3>1
    <2>3. ASSUME NEW data \in Payloads, Outputv(data)
          PROVE  Len(S') > Len(S) /\ SubSeq(S', 1, Len(S)) = S /\ G' = G
      <3>1. /\ sent' = Append(sent, data) /\ packet' = packet /\ delivered' = delivered
            /\ \E more \in Seq(Byte) : stream' = stream \o more /\ Len(more) # 0
        BY <2>3, OutputvKept
      <3>2. CASE packet = 0
        <4>1. PICK more \in Seq(Byte) : stream' = stream \o more /\ Len(more) # 0
          BY <3>1
        <4>2. stream \in Seq(Byte)
          BY <2>1 DEF SentInv
        <4>3. /\ Len(stream') = Len(stream) + Len(more)
              /\ Len(stream) \in Nat /\ Len(more) \in Nat
          BY <4>1, <4>2, ConcatProperties, LenProperties
        <4>4. Len(stream') > Len(stream)
          BY <4>1, <4>3
        <4>5. SubSeq(stream', 1, Len(stream)) = stream
          BY <4>1, <4>2, Whole
        <4> QED
          BY <3>1, <3>2, <4>4, <4>5
      <3>3. CASE packet # 0
        <4>1. sent \in Seq(Payloads) /\ <<data>> \in Seq(Payloads)
          BY <2>1 DEF SentInv
        <4>2. sent' = sent \o <<data>>
          BY <3>1, <4>1, AppendIsConcat
        <4>3. Len(sent') = Len(sent) + 1 /\ Len(sent) \in Nat
          BY <3>1, <4>1, AppendProperties, LenProperties
        <4>4. Len(sent') > Len(sent)
          BY <4>3
        <4>5. SubSeq(sent', 1, Len(sent)) = sent
          BY <4>1, <4>2, Whole
        <4> QED
          BY <3>1, <3>3, <4>4, <4>5
      <3> QED
        BY <3>2, <3>3
    <2>4. ASSUME Kept, UNCHANGED <<packet, stream, sent>>
          PROVE  \/ /\ Len(G') \in Len(G) + 1 .. Len(S)
                    /\ G' = SubSeq(S, 1, Len(G')) /\ S' = S
                 \/ S' = S /\ G' = G
      <3>1. S' = S
        BY <2>4
      <3>2. CASE packet = 0
        <4>1. G = SubSeq(stream, 1, r.taken)
          BY <3>2, BytesDelivered
        <4>2. G' = SubSeq(stream, 1, r'.taken)
          <5>1. (BufferInv /\ packet = 0 => FlattenSeq(delivered) = SubSeq(stream, 1, r.taken))'
            BY BytesDelivered, PTL
          <5> QED
            BY <2>4, <3>2, <5>1
        <4>3. PICK L \in Nat, t \in Nat, u \in Nat :
                /\ L = Len(stream) /\ t = r.taken /\ u = r'.taken /\ t <= u /\ u <= L
          <5>1. r.taken \in Nat
            BY <2>1 DEF Handled, Handler
          <5>2. /\ r'.taken \in Nat /\ r'.recvd \in Nat /\ r'.taken <= r'.recvd
                /\ r'.recvd <= Len(stream')
            BY <2>2 DEF Handled, Handler, Queues
          <5>3. stream' = stream /\ Len(stream) \in Nat /\ r.taken <= r'.taken
            BY <2>1, <2>4, LenProperties DEF SentInv, Kept
          <5>4. r'.taken <= Len(stream)
            BY <5>2, <5>3
          <5> QED
            BY <5>1, <5>2, <5>3, <5>4, Zenon
        <4>4. Len(G) = t /\ Len(G') = u
          <5>1. stream \in Seq(Byte)
            BY <2>1 DEF SentInv
          <5>2. Len(SubSeq(stream, 1, t)) = t /\ Len(SubSeq(stream, 1, u)) = u
            BY <4>3, <5>1
          <5> QED
            BY <4>1, <4>2, <4>3, <5>2
        <4>5. CASE t = u
          BY <3>1, <4>1, <4>2, <4>3, <4>5
        <4>6. CASE t # u
          <5>1. u \in t + 1 .. L
            BY <4>3, <4>6
          <5>2. Len(S) = L /\ G' = SubSeq(S, 1, Len(G'))
            BY <3>2, <4>2, <4>3, <4>4
          <5> QED
            BY <3>1, <4>4, <5>1, <5>2
        <4> QED
          BY <4>5, <4>6
      <3>3. CASE packet # 0
        <4>1. PICK ms \in Seq(Seq(Byte)) : delivered' = delivered \o ms
          BY <2>4 DEF Kept
        <4>2. delivered' = SubSeq(sent, 1, Len(delivered')) /\ Len(delivered') <= Len(sent)
          <5>1. Packs(r, delivered)'
            BY <2>2 DEF Handled
          <5> QED
            BY <2>4, <3>3, <5>1 DEF Packs
        <4>3. delivered \in Seq(Seq(Byte)) /\ Len(sent) \in Nat
          BY <2>1, LenProperties DEF Handled, SentInv
        <4>4. /\ Len(delivered') = Len(delivered) + Len(ms)
              /\ Len(delivered) \in Nat /\ Len(ms) \in Nat
          BY <4>1, <4>3, ConcatProperties, LenProperties
        <4>5. CASE Len(ms) = 0
          <5>1. ms = <<>>
            BY <4>5, EmptySeq
          <5>2. delivered' = delivered
            BY <4>1, <4>3, <5>1, ConcatEmptySeq
          <5> QED
            BY <2>4, <3>1, <3>3, <5>2
        <4>6. CASE Len(ms) # 0
          <5>1. Len(delivered') \in Len(delivered) + 1 .. Len(sent)
            BY <4>2, <4>3, <4>4, <4>6
          <5> QED
            BY <2>4, <3>1, <3>3, <4>2, <5>1
        <4> QED
          BY <4>5, <4>6
      <3> QED
        BY <3>2, <3>3
    <2>5. ASSUME NEW n \in 1..MaxPiece, Read(n) PROVE Kept /\ UNCHANGED <<packet, stream, sent>>
      BY <2>5, ReadKept
    <2>6. ASSUME NEW len \in RecvLens, Recv(len) PROVE Kept /\ UNCHANGED <<packet, stream, sent>>
      BY <2>6, RecvKept
    <2>7. ASSUME CancelRecv PROVE Kept /\ UNCHANGED <<packet, stream, sent>>
      BY <2>7, CancelKept
    <2>8. ASSUME NEW a \in Actives[packet], NEW k \in {0, packet}, Setopts(a, k)
          PROVE  Kept /\ UNCHANGED <<packet, stream, sent>>
      BY <2>8, SetoptsKept
    <2>9. ASSUME UNCHANGED vars PROVE S' = S /\ G' = G
      BY <2>9 DEF vars
    <2> HIDE DEF S, G
    <2> QED
      BY <2>3, <2>4, <2>5, <2>6, <2>7, <2>8, <2>9 DEF Next
  <1> QED
    BY <1>1, <1>2, BufferCorrect, PTL DEF Spec, ImplementsStream, Stream!StreamSpec
=============================================================================
