--------------------------- MODULE ListenerProofs ---------------------------
(***************************************************************************)
(* The acceptor queues for any processes, listeners, datagrams and bounds. *)
(* ListenerInv, MonitorsInv with OneAnswer, is inductive on one scheduler  *)
(* or several.  The other properties need conditions the code does not     *)
(* see to: they are assumptions of their theorems.                         *)
(***************************************************************************)
EXTENDS Listener, NumberLemmas, SequenceTheorems, FiniteSetTheorems, TLAPS

-----------------------------------------------------------------------------
(***************************************************************************)
(* Queues as sequences: what is in them after each operation               *)
(***************************************************************************)

In(s, e) == \E i \in 1..Len(s) : s[i] = e
Distinct(s) == \A i, j \in 1..Len(s) : s[i] = s[j] => i = j

\* push_back
LEMMA AppendIn ==
    ASSUME NEW S, NEW s \in Seq(S), NEW x \in S
    PROVE  /\ \A e : In(Append(s, x), e) <=> In(s, e) \/ e = x
           /\ Distinct(s) /\ ~In(s, x) => Distinct(Append(s, x))
  <1>1. /\ Len(Append(s, x)) = Len(s) + 1 /\ Append(s, x)[Len(s) + 1] = x
        /\ \A i \in 1..Len(s) : Append(s, x)[i] = s[i]
        /\ Len(s) \in Nat
    BY AppendProperties, LenProperties
  <1>2. \A i \in 1..(Len(s) + 1) : i \in 1..Len(s) \/ i = Len(s) + 1
    BY <1>1
  <1>3. ASSUME NEW e PROVE In(Append(s, x), e) <=> In(s, e) \/ e = x
    <2>1. ASSUME In(Append(s, x), e) PROVE In(s, e) \/ e = x
      BY <1>1, <1>2, <2>1 DEF In
    <2>2. ASSUME In(s, e) PROVE In(Append(s, x), e)
      <3>1. PICK i \in 1..Len(s) : s[i] = e
        BY <2>2 DEF In
      <3>2. i \in 1..Len(Append(s, x)) /\ Append(s, x)[i] = e
        BY <1>1, <3>1
      <3> QED
        BY <3>2 DEF In
    <2>3. In(Append(s, x), x)
      <3>1. Len(s) + 1 \in 1..Len(Append(s, x))
        BY <1>1
      <3> QED
        BY <1>1, <3>1 DEF In
    <2> QED
      BY <2>1, <2>2, <2>3
  <1>4. ASSUME Distinct(s), ~In(s, x) PROVE Distinct(Append(s, x))
    BY <1>1, <1>2, <1>4 DEF Distinct, In
  <1> QED
    BY <1>3, <1>4

\* pop_front
LEMMA TailIn ==
    ASSUME NEW S, NEW s \in Seq(S), s # <<>>, Distinct(s)
    PROVE  /\ Tail(s) \in Seq(S) /\ Distinct(Tail(s)) /\ In(s, Head(s)) /\ Head(s) \in S
           /\ \A e : In(Tail(s), e) <=> In(s, e) /\ e # Head(s)
  <1>1. /\ Tail(s) \in Seq(S) /\ Len(Tail(s)) = Len(s) - 1 /\ Len(s) \in Nat \ {0}
        /\ \A i \in 1..Len(Tail(s)) : Tail(s)[i] = s[i + 1]
        /\ Head(s) = s[1] /\ Head(s) \in S
    BY HeadTailProperties, EmptySeq
  <1>2. Distinct(Tail(s))
    BY <1>1 DEF Distinct
  <1>3. In(s, Head(s))
    BY <1>1 DEF In
  <1>4. ASSUME NEW e PROVE In(Tail(s), e) <=> In(s, e) /\ e # Head(s)
    <2>1. ASSUME In(Tail(s), e) PROVE In(s, e) /\ e # Head(s)
      <3>1. PICK i \in 1..Len(Tail(s)) : Tail(s)[i] = e
        BY <2>1 DEF In
      <3>2. i + 1 \in 1..Len(s) /\ s[i + 1] = e /\ i + 1 # 1 /\ 1 \in 1..Len(s)
        BY <1>1, <3>1
      <3> QED
        BY <1>1, <3>2 DEF In, Distinct
    <2>2. ASSUME In(s, e), e # Head(s) PROVE In(Tail(s), e)
      <3>1. PICK i \in 1..Len(s) : s[i] = e
        BY <2>2 DEF In
      <3>2. i # 1 /\ i - 1 \in 1..Len(Tail(s)) /\ Tail(s)[i - 1] = s[i]
        BY <1>1, <2>2, <3>1
      <3> QED
        BY <3>1, <3>2 DEF In
    <2> QED
      BY <2>1, <2>2
  <1> QED
    BY <1>1, <1>2, <1>3, <1>4

\* cancel_accept erases a request that is there.
LEMMA ErasedIn ==
    ASSUME NEW S, NEW s \in Seq(S), NEW r, In(s, r), Distinct(s)
    PROVE  /\ Erased(s, r) \in Seq(S) /\ Distinct(Erased(s, r))
           /\ \A e : In(Erased(s, r), e) <=> In(s, e) /\ e # r
  <1> DEFINE I == {i \in 1..Len(s) : s[i] = r}
  <1>1. PICK m : m = Min(I)
    OBVIOUS
  <1>2. m \in 1..Len(s) /\ s[m] = r
    <2>1. I \subseteq Nat /\ I # {}
      BY DEF In
    <2>2. Min(I) \in I
      BY <2>1, MinInSet
    <2> QED
      BY <1>1, <2>2
  <1>3. Erased(s, r) = RemoveAt(s, m)
    BY <1>1 DEF Erased, RemoveFirst, SelectInSeq, In
  <1> DEFINE a == SubSeq(s, 1, m - 1)
             b == SubSeq(s, m + 1, Len(s))
             t == Erased(s, r)
  <1>4. t = a \o b
    BY <1>3 DEF RemoveAt
  <1>5. Len(s) \in Nat /\ \A i \in 1..Len(s) : s[i] \in S
    BY LenProperties, ElementOfSeq
  <1>6. /\ a \in Seq(S) /\ Len(a) = m - 1 /\ \A i \in 1..(m - 1) : a[i] = s[i]
        /\ b \in Seq(S) /\ Len(b) = Len(s) - m
        /\ \A i \in 1..(Len(s) - m) : b[i] = s[m + i]
    <2>1. \A i \in 1..(m - 1) : s[i] \in S
      BY <1>2, <1>5
    <2>2. \A i \in (m + 1)..Len(s) : s[i] \in S
      BY <1>2, <1>5
    <2>3. a \in Seq(S) /\ Len(a) = m - 1 /\ \A i \in 1..(m - 1) : a[i] = s[i]
      BY <1>2, <1>5, <2>1, SubSeqProperties
    <2>4. /\ b \in Seq(S) /\ Len(b) = Len(s) - m
          /\ \A i \in 1..(Len(s) - m) : b[i] = s[m + i]
      BY <1>2, <1>5, <2>2, SubSeqProperties
    <2> QED
      BY <2>3, <2>4
  <1> HIDE DEF a, b, t
  <1>7. /\ t \in Seq(S) /\ Len(t) = Len(s) - 1
        /\ \A i \in 1..(Len(s) - 1) : t[i] = IF i < m THEN s[i] ELSE s[i + 1]
    <2>1. /\ a \o b \in Seq(S) /\ Len(a \o b) = Len(a) + Len(b)
          /\ \A i \in 1..(Len(a) + Len(b)) :
               (a \o b)[i] = IF i <= Len(a) THEN a[i] ELSE b[i - Len(a)]
      BY <1>6, ConcatProperties
    <2>2. Len(a) + Len(b) = Len(s) - 1
      BY <1>2, <1>5, <1>6
    <2>3. ASSUME NEW i \in 1..(Len(s) - 1)
          PROVE  t[i] = IF i < m THEN s[i] ELSE s[i + 1]
      <3>1. CASE i < m
        BY <1>2, <1>4, <1>5, <1>6, <2>1, <2>2, <3>1
      <3>2. CASE ~(i < m)
        <4>1. i - (m - 1) \in 1..(Len(s) - m) /\ m + (i - (m - 1)) = i + 1
          BY <1>2, <1>5, <3>2
        <4>2. t[i] = b[i - (m - 1)]
          BY <1>2, <1>4, <1>5, <1>6, <2>1, <2>2, <3>2
        <4> QED
          BY <1>6, <3>2, <4>1, <4>2
      <3> QED
        BY <3>1, <3>2
    <2> QED
      BY <1>4, <2>1, <2>2, <2>3
  <1>8. Distinct(t)
    BY <1>2, <1>5, <1>7 DEF Distinct
  <1>9. ASSUME NEW e PROVE In(t, e) <=> In(s, e) /\ e # r
    <2>1. ASSUME In(t, e) PROVE In(s, e) /\ e # r
      <3>1. PICK i \in 1..(Len(s) - 1) : t[i] = e
        BY <1>7, <2>1 DEF In
      <3>2. PICK j \in 1..Len(s) : s[j] = e /\ j # m
        BY <1>2, <1>5, <1>7, <3>1
      <3> QED
        BY <1>2, <3>2 DEF In, Distinct
    <2>2. ASSUME In(s, e), e # r PROVE In(t, e)
      <3>1. PICK j \in 1..Len(s) : s[j] = e
        BY <2>2 DEF In
      <3>2. CASE j < m
        <4>1. j \in 1..Len(t) /\ t[j] = e
          BY <1>2, <1>5, <1>7, <3>1, <3>2
        <4> QED
          BY <4>1 DEF In
      <3>3. CASE ~(j < m)
        <4>1. j # m
          BY <1>2, <2>2, <3>1
        <4>2. j - 1 \in 1..Len(t) /\ t[j - 1] = e
          BY <1>2, <1>5, <1>7, <3>1, <3>3, <4>1
        <4> QED
          BY <4>2 DEF In
      <3> QED
        BY <3>2, <3>3
    <2> QED
      BY <2>1, <2>2
  <1> QED
    BY <1>7, <1>8, <1>9 DEF t

\* Without is computed by a loop over the queue: w[i] is what it has after i
\* requests.
Left(w, q, p, n) ==
    w = [i \in 0..n |-> IF i = 0 THEN <<>>
                        ELSE IF q[i][1] = p THEN w[i-1] ELSE Append(w[i-1], q[i])]

\* The loop's function exists, for every number of requests.
LEMMA LeftExists ==
    ASSUME NEW q, NEW p, NEW n \in Nat
    PROVE  \E w : Left(w, q, p, n)
  <1> DEFINE Bad == {m \in Nat : ~\E w : Left(w, q, p, m)}
  <1> SUFFICES ASSUME Bad # {} PROVE FALSE
    OBVIOUS
  <1>1. PICK m \in Bad : \A k \in Bad : m =< k
    BY LeastNumber
  <1>2. CASE m = 0
    <2> DEFINE w == [i \in 0..0 |-> <<>>]
    <2>1. Left(w, q, p, 0)
      BY DEF Left
    <2> QED
      BY <1>1, <1>2, <2>1
  <1>3. CASE m # 0
    <2>1. m - 1 \in Nat /\ m - 1 \notin Bad
      BY <1>1, <1>3
    <2>2. PICK w : Left(w, q, p, m - 1)
      BY <2>1
    <2> DEFINE v == [i \in 0..m |->
                       IF i < m THEN w[i]
                       ELSE IF q[m][1] = p THEN w[m-1] ELSE Append(w[m-1], q[m])]
    <2>3. w = [i \in 0..(m-1) |->
                 IF i = 0 THEN <<>>
                 ELSE IF q[i][1] = p THEN w[i-1] ELSE Append(w[i-1], q[i])]
      BY <2>2 DEF Left
    <2>4. ASSUME NEW i \in 0..m
          PROVE  v[i] = IF i = 0 THEN <<>>
                        ELSE IF q[i][1] = p THEN v[i-1] ELSE Append(v[i-1], q[i])
      <3>1. CASE i = m
        BY <1>3, <3>1
      <3>2. CASE i # m
        <4>1. i \in 0..(m-1) /\ v[i] = w[i] /\ (i # 0 => v[i-1] = w[i-1])
          BY <3>2
        <4>2. w[i] = IF i = 0 THEN <<>>
                     ELSE IF q[i][1] = p THEN w[i-1] ELSE Append(w[i-1], q[i])
          BY <2>3, <4>1
        <4> QED
          BY <4>1, <4>2
      <3> QED
        BY <3>1, <3>2
    <2>5. Left(v, q, p, m)
      BY <2>4 DEF Left
    <2> QED
      BY <1>1, <2>5
  <1> QED
    BY <1>2, <1>3

\* What the loop has after n requests: the requests among the first n that are
\* not of p, once each.
LeftCorrect(t, S, q, p, n) ==
    /\ t \in Seq(S) /\ Distinct(t)
    /\ \A e : In(t, e) <=> \E i \in 1..n : q[i] = e /\ e[1] # p

\* One more turn of the loop.
LEMMA LeftStep ==
    ASSUME NEW S, NEW q \in Seq(S), NEW p, Distinct(q),
           NEW m \in 1..Len(q), NEW t, LeftCorrect(t, S, q, p, m - 1)
    PROVE  LeftCorrect(IF q[m][1] = p THEN t ELSE Append(t, q[m]), S, q, p, m)
  <1>1. Len(q) \in Nat /\ q[m] \in S
    BY LenProperties, ElementOfSeq
  <1>2. t \in Seq(S) /\ Distinct(t)
    BY DEF LeftCorrect
  <1>3. \A e : In(t, e) <=> \E i \in 1..(m - 1) : q[i] = e /\ e[1] # p
    BY DEF LeftCorrect
  <1>4. \A i : i \in 1..m <=> i \in 1..(m - 1) \/ i = m
    BY <1>1
  <1>5. CASE q[m][1] = p
    <2>1. \A e : In(t, e) <=> \E i \in 1..m : q[i] = e /\ e[1] # p
      BY <1>3, <1>4, <1>5
    <2> QED
      BY <1>2, <1>5, <2>1 DEF LeftCorrect
  <1>6. CASE q[m][1] # p
    <2>1. ~In(t, q[m])
      <3> SUFFICES ASSUME In(t, q[m]) PROVE FALSE
        OBVIOUS
      <3>1. PICK i \in 1..(m - 1) : q[i] = q[m]
        BY <1>3
      <3> QED
        BY <1>1, <3>1 DEF Distinct
    <2>2. /\ \A e : In(Append(t, q[m]), e) <=> In(t, e) \/ e = q[m]
          /\ Distinct(Append(t, q[m])) /\ Append(t, q[m]) \in Seq(S)
      BY <1>1, <1>2, <2>1, AppendIn, AppendProperties
    <2>3. \A e : In(Append(t, q[m]), e) <=> \E i \in 1..m : q[i] = e /\ e[1] # p
      BY <1>3, <1>4, <1>6, <2>2
    <2> QED
      BY <1>6, <2>2, <2>3 DEF LeftCorrect
  <1> QED
    BY <1>5, <1>6

\* process_exited drops the requests of the process and no other.
LEMMA WithoutIn ==
    ASSUME NEW S, NEW q \in Seq(S), NEW p, Distinct(q)
    PROVE  /\ Without(q, p) \in Seq(S) /\ Distinct(Without(q, p))
           /\ \A e : In(Without(q, p), e) <=> In(q, e) /\ e[1] # p
  <1>1. PICK w : Left(w, q, p, Len(q)) /\ Without(q, p) = w[Len(q)]
    <2> DEFINE w == CHOOSE w : Left(w, q, p, Len(q))
    <2>1. Len(q) \in Nat
      BY LenProperties
    <2>2. Left(w, q, p, Len(q))
      BY <2>1, LeftExists
    <2>3. Without(q, p) = w[Len(q)]
      BY DEF Without, Left
    <2> QED
      BY <2>2, <2>3
  <1>2. Len(q) \in Nat
    BY LenProperties
  <1>3. ASSUME NEW i \in 0..Len(q)
        PROVE  w[i] = IF i = 0 THEN <<>>
                      ELSE IF q[i][1] = p THEN w[i-1] ELSE Append(w[i-1], q[i])
    BY <1>1 DEF Left
  <1> DEFINE Bad == {m \in 0..Len(q) : ~LeftCorrect(w[m], S, q, p, m)}
  <1>4. Bad = {}
    <2> SUFFICES ASSUME Bad # {} PROVE FALSE
      OBVIOUS
    <2> Bad \subseteq Nat
      BY <1>2
    <2>1. PICK m \in Bad : \A k \in Bad : m =< k
      BY LeastNumber
    <2>2. CASE m = 0
      <3>1. w[0] = <<>>
        BY <1>2, <1>3
      <3>2. LeftCorrect(<<>>, S, q, p, 0)
        BY DEF LeftCorrect, In, Distinct
      <3> QED
        BY <2>1, <2>2, <3>1, <3>2
    <2>3. CASE m # 0
      <3>1. m \in 1..Len(q) /\ m - 1 \in 0..Len(q) /\ m - 1 \notin Bad
        BY <1>2, <2>1, <2>3
      <3>2. LeftCorrect(w[m - 1], S, q, p, m - 1)
        BY <3>1
      <3>3. LeftCorrect(IF q[m][1] = p THEN w[m-1] ELSE Append(w[m-1], q[m]), S, q, p, m)
        BY <3>1, <3>2, LeftStep
      <3>4. LeftCorrect(w[m], S, q, p, m)
        BY <1>3, <2>3, <3>3
      <3> QED
        BY <2>1, <3>4
    <2> QED
      BY <2>2, <2>3
  <1>5. LeftCorrect(w[Len(q)], S, q, p, Len(q))
    BY <1>2, <1>4
  <1> QED
    BY <1>1, <1>5 DEF LeftCorrect, In

-----------------------------------------------------------------------------
(***************************************************************************)
(* Requests: the inductive invariant                                       *)
(***************************************************************************)

ListenerInv == MonitorsInv /\ OneAnswer

\* A request is a pair, and no request is NoRef.
LEMMA RefsArePairs ==
    /\ NoRef \notin Refs
    /\ \A r \in Refs : r[1] \in Procs /\ r[2] \in 1..MaxCalls /\ r = <<r[1], r[2]>>
    /\ \A p \in Procs, n \in 1..MaxCalls :
         <<p, n>> \in Refs /\ <<p, n>>[1] = p /\ <<p, n>>[2] = n
  BY DEF Refs, NoRef

\* Queued is In, in this state and in the next.
LEMMA QueuedIsIn ==
    /\ \A l \in Lsns : \A r : Queued(l, r) <=> In(queue[l], r)
    /\ (\A l \in Lsns : \A r : Queued(l, r) <=> In(queue[l], r))'
  BY DEF Queued, In

\* The parts of OneAnswer, with queues as In and Distinct see them.
LEMMA OneAnswerParts ==
    OneAnswer <=> /\ \A l \in Lsns : Distinct(queue[l])
                  /\ \A l \in Lsns, r \in Refs : Queued(l, r) => Unanswered(r)
                  /\ \A r \in gaveup, v \in Ok : <<r, v>> \notin mail[r[1]]
  BY DEF OneAnswer, Distinct

\* Requests only leave the queues, messages only leave the mailboxes, no
\* request is made, and what is given up is nowhere any more: nothing can go
\* wrong.
LEMMA RequestsShrink ==
    ASSUME TypeOK, RequestsInv, OneAnswer, UNCHANGED <<calls, at>>,
           \A l \in Lsns, r \in Refs : In(queue'[l], r) => In(queue[l], r),
           \A l \in Lsns : Distinct(queue'[l]),
           \A p \in Procs : mail'[p] \subseteq mail[p],
           \A l \in Lsns : pt'[l] = pt[l],
           \A r \in gaveup' \ gaveup :
             /\ r \in Refs /\ Made(r) /\ \A v \in Ok : <<r, v>> \notin mail'[r[1]]
             /\ \A l \in Lsns : ~In(queue'[l], r) /\ pt[l] # r
    PROVE  RequestsInv' /\ OneAnswer'
  <1>1. \A l \in Lsns, r \in Refs : Queued(l, r)' => Queued(l, r)
    BY QueuedIsIn
  <1>2. gaveup' \subseteq Refs /\ \A r \in Refs : r[1] \in Procs
    BY RefsArePairs DEF TypeOK
  <1>3. \A r \in Refs : Unanswered(r) => Unanswered(r)' \/ r \in gaveup' \ gaveup
    BY <1>2 DEF Unanswered
  <1>4. \A l \in Lsns : pt[l] \in Refs \cup {NoRef}
    BY DEF TypeOK
  <1>5. \A r \in Refs : (Made(r)' <=> Made(r)) /\ Ref(r[1])' = Ref(r[1])
    BY DEF Made, Ref
  <1>6. ASSUME NEW l \in Lsns, NEW r \in Refs, Queued(l, r)'
        PROVE  /\ Made(r)' /\ (r = Ref(r[1])' => at'[r[1]] = l)
               /\ \A k \in Lsns : Queued(k, r)' => k = l
               /\ pt'[l] # r
    BY <1>1, <1>5, <1>6 DEF RequestsInv
  <1>7. \A l \in Lsns : pt'[l] # NoRef => Unanswered(pt[l])'
    <2> SUFFICES ASSUME NEW l \in Lsns, pt'[l] # NoRef PROVE Unanswered(pt[l])'
      OBVIOUS
    <2>1. PICK r \in Refs : r = pt[l]
      BY <1>4
    <2>2. Unanswered(r)'
      BY <1>3, <2>1 DEF RequestsInv
    <2> QED
      BY <2>1, <2>2 DEF Unanswered
  <1>8. \A r \in Refs : ~Made(r)' => Unanswered(r)'
    BY <1>3, <1>5 DEF RequestsInv
  <1>9. \A p \in Procs : \A e \in mail'[p] : e[1][1] = p
    BY DEF RequestsInv
  <1>10. RequestsInv'
    BY <1>6, <1>7, <1>8, <1>9 DEF RequestsInv
  <1>11. \A l \in Lsns, r \in Refs : Queued(l, r)' => Unanswered(r)'
    BY <1>1, <1>3, QueuedIsIn DEF OneAnswer
  <1>12. \A r \in gaveup', v \in Ok : <<r, v>> \notin mail'[r[1]]
    BY <1>2 DEF OneAnswer
  <1>13. OneAnswer'
    BY <1>11, <1>12 DEF OneAnswer, Distinct
  <1> QED
    BY <1>10, <1>13

\* The idle main thread has the type of mt.
LEMMA MainIdleType ==
    /\ MainIdle.pc = "idle"
    /\ MainIdle \in [pc : {"idle", "input", "exited"}, on : Lsns, proc : Procs,
                     pkt : Packets \cup {"none"}]
  <1>1. (CHOOSE l \in Lsns : TRUE) \in Lsns /\ (CHOOSE p \in Procs : TRUE) \in Procs
    BY ListenersAssumption
  <1> QED
    BY <1>1 DEF MainIdle

\* Initially there is no request.
LEMMA ListenerInit == Init => ListenerInv
  <1> SUFFICES ASSUME Init PROVE ListenerInv
    OBVIOUS
  <1> USE DEF Init
  <1>1. (CHOOSE l \in Lsns : TRUE) \in Lsns
    BY ListenersAssumption
  <1>2. TypeOK
    BY <1>1, MainIdleType, ListenerBounds DEF TypeOK
  <1>3. MonitorTargetsLive
    BY DEF MonitorTargetsLive
  <1>4. ThreadsInv
    BY MainIdleType DEF ThreadsInv
  <1>5. \A l \in Lsns : queue[l] = <<>>
    OBVIOUS
  <1>6. \A l \in Lsns : \A r : ~Queued(l, r)
    BY <1>5 DEF Queued
  <1>7. \A r \in Refs : Unanswered(r)
    BY RefsArePairs DEF Unanswered
  <1>8. RequestsInv
    BY <1>6, <1>7 DEF RequestsInv
  <1>9. OneAnswer
    BY <1>5, <1>6 DEF OneAnswer
  <1> QED
    BY <1>2, <1>3, <1>4, <1>8, <1>9 DEF ListenerInv, MonitorsInv

\* del_mon: entries only go, and proc_mon_map has none for p any more.
LEMMA DelMonTypes ==
    ASSUME TypeOK, NEW p \in Procs, del_mon(p)
    PROVE  /\ mon_map' \subseteq mon_map /\ monitored' \subseteq monitored
           /\ proc_mon' \in [Procs -> Refs \cup {NoRef}] /\ proc_mon'[p] = NoRef
           /\ \A q \in Procs \ {p} : proc_mon'[q] = proc_mon[q]
  BY DEF TypeOK, del_mon

\* A request is made: it is monitored, and not queued yet.
LEMMA AcceptInv ==
    ASSUME ListenerInv, NEW p \in Procs, NEW l \in Lsns, NEW kind \in {"accept", "async"},
           Accept(p, l, kind)
    PROVE  ListenerInv'
  <1> USE DEF ListenerInv, MonitorsInv, Dead
  <1>0. PICK r : r = <<p, calls[p] + 1>>
    OBVIOUS
  <1>1. calls[p] \in Nat /\ calls[p] + 1 \in 1..MaxCalls
    BY ListenerBounds DEF Accept, TypeOK
  <1>2. /\ r \in Refs /\ r[1] = p /\ r[2] = calls[p] + 1 /\ r # NoRef
    BY <1>0, <1>1, RefsArePairs
  <1>3. /\ calls' \in [Procs -> 0..MaxCalls] /\ calls'[p] = calls[p] + 1
        /\ \A q \in Procs \ {p} : calls'[q] = calls[q]
    BY <1>1, ListenerBounds DEF Accept, TypeOK
  <1>4. /\ at' \in [Procs -> Lsns] /\ at'[p] = l
        /\ \A q \in Procs \ {p} : at'[q] = at[q]
    BY DEF Accept, TypeOK
  <1>5. /\ pt' \in [Lsns -> Refs \cup {NoRef}] /\ pt'[l] = r
        /\ \A k \in Lsns \ {l} : pt'[k] = pt[k]
    BY <1>0, <1>2 DEF Accept, TypeOK
  <1>6. /\ pc' \in [Procs -> {"idle", "accept", "async", "wait", "cancel", "dead", "killed"}]
        /\ pc'[p] = kind /\ \A q \in Procs \ {p} : pc'[q] = pc[q]
    BY DEF Accept, TypeOK
  <1>7. /\ mon_map' = mon_map \cup {<<r, l>>} /\ monitored' = monitored \cup {r}
        /\ proc_mon' \in [Procs -> Refs \cup {NoRef}]
    BY <1>0, <1>2 DEF Accept, add_mon, TypeOK
  <1>8. UNCHANGED <<queue, status, mt, mail, gaveup>> /\ pc[p] = "idle" /\ status[l] = "open"
    BY DEF Accept
  <1>9. TypeOK'
    <2>1. mon_map' \subseteq Refs \X Lsns /\ monitored' \subseteq Refs
      BY <1>2, <1>7 DEF TypeOK
    <2> QED
      BY <2>1, <1>3, <1>4, <1>5, <1>6, <1>7, <1>8 DEF TypeOK
  <1>10. MonitorTargetsLive'
    BY <1>7, <1>8 DEF MonitorTargetsLive
  <1>11. Ref(p)' = r /\ \A q \in Procs \ {p} : Ref(q)' = Ref(q)
    BY <1>0, <1>3 DEF Ref
  <1>12. ThreadsInv'
    <2>1. ASSUME NEW k \in Lsns, pt'[k] # NoRef
          PROVE  \E q \in Procs : /\ pt'[k] = Ref(q)' /\ pc'[q] \in {"accept", "async", "killed"}
                                  /\ at'[q] = k /\ status'[k] = "open"
      <3>1. CASE k = l
        BY <1>4, <1>5, <1>6, <1>8, <1>11, <3>1
      <3>2. CASE k # l
        <4>1. PICK q \in Procs : /\ pt[k] = Ref(q) /\ pc[q] \in {"accept", "async", "killed"}
                                 /\ at[q] = k /\ status[k] = "open"
          BY <1>5, <2>1, <3>2 DEF ThreadsInv
        <4>2. q # p
          BY <1>8, <4>1
        <4> QED
          BY <1>4, <1>5, <1>6, <1>8, <1>11, <3>2, <4>1, <4>2
      <3> QED
        BY <3>1, <3>2
    <2>2. \A q \in Procs : pc'[q] \in {"accept", "async", "killed", "wait", "cancel"} =>
            calls'[q] > 0
      BY <1>1, <1>3, <1>6 DEF ThreadsInv
    <2>3. mt'.pc = "exited" => Dead(mt.proc)'
      <3>1. mt.proc \in Procs
        BY DEF TypeOK
      <3> QED
        BY <1>6, <1>8, <3>1 DEF ThreadsInv
    <2>4. mt'.pc = "input" => mt'.pkt \in Packets
      BY <1>8 DEF ThreadsInv
    <2> QED
      BY <2>1, <2>2, <2>3, <2>4 DEF ThreadsInv
  <1>13. \A k \in Lsns, x \in Refs : Queued(k, x)' <=> Queued(k, x)
    BY <1>8 DEF Queued
  <1>14. \A x : Unanswered(x)' <=> Unanswered(x)
    BY <1>8 DEF Unanswered
  <1>15. \A x \in Refs : Made(x) => Made(x)'
    <2> SUFFICES ASSUME NEW x \in Refs, Made(x) PROVE Made(x)'
      OBVIOUS
    <2>1. x[1] \in Procs /\ x[2] \in Nat
      BY RefsArePairs, ListenerBounds
    <2>2. calls[x[1]] \in Nat /\ calls'[x[1]] \in Nat /\ calls[x[1]] <= calls'[x[1]]
      <3>1. \A n \in 0..MaxCalls : n \in Nat
        BY ListenerBounds
      <3>2. calls[x[1]] \in Nat /\ calls'[x[1]] \in Nat
        BY <1>3, <2>1, <3>1 DEF TypeOK
      <3>3. CASE x[1] = p
        BY <1>1, <1>3, <3>2, <3>3
      <3>4. CASE x[1] # p
        BY <1>3, <2>1, <3>2, <3>4
      <3> QED
        BY <3>2, <3>3, <3>4
    <2> QED
      BY <2>1, <2>2 DEF Made
  <1>16. ~Made(r) /\ ~\E k \in Lsns : Queued(k, r)
    BY <1>1, <1>2 DEF Made, RequestsInv
  <1>17. RequestsInv'
    <2>1. ASSUME NEW k \in Lsns, NEW x \in Refs, Queued(k, x)'
          PROVE  /\ Made(x)' /\ (x = Ref(x[1])' => at'[x[1]] = k)
                 /\ \A j \in Lsns : Queued(j, x)' => j = k
                 /\ pt'[k] # x
      <3>1. Queued(k, x) /\ x # r /\ x[1] \in Procs
        BY <1>13, <1>16, <2>1, RefsArePairs
      <3>2. Made(x)' /\ \A j \in Lsns : Queued(j, x)' => j = k
        BY <1>13, <1>15, <3>1 DEF RequestsInv
      <3>3. x = Ref(x[1])' => at'[x[1]] = k
        BY <1>4, <1>11, <3>1 DEF RequestsInv
      <3>4. pt'[k] # x
        BY <1>5, <3>1 DEF RequestsInv
      <3> QED
        BY <3>2, <3>3, <3>4
    <2>2. \A k \in Lsns : pt'[k] # NoRef => Unanswered(pt[k])' \/ k = l
      BY <1>5, <1>14 DEF RequestsInv
    <2>3. Unanswered(r)'
      BY <1>2, <1>14, <1>16 DEF RequestsInv
    <2>4. \A k \in Lsns : (pt[k] # NoRef => Unanswered(pt[k]))'
      <3> SUFFICES ASSUME NEW k \in Lsns, pt'[k] # NoRef PROVE Unanswered(pt[k])'
        OBVIOUS
      <3>1. CASE k = l
        BY <1>5, <2>3, <3>1 DEF Unanswered
      <3>2. CASE k # l
        BY <2>2, <3>2
      <3> QED
        BY <3>1, <3>2
    <2>5. \A x \in Refs : ~Made(x)' => Unanswered(x)'
      BY <1>14, <1>15 DEF RequestsInv
    <2>6. \A q \in Procs : \A e \in mail'[q] : e[1][1] = q
      BY <1>8 DEF RequestsInv
    <2> QED
      BY <2>1, <2>4, <2>5, <2>6 DEF RequestsInv
  <1>18. OneAnswer'
    BY <1>8, <1>13, <1>14 DEF OneAnswer
  <1> QED
    BY <1>9, <1>10, <1>12, <1>17, <1>18

\* The request is queued.
LEMMA AcceptPushInv ==
    ASSUME ListenerInv, NEW l \in Lsns, AcceptPush(l)
    PROVE  ListenerInv'
  <1> USE DEF ListenerInv, MonitorsInv, Dead
  <1>1. PICK p \in Procs : /\ pt[l] = Ref(p) /\ pc[p] \in {"accept", "async", "killed"}
                           /\ at[p] = l /\ status[l] = "open"
    BY DEF AcceptPush, ThreadsInv
  <1>2. PICK r : r = pt[l]
    OBVIOUS
  <1>3. r \in Refs /\ r[1] = p /\ r = Ref(p) /\ r # NoRef
    <2>1. r \in Refs /\ r # NoRef
      BY <1>2 DEF AcceptPush, TypeOK
    <2> QED
      BY <1>1, <1>2, <2>1 DEF Ref
  <1>4. /\ queue' = [queue EXCEPT ![l] = Append(queue[l], r)]
        /\ pt' = [pt EXCEPT ![l] = NoRef]
        /\ pc' = [pc EXCEPT ![p] = CASE pc[p] = "accept" -> "wait"
                                       [] pc[p] = "async"  -> "idle"
                                       [] pc[p] = "killed" -> "killed"]
    BY <1>2, <1>3 DEF AcceptPush
  <1>5. UNCHANGED <<status, mon_map, proc_mon, monitored, mt, at, calls, mail, gaveup>>
    BY DEF AcceptPush
  <1>6. queue[l] \in Seq(Refs) /\ Append(queue[l], r) \in Seq(Refs)
    BY <1>3, AppendProperties DEF TypeOK
  <1>7. /\ queue' \in [Lsns -> Seq(Refs)] /\ queue'[l] = Append(queue[l], r)
        /\ \A k \in Lsns \ {l} : queue'[k] = queue[k]
    BY <1>4, <1>6 DEF TypeOK
  <1>8. /\ pt' \in [Lsns -> Refs \cup {NoRef}] /\ pt'[l] = NoRef
        /\ \A k \in Lsns \ {l} : pt'[k] = pt[k]
    BY <1>4 DEF TypeOK
  <1>9. /\ pc' \in [Procs -> {"idle", "accept", "async", "wait", "cancel", "dead", "killed"}]
        /\ pc'[p] \in {"wait", "idle", "killed"} /\ (pc'[p] = "killed" <=> pc[p] = "killed")
        /\ \A q \in Procs \ {p} : pc'[q] = pc[q]
    BY <1>1, <1>4 DEF TypeOK
  <1>10. TypeOK'
    BY <1>5, <1>7, <1>8, <1>9 DEF TypeOK
  <1>11. MonitorTargetsLive'
    BY <1>5 DEF MonitorTargetsLive
  <1>12. \A q : Ref(q)' = Ref(q)
    BY <1>5 DEF Ref
  <1>13. ThreadsInv'
    <2>1. ASSUME NEW k \in Lsns, pt'[k] # NoRef
          PROVE  \E q \in Procs : /\ pt'[k] = Ref(q)' /\ pc'[q] \in {"accept", "async", "killed"}
                                  /\ at'[q] = k /\ status'[k] = "open"
      <3>1. k # l
        BY <1>8, <2>1
      <3>2. PICK q \in Procs : /\ pt[k] = Ref(q) /\ pc[q] \in {"accept", "async", "killed"}
                               /\ at[q] = k /\ status[k] = "open"
        BY <1>8, <2>1, <3>1 DEF ThreadsInv
      <3>3. q # p
        BY <1>1, <3>1, <3>2
      <3> QED
        BY <1>5, <1>8, <1>9, <1>12, <3>1, <3>2, <3>3
    <2>2. \A q \in Procs : pc'[q] \in {"accept", "async", "killed", "wait", "cancel"} =>
            calls'[q] > 0
      BY <1>1, <1>5, <1>9 DEF ThreadsInv
    <2>3. mt'.pc = "exited" => Dead(mt.proc)'
      <3>1. mt.proc \in Procs
        BY DEF TypeOK
      <3> QED
        BY <1>1, <1>5, <1>9, <3>1 DEF ThreadsInv
    <2>4. mt'.pc = "input" => mt'.pkt \in Packets
      BY <1>5 DEF ThreadsInv
    <2> QED
      BY <2>1, <2>2, <2>3, <2>4 DEF ThreadsInv
  <1>14. \A k \in Lsns : ~Queued(k, r)
    <2> SUFFICES ASSUME NEW k \in Lsns, Queued(k, r) PROVE FALSE
      OBVIOUS
    <2>1. k = l
      BY <1>1, <1>3 DEF RequestsInv
    <2> QED
      BY <1>2, <1>3, <2>1 DEF RequestsInv
  <1>15. /\ \A k \in Lsns, x \in Refs : Queued(k, x)' <=> Queued(k, x) \/ (k = l /\ x = r)
         /\ \A k \in Lsns : Distinct(queue'[k])
    <2>1. /\ \A x : In(queue'[l], x) <=> In(queue[l], x) \/ x = r
          /\ Distinct(queue'[l])
      <3>1. ~In(queue[l], r) /\ Distinct(queue[l])
        BY <1>14, QueuedIsIn, OneAnswerParts
      <3> QED
        BY <1>3, <1>6, <1>7, <3>1, AppendIn
    <2>2. \A k \in Lsns \ {l} : queue'[k] = queue[k] /\ Distinct(queue'[k])
      BY <1>7, OneAnswerParts
    <2> QED
      BY <2>1, <2>2, QueuedIsIn
  <1>16. \A x : (Unanswered(x)' <=> Unanswered(x)) /\ (Made(x)' <=> Made(x))
    BY <1>5 DEF Unanswered, Made
  <1>17. Unanswered(r) /\ Made(r)
    <2>1. Unanswered(r)
      BY <1>2, <1>3 DEF RequestsInv
    <2>2. r[2] = calls[p] /\ calls[p] \in Nat
      BY <1>3, ListenerBounds DEF Ref, TypeOK
    <2> QED
      BY <1>3, <2>1, <2>2 DEF Made
  <1>18. RequestsInv'
    <2>1. ASSUME NEW k \in Lsns, NEW x \in Refs, Queued(k, x)'
          PROVE  /\ Made(x)' /\ (x = Ref(x[1])' => at'[x[1]] = k)
                 /\ \A j \in Lsns : Queued(j, x)' => j = k
                 /\ pt'[k] # x
      <3>1. CASE x = r
        <4>1. k = l /\ \A j \in Lsns : Queued(j, x)' => j = k
          BY <1>14, <1>15, <2>1, <3>1
        <4> QED
          BY <1>1, <1>3, <1>5, <1>8, <1>12, <1>16, <1>17, <3>1, <4>1
      <3>2. CASE x # r
        <4>1. Queued(k, x) /\ \A j \in Lsns : Queued(j, x)' => Queued(j, x)
          BY <1>15, <2>1, <3>2
        <4>2. pt'[k] # x
          BY <1>8, <4>1, RefsArePairs DEF RequestsInv
        <4> QED
          BY <1>5, <1>12, <1>16, <4>1, <4>2 DEF RequestsInv
      <3> QED
        BY <3>1, <3>2
    <2>2. \A k \in Lsns : (pt[k] # NoRef => Unanswered(pt[k]))'
      <3> SUFFICES ASSUME NEW k \in Lsns, pt'[k] # NoRef PROVE Unanswered(pt[k])'
        OBVIOUS
      <3>1. k # l /\ pt'[k] = pt[k]
        BY <1>8
      <3>2. Unanswered(pt[k])
        BY <3>1 DEF RequestsInv
      <3> QED
        BY <1>5, <3>1, <3>2 DEF Unanswered
    <2>3. \A x \in Refs : ~Made(x)' => Unanswered(x)'
      BY <1>16 DEF RequestsInv
    <2>4. \A q \in Procs : \A e \in mail'[q] : e[1][1] = q
      BY <1>5 DEF RequestsInv
    <2> QED
      BY <2>1, <2>2, <2>3, <2>4 DEF RequestsInv
  <1>19. OneAnswer'
    <2>1. \A k \in Lsns, x \in Refs : Queued(k, x)' => Unanswered(x)'
      BY <1>15, <1>16, <1>17 DEF OneAnswer
    <2>2. \A x \in gaveup', v \in Ok : <<x, v>> \notin mail'[x[1]]
      BY <1>5 DEF OneAnswer
    <2> QED
      BY <1>15, <2>1, <2>2 DEF OneAnswer, Distinct
  <1> QED
    BY <1>10, <1>11, <1>13, <1>18, <1>19

\* Taking a reply takes it from one mailbox.
LEMMA TakeReplyTypes ==
    ASSUME TypeOK, NEW p \in Procs, TakeReply(p)
    PROVE  /\ mail' \in [Procs -> SUBSET (Refs \X Answers)]
           /\ \A q \in Procs : mail'[q] \subseteq mail[q]
  <1>1. PICK s : s = {<<Ref(p), v>> : v \in Ok}
    OBVIOUS
  <1>2. mail' = [mail EXCEPT ![p] = mail[p] \ s] /\ mail \in [Procs -> SUBSET (Refs \X Answers)]
    BY <1>1 DEF TakeReply, TypeOK
  <1>3. \A q \in Procs : mail'[q] = IF q = p THEN mail[p] \ s ELSE mail[q]
    BY <1>2
  <1> QED
    BY <1>2, <1>3

\* A request that timed out is cancelled: it leaves the queue it is in, and its
\* message is taken.
LEMMA CancelAcceptInv ==
    ASSUME ListenerInv, NEW p \in Procs, CancelAccept(p)
    PROVE  ListenerInv'
  <1> USE DEF ListenerInv, MonitorsInv, Dead
  <1>1. PICK l \in Lsns : l = at[p]
    BY DEF TypeOK
  <1>2. PICK r : r = Ref(p)
    OBVIOUS
  <1>3. r \in Refs /\ r[1] = p /\ Made(r) /\ pc[p] = "cancel" /\ calls[p] \in 1..MaxCalls
    <2>1. pc[p] = "cancel" /\ calls[p] \in 0..MaxCalls /\ calls[p] > 0
      BY DEF CancelAccept, ThreadsInv, TypeOK
    <2>2. calls[p] \in 1..MaxCalls /\ calls[p] \in Nat
      BY <2>1, ListenerBounds
    <2> QED
      BY <1>2, <2>1, <2>2, RefsArePairs DEF Ref, Made
  <1>4. UNCHANGED <<status, pt, mt, at, calls>>
    BY DEF CancelAccept
  <1>5. /\ pc' \in [Procs -> {"idle", "accept", "async", "wait", "cancel", "dead", "killed"}]
        /\ pc'[p] = "idle" /\ \A q \in Procs \ {p} : pc'[q] = pc[q]
    BY DEF CancelAccept, TypeOK
  <1>6. /\ mail' \in [Procs -> SUBSET (Refs \X Answers)]
        /\ \A q \in Procs : mail'[q] \subseteq mail[q]
    BY TakeReplyTypes DEF CancelAccept, TypeOK
  <1>7. /\ gaveup' \subseteq gaveup \cup {r}
        /\ gaveup' # gaveup => \A v \in Ok : <<r, v>> \notin mail'[p]
    BY <1>2, <1>6 DEF CancelAccept, HasReply
  <1>8. queue[l] \in Seq(Refs) /\ Distinct(queue[l])
    BY OneAnswerParts DEF TypeOK
  <1>9. \/ /\ In(queue[l], r) /\ del_mon(p)
           /\ queue' = [queue EXCEPT ![l] = Erased(queue[l], r)]
        \/ UNCHANGED <<queue, mon_map, proc_mon, monitored>>
    BY <1>1, <1>2 DEF CancelAccept, In
  <1>10. /\ queue' \in [Lsns -> Seq(Refs)]
         /\ \A k \in Lsns : Distinct(queue'[k]) /\ \A x : In(queue'[k], x) => In(queue[k], x)
         /\ status[l] = "open" => ~In(queue'[l], r)
    <2>1. CASE UNCHANGED queue /\ (status[l] = "open" => ~In(queue[l], r))
      BY <2>1, OneAnswerParts DEF TypeOK
    <2>2. CASE In(queue[l], r) /\ queue' = [queue EXCEPT ![l] = Erased(queue[l], r)]
      <3>1. /\ Erased(queue[l], r) \in Seq(Refs) /\ Distinct(Erased(queue[l], r))
            /\ \A x : In(Erased(queue[l], r), x) <=> In(queue[l], x) /\ x # r
        BY <1>8, <2>2, ErasedIn
      <3>2. /\ queue' \in [Lsns -> Seq(Refs)] /\ queue'[l] = Erased(queue[l], r)
            /\ \A k \in Lsns \ {l} : queue'[k] = queue[k]
        BY <2>2, <3>1 DEF TypeOK
      <3> QED
        BY <3>1, <3>2, OneAnswerParts
    <2> QED
      BY <1>1, <1>2, <2>1, <2>2 DEF CancelAccept, In
  <1>11. /\ mon_map' \subseteq mon_map /\ monitored' \subseteq monitored
         /\ proc_mon' \in [Procs -> Refs \cup {NoRef}]
    BY <1>9, DelMonTypes DEF TypeOK
  <1>12. TypeOK'
    BY <1>3, <1>4, <1>5, <1>6, <1>7, <1>10, <1>11 DEF TypeOK
  <1>13. MonitorTargetsLive'
    BY <1>4, <1>11 DEF MonitorTargetsLive
  <1>14. \A q : Ref(q)' = Ref(q)
    BY <1>4 DEF Ref
  <1>15. ThreadsInv'
    <2>1. \A k \in Lsns : pt'[k] # NoRef =>
            \E q \in Procs : /\ pt'[k] = Ref(q)' /\ pc'[q] \in {"accept", "async", "killed"}
                             /\ at'[q] = k /\ status'[k] = "open"
      BY <1>3, <1>4, <1>5, <1>14 DEF ThreadsInv
    <2>2. \A q \in Procs : pc'[q] \in {"accept", "async", "killed", "wait", "cancel"} =>
            calls'[q] > 0
      BY <1>4, <1>5 DEF ThreadsInv
    <2>3. mt'.pc = "exited" => Dead(mt.proc)'
      <3>1. mt.proc \in Procs
        BY DEF TypeOK
      <3> QED
        BY <1>3, <1>4, <1>5, <3>1 DEF ThreadsInv
    <2>4. mt'.pc = "input" => mt'.pkt \in Packets
      BY <1>4 DEF ThreadsInv
    <2> QED
      BY <2>1, <2>2, <2>3, <2>4 DEF ThreadsInv
  <1>16. ASSUME gaveup' # gaveup
         PROVE  \A k \in Lsns : ~In(queue'[k], r) /\ pt[k] # r
    <2>1. status[l] = "open"
      BY <1>1, <1>16 DEF CancelAccept
    <2>2. ASSUME NEW k \in Lsns, In(queue'[k], r) PROVE FALSE
      <3>1. Queued(k, r)
        BY <1>10, <2>2, QueuedIsIn
      <3>2. k = l
        BY <1>1, <1>2, <1>3, <3>1 DEF RequestsInv
      <3> QED
        BY <1>10, <2>1, <2>2, <3>2
    <2>3. ASSUME NEW k \in Lsns, pt[k] = r PROVE FALSE
      <3>1. pt[k] # NoRef
        BY <1>3, <2>3, RefsArePairs
      <3>2. PICK q \in Procs : pt[k] = Ref(q) /\ pc[q] \in {"accept", "async", "killed"}
        BY <3>1 DEF ThreadsInv
      <3>3. q = p
        BY <1>2, <2>3, <3>2 DEF Ref
      <3> QED
        BY <1>3, <3>2, <3>3
    <2> QED
      BY <2>2, <2>3
  <1>17. RequestsInv' /\ OneAnswer'
    <2>1. \A x \in gaveup' \ gaveup :
            /\ x \in Refs /\ Made(x) /\ \A v \in Ok : <<x, v>> \notin mail'[x[1]]
            /\ \A k \in Lsns : ~In(queue'[k], x) /\ pt[k] # x
      BY <1>3, <1>7, <1>16
    <2> QED
      BY <1>4, <1>6, <1>10, <2>1, RequestsShrink
  <1> QED
    BY <1>12, <1>13, <1>15, <1>17

\* The first acceptor is answered.
LEMMA AnswerInv ==
    ASSUME ListenerInv, NEW l \in Lsns, NEW v \in Answers, queue[l] # <<>>, Answer(l, v),
           UNCHANGED <<status, pt, procVars>>, mt' = MainIdle
    PROVE  ListenerInv'
  <1> USE DEF ListenerInv, MonitorsInv, Dead
  <1>1. PICK r : r = Head(queue[l])
    OBVIOUS
  <1>2. queue[l] \in Seq(Refs) /\ Distinct(queue[l])
    BY OneAnswerParts DEF TypeOK
  <1>3. /\ Tail(queue[l]) \in Seq(Refs) /\ Distinct(Tail(queue[l]))
        /\ In(queue[l], r) /\ r \in Refs
        /\ \A x : In(Tail(queue[l]), x) <=> In(queue[l], x) /\ x # r
    BY <1>1, <1>2, TailIn
  <1>4. PICK p \in Procs : p = r[1]
    BY <1>3, RefsArePairs
  <1>5. /\ queue' \in [Lsns -> Seq(Refs)]
        /\ queue'[l] = Tail(queue[l]) /\ \A k \in Lsns \ {l} : queue'[k] = queue[k]
    <2>1. queue' = [queue EXCEPT ![l] = Tail(queue[l])]
      BY DEF Answer, Served
    <2> QED
      BY <1>3, <2>1 DEF TypeOK
  <1>6. /\ mon_map' \subseteq mon_map /\ monitored' \subseteq monitored
        /\ proc_mon' \in [Procs -> Refs \cup {NoRef}]
    <2>1. del_mon(p)
      BY <1>1, <1>4 DEF Answer
    <2> QED
      BY <2>1, DelMonTypes
  <1>7. /\ mail' \in [Procs -> SUBSET (Refs \X Answers)]
        /\ \A q \in Procs \ {p} : mail'[q] = mail[q]
        /\ mail'[p] \subseteq mail[p] \cup {<<r, v>>}
    <2>1. mail' = mail \/ mail' = [mail EXCEPT ![p] = mail[p] \cup {<<r, v>>}]
      BY <1>1, <1>4 DEF Answer
    <2>2. <<r, v>> \in Refs \X Answers /\ mail \in [Procs -> SUBSET (Refs \X Answers)]
      BY <1>3 DEF TypeOK
    <2> QED
      BY <2>1, <2>2
  <1>8. UNCHANGED <<pc, at, calls, gaveup>>
    BY DEF procVars
  <1>9. TypeOK'
    BY <1>5, <1>6, <1>7, <1>8, MainIdleType DEF TypeOK
  <1>10. MonitorTargetsLive'
    BY <1>6 DEF MonitorTargetsLive
  <1>11. \A q : Ref(q)' = Ref(q)
    BY <1>8 DEF Ref
  <1>12. ThreadsInv'
    BY <1>8, <1>11, MainIdleType DEF ThreadsInv
  <1>13. /\ \A k \in Lsns, x \in Refs : Queued(k, x)' => Queued(k, x) /\ x # r
         /\ \A k \in Lsns : Distinct(queue'[k])
    <2>1. Queued(l, r)
      BY <1>3, QueuedIsIn
    <2>2. \A k \in Lsns : Queued(k, r) => k = l
      BY <1>3, <2>1 DEF RequestsInv
    <2>3. ASSUME NEW k \in Lsns, NEW x \in Refs, Queued(k, x)'
          PROVE  Queued(k, x) /\ x # r
      <3>1. CASE k = l
        BY <1>3, <1>5, <2>3, <3>1, QueuedIsIn
      <3>2. CASE k # l
        <4>1. In(queue[k], x)
          BY <1>5, <2>3, <3>2, QueuedIsIn
        <4> QED
          BY <2>2, <3>2, <4>1, QueuedIsIn
      <3> QED
        BY <3>1, <3>2
    <2>4. \A k \in Lsns : Distinct(queue'[k])
      BY <1>3, <1>5, OneAnswerParts
    <2> QED
      BY <2>3, <2>4
  <1>14. Queued(l, r) /\ Made(r) /\ Unanswered(r)
    <2>1. Queued(l, r)
      BY <1>3, QueuedIsIn
    <2> QED
      BY <1>3, <2>1 DEF RequestsInv, OneAnswer
  <1>15. \A x \in Refs \ {r} : Unanswered(x) => Unanswered(x)'
    <2> SUFFICES ASSUME NEW x \in Refs \ {r}, Unanswered(x) PROVE Unanswered(x)'
      OBVIOUS
    <2>1. x \notin gaveup'
      BY <1>8 DEF Unanswered
    <2>2. ASSUME NEW a \in Answers PROVE <<x, a>> \notin mail'[x[1]]
      <3>1. <<x, a>> \notin mail[x[1]] /\ x[1] \in Procs /\ <<x, a>> # <<r, v>>
        BY RefsArePairs DEF Unanswered
      <3> QED
        BY <1>7, <3>1
    <2> QED
      BY <2>1, <2>2 DEF Unanswered
  <1>16. \A x : Made(x)' <=> Made(x)
    BY <1>8 DEF Made
  <1>17. RequestsInv'
    <2>1. ASSUME NEW k \in Lsns, NEW x \in Refs, Queued(k, x)'
          PROVE  /\ Made(x)' /\ (x = Ref(x[1])' => at'[x[1]] = k)
                 /\ \A j \in Lsns : Queued(j, x)' => j = k
                 /\ pt'[k] # x
      BY <1>8, <1>11, <1>13, <1>16, <2>1 DEF RequestsInv
    <2>2. \A k \in Lsns : (pt[k] # NoRef => Unanswered(pt[k]))'
      <3> SUFFICES ASSUME NEW k \in Lsns, pt'[k] # NoRef PROVE Unanswered(pt[k])'
        OBVIOUS
      <3>1. PICK x \in Refs : x = pt[k]
        BY DEF TypeOK
      <3>2. PICK q \in Procs : pt[k] = Ref(q) /\ at[q] = k
        BY DEF ThreadsInv
      <3>3. x # r
        <4> SUFFICES ASSUME x = r PROVE FALSE
          OBVIOUS
        <4>1. q = r[1] /\ r = Ref(r[1])
          BY <3>1, <3>2 DEF Ref
        <4>2. k = l
          BY <1>3, <1>14, <3>2, <4>1 DEF RequestsInv
        <4> QED
          BY <1>3, <1>14, <3>1, <4>2 DEF RequestsInv
      <3>4. Unanswered(x)'
        BY <1>15, <3>1, <3>3 DEF RequestsInv
      <3> QED
        BY <3>1, <3>4 DEF Unanswered
    <2>3. \A x \in Refs : ~Made(x)' => Unanswered(x)'
      BY <1>14, <1>15, <1>16 DEF RequestsInv
    <2>4. ASSUME NEW q \in Procs, NEW e \in mail'[q] PROVE e[1][1] = q
      BY <1>4, <1>7 DEF RequestsInv
    <2> QED
      BY <2>1, <2>2, <2>3, <2>4 DEF RequestsInv
  <1>18. OneAnswer'
    <2>1. \A k \in Lsns, x \in Refs : Queued(k, x)' => Unanswered(x)'
      BY <1>13, <1>15 DEF OneAnswer
    <2>2. ASSUME NEW x \in gaveup', NEW a \in Ok PROVE <<x, a>> \notin mail'[x[1]]
      <3>1. x \in gaveup /\ x \in Refs /\ x[1] \in Procs
        BY <1>8, RefsArePairs DEF TypeOK
      <3>2. x # r /\ <<x, a>> # <<r, v>>
        BY <1>14, <3>1 DEF Unanswered
      <3> QED
        BY <1>7, <3>1, <3>2 DEF OneAnswer
    <2> QED
      BY <1>13, <2>1, <2>2 DEF OneAnswer, Distinct
  <1> QED
    BY <1>9, <1>10, <1>12, <1>17, <1>18

\* A process goes on, without a request of its own in progress: only its
\* counter and its mailbox change.
LEMMA ProcessMovesInv ==
    ASSUME ListenerInv, NEW p \in Procs, NEW c \in {"idle", "cancel", "dead", "killed"},
           c # "killed" => pc[p] \in {"idle", "wait", "cancel"},
           c = "killed" => pc[p] \in {"accept", "async"},
           c \in {"cancel", "killed"} => calls[p] > 0,
           pc' = [pc EXCEPT ![p] = c], TakeReply(p) \/ UNCHANGED mail,
           UNCHANGED <<queue, status, mon_map, proc_mon, monitored, pt, mt, at, calls, gaveup>>
    PROVE  ListenerInv'
  <1> USE DEF ListenerInv, MonitorsInv, Dead
  <1>1. /\ pc' \in [Procs -> {"idle", "accept", "async", "wait", "cancel", "dead", "killed"}]
        /\ pc'[p] = c /\ \A q \in Procs \ {p} : pc'[q] = pc[q]
    BY DEF TypeOK
  <1>2. /\ mail' \in [Procs -> SUBSET (Refs \X Answers)]
        /\ \A q \in Procs : mail'[q] \subseteq mail[q]
    BY TakeReplyTypes DEF TypeOK
  <1>3. TypeOK'
    BY <1>1, <1>2 DEF TypeOK
  <1>4. MonitorTargetsLive'
    BY DEF MonitorTargetsLive
  <1>5. \A q : Ref(q)' = Ref(q)
    BY DEF Ref
  <1>6. ThreadsInv'
    <2>1. \A k \in Lsns : pt'[k] # NoRef =>
            \E q \in Procs : /\ pt'[k] = Ref(q)' /\ pc'[q] \in {"accept", "async", "killed"}
                             /\ at'[q] = k /\ status'[k] = "open"
      BY <1>1, <1>5 DEF ThreadsInv
    <2>2. \A q \in Procs : pc'[q] \in {"accept", "async", "killed", "wait", "cancel"} =>
            calls'[q] > 0
      BY <1>1 DEF ThreadsInv
    <2>3. mt'.pc = "exited" => Dead(mt.proc)'
      <3>1. mt.proc \in Procs
        BY DEF TypeOK
      <3> QED
        BY <1>1, <3>1 DEF ThreadsInv
    <2>4. mt'.pc = "input" => mt'.pkt \in Packets
      BY DEF ThreadsInv
    <2> QED
      BY <2>1, <2>2, <2>3, <2>4 DEF ThreadsInv
  <1>7. RequestsInv' /\ OneAnswer'
    BY <1>2, OneAnswerParts, RequestsShrink
  <1> QED
    BY <1>3, <1>4, <1>6, <1>7

\* Only the maps, the listeners and the main thread change, and requests only
\* leave the queues.
LEMMA DriverMovesInv ==
    ASSUME ListenerInv, UNCHANGED <<pc, at, calls, gaveup, mail, pt>>,
           queue' \in [Lsns -> Seq(Refs)],
           \A l \in Lsns : Distinct(queue'[l]) /\ \A r : In(queue'[l], r) => In(queue[l], r),
           status' \in [Lsns -> {"open", "stopping", "deleted"}],
           \A l \in Lsns : status'[l] = status[l] \/ pt[l] = NoRef,
           mon_map' \subseteq mon_map, monitored' \subseteq monitored,
           \A e \in mon_map' : status'[e[2]] # "deleted",
           proc_mon' \in [Procs -> Refs \cup {NoRef}],
           mt' \in [pc : {"idle", "input", "exited"}, on : Lsns, proc : Procs,
                    pkt : Packets \cup {"none"}],
           mt'.pc = "exited" => Dead(mt'.proc), mt'.pc = "input" => mt'.pkt \in Packets
    PROVE  ListenerInv'
  <1> USE DEF ListenerInv, MonitorsInv, Dead
  <1>1. TypeOK'
    BY DEF TypeOK
  <1>2. MonitorTargetsLive'
    BY DEF MonitorTargetsLive
  <1>3. \A q : Ref(q)' = Ref(q)
    BY DEF Ref
  <1>4. ThreadsInv'
    <2>1. \A k \in Lsns : pt'[k] # NoRef =>
            \E q \in Procs : /\ pt'[k] = Ref(q)' /\ pc'[q] \in {"accept", "async", "killed"}
                             /\ at'[q] = k /\ status'[k] = "open"
      BY <1>3 DEF ThreadsInv
    <2> QED
      BY <2>1 DEF ThreadsInv
  <1>5. RequestsInv' /\ OneAnswer'
    BY RequestsShrink
  <1> QED
    BY <1>1, <1>2, <1>4, <1>5

\* The listener is taken out of the maps, then deleted.
LEMMA StopInv ==
    ASSUME ListenerInv, NEW l \in Lsns, StopDeselect(l) \/ StopDelete(l)
    PROVE  ListenerInv'
  <1> USE DEF ListenerInv, MonitorsInv, Dead
  <1>1. /\ UNCHANGED <<pc, at, calls, gaveup, mail, pt, mt>>
        /\ \A k \in Lsns : Distinct(queue[k])
        /\ mt.pc = "exited" => Dead(mt.proc)
        /\ mt.pc = "input" => mt.pkt \in Packets
    BY OneAnswerParts DEF StopDeselect, StopDelete, procVars, ThreadsInv
  <1>2. CASE StopDeselect(l)
    <2>1. UNCHANGED <<queue, mon_map, proc_mon, monitored>> /\ pt[l] = NoRef
      BY <1>2 DEF StopDeselect
    <2>2. /\ status' \in [Lsns -> {"open", "stopping", "deleted"}]
          /\ status'[l] = "stopping" /\ \A k \in Lsns \ {l} : status'[k] = status[k]
      BY <1>2 DEF StopDeselect, TypeOK
    <2>3. \A e \in mon_map : status'[e[2]] # "deleted"
      <3>1. \A e \in mon_map : e[2] \in Lsns
        BY DEF TypeOK
      <3> QED
        BY <2>2, <3>1 DEF MonitorTargetsLive
    <2> QED
      BY <1>1, <2>1, <2>2, <2>3, DriverMovesInv DEF TypeOK
  <1>3. CASE StopDelete(l)
    <2>1. pt[l] = NoRef
      BY <1>3 DEF StopDelete, ThreadsInv
    <2>2. /\ status' \in [Lsns -> {"open", "stopping", "deleted"}]
          /\ status'[l] = "deleted" /\ \A k \in Lsns \ {l} : status'[k] = status[k]
      BY <1>3 DEF StopDelete, TypeOK
    <2>3. /\ queue' \in [Lsns -> Seq(Refs)] /\ queue'[l] = <<>>
          /\ \A k \in Lsns \ {l} : queue'[k] = queue[k]
      <3>1. queue' = [queue EXCEPT ![l] = <<>>] /\ <<>> \in Seq(Refs)
        BY <1>3 DEF StopDelete
      <3> QED
        BY <3>1 DEF TypeOK
    <2>4. Distinct(<<>>) /\ \A r : ~In(<<>>, r)
      BY DEF Distinct, In
    <2>5. /\ mon_map' = {e \in mon_map : e[2] # l} /\ monitored' \subseteq monitored
          /\ proc_mon' \in [Procs -> Refs \cup {NoRef}]
      BY <1>3 DEF StopDelete, del_mons, TypeOK
    <2>6. \A e \in mon_map' : status'[e[2]] # "deleted"
      <3>1. \A e \in mon_map : e[2] \in Lsns
        BY DEF TypeOK
      <3> QED
        BY <2>2, <2>5, <3>1 DEF MonitorTargetsLive
    <2>7. \A k \in Lsns : Distinct(queue'[k]) /\ \A r : In(queue'[k], r) => In(queue[k], r)
      BY <1>1, <2>3, <2>4
    <2> QED
      BY <1>1, <2>1, <2>2, <2>3, <2>5, <2>6, <2>7, DriverMovesInv DEF TypeOK
  <1> QED
    BY <1>2, <1>3

\* A datagram is read.
LEMMA ReadyInputInv ==
    ASSUME ListenerInv, NEW l \in Lsns, NEW pkt \in Packets, ReadyInput(l, pkt)
    PROVE  ListenerInv'
  <1> USE DEF ListenerInv, MonitorsInv, Dead
  <1>1. /\ UNCHANGED <<pc, at, calls, gaveup, mail, pt, queue, status, mon_map, proc_mon,
                       monitored>>
        /\ \A k \in Lsns : Distinct(queue[k])
    BY OneAnswerParts DEF ReadyInput, procVars
  <1>2. /\ mt' \in [pc : {"idle", "input", "exited"}, on : Lsns, proc : Procs,
                    pkt : Packets \cup {"none"}]
        /\ mt'.pc = "input" /\ mt'.pkt = pkt
    BY DEF ReadyInput, TypeOK
  <1> QED
    BY <1>1, <1>2, DriverMovesInv DEF TypeOK, MonitorTargetsLive

\* The listener has dealt with it.
LEMMA InputReadyInv ==
    ASSUME ListenerInv, InputReady
    PROVE  ListenerInv'
  <1> USE DEF ListenerInv, MonitorsInv, Dead
  <1>1. mt.on \in Lsns /\ mt' = MainIdle /\ UNCHANGED <<status, pt, procVars>>
    BY DEF InputReady, TypeOK
  <1>2. \/ UNCHANGED <<queue, mon_map, proc_mon, monitored, mail>>
        \/ queue[mt.on] # <<>> /\ \E v \in Answers : Answer(mt.on, v)
    BY DEF InputReady, Answers, Ok
  <1>3. CASE UNCHANGED <<queue, mon_map, proc_mon, monitored, mail>>
    BY <1>1, <1>3, MainIdleType, OneAnswerParts, DriverMovesInv
       DEF TypeOK, MonitorTargetsLive, procVars
  <1>4. CASE queue[mt.on] # <<>> /\ \E v \in Answers : Answer(mt.on, v)
    <2>1. PICK v \in Answers : Answer(mt.on, v)
      BY <1>4
    <2> QED
      BY <1>1, <1>4, <2>1, AnswerInv
  <1> QED
    BY <1>2, <1>3, <1>4

\* A monitor fires and leaves the maps.
LEMMA ProcessExitInv ==
    ASSUME ListenerInv, NEW m \in Refs, ProcessExit(m)
    PROVE  ListenerInv'
  <1> USE DEF ListenerInv, MonitorsInv, Dead
  <1>1. /\ UNCHANGED <<pc, at, calls, gaveup, mail, pt, queue, status>>
        /\ \A k \in Lsns : Distinct(queue[k])
        /\ monitored' \subseteq monitored /\ Dead(m[1]) /\ mt.pc = "idle"
    BY OneAnswerParts DEF ProcessExit, procVars
  <1>2. m[1] \in Procs
    BY RefsArePairs
  <1>3. CASE UNCHANGED <<mon_map, proc_mon, mt>>
    BY <1>1, <1>3, DriverMovesInv DEF TypeOK, MonitorTargetsLive
  <1>4. CASE \E l \in Lsns :
               /\ mon_map' = mon_map \ {<<m, l>>}
               /\ proc_mon' = [proc_mon EXCEPT ![m[1]] = NoRef]
               /\ mt' = [mt EXCEPT !.pc = "exited", !.on = l, !.proc = m[1]]
    <2>1. mon_map' \subseteq mon_map /\ proc_mon' \in [Procs -> Refs \cup {NoRef}]
      BY <1>4 DEF TypeOK
    <2>2. /\ mt' \in [pc : {"idle", "input", "exited"}, on : Lsns, proc : Procs,
                      pkt : Packets \cup {"none"}]
          /\ mt'.pc = "exited" /\ mt'.proc = m[1]
      BY <1>2, <1>4 DEF TypeOK
    <2> QED
      BY <1>1, <2>1, <2>2, DriverMovesInv DEF TypeOK, MonitorTargetsLive
  <1> QED
    BY <1>3, <1>4 DEF ProcessExit

\* The requests of the process leave the queue.
LEMMA ProcessExitedInv ==
    ASSUME ListenerInv, ProcessExited
    PROVE  ListenerInv'
  <1> USE DEF ListenerInv, MonitorsInv, Dead
  <1>1. UNCHANGED <<pc, at, calls, gaveup, mail, pt, status, mon_map, proc_mon, monitored>>
    BY DEF ProcessExited, procVars
  <1>2. PICK l \in Lsns : l = mt.on
    BY DEF TypeOK
  <1>3. PICK p : p = mt.proc
    OBVIOUS
  <1>4. /\ queue' \in [Lsns -> Seq(Refs)]
        /\ \A k \in Lsns : Distinct(queue'[k]) /\ \A r : In(queue'[k], r) => In(queue[k], r)
    <2>1. CASE UNCHANGED queue
      BY <2>1, OneAnswerParts DEF TypeOK
    <2>2. CASE queue' = [queue EXCEPT ![l] = Without(queue[l], p)]
      <3>1. queue[l] \in Seq(Refs) /\ Distinct(queue[l])
        BY OneAnswerParts DEF TypeOK
      <3>2. /\ Without(queue[l], p) \in Seq(Refs) /\ Distinct(Without(queue[l], p))
            /\ \A r : In(Without(queue[l], p), r) <=> In(queue[l], r) /\ r[1] # p
        BY <3>1, WithoutIn
      <3>3. /\ queue' \in [Lsns -> Seq(Refs)] /\ queue'[l] = Without(queue[l], p)
            /\ \A k \in Lsns \ {l} : queue'[k] = queue[k]
        BY <2>2, <3>2 DEF TypeOK
      <3> QED
        BY <3>2, <3>3, OneAnswerParts
    <2> QED
      BY <1>2, <1>3, <2>1, <2>2 DEF ProcessExited
  <1>5. mt' = MainIdle
    BY DEF ProcessExited
  <1> QED
    BY <1>1, <1>4, <1>5, MainIdleType, DriverMovesInv DEF TypeOK, MonitorTargetsLive

\* Every step keeps the invariant.
LEMMA ListenerNext == ListenerInv /\ [Next]_vars => ListenerInv'
  <1> SUFFICES ASSUME ListenerInv, [Next]_vars PROVE ListenerInv'
    OBVIOUS
  <1>1. CASE UNCHANGED vars
    <2>1. UNCHANGED <<queue, status, mon_map, proc_mon, monitored, pt, mt, pc, at, calls,
                      mail, gaveup>>
      BY <1>1 DEF vars
    <2>2. TypeOK' /\ MonitorTargetsLive'
      BY <2>1 DEF ListenerInv, MonitorsInv, TypeOK, MonitorTargetsLive
    <2>3. ThreadsInv'
      <3>1. \A p \in Procs : Ref(p)' = Ref(p)
        BY <2>1 DEF Ref
      <3>2. \A p : Dead(p)' = Dead(p)
        BY <2>1 DEF Dead
      <3> QED
        BY <2>1, <3>1, <3>2 DEF ListenerInv, MonitorsInv, ThreadsInv
    <2>4. RequestsInv' /\ OneAnswer'
      BY <2>1, OneAnswerParts, RequestsShrink DEF ListenerInv, MonitorsInv
    <2> QED
      BY <2>2, <2>3, <2>4 DEF ListenerInv, MonitorsInv
  <1>2. CASE \E p \in Procs, l \in Lsns, kind \in {"accept", "async"} : Accept(p, l, kind)
    BY <1>2, AcceptInv
  <1>3. ASSUME NEW p \in Procs, AcceptReplied(p) PROVE ListenerInv'
    BY <1>3, ProcessMovesInv DEF AcceptReplied
  <1>4. ASSUME NEW p \in Procs, AcceptTimesOut(p) PROVE ListenerInv'
    <2>1. calls[p] > 0
      BY <1>4 DEF AcceptTimesOut, ListenerInv, MonitorsInv, ThreadsInv
    <2> QED
      BY <1>4, <2>1, ProcessMovesInv DEF AcceptTimesOut
  <1>5. ASSUME NEW p \in Procs, Exit(p) PROVE ListenerInv'
    <2>1. pc[p] \in {"idle", "accept", "async", "wait", "cancel"}
      BY <1>5 DEF Exit, Dead, ListenerInv, MonitorsInv, TypeOK
    <2>2. pc[p] \in {"accept", "async"} => calls[p] > 0
      BY DEF ListenerInv, MonitorsInv, ThreadsInv
    <2> QED
      BY <1>5, <2>1, <2>2, ProcessMovesInv DEF Exit
  <1>6. ASSUME NEW p \in Procs, NEW l \in Lsns, NEW kind \in {"accept", "async"},
               AcceptUnmonitored(p, l, kind)
        PROVE  ListenerInv'
    BY <1>6, ProcessMovesInv DEF AcceptUnmonitored
  <1> QED
    BY <1>1, <1>2, <1>3, <1>4, <1>5, <1>6, AcceptPushInv, CancelAcceptInv, StopInv, ReadyInputInv,
       InputReadyInv, ProcessExitInv, ProcessExitedInv DEF Next, Continue

\* The acceptor queues, the monitor maps and the threads on any schedule: a
\* monitor leads only to a listener that is there (main_handler.cc, del_mons
\* before the handler is deleted), and a request is in one place of one queue
\* until it is answered or given up.
THEOREM ListenerInvariant == Spec => []ListenerInv
  <1>1. Init => ListenerInv
    BY ListenerInit
  <1>2. ListenerInv /\ [Next]_vars => ListenerInv'
    BY ListenerNext
  <1> QED
    BY <1>1, <1>2, PTL DEF Spec

\* The monitor maps never lead process_exit to a deleted listener, whatever the
\* threads' interleaving.
THEOREM MonitorsCorrect == Spec => []MonitorsInv
  BY ListenerInvariant, PTL DEF ListenerInv

\* A request is answered at most once, and not at all once accept/2 has
\* returned etimedout for it, on one scheduler or several.
THEOREM AnsweredOnce == Spec => []OneAnswer
  BY ListenerInvariant, PTL DEF ListenerInv

-----------------------------------------------------------------------------
(***************************************************************************)
(* Nobody is dropped from the queue and forgotten                          *)
(***************************************************************************)

\* The driver has sent p something for its latest request.
Told(p) == \E v \in Answers : <<Ref(p), v>> \in mail[p]

\* A process waiting on an open listener is queued, or has been told something.
NotForgotten ==
    \A p \in Procs : pc[p] = "wait" /\ status[at[p]] = "open" =>
        Queued(at[p], Ref(p)) \/ Told(p)

\* Without "connerr" datagrams the driver sends no error.
OnlyOk == \A p \in Procs, r \in Refs : <<r, "error">> \notin mail[p]

\* Nothing happens to a waiting process: its request stays queued where it is,
\* and its mailbox loses nothing.
LEMMA StillWaiting ==
    ASSUME NEW p \in Procs, UNCHANGED <<calls, at>>, NotForgotten,
           pc[p] = "wait" /\ status[at[p]] = "open",
           In(queue[at[p]], Ref(p)) => In(queue'[at[p]], Ref(p)),
           mail[p] \subseteq mail'[p], at[p] \in Lsns
    PROVE  Queued(at[p], Ref(p))' \/ Told(p)'
  <1>1. Ref(p)' = Ref(p)
    BY DEF Ref
  <1>2. PICK r, l : r = Ref(p) /\ l = at[p]
    OBVIOUS
  <1>3. Queued(l, r) \/ Told(p)
    BY <1>2 DEF NotForgotten
  <1>4. Queued(l, r) => Queued(l, r)'
    BY <1>2, QueuedIsIn
  <1>5. Told(p) => Told(p)'
    BY <1>1 DEF Told
  <1>6. Queued(l, r)' => Queued(at[p], Ref(p))'
    BY <1>1, <1>2 DEF Queued
  <1> QED
    BY <1>3, <1>4, <1>5, <1>6

\* The acceptor at the front is told; the others stay.
LEMMA AnswerTells ==
    ASSUME ListenerInv, NotForgotten, NEW l \in Lsns, NEW v \in Answers, queue[l] # <<>>,
           Answer(l, v), UNCHANGED <<status, pt, procVars>>
    PROVE  NotForgotten'
  <1> USE DEF ListenerInv, MonitorsInv, Dead
  <1>1. PICK r : r = Head(queue[l])
    OBVIOUS
  <1>2. queue[l] \in Seq(Refs) /\ Distinct(queue[l])
    BY OneAnswerParts DEF TypeOK
  <1>3. /\ In(queue[l], r) /\ r \in Refs
        /\ \A x : In(Tail(queue[l]), x) <=> In(queue[l], x) /\ x # r
    BY <1>1, <1>2, TailIn
  <1>4. queue'[l] = Tail(queue[l]) /\ \A k \in Lsns \ {l} : queue'[k] = queue[k]
    BY DEF Answer, Served, TypeOK
  <1>5. UNCHANGED <<pc, at, calls, gaveup>>
    BY DEF procVars
  <1>6. PICK p \in Procs : p = r[1]
    BY <1>3, RefsArePairs
  <1>7. /\ \A q \in Procs : mail[q] \subseteq mail'[q]
        /\ ~Dead(p) /\ status[l] = "open" => <<r, v>> \in mail'[p]
    BY <1>1, <1>6 DEF Answer, TypeOK
  <1>8. ASSUME NEW q \in Procs, pc'[q] = "wait", status'[at'[q]] = "open"
        PROVE  Queued(at[q], Ref(q))' \/ Told(q)'
    <2>1. pc[q] = "wait" /\ status[at[q]] = "open" /\ at[q] \in Lsns
      BY <1>5, <1>8 DEF TypeOK
    <2>2. CASE Ref(q) = r
      <3>1. q = p /\ r = Ref(r[1])
        BY <1>6, <2>2 DEF Ref
      <3>2. at[q] = l
        BY <1>3, <1>6, <3>1, QueuedIsIn DEF RequestsInv
      <3>3. <<r, v>> \in mail'[q] /\ Ref(q)' = r
        BY <1>5, <1>7, <2>1, <2>2, <3>1, <3>2 DEF Ref
      <3> QED
        BY <3>3 DEF Told
    <2>3. CASE Ref(q) # r
      <3>1. In(queue[at[q]], Ref(q)) => In(queue'[at[q]], Ref(q))
        BY <1>3, <1>4, <2>1, <2>3
      <3> QED
        BY <1>5, <1>7, <2>1, <3>1, StillWaiting
    <2> QED
      BY <2>2, <2>3
  <1> QED
    BY <1>8 DEF NotForgotten

\* Every step keeps it.
LEMMA NotForgottenNext == ListenerInv /\ NotForgotten /\ [Next]_vars => NotForgotten'
  <1> SUFFICES ASSUME ListenerInv, NotForgotten, [Next]_vars PROVE NotForgotten'
    OBVIOUS
  <1> USE DEF ListenerInv, MonitorsInv, Dead
  <1>0. \A q \in Procs : at[q] \in Lsns
    BY DEF TypeOK
  <1> DEFINE Stays(q) == /\ In(queue[at[q]], Ref(q)) => In(queue'[at[q]], Ref(q))
                         /\ mail[q] \subseteq mail'[q]
  <1>1. ASSUME UNCHANGED <<calls, at>>,
               \A q \in Procs : pc'[q] = "wait" /\ status'[at[q]] = "open" =>
                  pc[q] = "wait" /\ status[at[q]] = "open" /\ Stays(q)
        PROVE  NotForgotten'
    <2>1. ASSUME NEW q \in Procs, pc'[q] = "wait", status'[at'[q]] = "open"
          PROVE  Queued(at[q], Ref(q))' \/ Told(q)'
      BY <1>0, <1>1, <2>1, StillWaiting
    <2> QED
      BY <2>1 DEF NotForgotten
  <1>2. CASE UNCHANGED vars
    BY <1>1, <1>2 DEF vars
  <1>3. ASSUME NEW p \in Procs, NEW l \in Lsns, NEW kind \in {"accept", "async"},
               Accept(p, l, kind)
        PROVE  NotForgotten'
    <2>1. pc'[p] # "wait" /\ \A q \in Procs \ {p} : pc'[q] = pc[q]
      BY <1>3 DEF Accept, TypeOK
    <2>2. \A q \in Procs \ {p} : at'[q] = at[q] /\ calls'[q] = calls[q]
      BY <1>3 DEF Accept, TypeOK
    <2>3. UNCHANGED <<queue, status, mail>>
      BY <1>3 DEF Accept
    <2>4. ASSUME NEW q \in Procs, pc'[q] = "wait", status'[at'[q]] = "open"
          PROVE  Queued(at[q], Ref(q))' \/ Told(q)'
      <3>1. q # p
        BY <2>1, <2>4
      <3> QED
        BY <2>1, <2>2, <2>3, <2>4, <3>1 DEF NotForgotten, Queued, Told, Ref
    <2> QED
      BY <2>4 DEF NotForgotten
  <1>4. ASSUME NEW l \in Lsns, AcceptPush(l) PROVE NotForgotten'
    <2>1. PICK p \in Procs : pt[l] = Ref(p) /\ at[p] = l
      BY <1>4 DEF AcceptPush, ThreadsInv
    <2>2. PICK r \in Refs : r = pt[l] /\ r[1] = p
      <3>1. pt[l] \in Refs
        BY <1>4 DEF AcceptPush, TypeOK
      <3>2. pt[l][1] = p
        BY <2>1 DEF Ref
      <3> QED
        BY <3>1, <3>2
    <2>3. /\ \A q \in Procs \ {p} : pc'[q] = pc[q]
          /\ UNCHANGED <<status, calls, at, mail>>
      BY <1>4, <2>2 DEF AcceptPush, TypeOK
    <2>4. /\ \A k \in Lsns : \A x : In(queue[k], x) => In(queue'[k], x)
          /\ In(queue'[l], r)
      <3>1. /\ queue'[l] = Append(queue[l], r) /\ \A k \in Lsns \ {l} : queue'[k] = queue[k]
            /\ queue[l] \in Seq(Refs)
        BY <1>4, <2>2 DEF AcceptPush, TypeOK
      <3>2. \A x : In(queue'[l], x) <=> In(queue[l], x) \/ x = r
        BY <3>1, AppendIn
      <3> QED
        BY <3>1, <3>2
    <2>5. ASSUME NEW q \in Procs, pc'[q] = "wait", status'[at'[q]] = "open"
          PROVE  Queued(at[q], Ref(q))' \/ Told(q)'
      <3>1. CASE q = p
        <4>1. at'[q] = l /\ Ref(q)' = r
          BY <2>1, <2>2, <2>3, <3>1 DEF Ref
        <4> QED
          BY <2>4, <4>1 DEF Queued, In
      <3>2. CASE q # p
        BY <1>0, <2>3, <2>4, <2>5, <3>2, StillWaiting
      <3> QED
        BY <3>1, <3>2
    <2> QED
      BY <2>5 DEF NotForgotten
  <1>5. ASSUME NEW p \in Procs,
               \/ AcceptReplied(p) \/ AcceptTimesOut(p) \/ Exit(p)
               \/ \E l \in Lsns, kind \in {"accept", "async"} : AcceptUnmonitored(p, l, kind)
        PROVE  NotForgotten'
    <2>1. /\ UNCHANGED <<queue, status, at, calls>> /\ pc'[p] # "wait"
          /\ \A q \in Procs \ {p} : pc'[q] = pc[q] /\ mail'[q] = mail[q]
      BY <1>5 DEF AcceptReplied, AcceptTimesOut, AcceptUnmonitored, Exit, TakeReply, TypeOK
    <2> QED
      BY <1>1, <2>1
  <1>6. ASSUME NEW p \in Procs, CancelAccept(p) PROVE NotForgotten'
    <2>1. /\ UNCHANGED <<status, at, calls>> /\ pc'[p] # "wait"
          /\ \A q \in Procs \ {p} : pc'[q] = pc[q] /\ mail'[q] = mail[q]
      BY <1>6 DEF CancelAccept, TakeReply, TypeOK
    <2>2. ASSUME NEW q \in Procs \ {p}, In(queue[at[q]], Ref(q))
          PROVE  In(queue'[at[q]], Ref(q))
      <3>1. PICK l \in Lsns : l = at[p]
        BY <1>0
      <3>2. CASE UNCHANGED queue
        BY <2>2, <3>2
      <3>3. CASE In(queue[l], Ref(p)) /\ queue' = [queue EXCEPT ![l] = Erased(queue[l], Ref(p))]
        <4>1. queue[l] \in Seq(Refs) /\ Distinct(queue[l])
          BY OneAnswerParts DEF TypeOK
        <4>2. \A x : In(Erased(queue[l], Ref(p)), x) <=> In(queue[l], x) /\ x # Ref(p)
          BY <3>3, <4>1, ErasedIn
        <4>3. Ref(q) # Ref(p)
          BY DEF Ref
        <4>4. /\ queue'[l] = Erased(queue[l], Ref(p))
              /\ \A k \in Lsns \ {l} : queue'[k] = queue[k]
          BY <3>3 DEF TypeOK
        <4> QED
          BY <1>0, <2>2, <4>2, <4>3, <4>4
      <3> QED
        BY <1>6, <3>1, <3>2, <3>3 DEF CancelAccept, In
    <2> QED
      BY <1>1, <2>1, <2>2
  <1>7. ASSUME NEW l \in Lsns, StopDeselect(l) \/ StopDelete(l) PROVE NotForgotten'
    <2>1. UNCHANGED <<pc, at, calls, mail>>
      BY <1>7 DEF StopDeselect, StopDelete, procVars
    <2>2. /\ status'[l] # "open"
          /\ \A k \in Lsns \ {l} : status'[k] = status[k] /\ queue'[k] = queue[k]
      BY <1>7 DEF StopDeselect, StopDelete, TypeOK
    <2> QED
      BY <1>0, <1>1, <2>1, <2>2
  <1>8. ASSUME \/ \E l \in Lsns, pkt \in Packets : ReadyInput(l, pkt)
               \/ \E m \in Refs : ProcessExit(m)
        PROVE  NotForgotten'
    <2>1. UNCHANGED <<queue, status, pc, at, calls, mail>>
      BY <1>8 DEF ReadyInput, ProcessExit, procVars
    <2> QED
      BY <1>1, <2>1
  <1>9. ASSUME InputReady PROVE NotForgotten'
    <2>1. mt.on \in Lsns /\ UNCHANGED <<status, pt, procVars>>
      BY <1>9 DEF InputReady, TypeOK
    <2>2. CASE UNCHANGED <<queue, mail>>
      BY <1>1, <2>1, <2>2 DEF procVars
    <2>3. CASE queue[mt.on] # <<>> /\ \E v \in Answers : Answer(mt.on, v)
      BY <2>1, <2>3, AnswerTells
    <2> QED
      BY <1>9, <2>2, <2>3 DEF InputReady, Answers, Ok
  <1>10. ASSUME ProcessExited PROVE NotForgotten'
    <2>1. UNCHANGED <<status, pc, at, calls, mail>>
      BY <1>10 DEF ProcessExited, procVars
    <2>2. PICK l \in Lsns, p \in Procs : l = mt.on /\ p = mt.proc /\ Dead(p)
      <3>1. mt.on \in Lsns /\ mt.proc \in Procs
        BY DEF TypeOK
      <3>2. Dead(mt.proc)
        BY <1>10 DEF ProcessExited, ThreadsInv
      <3> QED
        BY <3>1, <3>2
    <2>3. ASSUME NEW q \in Procs, pc[q] = "wait", In(queue[at[q]], Ref(q))
          PROVE  In(queue'[at[q]], Ref(q))
      <3>1. CASE UNCHANGED queue
        BY <2>3, <3>1
      <3>2. CASE queue' = [queue EXCEPT ![l] = Without(queue[l], p)]
        <4>1. queue[l] \in Seq(Refs) /\ Distinct(queue[l])
          BY OneAnswerParts DEF TypeOK
        <4>2. \A x : In(Without(queue[l], p), x) <=> In(queue[l], x) /\ x[1] # p
          BY <4>1, WithoutIn
        <4>3. Ref(q)[1] = q /\ q # p
          BY <2>2, <2>3 DEF Ref
        <4>4. /\ queue'[l] = Without(queue[l], p)
              /\ \A k \in Lsns \ {l} : queue'[k] = queue[k]
          BY <3>2 DEF TypeOK
        <4> QED
          BY <1>0, <2>3, <4>2, <4>3, <4>4
      <3> QED
        BY <1>10, <2>2, <3>1, <3>2 DEF ProcessExited
    <2> QED
      BY <1>1, <2>1, <2>3
  <1> QED
    BY <1>2, <1>3, <1>4, <1>5, <1>6, <1>7, <1>8, <1>9, <1>10 DEF Next, Continue

\* A waiting acceptor of an open listener is queued, or the driver has sent it
\* an answer: no interleaving of input_ready, process_exited, cancel_accept and
\* stop drops it silently.
THEOREM NobodyForgotten == Spec => []NotForgotten
  <1>1. Init => NotForgotten
    BY DEF Init, NotForgotten
  <1>2. ListenerInv /\ NotForgotten /\ [Next]_vars => NotForgotten'
    BY NotForgottenNext
  <1> QED
    BY <1>1, <1>2, ListenerInvariant, PTL DEF Spec

\* Unless the driver cannot connect the new UDP socket, the answer is one that
\* accept/2 receives, so its caller is not stranded.
THEOREM AcceptorServed ==
    ASSUME "connerr" \notin Packets
    PROVE  Spec => []AcceptorNotStranded
  <1>1. Init => OnlyOk
    BY DEF Init, OnlyOk
  <1>2. ListenerInv /\ OnlyOk /\ [Next]_vars => OnlyOk'
    <2> SUFFICES ASSUME ListenerInv, OnlyOk, [Next]_vars PROVE OnlyOk'
      OBVIOUS
    <2>0. mail \in [Procs -> SUBSET (Refs \X Answers)]
      BY DEF ListenerInv, MonitorsInv, TypeOK
    <2>1. CASE \E p \in Procs : TakeReply(p)
      BY <2>0, <2>1 DEF TakeReply, OnlyOk
    <2>2. CASE \E l \in Lsns, v \in Ok : Answer(l, v)
      <3>1. PICK l \in Lsns, v \in Ok : Answer(l, v)
        BY <2>2
      <3>2. PICK r, p : r = Head(queue[l]) /\ p = r[1]
        OBVIOUS
      <3>3. mail' = mail \/ mail' = [mail EXCEPT ![p] = mail[p] \cup {<<r, v>>}]
        BY <3>1, <3>2 DEF Answer
      <3>4. v # "error"
        BY DEF Ok
      <3> QED
        <4>1. CASE mail' = mail
          BY <4>1 DEF OnlyOk
        <4>2. CASE mail' = [mail EXCEPT ![p] = mail[p] \cup {<<r, v>>}]
          <5> SUFFICES ASSUME NEW q \in Procs, NEW x \in Refs, <<x, "error">> \in mail'[q]
                       PROVE  FALSE
            BY DEF OnlyOk
          <5>1. <<x, "error">> \notin mail[q] /\ <<x, "error">> # <<r, v>>
            BY <3>4 DEF OnlyOk
          <5> QED
            BY <2>0, <4>2, <5>1
        <4> QED
          BY <3>3, <4>1, <4>2
    <2>3. CASE UNCHANGED mail
      BY <2>3 DEF OnlyOk
    <2>4. InputReady => UNCHANGED mail \/ \E l \in Lsns, v \in Ok : Answer(l, v)
      BY ZenonT(60) DEF InputReady, Ok, ListenerInv, MonitorsInv, ThreadsInv, TypeOK
    <2>5. \A p \in Procs : CancelAccept(p) => UNCHANGED mail \/ TakeReply(p)
      BY DEF CancelAccept
    <2>6. (\E p \in Procs : AcceptReplied(p)) => \E p \in Procs : TakeReply(p)
      BY DEF AcceptReplied
    <2>7. UNCHANGED vars => UNCHANGED mail
      BY DEF vars
    <2>8. \A p, l, kind : Accept(p, l, kind) \/ AcceptUnmonitored(p, l, kind) => UNCHANGED mail
      BY DEF Accept, AcceptUnmonitored
    <2>9. \A p : AcceptTimesOut(p) \/ Exit(p) => UNCHANGED mail
      BY DEF AcceptTimesOut, Exit
    <2>10. \A l : AcceptPush(l) \/ StopDeselect(l) \/ StopDelete(l) => UNCHANGED mail
      BY DEF AcceptPush, StopDeselect, StopDelete
    <2>11. \A l, pkt : ReadyInput(l, pkt) => UNCHANGED mail
      BY DEF ReadyInput
    <2>12. (\E m \in Refs : ProcessExit(m)) \/ ProcessExited => UNCHANGED mail
      BY DEF ProcessExit, ProcessExited
    <2> QED
      BY <2>1, <2>2, <2>3, <2>4, <2>5, <2>6, <2>7, <2>8, <2>9, <2>10, <2>11, <2>12
         DEF Next, Continue
  <1>3. ListenerInv /\ NotForgotten /\ OnlyOk => AcceptorNotStranded
    <2> SUFFICES ASSUME ListenerInv, NotForgotten, OnlyOk,
                        NEW p \in Procs, Told(p), pc[p] = "wait"
                 PROVE  HasReply(p)
      BY DEF NotForgotten, AcceptorNotStranded
    <2>1. PICK v \in Answers : <<Ref(p), v>> \in mail[p]
      BY DEF Told
    <2>2. Ref(p) \in Refs
      BY <2>1 DEF ListenerInv, MonitorsInv, TypeOK
    <2>3. v # "error"
      BY <2>1, <2>2 DEF OnlyOk
    <2> QED
      BY <2>1, <2>3 DEF Answers, HasReply
  <1> QED
    BY <1>1, <1>2, <1>3, NobodyForgotten, ListenerInvariant, PTL DEF Spec

-----------------------------------------------------------------------------
(***************************************************************************)
(* One scheduler: no callback runs on a deleted listener                   *)
(***************************************************************************)

\* With one scheduler nothing else is in progress while the main thread is in
\* the middle of a callback, and its listener is still open.
SerialInv ==
    /\ fault = "none"
    /\ mt.pc # "idle" => /\ status[mt.on] = "open"
                         /\ \A l \in Lsns : pt[l] = NoRef /\ status[l] # "stopping"

\* Every step keeps it.
LEMMA SerialNext ==
    ASSUME ~SMP, "junk" \notin Packets
    PROVE  ListenerInv /\ SerialInv /\ [Next]_vars => SerialInv'
  <1> SUFFICES ASSUME ListenerInv, SerialInv, [Next]_vars PROVE SerialInv'
    OBVIOUS
  <1>0. TypeOK /\ MonitorTargetsLive /\ ThreadsInv
    BY DEF ListenerInv, MonitorsInv
  <1>1. CASE UNCHANGED vars
    BY <1>1 DEF vars, SerialInv
  <1>2. ASSUME NEW p \in Procs,
               \/ \E l \in Lsns, kind \in {"accept", "async"} : Accept(p, l, kind)
               \/ CancelAccept(p) \/ Exit(p)
        PROVE  SerialInv'
    <2>1. mt.pc = "idle" /\ UNCHANGED <<mt, fault>>
      BY <1>2 DEF Accept, CancelAccept, Exit, MayStart
    <2> QED
      BY <2>1 DEF SerialInv
  <1>3. ASSUME NEW p \in Procs, AcceptReplied(p) \/ AcceptTimesOut(p) PROVE SerialInv'
    BY <1>3 DEF AcceptReplied, AcceptTimesOut, SerialInv
  <1>4. ASSUME NEW l \in Lsns, AcceptPush(l) \/ StopDelete(l) \/ StopDeselect(l)
        PROVE  SerialInv'
    <2>1. mt.pc = "idle" /\ UNCHANGED <<mt, fault>>
      BY <1>4 DEF AcceptPush, StopDelete, StopDeselect, MayStart, SerialInv
    <2> QED
      BY <2>1 DEF SerialInv
  <1>5. ASSUME NEW l \in Lsns, NEW pkt \in Packets, ReadyInput(l, pkt) PROVE SerialInv'
    <2>1. mt'.on = l
      BY <1>0, <1>5 DEF ReadyInput, TypeOK
    <2> QED
      BY <1>5, <2>1 DEF ReadyInput, MayStart, SerialInv
  <1>6. ASSUME InputReady PROVE SerialInv'
    <2>1. status[mt.on] = "open" /\ mt.pkt # "junk"
      BY <1>0, <1>6 DEF InputReady, SerialInv, ThreadsInv
    <2>2. mt' = MainIdle /\ fault' = fault
      BY <1>6, <2>1 DEF InputReady
    <2> QED
      BY <2>2, MainIdleType DEF SerialInv
  <1>7. ASSUME NEW m \in Refs, ProcessExit(m) PROVE SerialInv'
    <2>1. CASE UNCHANGED mt
      BY <1>7, <2>1 DEF ProcessExit, SerialInv
    <2>2. ASSUME NEW l \in Lsns, <<m, l>> \in mon_map,
                 mt' = [mt EXCEPT !.pc = "exited", !.on = l, !.proc = m[1]]
          PROVE  SerialInv'
      <3>1. mt'.on = l
        BY <1>0, <2>2 DEF TypeOK
      <3>2. <<m, l>>[2] = l
        OBVIOUS
      <3>3. status[l] # "deleted"
        BY <1>0, <2>2, <3>2 DEF MonitorTargetsLive
      <3>4. status[l] = "open"
        BY <1>0, <1>7, <3>3 DEF ProcessExit, MayStart, TypeOK
      <3> QED
        BY <1>7, <3>1, <3>4 DEF ProcessExit, MayStart, SerialInv
    <2> QED
      BY <1>7, <2>1, <2>2 DEF ProcessExit
  <1>8. ASSUME ProcessExited PROVE SerialInv'
    BY <1>8, MainIdleType DEF ProcessExited, SerialInv
  <1> QED
    BY <1>1, <1>2, <1>3, <1>4, <1>5, <1>6, <1>7, <1>8 DEF Next, Continue, AcceptUnmonitored

\* On one scheduler, and if every datagram that reaches a listener is uTP, no
\* callback runs on a deleted listener and no server is deleted twice.
THEOREM SerialNoFault ==
    ASSUME ~SMP, "junk" \notin Packets
    PROVE  Spec => []NoFault
  <1>1. Init => SerialInv
    BY MainIdleType DEF Init, SerialInv
  <1>2. ListenerInv /\ SerialInv /\ [Next]_vars => SerialInv'
    BY SerialNext
  <1>3. SerialInv => NoFault
    BY DEF SerialInv, NoFault
  <1> QED
    BY <1>1, <1>2, <1>3, ListenerInvariant, PTL DEF Spec

-----------------------------------------------------------------------------
(***************************************************************************)
(* One listener: a queued request has a monitor                            *)
(*                                                                         *)
(* del_mon takes the one monitor that proc_mon_map has for the process,    *)
(* which may have been made for another of its requests.  Which monitor    *)
(* goes with which request is lost, but the numbers stay right.            *)
(***************************************************************************)

\* The requests of p that are still to be answered, and its monitors
Pending(p) == {r \in Refs : r[1] = p /\ \E l \in Lsns : Queued(l, r) \/ pt[l] = r}
Monitors(p) == {m \in monitored : m[1] = p /\ \E l \in Lsns : <<m, l>> \in mon_map}

\* While the listeners are open, a process has at least as many monitors as
\* requests, unless one has fired and its requests are about to go, or only the
\* request is left in which it was killed.
Counted(p) ==
    \/ \E l \in Lsns : status[l] # "open"
    \/ mt.pc = "exited" /\ mt.proc = p
    \/ pc[p] = "killed" /\ Pending(p) \subseteq {Ref(p)}
    \/ Cardinality(Pending(p)) <= Cardinality(Monitors(p))

\* A process killed inside accept remains so.
StaysKilled(p) == pc[p] = "killed" => pc'[p] = "killed" /\ Ref(p)' = Ref(p)

CountInv ==
    /\ \A p \in Procs : Counted(p)
    /\ \A p \in Procs : proc_mon[p] # NoRef => proc_mon[p][1] = p
    /\ \A m \in monitored : Made(m)

\* The requests of one process are finitely many.
LEMMA RequestsFinite == \A p : IsFiniteSet({p} \X (1..MaxCalls))
  <1>1. \A p : IsFiniteSet({p})
    BY FS_Singleton
  <1>2. 1 \in Int /\ MaxCalls \in Int
    BY ListenerBounds
  <1>3. IsFiniteSet(1..MaxCalls)
    BY <1>2, FS_Interval
  <1> QED
    BY <1>1, <1>3, FS_Product

\* So both are finite.
LEMMA OneSideFinite ==
    ASSUME NEW p \in Procs, TypeOK
    PROVE  IsFiniteSet(Pending(p)) /\ IsFiniteSet(Monitors(p))
  <1>1. IsFiniteSet({p} \X (1..MaxCalls))
    BY RequestsFinite
  <1>2. Pending(p) \subseteq {p} \X (1..MaxCalls)
    BY DEF Pending, Refs
  <1>3. Monitors(p) \subseteq {p} \X (1..MaxCalls)
    BY DEF Monitors, Refs, TypeOK
  <1> QED
    BY <1>1, <1>2, <1>3, FS_Subset

\* They are in the next state, too.
LEMMA PendingFinite ==
    ASSUME NEW p \in Procs, TypeOK, TypeOK'
    PROVE  /\ IsFiniteSet(Pending(p)) /\ IsFiniteSet(Monitors(p))
           /\ IsFiniteSet(Monitors(p)')
  <1>1. IsFiniteSet({p} \X (1..MaxCalls))
    BY RequestsFinite
  <1>2. Monitors(p)' \subseteq {p} \X (1..MaxCalls)
    BY DEF Monitors, Refs, TypeOK
  <1> QED
    BY <1>1, <1>2, FS_Subset, OneSideFinite

\* Fewer on the left, more on the right.
LEMMA CountKept ==
    ASSUME NEW A, NEW B, NEW A1, NEW B1, IsFiniteSet(A), IsFiniteSet(B1),
           Cardinality(A) <= Cardinality(B), A1 \subseteq A, B \subseteq B1
    PROVE  Cardinality(A1) <= Cardinality(B1)
  <1>1. Cardinality(A1) <= Cardinality(A) /\ Cardinality(B) <= Cardinality(B1)
    BY FS_Subset
  <1>2. IsFiniteSet(A1) /\ IsFiniteSet(B)
    BY FS_Subset
  <1>3. /\ Cardinality(A) \in Nat /\ Cardinality(A1) \in Nat
        /\ Cardinality(B) \in Nat /\ Cardinality(B1) \in Nat
    BY <1>2, FS_CardinalityType
  <1> QED
    BY <1>1, <1>3

\* One less on the left, at most one less on the right.
LEMMA CountRemoved ==
    ASSUME NEW A, NEW B, NEW A1, NEW B1, IsFiniteSet(A), IsFiniteSet(B), IsFiniteSet(B1),
           Cardinality(A) <= Cardinality(B),
           NEW x \in A, NEW y, A1 \subseteq A \ {x}, B \ {y} \subseteq B1
    PROVE  Cardinality(A1) <= Cardinality(B1)
  <1>1. /\ IsFiniteSet(A \ {x}) /\ Cardinality(A \ {x}) = Cardinality(A) - 1
        /\ IsFiniteSet(B \ {y})
    BY FS_RemoveElement
  <1>2. Cardinality(B \ {y}) = Cardinality(B) \/ Cardinality(B \ {y}) = Cardinality(B) - 1
    BY FS_RemoveElement
  <1>3. Cardinality(A) \in Nat /\ Cardinality(B) \in Nat
    BY FS_CardinalityType
  <1>4. Cardinality(A \ {x}) <= Cardinality(B \ {y})
    BY <1>1, <1>2, <1>3
  <1> QED
    BY <1>1, <1>4, CountKept

\* One more on both sides.
LEMMA CountAdded ==
    ASSUME NEW A, NEW B, NEW A1, NEW B1, IsFiniteSet(A), IsFiniteSet(B), IsFiniteSet(B1),
           Cardinality(A) <= Cardinality(B),
           NEW x, x \notin B, A1 \subseteq A \cup {x}, B \cup {x} \subseteq B1
    PROVE  Cardinality(A1) <= Cardinality(B1)
  <1>1. /\ IsFiniteSet(A \cup {x}) /\ IsFiniteSet(B \cup {x})
        /\ Cardinality(B \cup {x}) = Cardinality(B) + 1
    BY FS_AddElement
  <1>2. Cardinality(A \cup {x}) = Cardinality(A) \/ Cardinality(A \cup {x}) = Cardinality(A) + 1
    BY FS_AddElement
  <1>3. Cardinality(A) \in Nat /\ Cardinality(B) \in Nat
    BY FS_CardinalityType
  <1>4. Cardinality(A \cup {x}) <= Cardinality(B \cup {x})
    BY <1>1, <1>2, <1>3
  <1> QED
    BY <1>1, <1>4, CountKept

\* The numbers of p stay right when its requests only go and its monitors do
\* not.
LEMMA CountedKept ==
    ASSUME TypeOK, TypeOK', NEW p \in Procs, Counted(p), UNCHANGED status, StaysKilled(p),
           mt.pc = "exited" /\ mt.proc = p => mt' = mt,
           Pending(p)' \subseteq Pending(p), Monitors(p) \subseteq Monitors(p)'
    PROVE  Counted(p)'
  <1>1. CASE \E l \in Lsns : status[l] # "open"
    BY <1>1 DEF Counted
  <1>2. CASE mt.pc = "exited" /\ mt.proc = p
    BY <1>2 DEF Counted
  <1>3. CASE Cardinality(Pending(p)) <= Cardinality(Monitors(p))
    <2>1. IsFiniteSet(Pending(p)) /\ IsFiniteSet(Monitors(p)')
      BY PendingFinite
    <2>2. Cardinality(Pending(p)') <= Cardinality(Monitors(p)')
      BY <1>3, <2>1, CountKept
    <2> QED
      BY <2>2 DEF Counted
  <1>4. CASE pc[p] = "killed" /\ Pending(p) \subseteq {Ref(p)}
    BY <1>4 DEF Counted, StaysKilled
  <1> QED
    BY <1>1, <1>2, <1>3, <1>4 DEF Counted

\* del_mon takes at most one monitor, and it is one of that process.
LEMMA DelMonMonitors ==
    ASSUME TypeOK, CountInv, NEW p \in Procs, del_mon(p), UNCHANGED calls
    PROVE  /\ \A m : m \in Monitors(p) /\ m # proc_mon[p] => m \in Monitors(p)'
           /\ \A q \in Procs \ {p} : Monitors(q) \subseteq Monitors(q)'
           /\ \A q \in Procs : proc_mon'[q] # NoRef => proc_mon'[q][1] = q
           /\ (\A m \in monitored : Made(m))'
  <1>1. \A q \in Procs : \A m : m \in Monitors(q) /\ m # proc_mon[p] => m \in Monitors(q)'
    BY DEF Monitors, del_mon
  <1>2. \A q \in Procs \ {p} : \A m : m \in Monitors(q) => m # proc_mon[p]
    <2> SUFFICES ASSUME NEW q \in Procs \ {p}, proc_mon[p] \in Monitors(q) PROVE FALSE
      OBVIOUS
    <2>1. proc_mon[p] \in Refs /\ proc_mon[p][1] = q
      BY DEF Monitors, TypeOK
    <2>2. proc_mon[p] # NoRef
      BY <2>1, RefsArePairs
    <2> QED
      BY <2>1, <2>2 DEF CountInv
  <1>3. \A q \in Procs : proc_mon'[q] # NoRef => proc_mon'[q][1] = q
    BY DelMonTypes DEF CountInv
  <1>4. (\A m \in monitored : Made(m))'
    BY DelMonTypes DEF CountInv, Made
  <1> QED
    BY <1>1, <1>2, <1>3, <1>4

\* One request of p leaves its queue and del_mon(p) takes a monitor.
LEMMA CountOneLess ==
    ASSUME TypeOK, TypeOK', CountInv, NEW p \in Procs, del_mon(p),
           UNCHANGED <<calls, status, pt>>, \A q \in Procs : StaysKilled(q),
           mt.pc = "exited" => mt.proc # p /\ mt' = mt,
           NEW l \in Lsns, NEW r \in Refs, r[1] = p, In(queue[l], r), pt[l] # r,
           \A k \in Lsns : In(queue[k], r) \/ pt[k] = r => k = l,
           \A k \in Lsns : \A x : In(queue'[k], x) => In(queue[k], x) /\ (k = l => x # r)
    PROVE  CountInv'
  <1>1. \A q \in Procs : Pending(q)' \subseteq Pending(q)
    BY QueuedIsIn DEF Pending
  <1>2. r \in Pending(p) /\ r \notin Pending(p)'
    <2>1. r \in Pending(p)
      BY QueuedIsIn DEF Pending
    <2>2. \A k \in Lsns : ~In(queue'[k], r) /\ pt'[k] # r
      OBVIOUS
    <2> QED
      BY <2>1, <2>2, QueuedIsIn DEF Pending
  <1>3. Counted(p)'
    <2>1. CASE \E k \in Lsns : status[k] # "open"
      BY <2>1 DEF Counted
    <2>2. CASE Cardinality(Pending(p)) <= Cardinality(Monitors(p))
      <3>1. IsFiniteSet(Pending(p)) /\ IsFiniteSet(Monitors(p)) /\ IsFiniteSet(Monitors(p)')
        BY PendingFinite
      <3>2. /\ Pending(p)' \subseteq Pending(p) \ {r}
            /\ Monitors(p) \ {proc_mon[p]} \subseteq Monitors(p)'
        BY <1>1, <1>2, DelMonMonitors
      <3>3. Cardinality(Pending(p)') <= Cardinality(Monitors(p)')
        BY <1>2, <2>2, <3>1, <3>2, CountRemoved
      <3> QED
        BY <3>3 DEF Counted
    <2>3. CASE pc[p] = "killed" /\ Pending(p) \subseteq {Ref(p)}
      BY <1>1, <2>3 DEF Counted, StaysKilled
    <2> QED
      BY <2>1, <2>2, <2>3 DEF CountInv, Counted
  <1>4. ASSUME NEW q \in Procs \ {p} PROVE Counted(q)'
    BY <1>1, DelMonMonitors, CountedKept DEF CountInv
  <1> QED
    BY <1>3, <1>4, DelMonMonitors DEF CountInv

\* The maps and the queues stay as they are.
LEMMA CountUnchanged ==
    ASSUME TypeOK, TypeOK', CountInv,
           UNCHANGED <<mon_map, proc_mon, monitored, calls, status>>,
           mt.pc = "exited" => mt' = mt, \A p \in Procs : StaysKilled(p),
           \A p \in Procs : Pending(p)' \subseteq Pending(p)
    PROVE  CountInv'
  <1>1. \A p \in Procs : Monitors(p)' = Monitors(p)
    BY DEF Monitors
  <1>2. \A p \in Procs : Counted(p)'
    BY <1>1, CountedKept DEF CountInv
  <1> QED
    BY <1>2 DEF CountInv, Made

\* A new request has a new monitor.
LEMMA CountAccept ==
    ASSUME ListenerInv, TypeOK', CountInv, NEW p \in Procs, NEW l \in Lsns,
           NEW kind \in {"accept", "async"}, Accept(p, l, kind),
           \A q \in Procs : StaysKilled(q)
    PROVE  CountInv'
  <1>0. TypeOK /\ RequestsInv
    BY DEF ListenerInv, MonitorsInv
  <1>1. PICK r : r = <<p, calls[p] + 1>>
    OBVIOUS
  <1>2. calls[p] \in Nat /\ calls[p] + 1 \in 1..MaxCalls
    BY <1>0, ListenerBounds DEF Accept, TypeOK
  <1>3. r \in Refs /\ r[1] = p /\ r[2] = calls[p] + 1 /\ ~Made(r)
    BY <1>1, <1>2, RefsArePairs DEF Made
  <1>4. /\ mon_map' = mon_map \cup {<<r, l>>} /\ monitored' = monitored \cup {r}
        /\ UNCHANGED <<queue, status, mt>>
    BY <1>1 DEF Accept, add_mon
  <1>5. pt'[l] = r /\ \A k \in Lsns \ {l} : pt'[k] = pt[k]
    BY <1>0, <1>1 DEF Accept, TypeOK
  <1>6. proc_mon'[p] = r \/ proc_mon' = proc_mon
    BY <1>0, <1>1 DEF Accept, add_mon, TypeOK
  <1>7. \A q \in Procs \ {p} : proc_mon'[q] = proc_mon[q]
    BY <1>0 DEF Accept, add_mon, TypeOK
  <1>8. \A q \in Procs : \A x : x \in Monitors(q) => x \in Monitors(q)'
    BY <1>4 DEF Monitors
  <1>9. r \in Monitors(p)' /\ r \notin Monitors(p)
    BY <1>3, <1>4 DEF Monitors, CountInv
  <1>10. \A q \in Procs : \A x : x \in Pending(q)' => x \in Pending(q) \/ (q = p /\ x = r)
    <2> SUFFICES ASSUME NEW q \in Procs, NEW x \in Pending(q)', x # r PROVE x \in Pending(q)
      BY <1>3 DEF Pending
    <2>1. PICK k \in Lsns : In(queue'[k], x) \/ pt'[k] = x
      BY QueuedIsIn DEF Pending
    <2>2. In(queue[k], x) \/ pt[k] = x
      BY <1>4, <1>5, <2>1
    <2> QED
      BY <2>2, QueuedIsIn DEF Pending
  <1>11. Counted(p)'
    <2>1. CASE (\E k \in Lsns : status[k] # "open") \/ (mt.pc = "exited" /\ mt.proc = p)
      BY <1>4, <2>1 DEF Counted
    <2>2. CASE Cardinality(Pending(p)) <= Cardinality(Monitors(p))
      <3>1. IsFiniteSet(Pending(p)) /\ IsFiniteSet(Monitors(p)) /\ IsFiniteSet(Monitors(p)')
        BY <1>0, PendingFinite
      <3>2. /\ Pending(p)' \subseteq Pending(p) \cup {r}
            /\ Monitors(p) \cup {r} \subseteq Monitors(p)'
        BY <1>8, <1>9, <1>10
      <3>3. Cardinality(Pending(p)') <= Cardinality(Monitors(p)')
        BY <1>9, <2>2, <3>1, <3>2, CountAdded
      <3> QED
        BY <3>3 DEF Counted
    <2>3. pc[p] # "killed"
      BY DEF Accept
    <2> QED
      BY <2>1, <2>2, <2>3 DEF CountInv, Counted
  <1>12. ASSUME NEW q \in Procs \ {p} PROVE Counted(q)'
    <2>1. Pending(q)' \subseteq Pending(q) /\ Monitors(q) \subseteq Monitors(q)'
      BY <1>8, <1>10
    <2> QED
      BY <1>0, <1>4, <2>1, CountedKept DEF CountInv
  <1>13. \A q \in Procs : proc_mon'[q] # NoRef => proc_mon'[q][1] = q
    BY <1>3, <1>6, <1>7 DEF CountInv
  <1>14. ASSUME NEW m \in monitored' PROVE Made(m)'
    <2>1. /\ calls'[p] = calls[p] + 1 /\ \A q \in Procs \ {p} : calls'[q] = calls[q]
      BY <1>0 DEF Accept, TypeOK
    <2>2. CASE m = r
      BY <1>2, <1>3, <2>1, <2>2 DEF Made
    <2>3. CASE m # r
      <3>1. m \in Refs /\ Made(m) /\ m[1] \in Procs /\ m[2] \in 1..MaxCalls
        BY <1>0, <1>4, <2>3, RefsArePairs DEF CountInv, TypeOK
      <3>2. m[2] \in Nat
        BY <3>1, ListenerBounds
      <3>3. CASE m[1] = p
        BY <1>2, <2>1, <3>1, <3>2, <3>3 DEF Made
      <3>4. CASE m[1] # p
        BY <2>1, <3>1, <3>4 DEF Made
      <3> QED
        BY <3>3, <3>4
    <2> QED
      BY <2>2, <2>3
  <1> QED
    BY <1>11, <1>12, <1>13, <1>14 DEF CountInv

\* No step brings back a process killed inside accept.
LEMMA KilledForGood ==
    ASSUME ListenerInv, [Next]_vars, NEW q \in Procs PROVE StaysKilled(q)
  <1> USE DEF ListenerInv, MonitorsInv, StaysKilled, Ref, TypeOK
  <1>1. CASE UNCHANGED vars
    BY <1>1 DEF vars
  <1>2. ASSUME NEW p \in Procs, NEW l \in Lsns, NEW kind \in {"accept", "async"},
               Accept(p, l, kind) \/ AcceptUnmonitored(p, l, kind)
        PROVE  StaysKilled(q)
    BY <1>2 DEF Accept, AcceptUnmonitored
  <1>3. ASSUME NEW l \in Lsns, AcceptPush(l) PROVE StaysKilled(q)
    BY <1>3 DEF AcceptPush
  <1>4. ASSUME NEW p \in Procs, AcceptReplied(p) \/ AcceptTimesOut(p) \/ CancelAccept(p)
        PROVE  StaysKilled(q)
    BY <1>4 DEF AcceptReplied, AcceptTimesOut, CancelAccept
  <1>5. ASSUME NEW p \in Procs, Exit(p) PROVE StaysKilled(q)
    BY <1>5 DEF Exit, Dead
  <1>6. CASE \/ \E l \in Lsns : StopDeselect(l) \/ StopDelete(l)
             \/ \E l \in Lsns, pkt \in Packets : ReadyInput(l, pkt)
             \/ InputReady \/ ProcessExited \/ \E m \in Refs : ProcessExit(m)
    BY <1>6 DEF StopDeselect, StopDelete, ReadyInput, InputReady, ProcessExited,
       ProcessExit, procVars
  <1> QED
    BY <1>1, <1>2, <1>3, <1>4, <1>5, <1>6 DEF Next, Continue

\* Every step keeps the numbers right, if there is one listener.
LEMMA CountNext ==
    ASSUME \A k, l \in Lsns : k = l
    PROVE  ListenerInv /\ CountInv /\ [Next]_vars => CountInv'
  <1> SUFFICES ASSUME ListenerInv, CountInv, [Next]_vars PROVE CountInv'
    OBVIOUS
  <1>0. /\ TypeOK /\ TypeOK' /\ ThreadsInv /\ RequestsInv
        /\ \A q \in Procs : StaysKilled(q)
    BY ListenerNext, KilledForGood DEF ListenerInv, MonitorsInv
  <1>1. \A l \in Lsns : queue[l] \in Seq(Refs) /\ Distinct(queue[l])
    BY <1>0, OneAnswerParts DEF TypeOK, ListenerInv
  <1>2. ASSUME UNCHANGED <<queue, pt>> PROVE \A p \in Procs : Pending(p)' \subseteq Pending(p)
    BY <1>2 DEF Pending, Queued
  <1>3. CASE UNCHANGED vars
    BY <1>0, <1>2, <1>3, CountUnchanged DEF vars
  <1>4. ASSUME NEW p \in Procs, NEW l \in Lsns, NEW kind \in {"accept", "async"},
               Accept(p, l, kind)
        PROVE  CountInv'
    BY <1>0, <1>4, CountAccept
  <1>5. ASSUME NEW l \in Lsns, AcceptPush(l) PROVE CountInv'
    <2>1. PICK r \in Refs : r = pt[l]
      BY <1>0, <1>5 DEF AcceptPush, TypeOK
    <2>2. /\ queue'[l] = Append(queue[l], r) /\ \A k \in Lsns \ {l} : queue'[k] = queue[k]
          /\ pt'[l] = NoRef /\ \A k \in Lsns \ {l} : pt'[k] = pt[k]
      BY <1>0, <1>5, <2>1 DEF AcceptPush, TypeOK
    <2>3. \A x : In(queue'[l], x) <=> In(queue[l], x) \/ x = r
      BY <1>1, <2>2, AppendIn
    <2>4. ASSUME NEW p \in Procs, NEW x \in Pending(p)' PROVE x \in Pending(p)
      <3>1. PICK k \in Lsns : In(queue'[k], x) \/ pt'[k] = x
        BY <2>4, QueuedIsIn DEF Pending
      <3>2. x \in Refs /\ x[1] = p /\ x # NoRef
        BY <2>4, RefsArePairs DEF Pending
      <3>3. In(queue[k], x) \/ pt[k] = x
        BY <2>1, <2>2, <2>3, <3>1, <3>2
      <3> QED
        BY <3>2, <3>3, QueuedIsIn DEF Pending
    <2> QED
      BY <1>0, <1>5, <2>4, CountUnchanged DEF AcceptPush
  <1>6. ASSUME NEW p \in Procs,
               \/ AcceptReplied(p) \/ AcceptTimesOut(p) \/ Exit(p)
               \/ \E l \in Lsns, kind \in {"accept", "async"} : AcceptUnmonitored(p, l, kind)
        PROVE  CountInv'
    BY <1>0, <1>2, <1>6, CountUnchanged
       DEF AcceptReplied, AcceptTimesOut, AcceptUnmonitored, Exit
  <1>7. ASSUME NEW p \in Procs, CancelAccept(p) PROVE CountInv'
    <2>0. PICK r : r = Ref(p)
      OBVIOUS
    <2>1. PICK l \in Lsns : l = at[p] /\ r = Ref(p)
      BY <1>0, <2>0 DEF TypeOK
    <2>2. UNCHANGED <<status, pt, mt, calls>>
      BY <1>7 DEF CancelAccept
    <2>3. CASE UNCHANGED <<queue, mon_map, proc_mon, monitored>>
      BY <1>0, <1>2, <2>2, <2>3, CountUnchanged
    <2>4. CASE /\ In(queue[l], r) /\ del_mon(p)
               /\ queue' = [queue EXCEPT ![l] = Erased(queue[l], r)]
      <3>1. r \in Refs /\ r[1] = p
        <4>1. r \in Refs
          BY <1>1, <2>4, ElementOfSeq DEF In
        <4>2. r[1] = p
          BY <2>1 DEF Ref
        <4> QED
          BY <4>1, <4>2
      <3>2. \A x : In(Erased(queue[l], r), x) <=> In(queue[l], x) /\ x # r
        BY <1>1, <2>4, ErasedIn
      <3>3. queue'[l] = Erased(queue[l], r) /\ \A k \in Lsns \ {l} : queue'[k] = queue[k]
        BY <1>0, <2>4 DEF TypeOK
      <3>4. pt[l] # r
        BY <1>0, <2>4, <3>1, QueuedIsIn DEF RequestsInv
      <3>5. mt.pc = "exited" => mt.proc # p
        BY <1>0, <1>7 DEF ThreadsInv, CancelAccept, Dead
      <3> QED
        BY <1>0, <2>2, <2>4, <3>1, <3>2, <3>3, <3>4, <3>5, CountOneLess
    <2> QED
      BY <1>7, <2>1, <2>3, <2>4 DEF CancelAccept, In
  <1>8. ASSUME NEW l \in Lsns, StopDeselect(l) \/ StopDelete(l) PROVE CountInv'
    <2>1. status'[l] # "open" /\ UNCHANGED calls
      BY <1>0, <1>8 DEF StopDeselect, StopDelete, TypeOK, procVars
    <2>2. monitored' \subseteq monitored
      BY <1>8 DEF StopDeselect, StopDelete, del_mons
    <2>3. \A p \in Procs : proc_mon'[p] # NoRef => proc_mon'[p] = proc_mon[p]
      BY <1>8 DEF StopDeselect, StopDelete, del_mons
    <2> QED
      BY <2>1, <2>2, <2>3 DEF CountInv, Counted, Made
  <1>9. ASSUME NEW l \in Lsns, NEW pkt \in Packets, ReadyInput(l, pkt) PROVE CountInv'
    BY <1>0, <1>2, <1>9, CountUnchanged DEF ReadyInput, procVars
  <1>10. ASSUME InputReady PROVE CountInv'
    <2>1. PICK l \in Lsns : l = mt.on
      BY <1>0 DEF TypeOK
    <2>2. mt.pc = "input" /\ UNCHANGED <<status, pt, calls>>
      BY <1>10 DEF InputReady, procVars
    <2>3. CASE UNCHANGED <<queue, mon_map, proc_mon, monitored>>
      BY <1>0, <1>2, <2>2, <2>3, CountUnchanged
    <2>4. CASE queue[l] # <<>> /\ \E v \in Answers : Answer(l, v)
      <3>1. PICK r : r = Head(queue[l])
        OBVIOUS
      <3>2. /\ In(queue[l], r) /\ r \in Refs /\ r[1] \in Procs
            /\ \A x : In(Tail(queue[l]), x) <=> In(queue[l], x) /\ x # r
        BY <1>1, <2>4, <3>1, TailIn, RefsArePairs
      <3>3. queue'[l] = Tail(queue[l]) /\ \A k \in Lsns \ {l} : queue'[k] = queue[k]
        BY <1>0, <2>4 DEF Answer, Served, TypeOK
      <3>4. pt[l] # r
        BY <1>0, <3>2, QueuedIsIn DEF RequestsInv
      <3>5. del_mon(r[1])
        BY <2>4, <3>1 DEF Answer
      <3> QED
        BY <1>0, <2>2, <3>2, <3>3, <3>4, <3>5, CountOneLess
    <2> QED
      BY <1>10, <2>1, <2>3, <2>4 DEF InputReady, Answers, Ok
  <1>11. ASSUME NEW m \in Refs, ProcessExit(m) PROVE CountInv'
    <2>1. /\ UNCHANGED <<queue, pt, status, calls>> /\ mt.pc = "idle"
          /\ monitored' = monitored \ {m} /\ m[1] \in Procs
      BY <1>11, RefsArePairs DEF ProcessExit, procVars
    <2>2. /\ \A q \in Procs : proc_mon'[q] # NoRef => proc_mon'[q] = proc_mon[q]
          /\ \A e \in mon_map : e[1] # m => e \in mon_map'
      <3>1. CASE UNCHANGED <<mon_map, proc_mon>>
        BY <3>1
      <3>2. ASSUME NEW l \in Lsns, mon_map' = mon_map \ {<<m, l>>},
                   proc_mon' = [proc_mon EXCEPT ![m[1]] = NoRef]
            PROVE  /\ \A q \in Procs : proc_mon'[q] # NoRef => proc_mon'[q] = proc_mon[q]
                   /\ \A e \in mon_map : e[1] # m => e \in mon_map'
        <4>1. \A q \in Procs : proc_mon'[q] = IF q = m[1] THEN NoRef ELSE proc_mon[q]
          BY <1>0, <3>2 DEF TypeOK
        <4>2. <<m, l>>[1] = m
          OBVIOUS
        <4> QED
          BY <3>2, <4>1, <4>2
      <3> QED
        BY <1>11, <3>1, <3>2 DEF ProcessExit
    <2>3. \A q \in Procs : \A x : x \in Monitors(q) /\ x # m => x \in Monitors(q)'
      <3> SUFFICES ASSUME NEW q \in Procs, NEW x \in Monitors(q), x # m
                   PROVE  x \in Monitors(q)'
        OBVIOUS
      <3>1. PICK l \in Lsns : <<x, l>> \in mon_map
        BY DEF Monitors
      <3>2. <<x, l>> \in mon_map'
        BY <2>2, <3>1
      <3> QED
        BY <2>1, <3>2 DEF Monitors
    <2>4. ASSUME NEW q \in Procs, m \in Monitors(q) PROVE mt'.pc = "exited" /\ mt'.proc = q
      <3>1. m[1] = q /\ \E l \in Lsns : <<m, l>> \in mon_map
        BY <2>4 DEF Monitors
      <3> QED
        BY <1>0, <1>11, <3>1 DEF ProcessExit, TypeOK
    <2>5. ASSUME NEW q \in Procs PROVE Counted(q)'
      <3>1. CASE m \in Monitors(q)
        BY <2>4, <3>1 DEF Counted
      <3>2. CASE m \notin Monitors(q)
        BY <1>0, <1>2, <2>1, <2>3, <3>2, CountedKept DEF CountInv
      <3> QED
        BY <3>1, <3>2
    <2> QED
      BY <2>1, <2>2, <2>5 DEF CountInv, Made
  <1>12. ASSUME ProcessExited PROVE CountInv'
    <2>1. PICK l \in Lsns, p \in Procs : l = mt.on /\ p = mt.proc
      BY <1>0 DEF TypeOK
    <2>2. /\ UNCHANGED <<status, mon_map, proc_mon, monitored, pt, calls>> /\ Dead(p)
      BY <1>0, <1>12, <2>1 DEF ProcessExited, procVars, ThreadsInv
    <2>3. \A q \in Procs : Monitors(q)' = Monitors(q)
      BY <2>2 DEF Monitors
    <2>4. CASE status[l] = "deleted"
      BY <2>2, <2>4 DEF CountInv, Counted, Made
    <2>5. CASE queue' = [queue EXCEPT ![l] = Without(queue[l], p)]
      <3>1. \A x : In(Without(queue[l], p), x) <=> In(queue[l], x) /\ x[1] # p
        BY <1>1, WithoutIn
      <3>2. queue'[l] = Without(queue[l], p) /\ \A k \in Lsns : k = l
        BY <1>0, <2>5 DEF TypeOK
      <3>3. Pending(p)' = {} \/ (pc[p] = "killed" /\ Pending(p)' \subseteq {Ref(p)})
        <4> SUFFICES ASSUME NEW x \in Pending(p)' PROVE x = Ref(p) /\ pc[p] = "killed"
          OBVIOUS
        <4>1. x[1] = p /\ x \in Refs /\ (In(queue'[l], x) \/ pt[l] = x)
          BY <2>2, <3>2, QueuedIsIn DEF Pending
        <4>2. pt[l] = x
          BY <3>1, <3>2, <4>1
        <4>3. PICK q \in Procs : pt[l] = Ref(q) /\ pc[q] \in {"accept", "async", "killed"}
          BY <1>0, <4>1, <4>2, RefsArePairs DEF ThreadsInv
        <4>4. q = p
          BY <4>1, <4>2, <4>3 DEF Ref
        <4> QED
          BY <2>2, <4>2, <4>3, <4>4 DEF Dead
      <3>4. Counted(p)'
        <4>1. CASE Pending(p)' = {}
          <5>1. Cardinality(Pending(p)') = 0 /\ Cardinality(Monitors(p)') \in Nat
            BY <1>0, <4>1, PendingFinite, FS_EmptySet, FS_CardinalityType
          <5> QED
            BY <5>1 DEF Counted
        <4>2. CASE pc[p] = "killed" /\ Pending(p)' \subseteq {Ref(p)}
          BY <1>0, <4>2 DEF Counted, StaysKilled
        <4> QED
          BY <3>3, <4>1, <4>2
      <3>5. ASSUME NEW q \in Procs \ {p} PROVE Counted(q)'
        <4>1. Pending(q)' \subseteq Pending(q)
          BY <2>2, <3>1, <3>2, QueuedIsIn DEF Pending
        <4> QED
          BY <1>0, <2>1, <2>2, <2>3, <4>1, CountedKept DEF CountInv
      <3> QED
        BY <2>2, <3>4, <3>5 DEF CountInv, Made
    <2> QED
      BY <1>12, <2>1, <2>4, <2>5 DEF ProcessExited
  <1> QED
    BY <1>3, <1>4, <1>5, <1>6, <1>7, <1>8, <1>9, <1>10, <1>11, <1>12 DEF Next, Continue

\* With one listener, a queued request has a monitor that will remove it if its
\* process exits, however del_mon (main_handler.cc) mixed the monitors up, unless
\* the process was killed in the call that queued it.
THEOREM QueuedStayMonitored ==
    ASSUME \A k, l \in Lsns : k = l
    PROVE  Spec => []QueuedIsMonitored
  <1>1. Init => CountInv
    <2> SUFFICES ASSUME Init PROVE CountInv
      OBVIOUS
    <2>1. ASSUME NEW p \in Procs PROVE Counted(p)
      <3>1. Pending(p) = {}
        BY RefsArePairs DEF Init, Pending, Queued
      <3>2. Monitors(p) = {}
        BY DEF Init, Monitors
      <3> QED
        BY <3>1, <3>2, FS_EmptySet DEF Counted
    <2> QED
      BY <2>1 DEF Init, CountInv
  <1>2. ListenerInv /\ CountInv /\ [Next]_vars => CountInv'
    BY CountNext
  <1>3. ListenerInv /\ CountInv => QueuedIsMonitored
    <2> SUFFICES ASSUME ListenerInv, CountInv, NEW l \in Lsns, status[l] = "open",
                        NEW i \in 1..Len(queue[l])
                 PROVE  LET p == queue[l][i][1]
                        IN  \/ \E m \in monitored : m[1] = p /\ <<m, l>> \in mon_map
                            \/ mt.pc = "exited" /\ mt.on = l /\ mt.proc = p
                            \/ pc[p] = "killed" /\ queue[l][i] = Ref(p)
      BY DEF QueuedIsMonitored
    <2>0. TypeOK
      BY DEF ListenerInv, MonitorsInv
    <2>1. PICK r : r = queue[l][i]
      OBVIOUS
    <2>2. r \in Refs /\ r[1] \in Procs
      BY <2>0, <2>1, ElementOfSeq, RefsArePairs DEF TypeOK
    <2>3. r \in Pending(r[1])
      BY <2>1, <2>2 DEF Pending, Queued
    <2>4. CASE mt.pc = "exited" /\ mt.proc = r[1]
      <3>1. mt.on = l
        BY <2>0 DEF TypeOK
      <3> QED
        BY <2>1, <2>4, <3>1
    <2>5. CASE Cardinality(Pending(r[1])) <= Cardinality(Monitors(r[1]))
      <3>1. IsFiniteSet(Pending(r[1])) /\ IsFiniteSet(Monitors(r[1]))
        BY <2>0, <2>2, OneSideFinite
      <3>2. /\ Cardinality(Pending(r[1])) \in Nat /\ Cardinality(Monitors(r[1])) \in Nat
            /\ Cardinality(Pending(r[1])) # 0
        BY <2>3, <3>1, FS_CardinalityType, FS_EmptySet
      <3>3. Monitors(r[1]) # {}
        BY <2>5, <3>1, <3>2, FS_EmptySet
      <3>4. PICK m \in monitored, k \in Lsns : m[1] = r[1] /\ <<m, k>> \in mon_map
        BY <3>3 DEF Monitors
      <3>5. k = l
        OBVIOUS
      <3> QED
        BY <2>1, <3>4, <3>5
    <2>6. \A k \in Lsns : status[k] = "open"
      OBVIOUS
    <2>7. CASE pc[r[1]] = "killed" /\ Pending(r[1]) \subseteq {Ref(r[1])}
      <3>1. r = Ref(r[1])
        BY <2>3, <2>7
      <3> QED
        BY <2>1, <2>7, <3>1
    <2> QED
      BY <2>2, <2>4, <2>5, <2>6, <2>7 DEF CountInv, Counted
  <1> QED
    BY <1>1, <1>2, <1>3, ListenerInvariant, PTL DEF Spec
=============================================================================
