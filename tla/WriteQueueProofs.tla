-------------------------- MODULE WriteQueueProofs --------------------------
(***************************************************************************)
(* WriteQueue for binaries of any sizes, pushed and popped in any order:   *)
(* its invariant, and that it implements ByteFifo.                         *)
(***************************************************************************)
EXTENDS WriteQueue, TLAPS

\* A new write queue is empty and consistent.
LEMMA InitQueueInv == Init => QueueInv
  <1> SUFFICES ASSUME Init PROVE QueueInv
    OBVIOUS
  <1> USE DEF Init, Empty
  <1>1. TypeOK
    BY DEF TypeOK, Binary
  <1>2. Contiguous
    BY DEF Contiguous
  <1>3. OffsetPointsAtNext /\ SzExact /\ PopInOrder /\ RefsBalance
    BY DEF OffsetPointsAtNext, SzExact, PopInOrder, RefsBalance
  <1> QED
    BY <1>1, <1>2, <1>3 DEF QueueInv

\* push_back keeps the queue consistent: the new binary continues the stream.
LEMMA PushBackInv == ASSUME QueueInv, NEW n \in Sizes, PushBack(n) PROVE QueueInv'
  <1> DEFINE b == [lo |-> pushed, hi |-> pushed + n]
  <1> USE DEF QueueInv, TypeOK, PushBack
  <1>0. n \in Nat
    BY SizesAssumption
  <1>1. b \in Binary /\ queue' = Append(queue, b)
    BY <1>0 DEF Binary
  <1>2. TypeOK'
    BY <1>0, <1>1
  <1>3. /\ Len(queue') = Len(queue) + 1
        /\ queue'[Len(queue) + 1] = b
        /\ \A i \in 1..Len(queue) : queue'[i] = queue[i]
    BY <1>1
  <1>4. Contiguous'
    <2>1. Len(queue) > 0 => queue[Len(queue)].hi = b.lo
      BY DEF Contiguous
    <2>2. \A i \in 1..(Len(queue) + 1) : queue'[i].lo <= queue'[i].hi
      BY <1>0, <1>3 DEF Contiguous
    <2>3. ASSUME NEW i \in 1..Len(queue) PROVE queue'[i].hi = queue'[i + 1].lo
      <3>1. CASE i = Len(queue)
        BY <1>3, <2>1, <3>1
      <3>2. CASE i < Len(queue)
        BY <1>3, <3>2 DEF Contiguous
      <3> QED
        BY <3>1, <3>2
    <2>4. queue'[Len(queue')].hi = pushed'
      BY <1>3
    <2> HIDE DEF b
    <2> QED
      BY <1>3, <2>2, <2>3, <2>4 DEF Contiguous
  <1>5. OffsetPointsAtNext'
    BY <1>0, <1>1, <1>3 DEF OffsetPointsAtNext, SzExact, Binary
  <1>6. SzExact' /\ PopInOrder'
    BY <1>0 DEF SzExact, PopInOrder
  <1>7. RefsBalance'
    BY <1>3 DEF RefsBalance
  <1> QED
    BY <1>2, <1>4, <1>5, <1>6, <1>7

\* Entering pop_bytes keeps the queue consistent: nothing is copied yet.
LEMMA PopBytesInv == ASSUME QueueInv, NEW n \in Nat, PopBytes(n) PROVE QueueInv'
  BY DEF QueueInv, TypeOK, Contiguous, OffsetPointsAtNext, SzExact, PopInOrder,
         RefsBalance, PopBytes, Empty

\* What one memcpy adds to the caller's buffer: the next k bytes of the stream.
LEMMA CopiedInOrder ==
    ASSUME QueueInv, Len(queue) > 0, NEW k \in Nat
    PROVE  Copied(Head(queue), k) = [i \in 0..(to + k - 1) |-> taken + i]
  <1> DEFINE lo == Head(queue).lo
  <1>1. Head(queue) = queue[1] /\ Head(queue) \in Binary
    BY DEF QueueInv, TypeOK
  <1>2. lo + offset = taken + to
    BY <1>1 DEF QueueInv, OffsetPointsAtNext
  <1>3. lo \in Nat
    BY <1>1 DEF Binary
  <1>4. offset \in Nat /\ taken \in Nat /\ to \in Nat
    BY DEF QueueInv, TypeOK
  <1>5. \A i \in 0..(to - 1) : buf[i] = taken + i
    BY DEF QueueInv, PopInOrder
  <1>6. Copied(Head(queue), k)
          = [i \in 0..(to + k - 1) |-> IF i < to THEN buf[i] ELSE lo + offset + (i - to)]
    BY DEF Copied
  <1> HIDE DEF lo
  <1>7. ASSUME NEW i \in 0..(to + k - 1)
        PROVE  (IF i < to THEN buf[i] ELSE lo + offset + (i - to)) = taken + i
    <2>1. CASE i < to
      BY <1>4, <1>5, <2>1
    <2>2. CASE ~(i < to)
      BY <1>2, <1>3, <1>4, <2>2
    <2> QED
      BY <2>1, <2>2
  <1> QED
    BY <1>6, <1>7

\* Where the front binary lies in the stream.
LEMMA FrontBinary ==
    ASSUME QueueInv, Len(queue) > 0
    PROVE  /\ Head(queue) = queue[1] /\ Head(queue) \in Binary
           /\ Head(queue).lo + offset = taken + to
           /\ offset <= Head(queue).hi - Head(queue).lo
           /\ Len(queue) = 1 => Head(queue).hi = pushed
           /\ Len(queue) > 1 => Head(queue).hi = queue[2].lo
  <1>1. Head(queue) = queue[1] /\ Head(queue) \in Binary /\ Len(queue) \in Nat \ {0}
    BY DEF QueueInv, TypeOK
  <1>2. Len(queue) > 1 => queue[1].hi = queue[2].lo
    BY <1>1 DEF QueueInv, Contiguous
  <1>3. Len(queue) = 1 => queue[1].hi = pushed
    BY <1>1 DEF QueueInv, Contiguous
  <1> QED
    BY <1>1, <1>2, <1>3 DEF QueueInv, OffsetPointsAtNext, TypeOK, Binary

\* An iteration that takes part of the front binary ends the pop.
LEMMA PopPartInv == ASSUME QueueInv, PopLoop, PopPart(Head(queue)) PROVE QueueInv'
  <1> USE DEF QueueInv
  <1>1. Len(queue) > 0 /\ count > 0
    BY DEF PopLoop
  <1>2. /\ Head(queue) = queue[1] /\ Head(queue) \in Binary
        /\ Head(queue).lo + offset = taken + to
        /\ offset <= Head(queue).hi - Head(queue).lo
    BY <1>1, FrontBinary
  <1>3. TypeOK'
    BY <1>1, <1>2 DEF TypeOK, PopPart, Empty, PopInOrder
  <1>4. Contiguous'
    BY DEF Contiguous, PopPart
  <1>5. OffsetPointsAtNext'
    <2> DEFINE lo == Head(queue).lo
               hi == Head(queue).hi
    <2>1. lo \in Nat /\ hi \in Nat /\ lo = queue[1].lo /\ hi = queue[1].hi
      BY <1>2 DEF Binary
    <2>2. /\ queue' = queue /\ (hi - lo) - offset > count /\ lo + offset = taken + to
          /\ offset' = offset + count /\ taken' = taken + to + count /\ to' = 0
      BY <1>2 DEF PopPart
    <2>3. count \in Nat /\ offset \in Nat /\ taken \in Nat /\ to \in Nat
      BY DEF TypeOK
    <2> HIDE DEF lo, hi
    <2>4. lo + offset' = taken' + to' /\ lo + offset' <= hi
      BY <2>1, <2>2, <2>3
    <2> QED
      BY <1>1, <2>1, <2>2, <2>4 DEF OffsetPointsAtNext
  <1>6. SzExact' /\ PopInOrder'
    BY <1>1, <1>2 DEF SzExact, PopInOrder, PopPart, TypeOK, Binary
  <1>7. RefsBalance'
    BY DEF RefsBalance, PopPart
  <1> QED
    BY <1>3, <1>4, <1>5, <1>6, <1>7

\* An iteration that uses up the front binary moves on to the next one.
LEMMA PopWholeInv == ASSUME QueueInv, PopLoop, PopWhole(Head(queue)) PROVE QueueInv'
  <1> DEFINE lo == Head(queue).lo
             hi == Head(queue).hi
             rest == (hi - lo) - offset
  <1>1. Len(queue) > 0 /\ count > 0 /\ rest <= count
    BY DEF PopLoop, PopWhole
  <1>2. /\ Head(queue) \in Binary /\ lo + offset = taken + to /\ offset <= hi - lo
        /\ Len(queue) = 1 => hi = pushed
        /\ Len(queue) > 1 => hi = queue[2].lo
    BY <1>1, FrontBinary
  <1>3. lo \in Nat /\ hi \in Nat
    BY <1>2 DEF Binary
  <1>4. /\ queue \in Seq(Binary) /\ sz \in Nat /\ offset \in Nat /\ count \in Nat
        /\ to \in Nat /\ pushed \in Nat /\ taken \in Nat
        /\ refs \in Nat /\ lost \in Nat
    BY DEF QueueInv, TypeOK
  <1>5. rest \in Nat
    BY <1>2, <1>3, <1>4
  <1>6. Copied(Head(queue), rest) = [i \in 0..(to + rest - 1) |-> taken + i]
    BY <1>1, <1>5, CopiedInOrder
  <1>7. /\ queue' = Tail(queue) /\ offset' = 0 /\ pushed' = pushed
        /\ sz' = sz - rest /\ count' = count - rest
        /\ refs' = refs - 1 /\ lost' = lost
        /\ to' = IF count = rest THEN 0 ELSE to + rest
        /\ taken' = IF count = rest THEN taken + to + rest ELSE taken
        /\ buf' = IF count = rest THEN Empty ELSE [i \in 0..(to + rest - 1) |-> taken + i]
    BY <1>6 DEF PopWhole
  <1>8. /\ queue' \in Seq(Binary)
        /\ Len(queue') = Len(queue) - 1
        /\ \A i \in 1..Len(queue') : queue'[i] = queue[i + 1]
    BY <1>1, <1>4, <1>7
  <1> HIDE DEF rest
  <1>9. taken' + to' = taken + to + rest
    BY <1>4, <1>5, <1>7
  <1>10. sz = pushed - (taken + to) /\ taken + to <= pushed /\ count <= sz
    BY DEF QueueInv, SzExact, PopInOrder
  <1>11. RefsBalance' /\ refs' \in Nat
    BY <1>1, <1>4, <1>7, <1>8 DEF QueueInv, RefsBalance
  <1>12. TypeOK'
    <2>1. count' \in Nat /\ to' \in Nat /\ taken' \in Nat /\ sz' \in Nat
      BY <1>1, <1>4, <1>5, <1>7, <1>10
    <2>2. buf' \in [0..(to' - 1) -> Nat]
      BY <1>4, <1>5, <1>7 DEF Empty
    <2> QED
      BY <1>4, <1>7, <1>8, <1>11, <2>1, <2>2 DEF TypeOK
  <1>13. Contiguous'
    <2>1. \A i \in 1..Len(queue') : queue'[i].lo <= queue'[i].hi
      BY <1>4, <1>8 DEF QueueInv, Contiguous
    <2>2. \A i \in 1..(Len(queue') - 1) : queue'[i].hi = queue'[i + 1].lo
      BY <1>4, <1>8 DEF QueueInv, Contiguous
    <2>3. Len(queue') > 0 => queue'[Len(queue')].hi = pushed'
      BY <1>4, <1>7, <1>8 DEF QueueInv, Contiguous
    <2> QED
      BY <2>1, <2>2, <2>3 DEF Contiguous
  <1>14. OffsetPointsAtNext'
    <2>1. lo + offset + rest = hi
      BY <1>3, <1>4 DEF rest
    <2>2. taken' + to' = hi
      BY <1>2, <1>9, <2>1
    <2> HIDE DEF lo, hi
    <2>3. CASE Len(queue) = 1
      BY <1>2, <1>7, <1>8, <2>2, <2>3 DEF OffsetPointsAtNext
    <2>4. CASE Len(queue) > 1
      <3>1. queue'[1] = queue[2] /\ queue[2] \in Binary /\ Len(queue') > 0
        BY <1>4, <1>8, <2>4
      <3>2. queue[2].lo <= queue[2].hi /\ queue[2].lo \in Nat
        BY <1>4, <2>4, <3>1 DEF QueueInv, Contiguous, Binary
      <3>3. queue'[1].lo + offset' = hi /\ queue'[1].lo + offset' <= queue'[1].hi
        BY <1>2, <1>7, <2>4, <3>1, <3>2
      <3> QED
        BY <2>2, <3>1, <3>3 DEF OffsetPointsAtNext
    <2>5. Len(queue) \in Nat
      BY <1>4
    <2>6. Len(queue) = 1 \/ Len(queue) > 1
      BY <1>1, <2>5
    <2> QED
      BY <2>3, <2>4, <2>6
  <1>15. SzExact'
    BY <1>1, <1>4, <1>5, <1>7, <1>9, <1>10 DEF SzExact
  <1>16. PopInOrder'
    <2>1. count' <= sz' /\ (count' = 0 => to' = 0)
      BY <1>1, <1>4, <1>5, <1>7, <1>10
    <2>2. \A i \in 0..(to' - 1) : buf'[i] = taken' + i
      BY <1>4, <1>5, <1>7
    <2> QED
      BY <2>1, <2>2 DEF PopInOrder
  <1> QED
    BY <1>12, <1>13, <1>14, <1>15, <1>16, <1>11 DEF QueueInv

\* What clear and the destructor have in common: the queue is empty, with
\* everything pushed accounted for.
LEMMA EmptiedInv ==
    ASSUME QueueInv, count = 0,
           queue' = <<>>, sz' = 0, offset' = 0, taken' = pushed,
           UNCHANGED <<count, to, buf, pushed, out>>,
           refs' \in Nat, lost' \in Nat, RefsBalance'
    PROVE  QueueInv'
  <1> USE DEF QueueInv
  <1>1. TypeOK' /\ Contiguous'
    BY DEF TypeOK, Contiguous
  <1>2. to = 0 /\ pushed \in Nat
    BY DEF TypeOK, PopInOrder
  <1>3. OffsetPointsAtNext'
    BY <1>2 DEF OffsetPointsAtNext
  <1>4. SzExact' /\ PopInOrder'
    BY <1>2 DEF SzExact, PopInOrder
  <1> QED
    BY <1>1, <1>3, <1>4

\* clear keeps the queue consistent, and accounts for what it loses.
LEMMA ClearInv == ASSUME QueueInv, Clear PROVE QueueInv'
  <1>1. refs' \in Nat /\ lost' \in Nat /\ RefsBalance'
    BY DEF QueueInv, TypeOK, RefsBalance, Clear
  <1> QED
    BY <1>1, EmptiedInv DEF Clear

\* The destructor keeps the references in balance: it frees what is queued.
LEMMA DestroyInv == ASSUME QueueInv, Destroy PROVE QueueInv'
  <1>1. refs' \in Nat /\ lost' \in Nat /\ RefsBalance'
    BY DEF QueueInv, TypeOK, RefsBalance, Destroy
  <1> QED
    BY <1>1, EmptiedInv DEF Destroy

\* Every operation of the queue, and every iteration of pop_bytes' loop, keeps
\* the queue consistent.
THEOREM QueueCorrect == Spec => []QueueInv
  <1>1. Init => QueueInv
    BY InitQueueInv
  <1>2. QueueInv /\ [Next]_vars => QueueInv'
    <2> SUFFICES ASSUME QueueInv, [Next]_vars PROVE QueueInv'
      OBVIOUS
    <2>1. ASSUME NEW n \in Sizes, PushBack(n) PROVE QueueInv'
      BY <2>1, PushBackInv
    <2>2. ASSUME NEW n \in 1..MaxPushed, PopBytes(n) PROVE QueueInv'
      BY <2>2, PopBytesInv, BoundsAssumption
    <2>3. CASE PopLoop
      BY <2>3, PopPartInv, PopWholeInv DEF PopLoop
    <2>4. CASE Clear
      BY <2>4, ClearInv
    <2>5. CASE Destroy
      BY <2>5, DestroyInv
    <2>6. CASE UNCHANGED vars
      BY <2>6 DEF vars, QueueInv, TypeOK, Contiguous, OffsetPointsAtNext, SzExact,
                  PopInOrder, RefsBalance
    <2> QED
      BY <2>1, <2>2, <2>3, <2>4, <2>5, <2>6 DEF Next
  <1> QED
    BY <1>1, <1>2, PTL DEF Spec

\* pop_bytes never takes the front of an empty queue.
THEOREM FrontAlwaysExists == Spec => []FrontExists
  <1>1. QueueInv => FrontExists
    BY DEF QueueInv, TypeOK, OffsetPointsAtNext, SzExact, PopInOrder, FrontExists
  <1> QED
    BY <1>1, QueueCorrect, PTL

\* No binary is leaked except by clear, and none is freed while it is queued.
THEOREM ReferencesBalance == Spec => []RefsBalance
  <1>1. QueueInv => RefsBalance
    BY DEF QueueInv
  <1> QED
    BY <1>1, QueueCorrect, PTL

\* The queue with its binaries, its offset and its loop implements the byte
\* stream ByteFifo: each pop delivers the next bytes pushed, in order.
THEOREM QueueIsFifo == Spec => ImplementsFifo
  <1>1. Init => Fifo!FifoInit
    BY DEF Init, Empty, Fifo!FifoInit
  <1>2. QueueInv /\ [Next]_vars => [Fifo!FifoNext]_(Fifo!fifoVars)
    <2> SUFFICES ASSUME QueueInv, [Next]_vars
                 PROVE  [Fifo!FifoNext]_(Fifo!fifoVars)
      OBVIOUS
    <2> USE DEF Fifo!FifoNext, Fifo!fifoVars
    <2>0. pushed \in Nat /\ taken \in Nat /\ to \in Nat /\ count \in Nat
      BY DEF QueueInv, TypeOK
    <2>1. ASSUME NEW n \in Sizes, PushBack(n) PROVE Fifo!FifoNext
      BY <2>0, <2>1, SizesAssumption DEF PushBack, Fifo!Put
    <2>2. ASSUME NEW n \in 1..MaxPushed, PopBytes(n) PROVE UNCHANGED Fifo!fifoVars
      BY <2>2 DEF PopBytes
    <2>3. CASE PopLoop
      <3> DEFINE rest == (Head(queue).hi - Head(queue).lo) - offset
      <3>1. Len(queue) > 0 /\ count > 0
        BY <2>3 DEF PopLoop
      <3>2. sz = pushed - (taken + to) /\ taken + to <= pushed /\ count <= sz
        BY DEF QueueInv, SzExact, PopInOrder
      <3>3. CASE PopPart(Head(queue))
        <4>1. out' = [i \in 0..(to + count - 1) |-> taken + i]
          BY <2>0, <3>1, <3>3, CopiedInOrder DEF PopPart
        <4>2. taken' = taken + to + count /\ pushed' = pushed
          BY <3>3 DEF PopPart
        <4>3. taken' - taken = to + count /\ taken' >= taken /\ taken' <= pushed
          BY <2>0, <3>2, <4>2
        <4> QED
          BY <2>0, <4>1, <4>2, <4>3 DEF Fifo!Get
      <3>4. CASE PopWhole(Head(queue)) /\ count = rest
        <4>1. Copied(Head(queue), count) = [i \in 0..(to + count - 1) |-> taken + i]
          BY <2>0, <3>1, CopiedInOrder
        <4>2. /\ out' = Copied(Head(queue), rest)
              /\ taken' = taken + to + rest /\ pushed' = pushed
          BY <3>4 DEF PopWhole
        <4> HIDE DEF rest
        <4>3. out' = [i \in 0..(to + count - 1) |-> taken + i]
          BY <3>4, <4>1, <4>2
        <4>4. taken' - taken = to + count /\ taken' >= taken /\ taken' <= pushed
          BY <2>0, <3>2, <3>4, <4>2
        <4> QED
          BY <2>0, <4>2, <4>3, <4>4 DEF Fifo!Get
      <3>5. CASE PopWhole(Head(queue)) /\ count # rest
        BY <3>5 DEF PopWhole
      <3> QED
        BY <2>3, <3>3, <3>4, <3>5 DEF PopLoop
    <2>4. CASE Clear
      BY <2>4 DEF Clear, Fifo!Drop
    <2>5. CASE Destroy
      BY <2>5 DEF Destroy, Fifo!Drop
    <2>6. CASE UNCHANGED vars
      BY <2>6 DEF vars
    <2> QED
      BY <2>1, <2>2, <2>3, <2>4, <2>5, <2>6 DEF Next
  <1> QED
    BY <1>1, <1>2, QueueCorrect, PTL DEF Spec, ImplementsFifo, Fifo!FifoSpec
=============================================================================
