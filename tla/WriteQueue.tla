----------------------------- MODULE WriteQueue -----------------------------
(***************************************************************************)
(* WriteQueue (c_src/write_queue.cc): the binaries a uTP port has accepted *)
(* from its senders and libutp has not taken yet.                          *)
(*                                                                         *)
(* A binary is the interval of stream positions its bytes occupy.          *)
(* pop_bytes is a loop; one PopLoop step is one iteration of it, so that   *)
(* the loop's own invariant can be stated.  utp_mutex is held during a     *)
(* pop, so nothing else happens to the queue between two iterations.       *)
(***************************************************************************)
EXTENDS Naturals, Sequences

CONSTANTS
    Sizes,      \* sizes of the binaries pushed
    MaxPushed,  \* bound on the bytes pushed in a behaviour
    MaxLen      \* bound on the binaries referenced at a time, lost ones too

\* An empty element of the I/O vector that carries a binary is pushed too, with
\* the whole binary's size (outputv, utp_handler.cc): a push of any size.
ASSUME SizesAssumption == Sizes \subseteq Nat
ASSUME BoundsAssumption == MaxPushed \in Nat /\ MaxLen \in Nat

VARIABLES
    queue,   \* the binaries, each [lo |-> first position, hi |-> one past its last]
    sz,      \* bytes in the queue, as the code counts them
    offset,  \* bytes of the front binary that are already gone
    count,   \* bytes the pop_bytes call in progress still has to copy
    to,      \* bytes it has copied
    buf,     \* what it has copied: index in the caller's buffer -> position
    refs,    \* references to binaries handed to a queue and not yet freed
    lost,    \* history: those of them no queue knows of any more
    pushed,  \* history: bytes ever pushed
    taken,   \* history: bytes popped by completed calls, or dropped by clear
    out      \* history: the buffer the last completed pop_bytes returned

vars == <<queue, sz, offset, count, to, buf, refs, lost, pushed, taken, out>>

Binary == [lo : Nat, hi : Nat]
Empty == [i \in {} |-> 0]

Init ==
    /\ queue = <<>> /\ sz = 0 /\ offset = 0
    /\ count = 0 /\ to = 0 /\ buf = Empty
    /\ refs = 0 /\ lost = 0
    /\ pushed = 0 /\ taken = 0 /\ out = Empty

\* push_back(bin) with a binary of n bytes, whose reference (from
\* driver_alloc_binary or driver_binary_inc_refc) becomes the queue's
PushBack(n) ==
    /\ count = 0
    /\ pushed + n <= MaxPushed /\ refs < MaxLen
    /\ queue' = Append(queue, [lo |-> pushed, hi |-> pushed + n])
    /\ sz' = sz + n
    /\ refs' = refs + 1
    /\ pushed' = pushed + n
    /\ UNCHANGED <<offset, count, to, buf, lost, taken, out>>

\* The entry of pop_bytes(buf, n).  do_write returns early for 0 bytes, and
\* libutp asks for no more than the size it was given by UTP_Write.
PopBytes(n) ==
    /\ count = 0
    /\ n > 0 /\ n <= sz
    /\ count' = n /\ to' = 0 /\ buf' = Empty
    /\ UNCHANGED <<queue, sz, offset, refs, lost, pushed, taken, out>>

\* memcpy(to, bin->orig_bytes + offset, k)
Copied(bin, k) ==
    [i \in 0..(to + k - 1) |-> IF i < to THEN buf[i] ELSE bin.lo + offset + (i - to)]

\* Mutant: the bytes copied are not skipped next time.
PopPartNoAdvance(bin) ==
    /\ (bin.hi - bin.lo) - offset > count
    /\ buf' = Empty /\ out' = Copied(bin, count)
    /\ sz' = sz - count
    /\ taken' = taken + to + count
    /\ count' = 0 /\ to' = 0
    /\ UNCHANGED <<queue, offset, refs, lost, pushed>>

\* The front binary holds more than is wanted: copy part of it and break.
PopPart(bin) ==
    /\ (bin.hi - bin.lo) - offset > count
    /\ buf' = Empty /\ out' = Copied(bin, count)
    /\ offset' = offset + count
    /\ sz' = sz - count
    /\ taken' = taken + to + count
    /\ count' = 0 /\ to' = 0
    /\ UNCHANGED <<queue, refs, lost, pushed>>

\* Mutant: offset still counts the binary that is gone.
PopWholeKeepsOffset(bin) ==
    LET rest == (bin.hi - bin.lo) - offset
        done == count = rest
    IN  /\ rest <= count
        /\ queue' = Tail(queue)
        /\ sz' = sz - rest
        /\ count' = count - rest
        /\ to' = IF done THEN 0 ELSE to + rest
        /\ buf' = IF done THEN Empty ELSE Copied(bin, rest)
        /\ out' = IF done THEN Copied(bin, rest) ELSE out
        /\ taken' = IF done THEN taken + to + rest ELSE taken
        /\ refs' = refs - 1
        /\ UNCHANGED <<offset, lost, pushed>>

\* The front binary is used up: copy the rest of it, free it, go round again
\* if bytes are still wanted.
PopWhole(bin) ==
    LET rest == (bin.hi - bin.lo) - offset
        done == count = rest
    IN  /\ rest <= count
        /\ queue' = Tail(queue)
        /\ offset' = 0
        /\ sz' = sz - rest
        /\ count' = count - rest
        /\ to' = IF done THEN 0 ELSE to + rest
        /\ buf' = IF done THEN Empty ELSE Copied(bin, rest)
        /\ out' = IF done THEN Copied(bin, rest) ELSE out
        /\ taken' = IF done THEN taken + to + rest ELSE taken
        /\ refs' = refs - 1
        /\ UNCHANGED <<lost, pushed>>

PopLoop ==
    /\ count > 0
    /\ Len(queue) > 0
    /\ PopPart(Head(queue)) \/ PopWhole(Head(queue))

\* clear(), at EOF: the pointers are dropped, the binaries are not freed.
Clear ==
    /\ count = 0
    /\ queue' = <<>> /\ sz' = 0 /\ offset' = 0
    /\ taken' = pushed /\ lost' = lost + Len(queue)
    /\ UNCHANGED <<count, to, buf, refs, pushed, out>>

\* The destructor, when the handler is deleted: every queued binary is freed.
\* The empty queue left is the one the next handler is made with.
Destroy ==
    /\ count = 0
    /\ refs' = refs - Len(queue)
    /\ queue' = <<>> /\ sz' = 0 /\ offset' = 0
    /\ taken' = pushed
    /\ UNCHANGED <<count, to, buf, lost, pushed, out>>

Next ==
    \/ \E n \in Sizes : PushBack(n)
    \/ \E n \in 1..MaxPushed : PopBytes(n)
    \/ PopLoop
    \/ Clear
    \/ Destroy

Spec == Init /\ [][Next]_vars

-----------------------------------------------------------------------------
(***************************************************************************)
(* Properties                                                              *)
(***************************************************************************)

\* Types of the queue's fields.
TypeOK ==
    /\ queue \in Seq(Binary)
    /\ sz \in Nat /\ offset \in Nat
    /\ count \in Nat /\ to \in Nat
    /\ refs \in Nat /\ lost \in Nat
    /\ pushed \in Nat /\ taken \in Nat
    /\ buf \in [0..(to - 1) -> Nat]

\* The binaries are consecutive pieces of the stream, up to its end.
Contiguous ==
    /\ \A i \in 1..Len(queue) : queue[i].lo <= queue[i].hi
    /\ \A i \in 1..(Len(queue) - 1) : queue[i].hi = queue[i + 1].lo
    /\ Len(queue) > 0 => queue[Len(queue)].hi = pushed

\* offset points at the next byte owed to the consumer, in the middle of a
\* pop_bytes call too.
OffsetPointsAtNext ==
    /\ Len(queue) > 0 => /\ queue[1].lo + offset = taken + to
                         /\ queue[1].lo + offset <= queue[1].hi
    /\ Len(queue) = 0 => offset = 0 /\ taken + to = pushed

\* size(), which outputv, close_utp and the WRITABLE handler decide on, is
\* the number of bytes not yet delivered, whatever was popped part-way.
SzExact == sz = pushed - (taken + to) /\ taken + to <= pushed

\* pop_bytes never calls queue.front() on an empty queue: as long as bytes
\* are wanted, a binary is there.
FrontExists == count > 0 => Len(queue) > 0

\* A pop is never short of bytes, and what it has copied is the stream's next
\* bytes in order.
PopInOrder ==
    /\ count <= sz
    /\ count = 0 => to = 0
    /\ \A i \in 0..(to - 1) : buf[i] = taken + i

\* The references to binaries are those the queue holds, and those lost when a
\* queue with data in it was cleared: no other path leaks a binary, none frees
\* one that is still queued or frees one twice.
RefsBalance == refs = Len(queue) + lost

\* The conjunction that every operation and every iteration preserves.
QueueInv ==
    TypeOK /\ Contiguous /\ OffsetPointsAtNext /\ SzExact /\ PopInOrder /\ RefsBalance

\* The queue implements a byte stream: pops deliver exactly the bytes pushed,
\* in order, none twice and none skipped, across binary boundaries.
Fifo == INSTANCE ByteFifo WITH head <- taken, tail <- pushed
ImplementsFifo == Fifo!FifoSpec
=============================================================================
