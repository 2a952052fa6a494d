------------------------------ MODULE ByteFifo ------------------------------
(***************************************************************************)
(* What the write queue of a uTP port promises its two users, outputv      *)
(* (which pushes) and the libutp write callback (which pops): a first-in   *)
(* first-out stream of bytes.  A byte is named by its position in the      *)
(* stream of all bytes ever pushed, so "the right byte" is a number and    *)
(* not a payload.                                                          *)
(***************************************************************************)
EXTENDS Naturals

VARIABLES
    head,   \* position of the next byte owed to the consumer
    tail,   \* number of bytes pushed so far
    out     \* what the last pop delivered: index in its buffer -> position

fifoVars == <<head, tail, out>>

FifoInit == head = 0 /\ tail = 0 /\ out = [i \in {} |-> 0]

\* A binary's bytes join the end of the stream.
Put(n) == tail' = tail + n /\ UNCHANGED <<head, out>>

\* The consumer's n bytes are the next n of the stream, in order.
Get(n) ==
    /\ head + n <= tail
    /\ out' = [i \in 0..(n-1) |-> head + i]
    /\ head' = head + n
    /\ UNCHANGED tail

\* Everything still queued is dropped.
Drop == head' = tail /\ UNCHANGED <<tail, out>>

\* The bytes moved are read off the two states, so that TLC can evaluate the
\* relation without a bound on them.
FifoNext ==
    \/ tail' >= tail /\ Put(tail' - tail)
    \/ head' >= head /\ Get(head' - head)
    \/ Drop

FifoSpec == FifoInit /\ [][FifoNext]_fifoVars
=============================================================================
