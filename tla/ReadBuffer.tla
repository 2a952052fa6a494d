----------------------------- MODULE ReadBuffer -----------------------------
(***************************************************************************)
(* The bytes of a connection, from outputv at one end, which may put a     *)
(* length in front of the data, to emit_read_buffer at the other, which    *)
(* takes them off the port's driver queue and makes messages of them       *)
(* (c_src/socket_handler.cc, c_src/utp_handler.cc).                        *)
(*                                                                         *)
(* UtpHandler models who is told what and when, in amounts and with        *)
(* concurrent threads; here one thread runs, and what counts is which      *)
(* bytes end up in which message.  A byte is a number below Base, which    *)
(* stands for 256.  Every byte sent keeps its place in stream, libutp      *)
(* delivers them in order in pieces of any size, and the driver queue is   *)
(* the part of the stream between taken and recvd, cut into vectors where  *)
(* the pieces ended.                                                       *)
(***************************************************************************)
EXTENDS Naturals, Sequences, SequencesExt, FiniteSetsExt

CONSTANTS
    Base,       \* the number of values of a byte
    Payloads,   \* the data an application sends, nonempty byte sequences
    MaxSends,   \* bound on the sends
    MaxPiece,   \* bound on the bytes of one read callback
    Packets,    \* values of the sender's packet option: bytes in the length
    Headers,    \* values of the receiver's header option
    Actives,    \* packet option -> values of the active option used with it
    RecvLens,   \* lengths asked for by recv
    Splits,     \* TRUE: a piece may end inside a length
    Agree,      \* TRUE: the receiver reads only with the sender's packet option
    Shared      \* TRUE: setopts may be called while another process is in recv

ASSUME BaseAssumption == Base \in Nat \ {0, 1}
ASSUME PayloadsAssumption ==
    \A d \in Payloads : d \in Seq(0..(Base-1)) /\ d # <<>>
ASSUME BoundsAssumption == MaxSends \in Nat /\ MaxPiece \in Nat \ {0}
ASSUME OptionsAssumption ==
    /\ Packets \subseteq {0, 1, 2, 4} /\ Headers \subseteq Nat
    /\ Actives \in [Packets -> SUBSET {"false", "once", "true"}]
    /\ RecvLens \subseteq Nat
ASSUME FlagsAssumption == {Splits, Agree, Shared} \subseteq BOOLEAN

VARIABLES
    packet,     \* the sender's packet option
    stream,     \* every byte sent
    sent,       \* the data of every send (history)
    r,          \* the receiving handler, see Handler
    delivered,  \* the messages made of the data, in order
    fault       \* undefined behaviour that was met, "none" if none was

vars == <<packet, stream, sent, r, delivered, fault>>

Byte == 0..(Base-1)

\* The fields of the receiving SocketHandler and of its driver queue: the
\* queue holds bytes taken+1 to recvd of the stream, its vectors end at cuts.
Handler == [recvd : Nat, taken : Nat, cuts : SUBSET Nat,
            read_count : Seq(Nat \ {0}), waiting : BOOLEAN, recv_len : Nat,
            active : {"false", "once", "true"}, packet : {0, 1, 2, 4}, header : Nat]

\* A receiver takes over the options of its listener: the sender's packet
\* option, or none yet, which it changes with setopts before it reads.
Init ==
    /\ packet \in Packets
    /\ stream = <<>> /\ sent = <<>> /\ delivered = <<>> /\ fault = "none"
    /\ \E k \in {0, packet}, a \in Actives[packet], hd \in Headers :
         /\ (Agree /\ k # packet) => a = "false"
         /\ r = [recvd |-> 0, taken |-> 0, cuts |-> {}, read_count |-> <<>>,
                 waiting |-> FALSE, recv_len |-> 0, active |-> a, packet |-> k,
                 header |-> hd]

\* Totals(s)[i] is the sum of the first i numbers of s.
Totals(s) ==
    LET upto[i \in 0..Len(s)] == IF i = 0 THEN 0 ELSE upto[i-1] + s[i] IN upto
Total(s) == Totals(s)[Len(s)]

-----------------------------------------------------------------------------
(***************************************************************************)
(* The sender                                                              *)
(***************************************************************************)

\* Shifted(n, k)[i] is n without its i low bytes, for i up to k.
Shifted(n, k) ==
    LET left[i \in 0..k] == IF i = 0 THEN n ELSE left[i-1] \div Base IN left

\* Mutant: the length counts itself as well.
LengthBytesWhole(n, k) == [i \in 1..k |-> Shifted(n + k, k)[k-i] % Base]

\* The k bytes of a length in network order, cut to their width
LengthBytes(n, k) == [i \in 1..k |-> Shifted(n, k)[k-i] % Base]
LengthValue(bs) ==
    LET value[i \in 0..Len(bs)] == IF i = 0 THEN 0 ELSE Base * value[i-1] + bs[i]
    IN  value[Len(bs)]

\* outputv on a writable socket
Outputv(data) ==
    /\ Len(sent) < MaxSends
    /\ stream' = stream \o LengthBytes(Len(data), packet) \o data
    /\ sent' = Append(sent, data)
    /\ UNCHANGED <<packet, r, delivered, fault>>

-----------------------------------------------------------------------------
(***************************************************************************)
(* The driver queue (external: the emulator's driver_sizeq, driver_peekq   *)
(* and driver_deq)                                                         *)
(***************************************************************************)

driver_sizeq(x) == x.recvd - x.taken
Queued(x) == SubSeq(stream, x.taken + 1, x.recvd)

\* The length of the first vector that driver_peekq returns
FirstVector(x) == Min(x.cuts) - x.taken

\* driver_deq fails, and takes nothing, if there is less than n.
driver_deq(x, n) ==
    IF n > driver_sizeq(x) THEN x
    ELSE [x EXCEPT !.taken = @ + n, !.cuts = {c \in @ : c > x.taken + n}]

-----------------------------------------------------------------------------
(***************************************************************************)
(* emit_read_buffer and its helpers.  An outcome is the handler after it,  *)
(* whether data was sent, the messages, and undefined behaviour met.       *)
(***************************************************************************)

Nothing(x) == [x |-> x, did |-> FALSE, msgs |-> <<>>, fault |-> "none"]

\* Mutant: what is left of the last piece is dropped.
reduce_read_countDrops(o, n) ==
    LET rc == o.x.read_count
        k == Min({i \in 0..Len(rc) : Totals(rc)[i] >= n})
    IN  [o EXCEPT !.x.read_count = SubSeq(rc, k + 1, Len(rc))]

\* reduce_read_count takes n off the front, splitting the piece it ends in.
reduce_read_count(o, n) ==
    LET rc == o.x.read_count
        k == Min({i \in 0..Len(rc) : Totals(rc)[i] >= n})
        rest == SubSeq(rc, k + 1, Len(rc))
        over == Totals(rc)[k] - n
    IN  IF Total(rc) < n THEN [o EXCEPT !.fault = "front of empty read_count"]
        ELSE [o EXCEPT !.x.read_count = IF over > 0 THEN <<over>> \o rest ELSE rest]

\* move_read_data copies n bytes, or as many as there are, into a message and
\* takes them off the queue.  The message is sent as n bytes long, and its
\* first header bytes apart, whatever the number copied.
move_read_data(o, n) ==
    [o EXCEPT !.x = driver_deq(@, n),
              !.msgs = Append(@, SubSeq(Queued(o.x), 1, Min({n, driver_sizeq(o.x)}))),
              !.fault = IF n > driver_sizeq(o.x) THEN "read past the data"
                        ELSE IF n < o.x.header THEN "negative length" ELSE @]

\* The sizes the length in front of the queue may be read as.  It is read
\* from the first vector: bytes that are not in it can be anything.
PktSizes(x) ==
    {LengthValue(bs) : bs \in {b \in [1..x.packet -> Byte] :
        \A i \in 1..Min({x.packet, FirstVector(x)}) : b[i] = Queued(x)[i]}}

\* Mutant: the length stays on the queue.
EmitPacketKeepsLength(x, n) == reduce_read_count(move_read_data(Nothing(x), n), n)

\* One packet: the length goes off the queue, but not off read_count.
EmitPacket(x, n) ==
    reduce_read_count(
        move_read_data([Nothing(x) EXCEPT !.x = driver_deq(@, x.packet)], n), n)

\* A passive socket without framing: all there is, or what was asked for.
EmitBytes(x, len) ==
    IF len = 0
    THEN move_read_data([Nothing(x) EXCEPT !.x.read_count = <<>>], driver_sizeq(x))
    ELSE move_read_data(reduce_read_count(Nothing(x), len), len)

\* An active one: n messages of the sizes the pieces had.
EmitPieces(x, n) ==
    LET Pop(o) == [o EXCEPT !.x.read_count = Tail(@)]
        piece[i \in 0..n] ==
            LET o == piece[i-1] IN
            IF i = 0 THEN Nothing(x)
            ELSE IF o.fault # "none" THEN o
            ELSE IF o.x.read_count = <<>>
            THEN [o EXCEPT !.fault = "front of empty read_count"]
            ELSE move_read_data(Pop(o), Head(o.x.read_count))
    IN  piece[n]

\* The numbers of uint32_t, in which packet and pkt_size are added
Word == Base * Base * Base * Base

\* Mutant: the length itself is not counted in what must be there.
WholePacketShort(x, n) == driver_sizeq(x) >= n % Word
WholePacket(x, n) == driver_sizeq(x) >= (x.packet + n) % Word

\* The messages emit_read_buffer makes when the length was read as n, which is
\* 0 as well when there is no framing
Emit(x, len, n) ==
    CASE n # 0                       -> EmitPacket(x, n)
      [] n = 0 /\ x.active = "false" -> EmitBytes(x, len)
      [] n = 0 /\ x.active = "once"  -> EmitPieces(x, 1)
      [] n = 0 /\ x.active = "true"  -> EmitPieces(x, Len(x.read_count))

AfterEmit(o) ==
    [o EXCEPT !.did = TRUE, !.x.active = IF @ = "once" THEN "false" ELSE @]

\* The outcomes of emit_read_buffer(len), when no close is pending
emit_read_buffer(x, len) ==
    IF driver_sizeq(x) = 0 \/ driver_sizeq(x) < len \/ driver_sizeq(x) < x.packet
    THEN {Nothing(x)}
    ELSE {IF n # 0 /\ ~WholePacket(x, n) THEN Nothing(x) ELSE AfterEmit(Emit(x, len, n))
            : n \in PktSizes(x)}

-----------------------------------------------------------------------------
(***************************************************************************)
(* The receiver                                                            *)
(***************************************************************************)

\* The handler becomes x and the messages of outcome o go out.
Emitted(o, x) ==
    /\ r' = x
    /\ delivered' = delivered \o o.msgs
    /\ fault' = o.fault
    /\ UNCHANGED <<packet, stream, sent>>

reset_waiting_recv(x) == [x EXCEPT !.waiting = FALSE, !.recv_len = 0]

\* Ends of the lengths in the stream: those of packet k, bytes Start(k) to
\* Start(k) + packet, are split by a cut inside.
Start(k) == Totals([i \in 1..Len(sent) |-> packet + Len(sent[i])])[k-1]
InsideLength(c) == \E k \in 1..Len(sent) : c > Start(k) /\ c < Start(k) + packet

\* do_read queues the n bytes and notes how many they were.
do_read(n) ==
    [r EXCEPT !.recvd = @ + n, !.cuts = @ \cup {r.recvd + n},
              !.read_count = Append(@, n)]

\* libutp's read callback
Read(n) ==
    /\ fault = "none" /\ r.recvd + n <= Len(stream)
    /\ Splits \/ ~InsideLength(r.recvd + n)
    /\ \/ /\ r.active = "false" /\ ~r.waiting
          /\ Emitted(Nothing(r), do_read(n))
       \/ /\ r.active = "false" /\ r.waiting
          /\ \E o \in emit_read_buffer(do_read(n), r.recv_len) :
               Emitted(o, IF o.did THEN reset_waiting_recv(o.x) ELSE o.x)
       \/ /\ r.active # "false"
          /\ \E o \in emit_read_buffer(do_read(n), 0) : Emitted(o, o.x)

\* recv(len): the caller waits if there is not enough.
Recv(len) ==
    /\ fault = "none" /\ r.active = "false" /\ ~r.waiting
    /\ Agree => r.packet = packet
    /\ \E o \in emit_read_buffer(r, len) :
         Emitted(o, IF o.did THEN o.x
                    ELSE [o.x EXCEPT !.waiting = TRUE, !.recv_len = len])

\* recv timed out: cancel_recv
CancelRecv ==
    /\ fault = "none" /\ r.waiting
    /\ Emitted(Nothing(r), reset_waiting_recv(r))

\* Mutant: {active, once} does not look at what is queued.
SetoptsSendsNotOnce(x, a) == a = "true"

\* setopts sends queued data at once if the socket becomes active, or stays
\* {active, true}.
SetoptsSends(x, a) ==
    \/ a = "true"
    \/ a = "once" /\ x.active = "false" /\ x.read_count # <<>>

\* setopts with {active, a} and {packet, k}
Setopts(a, k) ==
    /\ fault = "none"
    /\ Agree => k = packet
    /\ Shared \/ ~r.waiting
    /\ LET x == [r EXCEPT !.active = a, !.packet = k] IN
       \E o \in IF SetoptsSends(r, a) THEN emit_read_buffer(x, 0) ELSE {Nothing(x)} :
         Emitted(o, o.x)

Next ==
    \/ \E data \in Payloads : Outputv(data)
    \/ \E n \in 1..MaxPiece : Read(n)
    \/ \E len \in RecvLens : Recv(len)
    \/ CancelRecv
    \/ \E a \in Actives[packet], k \in {0, packet} : Setopts(a, k)

Spec == Init /\ [][Next]_vars

-----------------------------------------------------------------------------
(***************************************************************************)
(* Properties                                                              *)
(***************************************************************************)

\* What the properties need.  A header is no longer than the shortest data; with
\* framing no piece ends inside a length, the receiver reads with the sender's
\* packet option, lengths fit in their bytes, and a packet with its length in
\* 32 bits.
Sound ==
    /\ Headers \subseteq {0, 1}
    /\ \A k \in Packets \ {0} :
         /\ ~Splits /\ Agree
         /\ \A d \in Payloads : Shifted(Len(d), k)[k] = 0 /\ k + Len(d) < Word

\* {active, true} is not used with framing.
NoTrue == \A k \in Packets \ {0} : "true" \notin Actives[k]

TypeOK ==
    /\ packet \in {0, 1, 2, 4} /\ stream \in Seq(Byte) /\ sent \in Seq(Payloads)
    /\ delivered \in Seq(Seq(Byte)) /\ r \in Handler
    /\ r.taken <= r.recvd /\ r.recvd <= Len(stream)
    /\ r.cuts \subseteq (r.taken+1)..r.recvd
    /\ r.recvd > r.taken => r.recvd \in r.cuts

\* Undefined behaviour is never met: read_count has a piece when one is taken,
\* a message is as long as its data, and no shorter than its header
\* (socket_handler.cc, emit_read_buffer and reduce_read_count).
NoFault == fault = "none"

\* The reading end implements a stream of items: without framing the bytes of
\* the messages are those sent, in order; with framing the messages are the
\* packets sent, whole.
Stream == INSTANCE MessageStream WITH
    sent <- IF packet = 0 THEN stream ELSE sent,
    got <- IF packet = 0 THEN FlattenSeq(delivered) ELSE delivered
ImplementsStream == Stream!StreamSpec

\* read_count and the driver queue agree.  Without framing the counts add up to
\* the bytes queued; with it they are ahead by the lengths taken off the queue,
\* never behind, so that reduce_read_count does not run out.
ReadCountExact ==
    Total(r.read_count) = driver_sizeq(r) + packet * Len(delivered)

\* The receiver reads with the sender's packet option, or has not begun to read.
OptionsInv ==
    /\ packet \in Packets /\ r.active \in Actives[packet] \cup {"false"}
    /\ r.header \in Headers
    /\ r.packet # packet =>
         /\ r.packet = 0
         /\ Agree => /\ r.active = "false" /\ ~r.waiting
                     /\ r.taken = 0 /\ delivered = <<>>

\* With framing the stream is the packets sent, each behind its length; what
\* has been taken is the packets delivered, and no vector ends in a length.
PacketsInv ==
    packet # 0 =>
        /\ Len(stream) = Start(Len(sent) + 1)
        /\ \A k \in 1..Len(sent) :
             SubSeq(stream, Start(k) + 1, Start(k+1)) =
                 LengthBytes(Len(sent[k]), packet) \o sent[k]
        /\ delivered = SubSeq(sent, 1, Len(delivered)) /\ Len(delivered) <= Len(sent)
        /\ r.taken = Start(Len(delivered) + 1)
        /\ \A c \in r.cuts : ~InsideLength(c)

\* Without framing what has been taken is the data delivered, end to end.
BytesInv ==
    packet = 0 =>
        LET ends == Totals([i \in 1..Len(delivered) |-> Len(delivered[i])]) IN
        /\ r.taken = ends[Len(delivered)]
        /\ \A i \in 1..Len(delivered) :
             delivered[i] = SubSeq(stream, ends[i-1] + 1, ends[i])

\* The types, with vectors that end where the pieces did, the counts, and what
\* has been delivered: the inductive invariant of ReadBufferProofs.
BufferInv == TypeOK /\ ReadCountExact /\ OptionsInv /\ PacketsInv /\ BytesInv

\* The queue begins with something a reader of "len" bytes can have: the next
\* packet is there in full, or without framing any byte, and in either case
\* len bytes are there.
Available(len) ==
    LET next == Len(delivered) + 1 IN
    /\ driver_sizeq(r) > 0 /\ driver_sizeq(r) >= len
    /\ packet # 0 => next <= Len(sent) /\ driver_sizeq(r) >= packet + Len(sent[next])

\* A process that waits in recv waits only while its data is not there: recv
\* and the read callback hand over a packet as soon as it is complete.
ReceiverServed == (r.waiting /\ r.active = "false") => ~Available(r.recv_len)

\* An active socket keeps nothing back that could be delivered: neither the
\* read callback nor setopts leaves a complete packet, or a byte without
\* framing, in the queue.
ActiveServed == r.active # "false" => ~Available(0)
=============================================================================
