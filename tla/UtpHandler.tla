----------------------------- MODULE UtpHandler -----------------------------
(***************************************************************************)
(* The UtpHandler object behind a connected port (c_src/utp_handler.cc,    *)
(* with Client, Server and the parts of SocketHandler it uses), the libutp *)
(* socket it owns, as the handler sees it (external), and the callbacks by *)
(* which libutp drives it.  The calls that come from Erlang are in GenUtp. *)
(*                                                                         *)
(* Two threads touch the handler.  The PORT thread runs control, outputv   *)
(* and stop, one call at a time (the driver asks for port-level locking).  *)
(* The MAIN thread runs libutp and its callbacks, on the main port, with   *)
(* utp_mutex held.  The port thread takes utp_mutex only for part of what  *)
(* it does, so a port call is split where it takes or releases the mutex   *)
(* and where it acts on something it read without it; a callback is one    *)
(* step.  With SMP = FALSE the emulator has a single scheduler thread and  *)
(* no callback comes in the middle of a port call.                         *)
(*                                                                         *)
(* Data is abstracted to amounts: write_queue to its size, the port's      *)
(* driver queue to a number of bytes, each received by one read callback.  *)
(***************************************************************************)
EXTENDS Naturals, Sequences

CONSTANTS
    Procs,      \* Erlang processes that use the socket
    Owner,      \* the port's connected process, one of them
    SMP,        \* TRUE: port thread and main thread run concurrently
    Calls,      \* process -> the gen_utp calls it may make
    MaxCalls,   \* bound on the calls of one process
    SendSizes,  \* sizes of the data sent
    RecvLens,   \* lengths asked for by recv
    MaxEvents,  \* bound on the read callbacks and send errors
    SendTmouts, \* values of the send_timeout option: 0, finite, infinity
    RecvTmout,  \* TRUE: recv is called with a finite timeout
    Opts,       \* the options setopts is called with
    Actives,    \* initial values of the active option
    Peer        \* what may happen to the connection from outside

ASSUME OwnerAssumption == Owner \in Procs
ASSUME BoundsAssumption == MaxCalls \in Nat /\ MaxEvents \in Nat
ASSUME SizesAssumption == SendSizes \subseteq Nat /\ RecvLens \subseteq Nat
ASSUME ActivesAssumption == Actives \subseteq {"false", "once", "true"}
ASSUME OptsAssumption ==
    Opts \subseteq {"active_false", "active_once", "active_true", "bufsize"}
ASSUME FlagsAssumption ==
    /\ SMP \in BOOLEAN /\ RecvTmout \in BOOLEAN
    /\ SendTmouts \subseteq {"zero", "finite", "infinity"}

VARIABLES
    h,        \* the handler object, a record of its fields
    sock,     \* the state of the libutp socket
    up,       \* the port is open: no stop callback yet
    handed,   \* gen_utp has returned the port to its user
    pt,       \* the port call in progress on the port thread
    pc,       \* what each process is doing
    calls,    \* calls each process has made; names its current reference
    want,     \* bytes its current send is for
    replies,  \* {utp_reply, Port, V} messages in its mailbox, in order
    refs,     \* {Ref, V} messages in its mailbox
    res,      \* result of its last call
    app,      \* {utp, ...}, {utp_closed, ...}, {utp_error, ...} at the owner
    events,   \* read callbacks and send errors so far
    lost,     \* data taken off the driver queue was sent to no process
    fault     \* how the driver crashed, "none" if it has not

vars == <<h, sock, up, handed, pt, pc, calls, want, replies, refs, res, app,
          events, lost, fault>>

Nil == "nil"      \* driver_term_nil
Zero == "zero"    \* the integer 0 stored where a process identifier goes
NoRef == <<>>     \* an empty Binary

Status == {"not_connected", "connect_pending", "connected", "connect_failed",
           "closing", "destroying", "stopped"}
SockStates == {"none", "SYN_SENT", "CONNECTED", "CONNECTED_FULL", "GOT_FIN",
               "DESTROY_DELAY", "FIN_SENT", "RESET", "DESTROY", "freed"}
Refs == Procs \X Nat

Ref(p) == <<p, calls[p]>>

\* The fields of a UtpHandler.  wq is write_queue.size(), rq is
\* driver_sizeq(port), utp says whether the pointer is set.
Handler == [status : Status, utp : BOOLEAN, writable : BOOLEAN,
            sender_waiting : BOOLEAN, receiver_waiting : BOOLEAN,
            eof_seen : BOOLEAN, close_pending : BOOLEAN,
            caller : Procs \cup {Nil, Zero}, caller_ref : Refs \cup {NoRef},
            recv_len : Nat, wq : Nat, rq : Nat,
            active : {"false", "once", "true"},
            send_tmout : {"zero", "finite", "infinity"},
            selected : BOOLEAN, deleted : BOOLEAN]

NewHandler(a, tmout) ==
    [status |-> "not_connected", utp |-> FALSE, writable |-> FALSE,
     sender_waiting |-> FALSE, receiver_waiting |-> FALSE,
     eof_seen |-> FALSE, close_pending |-> FALSE,
     caller |-> Nil, caller_ref |-> NoRef, recv_len |-> 0, wq |-> 0, rq |-> 0,
     active |-> a, send_tmout |-> tmout, selected |-> FALSE, deleted |-> FALSE]

Idle == [pc |-> "idle", by |-> Owner, n |-> 0, seen |-> "none", opt |-> "none"]

Init ==
    /\ \E a \in Actives, tmout \in SendTmouts : h = NewHandler(a, tmout)
    /\ sock = "none" /\ up = TRUE /\ handed = FALSE
    /\ pt = Idle
    /\ pc = [p \in Procs |-> "idle"]
    /\ calls = [p \in Procs |-> 0]
    /\ want = [p \in Procs |-> 0]
    /\ replies = [p \in Procs |-> <<>>]
    /\ refs = [p \in Procs |-> {}]
    /\ res = [p \in Procs |-> "none"]
    /\ app = <<>> /\ events = 0 /\ lost = FALSE /\ fault = "none"

-----------------------------------------------------------------------------
(***************************************************************************)
(* Helpers of the handler                                                  *)
(***************************************************************************)

\* libutp's UTP_Close, on a socket it has not closed yet
UTP_Close(s) ==
    CASE s \in {"CONNECTED", "CONNECTED_FULL"} -> "FIN_SENT"
      [] s \in {"SYN_SENT", "GOT_FIN"}         -> "DESTROY_DELAY"
      [] OTHER                                 -> "DESTROY"

\* Mutant: a close in progress is taken for a close already done.
ClosesUnlessClosing(x) == x.utp /\ x.status \notin {"closing", "destroying"} /\ x.wq = 0

\* close_utp goes through with the close.
Closes(x) == x.utp /\ x.status # "destroying" /\ x.wq = 0

\* Mutant: the pointer to the closed socket is kept.
close_utpKeepsPointer(x) == IF Closes(x) THEN [x EXCEPT !.status = "closing"] ELSE x

close_utp(x) ==
    IF Closes(x) THEN [x EXCEPT !.status = "closing", !.utp = FALSE] ELSE x

SockAfter(x, s) == IF Closes(x) THEN UTP_Close(s) ELSE s

\* Mutant: receiver_waiting is left set.
reset_waiting_recvStillWaiting(x) ==
    [x EXCEPT !.recv_len = 0, !.caller_ref = NoRef, !.caller = Zero]

reset_waiting_recv(x) ==
    [x EXCEPT !.receiver_waiting = FALSE, !.recv_len = 0,
              !.caller_ref = NoRef, !.caller = Zero]

\* utp_send_term and utp_output_term, which do nothing on a closed port.
SendReply(p, v) ==
    replies' = IF up /\ p \in Procs
               THEN [replies EXCEPT ![p] = Append(@, v)] ELSE replies
SendRef(p, ref, v) ==
    refs' = IF up /\ p \in Procs
            THEN [refs EXCEPT ![p] = @ \cup {<<ref, v>>}] ELSE refs
SendApp(msgs) == app' = IF up THEN app \o msgs ELSE app

\* emit_read_buffer(len, ...): either it turns into a closed message, or it
\* has enough data to send, or it sends nothing.

\* Mutant: the closed message does not wait for the queued data.
EmitsClosedEarly(x) == x.close_pending
EmitsClosed(x) == x.close_pending /\ x.rq = 0

\* Mutant: the length asked for is compared one off with what is there.
EmitsDataOffByOne(x, len) == ~EmitsClosed(x) /\ x.rq # 0 /\ x.rq > len
EmitsData(x, len) == ~EmitsClosed(x) /\ x.rq # 0 /\ x.rq >= len

EmitCount(x, len) ==
    CASE x.active = "false" -> IF len = 0 THEN x.rq ELSE len
      [] x.active = "once"  -> 1
      [] x.active = "true"  -> x.rq
emit_read_buffer(x, len) ==
    IF EmitsClosed(x) THEN [x EXCEPT !.close_pending = FALSE]
    ELSE IF EmitsData(x, len)
    THEN [x EXCEPT !.rq = @ - EmitCount(x, len),
                   !.active = IF @ = "once" THEN "false" ELSE @]
    ELSE x
\* The messages it sends when the receiver is the connected process.
EmitToOwner(x, len) ==
    IF EmitsClosed(x) THEN <<"closed">>
    ELSE IF EmitsData(x, len) THEN [i \in 1..EmitCount(x, len) |-> "data"]
    ELSE <<>>

-----------------------------------------------------------------------------
(***************************************************************************)
(* Main thread: libutp and its callbacks, under utp_mutex                  *)
(***************************************************************************)

MainMay == fault = "none" /\ (SMP \/ pt.pc = "idle")

\* What the processes do by themselves, a callback leaves alone.
procVars == <<pc, calls, want, res, handed>>

\* libutp's UTP_Write(n): takes some of the bytes, through the write callback,
\* and says whether the socket is still writable.  It may report FALSE after
\* taking them all, and takes at least "least" of them.
UTP_Write(s, n, least) ==
    IF s # "CONNECTED" THEN {[took |-> 0, ok |-> FALSE, sock |-> s]}
    ELSE {[took |-> n, ok |-> TRUE, sock |-> s]} \cup
         {[took |-> k, ok |-> FALSE, sock |-> "CONNECTED_FULL"] : k \in least..n}

\* Mutant: only a successful connect is reported.
TellConnectorSuccess(v) ==
    IF h.caller_ref # NoRef /\ v = "ok" THEN SendRef(Owner, h.caller_ref, v)
    ELSE UNCHANGED refs

\* The outcome of connect goes to the port's owner, once connect_validate has
\* stored its reference.
TellConnector(v) ==
    IF h.caller_ref # NoRef THEN SendRef(Owner, h.caller_ref, v) ELSE UNCHANGED refs

\* do_error(e), called by libutp in state s
DoError(e, s) ==
    \/ /\ h.status = "connect_pending"
       /\ h' = [h EXCEPT !.status = "connect_failed"]
       /\ TellConnector("error")
       /\ sock' = s
       /\ UNCHANGED app
    \/ /\ h.status = "connected" /\ e = "ECONNRESET"
       /\ h' = close_utp(h) /\ sock' = SockAfter(h, s)
       /\ UNCHANGED <<refs, app>>
    \/ /\ h.status = "connected" /\ e # "ECONNRESET"
       /\ SendApp(IF h.active # "false" THEN <<"error">> ELSE <<>>)
       /\ sock' = s
       /\ UNCHANGED <<h, refs>>
    \/ /\ h.status \notin {"connect_pending", "connected"}
       /\ sock' = s
       /\ UNCHANGED <<h, refs, app>>

\* The peer acknowledges our SYN: do_state_change(UTP_STATE_CONNECT).
UtpConnect ==
    /\ MainMay /\ sock = "SYN_SENT"
    /\ sock' = "CONNECTED"
    /\ IF h.status = "connect_pending" THEN TellConnector("ok") ELSE UNCHANGED refs
    /\ h' = [h EXCEPT !.status = "connected", !.writable = TRUE]
    /\ UNCHANGED <<procVars, up, pt, replies, app, events, lost, fault>>

\* Mutant: a waiting sender is told only if nothing had been queued.
RetryDueWhenEmpty(w) == w.ok /\ h.sender_waiting /\ h.wq = 0
RetryDue(w) == w.ok /\ h.sender_waiting

\* Mutants: the result of UTP_Write is ignored; sender_waiting is not reset.
WrittenIgnoringResult(w) ==
    [h EXCEPT !.writable = TRUE, !.wq = @ - w.took, !.sender_waiting = @ /\ ~RetryDue(w)]
WrittenStillWaiting(w) == [h EXCEPT !.writable = w.ok, !.wq = @ - w.took]

\* The handler after the WRITABLE handler's UTP_Write came out as w
Written(w) ==
    [h EXCEPT !.writable = w.ok, !.wq = @ - w.took, !.sender_waiting = @ /\ ~RetryDue(w)]

\* Acknowledgements make room: do_state_change(UTP_STATE_WRITABLE), which
\* first writes what is queued.  There is room for at least one packet.
UtpWritable ==
    /\ MainMay /\ sock = "CONNECTED_FULL"
    /\ \E w \in IF h.wq = 0 THEN {[took |-> 0, ok |-> TRUE, sock |-> "CONNECTED"]}
                ELSE UTP_Write("CONNECTED", h.wq, 1) :
         /\ IF RetryDue(w) THEN SendReply(h.caller, "retry") ELSE UNCHANGED replies
         /\ h' = IF h.close_pending THEN close_utp(Written(w)) ELSE Written(w)
         /\ sock' = IF h.close_pending THEN SockAfter(Written(w), w.sock) ELSE w.sock
    /\ UNCHANGED <<procVars, up, pt, refs, app, events, lost, fault>>

\* The port thread uses the driver queue without utp_mutex, in recv and stop:
\* what that leads to at the same time as do_read is undefined.
QueueRace == IF pt.pc \in {"recv_emit", "stop_test"} THEN {"driver queue race"} ELSE {}

\* The port is no more, and the driver queue with it: driver_enq does nothing
\* and driver_sizeq gives -1, which do_read takes for the size of the data.
Gone == h.status = "stopped"

\* do_read on such a port: emit_read_buffer, if it is called, looks for the
\* data where there is none (undefined), and its messages reach nobody.
ReadGone ==
    /\ Gone
    /\ h' = CASE h.active = "false" /\ h.receiver_waiting -> reset_waiting_recv(h)
              [] h.active = "once"                        -> [h EXCEPT !.active = "false"]
              [] OTHER                                    -> h
    /\ fault' \in {fault} \cup IF h.active # "false" \/ h.receiver_waiting
                              THEN {"closed driver queue"} ELSE {}
    /\ UNCHANGED <<refs, app, lost>>

\* Data arrives in order: do_read.
UtpRead ==
    /\ MainMay /\ sock \in {"CONNECTED", "CONNECTED_FULL"}
    /\ events < MaxEvents
    /\ events' = events + 1
    /\ LET x == [h EXCEPT !.rq = @ + 1]
           passive == h.active = "false"
           y == emit_read_buffer(x, IF passive THEN h.recv_len ELSE 0)
           drained == IF h'.rq = 0 /\ ~h.utp THEN {"UTP_RBDrained(0)"} ELSE {fault}
       IN  \/ ReadGone
           \/ /\ ~Gone /\ passive
              /\ IF h.receiver_waiting /\ EmitsData(x, h.recv_len)
                 THEN /\ h' = reset_waiting_recv(y)
                      /\ SendRef(h.caller, h.caller_ref, "data")
                      /\ lost' = (lost \/ h.caller \notin Procs)
                 ELSE h' = x /\ UNCHANGED <<refs, lost>>
              /\ fault' \in drained \cup QueueRace
              /\ UNCHANGED app
           \/ /\ ~Gone /\ ~passive
              /\ h' = y
              /\ SendApp(EmitToOwner(x, 0))
              /\ fault' \in drained \cup QueueRace
              /\ UNCHANGED <<refs, lost>>
    /\ UNCHANGED <<procVars, sock, up, pt, replies>>

\* The peer's FIN arrives in order: do_state_change(UTP_STATE_EOF).
UtpEof ==
    /\ MainMay /\ sock \in {"CONNECTED", "CONNECTED_FULL"} /\ "fin" \in Peer
    /\ LET x == [h EXCEPT !.wq = 0]
           y == IF h.status # "stopped" THEN close_utp(x) ELSE x
       IN  /\ h' = [y EXCEPT !.writable = FALSE, !.eof_seen = TRUE]
           /\ sock' = IF h.status # "stopped" THEN SockAfter(x, "GOT_FIN") ELSE "GOT_FIN"
    /\ UNCHANGED <<procVars, up, pt, replies, refs, app, events, lost, fault>>

\* A RESET packet arrives, in whatever state the socket is in.
UtpReset ==
    /\ MainMay /\ sock \notin {"none", "freed"} /\ "rst" \in Peer
    /\ DoError("ECONNRESET", IF sock = "FIN_SENT" THEN "DESTROY" ELSE "RESET")
    /\ UNCHANGED <<procVars, up, pt, replies, events, lost, fault>>

\* libutp gives up retransmitting (a peer that never answers at all, or one
\* that falls silent).
UtpTimeout ==
    /\ MainMay
    /\ "timeout" \in Peer \/ ("no_answer" \in Peer /\ sock = "SYN_SENT")
    /\ sock \in {"SYN_SENT", "CONNECTED", "CONNECTED_FULL", "FIN_SENT"}
    /\ DoError("ETIMEDOUT", IF sock = "FIN_SENT" THEN "DESTROY" ELSE "RESET")
    /\ UNCHANGED <<procVars, up, pt, replies, events, lost, fault>>

\* A datagram could not be sent: do_send_to calls do_error(errno) itself and
\* libutp does not hear of it.
SendError ==
    /\ MainMay /\ "senderr" \in Peer /\ sock \notin {"none", "freed"}
    /\ events < MaxEvents
    /\ events' = events + 1
    /\ DoError("errno", sock)
    /\ UNCHANGED <<procVars, up, pt, replies, lost, fault>>

\* The delay after a FIN, or after closing a connection that was not
\* established, is over.
UtpDelayOver ==
    /\ MainMay /\ sock \in {"GOT_FIN", "DESTROY_DELAY"}
    /\ LET s == IF sock = "DESTROY_DELAY" THEN "DESTROY" ELSE "RESET"
       IN  \/ sock' = s /\ UNCHANGED <<h, refs, app>>
           \/ DoError("ECONNRESET", s)
    /\ UNCHANGED <<procVars, up, pt, replies, events, lost, fault>>

\* Our FIN and all data before it are acknowledged.
UtpFinAcked ==
    /\ MainMay /\ sock = "FIN_SENT"
    /\ sock' = "DESTROY"
    /\ UNCHANGED <<procVars, h, up, pt, replies, refs, app, events, lost, fault>>

\* UTP_CheckTimeouts frees the socket: do_state_change(UTP_STATE_DESTROYING).
UtpDestroying ==
    /\ MainMay /\ sock = "DESTROY"
    /\ sock' = "freed"
    /\ LET x == [h EXCEPT !.selected = FALSE]
           answer == h.close_pending /\ h.caller_ref # NoRef
           to == IF h.caller = Nil THEN Owner ELSE h.caller
       IN  \/ /\ h.status = "closing" /\ answer
              /\ SendRef(to, h.caller_ref, "ok")
              /\ h' = [x EXCEPT !.caller = Nil, !.close_pending = FALSE,
                                !.writable = FALSE, !.status = "destroying",
                                !.eof_seen = FALSE]
              /\ UNCHANGED app
           \/ /\ h.status = "closing" /\ ~answer
              /\ SendApp(IF h.active # "false" /\ h.rq = 0 THEN <<"closed">> ELSE <<>>)
              /\ h' = [x EXCEPT !.writable = FALSE, !.status = "destroying",
                                !.eof_seen = FALSE]
              /\ UNCHANGED refs
           \/ /\ h.status = "stopped"
              /\ h' = [x EXCEPT !.deleted = TRUE]
              /\ UNCHANGED <<refs, app>>
           \/ /\ h.status \notin {"closing", "stopped"}
              /\ h' = x
              /\ UNCHANGED <<refs, app>>
    /\ UNCHANGED <<procVars, up, pt, replies, events, lost, fault>>

\* Server::do_incoming, for the port made for an accepted connection
Incoming ==
    /\ fault = "none" /\ "incoming" \in Peer /\ sock = "none" /\ up
    /\ h.status = "not_connected" /\ pc[Owner] = "idle"
    /\ h' = [h EXCEPT !.utp = TRUE, !.writable = TRUE, !.status = "connected",
                      !.selected = TRUE]
    /\ sock' = "CONNECTED"
    /\ handed' = TRUE
    /\ UNCHANGED <<up, pt, pc, calls, want, replies, refs, res, app, events,
                   lost, fault>>

Main == \/ UtpConnect \/ UtpWritable \/ UtpRead \/ UtpEof \/ UtpReset
        \/ UtpTimeout \/ SendError \/ UtpDelayOver \/ UtpFinAcked
        \/ UtpDestroying \/ Incoming
=============================================================================
