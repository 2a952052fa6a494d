------------------------------- MODULE GenUtp -------------------------------
(***************************************************************************)
(* A uTP connection as a whole: the processes that call gen_utp            *)
(* (src/gen_utp.erl) on a port, the port calls these become, on the port   *)
(* thread (c_src/utp_handler.cc, client.cc, socket_handler.cc), and the    *)
(* libutp callbacks of UtpHandler.                                         *)
(*                                                                         *)
(* A port call that takes utp_mutex part-way is several steps, at the      *)
(* places pt.pc names.  A process is in a call while pc[p] is not "idle";  *)
(* the messages it can receive are split by their pattern into replies     *)
(* ({utp_reply, Port, V}) and refs ({Ref, V}).                             *)
(***************************************************************************)
EXTENDS UtpHandler

sockVars == <<sock, events>>

\* p begins a call whose first port call can run now.
Begin(p, op) ==
    /\ fault = "none" /\ pt.pc = "idle" /\ handed
    /\ pc[p] = "idle" /\ op \in Calls[p] /\ calls[p] < MaxCalls
    /\ calls' = [calls EXCEPT ![p] = @ + 1]

\* The port call in progress is at l, and goes on for process pt.by.
At(l) == fault = "none" /\ pt.pc = l
Goto(l) == pt' = [pt EXCEPT !.pc = l]
PortCall(l, p, n, seen, opt) ==
    pt' = [pc |-> l, by |-> p, n |-> n, seen |-> seen, opt |-> opt]
Becomes(p, l) == pc' = [pc EXCEPT ![p] = l]
Returns(p, v) == Becomes(p, "idle") /\ res' = [res EXCEPT ![p] = v]

\* A call on a port that is closed: erlang:port_control raises badarg.
PortGone(p, op) ==
    /\ Begin(p, op) /\ ~up
    /\ Returns(p, IF op = "close" THEN "badarg" ELSE "error")
    /\ UNCHANGED <<h, sockVars, up, handed, pt, want, replies, refs, app, lost, fault>>

(* send/3: outputv, then a wait for its replies *)

\* outputv up to the point where it takes utp_mutex: status, utp and writable
\* are read, and write_queue is filled, without it.
Outputv(p, n) ==
    \/ /\ h.status # "connected" \/ ~h.utp
       /\ SendReply(p, "error")
       /\ Becomes(p, "send_reply")
       /\ UNCHANGED <<h, pt>>
    \/ /\ h.status = "connected" /\ h.utp /\ h.writable
       /\ h' = [h EXCEPT !.wq = @ + n]
       /\ PortCall("write", p, n, "none", "none")
       /\ Becomes(p, "port")
       /\ UNCHANGED replies
    \/ /\ h.status = "connected" /\ h.utp /\ ~h.writable /\ h.send_tmout = "zero"
       /\ SendReply(p, "error")
       /\ Becomes(p, "send_reply")
       /\ UNCHANGED <<h, pt>>
    \/ /\ h.status = "connected" /\ h.utp /\ ~h.writable /\ h.send_tmout # "zero"
       /\ PortCall("wait_lock", p, 0, "none", "none")
       /\ Becomes(p, "port")
       /\ UNCHANGED <<h, replies>>

Send(p, n) ==
    /\ Begin(p, "send") /\ up
    /\ want' = [want EXCEPT ![p] = n]
    /\ Outputv(p, n)
    /\ UNCHANGED <<sockVars, up, handed, refs, res, app, lost, fault>>

\* outputv with utp_mutex: UTP_Write, then the reply.
OutputvWrite ==
    /\ At("write")
    /\ IF h.utp
       THEN \E w \in UTP_Write(sock, pt.n, 0) :
              /\ h' = [h EXCEPT !.writable = w.ok, !.wq = @ - w.took]
              /\ sock' = w.sock
              /\ SendReply(pt.by, "ok")
              /\ Becomes(pt.by, "send_reply")
              /\ pt' = Idle
              /\ UNCHANGED fault
       ELSE /\ fault' = "UTP_Write(0)"
            /\ UNCHANGED <<h, sock, replies, pc, pt>>
    /\ UNCHANGED <<up, handed, calls, want, refs, res, app, events, lost>>

\* outputv on a full socket: the caller is noted with utp_mutex held ...
OutputvNote ==
    /\ At("wait_lock")
    /\ h' = [h EXCEPT !.caller = pt.by, !.sender_waiting = TRUE]
    /\ Goto("wait_reply")
    /\ UNCHANGED <<sockVars, up, handed, pc, calls, want, replies, refs, res, app,
                   lost, fault>>

\* ... and told to wait after the mutex is released.
OutputvWait ==
    /\ At("wait_reply")
    /\ SendReply(pt.by, "wait")
    /\ Becomes(pt.by, "send_reply")
    /\ pt' = Idle
    /\ UNCHANGED <<h, sockVars, up, handed, calls, want, refs, res, app, lost, fault>>

\* The first receive of send/3 takes the first utp_reply, whatever it is.  A
\* {wait, Timeout} whose time is already up returns without cancelling.
SendReplied(p) ==
    /\ fault = "none" /\ pc[p] = "send_reply" /\ replies[p] # <<>>
    /\ replies' = [replies EXCEPT ![p] = Tail(@)]
    /\ \/ /\ Head(replies[p]) = "wait"
          /\ Becomes(p, "send_retry") /\ UNCHANGED res
       \/ /\ Head(replies[p]) = "wait" /\ h.send_tmout = "finite"
          /\ Returns(p, "error")
       \/ /\ Head(replies[p]) # "wait"
          /\ Returns(p, Head(replies[p]))
    /\ UNCHANGED <<h, sockVars, up, handed, pt, calls, want, refs, app, lost, fault>>

HasRetry(p) == \E i \in 1..Len(replies[p]) : replies[p][i] = "retry"
WithoutRetry(q) ==
    LET i == CHOOSE j \in 1..Len(q) :
                q[j] = "retry" /\ \A k \in 1..(j - 1) : q[k] # "retry"
    IN  SubSeq(q, 1, i - 1) \o SubSeq(q, i + 1, Len(q))

\* The second receive takes only a retry ...
TakeRetry(p) ==
    /\ fault = "none" /\ pc[p] = "send_retry" /\ HasRetry(p)
    /\ replies' = [replies EXCEPT ![p] = WithoutRetry(@)]
    /\ Becomes(p, "send_again")
    /\ UNCHANGED <<h, sockVars, up, handed, pt, calls, want, refs, res, app, lost, fault>>

\* ... and send/3 starts over.
Resend(p) ==
    /\ fault = "none" /\ pt.pc = "idle" /\ pc[p] = "send_again"
    /\ IF up THEN Outputv(p, want[p]) /\ UNCHANGED res
             ELSE Returns(p, "error") /\ UNCHANGED <<h, pt, replies>>
    /\ UNCHANGED <<sockVars, up, handed, calls, want, refs, app, lost, fault>>

\* No retry came within the send timeout.
SendTimesOut(p) ==
    /\ fault = "none" /\ pc[p] = "send_retry" /\ h.send_tmout = "finite" /\ ~HasRetry(p)
    /\ Becomes(p, "send_cancel")
    /\ UNCHANGED <<h, sockVars, up, handed, pt, calls, want, replies, refs, res, app,
                   lost, fault>>

\* cancel_send, and the receive that follows it: a reply that came meanwhile
\* is taken, and counts only if it is ok.
CancelSend(p) ==
    /\ fault = "none" /\ pt.pc = "idle" /\ pc[p] = "send_cancel"
    /\ IF up
       THEN /\ h' = [h EXCEPT !.sender_waiting = FALSE, !.caller = Nil]
            /\ IF replies[p] = <<>>
               THEN Returns(p, "error") /\ UNCHANGED replies
               ELSE /\ Returns(p, IF Head(replies[p]) = "ok" THEN "ok" ELSE "error")
                    /\ replies' = [replies EXCEPT ![p] = Tail(@)]
       ELSE Returns(p, "error") /\ UNCHANGED <<h, replies>>
    /\ UNCHANGED <<sockVars, up, handed, pt, calls, want, refs, app, lost, fault>>

(* recv/3 *)

\* A socket that is not passive gives badarg, which recv/3 returns as an error.
Recv(p, len) ==
    /\ Begin(p, "recv") /\ up
    /\ IF h.active # "false"
       THEN Returns(p, "error") /\ UNCHANGED pt
       ELSE PortCall("recv_emit", p, len, "none", "none") /\ Becomes(p, "port") /\ UNCHANGED res
    /\ UNCHANGED <<h, sockVars, up, handed, want, replies, refs, app, lost, fault>>

\* recv looks at the read buffer without utp_mutex, and so at the same time as
\* a read callback may fill it (QueueRace).
RecvEmit ==
    /\ At("recv_emit")
    /\ h' = emit_read_buffer(h, pt.n)
    /\ IF EmitsData(h, pt.n)
       THEN /\ SendRef(pt.by, Ref(pt.by), "data")
            /\ IF h'.rq = 0 THEN Goto("rb_drained") /\ UNCHANGED pc
                            ELSE pt' = Idle /\ Becomes(pt.by, "recv_wait")
            /\ UNCHANGED app
       ELSE /\ SendApp(IF EmitsClosed(h) THEN <<"closed">> ELSE <<>>)
            /\ Goto("recv_lock")
            /\ UNCHANGED <<refs, pc>>
    /\ UNCHANGED <<sockVars, up, handed, calls, want, replies, res, lost, fault>>

\* recv with utp_mutex, after emptying the read buffer: UTP_RBDrained(utp)
RecvDrained ==
    /\ At("rb_drained")
    /\ IF h.utp THEN pt' = Idle /\ Becomes(pt.by, "recv_wait") /\ UNCHANGED fault
                ELSE fault' = "UTP_RBDrained(0)" /\ UNCHANGED <<pt, pc>>
    /\ UNCHANGED <<h, sockVars, up, handed, calls, want, replies, refs, res, app, lost>>

\* recv with utp_mutex, when there was not enough to return
RecvNote ==
    /\ At("recv_lock")
    /\ h' = [h EXCEPT !.caller_ref = Ref(pt.by), !.caller = pt.by,
                      !.recv_len = pt.n, !.receiver_waiting = TRUE]
    /\ pt' = Idle
    /\ Becomes(pt.by, "recv_wait")
    /\ UNCHANGED <<sockVars, up, handed, calls, want, replies, refs, res, app, lost, fault>>

HasRef(p) == \E m \in refs[p] : m[1] = Ref(p)
TakeRef(p) == refs' = [refs EXCEPT ![p] = {m \in @ : m[1] # Ref(p)}]

RecvReplied(p) ==
    /\ fault = "none" /\ pc[p] = "recv_wait" /\ HasRef(p)
    /\ TakeRef(p)
    /\ Returns(p, "ok")
    /\ UNCHANGED <<h, sockVars, up, handed, pt, calls, want, replies, app, lost, fault>>

RecvTimesOut(p) ==
    /\ fault = "none" /\ pc[p] = "recv_wait" /\ RecvTmout /\ ~HasRef(p)
    /\ Becomes(p, "recv_cancel")
    /\ UNCHANGED <<h, sockVars, up, handed, pt, calls, want, replies, refs, res, app,
                   lost, fault>>

\* cancel_recv, and the receive that follows it
CancelRecv(p) ==
    /\ fault = "none" /\ pt.pc = "idle" /\ pc[p] = "recv_cancel"
    /\ IF up
       THEN /\ h' = reset_waiting_recv(h)
            /\ TakeRef(p)
            /\ Returns(p, IF HasRef(p) THEN "ok" ELSE "error")
       ELSE Returns(p, "error") /\ UNCHANGED <<h, refs>>
    /\ UNCHANGED <<sockVars, up, handed, pt, calls, want, replies, app, lost, fault>>

(* setopts/2 *)

\* The handler's options are copied and changed ...
Setopts(p, opt) ==
    /\ Begin(p, "setopts") /\ up
    /\ PortCall("opts_assign", p, 0, h.active, opt)
    /\ Becomes(p, "port")
    /\ UNCHANGED <<h, sockVars, up, handed, want, replies, refs, res, app, lost, fault>>

\* ... the copy is stored back, still without utp_mutex ...
SetoptsAssign ==
    /\ At("opts_assign")
    /\ h' = [h EXCEPT !.active = CASE pt.opt = "active_false" -> "false"
                                   [] pt.opt = "active_once"  -> "once"
                                   [] pt.opt = "active_true"  -> "true"
                                   [] OTHER                   -> pt.seen]
    /\ Goto("opts_lock")
    /\ UNCHANGED <<sockVars, up, handed, pc, calls, want, replies, refs, res, app,
                   lost, fault>>

SetoptsSends ==
    \/ h.active = "true"
    \/ h.active = "once" /\ pt.seen = "false" /\ h.rq > 0

\* ... and with it, what is already queued may become due.
SetoptsEmit ==
    /\ At("opts_lock")
    /\ IF SetoptsSends THEN h' = emit_read_buffer(h, 0) /\ SendApp(EmitToOwner(h, 0))
                       ELSE UNCHANGED <<h, app>>
    /\ Goto("opts_buf")
    /\ UNCHANGED <<sockVars, up, handed, pc, calls, want, replies, refs, res, lost, fault>>

\* A changed sndbuf or recbuf is passed on to libutp.
SetoptsBuf ==
    /\ At("opts_buf")
    /\ IF pt.opt = "bufsize" /\ ~h.utp
       THEN fault' = "UTP_SetSockopt(0)" /\ UNCHANGED <<pt, pc, res>>
       ELSE pt' = Idle /\ Returns(pt.by, "ok") /\ UNCHANGED fault
    /\ UNCHANGED <<h, sockVars, up, handed, calls, want, replies, refs, app, lost>>

(* close/1, and the stop callback that port_close leads to *)

\* Mutant: a destroyed connection is closed once more.
CloseWaitsAgain == ~h.close_pending /\ (h.eof_seen \/ h.status # "closing")

\* There is something for close to wait for.
CloseWaits ==
    ~h.close_pending /\ (h.eof_seen \/ h.status \notin {"closing", "destroying"})

\* UtpHandler::close up to the mutex: CloseWaits is decided without it.
CloseTest(p) ==
    IF CloseWaits
    THEN PortCall("close_lock", p, 0, "none", "none") /\ Becomes(p, "port")
    ELSE Becomes(p, "port_close") /\ UNCHANGED pt

Close(p) ==
    /\ Begin(p, "close") /\ up
    /\ CloseTest(p)
    /\ UNCHANGED <<h, sockVars, up, handed, want, replies, refs, res, app, lost, fault>>

\* Mutant: the caller is not noted.
ClosingForNobody ==
    [h EXCEPT !.status = "closing", !.close_pending = TRUE, !.eof_seen = FALSE,
              !.caller_ref = Ref(pt.by)]

\* The handler as UtpHandler::close leaves it for close_utp
ClosingFor ==
    [h EXCEPT !.status = "closing", !.close_pending = TRUE, !.eof_seen = FALSE,
              !.caller_ref = Ref(pt.by), !.caller = pt.by]

\* UtpHandler::close with utp_mutex
CloseLocked ==
    /\ At("close_lock")
    /\ h' = close_utp(ClosingFor) /\ sock' = SockAfter(ClosingFor, sock)
    /\ pt' = Idle
    /\ Becomes(pt.by, "close_wait")
    /\ UNCHANGED <<up, handed, calls, want, replies, refs, res, app, events, lost, fault>>

CloseReplied(p) ==
    /\ fault = "none" /\ pc[p] = "close_wait" /\ <<Ref(p), "ok">> \in refs[p]
    /\ TakeRef(p)
    /\ Becomes(p, "port_close")
    /\ UNCHANGED <<h, sockVars, up, handed, pt, calls, want, replies, res, app, lost, fault>>

\* stop() begins: the libutp socket is closed if it can be.
StopBegin(p) ==
    /\ up' = FALSE
    /\ h' = close_utp(h) /\ sock' = SockAfter(h, sock)
    /\ PortCall("stop_test", p, 0, "none", "none")

\* The driver has no flush callback (utpdrv.cc:116), and the emulator does not
\* call stop while there is data in the driver queue: the port is closed to
\* every process, and lingers.
Linger == h.rq > 0 /\ up' = FALSE /\ UNCHANGED <<h, sock, pt>>

\* erlang:port_close(Sock), at the end of close/1 and of a failed connect
PortClose(p) ==
    /\ fault = "none" /\ pt.pc = "idle" /\ pc[p] = "port_close"
    /\ \/ up /\ h.rq = 0 /\ StopBegin(p) /\ Becomes(p, "port") /\ UNCHANGED res
       \/ up /\ Linger /\ Returns(p, "ok")
       \/ ~up /\ Returns(p, "badarg") /\ UNCHANGED <<h, sock, up, pt>>
    /\ UNCHANGED <<handed, calls, want, replies, refs, app, events, lost, fault>>

\* The owner exits; the emulator closes the port, and with reason kill does not
\* mind what is in the driver queue.
OwnerExit ==
    /\ fault = "none" /\ pt.pc = "idle" /\ "exit" \in Calls[Owner]
    /\ sock # "none" /\ pc[Owner] # "dead"
    /\ Becomes(Owner, "dead")
    /\ \/ up /\ StopBegin(Owner)
       \/ up /\ Linger
       \/ ~up /\ UNCHANGED <<h, sock, up, pt>>
    /\ UNCHANGED <<handed, calls, want, replies, refs, res, app, events, lost, fault>>

\* Mutants: stop deletes a handler libutp may still call, or never deletes.
StopDeletesEarly == h.status \in {"closing", "destroying"}
StopDeletesNever == FALSE
StopDeletes == h.status = "destroying"

\* stop() without utp_mutex: the driver queue is emptied; a handler libutp is
\* done with is deleted.
StopTest ==
    /\ At("stop_test")
    /\ IF StopDeletes
       THEN /\ h' = [h EXCEPT !.rq = 0, !.deleted = TRUE]
            /\ pt' = Idle
            /\ IF pc[pt.by] = "dead" THEN UNCHANGED <<pc, res>> ELSE Returns(pt.by, "ok")
       ELSE /\ h' = [h EXCEPT !.rq = 0]
            /\ Goto("stop_mark")
            /\ UNCHANGED <<pc, res>>
    /\ UNCHANGED <<sockVars, up, handed, calls, want, replies, refs, app, lost, fault>>

\* Otherwise it is left for the DESTROYING callback to delete ...
StopMark ==
    /\ At("stop_mark")
    /\ h' = [h EXCEPT !.status = "stopped"]
    /\ Goto("stop_selected")
    /\ UNCHANGED <<sockVars, up, handed, pc, calls, want, replies, refs, res, app,
                   lost, fault>>

\* ... and its field selected is read once more.
StopSelected ==
    /\ At("stop_selected")
    /\ IF h.deleted
       THEN fault' = "use after delete" /\ UNCHANGED <<pt, pc, res>>
       ELSE /\ pt' = Idle
            /\ IF pc[pt.by] = "dead" THEN UNCHANGED <<pc, res>> ELSE Returns(pt.by, "ok")
            /\ UNCHANGED fault
    /\ UNCHANGED <<h, sockVars, up, handed, calls, want, replies, refs, app, lost>>

(* connect/3 *)

\* connect_start: the port gets its Client, which creates the libutp socket
\* and sends the SYN; that may fail at once.
ConnectStart ==
    /\ fault = "none" /\ pt.pc = "idle" /\ "connect" \in Calls[Owner]
    /\ pc[Owner] = "idle" /\ h.status = "not_connected" /\ sock = "none" /\ up
    /\ calls' = [calls EXCEPT ![Owner] = @ + 1]
    /\ \E st \in {"connect_pending"} \cup
                 (IF "senderr" \in Peer THEN {"connect_failed"} ELSE {}) :
         h' = [h EXCEPT !.status = st, !.utp = TRUE, !.selected = TRUE]
    /\ sock' = "SYN_SENT"
    /\ Becomes(Owner, "validate")
    /\ UNCHANGED <<up, handed, pt, want, replies, refs, res, app, events, lost, fault>>

\* connect_validate reads the status, without utp_mutex ...
ConnectValidate ==
    /\ fault = "none" /\ pt.pc = "idle" /\ up /\ pc[Owner] = "validate"
    /\ PortCall("validate", Owner, 0, h.status, "none")
    /\ Becomes(Owner, "port")
    /\ UNCHANGED <<h, sockVars, up, handed, calls, want, replies, refs, res, app,
                   lost, fault>>

\* ... and acts on what it read, still without it.
ConnectAnswer ==
    /\ At("validate")
    /\ pt' = Idle
    /\ \/ /\ pt.seen = "connect_pending"
          /\ h' = [h EXCEPT !.caller_ref = Ref(Owner)]
          /\ Becomes(Owner, "connect_wait")
          /\ UNCHANGED <<res, handed>>
       \/ /\ pt.seen = "connect_failed"
          /\ h' = [h EXCEPT !.status = "not_connected"]
          /\ Becomes(Owner, "port_close")
          /\ UNCHANGED <<res, handed>>
       \/ /\ pt.seen = "connected"
          /\ Returns(Owner, "ok") /\ handed' = TRUE
          /\ UNCHANGED h
       \/ /\ pt.seen \notin {"connect_pending", "connect_failed", "connected"}
          /\ Becomes(Owner, "port_close")
          /\ UNCHANGED <<h, res, handed>>
    /\ UNCHANGED <<sockVars, up, calls, want, replies, refs, app, lost, fault>>

\* validate_connect gets its message; after an error it closes the socket.
ConnectReplied ==
    /\ fault = "none" /\ pc[Owner] = "connect_wait" /\ HasRef(Owner)
    /\ TakeRef(Owner)
    /\ IF <<Ref(Owner), "ok">> \in refs[Owner]
       THEN Returns(Owner, "ok") /\ handed' = TRUE
       ELSE Becomes(Owner, "connect_close") /\ UNCHANGED <<res, handed>>
    /\ UNCHANGED <<h, sockVars, up, pt, calls, want, replies, app, lost, fault>>

ConnectClose ==
    /\ fault = "none" /\ pt.pc = "idle" /\ up /\ pc[Owner] = "connect_close"
    /\ calls' = [calls EXCEPT ![Owner] = @ + 1]
    /\ CloseTest(Owner)
    /\ UNCHANGED <<h, sockVars, up, handed, want, replies, refs, res, app, lost, fault>>

-----------------------------------------------------------------------------

\* The port call in progress goes on.
PortThread ==
    \/ OutputvWrite \/ OutputvNote \/ OutputvWait \/ RecvEmit \/ RecvDrained \/ RecvNote
    \/ SetoptsAssign \/ SetoptsEmit \/ SetoptsBuf \/ CloseLocked
    \/ StopTest \/ StopMark \/ StopSelected \/ ConnectAnswer

\* A process starts a call.
Start(p) ==
    \/ \E n \in SendSizes : Send(p, n)
    \/ \E len \in RecvLens : Recv(p, len)
    \/ \E opt \in Opts : Setopts(p, opt)
    \/ Close(p)
    \/ \E op \in {"send", "recv", "setopts", "close"} : PortGone(p, op)

\* A process goes on with its call.
Continue(p) ==
    \/ SendReplied(p) \/ TakeRetry(p) \/ Resend(p) \/ CancelSend(p)
    \/ RecvReplied(p) \/ CancelRecv(p) \/ CloseReplied(p) \/ PortClose(p)

\* A process's timer fires.
TimesOut(p) == SendTimesOut(p) \/ RecvTimesOut(p)

Connecting == ConnectValidate \/ ConnectReplied \/ ConnectClose

Next ==
    \/ Main \/ PortThread \/ ConnectStart \/ Connecting \/ OwnerExit
    \/ \E p \in Procs : Start(p) \/ Continue(p) \/ TimesOut(p)

Spec == Init /\ [][Next]_vars

\* What the code and its surroundings guarantee to happen: a port call runs to
\* its end, a process with something to do does it, UTP_CheckTimeouts runs
\* every 10 ms, and libutp retransmits until it is answered or gives up.
\* Nothing makes a process start a call or lets its timer fire.
Fairness ==
    /\ WF_vars(PortThread) /\ WF_vars(Connecting)
    /\ \A p \in Procs : WF_vars(Continue(p))
    /\ WF_vars(UtpConnect \/ (sock = "SYN_SENT" /\ UtpTimeout))
    /\ WF_vars(UtpWritable \/ (sock = "CONNECTED_FULL" /\ UtpTimeout))
    /\ WF_vars(UtpFinAcked \/ (sock = "FIN_SENT" /\ UtpTimeout))
    /\ WF_vars(UtpDelayOver) /\ WF_vars(UtpDestroying)

FairSpec == Spec /\ Fairness

-----------------------------------------------------------------------------
(***************************************************************************)
(* Safety                                                                  *)
(***************************************************************************)

PortPcs == {"idle", "write", "wait_lock", "wait_reply", "recv_emit", "rb_drained",
            "recv_lock", "opts_assign", "opts_lock", "opts_buf", "close_lock", "stop_test",
            "stop_mark", "stop_selected", "validate"}
ProcPcs == {"idle", "port", "send_reply", "send_retry", "send_again", "send_cancel",
            "recv_wait", "recv_cancel", "close_wait", "port_close", "validate",
            "connect_wait", "connect_close", "dead"}

\* Port calls in progress; what setopts copied is a value of active.
PortStates ==
    {r \in [pc : PortPcs, by : Procs, n : Nat,
            seen : Status \cup {"none", "false", "once", "true"},
            opt : Opts \cup {"none"}] :
        r.pc = "opts_assign" => r.seen \in {"false", "once", "true"}}

\* Types of the handler, the libutp socket and the port call in progress.
TypeOK ==
    /\ h \in Handler /\ sock \in SockStates
    /\ up \in BOOLEAN /\ handed \in BOOLEAN
    /\ pt \in PortStates
    /\ pc \in [Procs -> ProcPcs]
    /\ calls \in [Procs -> Nat] /\ want \in [Procs -> Nat]

\* The handler holds a pointer to its libutp socket exactly while libutp has
\* it open.  So UTP_Close is never called on a socket that is already closed
\* (libutp asserts it is not), and the callbacks that pass utp to libutp
\* (do_read, the WRITABLE handler) always have one to pass.
Open == {"SYN_SENT", "CONNECTED", "CONNECTED_FULL", "GOT_FIN"}
HandleMatchesSocket ==
    /\ h.utp => sock \in Open \cup {"RESET"}
    /\ sock \in Open => h.utp

\* outputv hands libutp the size of what it just queued, not of the queue:
\* that is right only because a writable socket has nothing queued.
WritableMeansDrained ==
    /\ h.writable /\ pt.pc # "write" => h.wq = 0
    /\ pt.pc = "write" /\ h.utp => h.wq = pt.n

\* The handler is deleted once libutp has freed its socket and the port is
\* closed, so no callback of either side can reach it any more.
DeletedOnlyWhenDone == h.deleted => sock = "freed" /\ ~up

\* What the invariants above rest on.  Nothing is queued before the
\* connection is established; libutp calls WRITABLE only when the handler
\* knows the socket is full; a closed port has no call in progress but stop.
BeforeConnect ==
    sock \in {"none", "SYN_SENT"} => ~h.writable /\ h.wq = 0 /\ pt.pc # "write"
FullNotWritable == sock = "CONNECTED_FULL" => ~h.writable /\ pt.pc # "write"
Stopping == {"stop_test", "stop_mark", "stop_selected"}
StopOrder ==
    /\ up => pt.pc \notin Stopping /\ h.status # "stopped"
    /\ ~up => pt.pc \in Stopping \cup {"idle"}
    /\ h.status = "stopped" \/ h.deleted => pt.pc \in {"idle", "stop_selected"}
    /\ h.status = "destroying" => sock = "freed"

\* The inductive invariant of a connection, for any number of processes, any
\* mix of calls and any behaviour of the peer.
ConnInv ==
    /\ TypeOK /\ HandleMatchesSocket /\ WritableMeansDrained /\ DeletedOnlyWhenDone
    /\ BeforeConnect /\ FullNotWritable /\ StopOrder

\* A process waiting in close/1 is the one the DESTROYING callback will
\* answer, or its answer is in its mailbox.
Answered(p) == <<Ref(p), "ok">> \in refs[p]
CloserRegistered ==
    \A p \in Procs : pc[p] = "close_wait" =>
        Answered(p) \/ (h.close_pending /\ h.caller = p /\ h.caller_ref = Ref(p))

\* A process waiting in recv is registered with the handler and there is not
\* enough data for it: no data that should have woken it was queued past it.
ReceiverNotStranded ==
    \A p \in Procs : pc[p] = "recv_wait" /\ ~HasRef(p) =>
        /\ h.receiver_waiting /\ h.caller = p /\ h.caller_ref = Ref(p)
        /\ h.rq = 0 \/ h.rq < h.recv_len

\* A process told to wait for a retry is registered for it while the
\* connection is not writable, so the WRITABLE callback will find it.
SenderNotStranded ==
    \A p \in Procs : pc[p] = "send_retry" /\ ~HasRetry(p) =>
        h.sender_waiting /\ h.caller = p /\ ~h.writable

\* Data taken off the driver queue for a reader is on its way to a process
\* that is waiting for just that message (or has exited since).
DataReachesReader ==
    /\ ~lost
    /\ \A p \in Procs : \A m \in refs[p] : m[2] = "data" =>
        m[1] = Ref(p) /\ pc[p] \in {"port", "recv_wait", "recv_cancel", "dead"}

\* The owner gets at most one utp_closed, and no data after it.
ClosedIsLast ==
    \A i \in 1..Len(app) : app[i] = "closed" => i = Len(app)

\* send/2 returns ok or an error, never one of the driver's internal replies.
SendResultDocumented == \A p \in Procs : res[p] \notin {"retry", "wait"}

\* No call passes a null socket to libutp or touches a deleted handler.
NoFault == fault = "none"

(***************************************************************************)
(* Action properties                                                       *)
(***************************************************************************)

\* A deleted handler is never written to again.
NoWriteAfterDelete == [][h.deleted => UNCHANGED h]_vars

\* A connection on its way out never comes back to an earlier status.
Rank(st) == CASE st = "closing" -> 1 [] st = "destroying" -> 2 [] st = "stopped" -> 3
              [] OTHER -> 0
ClosingIsFinal == [][Rank(h'.status) >= Rank(h.status)]_vars

(***************************************************************************)
(* Liveness                                                                *)
(***************************************************************************)

\* p is in no call.
Done(p) == pc[p] \in {"idle", "dead"}

\* close/1 returns.
CloseReturns == \A p \in Procs : pc[p] = "close_wait" ~> Done(p)

\* connect/3 returns.
ConnectReturns == pc[Owner] = "connect_wait" ~> Done(Owner)

\* send/2 returns: a process told to wait is told to retry, unless the
\* connection ends first.
SendReturns ==
    \A p \in Procs :
        pc[p] = "send_retry" ~> Done(p) \/ sock \notin {"CONNECTED", "CONNECTED_FULL"}

\* A handler that stop finds with nothing left to send is deleted, if not by
\* stop then by the DESTROYING callback.  One with data in write_queue is not:
\* close_utp has returned without UTP_Close (utp_handler.cc:368), stop marks it
\* stopped (:232), and after that neither EOF (:460), WRITABLE (:485) nor an
\* error (:575) leads to its deletion.
HandlerReclaimed == pt.pc = "stop_test" /\ h.wq = 0 ~> h.deleted

=============================================================================
