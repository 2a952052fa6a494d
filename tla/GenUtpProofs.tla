---------------------------- MODULE GenUtpProofs ----------------------------
(***************************************************************************)
(* ConnInv is an inductive invariant of a connection, for any processes,   *)
(* calls, sizes and bounds, on one scheduler or several, and whatever the  *)
(* peer does.  From it: the pointer matches the libutp socket, a writable  *)
(* socket has nothing queued, and a deleted handler is never used again by *)
(* a callback or a call.                                                   *)
(*                                                                         *)
(* One lemma per action, or per group of actions that disturb the same     *)
(* conjuncts; Frame serves the many that disturb none.                     *)
(***************************************************************************)
EXTENDS GenUtp, TLAPS

\* The fields of the handler the invariant is about.
SameCore(x, y) ==
    /\ x.utp = y.utp /\ x.writable = y.writable /\ x.wq = y.wq
    /\ x.status = y.status /\ x.deleted = y.deleted

\* What close_utp does to a handler: the socket is closed and the pointer
\* cleared, or nothing happens.
LEMMA CloseUtp ==
    ASSUME NEW x \in Handler
    PROVE  /\ close_utp(x) \in Handler
           /\ close_utp(x).utp = (x.utp /\ ~Closes(x))
           /\ close_utp(x).status = (IF Closes(x) THEN "closing" ELSE x.status)
           /\ close_utp(x).writable = x.writable
           /\ close_utp(x).wq = x.wq
           /\ close_utp(x).deleted = x.deleted
  <1>1. CASE Closes(x)
    BY <1>1 DEF close_utp, Handler, Status
  <1>2. CASE ~Closes(x)
    BY <1>2 DEF close_utp, Handler
  <1> QED
    BY <1>1, <1>2

\* reset_waiting_recv touches only what it keeps about the receiver.
LEMMA ResetWaitingRecv ==
    ASSUME NEW x \in Handler
    PROVE  reset_waiting_recv(x) \in Handler /\ SameCore(reset_waiting_recv(x), x)
  BY DEF reset_waiting_recv, Handler, SameCore

\* emit_read_buffer touches only the driver queue, active and close_pending,
\* and never takes more out of the queue than it holds.
LEMMA EmitReadBuffer ==
    ASSUME NEW x \in Handler, NEW len \in Nat
    PROVE  emit_read_buffer(x, len) \in Handler /\ SameCore(emit_read_buffer(x, len), x)
  <1>1. CASE EmitsClosed(x)
    BY <1>1 DEF emit_read_buffer, Handler, SameCore
  <1>2. CASE ~EmitsClosed(x) /\ EmitsData(x, len)
    <2>1. x.rq - EmitCount(x, len) \in Nat
      BY <1>2 DEF EmitsData, EmitCount, Handler
    <2>2. emit_read_buffer(x, len) =
            [x EXCEPT !.rq = x.rq - EmitCount(x, len),
                      !.active = IF x.active = "once" THEN "false" ELSE x.active]
      BY <1>2 DEF emit_read_buffer
    <2>3. emit_read_buffer(x, len) \in Handler
      BY <2>1, <2>2 DEF Handler
    <2>4. SameCore(emit_read_buffer(x, len), x)
      BY <2>2 DEF Handler, SameCore
    <2> QED
      BY <2>3, <2>4
  <1>3. CASE ~EmitsClosed(x) /\ ~EmitsData(x, len)
    BY <1>3 DEF emit_read_buffer, SameCore
  <1> QED
    BY <1>1, <1>2, <1>3

\* A step that leaves the core of the handler and the socket alone keeps the
\* invariant, if the port thread stays where it is, finishes a call, or is in a
\* call other than outputv's write on an open port.
LEMMA Frame ==
    ASSUME ConnInv, TypeOK', SameCore(h', h), sock' = sock, up' = up,
           \/ pt' = pt
           \/ /\ pt.pc # "write" /\ pt'.pc # "write"
              /\ pt'.pc = "idle" \/ (up /\ pt'.pc \notin Stopping)
    PROVE  ConnInv'
  <1> USE DEF ConnInv, SameCore
  <1>1. HandleMatchesSocket'
    BY DEF HandleMatchesSocket
  <1>2. WritableMeansDrained'
    BY DEF WritableMeansDrained
  <1>3. DeletedOnlyWhenDone'
    BY DEF DeletedOnlyWhenDone
  <1>4. BeforeConnect' /\ FullNotWritable'
    BY DEF BeforeConnect, FullNotWritable
  <1>5. StopOrder'
    BY DEF StopOrder, DeletedOnlyWhenDone, Stopping
  <1> QED
    BY <1>1, <1>2, <1>3, <1>4, <1>5


\* Steps of a process that leave the handler, the port call and the libutp
\* socket alone keep the invariant.
LEMMA ProcessSteps ==
    ASSUME ConnInv, NEW p \in Procs,
           \/ \E op \in {"send", "recv", "setopts", "close"} : PortGone(p, op)
           \/ SendReplied(p) \/ TakeRetry(p) \/ SendTimesOut(p)
           \/ RecvReplied(p) \/ RecvTimesOut(p) \/ CloseReplied(p)
           \/ ConnectReplied
    PROVE  ConnInv'
  <1> USE OwnerAssumption DEF Becomes, Returns, Begin, sockVars, ConnInv, TypeOK, ProcPcs
  <1>1. UNCHANGED <<h, sock, up, pt>>
    BY DEF PortGone, SendReplied, TakeRetry, SendTimesOut, RecvReplied, RecvTimesOut,
           CloseReplied, ConnectReplied
  <1>2. TypeOK'
    <2>1. ASSUME NEW op \in {"send", "recv", "setopts", "close"}, PortGone(p, op)
          PROVE  TypeOK'
      BY <1>1, <2>1 DEF PortGone
    <2>2. CASE SendReplied(p)
      BY <1>1, <2>2 DEF SendReplied
    <2>3. CASE TakeRetry(p) \/ SendTimesOut(p)
      BY <1>1, <2>3 DEF TakeRetry, SendTimesOut
    <2>4. CASE RecvReplied(p) \/ RecvTimesOut(p)
      BY <1>1, <2>4 DEF RecvReplied, RecvTimesOut
    <2>5. CASE CloseReplied(p)
      BY <1>1, <2>5 DEF CloseReplied
    <2>6. CASE ConnectReplied
      <3>1. handed' = TRUE \/ handed' = handed
        BY <2>6 DEF ConnectReplied
      <3>2. Becomes(Owner, "idle") \/ Becomes(Owner, "connect_close")
        BY <2>6 DEF ConnectReplied
      <3>3. UNCHANGED <<calls, want>>
        BY <2>6 DEF ConnectReplied
      <3> QED
        BY <1>1, <3>1, <3>2, <3>3
    <2> QED
      BY <2>1, <2>2, <2>3, <2>4, <2>5, <2>6
  <1>3. SameCore(h', h)
    BY <1>1 DEF SameCore
  <1> HIDE DEF ConnInv, TypeOK
  <1> QED
    BY <1>1, <1>2, <1>3, Frame

\* outputv up to the mutex: what it queues for libutp is all there is.
LEMMA OutputvStep ==
    ASSUME ConnInv, NEW p \in Procs, NEW n \in Nat, Outputv(p, n),
           pt.pc = "idle", up, UNCHANGED <<sock, up, handed>>,
           calls' \in [Procs -> Nat], want' \in [Procs -> Nat]
    PROVE  ConnInv'
  <1>1. CASE UNCHANGED <<h, pt>> /\ Becomes(p, "send_reply")
    <2>1. TypeOK'
      BY <1>1 DEF ConnInv, TypeOK, Becomes, ProcPcs
    <2>2. SameCore(h', h)
      BY <1>1 DEF SameCore
    <2> QED
      BY <1>1, <2>1, <2>2, Frame
  <1>2. CASE /\ h.status = "connected" /\ h.utp /\ h.writable
             /\ h' = [h EXCEPT !.wq = @ + n]
             /\ PortCall("write", p, n, "none", "none")
             /\ Becomes(p, "port")
    <2>1. h' \in Handler /\ h.wq \in Nat
      BY <1>2 DEF ConnInv, TypeOK, Handler
    <2>2. TypeOK'
      BY <1>2, <2>1 DEF ConnInv, TypeOK, Becomes, ProcPcs, PortCall, PortPcs, PortStates
    <2>3. /\ h'.utp = h.utp /\ h'.writable = h.writable /\ h'.status = h.status
          /\ h'.deleted = h.deleted /\ h'.wq = h.wq + n
      BY <1>2 DEF ConnInv, TypeOK, Handler
    <2>4. pt'.pc = "write" /\ pt'.n = n
      BY <1>2 DEF PortCall
    <2>5. WritableMeansDrained'
      BY <1>2, <2>1, <2>3, <2>4 DEF ConnInv, WritableMeansDrained
    <2>6. HandleMatchesSocket' /\ DeletedOnlyWhenDone'
      BY <2>3 DEF ConnInv, HandleMatchesSocket, DeletedOnlyWhenDone
    <2>7. BeforeConnect' /\ FullNotWritable'
      BY <1>2, <2>3 DEF ConnInv, BeforeConnect, FullNotWritable
    <2>8. StopOrder'
      BY <1>2, <2>3, <2>4 DEF ConnInv, StopOrder, Stopping, DeletedOnlyWhenDone
    <2> QED
      BY <2>2, <2>5, <2>6, <2>7, <2>8 DEF ConnInv
  <1>3. CASE /\ UNCHANGED h
             /\ PortCall("wait_lock", p, 0, "none", "none")
             /\ Becomes(p, "port")
    <2>1. TypeOK'
      BY <1>3 DEF ConnInv, TypeOK, Becomes, ProcPcs, PortCall, PortPcs, PortStates
    <2>2. SameCore(h', h)
      BY <1>3 DEF SameCore
    <2>3. pt'.pc = "wait_lock"
      BY <1>3 DEF PortCall
    <2> QED
      BY <2>1, <2>2, <2>3, Frame DEF Stopping
  <1> QED
    BY <1>1, <1>2, <1>3 DEF Outputv

\* Every other port call, up to the point where it takes utp_mutex, keeps the
\* invariant.
LEMMA CallSteps ==
    ASSUME ConnInv, NEW p \in Procs,
           \/ \E n \in SendSizes : Send(p, n)
           \/ Resend(p) \/ CancelSend(p)
           \/ \E len \in RecvLens : Recv(p, len)
           \/ CancelRecv(p)
           \/ \E opt \in Opts : Setopts(p, opt)
           \/ Close(p)
    PROVE  ConnInv'
  <1>1. ASSUME NEW n \in SendSizes, Send(p, n) PROVE ConnInv'
    <2>1. n \in Nat /\ pt.pc = "idle" /\ up /\ Outputv(p, n) /\ UNCHANGED <<sock, up, handed>>
      BY <1>1, SizesAssumption DEF Send, Begin, sockVars
    <2>2. calls' \in [Procs -> Nat] /\ want' \in [Procs -> Nat]
      BY <1>1, <2>1 DEF Send, Begin, ConnInv, TypeOK
    <2> QED
      BY <2>1, <2>2, OutputvStep
  <1>2. CASE Resend(p)
    <2>1. CASE up
      <3>1. /\ want[p] \in Nat /\ pt.pc = "idle" /\ Outputv(p, want[p])
            /\ UNCHANGED <<sock, up, handed, calls, want>>
        BY <1>2, <2>1 DEF Resend, sockVars, ConnInv, TypeOK
      <3>2. calls' \in [Procs -> Nat] /\ want' \in [Procs -> Nat]
        BY <3>1 DEF ConnInv, TypeOK
      <3> QED
        BY <2>1, <3>1, <3>2, OutputvStep
    <2>2. CASE ~up
      <3>1. UNCHANGED <<h, sock, up, pt>>
        BY <1>2, <2>2 DEF Resend, sockVars
      <3>2. TypeOK'
        BY <1>2, <2>2, <3>1 DEF Resend, Returns, Becomes, ConnInv, TypeOK, ProcPcs
      <3>3. SameCore(h', h)
        BY <3>1 DEF SameCore
      <3> QED
        BY <3>1, <3>2, <3>3, Frame
    <2> QED
      BY <2>1, <2>2
  <1>3. CASE CancelSend(p)
    <2>1. h' \in Handler /\ SameCore(h', h)
      <3>1. h \in Handler /\ Nil \in Procs \cup {Nil, Zero}
        BY DEF ConnInv, TypeOK
      <3>2. h' = h \/ h' = [h EXCEPT !.sender_waiting = FALSE, !.caller = Nil]
        BY <1>3 DEF CancelSend
      <3> QED
        BY <3>1, <3>2 DEF Handler, SameCore
    <2>2. TypeOK'
      BY <1>3, <2>1 DEF CancelSend, Returns, Becomes, sockVars, ConnInv, TypeOK, ProcPcs
    <2>3. UNCHANGED <<sock, up, pt>>
      BY <1>3 DEF CancelSend, sockVars
    <2> QED
      BY <2>1, <2>2, <2>3, Frame
  <1>4. ASSUME NEW len \in RecvLens, Recv(p, len) PROVE ConnInv'
    <2>1. len \in Nat /\ up /\ pt.pc = "idle" /\ UNCHANGED <<h, sock, up, handed, want>>
      BY <1>4, SizesAssumption DEF Recv, Begin, sockVars
    <2>2. pt' = pt \/ PortCall("recv_emit", p, len, "none", "none")
      BY <1>4 DEF Recv
    <2>3. pt'.pc \in {"idle", "recv_emit"} /\ pt' \in PortStates
      BY <2>1, <2>2 DEF PortCall, PortPcs, PortStates, ConnInv, TypeOK
    <2>4. pc' \in [Procs -> ProcPcs] /\ calls' \in [Procs -> Nat]
      <3>1. Becomes(p, "idle") \/ Becomes(p, "port")
        BY <1>4 DEF Recv, Returns
      <3>2. calls' = [calls EXCEPT ![p] = @ + 1]
        BY <1>4 DEF Recv, Begin
      <3> QED
        BY <3>1, <3>2 DEF Becomes, ConnInv, TypeOK, ProcPcs
    <2>5. TypeOK' /\ SameCore(h', h)
      BY <2>1, <2>3, <2>4 DEF ConnInv, TypeOK, SameCore
    <2> QED
      BY <2>1, <2>3, <2>5, Frame DEF Stopping
  <1>5. CASE CancelRecv(p)
    <2>1. h' \in Handler /\ SameCore(h', h)
      BY <1>5, ResetWaitingRecv DEF CancelRecv, ConnInv, TypeOK, SameCore
    <2>2. TypeOK'
      BY <1>5, <2>1 DEF CancelRecv, Returns, Becomes, sockVars, ConnInv, TypeOK, ProcPcs
    <2>3. UNCHANGED <<sock, up, pt>>
      BY <1>5 DEF CancelRecv, sockVars
    <2> QED
      BY <2>1, <2>2, <2>3, Frame
  <1>6. ASSUME NEW opt \in Opts, Setopts(p, opt) PROVE ConnInv'
    <2>1. pt.pc = "idle" /\ up /\ UNCHANGED <<h, sock, up, handed, want>>
      BY <1>6 DEF Setopts, Begin, sockVars
    <2>2. h.active \in {"false", "once", "true"}
      BY DEF ConnInv, TypeOK, Handler
    <2>3. /\ pt'.pc = "opts_assign"
          /\ pt' \in PortStates
      BY <1>6, <2>2 DEF Setopts, PortCall, PortPcs, PortStates
    <2>4. pc' \in [Procs -> ProcPcs] /\ calls' \in [Procs -> Nat]
      BY <1>6 DEF Setopts, Begin, Becomes, ConnInv, TypeOK, ProcPcs
    <2>5. TypeOK' /\ SameCore(h', h)
      BY <2>1, <2>3, <2>4 DEF ConnInv, TypeOK, SameCore
    <2> QED
      BY <2>1, <2>3, <2>5, Frame DEF Stopping
  <1>7. CASE Close(p)
    <2>1. pt.pc = "idle" /\ up /\ UNCHANGED <<h, sock, up, handed, want>>
      BY <1>7 DEF Close, Begin, sockVars
    <2>2. pt' = pt \/ PortCall("close_lock", p, 0, "none", "none")
      BY <1>7 DEF Close, CloseTest
    <2>3. /\ pt'.pc \in {"idle", "close_lock"}
          /\ pt' \in PortStates
      BY <2>1, <2>2 DEF PortCall, PortPcs, PortStates, ConnInv, TypeOK
    <2>4. pc' \in [Procs -> ProcPcs] /\ calls' \in [Procs -> Nat]
      BY <1>7 DEF Close, CloseTest, Begin, Becomes, ConnInv, TypeOK, ProcPcs
    <2>5. TypeOK' /\ SameCore(h', h)
      BY <2>1, <2>3, <2>4 DEF ConnInv, TypeOK, SameCore
    <2> QED
      BY <2>1, <2>3, <2>5, Frame DEF Stopping
  <1> QED
    BY <1>1, <1>2, <1>3, <1>4, <1>5, <1>6, <1>7

\* An idle port thread is well typed.
LEMMA IdleType ==
    /\ Idle.pc = "idle"
    /\ Idle \in PortStates
  BY OwnerAssumption DEF Idle, PortPcs, PortStates

\* The steps of a port call that leave the core of the handler alone keep the
\* invariant.
LEMMA PortSteps ==
    ASSUME ConnInv,
           \/ OutputvNote \/ OutputvWait \/ RecvEmit \/ RecvDrained \/ RecvNote
           \/ SetoptsAssign \/ SetoptsEmit \/ SetoptsBuf
    PROVE  ConnInv'
  <1>1. UNCHANGED <<sock, up, handed, calls, want>>
    BY DEF OutputvNote, OutputvWait, RecvEmit, RecvDrained, RecvNote, SetoptsAssign, SetoptsEmit,
           SetoptsBuf, sockVars
  <1>2. /\ h \in Handler /\ pt \in PortStates /\ pt.by \in Procs /\ pt.n \in Nat
        /\ Ref(pt.by) \in Refs /\ pc \in [Procs -> ProcPcs]
        /\ pt.pc = "opts_assign" => pt.seen \in {"false", "once", "true"}
    BY DEF ConnInv, TypeOK, PortStates, Ref, Refs
  <1>3. /\ pt.pc \in {"wait_lock", "wait_reply", "recv_emit", "rb_drained", "recv_lock",
                      "opts_assign", "opts_lock", "opts_buf"}
        /\ up
    BY DEF OutputvNote, OutputvWait, RecvEmit, RecvDrained, RecvNote, SetoptsAssign, SetoptsEmit,
           SetoptsBuf, At, ConnInv, StopOrder, Stopping
  <1>4. pc' \in [Procs -> ProcPcs]
    BY <1>2 DEF OutputvNote, OutputvWait, RecvEmit, RecvDrained, RecvNote, SetoptsAssign,
           SetoptsEmit, SetoptsBuf, Becomes, Returns, ProcPcs
  <1>5. \/ pt' = pt \/ pt' = Idle
        \/ \E l \in {"wait_reply", "rb_drained", "recv_lock", "opts_lock", "opts_buf"} : Goto(l)
    BY DEF OutputvNote, OutputvWait, RecvEmit, RecvDrained, RecvNote, SetoptsAssign, SetoptsEmit,
           SetoptsBuf
  <1>6. /\ pt' \in PortStates
        /\ pt' = pt \/ pt'.pc \in {"idle", "wait_reply", "rb_drained", "recv_lock",
                                   "opts_lock", "opts_buf"}
    BY <1>2, <1>5, IdleType DEF Goto, PortPcs, PortStates
  <1>7. h' \in Handler /\ SameCore(h', h)
    <2>1. CASE OutputvNote
      BY <1>2, <2>1 DEF OutputvNote, Handler, SameCore
    <2>2. CASE OutputvWait \/ RecvDrained \/ SetoptsBuf
      BY <1>2, <2>2 DEF OutputvWait, RecvDrained, SetoptsBuf, SameCore
    <2>6. CASE RecvEmit
      <3>1. h' = emit_read_buffer(h, pt.n)
        BY <2>6 DEF RecvEmit
      <3> QED
        BY <1>2, <3>1, EmitReadBuffer
    <2>3. CASE RecvNote
      BY <1>2, <2>3 DEF RecvNote, Handler, SameCore
    <2>4. CASE SetoptsAssign
      BY <1>2, <2>4 DEF SetoptsAssign, At, Handler, SameCore
    <2>5. CASE SetoptsEmit
      <3>1. h' = h \/ h' = emit_read_buffer(h, 0)
        BY <2>5 DEF SetoptsEmit
      <3> QED
        BY <1>2, <3>1, EmitReadBuffer DEF SameCore
    <2> QED
      BY <2>1, <2>2, <2>3, <2>4, <2>5, <2>6
  <1>8. TypeOK'
    BY <1>1, <1>4, <1>6, <1>7 DEF ConnInv, TypeOK
  <1> QED
    BY <1>1, <1>3, <1>6, <1>7, <1>8, Frame DEF Stopping

\* close_utp and the libutp socket: the pointer goes exactly when the socket
\* is closed.
LEMMA CloseSock ==
    ASSUME NEW x \in Handler, NEW s \in SockStates,
           x.utp => s \in Open \cup {"RESET"}, s \in Open => x.utp
    PROVE  /\ SockAfter(x, s) \in SockStates
           /\ close_utp(x).utp => SockAfter(x, s) \in Open \cup {"RESET"}
           /\ SockAfter(x, s) \in Open => close_utp(x).utp
           /\ SockAfter(x, s) \in {s, "FIN_SENT", "DESTROY_DELAY", "DESTROY"}
           /\ ~Closes(x) => SockAfter(x, s) = s
  <1>1. CASE Closes(x)
    <2>1. SockAfter(x, s) \in {"FIN_SENT", "DESTROY_DELAY", "DESTROY"}
      BY <1>1 DEF SockAfter, UTP_Close
    <2>2. ~close_utp(x).utp
      BY <1>1, CloseUtp
    <2> QED
      BY <1>1, <2>1, <2>2 DEF SockStates, Open
  <1>2. CASE ~Closes(x)
    BY <1>2, CloseUtp DEF SockAfter
  <1> QED
    BY <1>1, <1>2

\* What UTP_Write may come out as: it takes no more than it is given, and all of
\* it if it reports the socket writable.
LEMMA WriteOutcome ==
    ASSUME NEW s, NEW n \in Nat, NEW least \in Nat, NEW w \in UTP_Write(s, n, least)
    PROVE  /\ w.took \in 0..n /\ w.ok \in BOOLEAN
           /\ w.ok => w.took = n /\ w.sock = "CONNECTED"
           /\ w.sock = s \/ (s = "CONNECTED" /\ w.sock = "CONNECTED_FULL")
  <1>1. CASE s # "CONNECTED"
    <2>1. w = [took |-> 0, ok |-> FALSE, sock |-> s]
      BY <1>1 DEF UTP_Write
    <2> QED
      BY <2>1
  <1>2. CASE s = "CONNECTED"
    <2>1. \/ w = [took |-> n, ok |-> TRUE, sock |-> s]
          \/ \E k \in least..n : w = [took |-> k, ok |-> FALSE, sock |-> "CONNECTED_FULL"]
      BY <1>2 DEF UTP_Write
    <2>2. CASE w = [took |-> n, ok |-> TRUE, sock |-> s]
      BY <1>2, <2>2
    <2>3. ASSUME NEW k \in least..n,
                 w = [took |-> k, ok |-> FALSE, sock |-> "CONNECTED_FULL"]
          PROVE  w.took = k /\ k \in 0..n /\ ~w.ok /\ w.ok \in BOOLEAN
                 /\ w.sock = "CONNECTED_FULL"
      BY <2>3
    <2> QED
      BY <1>2, <2>1, <2>2, <2>3
  <1> QED
    BY <1>1, <1>2

\* outputv with the mutex: UTP_Write gets all that is queued, so a socket that
\* is still writable afterwards has nothing queued.
LEMMA OutputvWriteStep == ASSUME ConnInv, OutputvWrite PROVE ConnInv'
  <1>1. pt.pc = "write" /\ UNCHANGED <<up, handed, calls, want>>
    BY DEF OutputvWrite, At
  <1>2. h \in Handler /\ pt.by \in Procs /\ pt.n \in Nat /\ up /\ ~h.deleted
    BY <1>1 DEF ConnInv, TypeOK, PortStates, StopOrder, Stopping, DeletedOnlyWhenDone
  <1>3. CASE h.utp
    <2>1. PICK w \in UTP_Write(sock, pt.n, 0) :
            /\ h' = [h EXCEPT !.writable = w.ok, !.wq = h.wq - w.took]
            /\ sock' = w.sock
            /\ Becomes(pt.by, "send_reply")
            /\ pt' = Idle
      BY <1>3 DEF OutputvWrite
    <2>2. h.wq = pt.n
      BY <1>1, <1>3 DEF ConnInv, WritableMeansDrained
    <2>3. /\ w.took \in 0..pt.n /\ w.ok \in BOOLEAN
          /\ w.ok => w.took = pt.n /\ w.sock = "CONNECTED"
          /\ w.sock = sock \/ (sock = "CONNECTED" /\ w.sock = "CONNECTED_FULL")
      BY <1>2, WriteOutcome
    <2>4. /\ h' \in Handler /\ h'.utp = h.utp /\ h'.status = h.status
          /\ h'.deleted = h.deleted /\ h'.writable = w.ok /\ h'.wq = h.wq - w.took
      <3>1. h.wq - w.took \in Nat
        BY <1>2, <2>2, <2>3
      <3> QED
        BY <1>2, <2>1, <2>3, <3>1 DEF Handler
    <2>5. TypeOK'
      BY <1>1, <1>2, <2>1, <2>3, <2>4, IdleType
         DEF ConnInv, TypeOK, Becomes, ProcPcs, SockStates
    <2>6. pt'.pc = "idle"
      BY <2>1, IdleType
    <2>7. HandleMatchesSocket'
      BY <2>1, <2>3, <2>4 DEF ConnInv, HandleMatchesSocket, Open
    <2>8. WritableMeansDrained'
      BY <1>2, <2>2, <2>3, <2>4, <2>6 DEF WritableMeansDrained
    <2>9. DeletedOnlyWhenDone'
      BY <1>2, <2>4 DEF DeletedOnlyWhenDone
    <2>10. BeforeConnect'
      BY <1>1, <2>1, <2>3 DEF ConnInv, BeforeConnect
    <2>11. FullNotWritable'
      BY <2>1, <2>3, <2>4, <2>6 DEF FullNotWritable
    <2>12. StopOrder'
      BY <1>1, <1>2, <2>1, <2>3, <2>4, <2>6 DEF ConnInv, StopOrder, Stopping
    <2> QED
      BY <2>5, <2>7, <2>8, <2>9, <2>10, <2>11, <2>12 DEF ConnInv
  <1>4. CASE ~h.utp
    <2>1. UNCHANGED <<h, sock, pc, pt>>
      BY <1>4 DEF OutputvWrite
    <2>2. TypeOK' /\ SameCore(h', h)
      BY <1>1, <2>1 DEF ConnInv, TypeOK, SameCore
    <2> QED
      BY <1>1, <2>1, <2>2, Frame
  <1> QED
    BY <1>3, <1>4

\* close() with the mutex keeps the invariant: the pointer goes with the socket.
LEMMA CloseLockedStep == ASSUME ConnInv, CloseLocked PROVE ConnInv'
  <1> DEFINE x == ClosingFor
  <1>1. /\ pt.pc = "close_lock" /\ pt' = Idle /\ UNCHANGED <<up, handed, calls, want>>
        /\ h' = close_utp(x) /\ sock' = SockAfter(x, sock)
    BY DEF CloseLocked, At
  <1>2. /\ h \in Handler /\ sock \in SockStates /\ pt.by \in Procs
        /\ Ref(pt.by) \in Refs /\ up /\ ~h.deleted
    BY <1>1 DEF ConnInv, TypeOK, PortStates, StopOrder, Stopping, DeletedOnlyWhenDone,
                Ref, Refs
  <1>3. /\ x \in Handler /\ x.utp = h.utp /\ x.writable = h.writable /\ x.wq = h.wq
        /\ x.deleted = h.deleted /\ x.status = "closing"
    BY <1>2 DEF ClosingFor, Handler, Status
  <1> HIDE DEF x
  <1>4. /\ h' \in Handler /\ h'.writable = h.writable /\ h'.wq = h.wq
        /\ h'.deleted = h.deleted /\ h'.status = "closing"
    BY <1>1, <1>3, CloseUtp
  <1>5. /\ sock' \in SockStates /\ HandleMatchesSocket'
        /\ sock' \in {sock, "FIN_SENT", "DESTROY_DELAY", "DESTROY"}
    BY <1>1, <1>2, <1>3, CloseSock DEF ConnInv, HandleMatchesSocket
  <1>6. pt'.pc = "idle" /\ pt' \in PortStates
    BY <1>1, IdleType
  <1>7. TypeOK'
    <2>1. pc' \in [Procs -> ProcPcs]
      BY <1>2 DEF CloseLocked, Becomes, ConnInv, TypeOK, ProcPcs
    <2> QED
      BY <1>1, <1>4, <1>5, <1>6, <2>1 DEF ConnInv, TypeOK
  <1>8. WritableMeansDrained'
    BY <1>1, <1>4, <1>6 DEF ConnInv, WritableMeansDrained
  <1>9. BeforeConnect' /\ FullNotWritable'
    BY <1>4, <1>5, <1>6 DEF ConnInv, BeforeConnect, FullNotWritable
  <1>10. DeletedOnlyWhenDone' /\ StopOrder'
    BY <1>1, <1>2, <1>4, <1>6 DEF DeletedOnlyWhenDone, StopOrder, Stopping
  <1> QED
    BY <1>5, <1>7, <1>8, <1>9, <1>10 DEF ConnInv

\* The beginning of stop() keeps the invariant: the socket is closed if it can
\* be, and the port is gone.
LEMMA StopBeginStep ==
    ASSUME ConnInv, NEW p \in Procs, StopBegin(p), pt.pc = "idle", up,
           UNCHANGED <<handed, calls, want>>, pc' \in [Procs -> ProcPcs]
    PROVE  ConnInv'
  <1>1. /\ h \in Handler /\ sock \in SockStates /\ ~h.deleted
        /\ h' = close_utp(h) /\ sock' = SockAfter(h, sock) /\ up' = FALSE
    BY DEF StopBegin, Linger, ConnInv, TypeOK, DeletedOnlyWhenDone
  <1>2. pt'.pc = "stop_test" /\ pt' \in PortStates
    BY DEF StopBegin, Linger, PortCall, PortStates, PortPcs
  <1>3. /\ h' \in Handler /\ h'.writable = h.writable /\ h'.wq = h.wq
        /\ h'.deleted = h.deleted
        /\ h'.status = IF Closes(h) THEN "closing" ELSE h.status
    BY <1>1, CloseUtp
  <1>4. /\ sock' \in SockStates /\ HandleMatchesSocket'
        /\ sock' \in {sock, "FIN_SENT", "DESTROY_DELAY", "DESTROY"}
        /\ ~Closes(h) => sock' = sock
    BY <1>1, CloseSock DEF ConnInv, HandleMatchesSocket
  <1>5. TypeOK'
    BY <1>1, <1>2, <1>3, <1>4 DEF ConnInv, TypeOK
  <1>6. WritableMeansDrained' /\ DeletedOnlyWhenDone'
    BY <1>1, <1>2, <1>3 DEF ConnInv, WritableMeansDrained, DeletedOnlyWhenDone
  <1>7. BeforeConnect' /\ FullNotWritable'
    BY <1>2, <1>3, <1>4 DEF ConnInv, BeforeConnect, FullNotWritable
  <1>8. StopOrder'
    BY <1>1, <1>2, <1>3, <1>4 DEF ConnInv, StopOrder, Stopping
  <1> QED
    BY <1>4, <1>5, <1>6, <1>7, <1>8 DEF ConnInv

\* Closing a port, at the end of close/1 or by its owner's exit, keeps the
\* invariant.
LEMMA PortCloseStep ==
    ASSUME ConnInv, NEW p \in Procs, PortClose(p) \/ OwnerExit PROVE ConnInv'
  <1>1. UNCHANGED <<handed, calls, want>> /\ pt.pc = "idle"
    BY DEF PortClose, OwnerExit
  <1>2. pc' \in [Procs -> ProcPcs]
    BY OwnerAssumption DEF PortClose, OwnerExit, Becomes, Returns, ConnInv, TypeOK, ProcPcs
  <1>3. CASE up /\ (StopBegin(p) \/ StopBegin(Owner))
    BY <1>1, <1>2, <1>3, StopBeginStep, OwnerAssumption
  <1>5. CASE up /\ Linger
    <2>1. up' = FALSE /\ UNCHANGED <<h, sock, pt>>
      BY <1>5 DEF Linger
    <2>2. TypeOK'
      BY <1>1, <1>2, <2>1 DEF ConnInv, TypeOK
    <2>3. HandleMatchesSocket' /\ WritableMeansDrained' /\ DeletedOnlyWhenDone'
      BY <2>1 DEF ConnInv, HandleMatchesSocket, WritableMeansDrained, DeletedOnlyWhenDone
    <2>4. BeforeConnect' /\ FullNotWritable' /\ StopOrder'
      BY <1>1, <2>1 DEF ConnInv, BeforeConnect, FullNotWritable, StopOrder
    <2> QED
      BY <2>2, <2>3, <2>4 DEF ConnInv
  <1>4. CASE ~up
    <2>1. UNCHANGED <<h, sock, up, pt>>
      BY <1>4 DEF PortClose, OwnerExit
    <2>2. TypeOK' /\ SameCore(h', h)
      BY <1>1, <1>2, <2>1 DEF ConnInv, TypeOK, SameCore
    <2> QED
      BY <2>1, <2>2, Frame
  <1> QED
    BY <1>3, <1>4, <1>5 DEF PortClose, OwnerExit

\* The rest of stop() keeps the invariant: it deletes the handler only when
\* the DESTROYING callback has come, and otherwise leaves it to that callback.
LEMMA StopSteps ==
    ASSUME ConnInv, StopTest \/ StopMark \/ StopSelected PROVE ConnInv'
  <1>1. /\ UNCHANGED <<sock, up, handed, calls, want>>
        /\ pt.pc \in Stopping /\ ~up /\ h \in Handler /\ pt.by \in Procs
    BY DEF StopTest, StopMark, StopSelected, At, Stopping, sockVars, ConnInv, StopOrder,
           TypeOK, PortStates
  <1>2. pc' \in [Procs -> ProcPcs]
    BY <1>1 DEF StopTest, StopMark, StopSelected, Returns, Becomes, ConnInv, TypeOK, ProcPcs
  <1>3. pt' = pt \/ pt' = Idle \/ \E l \in {"stop_mark", "stop_selected"} : Goto(l)
    BY DEF StopTest, StopMark, StopSelected
  <1>4. pt' \in PortStates
    BY <1>3, IdleType DEF Goto, ConnInv, TypeOK, PortStates, PortPcs
  <1>5. CASE StopTest
    <2>1. pt.pc = "stop_test" /\ ~h.deleted /\ h.status # "stopped"
      BY <1>5 DEF StopTest, At, ConnInv, StopOrder
    <2>2. CASE StopDeletes
      <3>1. h' = [h EXCEPT !.rq = 0, !.deleted = TRUE] /\ pt' = Idle
        BY <1>5, <2>2 DEF StopTest
      <3>2. /\ h' \in Handler /\ h'.utp = h.utp /\ h'.writable = h.writable
            /\ h'.wq = h.wq /\ h'.status = h.status
        BY <1>1, <3>1 DEF Handler
      <3>3. pt'.pc = "idle" /\ sock = "freed"
        BY <2>2, <3>1, IdleType DEF StopDeletes, ConnInv, StopOrder
      <3>4. TypeOK'
        BY <1>1, <1>2, <1>4, <3>2 DEF ConnInv, TypeOK
      <3>5. HandleMatchesSocket' /\ WritableMeansDrained' /\ DeletedOnlyWhenDone'
        BY <1>1, <2>1, <3>2, <3>3
           DEF ConnInv, HandleMatchesSocket, WritableMeansDrained, DeletedOnlyWhenDone
      <3>6. BeforeConnect' /\ FullNotWritable' /\ StopOrder'
        BY <1>1, <3>2, <3>3 DEF ConnInv, BeforeConnect, FullNotWritable, StopOrder
      <3> QED
        BY <3>4, <3>5, <3>6 DEF ConnInv
    <2>3. CASE ~StopDeletes
      <3>1. h' = [h EXCEPT !.rq = 0] /\ pt' = [pt EXCEPT !.pc = "stop_mark"]
        BY <1>5, <2>3 DEF StopTest, Goto
      <3>2. h' \in Handler /\ SameCore(h', h)
        BY <1>1, <3>1 DEF Handler, SameCore
      <3>3. pt'.pc = "stop_mark"
        BY <3>1 DEF ConnInv, TypeOK, PortStates
      <3>4. TypeOK'
        BY <1>1, <1>2, <1>4, <3>2 DEF ConnInv, TypeOK
      <3>5. HandleMatchesSocket' /\ WritableMeansDrained' /\ DeletedOnlyWhenDone'
        BY <1>1, <2>1, <3>2, <3>3
           DEF ConnInv, HandleMatchesSocket, WritableMeansDrained, DeletedOnlyWhenDone, SameCore
      <3>6. BeforeConnect' /\ FullNotWritable' /\ StopOrder'
        BY <1>1, <2>1, <3>2, <3>3
           DEF ConnInv, BeforeConnect, FullNotWritable, StopOrder, Stopping, SameCore
      <3> QED
        BY <3>4, <3>5, <3>6 DEF ConnInv
    <2> QED
      BY <2>2, <2>3
  <1>6. CASE StopMark
    <2>1. h' = [h EXCEPT !.status = "stopped"] /\ pt' = [pt EXCEPT !.pc = "stop_selected"]
      BY <1>6 DEF StopMark, Goto
    <2>2. /\ h' \in Handler /\ h'.utp = h.utp /\ h'.writable = h.writable
          /\ h'.wq = h.wq /\ h'.deleted = h.deleted /\ h'.status = "stopped"
      BY <1>1, <2>1 DEF Handler, Status
    <2>3. pt'.pc = "stop_selected" /\ pt.pc = "stop_mark"
      BY <1>6, <2>1 DEF StopMark, At, ConnInv, TypeOK, PortStates
    <2>4. TypeOK'
      BY <1>1, <1>2, <1>4, <2>2 DEF ConnInv, TypeOK
    <2>5. HandleMatchesSocket' /\ WritableMeansDrained' /\ DeletedOnlyWhenDone'
      BY <1>1, <2>2, <2>3
         DEF ConnInv, HandleMatchesSocket, WritableMeansDrained, DeletedOnlyWhenDone
    <2>6. BeforeConnect' /\ FullNotWritable' /\ StopOrder'
      BY <1>1, <2>2, <2>3 DEF ConnInv, BeforeConnect, FullNotWritable, StopOrder, Stopping
    <2> QED
      BY <2>4, <2>5, <2>6 DEF ConnInv
  <1>7. CASE StopSelected
    <2>1. h' = h /\ (pt' = pt \/ pt' = Idle) /\ pt.pc = "stop_selected"
      BY <1>7 DEF StopSelected, At
    <2>2. TypeOK' /\ SameCore(h', h)
      BY <1>1, <1>2, <1>4, <2>1 DEF ConnInv, TypeOK, SameCore
    <2> QED
      BY <1>1, <2>1, <2>2, Frame, IdleType
  <1> QED
    BY <1>5, <1>6, <1>7

\* The port calls of connect/3 keep the invariant: nothing is queued while the
\* SYN is unanswered.
LEMMA ConnectSteps ==
    ASSUME ConnInv, ConnectStart \/ ConnectValidate \/ ConnectAnswer \/ ConnectClose
    PROVE  ConnInv'
  <1>0. h \in Handler /\ sock \in SockStates /\ Owner \in Procs /\ want \in [Procs -> Nat]
    BY OwnerAssumption DEF ConnInv, TypeOK
  <1>1. CASE ConnectStart
    <2>1. /\ up /\ pt.pc = "idle" /\ h.status = "not_connected" /\ sock = "none"
          /\ sock' = "SYN_SENT" /\ UNCHANGED <<up, handed, pt, want>>
      BY <1>1 DEF ConnectStart
    <2>2. PICK st \in {"connect_pending", "connect_failed"} :
            h' = [h EXCEPT !.status = st, !.utp = TRUE, !.selected = TRUE]
      BY <1>1 DEF ConnectStart
    <2>3. /\ h' \in Handler /\ h'.utp /\ h'.writable = h.writable
          /\ h'.wq = h.wq /\ h'.deleted = h.deleted /\ h'.status = st
      BY <1>0, <2>2 DEF Handler, Status
    <2>4. pc' \in [Procs -> ProcPcs] /\ calls' \in [Procs -> Nat]
      <3>1. /\ pc' = [pc EXCEPT ![Owner] = "validate"]
            /\ calls' = [calls EXCEPT ![Owner] = calls[Owner] + 1]
        BY <1>1 DEF ConnectStart, Becomes
      <3> QED
        BY <1>0, <3>1 DEF ConnInv, TypeOK, ProcPcs
    <2>5. TypeOK'
      BY <2>1, <2>3, <2>4 DEF ConnInv, TypeOK, SockStates
    <2>6. HandleMatchesSocket' /\ WritableMeansDrained' /\ DeletedOnlyWhenDone'
      BY <2>1, <2>3
         DEF ConnInv, HandleMatchesSocket, Open, WritableMeansDrained, DeletedOnlyWhenDone
    <2>7. BeforeConnect' /\ FullNotWritable' /\ StopOrder'
      BY <2>1, <2>3 DEF ConnInv, BeforeConnect, FullNotWritable, StopOrder
    <2> QED
      BY <2>5, <2>6, <2>7 DEF ConnInv
  <1>2. CASE ConnectValidate
    <2>1. up /\ pt.pc = "idle" /\ UNCHANGED <<h, sock, up, handed, calls, want>>
      BY <1>2 DEF ConnectValidate, sockVars
    <2>2. h.status \in Status
      BY <1>0 DEF Handler
    <2>3. pt'.pc = "validate" /\ pt' \in PortStates
      BY <1>0, <1>2, <2>2 DEF ConnectValidate, PortCall, PortStates, PortPcs
    <2>4. TypeOK' /\ SameCore(h', h)
      BY <1>0, <1>2, <2>1, <2>3 DEF ConnectValidate, Becomes, ConnInv, TypeOK, ProcPcs, SameCore
    <2> QED
      BY <2>1, <2>3, <2>4, Frame DEF Stopping
  <1>3. CASE ConnectAnswer
    <2>1. /\ pt.pc = "validate" /\ pt' = Idle /\ UNCHANGED <<sock, up, calls, want>>
          /\ handed' = TRUE \/ handed' = handed
      BY <1>3 DEF ConnectAnswer, At, sockVars
    <2>2. up /\ ~h.deleted /\ pt'.pc = "idle" /\ pt' \in PortStates
      BY <2>1, IdleType DEF ConnInv, StopOrder, Stopping, DeletedOnlyWhenDone
    <2>3. pc' \in [Procs -> ProcPcs]
      BY <1>0, <1>3 DEF ConnectAnswer, Returns, Becomes, ConnInv, TypeOK, ProcPcs
    <2>4. \/ h' = [h EXCEPT !.caller_ref = Ref(Owner)]
          \/ h' = [h EXCEPT !.status = "not_connected"]
          \/ h' = h
      BY <1>3 DEF ConnectAnswer
    <2>5. Ref(Owner) \in Refs
      BY <1>0 DEF Ref, Refs, ConnInv, TypeOK
    <2>6. /\ h' \in Handler /\ h'.utp = h.utp /\ h'.writable = h.writable
          /\ h'.wq = h.wq /\ h'.deleted = h.deleted
          /\ h'.status \in {h.status, "not_connected"}
      BY <1>0, <2>4, <2>5 DEF Handler, Status
    <2>7. TypeOK'
      BY <2>1, <2>2, <2>3, <2>6 DEF ConnInv, TypeOK
    <2>8. HandleMatchesSocket' /\ WritableMeansDrained' /\ DeletedOnlyWhenDone'
      BY <2>1, <2>2, <2>6
         DEF ConnInv, HandleMatchesSocket, WritableMeansDrained, DeletedOnlyWhenDone
    <2>9. BeforeConnect' /\ FullNotWritable' /\ StopOrder'
      BY <2>1, <2>2, <2>6 DEF ConnInv, BeforeConnect, FullNotWritable, StopOrder, Stopping
    <2> QED
      BY <2>7, <2>8, <2>9 DEF ConnInv
  <1>4. CASE ConnectClose
    <2>1. pt.pc = "idle" /\ up /\ UNCHANGED <<h, sock, up, handed, want>>
      BY <1>4 DEF ConnectClose, sockVars
    <2>2. pt' = pt \/ PortCall("close_lock", Owner, 0, "none", "none")
      BY <1>4 DEF ConnectClose, CloseTest
    <2>3. pt'.pc \in {"idle", "close_lock"} /\ pt' \in PortStates
      BY <1>0, <2>1, <2>2 DEF PortCall, PortPcs, PortStates, ConnInv, TypeOK
    <2>4. pc' \in [Procs -> ProcPcs] /\ calls' \in [Procs -> Nat]
      BY <1>0, <1>4 DEF ConnectClose, CloseTest, Becomes, ConnInv, TypeOK, ProcPcs
    <2>5. TypeOK' /\ SameCore(h', h)
      BY <2>1, <2>3, <2>4 DEF ConnInv, TypeOK, SameCore
    <2> QED
      BY <2>1, <2>3, <2>5, Frame DEF Stopping
  <1> QED
    BY <1>1, <1>2, <1>3, <1>4

\* libutp's callbacks leave the processes and the port call alone, so that a
\* well-typed handler and socket are all there is to show.
LEMMA CallbackFrame ==
    ASSUME ConnInv, UNCHANGED <<procVars, up, pt>>, h' \in Handler, sock' \in SockStates
    PROVE  TypeOK'
  BY DEF ConnInv, TypeOK, procVars

\* do_state_change(UTP_STATE_CONNECT) keeps the invariant: it makes the handler
\* writable, with nothing queued yet.
LEMMA UtpConnectStep == ASSUME ConnInv, UtpConnect PROVE ConnInv'
  <1>1. /\ sock = "SYN_SENT" /\ sock' = "CONNECTED" /\ UNCHANGED <<procVars, up, pt>>
        /\ h' = [h EXCEPT !.status = "connected", !.writable = TRUE]
    BY DEF UtpConnect
  <1>2. /\ h' \in Handler /\ h'.utp = h.utp /\ h'.writable /\ h'.status = "connected"
        /\ h'.wq = h.wq /\ h'.deleted = h.deleted
    BY <1>1 DEF ConnInv, TypeOK, Handler, Status
  <1>3. TypeOK'
    BY <1>1, <1>2, CallbackFrame DEF SockStates
  <1>4. HandleMatchesSocket' /\ WritableMeansDrained' /\ DeletedOnlyWhenDone'
    BY <1>1, <1>2 DEF ConnInv, HandleMatchesSocket, Open, WritableMeansDrained,
                      DeletedOnlyWhenDone, BeforeConnect
  <1>5. BeforeConnect' /\ FullNotWritable' /\ StopOrder'
    BY <1>1, <1>2 DEF ConnInv, BeforeConnect, FullNotWritable, StopOrder, DeletedOnlyWhenDone
  <1> QED
    BY <1>3, <1>4, <1>5 DEF ConnInv

\* do_state_change(UTP_STATE_WRITABLE) keeps the invariant: it leaves the
\* handler writable only if libutp took the whole queue.
LEMMA UtpWritableStep == ASSUME ConnInv, UtpWritable PROVE ConnInv'
  <1>1. /\ sock = "CONNECTED_FULL" /\ UNCHANGED <<procVars, up, pt>>
        /\ h \in Handler /\ h.utp /\ pt.pc # "write" /\ ~h.deleted /\ h.status # "destroying"
    BY DEF UtpWritable, ConnInv, TypeOK, HandleMatchesSocket, Open, FullNotWritable,
           DeletedOnlyWhenDone, StopOrder
  <1>2. PICK w \in IF h.wq = 0 THEN {[took |-> 0, ok |-> TRUE, sock |-> "CONNECTED"]}
                   ELSE UTP_Write("CONNECTED", h.wq, 1) :
          /\ h' = IF h.close_pending THEN close_utp(Written(w)) ELSE Written(w)
          /\ sock' = IF h.close_pending THEN SockAfter(Written(w), w.sock) ELSE w.sock
    BY DEF UtpWritable
  <1>3. h.wq \in Nat
    BY <1>1 DEF Handler
  <1>4. /\ w.took \in 0..h.wq /\ w.ok \in BOOLEAN /\ (w.ok => w.took = h.wq)
        /\ w.sock \in {"CONNECTED", "CONNECTED_FULL"}
        /\ w.ok => w.sock = "CONNECTED"
    <2>1. CASE h.wq = 0
      <3>1. w = [took |-> 0, ok |-> TRUE, sock |-> "CONNECTED"]
        BY <1>2, <2>1
      <3> QED
        BY <2>1, <3>1
    <2>2. CASE h.wq # 0
      <3>1. w \in UTP_Write("CONNECTED", h.wq, 1)
        BY <1>2, <2>2
      <3> QED
        BY <1>3, <3>1, WriteOutcome
    <2> QED
      BY <2>1, <2>2
  <1> DEFINE x == Written(w)
  <1>5. /\ x \in Handler /\ x.utp /\ x.writable = w.ok /\ x.wq = h.wq - w.took
        /\ x.status = h.status /\ x.deleted = h.deleted
    <2>1. h.wq - w.took \in Nat /\ (h.sender_waiting /\ ~RetryDue(w)) \in BOOLEAN
      BY <1>3, <1>4
    <2>2. x = [h EXCEPT !.writable = w.ok, !.wq = h.wq - w.took,
                        !.sender_waiting = h.sender_waiting /\ ~RetryDue(w)]
      BY DEF Written
    <2> QED
      BY <1>1, <1>4, <2>1, <2>2, ZenonT(60) DEF Handler
  <1> HIDE DEF x
  <1>6. x.writable => x.wq = 0
    BY <1>3, <1>4, <1>5
  <1>7. /\ h' \in Handler /\ h'.writable = x.writable /\ h'.wq = x.wq
        /\ h'.deleted = h.deleted /\ h'.status \in {h.status, "closing"}
        /\ sock' \in SockStates /\ HandleMatchesSocket'
        /\ sock' \in {w.sock, "FIN_SENT", "DESTROY_DELAY", "DESTROY"}
    <2>1. CASE h.close_pending
      <3>1. h' = close_utp(x) /\ sock' = SockAfter(x, w.sock)
        BY <1>2, <2>1 DEF x
      <3>2. w.sock \in SockStates /\ w.sock \in Open
        BY <1>4 DEF SockStates, Open
      <3> QED
        BY <1>5, <3>1, <3>2, CloseSock, CloseUtp DEF HandleMatchesSocket
    <2>2. CASE ~h.close_pending
      <3>1. h' = x /\ sock' = w.sock
        BY <1>2, <2>2 DEF x
      <3> QED
        BY <1>4, <1>5, <3>1 DEF SockStates, HandleMatchesSocket, Open
    <2> QED
      BY <2>1, <2>2
  <1>8. TypeOK'
    BY <1>1, <1>7, CallbackFrame
  <1>9. WritableMeansDrained' /\ DeletedOnlyWhenDone'
    BY <1>1, <1>6, <1>7 DEF WritableMeansDrained, DeletedOnlyWhenDone
  <1>10. BeforeConnect' /\ FullNotWritable'
    BY <1>1, <1>4, <1>5, <1>7 DEF BeforeConnect, FullNotWritable
  <1>11. StopOrder'
    BY <1>1, <1>7 DEF ConnInv, StopOrder
  <1> QED
    BY <1>7, <1>8, <1>9, <1>10, <1>11 DEF ConnInv

\* do_read keeps the invariant: it is about received data only.
LEMMA UtpReadStep == ASSUME ConnInv, UtpRead PROVE ConnInv'
  <1> DEFINE x == [h EXCEPT !.rq = @ + 1]
             len == IF h.active = "false" THEN h.recv_len ELSE 0
             y == emit_read_buffer(x, len)
  <1>1. UNCHANGED <<procVars, sock, up, pt>> /\ h \in Handler
    BY DEF UtpRead, ConnInv, TypeOK
  <1>2. x \in Handler /\ SameCore(x, h) /\ len \in Nat
    BY <1>1 DEF Handler, SameCore
  <1>3. \/ h' = h \/ h' = x \/ h' = y \/ h' = reset_waiting_recv(y)
        \/ h' = reset_waiting_recv(h) \/ h' = [h EXCEPT !.active = "false"]
    BY DEF UtpRead, ReadGone
  <1> HIDE DEF x, len
  <1>4. y \in Handler /\ SameCore(y, x)
    BY <1>2, EmitReadBuffer
  <1> HIDE DEF y
  <1>5. reset_waiting_recv(y) \in Handler /\ SameCore(reset_waiting_recv(y), y)
    BY <1>4, ResetWaitingRecv
  <1>8. /\ reset_waiting_recv(h) \in Handler /\ SameCore(reset_waiting_recv(h), h)
        /\ [h EXCEPT !.active = "false"] \in Handler
        /\ SameCore([h EXCEPT !.active = "false"], h)
    BY <1>1, ResetWaitingRecv DEF Handler, SameCore
  <1>6. h' \in Handler /\ SameCore(h', h)
    BY <1>1, <1>2, <1>3, <1>4, <1>5, <1>8 DEF SameCore
  <1>7. TypeOK'
    BY <1>1, <1>6, CallbackFrame DEF ConnInv, TypeOK
  <1> QED
    BY <1>1, <1>6, <1>7, Frame

\* do_state_change(UTP_STATE_EOF) keeps the invariant: it empties the queue, so
\* close_utp goes through, also in the middle of an outputv.
LEMMA UtpEofStep == ASSUME ConnInv, UtpEof PROVE ConnInv'
  <1> DEFINE x == [h EXCEPT !.wq = 0]
             y == IF h.status # "stopped" THEN close_utp(x) ELSE x
  <1>1. /\ UNCHANGED <<procVars, up, pt>> /\ h \in Handler /\ h.utp
        /\ ~h.deleted /\ h.status # "destroying"
    BY DEF UtpEof, ConnInv, TypeOK, HandleMatchesSocket, Open, DeletedOnlyWhenDone, StopOrder
  <1>2. /\ x \in Handler /\ x.utp /\ x.wq = 0 /\ x.status = h.status /\ x.deleted = h.deleted
    BY <1>1 DEF Handler
  <1>3. /\ h' = [y EXCEPT !.writable = FALSE, !.eof_seen = TRUE]
        /\ sock' = IF h.status # "stopped" THEN SockAfter(x, "GOT_FIN") ELSE "GOT_FIN"
    BY DEF UtpEof
  <1> HIDE DEF x
  <1>4. /\ y \in Handler /\ y.wq = 0 /\ y.deleted = h.deleted
        /\ h.status = "stopped" => y.utp /\ y.status = "stopped" /\ sock' = "GOT_FIN"
        /\ h.status # "stopped" => ~y.utp /\ y.status = "closing" /\ sock' = "DESTROY_DELAY"
    <2>1. Closes(x) <=> h.status # "destroying"
      BY <1>2 DEF Closes
    <2>2. SockAfter(x, "GOT_FIN") = "DESTROY_DELAY"
      BY <1>1, <2>1 DEF SockAfter, UTP_Close
    <2> QED
      BY <1>1, <1>2, <1>3, <2>1, <2>2, CloseUtp
  <1> HIDE DEF y
  <1>5. /\ h' \in Handler /\ ~h'.writable /\ h'.utp = y.utp /\ h'.wq = y.wq
        /\ h'.status = y.status /\ h'.deleted = y.deleted
    BY <1>3, <1>4 DEF Handler
  <1>6. TypeOK'
    BY <1>1, <1>4, <1>5, CallbackFrame DEF SockStates
  <1>7. HandleMatchesSocket' /\ DeletedOnlyWhenDone'
    BY <1>1, <1>4, <1>5 DEF HandleMatchesSocket, Open, DeletedOnlyWhenDone
  <1>8. WritableMeansDrained'
    BY <1>1, <1>4, <1>5 DEF ConnInv, WritableMeansDrained, StopOrder
  <1>9. BeforeConnect' /\ FullNotWritable' /\ StopOrder'
    BY <1>1, <1>4, <1>5 DEF ConnInv, BeforeConnect, FullNotWritable, StopOrder
  <1> QED
    BY <1>6, <1>7, <1>8, <1>9 DEF ConnInv

\* do_error keeps the invariant, called in a state s of the socket that agrees
\* with the handler's pointer.
LEMMA DoErrorStep ==
    ASSUME ConnInv, NEW e, NEW s \in SockStates, DoError(e, s),
           UNCHANGED <<procVars, up, pt>>,
           sock # "freed", s # "freed",
           h.utp => s \in Open \cup {"RESET"}, s \in Open => h.utp,
           s \in {"none", "SYN_SENT", "CONNECTED_FULL"} => s = sock
    PROVE  ConnInv'
  <1>1. h \in Handler /\ ~h.deleted /\ h.status # "destroying"
    BY DEF ConnInv, TypeOK, DeletedOnlyWhenDone, StopOrder
  <1>2. \/ h' = [h EXCEPT !.status = "connect_failed"] /\ sock' = s /\ h.status # "stopped"
        \/ h' = close_utp(h) /\ sock' = SockAfter(h, s) /\ h.status # "stopped"
        \/ h' = h /\ sock' = s
    BY DEF DoError
  <1>3. /\ h' \in Handler /\ h'.writable = h.writable /\ h'.wq = h.wq
        /\ h'.deleted = h.deleted /\ h'.status \in {h.status, "connect_failed", "closing"}
        /\ h'.utp => h.utp
        /\ sock' \in SockStates /\ HandleMatchesSocket'
        /\ sock' \in {s, "FIN_SENT", "DESTROY_DELAY", "DESTROY"}
    <2>1. CASE h' = [h EXCEPT !.status = "connect_failed"] /\ sock' = s
      BY <1>1, <2>1 DEF Handler, Status, HandleMatchesSocket
    <2>2. CASE h' = close_utp(h) /\ sock' = SockAfter(h, s)
      BY <1>1, <2>2, CloseUtp, CloseSock DEF HandleMatchesSocket
    <2>3. CASE h' = h /\ sock' = s
      BY <1>1, <2>3 DEF HandleMatchesSocket
    <2> QED
      BY <1>2, <2>1, <2>2, <2>3
  <1>4. TypeOK'
    BY <1>3, CallbackFrame
  <1>5. WritableMeansDrained' /\ DeletedOnlyWhenDone'
    BY <1>1, <1>3 DEF ConnInv, WritableMeansDrained, DeletedOnlyWhenDone
  <1>6. BeforeConnect' /\ FullNotWritable'
    BY <1>3 DEF ConnInv, BeforeConnect, FullNotWritable
  <1>7. StopOrder'
    BY <1>1, <1>3 DEF ConnInv, StopOrder
  <1> QED
    BY <1>3, <1>4, <1>5, <1>6, <1>7 DEF ConnInv

\* The callbacks that report an error, and the end of libutp's delays, keep the
\* invariant.
LEMMA ErrorSteps ==
    ASSUME ConnInv, UtpReset \/ UtpTimeout \/ SendError \/ UtpDelayOver PROVE ConnInv'
  <1>1. UNCHANGED <<procVars, up, pt>> /\ sock \in SockStates
    BY DEF UtpReset, UtpTimeout, SendError, UtpDelayOver, ConnInv, TypeOK
  <1>2. /\ h.utp => sock \in {"SYN_SENT", "CONNECTED", "CONNECTED_FULL", "GOT_FIN", "RESET"}
        /\ sock \in Open => h.utp
    BY DEF ConnInv, HandleMatchesSocket, Open
  <1>3. CASE UtpReset \/ UtpTimeout
    <2> DEFINE s == IF sock = "FIN_SENT" THEN "DESTROY" ELSE "RESET"
    <2>1. \E e \in {"ECONNRESET", "ETIMEDOUT"} : DoError(e, s)
      BY <1>3 DEF UtpReset, UtpTimeout
    <2>2. sock # "freed"
      BY <1>3 DEF UtpReset, UtpTimeout
    <2>3. s \in {"DESTROY", "RESET"} /\ (h.utp => s = "RESET")
      BY <1>2
    <2> HIDE DEF s
    <2> QED
      BY <1>1, <2>1, <2>2, <2>3, DoErrorStep DEF SockStates, Open
  <1>4. CASE SendError
    <2>1. DoError("errno", sock) /\ sock # "freed"
      BY <1>4 DEF SendError
    <2> QED
      BY <1>1, <1>2, <2>1, DoErrorStep DEF Open
  <1>5. CASE UtpDelayOver
    <2> DEFINE s == IF sock = "DESTROY_DELAY" THEN "DESTROY" ELSE "RESET"
    <2>1. s \in {"DESTROY", "RESET"} /\ (h.utp => s = "RESET") /\ sock # "freed"
      BY <1>2, <1>5 DEF UtpDelayOver
    <2>2. CASE DoError("ECONNRESET", s)
      <3> HIDE DEF s
      <3> QED
        BY <1>1, <2>1, <2>2, DoErrorStep DEF SockStates, Open
    <2>3. CASE sock' = s /\ UNCHANGED h
      <3> HIDE DEF s
      <3>1. TypeOK'
        BY <1>1, <2>1, <2>3, CallbackFrame DEF SockStates, ConnInv, TypeOK
      <3>2. HandleMatchesSocket' /\ WritableMeansDrained' /\ DeletedOnlyWhenDone'
        BY <1>1, <2>1, <2>3
           DEF ConnInv, HandleMatchesSocket, Open, WritableMeansDrained, DeletedOnlyWhenDone
      <3>3. BeforeConnect' /\ FullNotWritable' /\ StopOrder'
        BY <1>1, <2>1, <2>3 DEF ConnInv, BeforeConnect, FullNotWritable, StopOrder
      <3> QED
        BY <3>1, <3>2, <3>3 DEF ConnInv
    <2> QED
      BY <1>5, <2>2, <2>3 DEF UtpDelayOver
  <1> QED
    BY <1>3, <1>4, <1>5

\* The acknowledgement of our FIN keeps the invariant.
LEMMA UtpFinAckedStep == ASSUME ConnInv, UtpFinAcked PROVE ConnInv'
  <1>1. UNCHANGED <<procVars, h, up, pt>> /\ sock = "FIN_SENT" /\ sock' = "DESTROY"
    BY DEF UtpFinAcked
  <1>2. TypeOK'
    BY <1>1, CallbackFrame DEF SockStates, ConnInv, TypeOK
  <1>3. HandleMatchesSocket' /\ WritableMeansDrained' /\ DeletedOnlyWhenDone'
    BY <1>1 DEF ConnInv, HandleMatchesSocket, Open, WritableMeansDrained, DeletedOnlyWhenDone
  <1>4. BeforeConnect' /\ FullNotWritable' /\ StopOrder'
    BY <1>1 DEF ConnInv, BeforeConnect, FullNotWritable, StopOrder
  <1> QED
    BY <1>2, <1>3, <1>4 DEF ConnInv

\* do_state_change(UTP_STATE_DESTROYING) keeps the invariant: it deletes the
\* handler only after stop().
LEMMA UtpDestroyingStep == ASSUME ConnInv, UtpDestroying PROVE ConnInv'
  <1>1. /\ UNCHANGED <<procVars, up, pt>> /\ sock = "DESTROY" /\ sock' = "freed"
        /\ h \in Handler /\ ~h.utp /\ ~h.deleted
    BY DEF UtpDestroying, ConnInv, TypeOK, HandleMatchesSocket, Open, DeletedOnlyWhenDone
  <1> DEFINE x == [h EXCEPT !.selected = FALSE]
  <1>2. x \in Handler /\ SameCore(x, h)
    BY <1>1 DEF Handler, SameCore
  <1>3. \/ /\ h.status = "closing"
           /\ \/ h' = [x EXCEPT !.caller = Nil, !.close_pending = FALSE, !.writable = FALSE,
                                !.status = "destroying", !.eof_seen = FALSE]
              \/ h' = [x EXCEPT !.writable = FALSE, !.status = "destroying",
                                !.eof_seen = FALSE]
        \/ h.status = "stopped" /\ h' = [x EXCEPT !.deleted = TRUE]
        \/ h' = x
    BY DEF UtpDestroying
  <1> HIDE DEF x
  <1>4. /\ h' \in Handler /\ h'.utp = h.utp /\ h'.wq = h.wq
        /\ h'.writable => h.writable
        /\ \/ /\ h.status = "closing" /\ h'.status = "destroying" /\ h'.deleted = h.deleted
           \/ /\ h.status = "stopped" /\ h'.status = h.status /\ h'.deleted
           \/ h'.status = h.status /\ h'.deleted = h.deleted
    <2>1. CASE h.status = "closing" /\ h' = [x EXCEPT !.caller = Nil, !.close_pending = FALSE,
                 !.writable = FALSE, !.status = "destroying", !.eof_seen = FALSE]
      BY <1>2, <2>1 DEF Handler, Status, SameCore
    <2>2. CASE h.status = "closing" /\ h' = [x EXCEPT !.writable = FALSE,
                 !.status = "destroying", !.eof_seen = FALSE]
      BY <1>2, <2>2 DEF Handler, Status, SameCore
    <2>3. CASE h.status = "stopped" /\ h' = [x EXCEPT !.deleted = TRUE]
      BY <1>2, <2>3 DEF Handler, SameCore
    <2>4. CASE h' = x
      BY <1>2, <2>4 DEF SameCore
    <2> QED
      BY <1>3, <2>1, <2>2, <2>3, <2>4
  <1>5. TypeOK'
    BY <1>1, <1>4, CallbackFrame DEF SockStates
  <1>6. HandleMatchesSocket' /\ WritableMeansDrained'
    BY <1>1, <1>4 DEF ConnInv, HandleMatchesSocket, Open, WritableMeansDrained
  <1>7. DeletedOnlyWhenDone' /\ StopOrder'
    BY <1>1, <1>4 DEF ConnInv, DeletedOnlyWhenDone, StopOrder, Stopping
  <1>8. BeforeConnect' /\ FullNotWritable'
    BY <1>1 DEF BeforeConnect, FullNotWritable
  <1> QED
    BY <1>5, <1>6, <1>7, <1>8 DEF ConnInv

\* Server::do_incoming sets up a connection that satisfies the invariant.
LEMMA IncomingStep == ASSUME ConnInv, Incoming PROVE ConnInv'
  <1>1. /\ sock = "none" /\ sock' = "CONNECTED" /\ handed' = TRUE /\ up
        /\ UNCHANGED <<up, pt, pc, calls, want>>
        /\ h' = [h EXCEPT !.utp = TRUE, !.writable = TRUE, !.status = "connected",
                          !.selected = TRUE]
    BY DEF Incoming
  <1>2. /\ h' \in Handler /\ h'.utp /\ h'.writable /\ h'.status = "connected"
        /\ h'.wq = h.wq /\ h'.deleted = h.deleted
    BY <1>1 DEF ConnInv, TypeOK, Handler, Status
  <1>3. TypeOK'
    BY <1>1, <1>2 DEF ConnInv, TypeOK, SockStates
  <1>4. HandleMatchesSocket' /\ WritableMeansDrained' /\ DeletedOnlyWhenDone'
    BY <1>1, <1>2 DEF ConnInv, HandleMatchesSocket, Open, WritableMeansDrained,
                      DeletedOnlyWhenDone, BeforeConnect
  <1>5. BeforeConnect' /\ FullNotWritable' /\ StopOrder'
    BY <1>1, <1>2 DEF ConnInv, BeforeConnect, FullNotWritable, StopOrder, DeletedOnlyWhenDone
  <1> QED
    BY <1>3, <1>4, <1>5 DEF ConnInv

\* A new handler satisfies the invariant.
LEMMA InitConnInv == Init => ConnInv
  <1> SUFFICES ASSUME Init PROVE ConnInv
    OBVIOUS
  <1>1. PICK a \in Actives, tmout \in SendTmouts : h = NewHandler(a, tmout)
    BY DEF Init
  <1>2. a \in {"false", "once", "true"} /\ tmout \in {"zero", "finite", "infinity"}
    BY ActivesAssumption, FlagsAssumption
  <1>3. /\ h \in Handler /\ ~h.utp /\ ~h.writable /\ h.wq = 0 /\ ~h.deleted
        /\ h.status = "not_connected"
    BY <1>1, <1>2 DEF NewHandler, Handler, Status
  <1>4. pt = Idle /\ pt.pc = "idle" /\ sock = "none" /\ up
    BY IdleType DEF Init
  <1>5. TypeOK
    BY <1>3, <1>4, IdleType DEF Init, TypeOK, SockStates, ProcPcs
  <1> QED
    BY <1>3, <1>4, <1>5 DEF ConnInv, HandleMatchesSocket, Open, WritableMeansDrained,
       DeletedOnlyWhenDone, BeforeConnect, FullNotWritable, StopOrder, Stopping

\* Every step of a connection, of any thread or process, keeps the invariant.
LEMMA NextConnInv == ASSUME ConnInv, [Next]_vars PROVE ConnInv'
  <1>1. CASE Main
    BY <1>1, UtpConnectStep, UtpWritableStep, UtpReadStep, UtpEofStep, ErrorSteps,
       UtpFinAckedStep, UtpDestroyingStep, IncomingStep DEF Main
  <1>2. CASE PortThread
    <2>1. CASE OutputvWrite
      BY <2>1, OutputvWriteStep
    <2>2. CASE \/ OutputvNote \/ OutputvWait \/ RecvEmit \/ RecvDrained \/ RecvNote
               \/ SetoptsAssign \/ SetoptsEmit \/ SetoptsBuf
      BY <2>2, PortSteps
    <2>3. CASE CloseLocked
      BY <2>3, CloseLockedStep
    <2>4. CASE StopTest \/ StopMark \/ StopSelected
      BY <2>4, StopSteps
    <2>5. CASE ConnectAnswer
      BY <2>5, ConnectSteps
    <2> QED
      BY <1>2, <2>1, <2>2, <2>3, <2>4, <2>5 DEF PortThread
  <1>3. CASE ConnectStart \/ ConnectValidate \/ ConnectClose
    BY <1>3, ConnectSteps
  <1>4. CASE ConnectReplied
    BY <1>4, ProcessSteps, OwnerAssumption
  <1>5. CASE OwnerExit
    BY <1>5, PortCloseStep, OwnerAssumption
  <1>6. ASSUME NEW p \in Procs, Start(p) PROVE ConnInv'
    <2>1. CASE \E op \in {"send", "recv", "setopts", "close"} : PortGone(p, op)
      BY <2>1, ProcessSteps
    <2>2. CASE \/ \E n \in SendSizes : Send(p, n)
               \/ \E len \in RecvLens : Recv(p, len)
               \/ \E opt \in Opts : Setopts(p, opt)
               \/ Close(p)
      BY <2>2, CallSteps
    <2> QED
      BY <1>6, <2>1, <2>2 DEF Start
  <1>7. ASSUME NEW p \in Procs, Continue(p) \/ TimesOut(p) PROVE ConnInv'
    BY <1>7, ProcessSteps, CallSteps, PortCloseStep DEF Continue, TimesOut
  <1>8. CASE UNCHANGED vars
    <2>1. UNCHANGED <<h, sock, up, pt>> /\ TypeOK'
      BY <1>8 DEF vars, ConnInv, TypeOK
    <2>2. SameCore(h', h)
      BY <2>1 DEF SameCore
    <2> QED
      BY <2>1, <2>2, Frame
  <1> QED
    BY <1>1, <1>2, <1>3, <1>4, <1>5, <1>6, <1>7, <1>8 DEF Next, Connecting

\* ConnInv holds throughout the life of a connection.
THEOREM ConnectionInvariant == Spec => []ConnInv
  <1>1. Init => ConnInv
    BY InitConnInv
  <1>2. ConnInv /\ [Next]_vars => ConnInv'
    BY NextConnInv
  <1> QED
    BY <1>1, <1>2, PTL DEF Spec

\* The fields of the handler and of the port call keep their types: no count
\* goes below zero in emit_read_buffer, outputv or the WRITABLE handler.
THEOREM TypeCorrect == Spec => []TypeOK
  <1>1. ConnInv => TypeOK
    BY DEF ConnInv
  <1> QED
    BY <1>1, ConnectionInvariant, PTL

\* The handler's pointer is set exactly while libutp has the socket open: no
\* second UTP_Close, and no callback without a socket to pass on.
THEOREM PointerMatchesSocket == Spec => []HandleMatchesSocket
  <1>1. ConnInv => HandleMatchesSocket
    BY DEF ConnInv
  <1> QED
    BY <1>1, ConnectionInvariant, PTL

\* A writable socket has nothing queued, so outputv's UTP_Write covers the
\* whole queue although it is given only the new data's size.
THEOREM OutputvWritesAll == Spec => []WritableMeansDrained
  <1>1. ConnInv => WritableMeansDrained
    BY DEF ConnInv
  <1> QED
    BY <1>1, ConnectionInvariant, PTL

\* The handler is deleted only when libutp and the emulator are done with it.
THEOREM DeletedWhenDone == Spec => []DeletedOnlyWhenDone
  <1>1. ConnInv => DeletedOnlyWhenDone
    BY DEF ConnInv
  <1> QED
    BY <1>1, ConnectionInvariant, PTL

\* No step of a callback or of a call writes to a deleted handler.
LEMMA DeletedUnchanged ==
    ASSUME ConnInv, [Next]_vars, h.deleted PROVE UNCHANGED h
  <1>1. sock = "freed" /\ ~up /\ pt.pc \in {"idle", "stop_selected"}
    BY DEF ConnInv, DeletedOnlyWhenDone, StopOrder
  <1>2. CASE Main
    BY <1>1, <1>2 DEF Main, UtpConnect, UtpWritable, UtpRead, ReadGone, UtpEof, UtpReset,
       UtpTimeout, SendError, UtpDelayOver, UtpFinAcked, UtpDestroying, Incoming
  <1>3. CASE PortThread
    BY <1>1, <1>3 DEF PortThread, OutputvWrite, OutputvNote, OutputvWait, RecvEmit, RecvDrained,
       RecvNote, SetoptsAssign, SetoptsEmit, SetoptsBuf, CloseLocked, StopTest, StopMark,
       StopSelected, ConnectAnswer, At
  <1>4. CASE ConnectStart \/ Connecting \/ OwnerExit
    BY <1>1, <1>4 DEF ConnectStart, Connecting, ConnectValidate, ConnectReplied, ConnectClose,
       OwnerExit
  <1>5. ASSUME NEW p \in Procs, Start(p) PROVE UNCHANGED h
    BY <1>1, <1>5 DEF Start, Send, Recv, Setopts, Close, PortGone
  <1>6. ASSUME NEW p \in Procs, Continue(p) \/ TimesOut(p) PROVE UNCHANGED h
    BY <1>1, <1>6 DEF Continue, TimesOut, SendReplied, TakeRetry, Resend, CancelSend,
       RecvReplied, CancelRecv, CloseReplied, PortClose, SendTimesOut, RecvTimesOut
  <1>7. CASE UNCHANGED vars
    BY <1>7 DEF vars
  <1> QED
    BY <1>2, <1>3, <1>4, <1>5, <1>6, <1>7 DEF Next

\* A deleted handler is never written to again, by either thread.
THEOREM DeletedIsUntouched == Spec => NoWriteAfterDelete
  <1>1. ConnInv /\ [Next]_vars => [h.deleted => UNCHANGED h]_vars
    BY DeletedUnchanged
  <1> QED
    BY <1>1, ConnectionInvariant, PTL DEF Spec, NoWriteAfterDelete

-----------------------------------------------------------------------------
(***************************************************************************)
(* One user.  The rest is about a connection that one process uses, which  *)
(* is what the invariants about waiting processes need: the handler has    *)
(* one caller and one caller_ref, and a second process overwrites them.    *)
(*                                                                         *)
(* UserInv is the inductive invariant: ConnInv, and an account of the user *)
(* (InCall), of the phase before the connection is established (EarlyInv), *)
(* of the messages with a reference (MailInv) and of those to the owner    *)
(* (AppInv).  WaitingInv, SenderInv and FinalInv are inductive relative to *)
(* it when the main thread and the port calls do not overlap.              *)
(***************************************************************************)
\* The user is in a port call exactly while one is in progress, and a port is
\* closed only by its user.
InCall ==
    /\ DOMAIN refs = Procs /\ DOMAIN replies = Procs /\ DOMAIN res = Procs
    /\ pt.pc = "idle" => pc[Owner] # "port"
    /\ pt.pc # "idle" => pc[Owner] \in {"port", "dead"}
    /\ pc[Owner] = "dead" => ~up
    /\ ~up => pc[Owner] \in {"port", "idle", "dead"}

\* The handler knows the user's call, and has sent it nothing yet.
Registered == h.caller = Owner /\ h.caller_ref = Ref(Owner) /\ refs[Owner] = {}

\* A pending close is the user's, who waits for it or for the answer sent.
CloserInv ==
    /\ h.close_pending => pc[Owner] = "dead" \/ (pc[Owner] = "close_wait" /\ Registered)
    /\ pc[Owner] = "close_wait" => h.close_pending \/ refs[Owner] = {<<Ref(Owner), "ok">>}

\* The same for a recv.
Receiving == {"recv_wait", "recv_cancel"}
ReaderInv ==
    /\ h.receiver_waiting => h.caller = Owner /\ ~h.close_pending
    /\ h.receiver_waiting => pc[Owner] = "dead" \/ (pc[Owner] \in Receiving /\ Registered)
    /\ pc[Owner] \in Receiving =>
         h.receiver_waiting \/ refs[Owner] = {<<Ref(Owner), "data">>}
    /\ pt.pc = "rb_drained" => refs[Owner] = {<<Ref(Owner), "data">>}
    /\ ~lost

\* The same for a connect; otherwise there is no message with a reference.
ConnectorInv ==
    /\ h.status = "connect_pending" /\ h.caller_ref # NoRef =>
         pc[Owner] \in {"dead", "connect_wait"} /\ h.caller_ref = Ref(Owner)
    /\ pc[Owner] = "connect_wait" =>
         \A m \in refs[Owner] : m[1] = Ref(Owner) /\ m[2] \in {"ok", "error"}
    /\ pc[Owner] = "connect_wait" /\ refs[Owner] # {} => h.status # "connect_pending"
    /\ pc[Owner] = "dead" => \A m \in refs[Owner] : m[1] = Ref(Owner)
    /\ pc[Owner] \in Receiving \cup {"connect_wait", "close_wait", "dead"}
         \/ pt.pc = "rb_drained" \/ refs[Owner] = {}

\* Before the connection is established only connect/3 is under way.
Early == {"none", "SYN_SENT"}
EarlyInv ==
    /\ h.status = "connect_pending" => sock = "SYN_SENT"
    /\ sock = "none" => pc[Owner] = "idle" /\ h.caller_ref = NoRef
    /\ sock \in Early =>
        /\ ~handed /\ up /\ h.rq = 0
        /\ h.status \in {"not_connected", "connect_pending", "connect_failed"}
        /\ pt.pc \in {"idle", "validate", "close_lock"}
        /\ pt.pc = "validate" => pt.seen # "connected"
        /\ pc[Owner] \in {"idle", "port", "validate", "connect_wait", "connect_close",
                          "port_close"}
        /\ \A m \in refs[Owner] : m[2] = "error"

\* A callback runs in the driver's own thread: no call of the user begins,
\* ends or moves.
LEMMA InCallMain ==
    ASSUME ConnInv, Procs = {Owner}, InCall, Main PROVE InCall'
  <1>1. UNCHANGED <<pc, pt, up, res>> /\ DOMAIN replies' = DOMAIN replies
    BY DEF Main, UtpConnect, UtpWritable, UtpRead, ReadGone, UtpEof, UtpReset,
       UtpTimeout, SendError, UtpDelayOver, UtpFinAcked, UtpDestroying, Incoming, procVars,
       SendReply
  <1>2. DOMAIN refs' = DOMAIN refs
    BY DEF Main, UtpConnect, UtpWritable, UtpRead, ReadGone, UtpEof, UtpReset,
       UtpTimeout, SendError, UtpDelayOver, UtpFinAcked, UtpDestroying, Incoming,
       SendRef, TellConnector, DoError
  <1> QED
    BY <1>1, <1>2 DEF InCall

\* Each step of a port call leaves the user in it, or ends it and lets the
\* user go on; only stop runs after the port is closed.
LEMMA InCallPort ==
    ASSUME ConnInv, Procs = {Owner}, InCall, PortThread PROVE InCall'
  <1>1. /\ DOMAIN replies' = DOMAIN replies /\ DOMAIN refs' = DOMAIN refs
        /\ DOMAIN res' = DOMAIN res /\ up' = up
    BY DEF PortThread, OutputvWrite, OutputvNote, OutputvWait, RecvEmit, RecvDrained,
       RecvNote, SetoptsAssign, SetoptsEmit, SetoptsBuf, CloseLocked, StopTest, StopMark,
       StopSelected, ConnectAnswer, SendReply, SendRef, Returns, sockVars
  <1>2. pt.by = Owner /\ pt.pc # "idle" /\ pc[Owner] \in {"port", "dead"}
        /\ pc \in [Procs -> ProcPcs]
    BY DEF PortThread, OutputvWrite, OutputvNote, OutputvWait, RecvEmit, RecvDrained,
       RecvNote, SetoptsAssign, SetoptsEmit, SetoptsBuf, CloseLocked, StopTest, StopMark,
       StopSelected, ConnectAnswer, At, ConnInv, TypeOK, PortStates, InCall
  <1>3. pc[Owner] = "dead" => pt.pc \in Stopping
    BY <1>2 DEF InCall, ConnInv, StopOrder
  <1>4. \/ pc' = pc /\ pt'.pc # "idle"
        \/ pc' = pc /\ pc[Owner] = "dead"
        \/ pt'.pc = "idle" /\ pc'[Owner] = "idle"
        \/ pt'.pc = "idle" /\ pc'[Owner] \notin {"port", "dead"} /\ up
    <2>1. CASE OutputvWrite \/ OutputvNote \/ OutputvWait \/ RecvEmit \/ RecvDrained \/ RecvNote
      BY <1>2, <1>3, <2>1, IdleType DEF OutputvWrite, OutputvNote, OutputvWait,
         RecvEmit, RecvDrained, RecvNote, Becomes, Goto, At, Stopping, ConnInv, StopOrder, TypeOK,
         PortStates
    <2>2. CASE SetoptsAssign \/ SetoptsEmit \/ SetoptsBuf \/ CloseLocked
      BY <1>2, <1>3, <2>2, IdleType DEF SetoptsAssign, SetoptsEmit, SetoptsBuf, CloseLocked,
         Becomes, Returns, Goto, At, Stopping, ConnInv, StopOrder, TypeOK, PortStates
    <2>3. CASE StopTest \/ StopMark \/ StopSelected
      BY <1>2, <1>3, <2>3, IdleType DEF StopTest, StopMark, StopSelected,
         Becomes, Returns, Goto, At, Stopping, ConnInv, StopOrder, TypeOK, PortStates
    <2>4. CASE ConnectAnswer
      BY <1>2, <1>3, <2>4, IdleType DEF ConnectAnswer,
         Becomes, Returns, Goto, At, Stopping, ConnInv, StopOrder, TypeOK, PortStates
    <2> QED
      BY <2>1, <2>2, <2>3, <2>4 DEF PortThread
  <1> QED
    BY <1>1, <1>2, <1>4 DEF InCall

\* A step of the user leaves it outside the port, starts a port call, or
\* closes the port.
LEMMA InCallProcess ==
    ASSUME ConnInv, Procs = {Owner}, InCall,
           ConnectStart \/ Connecting \/ OwnerExit \/ Start(Owner)
             \/ Continue(Owner) \/ TimesOut(Owner)
    PROVE  InCall'
  <1>1. /\ DOMAIN replies' = DOMAIN replies /\ DOMAIN refs' = DOMAIN refs
        /\ DOMAIN res' = DOMAIN res
    BY DEF ConnectStart, Connecting, ConnectValidate, ConnectReplied, ConnectClose,
       OwnerExit, Start, Send, Outputv, Recv, Setopts, Close, PortGone, Continue,
       SendReplied, TakeRetry, Resend, CancelSend, RecvReplied, CancelRecv, CloseReplied,
       PortClose, TimesOut, SendTimesOut, RecvTimesOut, SendReply, SendRef, TakeRef,
       Returns
  <1>2. pc \in [Procs -> ProcPcs]
    BY DEF ConnInv, TypeOK
  <1>3. \/ pt' = pt /\ up' = up /\ up /\ pc[Owner] # "port" /\ pc'[Owner] \notin {"port", "dead"}
        \/ pt' = pt /\ pt.pc = "idle" /\ pc'[Owner] = "idle"
        \/ pt'.pc # "idle" /\ pc'[Owner] = "port"
        \/ ~up' /\ pc'[Owner] = "dead"
    <2>1. CASE ConnectStart
      <3>1. pc[Owner] = "idle" /\ up /\ UNCHANGED <<pt, up>> /\ Becomes(Owner, "validate")
        BY <2>1 DEF ConnectStart
      <3> QED
        BY <1>2, <3>1 DEF Becomes
    <2>7. CASE ConnectValidate
      BY <1>2, <2>7 DEF ConnectValidate, PortCall, Becomes
    <2>5. CASE ConnectReplied
      <3>1. pc[Owner] = "connect_wait" /\ pc'[Owner] \in {"idle", "connect_close"}
            /\ UNCHANGED <<pt, up>>
        BY <1>2, <2>5 DEF ConnectReplied, Becomes, Returns
      <3> QED
        BY <3>1 DEF InCall
    <2>6. CASE ConnectClose
      BY <1>2, <2>6 DEF ConnectClose, CloseTest, PortCall, Becomes
    <2>2. CASE OwnerExit
      BY <1>2, <2>2 DEF OwnerExit, Becomes, StopBegin, Linger, PortCall
    <2>3. CASE Start(Owner)
      BY <1>2, <2>3 DEF Start, Send, Outputv, Recv, Setopts, Close, PortGone, Begin,
         CloseTest, PortCall, Becomes, Returns
    <2>4. CASE Continue(Owner) \/ TimesOut(Owner)
      BY <1>2, <2>4 DEF Continue, SendReplied, TakeRetry, Resend, Outputv, CancelSend,
         RecvReplied, CancelRecv, CloseReplied, PortClose, TimesOut, SendTimesOut,
         RecvTimesOut, Becomes, Returns, StopBegin, Linger, PortCall, InCall
    <2> QED
      BY <2>1, <2>2, <2>3, <2>4, <2>5, <2>6, <2>7 DEF Connecting
  <1> QED
    BY <1>1, <1>2, <1>3 DEF InCall

\* close_utp closes a socket that is still connecting.
LEMMA ClosesEarly ==
    ASSUME ConnInv, sock = "SYN_SENT", NEW x \in Handler,
           x.utp <=> h.utp, x.wq = h.wq, x.status # "destroying"
    PROVE  SockAfter(x, sock) = "DESTROY_DELAY"
  <1>1. x.utp /\ x.wq = 0
    BY DEF ConnInv, HandleMatchesSocket, Open, BeforeConnect
  <1> QED
    BY <1>1 DEF SockAfter, Closes, UTP_Close

\* The steps possible before the connection is established.
LEMMA EarlySteps ==
    ASSUME ConnInv, Procs = {Owner}, InCall, EarlyInv, Next
    PROVE  /\ sock = "none" => ConnectStart \/ Incoming
           /\ sock = "SYN_SENT" =>
                \/ Main \/ ConnectAnswer \/ CloseLocked \/ ConnectValidate
                \/ ConnectReplied \/ ConnectClose \/ OwnerExit \/ PortClose(Owner)
           /\ sock \notin Early => sock' \notin Early
  <1>1. ASSUME sock = "none" PROVE ConnectStart \/ Incoming
    <2>1. pc[Owner] = "idle" /\ ~handed /\ pt.pc = "idle"
      BY <1>1 DEF EarlyInv, Early, InCall
    <2>2. CASE Main
      BY <1>1, <2>2 DEF Main, UtpConnect, UtpWritable, UtpRead, ReadGone, UtpEof, UtpReset,
         UtpTimeout, SendError, UtpDelayOver, UtpFinAcked, UtpDestroying
    <2>3. ~PortThread
      BY <2>1 DEF PortThread, OutputvWrite, OutputvNote, OutputvWait, RecvEmit, RecvDrained,
         RecvNote, SetoptsAssign, SetoptsEmit, SetoptsBuf, CloseLocked, StopTest, StopMark,
         StopSelected, ConnectAnswer, At
    <2>4. ~Connecting /\ ~OwnerExit
      BY <1>1, <2>1 DEF Connecting, ConnectValidate, ConnectReplied, ConnectClose, OwnerExit
    <2>5. ~Start(Owner)
      BY <2>1 DEF Start, Send, Recv, Setopts, Close, PortGone, Begin
    <2>6. ~Continue(Owner) /\ ~TimesOut(Owner)
      BY <2>1 DEF Continue, SendReplied, TakeRetry, Resend, CancelSend, RecvReplied,
         CancelRecv, CloseReplied, PortClose, TimesOut, SendTimesOut, RecvTimesOut
    <2> QED
      BY <2>2, <2>3, <2>4, <2>5, <2>6 DEF Next
  <1>2. ASSUME sock = "SYN_SENT"
        PROVE  \/ Main \/ ConnectAnswer \/ CloseLocked \/ ConnectValidate
               \/ ConnectReplied \/ ConnectClose \/ OwnerExit \/ PortClose(Owner)
    <2>1. /\ ~handed /\ pt.pc \in {"idle", "validate", "close_lock"}
          /\ pc[Owner] \in {"idle", "port", "validate", "connect_wait", "connect_close",
                            "port_close"}
      BY <1>2 DEF EarlyInv, Early
    <2>3. PortThread => ConnectAnswer \/ CloseLocked
      BY <2>1 DEF PortThread, OutputvWrite, OutputvNote, OutputvWait, RecvEmit, RecvDrained,
         RecvNote, SetoptsAssign, SetoptsEmit, SetoptsBuf, StopTest, StopMark,
         StopSelected, At
    <2>4. ~ConnectStart
      BY <1>2, <2>1 DEF ConnectStart
    <2>5. ~Start(Owner)
      BY <2>1 DEF Start, Send, Recv, Setopts, Close, PortGone, Begin
    <2>6. ~TimesOut(Owner) /\ (Continue(Owner) => PortClose(Owner))
      BY <2>1 DEF Continue, SendReplied, TakeRetry, Resend, CancelSend, RecvReplied,
         CancelRecv, CloseReplied, TimesOut, SendTimesOut, RecvTimesOut
    <2> QED
      BY <2>3, <2>4, <2>5, <2>6 DEF Next, Connecting
  <1>3. ASSUME sock \notin Early PROVE sock' \notin Early
    <2>1. \A x : SockAfter(x, sock) \notin Early
      BY <1>3 DEF SockAfter, UTP_Close, Early
    <2>2. CASE UtpConnect \/ UtpWritable \/ UtpRead \/ UtpEof
      <3>1. ASSUME UtpWritable PROVE sock' \notin Early
        <4>1. PICK w \in IF h.wq = 0 THEN {[took |-> 0, ok |-> TRUE, sock |-> "CONNECTED"]}
                   ELSE UTP_Write("CONNECTED", h.wq, 1) :
                   sock' = IF h.close_pending THEN SockAfter(Written(w), w.sock) ELSE w.sock
          BY <3>1 DEF UtpWritable
        <4>2. w.sock \in {"CONNECTED", "CONNECTED_FULL"}
          BY DEF UTP_Write
        <4> QED
          BY <4>1, <4>2 DEF SockAfter, UTP_Close, Early
      <3>2. ASSUME UtpEof PROVE sock' \notin Early
        BY <3>2 DEF UtpEof, SockAfter, UTP_Close, Early
      <3> QED
        BY <1>3, <2>2, <3>1, <3>2 DEF UtpConnect, UtpRead, Early
    <2>3. ASSUME NEW e, NEW s, DoError(e, s), s \notin Early PROVE sock' \notin Early
      BY <2>3 DEF DoError, SockAfter, UTP_Close, Early
    <2>4. CASE UtpReset \/ UtpTimeout \/ SendError \/ UtpDelayOver
      BY <1>3, <2>3, <2>4 DEF UtpReset, UtpTimeout, SendError, UtpDelayOver, Early
    <2>5. CASE UtpFinAcked \/ UtpDestroying \/ Incoming
      BY <1>3, <2>5 DEF UtpFinAcked, UtpDestroying, Incoming, Early
    <2>6. CASE PortThread
      <3>1. ASSUME OutputvWrite PROVE sock' \notin Early
        <4>1. sock' = sock \/ \E w \in UTP_Write(sock, pt.n, 0) : sock' = w.sock
          BY <3>1 DEF OutputvWrite
        <4> QED
          BY <1>3, <4>1 DEF UTP_Write, Early
      <3> QED
        BY <1>3, <2>1, <2>6, <3>1 DEF PortThread, OutputvNote, OutputvWait, RecvEmit, RecvDrained,
         RecvNote, SetoptsAssign, SetoptsEmit, SetoptsBuf, CloseLocked, StopTest, StopMark,
         StopSelected, ConnectAnswer, sockVars
    <2>7. CASE ConnectStart \/ Connecting \/ OwnerExit
      BY <1>3, <2>1, <2>7 DEF ConnectStart, Connecting, ConnectValidate, ConnectReplied,
         ConnectClose, OwnerExit, StopBegin, Linger, sockVars, Early
    <2>8. CASE Start(Owner)
      BY <1>3, <2>8 DEF Start, Send, Recv, Setopts, Close, PortGone, sockVars
    <2>9. CASE Continue(Owner) \/ TimesOut(Owner)
      BY <1>3, <2>1, <2>9 DEF Continue, SendReplied, TakeRetry, Resend, CancelSend,
         RecvReplied, CancelRecv, CloseReplied, PortClose, StopBegin, Linger, TimesOut,
         SendTimesOut, RecvTimesOut, sockVars
    <2> QED
      BY <2>2, <2>4, <2>5, <2>6, <2>7, <2>8, <2>9 DEF Next, Main
  <1> QED
    BY <1>1, <1>2, <1>3

\* The fields that say who waits, those that say what a reader may have, and
\* those a waiting sender depends on.
SameCaller(x, y) ==
    /\ x.caller = y.caller /\ x.caller_ref = y.caller_ref
    /\ (x.close_pending <=> y.close_pending)
    /\ (x.receiver_waiting <=> y.receiver_waiting)
SameRead(x, y) == x.rq = y.rq /\ x.recv_len = y.recv_len /\ x.active = y.active
SameSend(x, y) == x.send_tmout = y.send_tmout /\ (x.sender_waiting <=> y.sender_waiting)

\* close_utp leaves alone who waits, what there is to read and what a sender
\* depends on.
LEMMA CloseUtpUser ==
    ASSUME NEW x \in Handler
    PROVE  /\ SameCaller(close_utp(x), x) /\ SameRead(close_utp(x), x)
           /\ SameSend(close_utp(x), x) /\ (close_utp(x).eof_seen <=> x.eof_seen)
  BY DEF close_utp, Handler, SameCaller, SameRead, SameSend

\* emit_read_buffer, when it is not turned into the closed message, takes
\* data off the driver queue and leaves alone who waits.
LEMMA EmitUser ==
    ASSUME NEW x \in Handler, NEW len \in Nat, ~EmitsClosed(x)
    PROVE  /\ SameCaller(emit_read_buffer(x, len), x) /\ SameSend(emit_read_buffer(x, len), x)
           /\ (emit_read_buffer(x, len).eof_seen <=> x.eof_seen)
           /\ emit_read_buffer(x, len).recv_len = x.recv_len
           /\ emit_read_buffer(x, len).rq <= x.rq
           /\ x.active = "false" => emit_read_buffer(x, len).active = "false"
  <1>1. CASE EmitsData(x, len)
    <2>1. x.rq - EmitCount(x, len) \in Nat /\ x.rq - EmitCount(x, len) <= x.rq
      BY <1>1 DEF EmitsData, EmitCount, Handler
    <2>2. emit_read_buffer(x, len) =
            [x EXCEPT !.rq = x.rq - EmitCount(x, len),
                      !.active = IF x.active = "once" THEN "false" ELSE x.active]
      BY <1>1 DEF emit_read_buffer
    <2> QED
      BY <2>1, <2>2 DEF Handler, SameCaller, SameSend
  <1>2. CASE ~EmitsData(x, len)
    <2>1. emit_read_buffer(x, len) = x
      BY <1>2 DEF emit_read_buffer
    <2> QED
      BY <2>1 DEF Handler, SameCaller, SameSend
  <1> QED
    BY <1>1, <1>2

\* What a WRITABLE callback does to the fields the users depend on: ok says
\* whether libutp took all that was queued.
LEMMA WritableEffect ==
    ASSUME ConnInv, UtpWritable
    PROVE  \E ok \in BOOLEAN :
             /\ SameCaller(h', h) /\ SameRead(h', h) /\ h'.send_tmout = h.send_tmout
             /\ (h'.eof_seen <=> h.eof_seen)
             /\ (h'.sender_waiting <=> h.sender_waiting /\ ~ok)
             /\ (h'.writable <=> ok)
             /\ h'.status \in {h.status, "closing"}
             /\ ~h.close_pending => h'.status = h.status
             /\ IF ok /\ h.sender_waiting THEN SendReply(h.caller, "retry")
                ELSE UNCHANGED replies
  <1>1. h \in Handler /\ h.wq \in Nat
    BY DEF ConnInv, TypeOK, Handler
  <1>2. PICK w \in IF h.wq = 0 THEN {[took |-> 0, ok |-> TRUE, sock |-> "CONNECTED"]}
                   ELSE UTP_Write("CONNECTED", h.wq, 1) :
          /\ IF RetryDue(w) THEN SendReply(h.caller, "retry") ELSE UNCHANGED replies
          /\ h' = IF h.close_pending THEN close_utp(Written(w)) ELSE Written(w)
    BY DEF UtpWritable
  <1>3. w.took \in 0..h.wq /\ w.ok \in BOOLEAN
    <2>1. CASE h.wq = 0
      <3>1. w = [took |-> 0, ok |-> TRUE, sock |-> "CONNECTED"]
        BY <1>2, <2>1
      <3> QED
        BY <2>1, <3>1
    <2>2. CASE h.wq # 0
      <3>1. w \in UTP_Write("CONNECTED", h.wq, 1)
        BY <1>2, <2>2
      <3> QED
        BY <1>1, <3>1, WriteOutcome
    <2> QED
      BY <2>1, <2>2
  <1>4. (h.sender_waiting /\ ~RetryDue(w)) \in BOOLEAN
    OBVIOUS
  <1>5. PICK x : x = [h EXCEPT !.writable = w.ok, !.wq = h.wq - w.took,
                               !.sender_waiting = h.sender_waiting /\ ~RetryDue(w)]
    OBVIOUS
  <1>6. Written(w) = x
    BY <1>5 DEF Written
  <1>7. /\ x \in Handler /\ SameCaller(x, h) /\ SameRead(x, h) /\ x.send_tmout = h.send_tmout
        /\ (x.eof_seen <=> h.eof_seen) /\ (x.sender_waiting <=> h.sender_waiting /\ ~RetryDue(w))
        /\ (x.writable <=> w.ok)
        /\ x.status = h.status
    <2>1. h.wq - w.took \in Nat
      BY <1>1, <1>3
    <2> QED
      BY <1>1, <1>3, <1>4, <1>5, <2>1, ZenonT(60) DEF Handler, SameCaller, SameRead
  <1>8. /\ SameCaller(h', x) /\ SameRead(h', x) /\ SameSend(h', x)
        /\ (h'.eof_seen <=> x.eof_seen) /\ (h'.writable <=> x.writable)
        /\ h'.status \in {x.status, "closing"} /\ (~h.close_pending => h'.status = x.status)
    <2>1. CASE h.close_pending
      BY <1>2, <1>6, <1>7, <2>1, CloseUtp, CloseUtpUser
    <2>2. CASE ~h.close_pending
      BY <1>2, <1>6, <2>2 DEF SameCaller, SameRead, SameSend
    <2> QED
      BY <2>1, <2>2
  <1>9. /\ SameCaller(h', h) /\ SameRead(h', h) /\ h'.send_tmout = h.send_tmout
        /\ (h'.sender_waiting <=> h.sender_waiting /\ ~w.ok)
    BY <1>7, <1>8 DEF SameCaller, SameRead, SameSend, RetryDue
  <1>10. IF w.ok /\ h.sender_waiting THEN SendReply(h.caller, "retry") ELSE UNCHANGED replies
    BY <1>2 DEF RetryDue
  <1>11. (h'.eof_seen <=> h.eof_seen) /\ (h'.writable <=> w.ok)
         /\ h'.status \in {h.status, "closing"} /\ (~h.close_pending => h'.status = h.status)
    BY <1>7, <1>8
  <1> QED
    BY <1>3, <1>9, <1>10, <1>11, Zenon

\* The handler as close() leaves it for close_utp.
LEMMA ClosingForFields ==
    ASSUME ConnInv
    PROVE  /\ ClosingFor \in Handler /\ (ClosingFor.utp <=> h.utp) /\ ClosingFor.wq = h.wq
           /\ ClosingFor.status = "closing" /\ ClosingFor.close_pending
           /\ ClosingFor.caller = pt.by /\ ClosingFor.caller_ref = Ref(pt.by)
           /\ (ClosingFor.receiver_waiting <=> h.receiver_waiting)
           /\ (ClosingFor.sender_waiting <=> h.sender_waiting)
           /\ ClosingFor.recv_len = h.recv_len /\ ClosingFor.rq = h.rq
           /\ ClosingFor.active = h.active /\ ClosingFor.send_tmout = h.send_tmout
  <1>1. h \in Handler /\ pt.by \in Procs /\ Ref(pt.by) \in Refs
    BY DEF ConnInv, TypeOK, PortStates, Ref, Refs
  <1> QED
    BY <1>1, ZenonT(60) DEF ClosingFor, Handler, Status

\* do_read leaves the status alone.
LEMMA ReadKeepsStatus == ASSUME ConnInv, UtpRead PROVE h'.status = h.status
  <1>1. h \in Handler /\ h.recv_len \in Nat
    BY DEF ConnInv, TypeOK, Handler
  <1>2. PICK x : x = [h EXCEPT !.rq = h.rq + 1]
    OBVIOUS
  <1>3. x \in Handler /\ x.status = h.status
    BY <1>1, <1>2 DEF Handler
  <1>4. PICK len : len = IF h.active = "false" THEN h.recv_len ELSE 0
    OBVIOUS
  <1>5. PICK y : y = emit_read_buffer(x, len)
    OBVIOUS
  <1>6. y \in Handler /\ y.status = h.status
    BY <1>1, <1>3, <1>4, <1>5, EmitReadBuffer DEF SameCore
  <1>7. \/ h' \in {h, x, y, reset_waiting_recv(y), reset_waiting_recv(h)}
        \/ h' = [h EXCEPT !.active = "false"]
    BY <1>2, <1>4, <1>5 DEF UtpRead, ReadGone
  <1>8. [h EXCEPT !.active = "false"].status = h.status
    BY <1>1 DEF Handler
  <1>9. x.status = h.status /\ reset_waiting_recv(y).status = y.status
        /\ reset_waiting_recv(h).status = h.status
    BY <1>1, <1>3, <1>6, ResetWaitingRecv DEF SameCore
  <1> QED
    BY <1>6, <1>7, <1>8, <1>9

\* The status after each step.  Only connect_start makes it connect_pending.
LEMMA StatusMain ==
    ASSUME ConnInv, Main
    PROVE  \/ h'.status = h.status
           \/ (UtpConnect \/ Incoming) /\ h'.status = "connected"
           \/ h.status = "connect_pending" /\ h'.status = "connect_failed"
           \/ h.status = "connected" /\ h'.status = "closing"
           \/ UtpEof /\ h.status # "stopped" /\ h'.status = "closing"
           \/ UtpWritable /\ h.close_pending /\ h'.status = "closing"
           \/ UtpDestroying /\ h.status = "closing" /\ h'.status = "destroying" /\ ~h'.eof_seen
  <1>1. h \in Handler
    BY DEF ConnInv, TypeOK
  <1>2. CASE UtpConnect \/ Incoming
    BY <1>1, <1>2 DEF UtpConnect, Incoming, Handler
  <1>3. CASE UtpWritable
    BY <1>3, WritableEffect
  <1>4. CASE UtpRead
    BY <1>4, ReadKeepsStatus
  <1>5. CASE UtpEof
    <2>1. PICK x : x = [h EXCEPT !.wq = 0]
      OBVIOUS
    <2>2. x \in Handler /\ x.status = h.status
      BY <1>1, <2>1 DEF Handler
    <2>3. PICK y : /\ y = IF h.status # "stopped" THEN close_utp(x) ELSE x
                   /\ h' = [y EXCEPT !.writable = FALSE, !.eof_seen = TRUE]
      BY <1>5, <2>1 DEF UtpEof
    <2>4. y \in Handler /\ y.status \in {h.status, "closing"}
          /\ (h.status = "stopped" => y.status = h.status)
      BY <2>2, <2>3, CloseUtp
    <2>5. h'.status = y.status
      BY <2>3, <2>4 DEF Handler
    <2> QED
      BY <1>5, <2>4, <2>5
  <1>6. ASSUME NEW e, NEW s, DoError(e, s)
        PROVE  \/ h'.status = h.status
               \/ h.status = "connect_pending" /\ h'.status = "connect_failed"
               \/ h.status = "connected" /\ h'.status = "closing"
    BY <1>1, <1>6, CloseUtp DEF DoError, Handler
  <1>7. CASE UtpReset \/ UtpTimeout \/ SendError \/ UtpDelayOver
    BY <1>6, <1>7 DEF UtpReset, UtpTimeout, SendError, UtpDelayOver
  <1>8. CASE UtpFinAcked
    BY <1>8 DEF UtpFinAcked
  <1>9. CASE UtpDestroying
    <2>1. PICK x : x = [h EXCEPT !.selected = FALSE]
      OBVIOUS
    <2>2. x \in Handler /\ x.status = h.status
      BY <1>1, <2>1 DEF Handler
    <2>3. \/ /\ h.status = "closing"
             /\ \/ h' = [x EXCEPT !.caller = Nil, !.close_pending = FALSE, !.writable = FALSE,
                                  !.status = "destroying", !.eof_seen = FALSE]
                \/ h' = [x EXCEPT !.writable = FALSE, !.status = "destroying",
                                  !.eof_seen = FALSE]
          \/ h' = [x EXCEPT !.deleted = TRUE]
          \/ h' = x
      BY <1>9, <2>1 DEF UtpDestroying
    <2> QED
      BY <1>9, <2>2, <2>3 DEF Handler
  <1> QED
    BY <1>2, <1>3, <1>4, <1>5, <1>7, <1>8, <1>9 DEF Main

\* The port thread changes the status when close takes utp_mutex, when stop
\* hands the handler over to DESTROYING, and when connect_validate has seen a
\* failure.
LEMMA StatusPort ==
    ASSUME ConnInv, PortThread
    PROVE  \/ h'.status = h.status
           \/ CloseLocked /\ h'.status = "closing"
           \/ StopMark /\ h'.status = "stopped"
           \/ ConnectAnswer /\ pt.seen = "connect_failed" /\ h'.status = "not_connected"
  <1>1. h \in Handler /\ h' \in Handler
    <2>1. ConnInv'
      BY NextConnInv DEF Next
    <2> QED
      BY <2>1 DEF ConnInv, TypeOK
  <1>2. CASE OutputvWrite \/ OutputvNote \/ OutputvWait \/ RecvDrained \/ RecvNote
    BY <1>1, <1>2, ZenonT(60)
       DEF OutputvWrite, OutputvNote, OutputvWait, RecvDrained, RecvNote, Handler
  <1>8. CASE RecvEmit
    <2>1. h' = emit_read_buffer(h, pt.n) /\ pt.n \in Nat
      BY <1>8 DEF RecvEmit, ConnInv, TypeOK, PortStates
    <2> QED
      BY <1>1, <2>1, EmitReadBuffer DEF SameCore
  <1>3. CASE SetoptsAssign \/ SetoptsBuf
    BY <1>1, <1>3 DEF SetoptsAssign, SetoptsBuf, Handler
  <1>4. CASE SetoptsEmit
    <2>1. h' = h \/ h' = emit_read_buffer(h, 0)
      BY <1>4 DEF SetoptsEmit
    <2> QED
      BY <1>1, <2>1, EmitReadBuffer DEF SameCore
  <1>5. CASE CloseLocked
    BY <1>5, ClosingForFields, CloseUtp DEF CloseLocked
  <1>6. CASE StopTest \/ StopMark \/ StopSelected
    BY <1>1, <1>6 DEF StopTest, StopMark, StopSelected, Handler
  <1>7. CASE ConnectAnswer
    BY <1>1, <1>7 DEF ConnectAnswer, Handler
  <1> QED
    BY <1>2, <1>3, <1>4, <1>5, <1>6, <1>7, <1>8 DEF PortThread

\* What a user does outside the port changes the status only by close_utp,
\* at the beginning of stop.
LEMMA StatusProcess ==
    ASSUME ConnInv, NEW p \in Procs,
           Connecting \/ OwnerExit \/ Start(p) \/ Continue(p) \/ TimesOut(p)
    PROVE  \/ h'.status = h.status
           \/ up /\ pt.pc = "idle" /\ h' = close_utp(h)
  <1>1. h \in Handler
    BY DEF ConnInv, TypeOK
  <1>2. CASE Connecting \/ OwnerExit
    BY <1>2 DEF Connecting, ConnectValidate, ConnectReplied, ConnectClose, OwnerExit,
       StopBegin, Linger
  <1>3. ASSUME NEW n, Outputv(p, n) PROVE h'.status = h.status
    BY <1>1, <1>3 DEF Outputv, Handler
  <1>4. CASE Start(p)
    BY <1>3, <1>4 DEF Start, Send, Recv, Setopts, Close, PortGone
  <1>5. CASE Continue(p) \/ TimesOut(p)
    <2>1. CASE Resend(p) \/ PortClose(p)
      BY <1>3, <2>1 DEF Resend, PortClose, StopBegin, Linger
    <2>2. CASE CancelSend(p)
      BY <1>1, <2>2 DEF CancelSend, Handler
    <2>3. CASE CancelRecv(p)
      BY <1>1, <2>3, ResetWaitingRecv DEF CancelRecv, SameCore
    <2> QED
      BY <1>5, <2>1, <2>2, <2>3 DEF Continue, SendReplied, TakeRetry,
         RecvReplied, CloseReplied, TimesOut, SendTimesOut, RecvTimesOut
  <1> QED
    BY <1>2, <1>4, <1>5

\* Until libutp reports CONNECT, connect/3 is all that goes on, and what
\* leaves that phase does not come back to it.
LEMMA EarlyNext ==
    ASSUME ConnInv, ConnInv', Procs = {Owner}, InCall, InCall', EarlyInv, Next PROVE EarlyInv'
  <1>1. h \in Handler /\ h' \in Handler /\ pc \in [Procs -> ProcPcs] /\ pt \in PortStates
    BY DEF ConnInv, TypeOK
  <1>2. CASE sock = "none"
    <2>1. pc[Owner] = "idle" /\ pt.pc = "idle" /\ up /\ h.rq = 0
          /\ \A m \in refs[Owner] : m[2] = "error"
      BY <1>2 DEF EarlyInv, Early, InCall
    <2>2. CASE ConnectStart
      <3>1. /\ sock' = "SYN_SENT" /\ UNCHANGED <<handed, up, pt, refs>> /\ ~handed
            /\ Becomes(Owner, "validate")
        BY <1>2, <2>2 DEF ConnectStart, EarlyInv, Early
      <3>2. h'.status \in {"connect_pending", "connect_failed"} /\ h'.rq = h.rq
        <4>1. PICK st \in {"connect_pending", "connect_failed"} :
                h' = [h EXCEPT !.status = st, !.utp = TRUE, !.selected = TRUE]
          BY <2>2 DEF ConnectStart
        <4> QED
          BY <1>1, <4>1 DEF Handler
      <3>3. pc'[Owner] = "validate"
        BY <1>1, <3>1 DEF Becomes
      <3> QED
        BY <2>1, <3>1, <3>2, <3>3 DEF EarlyInv, Early
    <2>3. CASE Incoming
      BY <2>3 DEF Incoming, EarlyInv, Early
    <2> QED
      BY <1>2, <2>2, <2>3, EarlySteps
  <1>3. CASE sock = "SYN_SENT"
    <2>1. /\ ~handed /\ up /\ h.rq = 0
          /\ h.status \in {"not_connected", "connect_pending", "connect_failed"}
          /\ pt.pc \in {"idle", "validate", "close_lock"}
          /\ pt.pc = "validate" => pt.seen # "connected"
          /\ pc[Owner] \in {"idle", "port", "validate", "connect_wait", "connect_close",
                          "port_close"}
          /\ \A m \in refs[Owner] : m[2] = "error"
      BY <1>3 DEF EarlyInv, Early
    <2>2. ASSUME NEW e, DoError(e, sock), UNCHANGED <<procVars, up, pt>> PROVE EarlyInv'
      <3>1. sock' = "SYN_SENT" /\ h'.status \in {h.status, "connect_failed"} /\ h'.rq = 0
        BY <1>1, <1>3, <2>1, <2>2 DEF DoError, Handler
      <3>2. \A m \in refs'[Owner] : m[2] = "error"
        <4>1. refs' = refs
              \/ refs' = [refs EXCEPT ![Owner] = @ \cup {<<h.caller_ref, "error">>}]
          BY <2>1, <2>2 DEF DoError, TellConnector, SendRef
        <4> QED
          BY <2>1, <4>1 DEF InCall
      <3> QED
        BY <2>1, <2>2, <3>1, <3>2 DEF EarlyInv, Early, procVars
    <2>3. CASE Main
      <3>1. CASE SendError
        BY <2>2, <3>1 DEF SendError
      <3>2. ASSUME NEW e, NEW s, DoError(e, s), s \notin Early PROVE sock' \notin Early
        BY <3>2 DEF DoError, SockAfter, UTP_Close, Early
      <3>3. CASE UtpReset \/ UtpTimeout
        <4>1. sock' \notin Early
          BY <1>3, <3>2, <3>3 DEF UtpReset, UtpTimeout, Early
        <4>2. h'.status # "connect_pending"
          <5>1. \E e, s : DoError(e, s)
            BY <3>3 DEF UtpReset, UtpTimeout
          <5> QED
            BY <1>1, <2>1, <5>1, CloseUtp DEF DoError, Handler
        <4> QED
          BY <4>1, <4>2 DEF EarlyInv, Early
      <3>4. CASE UtpConnect
        BY <3>4 DEF UtpConnect, EarlyInv, Early
      <3>5. SendError \/ UtpReset \/ UtpTimeout \/ UtpConnect
        BY <1>3, <2>3 DEF Main, UtpWritable, UtpRead, ReadGone, UtpEof, UtpDelayOver, UtpFinAcked,
           UtpDestroying, Incoming
      <3> QED
        BY <3>1, <3>3, <3>4, <3>5
    <2>4. CASE ConnectAnswer
      <3>1. /\ sock' = sock /\ up' = up /\ refs' = refs /\ pt' = Idle
            /\ pt.pc = "validate" /\ pt.seen # "connected"
        BY <2>1, <2>4 DEF ConnectAnswer, At, sockVars
      <3>2. handed' = handed
        BY <2>4, <3>1 DEF ConnectAnswer
      <3>3. pc'[Owner] \in {"connect_wait", "port_close"}
        BY <1>1, <2>4, <3>1 DEF ConnectAnswer, Becomes
      <3>4. h'.status \in {h.status, "not_connected"} /\ h'.rq = h.rq
        BY <1>1, <2>4, <3>1 DEF ConnectAnswer, Handler
      <3> QED
        BY <1>3, <2>1, <3>1, <3>2, <3>3, <3>4, IdleType DEF EarlyInv, Early
    <2>5. CASE CloseLocked
      <3>1. ClosingFor \in Handler /\ (ClosingFor.utp <=> h.utp) /\ ClosingFor.wq = h.wq
            /\ ClosingFor.status = "closing"
        BY ClosingForFields
      <3>2. sock' = "DESTROY_DELAY"
        BY <1>3, <2>5, <3>1, ClosesEarly DEF CloseLocked
      <3>3. h'.status = "closing"
        BY <2>5, <3>1, CloseUtp DEF CloseLocked
      <3> QED
        BY <3>2, <3>3 DEF EarlyInv, Early
    <2>6. CASE ConnectValidate
      <3>1. UNCHANGED <<h, sock, handed, up, refs>> /\ pt'.pc = "validate"
            /\ pt'.seen = h.status
        BY <2>6 DEF ConnectValidate, sockVars, PortCall
      <3>2. pc'[Owner] = "port"
        BY <1>1, <2>6 DEF ConnectValidate, Becomes
      <3> QED
        BY <1>3, <2>1, <3>1, <3>2 DEF EarlyInv, Early
    <2>7. CASE ConnectReplied
      <3>1. UNCHANGED <<h, sock, up, pt>>
            /\ refs' = [refs EXCEPT ![Owner] = {m \in @ : m[1] # Ref(Owner)}]
        BY <2>7 DEF ConnectReplied, sockVars, TakeRef
      <3>2. <<Ref(Owner), "ok">> \notin refs[Owner]
        BY <2>1
      <3>3. handed' = handed /\ Becomes(Owner, "connect_close")
        BY <2>7, <3>2 DEF ConnectReplied
      <3>4. pc'[Owner] = "connect_close" /\ \A m \in refs'[Owner] : m[2] = "error"
        BY <1>1, <2>1, <3>1, <3>3 DEF Becomes, InCall
      <3> QED
        BY <1>3, <2>1, <3>1, <3>3, <3>4 DEF EarlyInv, Early
    <2>8. CASE ConnectClose
      <3>1. UNCHANGED <<h, sock, handed, up, refs>> /\ pt'.pc \in {"idle", "close_lock"}
        BY <2>8 DEF ConnectClose, sockVars, CloseTest, PortCall
      <3>2. pc'[Owner] \in {"port", "port_close"}
        BY <1>1, <2>8 DEF ConnectClose, CloseTest, Becomes
      <3> QED
        BY <1>3, <2>1, <3>1, <3>2 DEF EarlyInv, Early
    <2>9. CASE OwnerExit \/ PortClose(Owner)
      <3>0. ~Linger
        BY <2>1 DEF Linger
      <3>1. sock' = SockAfter(h, sock) /\ h' = close_utp(h)
        BY <2>1, <2>9, <3>0 DEF OwnerExit, PortClose, StopBegin
      <3>2. sock' = "DESTROY_DELAY"
        BY <1>1, <1>3, <2>1, <3>1, ClosesEarly
      <3>3. Closes(h)
        BY <1>3, <3>1, <3>2 DEF SockAfter
      <3>4. h'.status = "closing"
        BY <1>1, <3>1, <3>3, CloseUtp
      <3> QED
        BY <3>2, <3>4 DEF EarlyInv, Early
    <2> QED
      BY <1>3, <2>3, <2>4, <2>5, <2>6, <2>7, <2>8, <2>9, EarlySteps
  <1>4. CASE sock \notin Early
    <2>1. h.status # "connect_pending" /\ ~ConnectStart
      BY <1>4 DEF EarlyInv, Early, ConnectStart
    <2>2. \/ Main \/ PortThread
          \/ \E p \in Procs : Connecting \/ OwnerExit \/ Start(p) \/ Continue(p) \/ TimesOut(p)
      BY <2>1 DEF Next
    <2>3. h'.status # "connect_pending"
      BY <1>1, <2>1, <2>2, StatusMain, StatusPort, StatusProcess, CloseUtp
    <2>4. sock' \notin Early
      BY <1>4, EarlySteps
    <2> QED
      BY <2>3, <2>4 DEF EarlyInv, Early
  <1> QED
    BY <1>2, <1>3, <1>4 DEF Early

MailInv == CloserInv /\ ReaderInv /\ ConnectorInv

\* A step that sends nothing and leaves the caller alone keeps the account of
\* who waits for what.
LEMMA MailFrame ==
    ASSUME MailInv, SameCaller(h', h), UNCHANGED <<refs, calls, lost>>,
           pc'[Owner] = pc[Owner], pt' = pt,
           h'.status = "connect_pending" => h.status = "connect_pending"
    PROVE  MailInv'
  <1>1. Ref(Owner)' = Ref(Owner)
    BY DEF Ref
  <1> QED
    BY <1>1 DEF MailInv, CloserInv, ReaderInv, ConnectorInv, SameCaller, Registered

\* One message is sent to a process waiting in connect.
LEMMA MailTold ==
    ASSUME ConnInv, Procs = {Owner}, InCall, MailInv, SameCaller(h', h),
           h.status = "connect_pending", h'.status # "connect_pending",
           NEW v \in {"ok", "error"}, TellConnector(v), UNCHANGED <<procVars, up, pt, lost>>
    PROVE  MailInv'
  <1>1. Ref(Owner)' = Ref(Owner) /\ UNCHANGED <<calls, pc>>
    BY DEF Ref, procVars
  <1>2. CASE refs' = refs
    BY <1>1, <1>2, MailFrame
  <1>3. CASE refs' # refs
    <2>1. h.caller_ref # NoRef /\ up
          /\ refs' = [refs EXCEPT ![Owner] = @ \cup {<<h.caller_ref, v>>}]
      BY <1>3 DEF TellConnector, SendRef
    <2>2. pc[Owner] = "connect_wait" /\ h.caller_ref = Ref(Owner)
      BY <2>1 DEF MailInv, ConnectorInv, InCall
    <2>3. refs'[Owner] = refs[Owner] \cup {<<Ref(Owner), v>>}
      BY <2>1, <2>2 DEF InCall
    <2>4. ~h'.close_pending /\ ~h'.receiver_waiting /\ pt'.pc # "rb_drained" /\ ~lost'
      BY <2>2 DEF MailInv, CloserInv, ReaderInv, SameCaller, InCall, Receiving
    <2> QED
      BY <1>1, <2>2, <2>3, <2>4 DEF MailInv, CloserInv, ReaderInv, ConnectorInv, Receiving
  <1> QED
    BY <1>2, <1>3

\* do_error tells the process waiting in connect, and no other.
LEMMA MailDoError ==
    ASSUME ConnInv, Procs = {Owner}, InCall, MailInv, NEW e, NEW s, DoError(e, s),
           UNCHANGED <<procVars, up, pt, lost>>
    PROVE  MailInv'
  <1>1. h \in Handler
    BY DEF ConnInv, TypeOK
  <1>2. CASE /\ h.status = "connect_pending"
             /\ h' = [h EXCEPT !.status = "connect_failed"]
             /\ TellConnector("error")
    <2>1. SameCaller(h', h) /\ h'.status = "connect_failed"
      BY <1>1, <1>2 DEF Handler, SameCaller
    <2> QED
      BY <1>2, <2>1, MailTold
  <1>3. CASE h' \in {h, close_utp(h)} /\ refs' = refs
    <2>1. SameCaller(h', h) /\ h'.status \in {h.status, "closing"}
      BY <1>1, <1>3, CloseUtpUser, CloseUtp DEF SameCaller
    <2> QED
      BY <1>3, <2>1, MailFrame DEF procVars
  <1> QED
    BY <1>2, <1>3 DEF DoError

\* do_read sends data to the process registered for it, which is waiting for
\* just that message, and forgets the registration.
LEMMA MailRead ==
    ASSUME ConnInv, Procs = {Owner}, InCall, MailInv, UtpRead PROVE MailInv'
  <1>1. h \in Handler /\ UNCHANGED <<pc, calls, up, pt>> /\ h.rq \in Nat
        /\ h.recv_len \in Nat
    BY DEF UtpRead, procVars, ConnInv, TypeOK, Handler
  <1>2. PICK x : x = [h EXCEPT !.rq = h.rq + 1]
    OBVIOUS
  <1>3. x \in Handler /\ SameCaller(x, h) /\ x.rq = h.rq + 1 /\ x.status = h.status
        /\ ~EmitsClosed(x)
    BY <1>1, <1>2 DEF Handler, SameCaller, EmitsClosed
  <1>4. PICK len : len = IF h.active = "false" THEN h.recv_len ELSE 0
    OBVIOUS
  <1>5. PICK y : y = emit_read_buffer(x, len)
    OBVIOUS
  <1>6. y \in Handler /\ SameCaller(y, h) /\ y.status = h.status
    BY <1>1, <1>3, <1>4, <1>5, EmitReadBuffer, EmitUser DEF SameCaller, SameCore
  <1>7. Ref(Owner)' = Ref(Owner)
    BY <1>1 DEF Ref
  <1>8. \/ h' \in {h, x, y} /\ UNCHANGED <<refs, lost>>
        \/ /\ h.receiver_waiting /\ h' = reset_waiting_recv(y)
           /\ SendRef(h.caller, h.caller_ref, "data")
           /\ lost' = (lost \/ h.caller \notin Procs)
        \/ ReadGone
    BY <1>2, <1>4, <1>5 DEF UtpRead
  <1>11. CASE ReadGone
    <2>1. UNCHANGED <<refs, lost>> /\ pc[Owner] \in {"port", "idle", "dead"}
      BY <1>11 DEF ReadGone, Gone, ConnInv, StopOrder, InCall
    <2>2. \/ h' = h \/ h' = [h EXCEPT !.active = "false"]
          \/ h' = reset_waiting_recv(h) /\ pc[Owner] = "dead"
      <3>1. h.receiver_waiting => pc[Owner] = "dead"
        BY <2>1 DEF MailInv, ReaderInv, Receiving
      <3> QED
        BY <1>11, <3>1 DEF ReadGone
    <2>3. CASE h' = h \/ h' = [h EXCEPT !.active = "false"]
      <3>1. SameCaller(h', h) /\ h'.status = h.status
        BY <1>1, <2>3 DEF Handler, SameCaller
      <3> QED
        BY <1>1, <2>1, <3>1, MailFrame
    <2>4. CASE h' = reset_waiting_recv(h) /\ pc[Owner] = "dead"
      <3>1. /\ ~h'.receiver_waiting /\ h'.caller_ref = NoRef /\ ~lost
            /\ (h'.close_pending <=> h.close_pending) /\ pt.pc # "rb_drained"
        BY <1>1, <2>4 DEF reset_waiting_recv, Handler, MailInv, ReaderInv, InCall, ConnInv,
           StopOrder, Stopping
      <3> QED
        BY <1>1, <1>7, <2>1, <2>4, <3>1
           DEF MailInv, CloserInv, ReaderInv, ConnectorInv, Receiving
    <2> QED
      BY <2>2, <2>3, <2>4
  <1>9. CASE h' \in {h, x, y} /\ UNCHANGED <<refs, lost>>
    BY <1>1, <1>3, <1>6, <1>9, MailFrame DEF SameCaller
  <1>12. CASE /\ ~up /\ h.receiver_waiting /\ h' = reset_waiting_recv(y)
              /\ SendRef(h.caller, h.caller_ref, "data")
              /\ lost' = (lost \/ h.caller \notin Procs)
    <2>1. pc[Owner] = "dead" /\ refs' = refs /\ h.caller = Owner /\ ~lost
      BY <1>12 DEF SendRef, MailInv, ReaderInv, Receiving, InCall
    <2>2. ~h'.receiver_waiting /\ h'.caller_ref = NoRef /\ pt.pc # "rb_drained" /\ ~lost'
          /\ (h'.close_pending <=> h.close_pending)
      BY <1>6, <1>12, <2>1 DEF reset_waiting_recv, Handler, SameCaller, InCall, ConnInv,
         StopOrder, Stopping
    <2> QED
      BY <1>1, <1>7, <2>1, <2>2 DEF MailInv, CloserInv, ReaderInv, ConnectorInv, Receiving
  <1>10. CASE /\ up /\ h.receiver_waiting /\ h' = reset_waiting_recv(y)
              /\ SendRef(h.caller, h.caller_ref, "data")
              /\ lost' = (lost \/ h.caller \notin Procs)
    <2>1. pc[Owner] \in Receiving /\ Registered /\ ~h.close_pending
          /\ pt.pc # "rb_drained" /\ ~lost
      BY <1>10 DEF MailInv, ReaderInv, CloserInv, InCall, Receiving
    <2>2. refs' = [refs EXCEPT ![Owner] = @ \cup {<<Ref(Owner), "data">>}]
      BY <1>10, <2>1 DEF SendRef, Registered
    <2>3. refs'[Owner] = {<<Ref(Owner), "data">>}
      BY <2>1, <2>2 DEF InCall, Registered
    <2>4. /\ ~h'.receiver_waiting /\ h'.caller_ref = NoRef /\ ~h'.close_pending
      BY <1>6, <1>10, <2>1 DEF reset_waiting_recv, Handler, SameCaller
    <2>5. ~lost'
      BY <1>10, <2>1 DEF Registered
    <2> QED
      BY <1>1, <1>7, <2>1, <2>3, <2>4, <2>5
         DEF MailInv, CloserInv, ReaderInv, ConnectorInv, Receiving
  <1> QED
    BY <1>8, <1>9, <1>10, <1>11, <1>12

\* Every callback keeps the account of who waits for what: DESTROYING answers
\* the pending close, CONNECT and do_error the pending connect, do_read the
\* pending recv.
LEMMA MailMain ==
    ASSUME ConnInv, Procs = {Owner}, InCall, EarlyInv, MailInv, Main PROVE MailInv'
  <1>1. h \in Handler
    BY DEF ConnInv, TypeOK
  <1>2. CASE UtpConnect
    <2>1. SameCaller(h', h) /\ h'.status = "connected"
          /\ UNCHANGED <<procVars, up, pt, lost>>
      BY <1>1, <1>2 DEF UtpConnect, Handler, SameCaller
    <2>2. CASE h.status = "connect_pending"
      BY <1>2, <2>1, <2>2, MailTold DEF UtpConnect
    <2>3. CASE h.status # "connect_pending"
      BY <1>2, <2>1, <2>3, MailFrame DEF UtpConnect, procVars
    <2> QED
      BY <2>2, <2>3
  <1>3. CASE UtpWritable
    <2>1. SameCaller(h', h) /\ h'.status \in {h.status, "closing"}
      BY <1>3, WritableEffect
    <2> QED
      BY <1>3, <2>1, MailFrame DEF UtpWritable, procVars
  <1>4. CASE UtpRead
    BY <1>4, MailRead
  <1>5. CASE UtpEof
    <2>1. PICK x : x = [h EXCEPT !.wq = 0]
      OBVIOUS
    <2>2. x \in Handler /\ SameCaller(x, h) /\ x.status = h.status
      BY <1>1, <2>1 DEF Handler, SameCaller
    <2>3. PICK y \in {x, close_utp(x)} : h' = [y EXCEPT !.writable = FALSE, !.eof_seen = TRUE]
      BY <1>5, <2>1 DEF UtpEof
    <2>4. y \in Handler /\ SameCaller(y, h) /\ y.status \in {h.status, "closing"}
      BY <2>2, CloseUtp, CloseUtpUser DEF SameCaller
    <2>5. SameCaller(h', h) /\ h'.status = y.status
      BY <2>3, <2>4 DEF Handler, SameCaller
    <2> QED
      BY <1>5, <2>4, <2>5, MailFrame DEF UtpEof, procVars
  <1>6. CASE UtpReset \/ UtpTimeout \/ SendError
    BY <1>6, MailDoError DEF UtpReset, UtpTimeout, SendError
  <1>7. CASE UtpDelayOver
    <2>1. SameCaller(h, h)
      BY DEF SameCaller
    <2>2. CASE UNCHANGED <<h, refs>>
      BY <1>7, <2>1, <2>2, MailFrame DEF UtpDelayOver, procVars
    <2>3. CASE \E s : DoError("ECONNRESET", s)
      BY <1>7, <2>3, MailDoError DEF UtpDelayOver
    <2> QED
      BY <1>7, <2>2, <2>3 DEF UtpDelayOver
  <1>8. CASE UtpFinAcked
    <2>1. SameCaller(h, h)
      BY DEF SameCaller
    <2> QED
      BY <1>8, <2>1, MailFrame DEF UtpFinAcked, procVars
  <1>9. CASE UtpDestroying
    <2>1. UNCHANGED <<pc, calls, up, pt, lost>> /\ Ref(Owner)' = Ref(Owner)
      BY <1>9 DEF UtpDestroying, procVars, Ref
    <2>2. PICK x : x = [h EXCEPT !.selected = FALSE]
      OBVIOUS
    <2>3. x \in Handler /\ SameCaller(x, h) /\ x.status = h.status
      BY <1>1, <2>2 DEF Handler, SameCaller
    <2>4. CASE /\ h.close_pending /\ h.caller_ref # NoRef
               /\ SendRef(IF h.caller = Nil THEN Owner ELSE h.caller, h.caller_ref, "ok")
               /\ h' = [x EXCEPT !.caller = Nil, !.close_pending = FALSE,
                                !.writable = FALSE, !.status = "destroying",
                                !.eof_seen = FALSE]
      <3>1. ~h'.close_pending /\ (h'.receiver_waiting <=> h.receiver_waiting)
            /\ h'.status = "destroying"
        BY <2>3, <2>4 DEF Handler, SameCaller
      <3>2. CASE pc[Owner] = "dead"
        <4>1. refs' = refs
          BY <2>4, <3>2 DEF SendRef, InCall
        <4>2. ~h'.receiver_waiting
          BY <2>4, <3>1 DEF MailInv, ReaderInv
        <4> QED
          BY <2>1, <3>1, <3>2, <4>1, <4>2 DEF MailInv, CloserInv, ReaderInv, ConnectorInv,
             Receiving
      <3>3. CASE pc[Owner] # "dead"
        <4>1. pc[Owner] = "close_wait" /\ Registered
          BY <2>4, <3>3 DEF MailInv, CloserInv
        <4>2. up
          BY <4>1 DEF InCall
        <4>3. refs' = [refs EXCEPT ![Owner] = @ \cup {<<Ref(Owner), "ok">>}]
          BY <2>4, <4>1, <4>2 DEF SendRef, Registered
        <4>4. refs'[Owner] = {<<Ref(Owner), "ok">>}
          BY <4>1, <4>3 DEF InCall, Registered
        <4>5. ~h.receiver_waiting
          BY <4>1 DEF MailInv, ReaderInv, Receiving
        <4> QED
          BY <2>1, <3>1, <4>1, <4>4, <4>5 DEF MailInv, CloserInv, ReaderInv, ConnectorInv,
             Receiving, InCall
      <3> QED
        BY <3>2, <3>3
    <2>5. CASE /\ refs' = refs
               /\ \/ h' = [x EXCEPT !.writable = FALSE, !.status = "destroying", !.eof_seen = FALSE]
                  \/ h' = [x EXCEPT !.deleted = TRUE]
                  \/ h' = x
      <3>1. SameCaller(h', h) /\ h'.status \in {h.status, "destroying"}
        BY <2>3, <2>5, ZenonT(60) DEF Handler, SameCaller
      <3> QED
        BY <2>1, <2>5, <3>1, MailFrame
    <2> QED
      BY <1>9, <2>2, <2>4, <2>5 DEF UtpDestroying
  <1>10. CASE Incoming
    <2>1. SameCaller(h', h) /\ h'.status = "connected"
      BY <1>1, <1>10 DEF Incoming, Handler, SameCaller
    <2> QED
      BY <1>10, <2>1, MailFrame DEF Incoming
  <1> QED
    BY <1>2, <1>3, <1>4, <1>5, <1>6, <1>7, <1>8, <1>9, <1>10 DEF Main

\* Nobody waits for a message with a reference, and there is none.
LEMMA MailQuiet ==
    ASSUME ~h'.close_pending, ~h'.receiver_waiting, ~lost', refs'[Owner] = {},
           pc'[Owner] \notin Receiving \cup {"close_wait"}, pt'.pc # "rb_drained",
           h'.status = "connect_pending" => h'.caller_ref = NoRef
    PROVE  MailInv'
  BY DEF MailInv, CloserInv, ReaderInv, ConnectorInv, Receiving

\* recv sends the user its data, if there is enough, and otherwise nothing with
\* a reference.
LEMMA MailRecvEmit ==
    ASSUME ConnInv, Procs = {Owner}, InCall, EarlyInv, MailInv, RecvEmit
    PROVE  MailInv'
  <1>1. /\ h \in Handler /\ pt \in PortStates /\ pt.by = Owner /\ pt.n \in Nat
        /\ pt.pc = "recv_emit" /\ pc[Owner] = "port" /\ up /\ UNCHANGED <<calls, lost>>
        /\ pc \in [Procs -> ProcPcs]
    BY DEF ConnInv, TypeOK, PortStates, RecvEmit, At, InCall, StopOrder, Stopping
  <1>2. /\ ~h.close_pending /\ ~h.receiver_waiting /\ ~lost /\ refs[Owner] = {}
        /\ h.status # "connect_pending"
    BY <1>1 DEF MailInv, CloserInv, ReaderInv, ConnectorInv, Receiving, EarlyInv, Early
  <1>3. Ref(Owner)' = Ref(Owner) /\ ~EmitsClosed(h) /\ h' = emit_read_buffer(h, pt.n)
    BY <1>1, <1>2 DEF Ref, EmitsClosed, RecvEmit
  <1>4. /\ ~h'.close_pending /\ ~h'.receiver_waiting /\ h'.status # "connect_pending"
    BY <1>1, <1>2, <1>3, EmitReadBuffer, EmitUser, SMTT(30) DEF SameCaller, SameCore
  <1>5. CASE ~EmitsData(h, pt.n)
    <2>1. refs' = refs /\ pc' = pc /\ pt' = [pt EXCEPT !.pc = "recv_lock"]
      BY <1>5 DEF RecvEmit, Goto
    <2>2. pt'.pc = "recv_lock"
      BY <1>1, <2>1 DEF PortStates
    <2> QED
      BY <1>1, <1>2, <1>4, <2>1, <2>2, MailQuiet DEF Receiving
  <1>6. CASE EmitsData(h, pt.n)
    <2>1. refs' = [refs EXCEPT ![Owner] = @ \cup {<<Ref(Owner), "data">>}]
      BY <1>1, <1>6 DEF RecvEmit, SendRef
    <2>2. refs'[Owner] = {<<Ref(Owner)', "data">>}
      BY <1>2, <1>3, <2>1 DEF InCall
    <2>3. \/ pc' = pc /\ pt' = [pt EXCEPT !.pc = "rb_drained"]
          \/ pc' = [pc EXCEPT ![Owner] = "recv_wait"] /\ pt' = Idle
      BY <1>1, <1>6 DEF RecvEmit, Becomes, Goto
    <2>4. \/ pc'[Owner] = "port" /\ pt'.pc = "rb_drained"
          \/ pc'[Owner] = "recv_wait" /\ pt'.pc = "idle"
      BY <1>1, <2>3, IdleType DEF PortStates
    <2> QED
      BY <1>1, <1>2, <1>4, <2>2, <2>4
         DEF MailInv, CloserInv, ReaderInv, ConnectorInv, Receiving
  <1> QED
    BY <1>5, <1>6

\* Every other step of a port call does: close, recv and connect_validate
\* register the user they work for, who has no message yet.
LEMMA MailPort ==
    ASSUME ConnInv, ConnInv', Procs = {Owner}, InCall, EarlyInv, MailInv, PortThread,
           ~RecvEmit
    PROVE  MailInv'
  <1>1. /\ h \in Handler /\ h' \in Handler /\ pt \in PortStates /\ pt.by = Owner
        /\ pc \in [Procs -> ProcPcs] /\ UNCHANGED <<calls, refs, lost>>
        /\ pt.pc # "idle" /\ pc[Owner] \in {"port", "dead"}
    BY DEF ConnInv, TypeOK, PortStates, PortThread, OutputvWrite, OutputvNote, OutputvWait,
       RecvDrained, RecvNote, SetoptsAssign, SetoptsEmit, SetoptsBuf, CloseLocked, StopTest,
       StopMark, StopSelected, ConnectAnswer, At, InCall
  <1>2. Ref(Owner)' = Ref(Owner) /\ Ref(Owner) # NoRef
    BY <1>1 DEF Ref, NoRef
  <1>3. pt.pc \notin Stopping => pc[Owner] = "port"
    BY <1>1 DEF InCall, ConnInv, StopOrder
  <1>4. pc[Owner] = "port" =>
          /\ ~h.close_pending /\ ~h.receiver_waiting /\ ~lost
          /\ pt.pc # "rb_drained" => refs[Owner] = {}
          /\ h.status = "connect_pending" => h.caller_ref = NoRef
    BY DEF MailInv, CloserInv, ReaderInv, ConnectorInv, Receiving
  <1>5. h.status = "connect_pending" => pt.pc \in {"validate", "close_lock"}
    BY <1>1 DEF EarlyInv, Early
  <1>6. CASE OutputvWrite \/ OutputvNote \/ OutputvWait
    <2>1. pt.pc \notin Stopping \cup {"rb_drained", "validate", "close_lock"}
      BY <1>6 DEF OutputvWrite, OutputvNote, OutputvWait, At, Stopping
    <2>2. /\ (h'.close_pending <=> h.close_pending)
          /\ (h'.receiver_waiting <=> h.receiver_waiting)
      BY <1>1, <1>6, ZenonT(60) DEF OutputvWrite, OutputvNote, OutputvWait, Handler
    <2>3. h'.status = h.status
      BY <1>1, <1>6, ZenonT(60) DEF OutputvWrite, OutputvNote, OutputvWait, Handler
    <2>4. pc'[Owner] \in {"port", "send_reply"}
      BY <1>1, <1>3, <1>6, <2>1 DEF OutputvWrite, OutputvNote, OutputvWait, Becomes
    <2>5. pt'.pc # "rb_drained"
      BY <1>1, <1>6, <2>1, IdleType DEF OutputvWrite, OutputvNote, OutputvWait, Goto,
         PortStates
    <2> QED
      BY <1>1, <1>3, <1>4, <1>5, <2>1, <2>2, <2>3, <2>4, <2>5, MailQuiet DEF Receiving
  <1>7. CASE RecvDrained
    <2>1. pt.pc = "rb_drained" /\ pc[Owner] = "port" /\ h' = h
      BY <1>3, <1>7 DEF RecvDrained, At, Stopping
    <2>2. refs'[Owner] = {<<Ref(Owner), "data">>}
      BY <1>1, <2>1 DEF MailInv, ReaderInv
    <2>3. \/ pc' = pc /\ pt' = pt
          \/ pc'[Owner] = "recv_wait" /\ pt'.pc = "idle"
      BY <1>1, <1>7, IdleType DEF RecvDrained, Becomes
    <2> QED
      BY <1>1, <1>2, <1>4, <1>5, <2>1, <2>2, <2>3
         DEF MailInv, CloserInv, ReaderInv, ConnectorInv, Receiving
  <1>8. CASE RecvNote
    <2>1. pt.pc = "recv_lock" /\ pc[Owner] = "port" /\ pt' = Idle
      BY <1>3, <1>8 DEF RecvNote, At, Stopping
    <2>2. /\ h'.caller_ref = Ref(Owner) /\ h'.caller = Owner /\ h'.receiver_waiting
          /\ h'.status = h.status /\ (h'.close_pending <=> h.close_pending)
      BY <1>1, <1>8 DEF RecvNote, Handler
    <2>3. pc'[Owner] = "recv_wait"
      BY <1>1, <1>8 DEF RecvNote, Becomes
    <2> QED
      BY <1>1, <1>2, <1>4, <1>5, <2>1, <2>2, <2>3, IdleType
         DEF MailInv, CloserInv, ReaderInv, ConnectorInv, Receiving, Registered
  <1>9. CASE SetoptsAssign \/ SetoptsEmit \/ SetoptsBuf
    <2>1. pt.pc \notin Stopping \cup {"rb_drained", "validate", "close_lock"}
      BY <1>9 DEF SetoptsAssign, SetoptsEmit, SetoptsBuf, At, Stopping
    <2>2. SameCaller(h', h)
      <3>1. CASE SetoptsAssign
        BY <1>1, <3>1 DEF SetoptsAssign, Handler, SameCaller
      <3>2. CASE SetoptsEmit
        <4>1. h' = h \/ h' = emit_read_buffer(h, 0)
          BY <3>2 DEF SetoptsEmit
        <4>2. ~EmitsClosed(h)
          BY <1>3, <1>4, <2>1 DEF EmitsClosed
        <4> QED
          BY <1>1, <4>1, <4>2, EmitUser DEF SameCaller
      <3>3. CASE SetoptsBuf
        BY <3>3 DEF SetoptsBuf, SameCaller
      <3> QED
        BY <1>9, <3>1, <3>2, <3>3
    <2>3. h'.status = h.status
      BY <2>1, StatusPort DEF CloseLocked, StopMark, ConnectAnswer, At, Stopping
    <2>4. pc'[Owner] \in {"port", "idle"}
      BY <1>1, <1>3, <1>9, <2>1 DEF SetoptsAssign, SetoptsEmit, SetoptsBuf, Becomes, Returns
    <2>5. pt'.pc # "rb_drained"
      BY <1>1, <1>9, <2>1, IdleType DEF SetoptsAssign, SetoptsEmit, SetoptsBuf, Goto,
         PortStates
    <2> QED
      BY <1>1, <1>3, <1>4, <1>5, <2>1, <2>2, <2>3, <2>4, <2>5, MailQuiet
         DEF Receiving, SameCaller
  <1>10. CASE CloseLocked
    <2>1. pt.pc = "close_lock" /\ pc[Owner] = "port" /\ pt' = Idle
      BY <1>3, <1>10 DEF CloseLocked, At, Stopping
    <2>2. /\ h'.caller = Owner /\ h'.caller_ref = Ref(Owner) /\ h'.close_pending
          /\ (h'.receiver_waiting <=> h.receiver_waiting) /\ h'.status = "closing"
      BY <1>1, <1>10, ClosingForFields, CloseUtp, CloseUtpUser DEF CloseLocked, SameCaller
    <2>3. pc'[Owner] = "close_wait"
      BY <1>1, <1>10 DEF CloseLocked, Becomes
    <2> QED
      BY <1>1, <1>2, <1>4, <2>1, <2>2, <2>3, IdleType
         DEF MailInv, CloserInv, ReaderInv, ConnectorInv, Receiving, Registered
  <1>11. CASE StopTest \/ StopMark \/ StopSelected
    <2>1. SameCaller(h', h) /\ h'.status # "connect_pending"
      <3>1. ~up /\ pt.pc \in Stopping
        BY <1>11 DEF StopTest, StopMark, StopSelected, At, Stopping, ConnInv, StopOrder
      <3>2. h.status # "connect_pending"
        BY <3>1 DEF EarlyInv, Early
      <3> QED
        BY <1>1, <1>11, <3>2, ZenonT(60) DEF StopTest, StopMark, StopSelected, Handler, SameCaller
    <2>2. pc'[Owner] \in {pc[Owner], "idle"} /\ (pc[Owner] = "dead" => pc'[Owner] = "dead")
      BY <1>1, <1>11 DEF StopTest, StopMark, StopSelected, Returns, Becomes
    <2>3. pt.pc # "rb_drained" /\ pt'.pc # "rb_drained"
      BY <1>1, <1>11, IdleType DEF StopTest, StopMark, StopSelected, Goto, PortStates, At
    <2>4. CASE pc[Owner] = "port"
      BY <1>1, <1>4, <2>1, <2>2, <2>3, <2>4, MailQuiet DEF SameCaller, Receiving
    <2>5. CASE pc[Owner] = "dead"
      BY <1>1, <1>2, <2>1, <2>2, <2>3, <2>5
         DEF MailInv, CloserInv, ReaderInv, ConnectorInv, Receiving, SameCaller
    <2> QED
      BY <1>1, <2>4, <2>5
  <1>12. CASE ConnectAnswer
    <2>1. pt.pc = "validate" /\ pc[Owner] = "port" /\ pt' = Idle
      BY <1>3, <1>12 DEF ConnectAnswer, At, Stopping
    <2>2. (h'.close_pending <=> h.close_pending)
          /\ (h'.receiver_waiting <=> h.receiver_waiting)
      BY <1>1, <1>12 DEF ConnectAnswer, Handler
    <2>3. CASE pt.seen = "connect_pending"
      <3>1. pc'[Owner] = "connect_wait" /\ h'.caller_ref = Ref(Owner)
        BY <1>1, <1>12, <2>3 DEF ConnectAnswer, Becomes, Handler
      <3> QED
        BY <1>1, <1>2, <1>4, <2>1, <2>2, <3>1, IdleType
           DEF MailInv, CloserInv, ReaderInv, ConnectorInv, Receiving
    <2>4. CASE pt.seen # "connect_pending"
      <3>1. pc'[Owner] \in {"idle", "port_close"}
        BY <1>1, <1>12, <2>4 DEF ConnectAnswer, Becomes, Returns
      <3>2. \/ h'.status = h.status /\ h'.caller_ref = h.caller_ref
            \/ h'.status = "not_connected"
        BY <1>1, <1>12, <2>4 DEF ConnectAnswer, Handler
      <3> QED
        BY <1>1, <1>4, <2>1, <2>2, <3>1, <3>2, IdleType, MailQuiet DEF Receiving
    <2> QED
      BY <2>3, <2>4
  <1> QED
    BY <1>6, <1>7, <1>8, <1>9, <1>10, <1>11, <1>12 DEF PortThread

\* Every step of the user does: it starts a call only when it waits for
\* nothing, and takes its answer before the next call.
LEMMA MailProcess ==
    ASSUME ConnInv, ConnInv', Procs = {Owner}, InCall, InCall', EarlyInv, MailInv,
           ConnectStart \/ Connecting \/ OwnerExit \/ Start(Owner) \/ Continue(Owner)
             \/ TimesOut(Owner)
    PROVE  MailInv'
  <1>1. /\ h \in Handler /\ h' \in Handler /\ pc \in [Procs -> ProcPcs]
        /\ calls \in [Procs -> Nat] /\ lost' = lost /\ ~lost
    BY DEF ConnInv, TypeOK, ConnectStart, Connecting, ConnectValidate, ConnectReplied,
       ConnectClose, OwnerExit, Start, Send, Recv, Setopts, Close, PortGone, Continue,
       SendReplied, TakeRetry, Resend, CancelSend, RecvReplied, CancelRecv, CloseReplied,
       PortClose, TimesOut, SendTimesOut, RecvTimesOut, MailInv, ReaderInv
  <1>2. pc[Owner] \notin Receiving \cup {"connect_wait", "close_wait", "dead", "port"} =>
          /\ ~h.close_pending /\ ~h.receiver_waiting /\ refs[Owner] = {} /\ pt.pc = "idle"
          /\ h.status = "connect_pending" => h.caller_ref = NoRef
    BY DEF MailInv, CloserInv, ReaderInv, ConnectorInv, Receiving, InCall
  <1>3. handed => h.status # "connect_pending"
    BY DEF EarlyInv, Early
  <1>4. CASE ConnectStart
    <2>1. pc[Owner] = "idle" /\ sock = "none" /\ UNCHANGED <<pt, refs>>
          /\ Becomes(Owner, "validate")
      BY <1>4 DEF ConnectStart
    <2>2. \E st : h' = [h EXCEPT !.status = st, !.utp = TRUE, !.selected = TRUE]
      BY <1>4 DEF ConnectStart
    <2>3. SameCaller(h', h)
      BY <1>1, <2>2 DEF Handler, SameCaller
    <2>4. pc'[Owner] = "validate" /\ h.caller_ref = NoRef
      BY <1>1, <2>1 DEF Becomes, EarlyInv
    <2> QED
      BY <1>1, <1>2, <2>1, <2>3, <2>4, MailQuiet DEF SameCaller, Receiving
  <1>5. CASE ConnectValidate \/ ConnectClose
    <2>1. pc[Owner] \in {"validate", "connect_close"} /\ UNCHANGED <<h, refs>>
      BY <1>5 DEF ConnectValidate, ConnectClose
    <2>2. pc'[Owner] \in {"port", "port_close"}
          /\ pt'.pc \in {pt.pc, "validate", "close_lock"}
      BY <1>1, <1>5 DEF ConnectValidate, ConnectClose, CloseTest, Becomes, PortCall
    <2> QED
      BY <1>1, <1>2, <2>1, <2>2, MailQuiet DEF Receiving
  <1>6. CASE ConnectReplied
    <2>1. pc[Owner] = "connect_wait" /\ UNCHANGED <<h, pt>>
          /\ refs' = [refs EXCEPT ![Owner] = {m \in @ : m[1] # Ref(Owner)}] /\ refs[Owner] # {}
      BY <1>6 DEF ConnectReplied, TakeRef, HasRef
    <2>2. refs'[Owner] = {}
      BY <2>1 DEF InCall, MailInv, ConnectorInv
    <2>3. pc'[Owner] \in {"idle", "connect_close"} /\ pt.pc = "idle"
      BY <1>1, <1>6, <2>1 DEF ConnectReplied, Becomes, Returns, InCall
    <2>4. ~h.close_pending /\ ~h.receiver_waiting /\ h.status # "connect_pending"
      BY <2>1 DEF MailInv, CloserInv, ReaderInv, ConnectorInv, Receiving
    <2> QED
      BY <1>1, <2>1, <2>2, <2>3, <2>4, MailQuiet DEF Receiving
  <1>7. CASE OwnerExit
    <2>1. UNCHANGED <<refs, calls>> /\ Ref(Owner)' = Ref(Owner) /\ pt.pc = "idle"
      BY <1>7 DEF OwnerExit, Ref
    <2>2. pc'[Owner] = "dead" /\ pt'.pc # "rb_drained"
      BY <1>1, <1>7 DEF OwnerExit, Becomes, StopBegin, Linger, PortCall
    <2>3. SameCaller(h', h) /\ h'.status \in {h.status, "closing"}
      <3>1. h' = h \/ h' = close_utp(h)
        BY <1>7 DEF OwnerExit, StopBegin, Linger
      <3> QED
        BY <1>1, <3>1, CloseUtp, CloseUtpUser DEF SameCaller
    <2>4. \A m \in refs[Owner] : m[1] = Ref(Owner)
      BY <2>1 DEF MailInv, CloserInv, ReaderInv, ConnectorInv, Receiving, Registered
    <2> QED
      BY <1>1, <2>1, <2>2, <2>3, <2>4
         DEF MailInv, CloserInv, ReaderInv, ConnectorInv, Receiving, SameCaller
  <1>8. ASSUME NEW n, Outputv(Owner, n), pt.pc = "idle", refs' = refs,
               pc[Owner] \in {"idle", "send_again"}
        PROVE  MailInv'
    <2>1. SameCaller(h', h) /\ h'.status = h.status
      BY <1>1, <1>8 DEF Outputv, Handler, SameCaller
    <2>2. pc'[Owner] \in {"port", "send_reply"} /\ pt'.pc # "rb_drained"
      BY <1>1, <1>8 DEF Outputv, Becomes, PortCall
    <2> QED
      BY <1>1, <1>2, <1>8, <2>1, <2>2, MailQuiet DEF SameCaller, Receiving
  <1>10. CASE Start(Owner)
    <2>1. ASSUME NEW n \in SendSizes, Send(Owner, n) PROVE MailInv'
      BY <1>8, <2>1 DEF Send, Begin
    <2>2. CASE \/ \E opt \in Opts : Setopts(Owner, opt)
               \/ \E len \in RecvLens : Recv(Owner, len)
               \/ Close(Owner)
               \/ \E op \in {"send", "recv", "setopts", "close"} : PortGone(Owner, op)
      <3>1. pc[Owner] = "idle" /\ UNCHANGED <<h, refs>>
        BY <2>2 DEF Setopts, Recv, Close, PortGone, Begin
      <3>2. pc'[Owner] \in {"idle", "port", "port_close"}
            /\ (pt' = pt \/ pt'.pc \in {"opts_assign", "recv_emit", "close_lock"})
        BY <1>1, <2>2 DEF Setopts, Recv, Close, CloseTest, PortGone, Returns, Becomes, PortCall
      <3> QED
        BY <1>1, <1>2, <3>1, <3>2, MailQuiet DEF Receiving
    <2> QED
      BY <1>10, <2>1, <2>2 DEF Start
  <1>11. CASE SendReplied(Owner) \/ TakeRetry(Owner) \/ SendTimesOut(Owner)
    <2>1. pc[Owner] \in {"send_reply", "send_retry"} /\ UNCHANGED <<h, refs, pt>>
      BY <1>11 DEF SendReplied, TakeRetry, SendTimesOut
    <2>2. pc'[Owner] \in {"idle", "send_retry", "send_again", "send_cancel"}
      BY <1>1, <1>11 DEF SendReplied, TakeRetry, SendTimesOut, Returns, Becomes
    <2> QED
      BY <1>1, <1>2, <2>1, <2>2, MailQuiet DEF Receiving
  <1>12. CASE Resend(Owner)
    <2>1. pc[Owner] = "send_again" /\ refs' = refs /\ pt.pc = "idle"
      BY <1>12 DEF Resend
    <2>2. up
      BY <2>1 DEF InCall
    <2> QED
      BY <1>8, <1>12, <2>1, <2>2 DEF Resend
  <1>13. CASE CancelSend(Owner)
    <2>1. pc[Owner] = "send_cancel" /\ refs' = refs /\ pt' = pt
      BY <1>13 DEF CancelSend
    <2>2. /\ (h'.close_pending <=> h.close_pending) /\ h'.status = h.status
          /\ (h'.receiver_waiting <=> h.receiver_waiting) /\ h'.caller_ref = h.caller_ref
      <3>1. h' = h \/ h' = [h EXCEPT !.sender_waiting = FALSE, !.caller = Nil]
        BY <1>13, Zenon DEF CancelSend
      <3>2. CASE h' = [h EXCEPT !.sender_waiting = FALSE, !.caller = Nil]
        BY <1>1, <3>2, ZenonT(60) DEF Handler
      <3> QED
        BY <3>1, <3>2
    <2>3. pc'[Owner] = "idle"
      BY <1>1, <1>13 DEF CancelSend, Returns, Becomes
    <2> QED
      BY <1>1, <1>2, <2>1, <2>2, <2>3, MailQuiet DEF Receiving
  <1>14. CASE RecvReplied(Owner)
    <2>1. /\ pc[Owner] = "recv_wait" /\ UNCHANGED <<h, pt>> /\ refs[Owner] # {}
          /\ refs' = [refs EXCEPT ![Owner] = {m \in @ : m[1] # Ref(Owner)}]
      BY <1>14 DEF RecvReplied, TakeRef, HasRef
    <2>2. refs[Owner] = {<<Ref(Owner), "data">>} /\ ~h.receiver_waiting
      BY <2>1 DEF MailInv, ReaderInv, Receiving, Registered
    <2>3. refs'[Owner] = {}
      BY <2>1, <2>2 DEF InCall
    <2>4. pc'[Owner] = "idle" /\ pt.pc = "idle"
      BY <1>1, <1>14, <2>1 DEF RecvReplied, Returns, Becomes, InCall
    <2>5. ~h.close_pending /\ (h.status = "connect_pending" => h.caller_ref = NoRef)
      BY <2>1 DEF MailInv, CloserInv, ConnectorInv
    <2> QED
      BY <1>1, <2>1, <2>2, <2>3, <2>4, <2>5, MailQuiet DEF Receiving
  <1>15. CASE RecvTimesOut(Owner)
    <2>1. /\ pc[Owner] = "recv_wait" /\ UNCHANGED <<h, pt, refs, calls>>
      BY <1>15 DEF RecvTimesOut
    <2>2. pc'[Owner] = "recv_cancel" /\ Ref(Owner)' = Ref(Owner)
      BY <1>1, <1>15, <2>1 DEF RecvTimesOut, Becomes, Ref
    <2> QED
      BY <1>1, <2>1, <2>2
         DEF MailInv, CloserInv, ReaderInv, ConnectorInv, Receiving, Registered
  <1>16. CASE CancelRecv(Owner)
    <2>1. pc[Owner] = "recv_cancel" /\ up /\ pt.pc = "idle" /\ pt' = pt
      BY <1>16 DEF CancelRecv, InCall
    <2>2. /\ h' = reset_waiting_recv(h)
          /\ refs' = [refs EXCEPT ![Owner] = {m \in @ : m[1] # Ref(Owner)}]
      BY <1>16, <2>1 DEF CancelRecv, TakeRef
    <2>3. refs'[Owner] = {}
      BY <2>1, <2>2 DEF InCall, MailInv, ReaderInv, Receiving, Registered
    <2>4. ~h'.receiver_waiting /\ h'.caller_ref = NoRef
          /\ (h'.close_pending <=> h.close_pending)
      BY <1>1, <2>2 DEF reset_waiting_recv, Handler
    <2>5. pc'[Owner] = "idle" /\ ~h.close_pending
      BY <1>1, <1>16, <2>1 DEF CancelRecv, Returns, Becomes, MailInv, CloserInv
    <2> QED
      BY <1>1, <2>1, <2>3, <2>4, <2>5, MailQuiet DEF Receiving
  <1>17. CASE CloseReplied(Owner)
    <2>1. /\ pc[Owner] = "close_wait" /\ UNCHANGED <<h, pt>> /\ refs[Owner] # {}
          /\ refs' = [refs EXCEPT ![Owner] = {m \in @ : m[1] # Ref(Owner)}]
      BY <1>17 DEF CloseReplied, TakeRef
    <2>2. refs[Owner] = {<<Ref(Owner), "ok">>} /\ ~h.close_pending
      BY <2>1 DEF MailInv, CloserInv, Registered
    <2>3. refs'[Owner] = {}
      BY <2>1, <2>2 DEF InCall
    <2>4. pc'[Owner] = "port_close" /\ pt.pc = "idle"
      BY <1>1, <1>17, <2>1 DEF CloseReplied, Becomes, InCall
    <2>5. ~h.receiver_waiting /\ (h.status = "connect_pending" => h.caller_ref = NoRef)
      BY <2>1 DEF MailInv, ReaderInv, ConnectorInv, Receiving
    <2> QED
      BY <1>1, <2>1, <2>2, <2>3, <2>4, <2>5, MailQuiet DEF Receiving
  <1>18. CASE PortClose(Owner)
    <2>1. pc[Owner] = "port_close" /\ refs' = refs
      BY <1>18 DEF PortClose
    <2>2. SameCaller(h', h) /\ h'.status \in {h.status, "closing"}
      <3>1. h' = h \/ h' = close_utp(h)
        BY <1>18 DEF PortClose, StopBegin, Linger
      <3> QED
        BY <1>1, <3>1, CloseUtp, CloseUtpUser DEF SameCaller
    <2>3. pc'[Owner] \in {"port", "idle"} /\ pt'.pc \in {pt.pc, "stop_test"}
      BY <1>1, <1>18 DEF PortClose, Returns, Becomes, StopBegin, Linger, PortCall
    <2> QED
      BY <1>1, <1>2, <2>1, <2>2, <2>3, MailQuiet DEF SameCaller, Receiving
  <1> QED
    BY <1>4, <1>5, <1>6, <1>7, <1>10, <1>11, <1>12, <1>13, <1>14, <1>15, <1>16, <1>17, <1>18
       DEF Connecting, Continue, TimesOut

\* utp_closed is the last message, and nothing can follow it: the socket is
\* gone and the driver queue empty.
NoneClosed == \A i \in 1..Len(app) : app[i] # "closed"
AppInv ==
    /\ app \in Seq({"data", "closed", "error"})
    /\ \A i \in 1..Len(app) :
         app[i] = "closed" => i = Len(app) /\ sock = "freed" /\ h.rq = 0

\* A step that sends the owner nothing.
LEMMA AppFrame ==
    ASSUME AppInv, app' = app,
           sock = "freed" => sock' = "freed" /\ (h.rq = 0 => h'.rq = 0)
    PROVE  AppInv'
  BY DEF AppInv

\* A step that sends the owner data or an error.
LEMMA AppMore ==
    ASSUME AppInv, NoneClosed, NEW msgs \in Seq({"data", "error"}), SendApp(msgs)
    PROVE  AppInv'
  <1>1. app \in Seq({"data", "closed", "error"}) /\ Len(app) \in Nat /\ Len(msgs) \in Nat
    BY DEF AppInv
  <1>2. CASE app' = app
    BY <1>2 DEF AppInv, NoneClosed
  <1>3. CASE app' = app \o msgs
    <2>1. msgs \in Seq({"data", "closed", "error"})
      <3>1. \A i \in 1..Len(msgs) : msgs[i] \in {"data", "closed", "error"}
        OBVIOUS
      <3> QED
        BY <3>1
    <2>2. app' \in Seq({"data", "closed", "error"})
      BY <1>1, <1>3, <2>1
    <2>3. ASSUME NEW i \in 1..Len(app') PROVE app'[i] # "closed"
      <3>1. Len(app') = Len(app) + Len(msgs)
        BY <1>1, <1>3
      <3>2. CASE i <= Len(app)
        <4>1. app'[i] = app[i] /\ i \in 1..Len(app)
          BY <1>1, <1>3, <3>1, <3>2
        <4> QED
          BY <4>1 DEF NoneClosed
      <3>3. CASE i > Len(app)
        <4>1. app'[i] = msgs[i - Len(app)] /\ i - Len(app) \in 1..Len(msgs)
          BY <1>1, <1>3, <3>1, <3>3
        <4> QED
          BY <4>1
      <3> QED
        BY <3>2, <3>3
    <2> QED
      BY <2>2, <2>3 DEF AppInv
  <1> QED
    BY <1>2, <1>3 DEF SendApp

\* What emit_read_buffer sends to the owner, when it is not the closed message.
LEMMA EmittedIsData ==
    ASSUME NEW x \in Handler, NEW len \in Nat, ~EmitsClosed(x)
    PROVE  /\ EmitToOwner(x, len) \in Seq({"data", "error"})
           /\ x.rq = 0 => EmitToOwner(x, len) = << >>
  <1>1. CASE EmitsData(x, len)
    <2>1. EmitCount(x, len) \in Nat /\ x.rq # 0
      BY <1>1 DEF EmitsData, EmitCount, Handler
    <2>2. EmitToOwner(x, len) = [i \in 1..EmitCount(x, len) |-> "data"]
      BY <1>1 DEF EmitToOwner
    <2> QED
      BY <2>1, <2>2
  <1>2. CASE ~EmitsData(x, len)
    BY <1>2 DEF EmitToOwner
  <1> QED
    BY <1>1, <1>2

\* What the callbacks send to the owner: utp_closed comes from DESTROYING
\* only, with the driver queue empty, and libutp calls nothing after it.
LEMMA AppMain ==
    ASSUME ConnInv, ConnInv', Procs = {Owner}, InCall, EarlyInv, MailInv, AppInv, Main
    PROVE  AppInv'
  <1>1. sock # "freed" /\ h \in Handler
    BY DEF Main, UtpConnect, UtpWritable, UtpRead, ReadGone, UtpEof, UtpReset, UtpTimeout,
       SendError, UtpDelayOver, UtpFinAcked, UtpDestroying, Incoming, ConnInv, TypeOK
  <1>2. NoneClosed
    BY <1>1 DEF AppInv, NoneClosed
  <1>3. CASE app' = app
    BY <1>1, <1>3, AppFrame
  <1>4. CASE app' # app
    <2>1. UtpRead \/ UtpDestroying \/ \E e, s : DoError(e, s)
      BY <1>4 DEF Main, UtpConnect, UtpWritable, UtpEof, UtpReset, UtpTimeout, SendError,
         UtpDelayOver, UtpFinAcked, Incoming
    <2>2. CASE \E e, s : DoError(e, s)
      <3>1. SendApp(<<"error">>) \/ SendApp(<<>>)
        BY <1>4, <2>2 DEF DoError
      <3>2. PICK msgs \in Seq({"data", "error"}) : SendApp(msgs)
        <4>1. <<"error">> \in Seq({"data", "error"}) /\ <<>> \in Seq({"data", "error"})
          OBVIOUS
        <4> QED
          BY <3>1, <4>1, Zenon
      <3> QED
        BY <1>2, <3>2, AppMore
    <2>3. CASE UtpRead
      <3>1. PICK x : x = [h EXCEPT !.rq = h.rq + 1]
        OBVIOUS
      <3>2. x \in Handler /\ ~EmitsClosed(x)
        BY <1>1, <3>1 DEF Handler, EmitsClosed
      <3>3. SendApp(EmitToOwner(x, 0))
        BY <1>4, <2>3, <3>1 DEF UtpRead, ReadGone
      <3> QED
        BY <1>2, <3>2, <3>3, EmittedIsData, AppMore
    <2>4. CASE UtpDestroying
      <3>1. PICK x : x = [h EXCEPT !.selected = FALSE]
        OBVIOUS
      <3>2. x \in Handler /\ x.rq = h.rq
        BY <1>1, <3>1 DEF Handler
      <3>3. /\ app' = app \o <<"closed">> /\ h.rq = 0 /\ sock' = "freed"
            /\ h' = [x EXCEPT !.writable = FALSE, !.status = "destroying", !.eof_seen = FALSE]
        <4>1. app \o <<>> = app
          BY DEF AppInv
        <4> QED
          BY <1>4, <2>4, <3>1, <4>1 DEF UtpDestroying, SendApp
      <3>4. h'.rq = 0
        BY <3>2, <3>3 DEF Handler
      <3>5. app' = Append(app, "closed") /\ app \in Seq({"data", "closed", "error"})
            /\ Len(app) \in Nat
        BY <3>3 DEF AppInv
      <3>6. app' \in Seq({"data", "closed", "error"}) /\ Len(app') = Len(app) + 1
            /\ \A i \in 1..Len(app) : app'[i] = app[i]
        BY <3>5
      <3>7. ASSUME NEW i \in 1..Len(app'), app'[i] = "closed" PROVE i = Len(app')
        <4>1. i \in 1..Len(app) \/ i = Len(app')
          BY <3>5, <3>6
        <4>2. i \in 1..Len(app) => app'[i] = app[i] /\ app[i] # "closed"
          BY <1>2, <3>6 DEF NoneClosed
        <4> QED
          BY <3>7, <4>1, <4>2
      <3> QED
        BY <3>3, <3>4, <3>6, <3>7 DEF AppInv
    <2> QED
      BY <2>1, <2>2, <2>3, <2>4
  <1> QED
    BY <1>3, <1>4

\* Once libutp has freed the socket nothing brings it back, and nothing is
\* added to the driver queue.
LEMMA FreedStays ==
    ASSUME ConnInv, Procs = {Owner}, InCall, MailInv, sock = "freed",
           PortThread \/ ConnectStart \/ Connecting \/ OwnerExit \/ Start(Owner)
             \/ Continue(Owner) \/ TimesOut(Owner)
    PROVE  sock' = "freed" /\ (h.rq = 0 => h'.rq = 0)
  <1>1. h \in Handler /\ ~h.utp /\ h.rq \in Nat
    BY DEF ConnInv, TypeOK, HandleMatchesSocket, Open, Handler
  <1>2. ASSUME NEW x, ~x.utp PROVE SockAfter(x, sock) = sock /\ close_utp(x) = x
    BY <1>2 DEF SockAfter, close_utp, Closes
  <1>3. ASSUME NEW len \in Nat, h.rq = 0 PROVE emit_read_buffer(h, len).rq = 0
    <2>1. ~EmitsData(h, len)
      BY <1>3 DEF EmitsData
    <2> QED
      BY <1>1, <1>3, <2>1 DEF emit_read_buffer, Handler
  <1>4. CASE OutputvWrite \/ OutputvNote \/ OutputvWait \/ RecvDrained \/ RecvNote
    BY <1>1, <1>4 DEF OutputvWrite, OutputvNote, OutputvWait, RecvDrained, RecvNote,
       Handler, sockVars
  <1>13. CASE RecvEmit
    <2>1. pt.n \in Nat /\ sock' = sock /\ h' = emit_read_buffer(h, pt.n)
      BY <1>13 DEF RecvEmit, ConnInv, TypeOK, PortStates, sockVars
    <2> QED
      BY <1>3, <2>1
  <1>5. CASE SetoptsAssign \/ SetoptsEmit \/ SetoptsBuf
    BY <1>1, <1>3, <1>5 DEF SetoptsAssign, SetoptsEmit, SetoptsBuf, Handler, sockVars
  <1>6. CASE CloseLocked
    <2>1. sock' = sock /\ h' = ClosingFor
      BY <1>1, <1>2, <1>6, ClosingForFields DEF CloseLocked
    <2> QED
      BY <2>1, ClosingForFields
  <1>7. CASE StopTest \/ StopMark \/ StopSelected
    BY <1>1, <1>7 DEF StopTest, StopMark, StopSelected, Handler, sockVars
  <1>8. CASE ConnectAnswer
    BY <1>1, <1>8 DEF ConnectAnswer, Handler, sockVars
  <1>9. CASE ConnectStart \/ Connecting \/ OwnerExit
    BY <1>1, <1>2, <1>9 DEF ConnectStart, Connecting, ConnectValidate, ConnectReplied,
       ConnectClose, OwnerExit, StopBegin, Linger, sockVars
  <1>10. ASSUME NEW n, Outputv(Owner, n) PROVE h'.rq = h.rq
    BY <1>1, <1>10 DEF Outputv, Handler
  <1>11. CASE Start(Owner)
    BY <1>10, <1>11 DEF Start, Send, Recv, Setopts, Close, PortGone, sockVars
  <1>12. CASE Continue(Owner) \/ TimesOut(Owner)
    <2>1. CASE Resend(Owner) \/ PortClose(Owner)
      BY <1>1, <1>2, <1>10, <2>1 DEF Resend, PortClose, StopBegin, Linger, sockVars
    <2>2. CASE CancelSend(Owner)
      BY <1>1, <2>2 DEF CancelSend, Handler, sockVars
    <2>3. CASE CancelRecv(Owner)
      BY <1>1, <2>3 DEF CancelRecv, reset_waiting_recv, Handler, sockVars
    <2> QED
      BY <1>12, <2>1, <2>2, <2>3 DEF Continue, SendReplied, TakeRetry,
         RecvReplied, CloseReplied, TimesOut, SendTimesOut, RecvTimesOut, sockVars
  <1> QED
    BY <1>4, <1>5, <1>6, <1>7, <1>8, <1>9, <1>11, <1>12, <1>13 DEF PortThread

\* What recv and setopts send to the owner comes out of the driver queue,
\* which is empty once utp_closed has been sent.
LEMMA AppOther ==
    ASSUME ConnInv, ConnInv', Procs = {Owner}, InCall, EarlyInv, MailInv, AppInv,
           PortThread \/ ConnectStart \/ Connecting \/ OwnerExit \/ Start(Owner)
             \/ Continue(Owner) \/ TimesOut(Owner)
    PROVE  AppInv'
  <1>1. sock = "freed" => sock' = "freed" /\ (h.rq = 0 => h'.rq = 0)
    BY FreedStays
  <1>2. CASE app' = app
    BY <1>1, <1>2, AppFrame
  <1>3. CASE app' # app
    <2>1. SetoptsEmit \/ RecvEmit
      BY <1>3 DEF PortThread, OutputvWrite, OutputvNote, OutputvWait, RecvDrained,
         RecvNote, SetoptsAssign, SetoptsBuf, CloseLocked, StopTest, StopMark,
         StopSelected, ConnectAnswer, ConnectStart, Connecting, ConnectValidate,
         ConnectReplied, ConnectClose, OwnerExit, Start, Send, Recv, Setopts, Close, PortGone,
         Continue, SendReplied, TakeRetry, Resend, CancelSend, RecvReplied, CancelRecv,
         CloseReplied, PortClose, TimesOut, SendTimesOut, RecvTimesOut
    <2>2. app \o <<>> = app
      BY DEF AppInv
    <2>3. CASE SetoptsEmit
      <3>1. h \in Handler /\ ~EmitsClosed(h)
        <4>1. pt.pc = "opts_lock"
          BY <2>3 DEF SetoptsEmit, At
        <4>2. pc[Owner] = "port"
          BY <4>1 DEF InCall, ConnInv, StopOrder, Stopping
        <4> QED
          BY <4>2 DEF MailInv, CloserInv, EmitsClosed, ConnInv, TypeOK
      <3>2. SendApp(EmitToOwner(h, 0))
        BY <1>3, <2>3 DEF SetoptsEmit
      <3>3. EmitToOwner(h, 0) \in Seq({"data", "error"}) /\ h.rq # 0
        BY <1>3, <2>2, <3>1, <3>2, EmittedIsData DEF SendApp
      <3>4. NoneClosed
        BY <3>3 DEF AppInv, NoneClosed
      <3> QED
        BY <3>2, <3>3, <3>4, AppMore
    <2>4. ASSUME RecvEmit PROVE FALSE
      <3>1. pt.pc = "recv_emit"
        BY <2>4 DEF RecvEmit, At
      <3>2. pc[Owner] = "port"
        BY <3>1 DEF InCall, ConnInv, StopOrder, Stopping
      <3>3. ~EmitsClosed(h)
        BY <3>2 DEF MailInv, CloserInv, EmitsClosed
      <3> QED
        BY <1>3, <2>2, <2>4, <3>3 DEF RecvEmit, SendApp
    <2> QED
      BY <2>1, <2>3, <2>4
  <1> QED
    BY <1>2, <1>3

-----------------------------------------------------------------------------

UserInv == ConnInv /\ InCall /\ EarlyInv /\ MailInv /\ AppInv

\* A new port has no user waiting and no message on its way.
LEMMA UserInit == ASSUME Procs = {Owner}, Init PROVE UserInv
  <1>1. ConnInv
    BY InitConnInv
  <1>2. PICK a \in Actives, tmout \in SendTmouts : h = NewHandler(a, tmout)
    BY DEF Init
  <1>3. ~h.close_pending /\ ~h.receiver_waiting /\ h.caller_ref = NoRef
        /\ h.status = "not_connected" /\ h.rq = 0
    BY <1>2 DEF NewHandler
  <1>4. pc[Owner] = "idle" /\ refs[Owner] = {} /\ pt.pc = "idle" /\ app = <<>>
        /\ sock = "none" /\ up /\ ~handed /\ ~lost
    BY IdleType DEF Init
  <1>5. InCall
    BY <1>4 DEF Init, InCall
  <1>6. EarlyInv
    BY <1>3, <1>4 DEF EarlyInv, Early
  <1>7. MailInv
    BY <1>3, <1>4 DEF MailInv, CloserInv, ReaderInv, ConnectorInv, Receiving
  <1>8. AppInv
    BY <1>4 DEF AppInv
  <1> QED
    BY <1>1, <1>5, <1>6, <1>7, <1>8 DEF UserInv

\* Every step, of the user, of its port call or of libutp, keeps the
\* invariant of one user.
LEMMA UserNext == ASSUME Procs = {Owner}, UserInv, [Next]_vars PROVE UserInv'
  <1>1. ConnInv'
    BY NextConnInv DEF UserInv
  <1>2. CASE UNCHANGED vars
    <2>1. Ref(Owner)' = Ref(Owner)
      BY <1>2 DEF vars, Ref
    <2> QED
      BY <1>1, <1>2, <2>1 DEF UserInv, vars, InCall, EarlyInv, MailInv, CloserInv,
         ReaderInv, ConnectorInv, Registered, AppInv
  <1>3. CASE Next
    <2>1. \/ Main \/ PortThread
          \/ ConnectStart \/ Connecting \/ OwnerExit \/ Start(Owner) \/ Continue(Owner)
               \/ TimesOut(Owner)
      BY <1>3 DEF Next
    <2>2. InCall'
      BY <2>1, InCallMain, InCallPort, InCallProcess DEF UserInv
    <2>3. EarlyInv'
      BY <1>1, <1>3, <2>2, EarlyNext DEF UserInv
    <2>4. MailInv'
      BY <1>1, <2>1, <2>2, MailMain, MailRecvEmit, MailPort, MailProcess DEF UserInv
    <2>5. AppInv'
      BY <1>1, <2>1, AppMain, AppOther DEF UserInv
    <2> QED
      BY <1>1, <2>2, <2>3, <2>4, <2>5 DEF UserInv
  <1> QED
    BY <1>2, <1>3

\* One user, any number of calls, on one scheduler or several, whatever the
\* peer does: a port call is in progress exactly while its user is in it, the
\* handler's caller and caller_ref are those of the call that waits, no message
\* is left over from an earlier call, and nothing follows utp_closed.
THEOREM OneUserInvariant == ASSUME Procs = {Owner} PROVE Spec => []UserInv
  <1>1. Init => UserInv
    BY UserInit
  <1>2. UserInv /\ [Next]_vars => UserInv'
    BY UserNext
  <1> QED
    BY <1>1, <1>2, PTL DEF Spec

\* A user waiting in close/1 will be answered: the DESTROYING callback finds
\* it in caller and caller_ref, or has answered it.  With one user no recv or
\* send of another process can take these two fields over.
THEOREM CloserIsAnswered == ASSUME Procs = {Owner} PROVE Spec => []CloserRegistered
  <1>1. UserInv => CloserRegistered
    BY DEF UserInv, MailInv, CloserInv, CloserRegistered, Answered, Registered
  <1> QED
    BY <1>1, OneUserInvariant, PTL

\* Data do_read and recv take off the driver queue goes to the user waiting
\* for it, under the reference it waits for: none is lost, and no later call
\* finds it in its mailbox.
THEOREM DataIsRead == ASSUME Procs = {Owner} PROVE Spec => []DataReachesReader
  <1>1. UserInv => DataReachesReader
    <2>1. SUFFICES ASSUME UserInv, NEW m \in refs[Owner], m[2] = "data"
          PROVE  m[1] = Ref(Owner) /\ pc[Owner] \in {"port", "recv_wait", "recv_cancel", "dead"}
      BY DEF UserInv, MailInv, ReaderInv, DataReachesReader
    <2>2. pc[Owner] # "connect_wait"
      BY <2>1 DEF UserInv, MailInv, ConnectorInv
    <2>3. pc[Owner] # "close_wait"
      BY <2>1 DEF UserInv, MailInv, CloserInv, Registered
    <2>4. pt.pc = "rb_drained" => pc[Owner] \in {"port", "dead"}
      BY <2>1 DEF UserInv, InCall
    <2>5. pc[Owner] \in Receiving \cup {"dead"} \/ pt.pc = "rb_drained"
      BY <2>1, <2>2, <2>3 DEF UserInv, MailInv, ConnectorInv
    <2>6. m[1] = Ref(Owner)
      BY <2>1, <2>5 DEF UserInv, MailInv, ReaderInv, ConnectorInv, Registered, Receiving
    <2> QED
      BY <2>4, <2>5, <2>6 DEF Receiving
  <1> QED
    BY <1>1, OneUserInvariant, PTL

\* utp_closed is sent to the owner at most once and no data follows it,
\* though three places send to the owner: do_read, setopts and DESTROYING.
THEOREM ClosedComesLast == ASSUME Procs = {Owner} PROVE Spec => []ClosedIsLast
  <1>1. UserInv => ClosedIsLast
    BY DEF UserInv, AppInv, ClosedIsLast
  <1> QED
    BY <1>1, OneUserInvariant, PTL

-----------------------------------------------------------------------------

\* What a waiting receiver needs is not there.
NotEnough(n) == h.active = "false" /\ (h.rq = 0 \/ h.rq < n)
WaitingInv ==
    /\ h.receiver_waiting /\ pc[Owner] # "dead" => NotEnough(h.recv_len)
    /\ pt.pc = "recv_emit" => h.active = "false"
    /\ pt.pc = "recv_lock" => NotEnough(pt.n)

\* Without a port thread of its own the main thread runs between port calls.
LEMMA MainAlone ==
    ASSUME ~SMP, Procs = {Owner}, UserInv, Main
    PROVE  pt.pc = "idle" /\ pt' = pt /\ pc' = pc
  <1>1. ~Incoming => pt.pc = "idle"
    BY DEF Main, UtpConnect, UtpWritable, UtpRead, ReadGone, UtpEof, UtpReset, UtpTimeout,
       SendError, UtpDelayOver, UtpFinAcked, UtpDestroying, MainMay
  <1>2. Incoming => pt.pc = "idle"
    BY DEF Incoming, UserInv, InCall
  <1>3. pt' = pt /\ pc' = pc
    BY DEF Main, UtpConnect, UtpWritable, UtpRead, ReadGone, UtpEof, UtpReset, UtpTimeout,
       SendError, UtpDelayOver, UtpFinAcked, UtpDestroying, Incoming, procVars
  <1> QED
    BY <1>1, <1>2, <1>3

\* Only do_read changes what there is to read.
LEMMA MainReadFields ==
    ASSUME ConnInv, Main, ~UtpRead
    PROVE  SameRead(h', h) /\ (h'.receiver_waiting <=> h.receiver_waiting)
  <1>1. h \in Handler
    BY DEF ConnInv, TypeOK
  <1>2. CASE UtpConnect \/ UtpFinAcked \/ Incoming
    BY <1>1, <1>2 DEF UtpConnect, UtpFinAcked, Incoming, Handler, SameRead
  <1>3. CASE UtpWritable
    BY <1>3, WritableEffect DEF SameCaller
  <1>4. CASE UtpEof
    <2>1. PICK x : x = [h EXCEPT !.wq = 0]
      OBVIOUS
    <2>2. x \in Handler /\ SameRead(x, h) /\ (x.receiver_waiting <=> h.receiver_waiting)
      BY <1>1, <2>1 DEF Handler, SameRead
    <2>3. PICK y : /\ y = IF h.status # "stopped" THEN close_utp(x) ELSE x
                   /\ h' = [y EXCEPT !.writable = FALSE, !.eof_seen = TRUE]
      BY <1>4, <2>1 DEF UtpEof
    <2>4. y \in Handler /\ SameRead(y, x) /\ (y.receiver_waiting <=> x.receiver_waiting)
      BY <2>2, <2>3, CloseUtp, CloseUtpUser DEF SameRead, SameCaller
    <2>5. SameRead(h', y) /\ (h'.receiver_waiting <=> y.receiver_waiting)
      BY <2>3, <2>4 DEF Handler, SameRead
    <2> QED
      BY <2>2, <2>4, <2>5 DEF SameRead
  <1>5. ASSUME NEW e, NEW s, DoError(e, s)
        PROVE  SameRead(h', h) /\ (h'.receiver_waiting <=> h.receiver_waiting)
    BY <1>1, <1>5, CloseUtpUser DEF DoError, Handler, SameRead, SameCaller
  <1>6. CASE UtpReset \/ UtpTimeout \/ SendError \/ UtpDelayOver
    BY <1>5, <1>6 DEF UtpReset, UtpTimeout, SendError, UtpDelayOver, SameRead
  <1>7. CASE UtpDestroying
    <2>1. PICK x : x = [h EXCEPT !.selected = FALSE]
      OBVIOUS
    <2>2. x \in Handler /\ SameRead(x, h) /\ (x.receiver_waiting <=> h.receiver_waiting)
      BY <1>1, <2>1 DEF Handler, SameRead
    <2>3. \/ h' = [x EXCEPT !.caller = Nil, !.close_pending = FALSE, !.writable = FALSE,
                            !.status = "destroying", !.eof_seen = FALSE]
          \/ h' = [x EXCEPT !.writable = FALSE, !.status = "destroying", !.eof_seen = FALSE]
          \/ h' = [x EXCEPT !.deleted = TRUE]
          \/ h' = x
      BY <1>7, <2>1 DEF UtpDestroying
    <2> QED
      BY <2>2, <2>3, ZenonT(60) DEF Handler, SameRead
  <1> QED
    BY <1>2, <1>3, <1>4, <1>6, <1>7 DEF Main

\* do_read either serves the waiting receiver or leaves less than it asked
\* for; the other callbacks do not touch the driver queue.
LEMMA WaitingMain ==
    ASSUME ~SMP, Procs = {Owner}, UserInv, UserInv', WaitingInv, Main
    PROVE  WaitingInv'
  <1>1. /\ pt' = pt /\ pt.pc = "idle" /\ pc' = pc /\ ConnInv /\ h \in Handler
        /\ h.rq \in Nat /\ h.recv_len \in Nat
    BY MainAlone DEF UserInv, ConnInv, TypeOK, Handler
  <1>2. CASE ~UtpRead
    <2>1. SameRead(h', h) /\ (h'.receiver_waiting <=> h.receiver_waiting)
      BY <1>1, <1>2, MainReadFields
    <2> QED
      BY <1>1, <2>1 DEF WaitingInv, NotEnough, SameRead
  <1>3. CASE UtpRead
    <2>1. SUFFICES ASSUME h'.receiver_waiting, pc[Owner] # "dead" PROVE NotEnough(h.recv_len)'
      BY <1>1 DEF WaitingInv
    <2>2. PICK x : x = [h EXCEPT !.rq = h.rq + 1]
      OBVIOUS
    <2>3. x \in Handler /\ SameCaller(x, h) /\ x.rq = h.rq + 1 /\ x.recv_len = h.recv_len
          /\ x.active = h.active
      BY <1>1, <2>2 DEF Handler, SameCaller
    <2>4. ~EmitsClosed(x)
      BY <1>1, <2>3 DEF EmitsClosed
    <2>5. CASE ReadGone
      <3>1. h.receiver_waiting
        BY <1>1, <2>1, <2>5 DEF ReadGone, reset_waiting_recv, Handler
      <3>2. h' = reset_waiting_recv(h)
        BY <2>1, <2>5, <3>1 DEF ReadGone, WaitingInv, NotEnough
      <3> QED
        BY <1>1, <2>1, <3>2 DEF reset_waiting_recv, Handler
    <2>6. CASE ~ReadGone /\ h.active = "false"
      <3>1. CASE h.receiver_waiting /\ EmitsData(x, h.recv_len)
        <4>1. h' = reset_waiting_recv(emit_read_buffer(x, h.recv_len))
          BY <1>3, <2>2, <2>6, <3>1 DEF UtpRead
        <4>2. emit_read_buffer(x, h.recv_len) \in Handler
          BY <1>1, <2>3, EmitReadBuffer
        <4> QED
          BY <2>1, <4>1, <4>2 DEF reset_waiting_recv, Handler
      <3>2. CASE ~(h.receiver_waiting /\ EmitsData(x, h.recv_len))
        <4>1. h' = x
          BY <1>3, <2>2, <2>6, <3>2 DEF UtpRead
        <4>2. x.receiver_waiting /\ h.receiver_waiting
          BY <2>1, <2>3, <4>1 DEF SameCaller
        <4>3. ~EmitsData(x, h.recv_len)
          BY <3>2, <4>2
        <4>4. x.rq < x.recv_len
          BY <1>1, <2>3, <2>4, <4>3 DEF EmitsData
        <4> QED
          BY <2>3, <2>6, <4>1, <4>4 DEF NotEnough
      <3> QED
        BY <3>1, <3>2
    <2>7. CASE ~ReadGone /\ h.active # "false"
      <3>1. h' = emit_read_buffer(x, 0)
        BY <1>3, <2>2, <2>7 DEF UtpRead
      <3>2. h.receiver_waiting
        BY <2>1, <2>3, <2>4, <3>1, EmitUser DEF SameCaller
      <3> QED
        BY <2>1, <2>7, <3>2 DEF WaitingInv, NotEnough
    <2> QED
      BY <2>5, <2>6, <2>7
  <1> QED
    BY <1>2, <1>3

\* A step of the port thread, or of the user.
LEMMA WaitingOther ==
    ASSUME Procs = {Owner}, UserInv, UserInv', WaitingInv,
           PortThread \/ ConnectStart \/ Connecting \/ OwnerExit \/ Start(Owner)
             \/ Continue(Owner) \/ TimesOut(Owner)
    PROVE  WaitingInv'
  <1>1. /\ h \in Handler /\ h' \in Handler /\ pt \in PortStates /\ pc \in [Procs -> ProcPcs]
        /\ pt.by = Owner
    BY DEF UserInv, ConnInv, TypeOK, PortStates
  <1>2. pc[Owner] \in {"port", "idle"} => ~h.receiver_waiting /\ ~h.close_pending
    BY DEF UserInv, MailInv, ReaderInv, CloserInv, Receiving
  <1>3. h'.receiver_waiting /\ pc'[Owner] # "dead" => pc'[Owner] \in Receiving
    BY DEF UserInv, MailInv, ReaderInv
  <1>4. CASE RecvNote
    <2>1. pt.pc = "recv_lock" /\ pt' = Idle
      BY <1>4 DEF RecvNote, At
    <2>2. h'.recv_len = pt.n /\ h'.rq = h.rq /\ h'.active = h.active
      BY <1>1, <1>4 DEF RecvNote, Handler
    <2> QED
      BY <2>1, <2>2, IdleType DEF WaitingInv, NotEnough
  <1>5. CASE RecvEmit
    <2>1. pt.pc = "recv_emit" /\ pt.n \in Nat /\ h.active = "false"
          /\ h' = emit_read_buffer(h, pt.n)
      BY <1>1, <1>5 DEF RecvEmit, At, PortStates, WaitingInv
    <2>2. pc[Owner] = "port"
      BY <2>1 DEF UserInv, InCall, ConnInv, StopOrder, Stopping
    <2>3. ~h.receiver_waiting /\ ~EmitsClosed(h)
      BY <1>2, <2>2 DEF EmitsClosed
    <2>4. ~h'.receiver_waiting
      BY <1>1, <2>1, <2>3, EmitUser DEF SameCaller
    <2>5. ASSUME pt'.pc = "recv_lock" PROVE NotEnough(pt.n)'
      <3>1. ~EmitsData(h, pt.n) /\ pt' = [pt EXCEPT !.pc = "recv_lock"]
        BY <1>1, <1>5, <2>5, IdleType DEF RecvEmit, Goto, PortStates
      <3>2. h' = h /\ pt'.n = pt.n
        BY <1>1, <2>1, <2>3, <3>1 DEF emit_read_buffer, PortStates
      <3>3. h.rq = 0 \/ h.rq < pt.n
        BY <1>1, <2>1, <2>3, <3>1 DEF EmitsData, Handler
      <3> QED
        BY <2>1, <3>2, <3>3 DEF NotEnough
    <2>6. pt'.pc # "recv_emit"
      BY <1>1, <1>5, IdleType DEF RecvEmit, Goto, PortStates
    <2> QED
      BY <2>4, <2>5, <2>6 DEF WaitingInv
  <1>6. CASE RecvDrained \/ RecvTimesOut(Owner)
    <2>1. h' = h /\ (pc[Owner] = "dead" => pc'[Owner] = "dead")
          /\ pt'.pc \notin {"recv_lock", "recv_emit"}
      <3>1. CASE RecvDrained
        <4>1. pt.pc = "rb_drained" /\ (pt' = Idle \/ pt' = pt) /\ h' = h
          BY <3>1 DEF RecvDrained, At
        <4>2. pc[Owner] # "dead"
          BY <4>1 DEF UserInv, InCall, ConnInv, StopOrder, Stopping
        <4> QED
          BY <4>1, <4>2, IdleType
      <3>2. CASE RecvTimesOut(Owner)
        <4>1. pc[Owner] = "recv_wait" /\ pt' = pt /\ h' = h
          BY <3>2 DEF RecvTimesOut
        <4> QED
          BY <4>1 DEF UserInv, InCall
      <3> QED
        BY <1>6, <3>1, <3>2
    <2> QED
      BY <2>1 DEF WaitingInv, NotEnough
  <1>7. CASE ~RecvNote /\ ~RecvDrained /\ ~RecvTimesOut(Owner) /\ ~RecvEmit
    <2>1. pc'[Owner] \notin Receiving
      <3>1. CASE PortThread
        <4>1. pc[Owner] \in {"port", "dead"}
          BY <3>1 DEF PortThread, OutputvWrite, OutputvNote, OutputvWait, SetoptsAssign,
             SetoptsEmit, SetoptsBuf, CloseLocked, StopTest, StopMark, StopSelected,
             ConnectAnswer, At, UserInv, InCall, RecvNote, RecvDrained, RecvEmit
        <4> QED
          BY <1>1, <1>7, <3>1, <4>1 DEF PortThread, OutputvWrite, OutputvNote, OutputvWait,
             SetoptsAssign, SetoptsEmit, SetoptsBuf, CloseLocked, StopTest, StopMark,
             StopSelected, ConnectAnswer, Becomes, Returns, Receiving
      <3>2. CASE ConnectStart \/ Connecting \/ OwnerExit
        BY <1>1, <3>2 DEF ConnectStart, Connecting, ConnectValidate, ConnectReplied,
           ConnectClose, CloseTest, OwnerExit, Becomes, Returns, Receiving
      <3>3. CASE Start(Owner)
        BY <1>1, <1>7, <3>3 DEF Start, Send, Outputv, Recv, Setopts, Close, CloseTest,
           PortGone, Becomes, Returns, Receiving
      <3>4. CASE Continue(Owner) \/ TimesOut(Owner)
        BY <1>1, <1>7, <3>4 DEF Continue, SendReplied, TakeRetry, Resend, Outputv,
           CancelSend, RecvReplied, CancelRecv, CloseReplied, PortClose, TimesOut,
           SendTimesOut, Becomes, Returns, Receiving
      <3> QED
        BY <3>1, <3>2, <3>3, <3>4
    <2>2. /\ pt'.pc # "recv_lock"
          /\ pt'.pc = "recv_emit" => \E len \in RecvLens : Recv(Owner, len)
      <3>1. CASE PortThread
        BY <1>1, <1>7, <3>1, IdleType DEF PortThread, OutputvWrite, OutputvNote,
           OutputvWait, SetoptsAssign, SetoptsEmit, SetoptsBuf, CloseLocked, StopTest,
           StopMark, StopSelected, ConnectAnswer, At, Goto, PortStates
      <3>2. CASE ConnectStart \/ Connecting \/ OwnerExit
        <4>1. CASE ConnectReplied
          <5>1. pt' = pt /\ pc[Owner] = "connect_wait"
            BY <4>1 DEF ConnectReplied
          <5> QED
            BY <5>1 DEF UserInv, InCall
        <4>2. CASE ConnectStart \/ OwnerExit
          <5>1. pt.pc = "idle" /\ (pt' = pt \/ StopBegin(Owner))
            BY <4>2, Zenon DEF ConnectStart, OwnerExit, Linger
          <5> QED
            BY <5>1 DEF StopBegin, Linger, PortCall
        <4>3. CASE ConnectValidate
          BY <4>3 DEF ConnectValidate, PortCall
        <4>4. CASE ConnectClose
          BY <4>4 DEF ConnectClose, CloseTest, PortCall
        <4> QED
          BY <3>2, <4>1, <4>2, <4>3, <4>4 DEF Connecting
      <3>3. CASE Start(Owner)
        <4>1. CASE \E len \in RecvLens : Recv(Owner, len)
          <5>1. pt.pc = "idle" /\ pt'.pc \in {"idle", "recv_emit"}
            BY <4>1 DEF Recv, Begin, PortCall
          <5> QED
            BY <4>1, <5>1
        <4>2. CASE ~ \E len \in RecvLens : Recv(Owner, len)
          BY <1>7, <3>3, <4>2 DEF Start, Send, Outputv, Setopts, Close, CloseTest, PortGone,
             PortCall, Begin
        <4> QED
          BY <4>1, <4>2
      <3>4. CASE Continue(Owner) \/ TimesOut(Owner)
        <4>1. CASE Resend(Owner) \/ PortClose(Owner)
          BY <4>1 DEF Resend, Outputv, PortClose, StopBegin, Linger, PortCall
        <4>2. CASE ~Resend(Owner) /\ ~PortClose(Owner)
          <5>1. pt' = pt /\ pc[Owner] \notin {"port", "dead"}
            BY <1>7, <3>4, <4>2 DEF Continue, SendReplied, TakeRetry, CancelSend,
               RecvReplied, CancelRecv, CloseReplied, TimesOut, SendTimesOut
          <5> QED
            BY <5>1 DEF UserInv, InCall
        <4> QED
          BY <4>1, <4>2
      <3> QED
        BY <3>1, <3>2, <3>3, <3>4
    <2>3. ASSUME NEW len \in RecvLens, Recv(Owner, len), pt'.pc = "recv_emit"
          PROVE  h'.active = "false"
      BY <2>3 DEF Recv, Begin
    <2> QED
      BY <1>3, <2>1, <2>2, <2>3 DEF WaitingInv
  <1> QED
    BY <1>4, <1>5, <1>6, <1>7

\* On one scheduler, a user waiting in recv/3 waits because there is not
\* enough data: do_read or setopts never queue the data it needs past it.  With
\* a port thread of its own, recv looks at the queue before it takes utp_mutex
\* and data may come in between.
THEOREM ReceiverIsWoken ==
    ASSUME Procs = {Owner}, ~SMP PROVE Spec => []ReceiverNotStranded
  <1>1. Init => WaitingInv
    BY IdleType DEF Init, NewHandler, WaitingInv
  <1>2. ASSUME UserInv, UserInv', WaitingInv, [Next]_vars PROVE WaitingInv'
    <2>1. CASE UNCHANGED vars
      BY <1>2, <2>1 DEF vars, WaitingInv, NotEnough
    <2>2. CASE Next
      BY <1>2, <2>2, WaitingMain, WaitingOther DEF Next
    <2> QED
      BY <1>2, <2>1, <2>2
  <1>3. UserInv /\ WaitingInv => ReceiverNotStranded
    <2>1. SUFFICES ASSUME UserInv, WaitingInv, pc[Owner] = "recv_wait", ~HasRef(Owner)
          PROVE  /\ h.receiver_waiting /\ h.caller = Owner /\ h.caller_ref = Ref(Owner)
                 /\ h.rq = 0 \/ h.rq < h.recv_len
      BY DEF ReceiverNotStranded
    <2>2. refs[Owner] # {<<Ref(Owner), "data">>}
      <3>1. <<Ref(Owner), "data">>[1] = Ref(Owner)
        OBVIOUS
      <3> QED
        BY <2>1, <3>1, Zenon DEF HasRef
    <2>3. h.receiver_waiting
      BY <2>1, <2>2 DEF UserInv, MailInv, ReaderInv, Receiving
    <2> QED
      BY <2>1, <2>3 DEF UserInv, MailInv, ReaderInv, Receiving, Registered, WaitingInv,
         NotEnough
  <1> QED
    BY <1>1, <1>2, <1>3, OneUserInvariant, PTL DEF Spec

-----------------------------------------------------------------------------

\* A sender told to wait is known to the handler and the socket is full; one
\* told to retry has its message; nobody else waits and no message is left.
Sending == {"send_reply", "send_retry"}
Told == h.sender_waiting /\ h.caller = Owner /\ ~h.writable
SenderInv ==
    /\ h.send_tmout # "finite" /\ pc[Owner] # "send_cancel"
    /\ pt.pc = "wait_lock" => ~h.writable
    /\ pt.pc = "wait_reply" => Told
    /\ pc[Owner] = "send_reply" =>
         \/ replies[Owner] \in {<<"ok">>, <<"error">>, <<"wait", "retry">>} /\ ~h.sender_waiting
         \/ replies[Owner] = <<"wait">> /\ Told
    /\ pc[Owner] = "send_retry" =>
         \/ replies[Owner] = <<"retry">> /\ ~h.sender_waiting
         \/ replies[Owner] = <<>> /\ Told
    /\ pc[Owner] \notin Sending \cup {"dead"} =>
         replies[Owner] = <<>> /\ (h.sender_waiting => pt.pc = "wait_reply")
    /\ res[Owner] \notin {"retry", "wait"}

\* A step after which the user is not in send.
LEMMA SenderQuiet ==
    ASSUME SenderInv, h'.send_tmout = h.send_tmout, res'[Owner] \notin {"retry", "wait"},
           pt'.pc \notin {"wait_lock", "wait_reply"},
           pc'[Owner] \notin Sending \cup {"send_cancel"},
           pc'[Owner] = "dead" \/ (replies'[Owner] = <<>> /\ ~h'.sender_waiting)
    PROVE  SenderInv'
  BY DEF SenderInv, Sending

\* Only the WRITABLE callback serves a waiting sender.
LEMMA MainSendFields ==
    ASSUME ConnInv, Main, ~UtpWritable
    PROVE  /\ SameSend(h', h) /\ replies' = replies
           /\ h'.writable => h.writable \/ UtpConnect \/ Incoming
           /\ h'.caller = h.caller \/ h.receiver_waiting \/ h.close_pending
  <1>1. h \in Handler /\ h.recv_len \in Nat
    BY DEF ConnInv, TypeOK, Handler
  <1>2. replies' = replies
    BY Zenon DEF Main, UtpConnect, UtpRead, UtpEof, UtpReset, UtpTimeout, SendError,
       UtpDelayOver, UtpFinAcked, UtpDestroying, Incoming
  <1>3. CASE UtpConnect \/ UtpFinAcked \/ Incoming
    <2>1. SameSend(h', h) /\ h'.caller = h.caller
      BY <1>1, <1>3 DEF UtpConnect, UtpFinAcked, Incoming, Handler, SameSend
    <2>2. UtpFinAcked => h' = h
      BY DEF UtpFinAcked
    <2> QED
      BY <1>2, <1>3, <2>1, <2>2
  <1>4. CASE UtpRead
    <2>1. PICK x : x = [h EXCEPT !.rq = h.rq + 1]
      OBVIOUS
    <2>2. x \in Handler /\ SameSend(x, h) /\ (x.writable <=> h.writable)
          /\ x.caller = h.caller
          /\ x.rq = h.rq + 1
      BY <1>1, <2>1 DEF Handler, SameSend
    <2>3. PICK len : len = IF h.active = "false" THEN h.recv_len ELSE 0
      OBVIOUS
    <2>4. PICK y : y = emit_read_buffer(x, len)
      OBVIOUS
    <2>5. ~EmitsClosed(x) /\ len \in Nat
      BY <1>1, <2>2, <2>3 DEF EmitsClosed, Handler
    <2>6. /\ y \in Handler /\ SameSend(y, x) /\ (y.writable <=> x.writable)
          /\ y.caller = x.caller
      BY <2>2, <2>4, <2>5, EmitReadBuffer, EmitUser DEF SameCore, SameCaller
    <2>7. ReadGone \/ h' \in {x, y} \/ (h.receiver_waiting /\ h' = reset_waiting_recv(y))
      BY <1>4, <2>1, <2>3, <2>4 DEF UtpRead
    <2>8. CASE h.receiver_waiting /\ h' = reset_waiting_recv(y)
      <3>1. SameSend(h', y) /\ (h'.writable <=> y.writable)
        BY <2>6, <2>8 DEF reset_waiting_recv, Handler, SameSend
      <3> QED
        BY <1>2, <2>2, <2>6, <2>8, <3>1 DEF SameSend
    <2>9. CASE h' \in {x, y}
      BY <1>2, <2>2, <2>6, <2>9 DEF SameSend
    <2>10. CASE ReadGone
      <3>1. \/ h.receiver_waiting /\ h' = reset_waiting_recv(h)
            \/ h' = [h EXCEPT !.active = "false"]
            \/ h' = h
        BY <2>10 DEF ReadGone
      <3> QED
        BY <1>1, <1>2, <3>1 DEF reset_waiting_recv, Handler, SameSend
    <2> QED
      BY <2>7, <2>8, <2>9, <2>10
  <1>5. CASE UtpEof
    <2>1. PICK x : x = [h EXCEPT !.wq = 0]
      OBVIOUS
    <2>2. x \in Handler /\ SameSend(x, h) /\ x.caller = h.caller
      BY <1>1, <2>1 DEF Handler, SameSend
    <2>3. PICK y : /\ y = IF h.status # "stopped" THEN close_utp(x) ELSE x
                   /\ h' = [y EXCEPT !.writable = FALSE, !.eof_seen = TRUE]
      BY <1>5, <2>1 DEF UtpEof
    <2>4. y \in Handler /\ SameSend(y, x) /\ y.caller = x.caller
      BY <2>2, <2>3, CloseUtp, CloseUtpUser DEF SameSend, SameCaller
    <2>5. SameSend(h', y) /\ h'.caller = y.caller /\ ~h'.writable
      BY <2>3, <2>4 DEF Handler, SameSend
    <2> QED
      BY <1>2, <2>2, <2>4, <2>5 DEF SameSend
  <1>6. ASSUME NEW e, NEW s, DoError(e, s)
        PROVE  SameSend(h', h) /\ h'.caller = h.caller /\ (h'.writable <=> h.writable)
    <2>1. close_utp(h).writable <=> h.writable
      BY <1>1 DEF close_utp, Handler
    <2> QED
      BY <1>1, <1>6, <2>1, CloseUtpUser DEF DoError, Handler, SameSend, SameCaller
  <1>7. CASE UtpReset \/ UtpTimeout \/ SendError \/ UtpDelayOver
    BY <1>2, <1>6, <1>7 DEF UtpReset, UtpTimeout, SendError, UtpDelayOver, SameSend
  <1>8. CASE UtpDestroying
    <2>1. PICK x : x = [h EXCEPT !.selected = FALSE]
      OBVIOUS
    <2>2. x \in Handler /\ SameSend(x, h) /\ x.caller = h.caller
          /\ (x.writable <=> h.writable)
      BY <1>1, <2>1 DEF Handler, SameSend
    <2>3. \/ /\ h.close_pending
             /\ h' = [x EXCEPT !.caller = Nil, !.close_pending = FALSE, !.writable = FALSE,
                               !.status = "destroying", !.eof_seen = FALSE]
          \/ h' = [x EXCEPT !.writable = FALSE, !.status = "destroying", !.eof_seen = FALSE]
          \/ h' = [x EXCEPT !.deleted = TRUE]
          \/ h' = x
      BY <1>8, <2>1 DEF UtpDestroying
    <2> QED
      BY <1>2, <2>2, <2>3, ZenonT(60) DEF Handler, SameSend
  <1> QED
    BY <1>3, <1>4, <1>5, <1>7, <1>8 DEF Main

\* A retry sent to a sender whose wait is still in its mailbox.
LEMMA RetryAfterWait == Append(<<"wait">>, "retry") = <<"wait", "retry">>
  <1> DEFINE S == {"wait", "retry"}
  <1>1. <<"wait">> \in Seq(S) /\ Len(<<"wait">>) = 1 /\ <<"wait">>[1] = "wait"
        /\ "retry" \in S
    OBVIOUS
  <1>2. /\ <<"wait", "retry">> \in Seq(S) /\ Len(<<"wait", "retry">>) = 2
        /\ <<"wait", "retry">>[1] = "wait" /\ <<"wait", "retry">>[2] = "retry"
    OBVIOUS
  <1> HIDE DEF S
  <1>3. PICK q \in Seq(S) : q = <<"wait">> /\ Len(q) = 1 /\ q[1] = "wait"
    BY <1>1, Zenon
  <1>4. PICK t \in Seq(S) : t = <<"wait", "retry">> /\ Len(t) = 2 /\ t[1] = "wait" /\ t[2] = "retry"
    BY <1>2, Zenon
  <1>5. PICK v \in S : v = "retry"
    BY <1>1, Zenon
  <1>6. PICK r : r = Append(q, v)
    OBVIOUS
  <1>7. /\ Append(q, v) \in Seq(S) /\ Len(Append(q, v)) = Len(q) + 1
        /\ Append(q, v)[Len(q) + 1] = v /\ \A i \in 1..Len(q) : Append(q, v)[i] = q[i]
    BY <1>3, <1>5
  <1>8. r \in Seq(S) /\ Len(r) = Len(q) + 1 /\ r[Len(q) + 1] = "retry"
        /\ \A i \in 1..Len(q) : r[i] = q[i]
    BY <1>5, <1>6, <1>7, Zenon
  <1>9. Len(r) = 2 /\ r[1] = "wait" /\ r[2] = "retry"
    BY <1>3, <1>8
  <1>10. \A i \in 1..Len(r) : r[i] = t[i]
    BY <1>4, <1>9
  <1>11. r = t
    BY <1>4, <1>8, <1>9, <1>10
  <1> QED
    BY <1>3, <1>4, <1>5, <1>6, <1>11, Zenon

\* Taking the only retry leaves nothing.
LEMMA LastRetry == WithoutRetry(<<"retry">>) = <<>>
  <1>1. PICK q \in Seq({"retry"}) : q = <<"retry">> /\ Len(q) = 1 /\ q[1] = "retry"
    <2>1. <<"retry">> \in Seq({"retry"}) /\ Len(<<"retry">>) = 1 /\ <<"retry">>[1] = "retry"
      OBVIOUS
    <2> QED
      BY <2>1, Zenon
  <1>2. PICK i : i = CHOOSE j \in 1..Len(q) :
                       q[j] = "retry" /\ \A k \in 1..(j - 1) : q[k] # "retry"
    OBVIOUS
  <1>3. \E j \in 1..Len(q) : q[j] = "retry" /\ \A k \in 1..(j - 1) : q[k] # "retry"
    BY <1>1
  <1>4. i \in 1..Len(q)
    BY <1>2, <1>3, Zenon
  <1>5. i = 1
    BY <1>1, <1>4
  <1>6. SubSeq(q, 1, i - 1) = <<>> /\ SubSeq(q, i + 1, Len(q)) = <<>>
    BY <1>1, <1>5
  <1>7. WithoutRetry(q) = SubSeq(q, 1, i - 1) \o SubSeq(q, i + 1, Len(q))
    BY <1>2, Zenon DEF WithoutRetry
  <1>8. WithoutRetry(q) = <<>> \o <<>>
    BY <1>6, <1>7, Zenon
  <1>9. <<>> \o <<>> = <<>>
    OBVIOUS
  <1> QED
    BY <1>1, <1>8, <1>9, Zenon

\* WRITABLE tells the waiting sender to retry when libutp has room again; no
\* other callback touches a sender.
LEMMA SenderMain ==
    ASSUME ~SMP, Procs = {Owner}, UserInv, SenderInv, Main PROVE SenderInv'
  <1>1. /\ pt' = pt /\ pt.pc = "idle" /\ pc' = pc /\ res' = res /\ ConnInv /\ h \in Handler
        /\ InCall
    BY MainAlone DEF UserInv, ConnInv, TypeOK, Main, UtpConnect, UtpWritable, UtpRead,
       UtpEof, UtpReset, UtpTimeout, SendError, UtpDelayOver, UtpFinAcked, UtpDestroying,
       Incoming, procVars
  <1>2. ASSUME pc[Owner] \in Sending
        PROVE  up /\ sock \notin Early /\ ~h.receiver_waiting /\ ~h.close_pending
    BY <1>1, <1>2 DEF Sending, InCall, UserInv, EarlyInv, Early, MailInv, CloserInv,
       ReaderInv, Receiving
  <1>3. CASE ~UtpWritable
    <2>1. /\ SameSend(h', h) /\ replies' = replies
          /\ h'.writable => h.writable \/ UtpConnect \/ Incoming
          /\ h'.caller = h.caller \/ h.receiver_waiting \/ h.close_pending
      BY <1>1, <1>3, MainSendFields
    <2>2. ASSUME pc[Owner] \in Sending PROVE h'.caller = h.caller /\ (h'.writable => h.writable)
      BY <1>2, <2>1, <2>2 DEF UtpConnect, Incoming, Early
    <2> QED
      BY <1>1, <2>1, <2>2 DEF SenderInv, Told, SameSend, Sending
  <1>4. CASE UtpWritable
    <2>1. PICK ok \in BOOLEAN :
             /\ SameCaller(h', h) /\ h'.send_tmout = h.send_tmout
             /\ (h'.sender_waiting <=> h.sender_waiting /\ ~ok)
             /\ (h'.writable <=> ok)
             /\ IF ok /\ h.sender_waiting THEN SendReply(h.caller, "retry")
                ELSE UNCHANGED replies
      BY <1>1, <1>4, WritableEffect
    <2>2. CASE pc[Owner] \notin Sending
      BY <1>1, <2>1, <2>2 DEF SenderInv, Sending
    <2>3. CASE pc[Owner] \in Sending /\ ~(ok /\ h.sender_waiting)
      BY <1>1, <2>1, <2>3 DEF SenderInv, Told, Sending, SameCaller
    <2>4. CASE pc[Owner] \in Sending /\ ok /\ h.sender_waiting
      <3>1. h.caller = Owner /\ replies' = [replies EXCEPT ![Owner] = Append(@, "retry")]
        BY <1>2, <2>1, <2>4 DEF SenderInv, Told, Sending, SendReply
      <3>2. replies'[Owner] = Append(replies[Owner], "retry")
        BY <1>1, <3>1 DEF InCall
      <3>3. Append(<<>>, "retry") = <<"retry">>
        OBVIOUS
      <3>4. \/ pc[Owner] = "send_reply" /\ replies'[Owner] = <<"wait", "retry">>
            \/ pc[Owner] = "send_retry" /\ replies'[Owner] = <<"retry">>
        BY <2>4, <3>2, <3>3, RetryAfterWait, Zenon DEF SenderInv, Sending
      <3> QED
        BY <1>1, <2>1, <2>4, <3>4 DEF SenderInv, Sending
    <2> QED
      BY <2>2, <2>3, <2>4
  <1> QED
    BY <1>3, <1>4

\* outputv registers the sender it tells to wait, while the socket is full.
LEMMA SenderPort ==
    ASSUME Procs = {Owner}, UserInv, UserInv', SenderInv, PortThread PROVE SenderInv'
  <1>1. /\ h \in Handler /\ h' \in Handler /\ pt \in PortStates /\ pt.by = Owner
        /\ pc \in [Procs -> ProcPcs] /\ ConnInv /\ InCall /\ pt.pc # "idle"
        /\ pc[Owner] \in {"port", "dead"} /\ up' = up
    BY DEF UserInv, ConnInv, TypeOK, PortStates, PortThread, OutputvWrite, OutputvNote,
       OutputvWait, RecvEmit, RecvDrained, RecvNote, SetoptsAssign, SetoptsEmit, SetoptsBuf,
       CloseLocked, StopTest, StopMark, StopSelected, ConnectAnswer, At, InCall
  <1>2. pt.pc \notin Stopping => pc[Owner] = "port" /\ up
    BY <1>1 DEF InCall, ConnInv, StopOrder
  <1>3. pc[Owner] = "port" => replies[Owner] = <<>>
        /\ (h.sender_waiting => pt.pc = "wait_reply")
    BY DEF SenderInv, Sending
  <1>4. ASSUME NEW v, SendReply(Owner, v), up, replies[Owner] = <<>>
        PROVE  replies'[Owner] = <<v>>
    <2>1. replies' = [replies EXCEPT ![Owner] = Append(@, v)]
      BY <1>4 DEF SendReply
    <2>2. replies'[Owner] = Append(<<>>, v)
      BY <1>1, <1>4, <2>1 DEF InCall
    <2> QED
      BY <2>2
  <1>5. CASE OutputvWrite
    <2>1. pt.pc = "write" /\ pc[Owner] = "port" /\ up /\ res' = res
      BY <1>2, <1>5 DEF OutputvWrite, At, Stopping
    <2>2. CASE UNCHANGED <<h, replies, pc, pt>>
      BY <2>1, <2>2 DEF SenderInv, Sending
    <2>3. CASE ~UNCHANGED <<h, replies, pc, pt>>
      <3>1. PICK w \in UTP_Write(sock, pt.n, 0) :
              /\ h' = [h EXCEPT !.writable = w.ok, !.wq = @ - w.took]
              /\ SendReply(Owner, "ok") /\ Becomes(Owner, "send_reply") /\ pt' = Idle
        BY <1>1, <1>5, <2>3 DEF OutputvWrite
      <3>2. SameSend(h', h)
        BY <1>1, <3>1 DEF Handler, SameSend
      <3>3. pc'[Owner] = "send_reply" /\ replies'[Owner] = <<"ok">>
        BY <1>1, <1>3, <1>4, <2>1, <3>1 DEF Becomes
      <3> QED
        BY <1>3, <2>1, <3>1, <3>2, <3>3, IdleType DEF SenderInv, SameSend, Sending
    <2> QED
      BY <2>2, <2>3
  <1>6. CASE OutputvNote
    <2>1. pt.pc = "wait_lock" /\ pc[Owner] = "port" /\ res' = res /\ replies' = replies
          /\ pc' = pc
      BY <1>2, <1>6 DEF OutputvNote, At, Stopping
    <2>2. h'.send_tmout = h.send_tmout /\ h'.sender_waiting /\ h'.caller = Owner
          /\ (h'.writable <=> h.writable)
      BY <1>1, <1>6 DEF OutputvNote, Handler
    <2>3. pt'.pc = "wait_reply"
      BY <1>1, <1>6 DEF OutputvNote, Goto, PortStates
    <2> QED
      BY <2>1, <2>2, <2>3 DEF SenderInv, Told, Sending
  <1>7. CASE OutputvWait
    <2>1. pt.pc = "wait_reply" /\ pc[Owner] = "port" /\ up /\ res' = res /\ h' = h
          /\ pt' = Idle
      BY <1>2, <1>7 DEF OutputvWait, At, Stopping
    <2>2. pc'[Owner] = "send_reply" /\ replies'[Owner] = <<"wait">>
      BY <1>1, <1>3, <1>4, <1>7, <2>1 DEF OutputvWait, Becomes
    <2> QED
      BY <2>1, <2>2, IdleType DEF SenderInv, Told, Sending
  <1>8. CASE ~OutputvWrite /\ ~OutputvNote /\ ~OutputvWait
    <2>1. SameSend(h', h)
      <3>1. CASE RecvDrained \/ RecvNote \/ SetoptsAssign \/ SetoptsBuf
        BY <1>1, <3>1, ZenonT(60)
           DEF RecvDrained, RecvNote, SetoptsAssign, SetoptsBuf, Handler, SameSend
      <3>2. CASE SetoptsEmit
        <4>1. h' = h \/ h' = emit_read_buffer(h, 0)
          BY <3>2 DEF SetoptsEmit
        <4>2. pc[Owner] = "port"
          BY <1>2, <3>2 DEF SetoptsEmit, At, Stopping
        <4>3. ~EmitsClosed(h)
          BY <4>2 DEF UserInv, MailInv, CloserInv, EmitsClosed
        <4> QED
          BY <1>1, <4>1, <4>3, EmitUser DEF SameSend
      <3>3. CASE CloseLocked
        BY <1>1, <3>3, ClosingForFields, CloseUtpUser DEF CloseLocked, SameSend
      <3>4. CASE StopTest \/ StopMark \/ StopSelected \/ ConnectAnswer
        BY <1>1, <3>4, ZenonT(60)
           DEF StopTest, StopMark, StopSelected, ConnectAnswer, Handler, SameSend
      <3>5. CASE RecvEmit
        <4>1. h' = emit_read_buffer(h, pt.n) /\ pt.n \in Nat
          BY <1>1, <3>5 DEF RecvEmit, PortStates
        <4>2. pc[Owner] = "port"
          BY <1>2, <3>5 DEF RecvEmit, At, Stopping
        <4>3. ~EmitsClosed(h)
          BY <4>2 DEF UserInv, MailInv, CloserInv, EmitsClosed
        <4> QED
          BY <1>1, <4>1, <4>3, EmitUser DEF SameSend
      <3> QED
        BY <1>8, <3>1, <3>2, <3>3, <3>4, <3>5 DEF PortThread
    <2>2. replies' = replies /\ pt.pc \notin {"wait_lock", "wait_reply"}
      BY <1>8 DEF PortThread, RecvEmit, RecvDrained, RecvNote, SetoptsAssign, SetoptsEmit,
         SetoptsBuf, CloseLocked, StopTest, StopMark, StopSelected, ConnectAnswer, At
    <2>3. res'[Owner] \in {res[Owner], "ok"}
      BY <1>1, <1>8 DEF PortThread, RecvEmit, RecvDrained, RecvNote, SetoptsAssign, SetoptsEmit,
         SetoptsBuf, CloseLocked, StopTest, StopMark, StopSelected, ConnectAnswer,
         Returns, InCall
    <2>4. pt'.pc \notin {"wait_lock", "wait_reply"}
      BY <1>1, <1>8, <2>2, IdleType DEF PortThread, RecvEmit, RecvDrained, RecvNote, SetoptsAssign,
         SetoptsEmit, SetoptsBuf, CloseLocked, StopTest, StopMark, StopSelected,
         ConnectAnswer, Goto, PortStates
    <2>5. pc'[Owner] \notin Sending \cup {"send_cancel"}
          /\ (pc[Owner] = "dead" => pc'[Owner] = "dead")
      <3>1. CASE StopTest \/ StopMark \/ StopSelected
        BY <1>1, <3>1 DEF StopTest, StopMark, StopSelected, Becomes, Returns, Sending
      <3>2. CASE ~(StopTest \/ StopMark \/ StopSelected)
        <4>1. pc[Owner] = "port"
          BY <1>2, <1>8, <3>2 DEF PortThread, RecvEmit, RecvDrained, RecvNote, SetoptsAssign,
             SetoptsEmit, SetoptsBuf, CloseLocked, ConnectAnswer, At, Stopping
        <4> QED
          BY <1>1, <1>8, <3>2, <4>1 DEF PortThread, RecvEmit, RecvDrained, RecvNote, SetoptsAssign,
             SetoptsEmit, SetoptsBuf, CloseLocked, ConnectAnswer, Becomes, Returns, Sending
      <3> QED
        BY <3>1, <3>2
    <2>6. res'[Owner] \notin {"retry", "wait"} /\ h'.send_tmout = h.send_tmout
      BY <2>1, <2>3 DEF SenderInv, SameSend
    <2>7. pc[Owner] = "dead" \/ (replies'[Owner] = <<>> /\ ~h'.sender_waiting)
      BY <1>1, <1>3, <2>1, <2>2 DEF SameSend
    <2> QED
      BY <2>4, <2>5, <2>6, <2>7, SenderQuiet
  <1> QED
    BY <1>5, <1>6, <1>7, <1>8

\* send/3 takes the replies in the order they were sent, and leaves none
\* behind.
LEMMA SenderProcess ==
    ASSUME Procs = {Owner}, UserInv, UserInv', SenderInv,
           ConnectStart \/ Connecting \/ OwnerExit \/ Start(Owner)
             \/ Continue(Owner) \/ TimesOut(Owner)
    PROVE  SenderInv'
  <1>1. /\ h \in Handler /\ h' \in Handler /\ pt \in PortStates /\ pc \in [Procs -> ProcPcs]
        /\ ConnInv /\ InCall
    BY DEF UserInv, ConnInv, TypeOK
  <1>2. pc[Owner] \notin Sending \cup {"dead", "port"} =>
          replies[Owner] = <<>> /\ ~h.sender_waiting /\ pt.pc = "idle"
    BY <1>1 DEF SenderInv, InCall
  <1>3. pc[Owner] \notin {"dead", "port"} => pt.pc = "idle"
    BY <1>1 DEF InCall
  <1>4. ASSUME NEW n, Outputv(Owner, n), up, pc[Owner] \in {"idle", "send_again"},
               res' = res
        PROVE  SenderInv'
    <2>1. replies[Owner] = <<>> /\ ~h.sender_waiting /\ pt.pc = "idle"
      BY <1>2, <1>4 DEF Sending
    <2>2. CASE SendReply(Owner, "error") /\ Becomes(Owner, "send_reply") /\ UNCHANGED <<h, pt>>
      <3>1. replies' = [replies EXCEPT ![Owner] = Append(@, "error")]
        BY <1>4, <2>2 DEF SendReply
      <3>2. replies'[Owner] = Append(<<>>, "error") /\ pc'[Owner] = "send_reply"
        BY <1>1, <2>1, <2>2, <3>1 DEF InCall, Becomes
      <3>3. replies'[Owner] = <<"error">>
        BY <3>2
      <3> QED
        BY <1>4, <2>1, <2>2, <3>2, <3>3 DEF SenderInv, Sending
    <2>3. CASE h' = [h EXCEPT !.wq = @ + n] /\ PortCall("write", Owner, n, "none", "none")
               /\ Becomes(Owner, "port") /\ UNCHANGED replies
      <3>1. SameSend(h', h)
        BY <1>1, <2>3 DEF Handler, SameSend
      <3>2. pc'[Owner] = "port" /\ pt'.pc = "write"
        BY <1>1, <2>3 DEF Becomes, PortCall
      <3> QED
        BY <1>4, <2>1, <2>3, <3>1, <3>2 DEF SenderInv, Sending, SameSend
    <2>4. CASE ~h.writable /\ PortCall("wait_lock", Owner, 0, "none", "none")
               /\ Becomes(Owner, "port") /\ UNCHANGED <<h, replies>>
      <3>1. pc'[Owner] = "port" /\ pt'.pc = "wait_lock"
        BY <1>1, <2>4 DEF Becomes, PortCall
      <3> QED
        BY <1>4, <2>1, <2>4, <3>1 DEF SenderInv, Sending
    <2> QED
      BY <1>4, <2>2, <2>3, <2>4 DEF Outputv
  <1>5. CASE SendReplied(Owner)
    <2>1. /\ pc[Owner] = "send_reply" /\ UNCHANGED <<h, pt>> /\ pt.pc = "idle"
          /\ replies' = [replies EXCEPT ![Owner] = Tail(@)]
      BY <1>3, <1>5 DEF SendReplied
    <2>2. replies'[Owner] = Tail(replies[Owner])
      BY <1>1, <2>1 DEF InCall
    <2>3. /\ Tail(<<"wait", "retry">>) = <<"retry">> /\ Tail(<<"wait">>) = <<>>
          /\ Tail(<<"ok">>) = <<>> /\ Tail(<<"error">>) = <<>>
          /\ Head(<<"wait", "retry">>) = "wait" /\ Head(<<"wait">>) = "wait"
          /\ Head(<<"ok">>) = "ok" /\ Head(<<"error">>) = "error"
      OBVIOUS
    <2>4. CASE Head(replies[Owner]) = "wait"
      <3>1. pc'[Owner] = "send_retry" /\ res' = res
        BY <1>1, <1>5, <2>4 DEF SendReplied, Becomes, SenderInv
      <3>2. \/ replies'[Owner] = <<"retry">> /\ ~h.sender_waiting
            \/ replies'[Owner] = <<>> /\ Told
        BY <2>1, <2>2, <2>3, <2>4, Zenon DEF SenderInv
      <3> QED
        BY <2>1, <3>1, <3>2 DEF SenderInv, Told, Sending
    <2>5. CASE Head(replies[Owner]) # "wait"
      <3>1. /\ replies'[Owner] = <<>> /\ ~h.sender_waiting
            /\ Head(replies[Owner]) \in {"ok", "error"}
        BY <2>1, <2>2, <2>3, <2>5, Zenon DEF SenderInv
      <3>2. pc'[Owner] = "idle" /\ res'[Owner] = Head(replies[Owner])
        BY <1>1, <1>5, <2>5 DEF SendReplied, Returns, Becomes, InCall
      <3> QED
        BY <2>1, <3>1, <3>2, SenderQuiet DEF Sending
    <2> QED
      BY <2>4, <2>5
  <1>6. CASE TakeRetry(Owner)
    <2>1. /\ pc[Owner] = "send_retry" /\ UNCHANGED <<h, pt, res>> /\ pt.pc = "idle"
          /\ HasRetry(Owner) /\ replies' = [replies EXCEPT ![Owner] = WithoutRetry(@)]
      BY <1>3, <1>6 DEF TakeRetry
    <2>2. replies[Owner] # <<>>
      BY <2>1 DEF HasRetry
    <2>3. replies[Owner] = <<"retry">> /\ ~h.sender_waiting
      BY <2>1, <2>2 DEF SenderInv
    <2>4. replies'[Owner] = <<>>
      <3>1. replies'[Owner] = WithoutRetry(replies[Owner])
        BY <1>1, <2>1 DEF InCall
      <3> QED
        BY <2>3, <3>1, LastRetry, Zenon
    <2>5. pc'[Owner] = "send_again" /\ res[Owner] \notin {"retry", "wait"}
      BY <1>1, <1>6 DEF TakeRetry, Becomes, SenderInv
    <2> QED
      BY <2>1, <2>3, <2>4, <2>5, SenderQuiet DEF Sending
  <1>7. CASE Resend(Owner) /\ up
    BY <1>4, <1>7 DEF Resend
  <1>8. ASSUME NEW n \in SendSizes, Send(Owner, n) PROVE SenderInv'
    <2>1. Outputv(Owner, n) /\ up /\ pc[Owner] = "idle" /\ res' = res
      BY <1>8 DEF Send, Begin
    <2> QED
      BY <1>4, <2>1
  <1>9. ~SendTimesOut(Owner) /\ ~CancelSend(Owner)
    BY DEF SendTimesOut, CancelSend, SenderInv
  <1>10. CASE OwnerExit
    <2>1. pc'[Owner] = "dead" /\ res' = res /\ pt.pc = "idle"
          /\ (pt' = pt \/ pt'.pc = "stop_test")
      BY <1>1, <1>10 DEF OwnerExit, Becomes, StopBegin, Linger, PortCall
    <2>2. SameSend(h', h)
      <3>1. h' = h \/ h' = close_utp(h)
        BY <1>10 DEF OwnerExit, StopBegin, Linger
      <3> QED
        BY <1>1, <3>1, CloseUtpUser DEF SameSend
    <2>3. res'[Owner] \notin {"retry", "wait"} /\ pt'.pc \notin {"wait_lock", "wait_reply"}
      BY <2>1 DEF SenderInv
    <2> QED
      BY <2>1, <2>2, <2>3, SenderQuiet DEF SameSend, Sending
  <1>11. CASE /\ ~SendReplied(Owner) /\ ~TakeRetry(Owner) /\ ~(Resend(Owner) /\ up)
              /\ (\A n \in SendSizes : ~Send(Owner, n)) /\ ~OwnerExit
    <2>1. /\ pc[Owner] \notin Sending \cup {"dead", "port"} /\ replies' = replies
      BY <1>9, <1>11 DEF ConnectStart, Connecting, ConnectValidate, ConnectReplied,
         ConnectClose, Start, Recv, Setopts, Close, PortGone, Begin, Continue, Resend,
         RecvReplied, CancelRecv, CloseReplied, PortClose, TimesOut, RecvTimesOut, Sending
    <2>2. replies[Owner] = <<>> /\ ~h.sender_waiting /\ pt.pc = "idle"
      BY <1>2, <2>1
    <2>3. SameSend(h', h)
      <3>1. ASSUME NEW len \in RecvLens, Recv(Owner, len) PROVE SameSend(h', h)
        BY <3>1 DEF Recv, SameSend
      <3>2. CASE ConnectStart
        <4>1. PICK st : h' = [h EXCEPT !.status = st, !.utp = TRUE, !.selected = TRUE]
          BY <3>2, Zenon DEF ConnectStart
        <4> QED
          BY <1>1, <4>1 DEF Handler, SameSend
      <3>3. CASE CancelRecv(Owner)
        BY <1>1, <3>3 DEF CancelRecv, reset_waiting_recv, Handler, SameSend
      <3>4. CASE PortClose(Owner)
        <4>1. h' = h \/ h' = close_utp(h)
          BY <3>4 DEF PortClose, StopBegin, Linger
        <4> QED
          BY <1>1, <4>1, CloseUtpUser DEF SameSend
      <3>5. CASE ~ConnectStart /\ ~CancelRecv(Owner) /\ ~PortClose(Owner)
                 /\ (\A len \in RecvLens : ~Recv(Owner, len))
        <4>1. h' = h
          BY <1>9, <1>11, <3>5 DEF Connecting, ConnectValidate, ConnectReplied,
             ConnectClose, Start, Setopts, Close, PortGone, Continue, Resend, RecvReplied,
             CloseReplied, TimesOut, RecvTimesOut
        <4> QED
          BY <4>1 DEF SameSend
      <3> QED
        BY <3>1, <3>2, <3>3, <3>4, <3>5
    <2>4. pt'.pc \notin {"wait_lock", "wait_reply"}
      <3>1. CASE Connecting \/ Start(Owner)
        BY <1>11, <2>2, <3>1 DEF Connecting, ConnectValidate, ConnectReplied,
           ConnectClose, CloseTest, Start, Recv, Setopts, Close, PortGone, PortCall
      <3>2. CASE Continue(Owner) \/ TimesOut(Owner)
        BY <1>9, <1>11, <2>2, <3>2 DEF Continue, Resend, RecvReplied, CancelRecv,
           CloseReplied, PortClose, StopBegin, Linger, TimesOut, RecvTimesOut, PortCall
      <3>3. CASE ConnectStart
        BY <2>2, <3>3, Zenon DEF ConnectStart
      <3> QED
        BY <1>11, <3>1, <3>2, <3>3
    <2>5. res'[Owner] \in {res[Owner], "ok", "error", "badarg"}
      BY <1>1, <1>9, <1>11 DEF ConnectStart, Connecting, ConnectValidate, ConnectReplied,
         ConnectClose, Start, Recv, Setopts, Close, PortGone, Continue, Resend, RecvReplied,
         CancelRecv, CloseReplied, PortClose, TimesOut, RecvTimesOut, Returns, InCall
    <2>6. pc'[Owner] \notin Sending \cup {"send_cancel"}
      BY <1>1, <1>9, <1>11 DEF ConnectStart, Connecting, ConnectValidate, ConnectReplied,
         ConnectClose, CloseTest, Start, Recv, Setopts, Close, PortGone, Continue, Resend,
         RecvReplied, CancelRecv, CloseReplied, PortClose, TimesOut, RecvTimesOut, Returns,
         Becomes, Sending
    <2>7. res'[Owner] \notin {"retry", "wait"}
      BY <2>5 DEF SenderInv
    <2> QED
      BY <2>1, <2>2, <2>3, <2>4, <2>6, <2>7, SenderQuiet DEF SameSend
  <1> QED
    BY <1>5, <1>6, <1>7, <1>8, <1>10, <1>11

\* The account of the sender holds throughout.
LEMMA SenderInvariant ==
    ASSUME Procs = {Owner}, ~SMP, "finite" \notin SendTmouts
    PROVE  Spec => [](UserInv /\ SenderInv)
  <1>1. ASSUME Init PROVE SenderInv
    <2>1. PICK a \in Actives, tmout \in SendTmouts : h = NewHandler(a, tmout)
      BY <1>1 DEF Init
    <2>2. h.send_tmout # "finite" /\ ~h.sender_waiting
      BY <2>1 DEF NewHandler
    <2>3. pc[Owner] = "idle" /\ replies[Owner] = <<>> /\ pt.pc = "idle"
          /\ res[Owner] = "none"
      BY <1>1, IdleType DEF Init
    <2> QED
      BY <2>2, <2>3 DEF SenderInv, Sending
  <1>2. ASSUME UserInv, UserInv', SenderInv, [Next]_vars PROVE SenderInv'
    <2>1. CASE UNCHANGED vars
      BY <1>2, <2>1 DEF vars, SenderInv, Told
    <2>2. CASE Next
      BY <1>2, <2>2, SenderMain, SenderPort, SenderProcess DEF Next
    <2> QED
      BY <1>2, <2>1, <2>2
  <1> QED
    BY <1>1, <1>2, OneUserInvariant, PTL DEF Spec

\* On one scheduler, a user told to wait for a retry is the one the WRITABLE
\* callback will find, and the socket is full, so WRITABLE will come.  Send
\* timeouts are excluded: a send that gives up on one may leave a reply to the
\* next.
THEOREM SenderIsWoken ==
    ASSUME Procs = {Owner}, ~SMP, "finite" \notin SendTmouts
    PROVE  Spec => []SenderNotStranded
  <1>1. UserInv /\ SenderInv => SenderNotStranded
    <2>1. SUFFICES ASSUME SenderInv, pc[Owner] = "send_retry", ~HasRetry(Owner) PROVE Told
      BY DEF SenderNotStranded, Told
    <2>2. replies[Owner] # <<"retry">>
      <3>1. <<"retry">>[1] = "retry" /\ 1 \in 1..Len(<<"retry">>)
        OBVIOUS
      <3> QED
        BY <2>1, <3>1, Zenon DEF HasRetry
    <2> QED
      BY <2>1, <2>2 DEF SenderInv
  <1> QED
    BY <1>1, SenderInvariant, PTL

\* Under the same conditions send/2 returns ok or an error: the wait and retry
\* replies of the driver are used up inside send/3.
THEOREM SendResult ==
    ASSUME Procs = {Owner}, ~SMP, "finite" \notin SendTmouts
    PROVE  Spec => []SendResultDocumented
  <1>1. UserInv /\ SenderInv => SendResultDocumented
    BY DEF SenderInv, SendResultDocumented
  <1> QED
    BY <1>1, SenderInvariant, PTL

-----------------------------------------------------------------------------

\* What a port call read of the status still holds when it acts on it.
FinalInv ==
    /\ pc[Owner] # "dead"
    /\ pt.pc = "validate" => pt.seen = h.status
    /\ pt.pc = "close_lock" => CloseWaits
    /\ h.status = "destroying" => ~h.eof_seen

\* A callback lets a connection on its way out only move on.
LEMMA FinalMain ==
    ASSUME ~SMP, Procs = {Owner}, UserInv, FinalInv, Main
    PROVE  FinalInv' /\ Rank(h'.status) >= Rank(h.status)
  <1>1. /\ pt' = pt /\ pt.pc = "idle" /\ pc' = pc /\ ConnInv /\ h \in Handler
    BY MainAlone DEF UserInv, ConnInv, TypeOK
  <1>2. h.status # "destroying"
    BY <1>1 DEF Main, UtpConnect, UtpWritable, UtpRead, ReadGone, UtpEof, UtpReset, UtpTimeout,
       SendError, UtpDelayOver, UtpFinAcked, UtpDestroying, Incoming, ConnInv, StopOrder
  <1>3. h.close_pending => h.status # "stopped"
    BY <1>1 DEF UserInv, FinalInv, MailInv, CloserInv, InCall, ConnInv, StopOrder
  <1>4. UtpConnect
        \/ Incoming => h.status \in {"not_connected", "connect_pending", "connect_failed"}
    BY DEF UtpConnect, Incoming, UserInv, EarlyInv, Early
  <1>5. h'.status = "destroying" => ~h'.eof_seen
    BY <1>1, <1>2, StatusMain
  <1>6. FinalInv'
    BY <1>1, <1>5 DEF FinalInv
  <1>7. Rank(h'.status) >= Rank(h.status)
    BY <1>1, <1>2, <1>3, <1>4, StatusMain DEF Rank
  <1> QED
    BY <1>6, <1>7

\* So does a port call: what it decided before taking utp_mutex still holds
\* when it acts.
LEMMA FinalPort ==
    ASSUME Procs = {Owner}, UserInv, UserInv', FinalInv, PortThread
    PROVE  FinalInv' /\ Rank(h'.status) >= Rank(h.status)
  <1>1. /\ h \in Handler /\ h' \in Handler /\ pt \in PortStates /\ pt.by = Owner
        /\ pc \in [Procs -> ProcPcs] /\ ConnInv /\ InCall /\ pt.pc # "idle"
        /\ pc[Owner] = "port"
    BY DEF UserInv, ConnInv, TypeOK, PortStates, PortThread, OutputvWrite, OutputvNote,
       OutputvWait, RecvEmit, RecvDrained, RecvNote, SetoptsAssign, SetoptsEmit, SetoptsBuf,
       CloseLocked, StopTest, StopMark, StopSelected, ConnectAnswer, At, InCall, FinalInv
  <1>2. pc'[Owner] # "dead"
    BY <1>1 DEF PortThread, OutputvWrite, OutputvNote, OutputvWait, RecvEmit, RecvDrained, RecvNote,
       SetoptsAssign, SetoptsEmit, SetoptsBuf, CloseLocked, StopTest, StopMark,
       StopSelected, ConnectAnswer, Becomes, Returns
  <1>3. pt'.pc \notin {"validate", "close_lock"}
    BY <1>1, IdleType DEF PortThread, OutputvWrite, OutputvNote, OutputvWait, RecvEmit, RecvDrained,
       RecvNote, SetoptsAssign, SetoptsEmit, SetoptsBuf, CloseLocked, StopTest, StopMark,
       StopSelected, ConnectAnswer, Goto, At, PortStates
  <1>4. ASSUME h'.status = "destroying" PROVE ~h'.eof_seen
    <2>1. h.status = "destroying"
      BY <1>1, <1>4, StatusPort
    <2>2. h'.eof_seen => h.eof_seen
      <3>1. CASE OutputvWrite \/ OutputvNote \/ OutputvWait \/ RecvDrained \/ RecvNote
                   \/ SetoptsAssign \/ SetoptsBuf
        BY <1>1, <3>1, ZenonT(60) DEF OutputvWrite, OutputvNote, OutputvWait, RecvDrained,
           RecvNote, SetoptsAssign, SetoptsBuf, Handler
      <3>2. CASE SetoptsEmit
        <4>1. h' = h \/ h' = emit_read_buffer(h, 0)
          BY <3>2 DEF SetoptsEmit
        <4>2. ~EmitsClosed(h)
          BY <1>1 DEF UserInv, MailInv, CloserInv, EmitsClosed
        <4> QED
          BY <1>1, <4>1, <4>2, EmitUser
      <3>3. CASE CloseLocked
        BY <1>1, <1>4, <3>3, ClosingForFields, CloseUtp DEF CloseLocked
      <3>4. CASE StopTest \/ StopMark \/ StopSelected \/ ConnectAnswer
        BY <1>1, <3>4 DEF StopTest, StopMark, StopSelected, ConnectAnswer, Handler
      <3>5. CASE RecvEmit
        <4>1. h' = emit_read_buffer(h, pt.n) /\ pt.n \in Nat
          BY <1>1, <3>5 DEF RecvEmit, PortStates
        <4>2. ~EmitsClosed(h)
          BY <1>1 DEF UserInv, MailInv, CloserInv, EmitsClosed
        <4> QED
          BY <1>1, <4>1, <4>2, EmitUser
      <3> QED
        BY <3>1, <3>2, <3>3, <3>4, <3>5 DEF PortThread
    <2> QED
      BY <2>1, <2>2 DEF FinalInv
  <1>5. CloseLocked => h.status \notin {"destroying", "stopped"}
    <2>1. CloseLocked => pt.pc = "close_lock"
      BY DEF CloseLocked, At
    <2>2. pt.pc = "close_lock" => up /\ CloseWaits
      BY <1>1 DEF FinalInv, ConnInv, StopOrder, Stopping
    <2> QED
      BY <1>1, <2>1, <2>2 DEF FinalInv, CloseWaits, ConnInv, StopOrder
  <1>6. ConnectAnswer => h.status = pt.seen
    BY DEF ConnectAnswer, At, FinalInv
  <1>7. Rank(h'.status) >= Rank(h.status)
    BY <1>1, <1>5, <1>6, StatusPort DEF Rank, Handler, Status
  <1>8. FinalInv'
    BY <1>2, <1>3, <1>4 DEF FinalInv
  <1> QED
    BY <1>7, <1>8

\* So does a user, who closes the libutp socket at most once.
LEMMA FinalProcess ==
    ASSUME Procs = {Owner}, "exit" \notin Calls[Owner], UserInv, UserInv', FinalInv,
           ConnectStart \/ Connecting \/ OwnerExit \/ Start(Owner)
             \/ Continue(Owner) \/ TimesOut(Owner)
    PROVE  FinalInv' /\ Rank(h'.status) >= Rank(h.status)
  <1>1. /\ h \in Handler /\ h' \in Handler /\ pt \in PortStates /\ pc \in [Procs -> ProcPcs]
        /\ ConnInv /\ InCall /\ ~OwnerExit
    BY DEF UserInv, ConnInv, TypeOK, OwnerExit
  <1>2. pc[Owner] # "port" /\ pt.pc = "idle"
    <2>1. pc[Owner] # "port"
      <3>1. CASE ConnectStart \/ Connecting
        BY <3>1 DEF ConnectStart, Connecting, ConnectValidate, ConnectReplied, ConnectClose
      <3>2. CASE Start(Owner)
        BY <3>2 DEF Start, Send, Recv, Setopts, Close, PortGone, Begin
      <3>3. CASE Continue(Owner) \/ TimesOut(Owner)
        BY <3>3 DEF Continue, SendReplied, TakeRetry, Resend, CancelSend, RecvReplied,
           CancelRecv, CloseReplied, PortClose, TimesOut, SendTimesOut, RecvTimesOut
      <3> QED
        BY <1>1, <3>1, <3>2, <3>3
    <2> QED
      BY <1>1, <2>1 DEF InCall, FinalInv
  <1>3. pc'[Owner] # "dead"
    <2>1. CASE ConnectStart \/ Connecting
      BY <1>1, <2>1 DEF ConnectStart, Connecting, ConnectValidate, ConnectReplied,
         ConnectClose, CloseTest, Becomes, Returns
    <2>2. CASE Start(Owner)
      BY <1>1, <2>2 DEF Start, Send, Outputv, Recv, Setopts, Close, CloseTest, PortGone,
         Becomes, Returns, FinalInv
    <2>3. CASE Continue(Owner) \/ TimesOut(Owner)
      BY <1>1, <2>3 DEF Continue, SendReplied, TakeRetry, Resend, Outputv, CancelSend,
         RecvReplied, CancelRecv, CloseReplied, PortClose, TimesOut, SendTimesOut,
         RecvTimesOut, Becomes, Returns
    <2> QED
      BY <1>1, <2>1, <2>2, <2>3
  <1>4. CASE ConnectStart
    <2>1. PICK st \in {"connect_pending", "connect_failed"} :
            h' = [h EXCEPT !.status = st, !.utp = TRUE, !.selected = TRUE]
      BY <1>4 DEF ConnectStart
    <2>2. h.status = "not_connected" /\ h'.status = st /\ pt' = pt
      BY <1>1, <1>4, <2>1 DEF ConnectStart, Handler
    <2> QED
      BY <1>2, <1>3, <2>2 DEF FinalInv, Rank
  <1>5. CASE ~ConnectStart
    <2>1. \/ h'.status = h.status
          \/ up /\ pt.pc = "idle" /\ h' = close_utp(h)
      BY <1>1, <1>5, StatusProcess
    <2>2. h'.status = h.status
          \/ (h'.status = "closing" /\ h.status \notin {"destroying", "stopped"})
      <3>1. up => h.status # "stopped"
        BY <1>1 DEF ConnInv, StopOrder
      <3>2. h' = close_utp(h) => h'.status = h.status
            \/ (h'.status = "closing" /\ h.status # "destroying")
        BY <1>1 DEF close_utp, Closes, Handler
      <3> QED
        BY <2>1, <3>1, <3>2
    <2>3. Rank(h'.status) >= Rank(h.status)
      BY <1>1, <2>2 DEF Rank, Handler, Status
    <2>4. h'.eof_seen => h.eof_seen
      <3>1. ASSUME NEW len \in RecvLens, Recv(Owner, len) PROVE h'.eof_seen => h.eof_seen
        BY <3>1 DEF Recv
      <3>2. ASSUME NEW n, Outputv(Owner, n) PROVE h'.eof_seen => h.eof_seen
        BY <1>1, <3>2 DEF Outputv, Handler
      <3>3. CASE CancelRecv(Owner) \/ CancelSend(Owner)
        <4>1. \/ h' = h
              \/ h' = reset_waiting_recv(h)
              \/ h' = [h EXCEPT !.sender_waiting = FALSE, !.caller = Nil]
          BY <3>3, Zenon DEF CancelRecv, CancelSend
        <4>2. reset_waiting_recv(h).eof_seen = h.eof_seen
          BY <1>1 DEF reset_waiting_recv, Handler
        <4>3. [h EXCEPT !.sender_waiting = FALSE, !.caller = Nil].eof_seen = h.eof_seen
          BY <1>1 DEF Handler
        <4> QED
          BY <4>1, <4>2, <4>3
      <3>4. CASE PortClose(Owner)
        <4>1. h' = h \/ h' = close_utp(h)
          BY <3>4 DEF PortClose, StopBegin, Linger
        <4> QED
          BY <1>1, <4>1, CloseUtpUser
      <3>5. CASE Start(Owner)
        BY <3>1, <3>2, <3>5 DEF Start, Send, Setopts, Close, PortGone
      <3>6. CASE Continue(Owner) \/ TimesOut(Owner)
        BY <3>2, <3>3, <3>4, <3>6 DEF Continue, SendReplied, TakeRetry, Resend, RecvReplied,
           CloseReplied, TimesOut, SendTimesOut, RecvTimesOut
      <3>7. CASE Connecting
        BY <3>7 DEF Connecting, ConnectValidate, ConnectReplied, ConnectClose
      <3> QED
        BY <1>1, <1>5, <3>5, <3>6, <3>7
    <2>5. pt'.pc = "validate" => pt'.seen = h'.status
      <3>1. CASE ConnectValidate
        BY <3>1 DEF ConnectValidate, PortCall
      <3>2. CASE ~ConnectValidate
        <4>1. CASE Connecting
          BY <1>2, <3>2, <4>1 DEF Connecting, ConnectReplied, ConnectClose, CloseTest,
             PortCall
        <4>2. CASE Start(Owner)
          BY <1>2, <4>2 DEF Start, Send, Outputv, Recv, Setopts, Close, CloseTest,
             PortGone, PortCall
        <4>3. CASE Continue(Owner) \/ TimesOut(Owner)
          BY <1>2, <4>3 DEF Continue, SendReplied, TakeRetry, Resend, Outputv, CancelSend,
             RecvReplied, CancelRecv, CloseReplied, PortClose, StopBegin, Linger, TimesOut,
             SendTimesOut, RecvTimesOut, PortCall
        <4> QED
          BY <1>1, <1>5, <3>2, <4>1, <4>2, <4>3
      <3> QED
        BY <3>1, <3>2
    <2>6. pt'.pc = "close_lock" => CloseWaits'
      <3>1. CASE CloseTest(Owner) /\ h' = h
        BY <1>2, <3>1 DEF CloseTest, CloseWaits
      <3>2. CASE ~(CloseTest(Owner) /\ h' = h)
        <4>1. CASE Connecting
          BY <1>2, <3>2, <4>1 DEF Connecting, ConnectValidate, ConnectReplied,
             ConnectClose, PortCall
        <4>2. CASE Start(Owner)
          BY <1>2, <3>2, <4>2 DEF Start, Send, Outputv, Recv, Setopts, Close, PortGone,
             PortCall
        <4>3. CASE Continue(Owner) \/ TimesOut(Owner)
          BY <1>2, <4>3 DEF Continue, SendReplied, TakeRetry, Resend, Outputv, CancelSend,
             RecvReplied, CancelRecv, CloseReplied, PortClose, StopBegin, Linger, TimesOut,
             SendTimesOut, RecvTimesOut, PortCall
        <4> QED
          BY <1>1, <1>5, <3>2, <4>1, <4>2, <4>3
      <3> QED
        BY <3>1, <3>2
    <2> QED
      BY <1>3, <2>2, <2>3, <2>4, <2>5, <2>6 DEF FinalInv
  <1> QED
    BY <1>4, <1>5

\* On one scheduler, a connection on its way out only moves on, from closing
\* to destroying to stopped: EOF, WRITABLE, close, stop and connect_validate
\* each set the status, some on what was read before.  An owner that exits in a
\* call is excluded: its pending close then outlives stop.
THEOREM ClosingStays ==
    ASSUME Procs = {Owner}, ~SMP, "exit" \notin Calls[Owner] PROVE Spec => ClosingIsFinal
  <1>1. Init => FinalInv
    BY IdleType DEF Init, NewHandler, FinalInv
  <1>2. ASSUME UserInv, UserInv', FinalInv, [Next]_vars
        PROVE  FinalInv' /\ Rank(h'.status) >= Rank(h.status)
    <2>1. CASE UNCHANGED vars
      <3>1. h' = h /\ FinalInv'
        BY <1>2, <2>1 DEF vars, FinalInv, CloseWaits
      <3> QED
        BY <3>1 DEF Rank
    <2>2. CASE Next
      BY <1>2, <2>2, FinalMain, FinalPort, FinalProcess DEF Next
    <2> QED
      BY <1>2, <2>1, <2>2
  <1>3. UserInv /\ UserInv' /\ FinalInv
        /\ [Next]_vars => [Rank(h'.status) >= Rank(h.status)]_vars
    BY <1>2
  <1> QED
    BY <1>1, <1>2, <1>3, OneUserInvariant, PTL DEF Spec, ClosingIsFinal
=============================================================================
