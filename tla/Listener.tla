------------------------------ MODULE Listener ------------------------------
(***************************************************************************)
(* Listening ports: Listener (c_src/listener.cc) with its acceptor_queue,  *)
(* the monitor maps and the fd map of MainHandler (c_src/main_handler.cc), *)
(* and accept/2 and async_accept/1 (src/gen_utp.erl).                      *)
(*                                                                         *)
(* The main port's thread runs ready_input and process_exit; each          *)
(* listener's port thread runs accept, cancel_accept and stop.  The fd map *)
(* and the monitor maps are under map_mutex, the acceptor queue under      *)
(* queue_mutex.  A callback or a call is split where it lets go of one     *)
(* mutex before it takes the other: what it found in a map may be gone.    *)
(* The main port is open throughout.                                       *)
(*                                                                         *)
(* A request to accept is named by its process and a number; so are its    *)
(* Erlang reference and the driver's monitor made for it.                  *)
(***************************************************************************)
EXTENDS Naturals, Sequences, SequencesExt

CONSTANTS
    Procs,     \* Erlang processes
    Lsns,      \* listening ports
    SMP,       \* TRUE: the threads run concurrently
    Calls,     \* what processes do: "accept", "async", "close", "exit"
    Tmout,     \* TRUE: accept is called with a finite timeout
    Packets,   \* datagrams that may come: "syn", "other" (uTP), "junk", "connerr"
    MaxCalls,  \* bound on the requests of one process
    MaxPackets \* bound on the datagrams

ASSUME ListenersAssumption == Procs # {} /\ Lsns # {}
ASSUME ListenerBounds == MaxCalls \in Nat /\ MaxPackets \in Nat

VARIABLES
    queue,     \* acceptor_queue of each listener
    status,    \* "open", "stopping" (deselected, not deleted yet), "deleted"
    mon_map,   \* MainHandler::mon_map: monitor -> handler, as pairs
    proc_mon,  \* MainHandler::proc_mon_map: process -> monitor
    monitored, \* monitors the emulator holds for the main port
    pt,        \* the accept a listener's port thread is in the middle of
    mt,        \* the callback the main thread is in the middle of
    pc,        \* what each process is doing
    at,        \* the listener of its current accept
    calls,     \* requests it has made; names its current one
    mail,      \* {utp_async, _, Ref, V} messages in its mailbox
    gaveup,    \* requests for which accept/2 has returned etimedout
    packets,   \* datagrams so far
    fault      \* how the driver crashed, "none" if it has not

vars == <<queue, status, mon_map, proc_mon, monitored, pt, mt, pc, at, calls, mail,
          gaveup, packets, fault>>

NoRef == <<>>
Ref(p) == <<p, calls[p]>>
Refs == Procs \X (1..MaxCalls)

MainIdle == [pc |-> "idle", on |-> CHOOSE l \in Lsns : TRUE,
             proc |-> CHOOSE p \in Procs : TRUE, pkt |-> "none"]

Init ==
    /\ queue = [l \in Lsns |-> <<>>]
    /\ status = [l \in Lsns |-> "open"]
    /\ mon_map = {} /\ proc_mon = [p \in Procs |-> NoRef] /\ monitored = {}
    /\ pt = [l \in Lsns |-> NoRef] /\ mt = MainIdle
    /\ pc = [p \in Procs |-> "idle"]
    /\ at = [p \in Procs |-> CHOOSE l \in Lsns : TRUE]
    /\ calls = [p \in Procs |-> 0]
    /\ mail = [p \in Procs |-> {}]
    /\ gaveup = {} /\ packets = 0 /\ fault = "none"

\* A thread may start something: with one scheduler, only when no other has
\* anything in progress.
MayStart ==
    /\ fault = "none"
    /\ SMP \/ (/\ mt.pc = "idle"
               /\ \A l \in Lsns : pt[l] = NoRef /\ status[l] # "stopping")

procVars == <<pc, at, calls, gaveup>>

\* Process p has exited: "killed", in the middle of a call of accept.
Dead(p) == pc[p] \in {"dead", "killed"}

-----------------------------------------------------------------------------
(***************************************************************************)
(* The monitor maps                                                        *)
(***************************************************************************)

\* Mutant: the monitor is made but not entered.
add_monForgets(p, m, l) ==
    /\ monitored' = monitored \cup {m}
    /\ UNCHANGED <<mon_map, proc_mon>>

\* add_mon: a monitor m for p; an older one in proc_mon_map stays there
add_mon(p, m, l) ==
    /\ monitored' = monitored \cup {m}
    /\ mon_map' = mon_map \cup {<<m, l>>}
    /\ proc_mon' = IF proc_mon[p] = NoRef THEN [proc_mon EXCEPT ![p] = m] ELSE proc_mon

\* del_mon: the one monitor that proc_mon_map has for p goes
del_mon(p) ==
    /\ monitored' = monitored \ {proc_mon[p]}
    /\ mon_map' = {e \in mon_map : e[1] # proc_mon[p]}
    /\ proc_mon' = [proc_mon EXCEPT ![p] = NoRef]

\* Mutant: the monitors of the handler stay in mon_map.
del_monsKeeps(l) == UNCHANGED <<monitored, mon_map, proc_mon>>

\* del_mons: all monitors for handler l go; one that is not in proc_mon_map
\* too is forgotten without being cancelled
del_mons(l) ==
    LET own == {e[1] : e \in {x \in mon_map : x[2] = l}}
        listed == {m \in own : \E p \in Procs : proc_mon[p] = m}
    IN  /\ monitored' = monitored \ listed
        /\ mon_map' = {e \in mon_map : e[2] # l}
        /\ proc_mon' = [p \in Procs |-> IF proc_mon[p] \in own THEN NoRef ELSE proc_mon[p]]

-----------------------------------------------------------------------------
(***************************************************************************)
(* accept, cancel_accept, and the Erlang side                              *)
(***************************************************************************)

\* accept begins: the caller is monitored ...
Accept(p, l, kind) ==
    /\ MayStart /\ kind \in Calls
    /\ pc[p] = "idle" /\ calls[p] < MaxCalls
    /\ status[l] = "open" /\ pt[l] = NoRef
    /\ calls' = [calls EXCEPT ![p] = @ + 1]
    /\ at' = [at EXCEPT ![p] = l]
    /\ LET ref == <<p, calls[p] + 1>>
       IN  add_mon(p, ref, l) /\ pt' = [pt EXCEPT ![l] = ref]
    /\ pc' = [pc EXCEPT ![p] = kind]
    /\ UNCHANGED <<queue, status, mt, mail, gaveup, packets, fault>>

\* The caller has exited by the time the port runs its call: it cannot be
\* monitored, and nothing is queued.
AcceptUnmonitored(p, l, kind) ==
    /\ MayStart /\ SMP /\ kind \in Calls /\ "exit" \in Calls
    /\ pc[p] = "idle" /\ calls[p] < MaxCalls
    /\ status[l] = "open" /\ pt[l] = NoRef
    /\ pc' = [pc EXCEPT ![p] = "dead"]
    /\ UNCHANGED <<queue, status, mon_map, proc_mon, monitored, pt, mt, at, calls, mail,
                   gaveup, packets, fault>>

\* ... and then queued, even if its exit has been handled by now.  accept/2
\* goes on to wait, async_accept/1 returns.
AcceptPush(l) ==
    /\ fault = "none" /\ pt[l] # NoRef
    /\ queue' = [queue EXCEPT ![l] = Append(@, pt[l])]
    /\ pt' = [pt EXCEPT ![l] = NoRef]
    /\ pc' = [pc EXCEPT ![pt[l][1]] = CASE @ = "accept" -> "wait"
                                        [] @ = "async"  -> "idle"
                                        [] @ = "killed" -> "killed"]
    /\ UNCHANGED <<status, mon_map, proc_mon, monitored, mt, at, calls, mail, gaveup,
                   packets, fault>>

Ok == {"connection", "no connection"}
Answers == Ok \cup {"error"}
HasReply(p) == \E v \in Ok : <<Ref(p), v>> \in mail[p]
TakeReply(p) == mail' = [mail EXCEPT ![p] = @ \ {<<Ref(p), v>> : v \in Ok}]

\* accept/2 gets {ok, Sock}; it does not look for {error, _}.
AcceptReplied(p) ==
    /\ fault = "none" /\ pc[p] = "wait" /\ HasReply(p)
    /\ TakeReply(p)
    /\ pc' = [pc EXCEPT ![p] = "idle"]
    /\ UNCHANGED <<queue, status, mon_map, proc_mon, monitored, pt, mt, at, calls, gaveup,
                   packets, fault>>

\* Mutant: the timer of a request that has left the queue is not looked at.
AcceptTimesOutInQueue(p) ==
    /\ fault = "none" /\ pc[p] = "wait" /\ Tmout /\ ~HasReply(p)
    /\ \E i \in 1..Len(queue[at[p]]) : queue[at[p]][i] = Ref(p)
    /\ pc' = [pc EXCEPT ![p] = "cancel"]
    /\ UNCHANGED <<queue, status, mon_map, proc_mon, monitored, pt, mt, at, calls, mail,
                   gaveup, packets, fault>>

\* No {ok, Sock} came within the timeout.
AcceptTimesOut(p) ==
    /\ fault = "none" /\ pc[p] = "wait" /\ Tmout /\ ~HasReply(p)
    /\ pc' = [pc EXCEPT ![p] = "cancel"]
    /\ UNCHANGED <<queue, status, mon_map, proc_mon, monitored, pt, mt, at, calls, mail,
                   gaveup, packets, fault>>

\* Mutant: the first request of the queue goes instead.
ErasedFront(q, ref) == Tail(q)

\* The queue without request ref: the first one found is erased.
Erased(q, ref) == RemoveFirst(q, ref)

\* cancel_accept, and the receive that follows it
CancelAccept(p) ==
    LET l == at[p]
        queued == status[l] = "open" /\ \E i \in 1..Len(queue[l]) : queue[l][i] = Ref(p)
    IN  /\ MayStart /\ pc[p] = "cancel" /\ pt[l] = NoRef
        /\ IF queued
           THEN del_mon(p) /\ queue' = [queue EXCEPT ![l] = Erased(@, Ref(p))]
           ELSE UNCHANGED <<queue, mon_map, proc_mon, monitored>>
        /\ IF status[l] = "open" THEN TakeReply(p) ELSE UNCHANGED mail
        /\ gaveup' = IF status[l] = "open" /\ ~HasReply(p) THEN gaveup \cup {Ref(p)} ELSE gaveup
        /\ pc' = [pc EXCEPT ![p] = "idle"]
        /\ UNCHANGED <<status, pt, mt, at, calls, packets, fault>>

\* A process exits, with another scheduler perhaps while a port runs its call;
\* its monitors fire, one process_exit callback each.
Exit(p) ==
    /\ MayStart /\ "exit" \in Calls /\ ~Dead(p)
    /\ pc' = [pc EXCEPT ![p] = IF @ \in {"accept", "async"} THEN "killed" ELSE "dead"]
    /\ UNCHANGED <<queue, status, mon_map, proc_mon, monitored, pt, mt, at, calls, mail,
                   gaveup, packets, fault>>

\* close/1, or the exit of the listener's owner: stop() takes the socket out
\* of the select set and the fd map ...
StopDeselect(l) ==
    /\ MayStart /\ "close" \in Calls /\ status[l] = "open" /\ pt[l] = NoRef
    /\ status' = [status EXCEPT ![l] = "stopping"]
    /\ UNCHANGED <<queue, mon_map, proc_mon, monitored, pt, mt, procVars, mail, packets,
                   fault>>

\* ... and deletes the listener, its monitors and its queue with it.
StopDelete(l) ==
    /\ fault = "none" /\ status[l] = "stopping"
    /\ status' = [status EXCEPT ![l] = "deleted"]
    /\ queue' = [queue EXCEPT ![l] = <<>>]
    /\ del_mons(l)
    /\ UNCHANGED <<pt, mt, procVars, mail, packets, fault>>

-----------------------------------------------------------------------------
(***************************************************************************)
(* Main thread                                                             *)
(***************************************************************************)

\* Mutant: the fd map still has the socket of a listener that is gone.
ReadyInputStaleFd(l, pkt) ==
    /\ MayStart /\ mt.pc = "idle" /\ packets < MaxPackets
    /\ packets' = packets + 1
    /\ mt' = [mt EXCEPT !.pc = "input", !.on = l, !.pkt = pkt]
    /\ UNCHANGED <<queue, status, mon_map, proc_mon, monitored, pt, procVars, mail, fault>>

\* ready_input: a datagram; the handler is looked up in the fd map ...
ReadyInput(l, pkt) ==
    /\ MayStart /\ mt.pc = "idle" /\ status[l] = "open" /\ packets < MaxPackets
    /\ packets' = packets + 1
    /\ mt' = [mt EXCEPT !.pc = "input", !.on = l, !.pkt = pkt]
    /\ UNCHANGED <<queue, status, mon_map, proc_mon, monitored, pt, procVars, mail, fault>>

\* Mutant: the acceptor that was served stays at the front.
ServedStays(q) == q

\* The queue once its first acceptor is served
Served(q) == Tail(q)

\* The first acceptor is answered with v: its monitor goes, it gets the
\* message unless it is dead or the port is closed, and it leaves the queue.
Answer(l, v) ==
    LET ref == Head(queue[l])
        p == ref[1]
    IN  /\ del_mon(p)
        /\ mail' = IF Dead(p) \/ status[l] # "open" THEN mail
                   ELSE [mail EXCEPT ![p] = @ \cup {<<ref, v>>}]
        /\ queue' = [queue EXCEPT ![l] = Served(@)]

\* ... and Listener::input_ready runs, with queue_mutex.  Nobody accepting:
\* the datagram is dropped.  The new UDP socket cannot be connected: the
\* acceptor is told.  libutp takes the datagram for uTP: a port is made,
\* whether or not it began a connection.  It does not: the new Server is
\* deleted, and once more by the MainHandler that was made for it.
InputReady ==
    /\ fault = "none" /\ mt.pc = "input"
    /\ mt' = MainIdle
    /\ LET l == mt.on
       IN  \/ /\ status[l] = "deleted"
              /\ fault' = "input_ready on deleted listener"
              /\ UNCHANGED <<queue, mon_map, proc_mon, monitored, mail>>
           \/ /\ status[l] # "deleted" /\ queue[l] = <<>>
              /\ UNCHANGED <<queue, mon_map, proc_mon, monitored, mail, fault>>
           \/ /\ status[l] # "deleted" /\ queue[l] # <<>> /\ mt.pkt = "connerr"
              /\ Answer(l, "error") /\ UNCHANGED fault
           \/ /\ status[l] # "deleted" /\ queue[l] # <<>> /\ mt.pkt = "syn"
              /\ Answer(l, "connection") /\ UNCHANGED fault
           \/ /\ status[l] # "deleted" /\ queue[l] # <<>> /\ mt.pkt = "other"
              /\ Answer(l, "no connection") /\ UNCHANGED fault
           \/ /\ status[l] # "deleted" /\ queue[l] # <<>> /\ mt.pkt = "junk"
              /\ fault' = "server deleted twice"
              /\ UNCHANGED <<queue, mon_map, proc_mon, monitored, mail>>
    /\ UNCHANGED <<status, pt, procVars, packets>>

\* process_exit: a monitor's process is gone; the monitor and its handler are
\* looked up and taken out of the maps ...
ProcessExit(m) ==
    /\ MayStart /\ mt.pc = "idle" /\ m \in monitored /\ Dead(m[1])
    /\ monitored' = monitored \ {m}
    /\ \/ /\ \A l \in Lsns : <<m, l>> \notin mon_map
          /\ UNCHANGED <<mon_map, proc_mon, mt>>
       \/ \E l \in Lsns :
            /\ <<m, l>> \in mon_map
            /\ mon_map' = mon_map \ {<<m, l>>}
            /\ proc_mon' = [proc_mon EXCEPT ![m[1]] = NoRef]
            /\ mt' = [mt EXCEPT !.pc = "exited", !.on = l, !.proc = m[1]]
    /\ UNCHANGED <<queue, status, pt, procVars, mail, packets, fault>>

\* The queue without the requests of process p, one request after the other
Without(q, p) ==
    LET left[i \in 0..Len(q)] ==
            IF i = 0 THEN <<>>
            ELSE IF q[i][1] = p THEN left[i-1] ELSE Append(left[i-1], q[i])
    IN  left[Len(q)]

\* ... and Listener::process_exited drops the process's requests.
ProcessExited ==
    /\ fault = "none" /\ mt.pc = "exited"
    /\ mt' = MainIdle
    /\ IF status[mt.on] = "deleted"
       THEN fault' = "process_exited on deleted listener" /\ UNCHANGED queue
       ELSE queue' = [queue EXCEPT ![mt.on] = Without(@, mt.proc)] /\ UNCHANGED fault
    /\ UNCHANGED <<status, mon_map, proc_mon, monitored, pt, procVars, mail, packets>>

-----------------------------------------------------------------------------

\* The rest of a call or of a callback
Continue ==
    \/ InputReady \/ ProcessExited
    \/ \E l \in Lsns : AcceptPush(l) \/ StopDelete(l)

Next ==
    \/ Continue
    \/ \E p \in Procs :
        \/ \E l \in Lsns, kind \in {"accept", "async"} :
             Accept(p, l, kind) \/ AcceptUnmonitored(p, l, kind)
        \/ AcceptReplied(p) \/ AcceptTimesOut(p) \/ CancelAccept(p) \/ Exit(p)
    \/ \E l \in Lsns : StopDeselect(l) \/ \E pkt \in Packets : ReadyInput(l, pkt)
    \/ \E m \in Refs : ProcessExit(m)

Spec == Init /\ [][Next]_vars

\* Calls and callbacks run to their end, a process takes its messages, and the
\* timer of a timed accept fires; nothing makes a datagram come.
Fairness ==
    /\ WF_vars(Continue)
    /\ \A p \in Procs : WF_vars(AcceptReplied(p)) /\ WF_vars(AcceptTimesOut(p))
    /\ \A p \in Procs : SF_vars(CancelAccept(p))

FairSpec == Spec /\ Fairness

-----------------------------------------------------------------------------
(***************************************************************************)
(* Properties                                                              *)
(***************************************************************************)

\* Types of the listeners' and the main handler's state.
TypeOK ==
    /\ queue \in [Lsns -> Seq(Refs)]
    /\ status \in [Lsns -> {"open", "stopping", "deleted"}]
    /\ mon_map \subseteq Refs \X Lsns /\ monitored \subseteq Refs
    /\ proc_mon \in [Procs -> Refs \cup {NoRef}]
    /\ pt \in [Lsns -> Refs \cup {NoRef}]
    /\ mt \in [pc : {"idle", "input", "exited"}, on : Lsns, proc : Procs,
               pkt : Packets \cup {"none"}]
    /\ pc \in [Procs -> {"idle", "accept", "async", "wait", "cancel", "dead", "killed"}]
    /\ at \in [Procs -> Lsns] /\ calls \in [Procs -> 0..MaxCalls]
    /\ mail \in [Procs -> SUBSET (Refs \X Answers)] /\ gaveup \subseteq Refs

Queued(l, ref) == \E i \in 1..Len(queue[l]) : queue[l][i] = ref

\* A process waiting in accept/2 on an open listener is queued or has its
\* answer: it is never dropped from the queue and forgotten.
AcceptorNotStranded ==
    \A p \in Procs : pc[p] = "wait" /\ status[at[p]] = "open" =>
        Queued(at[p], Ref(p)) \/ HasReply(p)

\* Request ref has neither been answered nor given up.
Unanswered(ref) ==
    ref \notin gaveup /\ \A v \in Answers : <<ref, v>> \notin mail[ref[1]]

\* A request is answered at most once, and not at all once accept/2 has
\* returned etimedout for it: a cancelled request is neither queued nor
\* answered later, so no connection is made for a process that is not
\* expecting it.
OneAnswer ==
    /\ \A l \in Lsns : \A i, j \in 1..Len(queue[l]) : queue[l][i] = queue[l][j] => i = j
    /\ \A l \in Lsns, ref \in Refs : Queued(l, ref) => Unanswered(ref)
    /\ \A ref \in gaveup, v \in Ok : <<ref, v>> \notin mail[ref[1]]

\* Every queued request has a monitor left that will remove it if its process
\* exits, or its process was killed inside accept: there process_exited may have
\* run before the request was pushed (listener.cc:227-230), and the request of
\* the dead process stays.
QueuedIsMonitored ==
    \A l \in Lsns : status[l] = "open" =>
        \A i \in 1..Len(queue[l]) :
            LET p == queue[l][i][1]
            IN  \/ \E m \in monitored : m[1] = p /\ <<m, l>> \in mon_map
                \/ mt.pc = "exited" /\ mt.on = l /\ mt.proc = p
                \/ pc[p] = "killed" /\ queue[l][i] = Ref(p)

\* mon_map never leads process_exit to a deleted listener.
MonitorTargetsLive == \A e \in mon_map : status[e[2]] # "deleted"

\* What the threads are in the middle of: a request that is monitored but not
\* yet queued is its process's latest, at a listener that cannot be closed, and
\* process_exit is about a process that is gone.
ThreadsInv ==
    /\ \A l \in Lsns : pt[l] # NoRef =>
         \E p \in Procs : /\ pt[l] = Ref(p) /\ pc[p] \in {"accept", "async", "killed"}
                          /\ at[p] = l /\ status[l] = "open"
    /\ \A p \in Procs : pc[p] \in {"accept", "async", "killed", "wait", "cancel"} => calls[p] > 0
    /\ mt.pc = "exited" => Dead(mt.proc)
    /\ mt.pc = "input" => mt.pkt \in Packets

\* Request ref has been made.
Made(ref) == ref[2] <= calls[ref[1]]

\* Where a request can be: in one place of one queue, which for the latest one
\* of its process is that of the listener it was made at, and only before it is
\* answered or given up.
RequestsInv ==
    /\ \A l \in Lsns : \A ref \in Refs : Queued(l, ref) =>
         /\ Made(ref) /\ (ref = Ref(ref[1]) => at[ref[1]] = l)
         /\ \A k \in Lsns : Queued(k, ref) => k = l
         /\ pt[l] # ref
    /\ \A l \in Lsns : pt[l] # NoRef => Unanswered(pt[l])
    /\ \A ref \in Refs : ~Made(ref) => Unanswered(ref)
    /\ \A p \in Procs : \A e \in mail[p] : e[1][1] = p

\* The types and the monitors, with what is known of requests: with OneAnswer
\* the inductive invariant of ListenerProofs.
MonitorsInv == TypeOK /\ MonitorTargetsLive /\ ThreadsInv /\ RequestsInv

\* Neither callback of the main port runs on a deleted listener, and none
\* deletes a server twice.
NoFault == fault = "none"

\* What accept hands out as {ok, Sock} is a connection.
AcceptedIsConnection ==
    \A p \in Procs, ref \in Refs : <<ref, "no connection">> \notin mail[p]

\* accept/2 with a timeout returns.
AcceptReturns == \A p \in Procs : pc[p] = "wait" ~> pc[p] \in {"idle", "dead"}
=============================================================================
