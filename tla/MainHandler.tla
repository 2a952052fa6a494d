---------------------------- MODULE MainHandler ----------------------------
(***************************************************************************)
(* The main handler (c_src/main_handler.cc), its file descriptor map, and  *)
(* the gen_utp server that owns its port (src/gen_utp.erl).                *)
(*                                                                         *)
(* Every port of the driver has a MainHandler object.  The first one to    *)
(* start becomes THE main handler, a static pointer: it polls the UDP      *)
(* sockets of all other ports and runs libutp's timer.  It is meant to be  *)
(* the port of the gen_utp server.  A listen or connect on another port    *)
(* puts a SocketHandler behind it, the delegatee, which has a descriptor   *)
(* that the main handler selects; deselecting it makes the emulator call   *)
(* stop_select, which closes it, at once or later.  The operating system   *)
(* gives the lowest free number to the next socket.                        *)
(*                                                                         *)
(* select and deselect are two steps each: the emulator is told, then the  *)
(* map is changed under map_mutex.  With smp FALSE nothing comes between.  *)
(* What the delegatees do otherwise is in UtpHandler and Listener.         *)
(***************************************************************************)
EXTENDS Naturals, FiniteSets, FiniteSetsExt

CONSTANTS
    Ports,   \* ports opened for sockets
    Mains,   \* ports opened by the server, one for each time it starts
    None,    \* no port
    Fds,     \* descriptor numbers, positive
    Kinds,   \* what ports are opened for: "listener", "conn"
    Modes,   \* values of smp: may port threads and the main thread interleave?
    Busy     \* TRUE: the server may stop while it is in use

ASSUME PortsAssumption ==
    Ports \cap Mains = {} /\ None \notin Ports \cup Mains /\ Mains # {}
ASSUME FdsAssumption == Fds \subseteq Nat \ {0} /\ IsFiniteSet(Fds)
ASSUME FlagsAssumption ==
    /\ Kinds \subseteq {"listener", "conn"} /\ Modes \subseteq BOOLEAN
    /\ Busy \in BOOLEAN

VARIABLES
    smp,      \* threads interleave
    server,   \* the gen_utp server process
    sport,    \* its port
    main,     \* MainHandler::main_handler
    mh,       \* the MainHandler object of each port
    hd,       \* its delegatee
    os,       \* whose socket an open descriptor is
    closing,  \* descriptors for which stop_select is due
    mainop    \* the handler the main thread is selecting or deselecting

vars == <<smp, server, sport, main, mh, hd, os, closing, mainop>>

AllPorts == Ports \cup Mains

\* port says that MainHandler::port is not 0, timer that a driver timer is set
\* on the port, and polled which descriptors the emulator polls for it.
MainObject == [st : {"unused", "open", "closed"}, port : BOOLEAN,
               timer : BOOLEAN, polled : SUBSET Fds, fdmap : [Fds -> Ports \cup {None}]]

\* A connection is freed when libutp is done with its socket, and stopped when
\* its port is closed before; unsent says that data was left in its write queue
\* then.  op is the second half of select or deselect, still to come, on the
\* main handler via.
Delegatee == [st : {"none", "live", "stopped", "deleted"}, freed : BOOLEAN, unsent : BOOLEAN,
              kind : {"listener", "conn", "none"}, fd : Fds \cup {0}, selected : BOOLEAN,
              op : {"idle", "insert", "erase"}, via : AllPorts \cup {None}]

Unused == [st |-> "unused", port |-> FALSE, timer |-> FALSE, polled |-> {},
           fdmap |-> [f \in Fds |-> None]]
NoDelegatee == [st |-> "none", freed |-> FALSE, unsent |-> FALSE, kind |-> "none", fd |-> 0,
                selected |-> FALSE, op |-> "idle", via |-> None]

Init ==
    /\ smp \in Modes
    /\ server = "down" /\ sport = None /\ main = None
    /\ mh = [p \in AllPorts |-> Unused]
    /\ hd = [p \in Ports |-> NoDelegatee]
    /\ os = [f \in Fds |-> None] /\ closing = {} /\ mainop = None

-----------------------------------------------------------------------------
(***************************************************************************)
(* Steps that several operations share                                     *)
(***************************************************************************)

\* Nobody is in the middle of select or deselect, unless threads interleave.
MayRun == smp \/ \A p \in Ports : hd[p].op = "idle"

\* utp_mutex, which start and stop take, is free: the callback that deselects
\* the socket of a connection holds it.
UtpFree == \A p \in Ports : mainop = p => hd[p].op # "erase"

\* MainHandler::start of port p, a new object
start(p) ==
    /\ mh' = [mh EXCEPT ![p] = [Unused EXCEPT !.st = "open", !.port = TRUE,
                                              !.timer = (main = None)]]
    /\ main' = IF main = None THEN p ELSE main

Mapped(m) == {f \in Fds : m.fdmap[f] # None}

\* Mutant: any port that is closed clears the main handler.
IsMainAlways(p) == TRUE
IsMain(p) == main = p

\* MainHandler::stop of port p, after that of the delegatee, which has left the
\* objects as m and the descriptors to close as c: the main handler deselects
\* every descriptor it has.
stop(p, m, c) ==
    /\ mh' = [m EXCEPT ![p].st = "closed", ![p].timer = FALSE, ![p].polled = {}]
    /\ main' = IF IsMain(p) THEN None ELSE main
    /\ closing' = c \cup (IF IsMain(p) /\ m[p].port THEN Mapped(m[p]) ELSE {})

\* driver_select, on and off, for the main handler, which does it only if it
\* still has a port
SelectOn(f) ==
    IF main # None /\ mh[main].port
    THEN [mh EXCEPT ![main].polled = @ \cup {f}] ELSE mh
DeselectsNow == main # None /\ mh[main].port
SelectOff(f) == IF DeselectsNow THEN [mh EXCEPT ![main].polled = @ \ {f}] ELSE mh

\* A delegatee with descriptor f after the first half of set_port: start_input,
\* which does nothing without a main handler
Started(k, f) ==
    [st |-> "live", freed |-> FALSE, unsent |-> FALSE, kind |-> k, fd |-> f, selected |-> TRUE,
     op |-> IF main # None THEN "insert" ELSE "idle", via |-> main]

FreeFds == {f \in Fds : os[f] = None}

-----------------------------------------------------------------------------
(***************************************************************************)
(* The server and its supervisor                                           *)
(***************************************************************************)

\* init/1, from start_link or from the supervisor: open_port, start
ServerInit ==
    /\ MayRun /\ UtpFree /\ server = "down"
    /\ \E p \in Mains :
         /\ mh[p].st = "unused"
         /\ start(p)
         /\ sport' = p
    /\ server' = "up"
    /\ UNCHANGED <<smp, hd, os, closing, mainop>>

\* No socket is left, nor a handler that waits for libutp.
Quiet == /\ \A p \in Ports : mh[p].st \in {"unused", "closed"}
         /\ \A p \in Ports : hd[p].st \in {"none", "deleted"}
         /\ closing = {}

\* stop/0, or a shutdown by the supervisor: terminate/2 closes the port, then
\* the process exits.
Terminate ==
    /\ MayRun /\ UtpFree /\ server = "up" /\ mh[sport].st = "open"
    /\ Busy \/ Quiet
    /\ server' = "stopping"
    /\ stop(sport, mh, closing)
    /\ UNCHANGED <<smp, sport, hd, os, mainop>>

ServerExit ==
    /\ server = "stopping"
    /\ server' = "down"
    /\ UNCHANGED <<smp, sport, main, mh, hd, os, closing, mainop>>

-----------------------------------------------------------------------------
(***************************************************************************)
(* Sockets                                                                 *)
(***************************************************************************)

\* listen/2 and connect/3 open a port, which they can as long as the server
\* process keeps the driver loaded ...
OpenPort(p) ==
    /\ MayRun /\ UtpFree /\ mh[p].st = "unused"
    /\ server = "up" \/ (Busy /\ server = "stopping")
    /\ start(p)
    /\ UNCHANGED <<smp, server, sport, hd, os, closing, mainop>>

\* ... then MainHandler::listen or connect_start opens the socket and puts the
\* new handler behind the port.  If that fails they close the port: see Close.
Bind(p, k) ==
    /\ MayRun /\ mh[p].st = "open" /\ mh[p].port /\ FreeFds # {}
    /\ LET f == Min(FreeFds) IN
         /\ os' = [os EXCEPT ![f] = p]
         /\ hd' = [hd EXCEPT ![p] = Started(k, f)]
         /\ mh' = [SelectOn(f) EXCEPT ![p].port = FALSE]
    /\ UNCHANGED <<smp, server, sport, main, closing, mainop>>

\* The emulator polls the descriptor of handler p, which is still its own, and
\* the main handler maps it to p.
Heard(p) ==
    /\ main # None /\ hd[p].fd \in mh[main].polled
    /\ mh[main].fdmap[hd[p].fd] = p /\ os[hd[p].fd] = p

\* Listener::input_ready of listener l, from ready_input: a port p is created
\* for a Server with a socket of its own.  The main port creates it, so the
\* main handler must still have one.
Accept(l, p) ==
    /\ MayRun /\ mainop = None /\ hd[l].st = "live" /\ hd[l].kind = "listener"
    /\ Heard(l) /\ mh[main].port
    /\ mh[p].st = "unused" /\ FreeFds # {}
    /\ LET f == Min(FreeFds) IN
         /\ os' = [os EXCEPT ![f] = p]
         /\ hd' = [hd EXCEPT ![p] = Started("conn", f)]
         /\ mh' = [SelectOn(f) EXCEPT ![p].st = "open"]
    /\ mainop' = p
    /\ UNCHANGED <<smp, server, sport, main, closing>>

\* The second half of select: insert does not replace an entry.
Insert(p) ==
    /\ hd[p].op = "insert"
    /\ mh' = [mh EXCEPT ![hd[p].via].fdmap[hd[p].fd] = IF @ = None THEN p ELSE @]
    /\ hd' = [hd EXCEPT ![p].op = "idle", ![p].via = None]
    /\ mainop' = IF mainop = p THEN None ELSE mainop
    /\ UNCHANGED <<smp, server, sport, main, os, closing>>

\* Mutants: stop forgets to deselect, or does so for a connection as well.
StopDeselectsNever(p) == FALSE
StopDeselectsAll(p) == hd[p].selected /\ main # None

\* Listener::stop deselects.  UtpHandler::stop does not: there may still be uTP
\* traffic.  Without a main handler stop_input does nothing.
StopDeselects(p) == hd[p].kind = "listener" /\ hd[p].selected /\ main # None

\* The delegatee after its stop: the handler of a connection goes on until
\* libutp is done with it.  With data left in its write queue, u, libutp's
\* socket has not been closed, and no callback closes that of a stopped handler.
Stopped(x, u) ==
    LET waits == x.kind = "conn" /\ ~x.freed
    IN  [x EXCEPT !.st = IF waits THEN "stopped"
                         ELSE IF x.kind = "none" THEN "none" ELSE "deleted",
                  !.selected = @ /\ x.kind = "conn",
                  !.unsent = waits /\ u]

\* The first half of deselect, by whoever calls stop_input
Deselect(p) ==
    /\ mh' = SelectOff(hd[p].fd)
    /\ closing' = IF mh[main].port THEN closing \cup {hd[p].fd} ELSE closing
    /\ hd' = [hd EXCEPT ![p].op = "erase", ![p].via = main]

\* A socket's port is closed by its owner, by the owner's exit or because the
\* socket could not be opened: MainHandler::stop, which stops the delegatee
\* first.
Close(p) ==
    /\ MayRun /\ UtpFree /\ mh[p].st = "open"
    /\ hd[p].op = "idle" \/ mainop = p
    /\ \/ /\ StopDeselects(p)
          /\ Deselect(p)
          /\ UNCHANGED main
       \/ /\ ~StopDeselects(p)
          /\ \E u \in BOOLEAN : hd' = [hd EXCEPT ![p] = Stopped(@, u)]
          /\ stop(p, mh, closing)
    /\ UNCHANGED <<smp, server, sport, os, mainop>>

\* check_utp_timeouts, on a port whose timer runs out: it is set again, if the
\* handler still has its port.
ClockRuns == main # None /\ \E m \in AllPorts : mh[m].timer

CheckTimeouts(p) ==
    /\ MayRun /\ UtpFree /\ mh[p].timer /\ main # None
    /\ mh' = [mh EXCEPT ![p].timer = mh[p].port]
    /\ UNCHANGED <<smp, server, sport, main, hd, os, closing, mainop>>

\* libutp, in UTP_CheckTimeouts, frees the socket of a connection that has been
\* closed with UTP_Close: the DESTROYING callback, which deselects first.
Destroying(p) ==
    /\ MayRun /\ ClockRuns /\ mainop = None
    /\ hd[p].kind = "conn" /\ hd[p].st \in {"live", "stopped"} /\ ~hd[p].freed
    /\ ~hd[p].unsent /\ hd[p].op = "idle" /\ hd[p].selected
    /\ Deselect(p)
    /\ mainop' = p
    /\ UNCHANGED <<smp, server, sport, main, os>>

\* Mutant: the entry stays.
ErasedKeeps(p) == mh
Erased(p) == [mh EXCEPT ![hd[p].via].fdmap[hd[p].fd] = None]

\* The second half of deselect, and the rest of the DESTROYING callback or of
\* the stop that called it
Erase(p) ==
    /\ hd[p].op = "erase"
    /\ LET x == [hd[p] EXCEPT !.op = "idle", !.via = None, !.selected = FALSE] IN
       \/ /\ mainop = p
          /\ mh' = Erased(p)
          /\ hd' = [hd EXCEPT ![p] = [x EXCEPT !.freed = TRUE,
                       !.st = IF @ = "stopped" THEN "deleted" ELSE @]]
          /\ mainop' = None
          /\ UNCHANGED <<main, closing>>
       \/ /\ mainop # p /\ UtpFree
          /\ \E u \in BOOLEAN : hd' = [hd EXCEPT ![p] = Stopped(x, u)]
          /\ stop(p, Erased(p), closing)
          /\ UNCHANGED mainop
    /\ UNCHANGED <<smp, server, sport, os>>

\* stop_select: whatever socket has the number now is closed.
StopSelect(f) ==
    /\ f \in closing
    /\ closing' = closing \ {f}
    /\ os' = [os EXCEPT ![f] = None]
    /\ UNCHANGED <<smp, server, sport, main, mh, hd, mainop>>

ServerStep == ServerInit \/ Terminate \/ ServerExit
SocketStep(p) ==
    \/ OpenPort(p) \/ (\E k \in Kinds : Bind(p, k)) \/ (\E l \in Ports : Accept(l, p))
    \/ Insert(p) \/ Close(p) \/ Destroying(p) \/ Erase(p)

Next ==
    \/ ServerStep
    \/ \E p \in Ports : SocketStep(p)
    \/ \E p \in AllPorts : CheckTimeouts(p)
    \/ \E f \in Fds : StopSelect(f)

\* The supervisor starts the server, threads go on, the emulator calls
\* stop_select, and libutp is done some time with a socket that stop has closed
\* with UTP_Close: its FIN is acknowledged, or sent again until it gives up.
Fairness ==
    /\ WF_vars(ServerInit)
    /\ \A p \in Ports :
         /\ WF_vars(Insert(p)) /\ WF_vars(Erase(p))
         /\ WF_vars(hd[p].st = "stopped" /\ Destroying(p))
    /\ \A f \in Fds : WF_vars(StopSelect(f))

Spec == Init /\ [][Next]_vars
FairSpec == Spec /\ Fairness

-----------------------------------------------------------------------------
(***************************************************************************)
(* Properties                                                              *)
(***************************************************************************)

TypeOK ==
    /\ smp \in BOOLEAN /\ server \in {"down", "up", "stopping"}
    /\ sport \in Mains \cup {None} /\ main \in AllPorts \cup {None}
    /\ mh \in [AllPorts -> MainObject] /\ hd \in [Ports -> Delegatee]
    /\ os \in [Fds -> Ports \cup {None}] /\ closing \subseteq Fds
    /\ mainop \in Ports \cup {None}

\* While the server is up its port is the main handler, which has not become a
\* socket, and libutp's clock runs (main_handler.cc, start and stop: every port
\* that starts could take the place, every one that stops could clear it).
ServerIsMain == server = "up" => main = sport /\ mh[main].port /\ mh[main].timer

\* With one scheduler a handler that believes its socket selected is reached:
\* the descriptor is open, still its own, polled, and mapped to it, although
\* numbers are used again as soon as stop_select closes them
\* (main_handler.cc, select and deselect).
SelectedIsHeard ==
    ~smp => \A p \in Ports : (hd[p].selected /\ hd[p].op = "idle") => Heard(p)

\* ready_input never finds a handler that was deleted, not even between the two
\* halves of a deselect (main_handler.cc, ready_input).
MapPointsToLive ==
    main # None => \A f \in Fds :
        LET p == mh[main].fdmap[f] IN p # None => hd[p].st \in {"live", "stopped"}

\* A server that is not up has left nothing behind; one that is up owns the main
\* handler.
ServerInv ==
    /\ server # "up" => main = None /\ Quiet
    /\ server = "up" => /\ sport \in Mains /\ main = sport
                        /\ mh[sport].st = "open" /\ mh[sport].port /\ mh[sport].timer

\* How far each handler has come.  Only libutp ends the selection of a
\* connection, on the main thread, and only stop that of a listener.
HandlerInv ==
    \A p \in Ports : LET x == hd[p] IN
        /\ (mh[p].st = "unused" \/ mh[p].port \/ x.st = "none") => x = NoDelegatee
        /\ mh[p].st = "unused" => ~mh[p].port
        /\ x.st # "none" => x.fd \in Fds /\ x.kind # "none"
        /\ x.selected => x.st \in {"live", "stopped"} /\ ~x.freed
        /\ x.op # "idle" => x.selected /\ main # None /\ x.via = main
        /\ (x.st # "none" /\ ~x.selected) =>
              x.freed \/ (x.kind = "listener" /\ x.st = "deleted")
        /\ (x.op = "erase" /\ x.kind = "conn") => mainop = p
        /\ mainop = p => x.op # "idle" /\ x.kind = "conn"

\* Handler x counts on its descriptor: it has not begun to deselect.
Holds(x) == x.selected /\ x.op # "erase"

\* A descriptor that is held is open, polled and its holder's; one that
\* stop_select will close is still that of the handler that gave it up.
DescriptorInv ==
    /\ \A p \in Ports : Holds(hd[p]) =>
          /\ os[hd[p].fd] = p /\ hd[p].fd \notin closing
          /\ main # None /\ hd[p].fd \in mh[main].polled
    /\ \A f \in closing :
          os[f] # None /\ hd[os[f]].fd = f /\ ~Holds(hd[os[f]])
    /\ \A f \in Fds : os[f] # None =>
          f \in closing \/ (Holds(hd[os[f]]) /\ hd[os[f]].fd = f)

\* An entry of the map is that of a selected handler for its own descriptor.
EntriesInv ==
    main # None => \A f \in Fds :
        LET p == mh[main].fdmap[f] IN
            p # None => hd[p].selected /\ hd[p].fd = f /\ hd[p].op # "insert"

\* With one scheduler one select or deselect is in progress at a time, no
\* other handler has the number being deselected, and no entry is missing.
SerialInv ==
    ~smp => \A p, q \in Ports :
        /\ (hd[p].op # "idle" /\ hd[q].op # "idle") => p = q
        /\ (hd[p].op = "erase" /\ hd[q].selected /\ hd[q].fd = hd[p].fd) => p = q
        /\ (hd[p].selected /\ hd[p].op = "idle") => mh[main].fdmap[hd[p].fd] = p

\* The types and the descriptor map, with what keeps the map in order: the
\* inductive invariant of MainHandlerProofs.
MapInv ==
    /\ TypeOK /\ MapPointsToLive
    /\ ServerInv /\ HandlerInv /\ DescriptorInv /\ EntriesInv /\ SerialInv

\* An open descriptor belongs to a handler that still has it selected, or is
\* about to be closed: no handler goes without giving its descriptor up
\* (listener.cc stop, utp_handler.cc do_state_change).
NoDescriptorLost ==
    \A f \in Fds : os[f] # None =>
        \/ f \in closing
        \/ hd[os[f]].selected /\ hd[os[f]].fd = f

\* The socket of a connection is closed only when libutp has freed it, that of
\* a listener only when its port is being closed; nobody closes a descriptor
\* number that has become somebody else's (utp_handler.cc stop, whose comment
\* says why it must not deselect).
ClosedWhenDone ==
    [][\A f \in Fds : (os[f] # None /\ os'[f] = None) =>
         LET x == hd[os[f]] IN
           x.freed \/ x.op = "erase" \/ (x.kind = "listener" /\ x.st = "deleted")]_vars

=============================================================================
