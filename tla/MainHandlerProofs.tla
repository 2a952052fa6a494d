------------------------- MODULE MainHandlerProofs -------------------------
(***************************************************************************)
(* MapInv is an inductive invariant of the main handler for any ports,     *)
(* descriptors and kinds of sockets, on one scheduler or several, as long  *)
(* as the server stops only when no socket is left.                        *)
(***************************************************************************)
EXTENDS MainHandler, NumberLemmas, TLAPS

\* MapInv without MapPointsToLive, which the rest implies.
MapParts ==
    TypeOK /\ ServerInv /\ HandlerInv /\ DescriptorInv /\ EntriesInv /\ SerialInv

LEMMA PartsGiveMapInv == MapParts => MapInv
  BY PortsAssumption
     DEF MapParts, MapInv, MapPointsToLive, EntriesInv, HandlerInv, TypeOK, MainObject, AllPorts

\* There is a main handler only while the server is up, and it is the server's.
LEMMA MainIsServers ==
    ASSUME MapParts
    PROVE  /\ main # None => /\ server = "up" /\ main \in Mains
                             /\ mh[main].st = "open" /\ mh[main].port /\ mh[main].timer
           /\ main = None => Quiet /\ server # "up"
  BY PortsAssumption DEF MapParts, ServerInv, TypeOK

\* The types of what the steps below read most.
LEMMA FieldTypes ==
    ASSUME TypeOK
    PROVE  /\ \A p \in AllPorts : mh[p] \in MainObject
           /\ \A p \in AllPorts : mh[p].fdmap \in [Fds -> Ports \cup {None}]
           /\ \A p \in Ports : hd[p] \in Delegatee
  BY DEF TypeOK, MainObject

\* A port that opens, an empty map: nothing is selected yet.
LEMMA InitMapParts == Init => MapParts
  <1> SUFFICES ASSUME Init PROVE MapParts
    OBVIOUS
  <1> USE PortsAssumption, FdsAssumption, FlagsAssumption DEF Init, AllPorts
  <1>1. Unused \in MainObject
    BY DEF Unused, MainObject
  <1>2. NoDelegatee \in Delegatee
    BY DEF NoDelegatee, Delegatee
  <1>3. TypeOK
    BY <1>1, <1>2 DEF TypeOK
  <1>4. ServerInv
    BY DEF ServerInv, Quiet, Unused, NoDelegatee
  <1>5. HandlerInv
    BY DEF HandlerInv, NoDelegatee, Unused
  <1>6. DescriptorInv /\ EntriesInv /\ SerialInv
    BY DEF DescriptorInv, EntriesInv, SerialInv, Holds, NoDelegatee
  <1> QED
    BY <1>3, <1>4, <1>5, <1>6 DEF MapParts

\* The server starts: its port is the first one, with an empty map.
LEMMA ServerInitInv ==
    ASSUME MapParts, ServerInit
    PROVE  MapParts'
  <1> USE PortsAssumption DEF AllPorts, MapParts
  <1>1. PICK p \in Mains : mh[p].st = "unused" /\ start(p) /\ sport' = p
    BY DEF ServerInit
  <1>2. main = None /\ Quiet
    BY DEF ServerInit, ServerInv
  <1>3. UNCHANGED <<smp, hd, os, closing, mainop>> /\ server' = "up" /\ main' = p
    BY <1>1, <1>2 DEF ServerInit, start
  <1>4. mh' = [mh EXCEPT ![p] = [Unused EXCEPT !.st = "open", !.port = TRUE, !.timer = TRUE]]
    BY <1>1, <1>2 DEF start
  <1>5. [Unused EXCEPT !.st = "open", !.port = TRUE, !.timer = TRUE] \in MainObject
    BY DEF Unused, MainObject
  <1>6. TypeOK'
    BY <1>1, <1>3, <1>4, <1>5 DEF TypeOK
  <1>7. /\ mh'[p].st = "open" /\ mh'[p].port /\ mh'[p].timer
        /\ mh'[p].fdmap = [f \in Fds |-> None]
        /\ \A q \in Ports : mh'[q] = mh[q]
    BY <1>1, <1>4 DEF TypeOK, Unused
  <1>8. ServerInv'
    BY <1>1, <1>3, <1>7 DEF ServerInv
  <1>9. \A q \in Ports : ~hd[q].selected /\ hd[q].op = "idle"
    BY <1>2 DEF Quiet, HandlerInv, NoDelegatee
  <1>10. HandlerInv'
    BY <1>3, <1>7, <1>9 DEF HandlerInv
  <1>11. DescriptorInv'
    BY <1>3, <1>9 DEF DescriptorInv, Holds
  <1>12. EntriesInv' /\ SerialInv'
    BY <1>3, <1>7, <1>9 DEF EntriesInv, SerialInv
  <1> QED
    BY <1>6, <1>8, <1>10, <1>11, <1>12

\* The server stops when no socket is left: it has no descriptor to deselect.
LEMMA TerminateInv ==
    ASSUME MapParts, Terminate, ~Busy
    PROVE  MapParts'
  <1> USE PortsAssumption DEF AllPorts, MapParts
  <1>1. Quiet /\ server = "up" /\ main = sport /\ sport \in Mains /\ main # None
    BY DEF Terminate, ServerInv
  <1>2. UNCHANGED <<smp, sport, hd, os, mainop>> /\ server' = "stopping"
    BY DEF Terminate
  <1>3. \A q \in Ports : ~hd[q].selected /\ hd[q].op = "idle"
    BY <1>1 DEF Quiet, HandlerInv, NoDelegatee
  <1>4. Mapped(mh[sport]) = {}
    BY <1>1, <1>3 DEF Mapped, EntriesInv, TypeOK, MainObject
  <1>5. /\ main' = None /\ closing' = {}
        /\ mh' = [mh EXCEPT ![sport].st = "closed", ![sport].timer = FALSE,
                            ![sport].polled = {}]
    BY <1>1, <1>4 DEF Terminate, stop, IsMain, Quiet
  <1>6. mh' \in [AllPorts -> MainObject] /\ \A q \in Ports : mh'[q] = mh[q]
    <2> DEFINE m == [mh[sport] EXCEPT !.st = "closed", !.timer = FALSE, !.polled = {}]
    <2>1. m \in MainObject
      BY <1>1, ZenonT(60) DEF TypeOK, MainObject
    <2>2. mh' = [mh EXCEPT ![sport] = m]
      BY <1>1, <1>5 DEF TypeOK
    <2> HIDE DEF m
    <2> QED
      BY <1>1, <2>1, <2>2 DEF TypeOK
  <1>7. TypeOK'
    BY <1>2, <1>5, <1>6 DEF TypeOK
  <1>8. ServerInv'
    BY <1>1, <1>2, <1>5, <1>6 DEF ServerInv, Quiet
  <1>9. HandlerInv'
    BY <1>2, <1>3, <1>6 DEF HandlerInv
  <1>10. DescriptorInv' /\ EntriesInv' /\ SerialInv'
    BY <1>1, <1>2, <1>3, <1>5, <1>6
       DEF DescriptorInv, EntriesInv, SerialInv, Holds, Quiet
  <1> QED
    BY <1>7, <1>8, <1>9, <1>10

\* A process that exits, or a timer that is set again, changes nothing here.
LEMMA ServerExitInv ==
    ASSUME MapParts, ServerExit
    PROVE  MapParts'
  BY DEF MapParts, ServerExit, TypeOK, ServerInv, Quiet, HandlerInv, DescriptorInv,
         EntriesInv, SerialInv, Holds

\* A port is opened: it has no delegatee, and the place of the main handler is
\* taken.
LEMMA OpenPortInv ==
    ASSUME MapParts, ~Busy, NEW p \in Ports, OpenPort(p)
    PROVE  MapParts'
  <1> USE PortsAssumption DEF AllPorts, MapParts
  <1>1. server = "up" /\ main # None /\ main \in Mains /\ mh[p].st = "unused"
    BY DEF OpenPort, ServerInv
  <1>2. UNCHANGED <<smp, server, sport, main, hd, os, closing, mainop>>
    BY <1>1 DEF OpenPort, start
  <1>3. mh' = [mh EXCEPT ![p] = [Unused EXCEPT !.st = "open", !.port = TRUE, !.timer = FALSE]]
    BY <1>1 DEF OpenPort, start
  <1>4. [Unused EXCEPT !.st = "open", !.port = TRUE, !.timer = FALSE] \in MainObject
    BY DEF Unused, MainObject
  <1>5. TypeOK'
    BY <1>2, <1>3, <1>4 DEF TypeOK
  <1>6. /\ mh'[p].st = "open" /\ hd[p] = NoDelegatee
        /\ \A q \in AllPorts \ {p} : mh'[q] = mh[q]
    BY <1>1, <1>3 DEF TypeOK, Unused, HandlerInv
  <1>7. ServerInv'
    BY <1>1, <1>2, <1>6 DEF ServerInv
  <1>8. HandlerInv'
    BY <1>2, <1>6 DEF HandlerInv
  <1>9. mh'[main] = mh[main]
    BY <1>1, <1>6
  <1>10. DescriptorInv' /\ EntriesInv' /\ SerialInv'
    BY <1>2, <1>9 DEF DescriptorInv, EntriesInv, SerialInv, Holds
  <1> QED
    BY <1>5, <1>7, <1>8, <1>10

\* A handler gets the lowest free descriptor, which the main handler begins to
\* poll: common to Bind and Accept.  No other handler has that number, unless
\* it is still to be erased.
LEMMA StartedInv ==
    ASSUME MapParts, MayRun, NEW p \in Ports, NEW k \in {"listener", "conn"}, NEW f \in FreeFds,
           hd[p] = NoDelegatee, main # None,
           os' = [os EXCEPT ![f] = p], hd' = [hd EXCEPT ![p] = Started(k, f)],
           mh' \in [AllPorts -> MainObject],
           mh'[p].st = "open", ~mh'[p].port,
           \A q \in AllPorts \ {p, main} : mh'[q] = mh[q],
           mh'[main] = [mh[main] EXCEPT !.polled = @ \cup {f}],
           mainop' = mainop \/ (mainop = None /\ mainop' = p /\ k = "conn"),
           UNCHANGED <<smp, server, sport, main, closing>>
    PROVE  MapParts'
  <1> USE PortsAssumption DEF AllPorts, MapParts
  <1>1. main \in Mains /\ server = "up"
    BY MainIsServers
  <1>2. f \in Fds /\ os[f] = None
    BY DEF FreeFds
  <1>3. /\ Started(k, f) \in Delegatee
        /\ Started(k, f).st = "live" /\ ~Started(k, f).freed /\ Started(k, f).kind = k
        /\ Started(k, f).fd = f /\ Started(k, f).selected
        /\ Started(k, f).op = "insert" /\ Started(k, f).via = main
    BY <1>1, <1>2 DEF Started, Delegatee, TypeOK
  <1>4. TypeOK'
    BY <1>2, <1>3 DEF TypeOK
  <1>5. /\ hd'[p] = Started(k, f) /\ \A q \in Ports \ {p} : hd'[q] = hd[q]
        /\ os'[f] = p /\ \A g \in Fds \ {f} : os'[g] = os[g]
    BY <1>2 DEF TypeOK
  <1>6. /\ mh'[main].fdmap = mh[main].fdmap /\ mh'[main].st = mh[main].st
        /\ mh'[main].port = mh[main].port /\ mh'[main].timer = mh[main].timer
        /\ mh'[main].polled = mh[main].polled \cup {f}
    BY <1>1 DEF TypeOK, MainObject
  <1>7. ServerInv'
    BY <1>1, <1>6 DEF ServerInv
  <1>8. HandlerInv'
    <2>1. mainop # p
      BY DEF HandlerInv, NoDelegatee
    <2>2. ASSUME NEW q \in Ports, q # p
          PROVE  mh'[q] = mh[q] /\ hd'[q] = hd[q] /\ (mainop' = q <=> mainop = q)
      BY <1>1, <1>5, <2>1, <2>2
    <2>3. ASSUME NEW q \in Ports, q # p
          PROVE  HandlerInv!(q)'
      BY <2>2, <2>3 DEF HandlerInv
    <2>4. HandlerInv!(p)'
      BY <1>2, <1>3, <1>5, <2>1
    <2> QED
      BY <2>3, <2>4 DEF HandlerInv
  <1>9. \A q \in Ports \ {p} : Holds(hd[q]) => hd[q].fd # f
    BY <1>2 DEF DescriptorInv
  <1>10. DescriptorInv'
    <2>1. f \notin closing /\ \A g \in Fds : os[g] # p
      BY <1>2, FdsAssumption DEF DescriptorInv, NoDelegatee, Holds, TypeOK
    <2>2. \A q \in Ports : Holds(hd'[q]) =>
            /\ os'[hd'[q].fd] = q /\ hd'[q].fd \notin closing'
            /\ main' # None /\ hd'[q].fd \in mh'[main].polled
      BY <1>2, <1>3, <1>5, <1>6, <1>9, <2>1 DEF DescriptorInv, HandlerInv, Holds
    <2>3. \A g \in closing :
            os'[g] # None /\ hd'[os'[g]].fd = g /\ ~Holds(hd'[os'[g]])
      BY <1>2, <1>5, <2>1 DEF DescriptorInv, TypeOK
    <2>4. \A g \in Fds : os'[g] # None =>
            g \in closing \/ (Holds(hd'[os'[g]]) /\ hd'[os'[g]].fd = g)
      BY <1>2, <1>3, <1>5, <2>1 DEF DescriptorInv, TypeOK, Holds
    <2> QED
      BY <2>2, <2>3, <2>4 DEF DescriptorInv, Holds
  <1>11. EntriesInv'
    <2>1. mh[main].fdmap \in [Fds -> Ports \cup {None}]
      BY <1>1, FieldTypes
    <2>2. \A g \in Fds : mh[main].fdmap[g] # p
      BY DEF EntriesInv, NoDelegatee
    <2>3. ASSUME NEW g \in Fds, NEW q \in Ports, mh[main].fdmap[g] = q
          PROVE  hd'[q].selected /\ hd'[q].fd = g /\ hd'[q].op # "insert"
      BY <1>5, <2>2, <2>3 DEF EntriesInv
    <2>4. \A g \in Fds : mh'[main'].fdmap[g] = mh[main].fdmap[g]
      BY <1>6
    <2> QED
      BY <2>1, <2>3, <2>4 DEF EntriesInv
  <1>12. SerialInv'
    <2> SUFFICES ASSUME ~smp PROVE SerialInv'
      BY DEF SerialInv
    <2>1. \A q \in Ports : hd[q].op = "idle"
      BY DEF MayRun
    <2>2. \A q \in Ports : hd[q].selected => mh[main].fdmap[hd[q].fd] = q
      BY <2>1 DEF SerialInv
    <2>3. \A q \in Ports : hd'[q].op # "erase" /\ (hd'[q].op # "idle" => q = p)
      BY <1>3, <1>5, <2>1
    <2>4. \A q \in Ports : (hd'[q].selected /\ hd'[q].op = "idle") =>
            mh'[main].fdmap[hd'[q].fd] = q
      BY <1>3, <1>5, <1>6, <2>2
    <2> QED
      BY <2>3, <2>4 DEF SerialInv
  <1> QED
    BY <1>4, <1>7, <1>8, <1>10, <1>11, <1>12

\* listen and connect.
LEMMA BindInv ==
    ASSUME MapParts, NEW p \in Ports, NEW k \in Kinds, Bind(p, k)
    PROVE  MapParts'
  <1> USE PortsAssumption DEF AllPorts
  <1>1. mh[p].st = "open" /\ mh[p].port /\ MayRun /\ hd[p] = NoDelegatee
    BY DEF Bind, MapParts, HandlerInv
  <1>2. main # None
    BY <1>1, MainIsServers DEF Quiet
  <1>3. main \in Mains /\ mh[main].port
    BY <1>2, MainIsServers
  <1>4. PICK f : f = Min(FreeFds)
    OBVIOUS
  <1>5. f \in FreeFds
    BY <1>4, MinInSet, FdsAssumption DEF Bind, FreeFds
  <1>6. /\ os' = [os EXCEPT ![f] = p] /\ hd' = [hd EXCEPT ![p] = Started(k, f)]
        /\ mh' = [SelectOn(f) EXCEPT ![p].port = FALSE]
        /\ UNCHANGED <<smp, server, sport, main, closing, mainop>>
    BY <1>4 DEF Bind
  <1>7. SelectOn(f) = [mh EXCEPT ![main].polled = @ \cup {f}]
    BY <1>2, <1>3 DEF SelectOn
  <1>8. /\ mh' \in [AllPorts -> MainObject]
        /\ mh'[p].st = "open" /\ ~mh'[p].port
        /\ \A q \in AllPorts \ {p, main} : mh'[q] = mh[q]
        /\ mh'[main] = [mh[main] EXCEPT !.polled = @ \cup {f}]
    <2> DEFINE m == [mh[main] EXCEPT !.polled = @ \cup {f}]
               n == [mh[p] EXCEPT !.port = FALSE]
    <2>1. mh \in [AllPorts -> MainObject]
      BY DEF MapParts, TypeOK
    <2>2. m \in MainObject /\ n \in MainObject /\ n.st = "open" /\ ~n.port
      BY <1>1, <1>3, <1>5, <2>1, ZenonT(60) DEF MainObject, FreeFds
    <2>3. mh' = [mh EXCEPT ![main] = m, ![p] = n]
      BY <1>3, <1>6, <1>7, <2>1
    <2> HIDE DEF m, n
    <2>4. /\ mh' \in [AllPorts -> MainObject] /\ mh'[p] = n /\ mh'[main] = m
          /\ \A q \in AllPorts \ {p, main} : mh'[q] = mh[q]
      BY <1>3, <2>1, <2>2, <2>3
    <2> QED
      BY <2>2, <2>4 DEF m
  <1> QED
    BY <1>1, <1>2, <1>5, <1>6, <1>8, StartedInv, FlagsAssumption

\* A connection is accepted.
LEMMA AcceptInv ==
    ASSUME MapParts, NEW p \in Ports, NEW l \in Ports, Accept(l, p)
    PROVE  MapParts'
  <1> USE PortsAssumption DEF AllPorts
  <1>1. /\ mh[p].st = "unused" /\ ~mh[p].port /\ MayRun /\ hd[p] = NoDelegatee
        /\ mainop = None /\ main # None
    BY DEF Accept, MapParts, HandlerInv, Heard
  <1>3. main \in Mains /\ mh[main].port
    BY <1>1, MainIsServers
  <1>4. PICK f : f = Min(FreeFds)
    OBVIOUS
  <1>5. f \in FreeFds
    BY <1>4, MinInSet, FdsAssumption DEF Accept, FreeFds
  <1>6. /\ os' = [os EXCEPT ![f] = p] /\ hd' = [hd EXCEPT ![p] = Started("conn", f)]
        /\ mh' = [SelectOn(f) EXCEPT ![p].st = "open"]
        /\ mainop' = p /\ UNCHANGED <<smp, server, sport, main, closing>>
    BY <1>4 DEF Accept
  <1>7. SelectOn(f) = [mh EXCEPT ![main].polled = @ \cup {f}]
    BY <1>1, <1>3 DEF SelectOn
  <1>8. /\ mh' \in [AllPorts -> MainObject]
        /\ mh'[p].st = "open" /\ ~mh'[p].port
        /\ \A q \in AllPorts \ {p, main} : mh'[q] = mh[q]
        /\ mh'[main] = [mh[main] EXCEPT !.polled = @ \cup {f}]
    <2> DEFINE m == [mh[main] EXCEPT !.polled = @ \cup {f}]
               n == [mh[p] EXCEPT !.st = "open"]
    <2>1. mh \in [AllPorts -> MainObject]
      BY DEF MapParts, TypeOK
    <2>2. m \in MainObject /\ n \in MainObject /\ n.st = "open" /\ ~n.port
      BY <1>1, <1>3, <1>5, <2>1 DEF MainObject, FreeFds
    <2>3. mh' = [mh EXCEPT ![main] = m, ![p] = n]
      BY <1>3, <1>6, <1>7, <2>1
    <2> HIDE DEF m, n
    <2>4. /\ mh' \in [AllPorts -> MainObject] /\ mh'[p] = n /\ mh'[main] = m
          /\ \A q \in AllPorts \ {p, main} : mh'[q] = mh[q]
      BY <1>3, <2>1, <2>2, <2>3
    <2> QED
      BY <2>2, <2>4 DEF m
  <1> QED
    BY <1>1, <1>5, <1>6, <1>8, StartedInv

\* The second half of select.  Without another scheduler the place in the map
\* is free.
LEMMA InsertInv ==
    ASSUME MapParts, NEW p \in Ports, Insert(p)
    PROVE  MapParts'
  <1> USE PortsAssumption DEF AllPorts, MapParts
  <1>1. /\ hd[p].op = "insert" /\ main # None /\ hd[p].via = main /\ hd[p].selected
        /\ Holds(hd[p]) /\ hd[p].st \in {"live", "stopped"} /\ hd[p].fd \in Fds
    BY DEF Insert, HandlerInv, Holds
  <1>2. main \in Mains /\ server = "up" /\ mh[main].port
    BY <1>1, MainIsServers
  <1> DEFINE f == hd[p].fd
             x == [hd[p] EXCEPT !.op = "idle", !.via = None]
             map == [mh[main].fdmap EXCEPT ![f] = IF @ = None THEN p ELSE @]
             m == [mh[main] EXCEPT !.fdmap = map]
  <1>3. /\ hd[p] \in Delegatee /\ x \in Delegatee /\ x.op = "idle"
        /\ x.selected = hd[p].selected /\ x.st = hd[p].st /\ x.fd = f
        /\ x.kind = hd[p].kind /\ x.freed = hd[p].freed
    BY ZenonT(60) DEF TypeOK, Delegatee
  <1>0. /\ mh[main] \in MainObject /\ mh[main].fdmap \in [Fds -> Ports \cup {None}]
        /\ map \in [Fds -> Ports \cup {None}]
        /\ map[f] = IF mh[main].fdmap[f] = None THEN p ELSE mh[main].fdmap[f]
        /\ \A g \in Fds \ {f} : map[g] = mh[main].fdmap[g]
    BY <1>1, <1>2, FieldTypes
  <1>4. /\ m \in MainObject /\ m.port = mh[main].port /\ m.st = mh[main].st
        /\ m.timer = mh[main].timer /\ m.polled = mh[main].polled
        /\ m.fdmap = map
    <2> HIDE DEF map
    <2> QED
      BY <1>0 DEF MainObject
  <1>5. hd' = [hd EXCEPT ![p] = x] /\ mh' = [mh EXCEPT ![main] = m]
    BY <1>1, <1>2 DEF Insert, TypeOK
  <1>6. /\ mainop' = IF mainop = p THEN None ELSE mainop
        /\ UNCHANGED <<smp, server, sport, main, os, closing>>
    BY DEF Insert
  <1> HIDE DEF x, m, map
  <1>7. /\ hd'[p] = x /\ mh'[main] = m /\ \A q \in Ports \ {p} : hd'[q] = hd[q]
        /\ \A q \in AllPorts \ {main} : mh'[q] = mh[q]
    BY <1>2, <1>5 DEF TypeOK
  <1>8. TypeOK'
    BY <1>2, <1>3, <1>4, <1>5, <1>6 DEF TypeOK
  <1>9. ServerInv'
    BY <1>2, <1>4, <1>6, <1>7 DEF ServerInv
  <1>10. HandlerInv'
    <2>1. ASSUME NEW q \in Ports, q # p PROVE HandlerInv!(q)'
      BY <1>2, <1>6, <1>7, <2>1 DEF HandlerInv
    <2>2. mh'[p] = mh[p] /\ mh[p].st # "unused" /\ ~mh[p].port
      BY <1>1, <1>2, <1>7 DEF HandlerInv, NoDelegatee
    <2>3. HandlerInv!(p)'
      BY <1>1, <1>3, <1>6, <1>7, <2>2 DEF HandlerInv
    <2> QED
      BY <2>1, <2>3 DEF HandlerInv
  <1>11. \A q \in Ports : Holds(hd'[q]) = Holds(hd[q]) /\ hd'[q].fd = hd[q].fd
    BY <1>1, <1>3, <1>7 DEF Holds
  <1>12. DescriptorInv'
    BY <1>4, <1>6, <1>7, <1>11 DEF DescriptorInv, TypeOK, Holds
  <1>13. EntriesInv'
    <2>1. ASSUME NEW g \in Fds, NEW q \in Ports, map[g] = q
          PROVE  hd'[q].selected /\ hd'[q].fd = g /\ hd'[q].op # "insert"
      <3>1. mh[main].fdmap[g] = q \/ (g = f /\ q = p)
        BY <1>0, <2>1
      <3>2. CASE q = p /\ g = f
        BY <1>1, <1>3, <1>7, <3>2
      <3>3. CASE mh[main].fdmap[g] = q
        <4>1. hd[q].selected /\ hd[q].fd = g /\ hd[q].op # "insert"
          BY <1>1, <3>3 DEF EntriesInv
        <4> QED
          BY <1>1, <1>7, <4>1
      <3> QED
        BY <3>1, <3>2, <3>3
    <2>2. \A g \in Fds : mh'[main'].fdmap[g] = map[g]
      BY <1>4, <1>6, <1>7
    <2> QED
      BY <1>0, <2>1, <2>2 DEF EntriesInv
  <1>14. SerialInv'
    <2> SUFFICES ASSUME ~smp PROVE SerialInv'
      BY <1>6 DEF SerialInv
    <2>1. \A q \in Ports \ {p} : hd[q].op = "idle"
      BY <1>1 DEF SerialInv
    <2>2. mh[main].fdmap[f] = None
      <3> SUFFICES ASSUME mh[main].fdmap[f] # None PROVE FALSE
        OBVIOUS
      <3>1. PICK q \in Ports : q = mh[main].fdmap[f]
        BY <1>0, <1>1
      <3>2. hd[q].selected /\ hd[q].fd = f /\ hd[q].op # "insert"
        BY <1>1, <3>1 DEF EntriesInv
      <3>3. Holds(hd[q]) /\ q # p
        BY <1>1, <2>1, <3>2 DEF Holds
      <3> QED
        BY <1>1, <3>2, <3>3 DEF DescriptorInv
    <2>3. \A q \in Ports \ {p} : hd[q].selected => hd[q].fd # f
      BY <1>1, <2>1 DEF DescriptorInv, Holds
    <2>4. \A q \in Ports : hd'[q].op = "idle"
      BY <1>3, <1>7, <2>1
    <2>5. ASSUME NEW q \in Ports, hd'[q].selected
          PROVE  mh'[main].fdmap[hd'[q].fd] = q
      <3>1. CASE q = p
        BY <1>0, <1>3, <1>4, <1>7, <2>2, <3>1
      <3>2. CASE q # p
        <4>1. hd'[q] = hd[q] /\ hd[q].fd \in Fds \ {f} /\ hd[q].op = "idle"
          BY <1>7, <2>1, <2>3, <2>5, <3>2 DEF HandlerInv
        <4>2. mh[main].fdmap[hd[q].fd] = q
          BY <2>5, <4>1 DEF SerialInv
        <4> QED
          BY <1>0, <1>4, <1>7, <4>1, <4>2
      <3> QED
        BY <3>1, <3>2
    <2> QED
      BY <1>6, <2>4, <2>5 DEF SerialInv
  <1> QED
    BY <1>8, <1>9, <1>10, <1>12, <1>13, <1>14

\* The first half of deselect, by Close for a listener and by Destroying for a
\* connection: the descriptor is given up by the only handler that holds it.
LEMMA DeselectInv ==
    ASSUME MapParts, MayRun, NEW p \in Ports, hd[p].op = "idle", hd[p].selected,
           Deselect(p),
           \/ hd[p].kind = "conn" /\ mainop = None /\ mainop' = p
           \/ hd[p].kind = "listener" /\ mainop' = mainop,
           UNCHANGED <<smp, server, sport, main, os>>
    PROVE  MapParts'
  <1> USE PortsAssumption DEF AllPorts, MapParts
  <1> DEFINE f == hd[p].fd
             x == [hd[p] EXCEPT !.op = "erase", !.via = main]
             m == [mh[main] EXCEPT !.polled = @ \ {f}]
  <1>1. /\ Holds(hd[p]) /\ main # None /\ f \in Fds /\ os[f] = p /\ f \notin closing
        /\ hd[p].st \in {"live", "stopped"}
    BY DEF HandlerInv, DescriptorInv, Holds
  <1>2. main \in Mains /\ server = "up" /\ mh[main].port
    BY <1>1, MainIsServers
  <1>3. hd[p] \in Delegatee /\ mh[main] \in MainObject
    BY <1>2, FieldTypes
  <1>4. /\ x \in Delegatee /\ x.op = "erase" /\ x.via = main
        /\ x.selected = hd[p].selected /\ x.st = hd[p].st /\ x.fd = f
        /\ x.kind = hd[p].kind /\ x.freed = hd[p].freed
    BY <1>2, <1>3 DEF Delegatee
  <1>5. /\ m \in MainObject /\ m.port = mh[main].port /\ m.st = mh[main].st
        /\ m.timer = mh[main].timer /\ m.polled = mh[main].polled \ {f}
        /\ m.fdmap = mh[main].fdmap
    BY <1>3 DEF MainObject
  <1>6. /\ hd' = [hd EXCEPT ![p] = x] /\ mh' = [mh EXCEPT ![main] = m]
        /\ closing' = closing \cup {f}
    BY <1>1, <1>2 DEF Deselect, SelectOff, DeselectsNow, TypeOK
  <1> HIDE DEF x, m
  <1>7. /\ hd'[p] = x /\ mh'[main] = m /\ \A q \in Ports \ {p} : hd'[q] = hd[q]
        /\ \A q \in AllPorts \ {main} : mh'[q] = mh[q]
    BY <1>2, <1>6 DEF TypeOK
  <1>8. TypeOK'
    BY <1>1, <1>2, <1>4, <1>5, <1>6 DEF TypeOK
  <1>9. ServerInv'
    BY <1>2, <1>5, <1>7 DEF ServerInv
  <1>10. HandlerInv'
    <2>1. ASSUME NEW q \in Ports, q # p PROVE HandlerInv!(q)'
      BY <1>2, <1>7, <2>1 DEF HandlerInv
    <2>2. mh'[p] = mh[p] /\ mh[p].st # "unused" /\ ~mh[p].port
      BY <1>1, <1>2, <1>7 DEF HandlerInv, NoDelegatee
    <2>3. HandlerInv!(p)'
      BY <1>1, <1>4, <1>7, <2>2, ZenonT(60) DEF HandlerInv
    <2> QED
      BY <2>1, <2>3 DEF HandlerInv
  <1>11. \A q \in Ports \ {p} : Holds(hd[q]) => hd[q].fd # f
    BY <1>1 DEF DescriptorInv
  <1>12. DescriptorInv'
    <2>1. \A q \in Ports : Holds(hd'[q]) =>
            /\ os'[hd'[q].fd] = q /\ hd'[q].fd \notin closing'
            /\ main' # None /\ hd'[q].fd \in mh'[main'].polled
      BY <1>4, <1>5, <1>6, <1>7, <1>11 DEF DescriptorInv, Holds
    <2>2. \A g \in closing' :
            os'[g] # None /\ hd'[os'[g]].fd = g /\ ~Holds(hd'[os'[g]])
      BY <1>1, <1>4, <1>6, <1>7 DEF DescriptorInv, TypeOK, Holds
    <2>3. \A g \in Fds : os'[g] # None =>
            g \in closing' \/ (Holds(hd'[os'[g]]) /\ hd'[os'[g]].fd = g)
      BY <1>1, <1>4, <1>6, <1>7 DEF DescriptorInv, TypeOK
    <2> QED
      BY <2>1, <2>2, <2>3 DEF DescriptorInv, Holds
  <1>13. EntriesInv'
    <2>1. mh[main].fdmap \in [Fds -> Ports \cup {None}]
      BY <1>2, FieldTypes
    <2>2. ASSUME NEW g \in Fds, NEW q \in Ports, mh[main].fdmap[g] = q
          PROVE  hd'[q].selected /\ hd'[q].fd = g /\ hd'[q].op # "insert"
      <3>1. hd[q].selected /\ hd[q].fd = g /\ hd[q].op # "insert"
        BY <1>1, <2>2 DEF EntriesInv
      <3> QED
        BY <1>4, <1>7, <3>1
    <2>3. \A g \in Fds : mh'[main'].fdmap[g] = mh[main].fdmap[g]
      BY <1>5, <1>7
    <2> QED
      BY <2>1, <2>2, <2>3 DEF EntriesInv
  <1>14. SerialInv'
    <2> SUFFICES ASSUME ~smp PROVE SerialInv'
      BY DEF SerialInv
    <2>1. \A q \in Ports : hd[q].op = "idle"
      BY DEF MayRun
    <2>2. \A q \in Ports : hd'[q].op # "idle" => q = p
      BY <1>7, <2>1
    <2>3. \A q \in Ports : (hd'[q].selected /\ hd'[q].fd = f) => q = p
      BY <1>7, <1>11, <2>1 DEF Holds
    <2>4. \A q \in Ports : (hd'[q].selected /\ hd'[q].op = "idle") =>
            mh'[main'].fdmap[hd'[q].fd] = q
      BY <1>4, <1>5, <1>7 DEF SerialInv
    <2>5. hd'[p].fd = f
      BY <1>4, <1>7
    <2> QED
      BY <2>2, <2>3, <2>4, <2>5 DEF SerialInv
  <1> QED
    BY <1>8, <1>9, <1>10, <1>12, <1>13, <1>14

\* The DESTROYING callback begins.
LEMMA DestroyingInv ==
    ASSUME MapParts, NEW p \in Ports, Destroying(p)
    PROVE  MapParts'
  BY DeselectInv DEF Destroying

\* The port of a socket is closed, up to deselect or, for a connection, whole.
LEMMA CloseInv ==
    ASSUME MapParts, NEW p \in Ports, Close(p)
    PROVE  MapParts'
  <1>1. CASE StopDeselects(p)
    <2>1. hd[p].op = "idle" /\ hd[p].selected /\ hd[p].kind = "listener"
      BY <1>1 DEF StopDeselects, Close, MapParts, HandlerInv
    <2> QED
      BY <1>1, <2>1, DeselectInv DEF Close
  <1>2. CASE ~StopDeselects(p)
    <2> USE PortsAssumption DEF AllPorts, MapParts
    <2>0. PICK u \in BOOLEAN : hd' = [hd EXCEPT ![p] = Stopped(hd[p], u)]
      BY <1>2 DEF Close
    <2> DEFINE x == Stopped(hd[p], u)
               m == [mh[p] EXCEPT !.st = "closed", !.timer = FALSE, !.polled = {}]
    <2>1. main # None /\ mh[p].st = "open"
      BY MainIsServers DEF Close, Quiet
    <2>2. main \in Mains /\ server = "up"
      BY <2>1, MainIsServers
    <2>3. hd[p] \in Delegatee /\ mh[p] \in MainObject
      BY FieldTypes
    <2>4. hd[p].kind = "listener" => ~hd[p].selected
      BY <1>2, <2>1 DEF StopDeselects
    <2>5. /\ x \in Delegatee /\ x.op = hd[p].op /\ x.via = hd[p].via
          /\ x.fd = hd[p].fd /\ x.kind = hd[p].kind /\ x.freed = hd[p].freed
          /\ x.st = IF hd[p].kind = "conn" /\ ~hd[p].freed THEN "stopped"
                    ELSE IF hd[p].kind = "none" THEN "none" ELSE "deleted"
          /\ x.selected = (hd[p].selected /\ hd[p].kind = "conn")
          /\ x.unsent = (hd[p].kind = "conn" /\ ~hd[p].freed /\ u)
      BY <2>3, ZenonT(60) DEF Stopped, Delegatee
    <2>6. x.selected = hd[p].selected
      BY <2>4, <2>5, <2>3 DEF HandlerInv, NoDelegatee, Delegatee
    <2>7. m \in MainObject /\ m.port = mh[p].port /\ m.st = "closed"
      BY <2>3 DEF MainObject
    <2>8. /\ hd' = [hd EXCEPT ![p] = x] /\ mh' = [mh EXCEPT ![p] = m]
          /\ UNCHANGED <<smp, server, sport, main, os, mainop>> /\ closing' = closing
      BY <1>2, <2>0, <2>1, <2>2 DEF Close, stop, IsMain, TypeOK
    <2> HIDE DEF x, m
    <2>9. /\ hd'[p] = x /\ mh'[p] = m /\ \A q \in Ports \ {p} : hd'[q] = hd[q]
          /\ \A q \in AllPorts \ {p} : mh'[q] = mh[q]
      BY <2>8 DEF TypeOK
    <2>10. TypeOK'
      BY <2>5, <2>7, <2>8 DEF TypeOK
    <2>11. ServerInv'
      BY <2>2, <2>8, <2>9 DEF ServerInv
    <2>12. HandlerInv'
      <3>1. ASSUME NEW q \in Ports, q # p PROVE HandlerInv!(q)'
        BY <2>8, <2>9, <3>1 DEF HandlerInv
      <3>2. HandlerInv!(p)'
        <4>1. CASE hd[p].st = "none"
          <5>0. hd[p] = NoDelegatee
            BY <4>1 DEF HandlerInv
          <5>1. x = NoDelegatee /\ hd[p] = NoDelegatee
            <6>1. /\ x.st = "none" /\ x.kind = "none" /\ x.fd = 0
                  /\ x.op = "idle" /\ x.via = None
              BY <2>5, <5>0 DEF NoDelegatee
            <6>2. ~hd[p].freed /\ ~hd[p].selected
              BY <5>0 DEF NoDelegatee
            <6>3. ~x.freed /\ ~x.selected /\ ~x.unsent
              BY <2>5, <5>0, <6>1, <6>2, Zenon DEF NoDelegatee
            <6> QED
              BY <2>5, <5>0, <6>1, <6>3 DEF Delegatee, NoDelegatee
          <5> QED
            BY <2>7, <2>8, <2>9, <5>1 DEF HandlerInv, NoDelegatee
        <4>2. CASE hd[p].st # "none"
          <5>1. hd[p].kind \in {"listener", "conn"} /\ x.st # "none" /\ hd[p] # NoDelegatee
            BY <2>3, <2>5, <4>2 DEF HandlerInv, Delegatee, NoDelegatee
          <5>2. ~mh[p].port
            BY <5>1 DEF HandlerInv
          <5> QED
            BY <2>4, <2>5, <2>6, <2>7, <2>8, <2>9, <4>2, <5>1, <5>2 DEF HandlerInv
        <4> QED
          BY <4>1, <4>2
      <3> QED
        BY <3>1, <3>2 DEF HandlerInv
    <2>13. /\ mh'[main'] = mh[main]
           /\ \A q \in Ports : /\ hd'[q].selected = hd[q].selected /\ hd'[q].fd = hd[q].fd
                               /\ hd'[q].op = hd[q].op
      BY <2>2, <2>5, <2>6, <2>8, <2>9
    <2>14. DescriptorInv'
      BY <2>8, <2>13 DEF DescriptorInv, Holds, TypeOK
    <2>15. EntriesInv' /\ SerialInv'
      <3>1. mh[main].fdmap \in [Fds -> Ports \cup {None}]
        BY <2>2, FieldTypes
      <3>2. EntriesInv'
        BY <2>8, <2>13, <3>1 DEF EntriesInv
      <3>3. SerialInv'
        BY <2>8, <2>13 DEF SerialInv
      <3> QED
        BY <3>2, <3>3
    <2> QED
      BY <2>10, <2>11, <2>12, <2>14, <2>15
  <1> QED
    BY <1>1, <1>2

\* The second half of deselect: the handler is y afterwards, which libutp has
\* freed or stop has deleted.
LEMMA ErasedInv ==
    ASSUME MapParts, NEW p \in Ports, hd[p].op = "erase",
           NEW y \in Delegatee, hd' = [hd EXCEPT ![p] = y],
           y.op = "idle", ~y.selected, y.fd = hd[p].fd, y.kind = hd[p].kind,
           y.st # "none", y.freed \/ (y.kind = "listener" /\ y.st = "deleted"),
           mh' \in [AllPorts -> MainObject],
           mh'[main] = [mh[main] EXCEPT !.fdmap = [@ EXCEPT ![hd[p].fd] = None]],
           mh'[p].port = mh[p].port, mh'[p].st # "unused",
           \A q \in AllPorts \ {p, main} : mh'[q] = mh[q],
           mainop' = IF mainop = p THEN None ELSE mainop,
           UNCHANGED <<smp, server, sport, main, os, closing>>
    PROVE  MapParts'
  <1> USE PortsAssumption DEF AllPorts, MapParts
  <1> DEFINE f == hd[p].fd
             map == [mh[main].fdmap EXCEPT ![f] = None]
  <1>1. main # None /\ hd[p].selected /\ f \in Fds /\ hd[p].st # "none" /\ ~Holds(hd[p])
    BY DEF HandlerInv, Holds
  <1>2. main \in Mains /\ server = "up"
    BY <1>1, MainIsServers
  <1>3. /\ mh[main] \in MainObject /\ mh[main].fdmap \in [Fds -> Ports \cup {None}]
        /\ map[f] = None /\ \A g \in Fds \ {f} : map[g] = mh[main].fdmap[g]
    BY <1>1, <1>2, FieldTypes
  <1>4. /\ mh'[main].port = mh[main].port /\ mh'[main].st = mh[main].st
        /\ mh'[main].timer = mh[main].timer /\ mh'[main].polled = mh[main].polled
        /\ mh'[main].fdmap = map
    BY <1>3 DEF MainObject
  <1> HIDE DEF map
  <1>5. hd'[p] = y /\ \A q \in Ports \ {p} : hd'[q] = hd[q]
    BY DEF TypeOK
  <1>6. TypeOK'
    BY DEF TypeOK
  <1>7. ServerInv'
    BY <1>2, <1>4 DEF ServerInv
  <1>8. HandlerInv'
    <2>1. ASSUME NEW q \in Ports, q # p PROVE HandlerInv!(q)'
      BY <1>2, <1>5, <2>1 DEF HandlerInv
    <2>2. ~mh[p].port /\ hd[p].kind # "none"
      BY <1>1 DEF HandlerInv, NoDelegatee
    <2>3. HandlerInv!(p)'
      BY <1>1, <1>5, <2>2
    <2> QED
      BY <2>1, <2>3 DEF HandlerInv
  <1>9. \A q \in Ports : (Holds(hd'[q]) <=> Holds(hd[q])) /\ hd'[q].fd = hd[q].fd
    BY <1>1, <1>5 DEF Holds
  <1>10. DescriptorInv'
    <2>1. \A q \in Ports : Holds(hd'[q]) =>
            /\ os'[hd'[q].fd] = q /\ hd'[q].fd \notin closing'
            /\ main' # None /\ hd'[q].fd \in mh'[main'].polled
      <3>1. ASSUME NEW q \in Ports, Holds(hd'[q])
            PROVE  q # p /\ hd'[q] = hd[q] /\ Holds(hd[q])
        BY <1>1, <1>5, <1>9, <3>1
      <3>2. ASSUME NEW q \in Ports, Holds(hd[q])
            PROVE  /\ os[hd[q].fd] = q /\ hd[q].fd \notin closing
                   /\ hd[q].fd \in mh[main].polled
        BY <3>2 DEF DescriptorInv
      <3>3. mh'[main'].polled = mh[main].polled /\ main' # None
        BY <1>1, <1>4
      <3>4. ASSUME NEW q \in Ports, Holds(hd'[q])
            PROVE  /\ os'[hd'[q].fd] = q /\ hd'[q].fd \notin closing'
                   /\ main' # None /\ hd'[q].fd \in mh'[main'].polled
        <4>1. hd'[q] = hd[q] /\ Holds(hd[q])
          BY <3>1, <3>4
        <4>2. /\ os[hd[q].fd] = q /\ hd[q].fd \notin closing
              /\ hd[q].fd \in mh[main].polled
          BY <3>2, <4>1
        <4> QED
          BY <3>3, <4>1, <4>2
      <3> QED
        BY <3>4
    <2>2. \A g \in closing' :
            os'[g] # None /\ hd'[os'[g]].fd = g /\ ~Holds(hd'[os'[g]])
      BY <1>9 DEF DescriptorInv, TypeOK
    <2>3. \A g \in Fds : os'[g] # None =>
            g \in closing' \/ (Holds(hd'[os'[g]]) /\ hd'[os'[g]].fd = g)
      BY <1>9 DEF DescriptorInv, TypeOK
    <2> QED
      BY <2>1, <2>2, <2>3 DEF DescriptorInv, Holds
  <1>11. EntriesInv'
    <2>1. ASSUME NEW g \in Fds, NEW q \in Ports, map[g] = q
          PROVE  hd'[q].selected /\ hd'[q].fd = g /\ hd'[q].op # "insert"
      <3>1. g # f /\ mh[main].fdmap[g] = q
        BY <1>3, <2>1
      <3>2. hd[q].selected /\ hd[q].fd = g /\ hd[q].op # "insert"
        BY <1>1, <3>1 DEF EntriesInv
      <3> QED
        BY <1>5, <3>1, <3>2
    <2>2. \A g \in Fds : mh'[main'].fdmap[g] = map[g]
      BY <1>4
    <2>3. \A g \in Fds : map[g] \in Ports \cup {None}
      BY <1>3
    <2> QED
      BY <2>1, <2>2, <2>3 DEF EntriesInv
  <1>12. SerialInv'
    <2> SUFFICES ASSUME ~smp PROVE SerialInv'
      BY DEF SerialInv
    <2>1. \A q \in Ports : hd'[q].op = "idle"
      BY <1>5 DEF SerialInv
    <2>2. ASSUME NEW q \in Ports, hd'[q].selected
          PROVE  mh'[main'].fdmap[hd'[q].fd] = q
      <3>1. q # p /\ hd'[q] = hd[q]
        BY <1>5, <2>2
      <3>2. hd[q].fd \in Fds \ {f} /\ mh[main].fdmap[hd[q].fd] = q
        BY <2>1, <2>2, <3>1 DEF SerialInv, HandlerInv
      <3> QED
        BY <1>3, <1>4, <3>1, <3>2
    <2> QED
      BY <2>1, <2>2 DEF SerialInv
  <1> QED
    BY <1>6, <1>7, <1>8, <1>10, <1>11, <1>12

LEMMA EraseInv ==
    ASSUME MapParts, NEW p \in Ports, Erase(p)
    PROVE  MapParts'
  <1> USE PortsAssumption DEF AllPorts
  <1> DEFINE f == hd[p].fd
             x == [hd[p] EXCEPT !.op = "idle", !.via = None, !.selected = FALSE]
             m == [mh[main] EXCEPT !.fdmap = [@ EXCEPT ![f] = None]]
  <1>1. /\ hd[p].op = "erase" /\ main # None /\ hd[p].via = main /\ f \in Fds
        /\ hd[p].st \in {"live", "stopped"} /\ mh[p].st # "unused"
        /\ hd[p].kind = "conn" <=> mainop = p
        /\ hd[p].kind # "none"
    BY DEF Erase, MapParts, HandlerInv, NoDelegatee
  <1>2. main \in Mains
    BY <1>1, MainIsServers
  <1>3. /\ mh \in [AllPorts -> MainObject] /\ mh[main] \in MainObject /\ hd[p] \in Delegatee
        /\ mh[p] \in MainObject /\ mh[main].fdmap \in [Fds -> Ports \cup {None}]
    BY <1>2, FieldTypes DEF MapParts, TypeOK
  <1>4. /\ x \in Delegatee /\ x.op = "idle" /\ ~x.selected /\ x.fd = f
        /\ x.kind = hd[p].kind /\ x.st = hd[p].st /\ x.freed = hd[p].freed
    BY <1>3 DEF Delegatee
  <1>5. m \in MainObject
    BY <1>1, <1>3 DEF MainObject
  <1>6. Erased(p) = [mh EXCEPT ![main] = m]
    BY <1>1, <1>2, <1>3 DEF Erased
  <1> HIDE DEF x
  <1>7. CASE mainop = p
    <2> DEFINE y == [x EXCEPT !.freed = TRUE,
                              !.st = IF @ = "stopped" THEN "deleted" ELSE @]
    <2>1. y \in Delegatee /\ y.op = "idle" /\ ~y.selected /\ y.fd = f
          /\ y.kind = hd[p].kind /\ y.st # "none" /\ y.freed
      BY <1>1, <1>4 DEF Delegatee
    <2>2. /\ hd' = [hd EXCEPT ![p] = y] /\ mh' = [mh EXCEPT ![main] = m]
          /\ mainop' = None /\ UNCHANGED <<smp, server, sport, main, os, closing>>
      BY <1>6, <1>7 DEF Erase, x
    <2> HIDE DEF y, m
    <2>3. /\ mh' \in [AllPorts -> MainObject] /\ mh'[main] = m /\ mh'[p] = mh[p]
          /\ \A q \in AllPorts \ {p, main} : mh'[q] = mh[q]
      BY <1>2, <1>3, <1>5, <2>2
    <2> QED
      BY <1>1, <1>7, <2>1, <2>2, <2>3, ErasedInv DEF m
  <1>8. CASE mainop # p
    <2>0. PICK u \in BOOLEAN : hd' = [hd EXCEPT ![p] = Stopped(x, u)]
      BY <1>8 DEF Erase, x
    <2> DEFINE y == Stopped(x, u)
               n == [mh[p] EXCEPT !.st = "closed", !.timer = FALSE, !.polled = {}]
    <2>1. hd[p].kind = "listener"
      BY <1>1, <1>3, <1>8 DEF Delegatee
    <2>2. y \in Delegatee /\ y.op = "idle" /\ ~y.selected /\ y.fd = f
          /\ y.kind = hd[p].kind /\ y.st = "deleted"
      BY <1>4, <2>1 DEF Stopped, Delegatee
    <2>3. n \in MainObject /\ n.port = mh[p].port /\ n.st = "closed"
      BY <1>3 DEF MainObject
    <2>4. /\ hd' = [hd EXCEPT ![p] = y] /\ stop(p, Erased(p), closing)
          /\ UNCHANGED <<smp, server, sport, os, mainop>>
      BY <1>8, <2>0 DEF Erase, x
    <2>5. main' = main /\ closing' = closing
      BY <1>2, <2>4 DEF stop, IsMain
    <2> HIDE DEF y, m
    <2>6. mh' = [mh EXCEPT ![main] = m, ![p] = n]
      BY <1>2, <1>3, <1>6, <2>4 DEF stop
    <2> HIDE DEF n
    <2>7. /\ mh' \in [AllPorts -> MainObject] /\ mh'[main] = m /\ mh'[p] = n
          /\ \A q \in AllPorts \ {p, main} : mh'[q] = mh[q]
      BY <1>2, <1>3, <1>5, <2>3, <2>6
    <2> QED
      BY <1>1, <1>8, <2>1, <2>2, <2>3, <2>4, <2>5, <2>7, ErasedInv DEF m
  <1> QED
    BY <1>7, <1>8

\* The timer of a handler that has its port is set again; the server's has.
LEMMA CheckTimeoutsInv ==
    ASSUME MapParts, NEW p \in AllPorts, CheckTimeouts(p)
    PROVE  MapParts'
  <1> USE PortsAssumption DEF MapParts
  <1> DEFINE m == [mh[p] EXCEPT !.timer = mh[p].port]
  <1>1. mh[p] \in MainObject /\ main # None
    BY FieldTypes DEF CheckTimeouts
  <1>2. /\ m \in MainObject /\ m.st = mh[p].st /\ m.port = mh[p].port
        /\ m.timer = mh[p].port /\ m.polled = mh[p].polled /\ m.fdmap = mh[p].fdmap
    BY <1>1 DEF MainObject
  <1>3. /\ mh' = [mh EXCEPT ![p] = m]
        /\ UNCHANGED <<smp, server, sport, main, hd, os, closing, mainop>>
    BY DEF CheckTimeouts
  <1> HIDE DEF m
  <1>4. \A q \in AllPorts :
          /\ mh'[q].st = mh[q].st /\ mh'[q].port = mh[q].port
          /\ mh'[q].polled = mh[q].polled /\ mh'[q].fdmap = mh[q].fdmap
          /\ mh'[q].timer = mh[q].timer \/ mh'[q].timer = mh[q].port
    BY <1>2, <1>3 DEF TypeOK
  <1>5. TypeOK'
    BY <1>2, <1>3 DEF TypeOK
  <1>6. main \in Mains /\ main \in AllPorts
    BY <1>1, MainIsServers DEF AllPorts
  <1>7. ServerInv'
    BY <1>1, <1>3, <1>4, <1>6 DEF ServerInv
  <1>8. HandlerInv'
    BY <1>3, <1>4 DEF HandlerInv, AllPorts
  <1>9. DescriptorInv' /\ EntriesInv' /\ SerialInv'
    BY <1>3, <1>4, <1>6 DEF DescriptorInv, EntriesInv, SerialInv, Holds
  <1> QED
    BY <1>5, <1>7, <1>8, <1>9

\* stop_select closes a descriptor that its handler has given up.
LEMMA StopSelectInv ==
    ASSUME MapParts, NEW f \in Fds, StopSelect(f)
    PROVE  MapParts'
  <1> USE DEF MapParts
  <1>1. /\ f \in closing /\ closing' = closing \ {f} /\ os' = [os EXCEPT ![f] = None]
        /\ UNCHANGED <<smp, server, sport, main, mh, hd, mainop>>
    BY DEF StopSelect
  <1>2. TypeOK'
    BY <1>1 DEF TypeOK
  <1>3. ServerInv' /\ HandlerInv'
    BY <1>1 DEF ServerInv, Quiet, HandlerInv
  <1>4. EntriesInv' /\ SerialInv'
    BY <1>1 DEF EntriesInv, SerialInv
  <1>5. DescriptorInv'
    <2>1. os'[f] = None /\ \A g \in Fds \ {f} : os'[g] = os[g]
      BY <1>1 DEF TypeOK
    <2>2. \A q \in Ports : Holds(hd[q]) => hd[q].fd \in Fds \ {f}
      BY <1>1 DEF DescriptorInv, HandlerInv, Holds
    <2>3. \A q \in Ports : Holds(hd[q]) =>
            /\ os'[hd[q].fd] = q /\ hd[q].fd \notin closing'
            /\ main # None /\ hd[q].fd \in mh[main].polled
      BY <1>1, <2>1, <2>2 DEF DescriptorInv
    <2>4. \A g \in closing' : os'[g] # None /\ hd[os'[g]].fd = g /\ ~Holds(hd[os'[g]])
      BY <1>1, <2>1 DEF DescriptorInv, TypeOK
    <2>5. \A g \in Fds : os'[g] # None =>
            g \in closing' \/ (Holds(hd[os'[g]]) /\ hd[os'[g]].fd = g)
      BY <1>1, <2>1 DEF DescriptorInv
    <2> QED
      BY <1>1, <2>3, <2>4, <2>5 DEF DescriptorInv, Holds
  <1> QED
    BY <1>2, <1>3, <1>4, <1>5

\* Every step keeps the invariant.
LEMMA NextMapParts ==
    ASSUME MapParts, ~Busy, [Next]_vars
    PROVE  MapParts'
  <1>1. CASE ServerStep
    BY <1>1, ServerInitInv, TerminateInv, ServerExitInv DEF ServerStep
  <1>2. ASSUME NEW p \in Ports, SocketStep(p) PROVE MapParts'
    BY <1>2, OpenPortInv, BindInv, AcceptInv, InsertInv, CloseInv, DestroyingInv, EraseInv
       DEF SocketStep
  <1>3. CASE \E p \in AllPorts : CheckTimeouts(p)
    BY <1>3, CheckTimeoutsInv
  <1>4. CASE \E f \in Fds : StopSelect(f)
    BY <1>4, StopSelectInv
  <1>5. CASE UNCHANGED vars
    BY <1>5 DEF vars, MapParts, TypeOK, ServerInv, Quiet, HandlerInv, DescriptorInv,
                EntriesInv, SerialInv, Holds
  <1> QED
    BY <1>1, <1>2, <1>3, <1>4, <1>5 DEF Next

\* The descriptor map is in order: for any ports and descriptors, on one
\* scheduler or several, an entry leads ready_input to a handler that has not
\* been deleted, whatever was opened, closed and destroyed before
\* (main_handler.cc, select, deselect and ready_input).
THEOREM MapCorrect == ASSUME ~Busy PROVE Spec => []MapInv
  <1>1. Init => MapParts
    BY InitMapParts
  <1>2. MapParts /\ [Next]_vars => MapParts'
    BY NextMapParts
  <1> QED
    BY <1>1, <1>2, PartsGiveMapInv, PTL DEF Spec

\* The port of a server that is up is the main handler, and libutp's clock runs
\* (main_handler.cc, start and stop).
THEOREM ServerKeepsMain == ASSUME ~Busy PROVE Spec => []ServerIsMain
  <1>1. MapInv => ServerIsMain
    BY DEF MapInv, ServerInv, ServerIsMain
  <1> QED
    BY <1>1, MapCorrect, PTL

\* With one scheduler a selected handler is reached by its datagrams
\* (main_handler.cc, select and deselect).
THEOREM SelectedHeard == ASSUME ~Busy PROVE Spec => []SelectedIsHeard
  <1>1. MapInv => SelectedIsHeard
    BY DEF MapInv, DescriptorInv, SerialInv, SelectedIsHeard, Heard, Holds
  <1> QED
    BY <1>1, MapCorrect, PTL

\* No descriptor is forgotten: each open one is held by its handler or about to
\* be closed (listener.cc stop, utp_handler.cc do_state_change).
THEOREM DescriptorsKept == ASSUME ~Busy PROVE Spec => []NoDescriptorLost
  <1>1. MapInv => NoDescriptorLost
    BY DEF MapInv, DescriptorInv, NoDescriptorLost, Holds
  <1> QED
    BY <1>1, MapCorrect, PTL

\* A descriptor is closed only when its connection is freed or its listener is
\* being closed, never under a handler that still uses it, although numbers are
\* used again (utp_handler.cc stop).
THEOREM ClosedOnlyWhenDone == ASSUME ~Busy PROVE Spec => ClosedWhenDone
  <1> DEFINE Done == \A f \in Fds : (os[f] # None /\ os'[f] = None) =>
         LET x == hd[os[f]] IN
           x.freed \/ x.op = "erase" \/ (x.kind = "listener" /\ x.st = "deleted")
  <1>1. MapInv /\ [Next]_vars => [Done]_vars
    <2> SUFFICES ASSUME MapInv, Next, NEW f \in Fds, os[f] # None, os'[f] = None
                 PROVE  LET x == hd[os[f]] IN
                          x.freed \/ x.op = "erase" \/ (x.kind = "listener" /\ x.st = "deleted")
      BY DEF vars
    <2> USE DEF MapInv
    <2>1. PICK p \in Ports : os[f] = p
      BY DEF TypeOK
    <2>2. StopSelect(f)
      <3>2. CASE ServerStep
        BY <3>2 DEF ServerStep, ServerInit, Terminate, ServerExit
      <3>3. ASSUME NEW q \in Ports, SocketStep(q) PROVE FALSE
        <4>1. UNCHANGED os \/ \E g : os' = [os EXCEPT ![g] = q]
          BY <3>3 DEF SocketStep, OpenPort, Bind, Accept, Insert, Close, Destroying, Erase
        <4> QED
          BY <4>1, PortsAssumption DEF TypeOK
      <3>4. CASE \E q \in AllPorts : CheckTimeouts(q)
        BY <3>4 DEF CheckTimeouts
      <3>5. CASE \E g \in Fds : StopSelect(g)
        BY <3>5 DEF StopSelect, TypeOK
      <3> QED
        BY <3>2, <3>3, <3>4, <3>5 DEF Next
    <2>3. hd[p].fd = f /\ ~Holds(hd[p])
      BY <2>1, <2>2 DEF StopSelect, DescriptorInv
    <2>4. hd[p].st # "none"
      BY <2>3, FdsAssumption DEF HandlerInv, NoDelegatee
    <2> QED
      BY <2>1, <2>3, <2>4 DEF HandlerInv, Holds
  <1>2. ([][Done]_vars) => ClosedWhenDone
    BY DEF ClosedWhenDone
  <1> QED
    BY <1>1, <1>2, MapCorrect, PTL DEF Spec
=============================================================================
