--------------------------- MODULE OwnershipProofs ---------------------------
(***************************************************************************)
(* Ownership for any processes and any number of hand-overs, as long as a  *)
(* new owner waits for the old one's call to be over.                      *)
(***************************************************************************)
EXTENDS Ownership, TLAPS

\* A new socket belongs to the process that opened it.
LEMMA InitOwnershipInv == Init => OwnershipInv
  BY ProcsAssumption, BoundsAssumption
     DEF Init, OwnershipInv, TypeOK, OwnerLinked, NoStaleLink, OneHandover

\* The look at the owner: a process goes on only if the socket is its own.
LEMMA ControllingProcessInv ==
    ASSUME OwnershipInv, ~Eager, NEW p \in Procs, NEW q \in Procs,
           ControllingProcess(p, q)
    PROVE  OwnershipInv'
  <1> USE DEF OwnershipInv
  <1>1. Clause(p, q) \in {"einval", "ok", "not_owner", "connect"}
    BY DEF Clause
  <1>2. Clause(p, q) = "connect" => open /\ owner = p /\ q # p
    BY DEF Clause
  <1>3. UNCHANGED <<open, owner, links, exits>>
    BY DEF ControllingProcess
  <1>4. calls' \in 0..MaxCalls
    BY BoundsAssumption DEF ControllingProcess, TypeOK
  <1>5. CASE Clause(p, q) = "connect"
    <2>1. at' = [at EXCEPT ![p] = "connect"] /\ to' = [to EXCEPT ![p] = q]
          /\ result' = result /\ \A x \in Procs : at[x] # "unlink"
      BY <1>2, <1>5 DEF ControllingProcess
    <2>2. TypeOK'
      BY <1>3, <1>4, <2>1, ProcsAssumption DEF TypeOK
    <2>3. OwnerLinked' /\ NoStaleLink'
      BY <1>3, <2>1 DEF OwnerLinked, NoStaleLink, TypeOK
    <2>4. OneHandover'
      BY <1>2, <1>3, <1>5, <2>1 DEF OneHandover, TypeOK
    <2> QED
      BY <2>2, <2>3, <2>4
  <1>6. CASE Clause(p, q) # "connect"
    <2>1. UNCHANGED <<at, to>> /\ result' = [result EXCEPT ![p] = Clause(p, q)]
      BY <1>6 DEF ControllingProcess
    <2>2. TypeOK'
      BY <1>1, <1>3, <1>4, <1>6, <2>1 DEF TypeOK
    <2> QED
      BY <1>3, <2>1, <2>2 DEF OwnerLinked, NoStaleLink, OneHandover
  <1> QED
    BY <1>5, <1>6

\* port_connect: the new owner is linked before it is the owner.
LEMMA PortConnectInv ==
    ASSUME OwnershipInv, NEW p \in Procs, PortConnect(p)
    PROVE  OwnershipInv'
  <1> USE DEF OwnershipInv
  <1>1. at[p] = "connect" /\ owner = p /\ to[p] # p /\ to[p] \in Procs
        /\ \A x \in Procs : at[x] # "unlink"
    BY DEF PortConnect, OneHandover, TypeOK
  <1>2. \A x \in Procs : x # p => at[x] = "idle"
    BY <1>1 DEF OneHandover, TypeOK
  <1>3. UNCHANGED <<open, exits, calls>>
    BY DEF PortConnect
  <1>4. CASE CanConnect(to[p])
    <2>1. /\ owner' = to[p] /\ links' = links \cup {to[p]}
          /\ at' = [at EXCEPT ![p] = "unlink"] /\ to' = to /\ result' = result
      BY <1>4 DEF PortConnect
    <2>2. TypeOK'
      BY <1>1, <1>3, <1>4, <2>1 DEF TypeOK, CanConnect
    <2>3. OwnerLinked' /\ NoStaleLink'
      BY <1>1, <1>2, <1>3, <2>1 DEF OwnerLinked, NoStaleLink, TypeOK
    <2>4. OneHandover'
      BY <1>1, <1>2, <2>1 DEF OneHandover, TypeOK
    <2> QED
      BY <2>2, <2>3, <2>4
  <1>5. CASE ~CanConnect(to[p])
    <2>1. /\ UNCHANGED <<owner, links>> /\ result' = [result EXCEPT ![p] = "badarg"]
          /\ at' = [at EXCEPT ![p] = "idle"] /\ to' = [to EXCEPT ![p] = None]
      BY <1>5 DEF PortConnect
    <2>2. TypeOK'
      BY <1>3, <2>1 DEF TypeOK
    <2>3. OwnerLinked' /\ NoStaleLink'
      BY <1>1, <1>3, <2>1 DEF OwnerLinked, NoStaleLink, TypeOK
    <2>4. OneHandover'
      BY <1>1, <1>2, <2>1 DEF OneHandover, TypeOK
    <2> QED
      BY <2>2, <2>3, <2>4
  <1> QED
    BY <1>4, <1>5

\* unlink never takes the owner's link.
LEMMA UnlinkInv ==
    ASSUME OwnershipInv, NEW p \in Procs, Unlink(p)
    PROVE  OwnershipInv'
  <1> USE DEF OwnershipInv
  <1>1. /\ at[p] = "unlink" /\ owner # p
        /\ links' = links \ {p} /\ result' = [result EXCEPT ![p] = "ok"]
        /\ at' = [at EXCEPT ![p] = "idle"] /\ to' = [to EXCEPT ![p] = None]
        /\ UNCHANGED <<open, owner, exits, calls>>
    BY DEF Unlink, Unlinked, OneHandover
  <1>2. TypeOK'
    BY <1>1 DEF TypeOK
  <1>3. OwnerLinked' /\ NoStaleLink'
    BY <1>1 DEF OwnerLinked, NoStaleLink, TypeOK
  <1>4. OneHandover'
    BY <1>1 DEF OneHandover, TypeOK
  <1> QED
    BY <1>2, <1>3, <1>4

\* close, exits and their signals leave calls alone, and a port that loses its
\* owner's link is closed.
LEMMA OthersInv ==
    ASSUME OwnershipInv,
           \/ Close
           \/ \E p \in Procs : ExitSignal(p)
           \/ \E p \in Procs, how \in {"normal", "crash"} : Exit(p, how)
    PROVE  OwnershipInv'
  <1> USE DEF OwnershipInv
  <1>1. UNCHANGED <<owner, at, to, result, calls>>
    BY DEF Close, ExitSignal, Exit
  <1>2. open' \in BOOLEAN /\ links' \subseteq links /\ (~open' => links' = {})
    BY DEF TypeOK, Close, ExitSignal, Exit
  <1>3. exits' \in [Procs -> {"no", "normal", "crash"}]
    BY DEF TypeOK, Close, ExitSignal, Exit
  <1>4. TypeOK'
    BY <1>1, <1>2, <1>3 DEF TypeOK
  <1>5. OwnerLinked'
    <2>1. CASE Close
      BY <2>1, Zenon DEF OwnerLinked, Close
    <2>2. ASSUME NEW p \in Procs, ExitSignal(p) PROVE OwnerLinked'
      <3>1. CASE open' = FALSE
        BY <3>1, Zenon DEF OwnerLinked
      <3>2. CASE p # owner /\ links' = links \ {p} /\ UNCHANGED <<open, owner>>
        BY <3>2, Zenon DEF OwnerLinked
      <3> QED
        BY <2>2, <3>1, <3>2, Zenon DEF ExitSignal
    <2>3. ASSUME NEW p \in Procs, NEW how, Exit(p, how) PROVE OwnerLinked'
      BY <2>3, Zenon DEF OwnerLinked, Exit
    <2> QED
      BY <2>1, <2>2, <2>3
  <1>6. NoStaleLink' /\ OneHandover'
    BY <1>1, <1>2 DEF NoStaleLink, OneHandover
  <1> QED
    BY <1>4, <1>5, <1>6

\* Every step of every process keeps the hand-overs in order.
LEMMA NextOwnershipInv ==
    ASSUME ~Eager, OwnershipInv, [Next]_vars
    PROVE  OwnershipInv'
  <1>1. ASSUME NEW p \in Procs, NEW q \in Procs, ControllingProcess(p, q)
        PROVE  OwnershipInv'
    BY <1>1, ControllingProcessInv
  <1>2. ASSUME NEW p \in Procs, PortConnect(p) PROVE OwnershipInv'
    BY <1>2, PortConnectInv
  <1>3. ASSUME NEW p \in Procs, Unlink(p) PROVE OwnershipInv'
    BY <1>3, UnlinkInv
  <1>4. CASE UNCHANGED vars
    BY <1>4 DEF vars, OwnershipInv, TypeOK, OwnerLinked, NoStaleLink, OneHandover
  <1> QED
    BY <1>1, <1>2, <1>3, <1>4, OthersInv DEF Next

\* controlling_process keeps its hand-overs in order.
THEOREM HandoverCorrect == ASSUME ~Eager PROVE Spec => []OwnershipInv
  <1>1. Init => OwnershipInv
    BY InitOwnershipInv
  <1>2. OwnershipInv /\ [Next]_vars => OwnershipInv'
    BY NextOwnershipInv
  <1> QED
    BY <1>1, <1>2, PTL DEF Spec

\* The owner of an open socket is linked to it, so its exit will close it.
THEOREM OwnerStaysLinked == ASSUME ~Eager PROVE Spec => []OwnerLinked
  <1>1. OwnershipInv => OwnerLinked
    BY DEF OwnershipInv
  <1> QED
    BY <1>1, HandoverCorrect, PTL

\* A process that has given the socket away cannot take it down by crashing.
THEOREM FormerOwnerIsUnlinked == ASSUME ~Eager PROVE Spec => []NoStaleLink
  <1>1. OwnershipInv => NoStaleLink
    BY DEF OwnershipInv
  <1> QED
    BY <1>1, HandoverCorrect, PTL

\* Only the owner gives the socket away.
THEOREM OwnerGives == ASSUME ~Eager PROVE Spec => OnlyOwnerGives
  <1>1. OwnershipInv /\ [Next]_vars
          => [owner' # owner => at[owner] = "connect" /\ at'[owner] = "unlink"]_vars
    <2> SUFFICES ASSUME OwnershipInv, Next, owner' # owner
                 PROVE  at[owner] = "connect" /\ at'[owner] = "unlink"
      BY DEF vars
    <2>1. PICK p \in Procs : PortConnect(p)
      BY DEF Next, ControllingProcess, Unlink, Close, Exit, ExitSignal
    <2>2. at[p] = "connect" /\ owner = p
      BY <2>1 DEF PortConnect, OwnershipInv, OneHandover
    <2>3. at'[p] = "unlink"
      BY <2>1 DEF PortConnect, OwnershipInv, TypeOK
    <2> QED
      BY <2>2, <2>3
  <1> QED
    BY <1>1, HandoverCorrect, PTL DEF Spec, OnlyOwnerGives
=============================================================================
