----------------------------- MODULE Ownership -----------------------------
(***************************************************************************)
(* The owner of a socket: the process that is connected to its port, gets  *)
(* its data when it is active, and takes it down with it.                  *)
(* controlling_process/2 (src/gen_utp.erl) gives a socket to another       *)
(* process: it looks who the owner is, connects the port to the new one    *)
(* and takes away its own link, with the emulator free to run other        *)
(* processes between these.                                                *)
(*                                                                         *)
(* Ports, links and exit signals are the emulator's (external): the owner  *)
(* is linked to the port, port_connect links the new one and leaves the    *)
(* old one linked, and the exit of a linked process reaches the port some  *)
(* time later.  It closes the port if it comes from the owner, or if it    *)
(* was a crash.                                                            *)
(***************************************************************************)
EXTENDS Naturals

CONSTANTS
    Procs,     \* the processes
    None,      \* no process
    MaxCalls,  \* bound on the calls of controlling_process
    Eager      \* TRUE: a new owner may call before the old one's call is over

ASSUME ProcsAssumption == Procs # {} /\ None \notin Procs
ASSUME BoundsAssumption == MaxCalls \in Nat /\ Eager \in BOOLEAN

VARIABLES
    open,    \* the port is open
    owner,   \* the process it is connected to
    links,   \* the processes linked to it
    exits,   \* how each process ended, "no" while it lives
    at,      \* where a process is in controlling_process
    to,      \* the NewOwner of its call
    result,  \* what its last call returned
    calls    \* calls made

vars == <<open, owner, links, exits, at, to, result, calls>>

\* open_port in connect/3 and listen/2, driver_create_port for an acceptor
Init ==
    /\ open = TRUE
    /\ \E p \in Procs : owner = p /\ links = {p}
    /\ exits = [p \in Procs |-> "no"]
    /\ at = [p \in Procs |-> "idle"] /\ to = [p \in Procs |-> None]
    /\ result = [p \in Procs |-> "none"] /\ calls = 0

\* Mutant: a socket given to its owner is treated like any other.
ClauseSelf(p, q) ==
    CASE ~open             -> "einval"
      [] open /\ owner # p -> "not_owner"
      [] OTHER             -> "connect"

\* The clauses for port_info(Sock, connected)
Clause(p, q) ==
    CASE ~open                           -> "einval"
      [] open /\ owner = q               -> "ok"
      [] open /\ owner # q /\ owner # p  -> "not_owner"
      [] OTHER                           -> "connect"

\* p calls controlling_process(Sock, q).
ControllingProcess(p, q) ==
    /\ exits[p] = "no" /\ at[p] = "idle" /\ calls < MaxCalls
    /\ Eager \/ p # owner \/ \A x \in Procs : at[x] # "unlink"
    /\ calls' = calls + 1
    /\ \/ /\ Clause(p, q) = "connect"
          /\ at' = [at EXCEPT ![p] = "connect"] /\ to' = [to EXCEPT ![p] = q]
          /\ UNCHANGED result
       \/ /\ Clause(p, q) # "connect"
          /\ result' = [result EXCEPT ![p] = Clause(p, q)]
          /\ UNCHANGED <<at, to>>
    /\ UNCHANGED <<open, owner, links, exits>>

\* port_connect raises an error when the port or the process is gone.
CanConnect(q) == open /\ exits[q] = "no"

\* port_connect(Sock, NewOwner), and the catch around it
PortConnect(p) ==
    /\ at[p] = "connect" /\ exits[p] = "no"
    /\ \/ /\ CanConnect(to[p])
          /\ owner' = to[p] /\ links' = links \cup {to[p]}
          /\ at' = [at EXCEPT ![p] = "unlink"]
          /\ UNCHANGED <<to, result>>
       \/ /\ ~CanConnect(to[p])
          /\ result' = [result EXCEPT ![p] = "badarg"]
          /\ at' = [at EXCEPT ![p] = "idle"] /\ to' = [to EXCEPT ![p] = None]
          /\ UNCHANGED <<owner, links>>
    /\ UNCHANGED <<open, exits, calls>>

\* Mutant: the old owner stays linked.
UnlinkedKeeps(p) == links
Unlinked(p) == links \ {p}

\* unlink(Sock), ok
Unlink(p) ==
    /\ at[p] = "unlink" /\ exits[p] = "no"
    /\ links' = Unlinked(p)
    /\ result' = [result EXCEPT ![p] = "ok"]
    /\ at' = [at EXCEPT ![p] = "idle"] /\ to' = [to EXCEPT ![p] = None]
    /\ UNCHANGED <<open, owner, exits, calls>>

\* close/1, by any process that has the socket
Close ==
    /\ open
    /\ open' = FALSE /\ links' = {}
    /\ UNCHANGED <<owner, exits, at, to, result, calls>>

\* A process ends, normally or not; the latter at any place.
Exit(p, how) ==
    /\ exits[p] = "no" /\ (how = "normal" => at[p] = "idle")
    /\ exits' = [exits EXCEPT ![p] = how]
    /\ UNCHANGED <<open, owner, links, at, to, result, calls>>

\* Its exit signal reaches the port.
ExitSignal(p) ==
    /\ open /\ p \in links /\ exits[p] # "no"
    /\ \/ /\ p = owner \/ exits[p] = "crash"
          /\ open' = FALSE /\ links' = {}
       \/ /\ p # owner /\ exits[p] = "normal"
          /\ links' = links \ {p}
          /\ UNCHANGED open
    /\ UNCHANGED <<owner, exits, at, to, result, calls>>

Next ==
    \/ \E p, q \in Procs : ControllingProcess(p, q)
    \/ \E p \in Procs : PortConnect(p) \/ Unlink(p) \/ ExitSignal(p)
    \/ Close
    \/ \E p \in Procs, how \in {"normal", "crash"} : Exit(p, how)

\* The emulator runs processes to the end of their call and delivers signals.
Fairness == \A p \in Procs : WF_vars(PortConnect(p)) /\ WF_vars(Unlink(p))
                             /\ WF_vars(ExitSignal(p))

Spec == Init /\ [][Next]_vars
FairSpec == Spec /\ Fairness

-----------------------------------------------------------------------------
(***************************************************************************)
(* Properties                                                              *)
(***************************************************************************)

\* Types; a closed port has no links, and a call under way has its argument.
TypeOK ==
    /\ open \in BOOLEAN /\ owner \in Procs /\ links \subseteq Procs
    /\ exits \in [Procs -> {"no", "normal", "crash"}]
    /\ at \in [Procs -> {"idle", "connect", "unlink"}]
    /\ to \in [Procs -> Procs \cup {None}]
    /\ result \in [Procs -> {"none", "ok", "einval", "not_owner", "badarg"}]
    /\ calls \in 0..MaxCalls
    /\ ~open => links = {}
    /\ \A p \in Procs : at[p] # "idle" => to[p] # None

\* The owner of an open socket is linked to it, at every point of a hand-over
\* (controlling_process: unlink must never take the link of the owner, not when
\* a process gives a socket to itself and not when it got it back meanwhile).
OwnerLinked == open => owner \in links

\* Besides the owner, only a process that is still inside controlling_process
\* can take the socket down: once it has returned ok, a crash of the old owner
\* is none of the new one's business.
NoStaleLink ==
    \A p \in links : p = owner \/ at[p] = "unlink"

\* One hand-over at a time: a process about to connect the port is its owner,
\* and nobody still has to unlink; one that still has to is not the owner.
\* (True while a new owner waits for the old one's call to be over.)
OneHandover ==
    \A p \in Procs :
        /\ at[p] = "connect" => /\ owner = p /\ to[p] # p
                                /\ \A x \in Procs : at[x] # "unlink"
        /\ at[p] = "unlink" => owner # p

\* The conjunction that every step preserves.
OwnershipInv == TypeOK /\ OwnerLinked /\ NoStaleLink /\ OneHandover

\* Only the owner gives a socket away, although others call
\* controlling_process as well and the test is made before the port changes
\* hands.
OnlyOwnerGives == [][owner' # owner => at[owner] = "connect" /\ at'[owner] = "unlink"]_vars

\* A socket does not outlive its owner, however often and between whom it was
\* handed over.
PortClosedAfterOwner == exits[owner] # "no" ~> ~open
=============================================================================
