------------------------------ MODULE MCGenUtp ------------------------------
(***************************************************************************)
(* GenUtp for TLC: who may call what.  The other constants are given in    *)
(* the .cfg files.                                                         *)
(***************************************************************************)
EXTENDS GenUtp

CONSTANTS p1, p2

One == {p1}
Two == {p1, p2}

\* One process does everything: connects, sends, receives, sets options, closes.
OneUser == [p \in One |-> {"connect", "send", "recv", "setopts", "close", "exit"}]

\* The same, but the owner does not exit before it has closed the socket.
Stays == [p \in One |-> {"connect", "send", "recv", "setopts", "close"}]

\* The same, leaving the socket's options alone.
Plain == [p \in One |-> {"connect", "send", "recv", "close"}]

\* The same, and the owner may exit at any time.
Exits == [p \in One |-> {"connect", "send", "recv", "close", "exit"}]

\* Two processes share the socket: the owner sends and closes, the other
\* receives.
Split == [p \in Two |-> IF p = p1 THEN {"connect", "send", "close"} ELSE {"recv"}]
=============================================================================
