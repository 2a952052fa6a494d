---------------------------- MODULE MCReadBuffer ----------------------------
(***************************************************************************)
(* ReadBuffer for TLC.                                                     *)
(***************************************************************************)
EXTENDS ReadBuffer

\* The instance meets what the theorems of ReadBufferProofs assume.
ASSUME InstanceAssumption == Sound /\ NoTrue /\ ~Shared

\* Bytes with the values that lengths have, so that data taken for a length
\* would be believed.
Data == {<<1>>, <<2, 0>>}

\* Longer than a length of one byte can say
Long == {<<1, 1, 1, 1>>}

\* {active, true} is used without framing only.
Sparing == [k \in {0, 1, 2} |-> {"false", "once"} \cup (IF k = 0 THEN {"true"} ELSE {})]
Every == [k \in {0, 1, 2} |-> {"false", "once", "true"}]
=============================================================================
