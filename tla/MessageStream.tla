--------------------------- MODULE MessageStream ---------------------------
(***************************************************************************)
(* What the two ends of a connection promise each other: the items given   *)
(* to one end come out of the other, in order, each once, unchanged.  An   *)
(* item is a packet when the connection is framed and a byte when it is    *)
(* not.  Several items may come out at a time.                             *)
(***************************************************************************)
EXTENDS Naturals, Sequences

VARIABLES
    sent,   \* the items sent so far
    got     \* the items delivered so far

streamVars == <<sent, got>>

StreamInit == sent = <<>> /\ got = <<>>

Send ==
    /\ Len(sent') > Len(sent) /\ SubSeq(sent', 1, Len(sent)) = sent
    /\ got' = got

Deliver ==
    /\ Len(got') \in Len(got) + 1 .. Len(sent)
    /\ got' = SubSeq(sent, 1, Len(got'))
    /\ sent' = sent

StreamNext == Send \/ Deliver

\* Data may come in and be handed to a waiting reader in one step.
StreamSpec == StreamInit /\ [][StreamNext]_streamVars
=============================================================================
