--------------------------- MODULE MCMainHandler ---------------------------
(***************************************************************************)
(* MainHandler for TLC.  The ports of one kind are interchangeable, but a  *)
(* liveness property is checked: no symmetry.                              *)
(***************************************************************************)
EXTENDS MainHandler
=============================================================================
