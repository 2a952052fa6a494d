----------------------------- MODULE MCListener -----------------------------
(***************************************************************************)
(* Listener for TLC.  The constants' values are in the .cfg files.         *)
(***************************************************************************)
EXTENDS Listener

CONSTANTS p1, p2, l1, l2
=============================================================================
