---------------------------- MODULE MCOwnership ----------------------------
(***************************************************************************)
(* Ownership for TLC.  The constants' values are in the .cfg file.         *)
(***************************************************************************)
EXTENDS Ownership
=============================================================================
