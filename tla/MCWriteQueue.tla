---------------------------- MODULE MCWriteQueue ----------------------------
(***************************************************************************)
(* WriteQueue for TLC.  The constants' values are in the .cfg files.       *)
(***************************************************************************)
EXTENDS WriteQueue
=============================================================================
