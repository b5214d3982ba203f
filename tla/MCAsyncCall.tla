---------------------------- MODULE MCAsyncCall ----------------------------
(***************************************************************************)
(* Instances of AsyncCall for TLC.                                         *)
(***************************************************************************)
EXTENDS AsyncCall

CONSTANTS c1, c2, o1
=============================================================================
