----------------------------- MODULE MCFetchVms -----------------------------
(***************************************************************************)
(* Instances of FetchVms for TLC.                                          *)
(***************************************************************************)
EXTENDS FetchVms

CONSTANTS c1, c2, c3, l1, l2
=============================================================================
