------------------------------- MODULE MCCdrom -------------------------------
(***************************************************************************)
(* Instances of Cdrom for TLC.                                             *)
(***************************************************************************)
EXTENDS Cdrom, TLC

CONSTANTS f1, f2, o1, o2, c1, c2

Symmetry == Permutations({o1, o2}) \cup Permutations({c1, c2})
=============================================================================
