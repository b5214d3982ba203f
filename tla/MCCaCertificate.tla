-------------------------- MODULE MCCaCertificate --------------------------
(***************************************************************************)
(* Instances of CaCertificate for TLC.                                     *)
(***************************************************************************)
EXTENDS CaCertificate, TLC

CONSTANTS c1, c2, t1, t2, t3

(* Certificates are interchangeable, and so are the names of temporary      *)
(* files: no definition singles one out.                                    *)
Symmetry == Permutations({c1, c2}) \cup Permutations({t1, t2, t3})
=============================================================================
