----------------------------- MODULE MCXmlValues -----------------------------
(***************************************************************************)
(* Instances of XmlValues for TLC.                                         *)
(***************************************************************************)
EXTENDS XmlValues, TLC

CONSTANTS d1, d2

(* Numbers on each side of each limit, and one that others follow.         *)
AtTheLimits ==
    {Absent, [there |-> TRUE, n |-> 2, tail |-> TRUE]}
        \cup [there : {TRUE}, n : {0, 2, 3, 5}, tail : {FALSE}]

NoTexts == {}

Symmetry == Permutations({d1, d2})
=============================================================================
