-------------------------- MODULE MCCollectionTable --------------------------
(***************************************************************************)
(* Instances of CollectionTable for TLC.                                   *)
(***************************************************************************)
EXTENDS CollectionTable, TLC

CONSTANTS i1, i2, n1, n2, t1, t2, t3, o1, o2, o3, o4

(* A node without a resource in it is one and the same.                    *)
MCNodes == {k \in Nodes : ~k.whole => k.id = i1 /\ k.name = None}

Fits(d) == \A i, j \in DOMAIN d : i # j /\ d[i].whole /\ d[j].whole => d[i].id # d[j].id

MCDocuments == {d \in UNION {[1..k -> MCNodes] : k \in 0..2} : Fits(d)}

Symmetry == Permutations({t1, t2, t3}) \cup Permutations({o1, o2, o3, o4})
=============================================================================
