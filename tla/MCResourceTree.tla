--------------------------- MODULE MCResourceTree ---------------------------
(***************************************************************************)
(* Instances of ResourceTree for TLC.                                      *)
(***************************************************************************)
EXTENDS ResourceTree, TLC

CONSTANTS o1, o2

Symmetry == Permutations({o1, o2})

AllKinds == {HostOfVm, ClusterOfVm, ClusterOfHost, DataCenterOfCluster,
             DataCenterOfStorageDomain, Api}
JustApi  == {Api}
=============================================================================
