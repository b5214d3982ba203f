----------------------------- MODULE MCRequests -----------------------------
(***************************************************************************)
(* Instances of Requests for TLC.                                          *)
(***************************************************************************)
EXTENDS Requests

CONSTANTS t1, s1, s2, host1, host2

TwoServers == {[bare |-> TRUE, host |-> host1], [bare |-> TRUE, host |-> host2]}
=============================================================================
