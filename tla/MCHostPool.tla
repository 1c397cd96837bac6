---------------------------- MODULE MCHostPool ----------------------------
(* The instance of HostPool for TLC: two providers with a target of one.   *)
EXTENDS HostPool, TLC

CONSTANTS t1, t2, p1, p2

TwoTargets == p1 :> 1 @@ p2 :> 1

=============================================================================
