-------------------------- MODULE MCHostRefinement --------------------------
(* The instance of HostRefinement that TLC checks: one host, two deletes and *)
(* one claim, as in MCHostLifecycle.                                         *)
EXTENDS HostRefinement, TLC

Symmetry == Permutations(Task)
=============================================================================
