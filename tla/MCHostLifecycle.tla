-------------------------- MODULE MCHostLifecycle --------------------------
(* Instances of HostLifecycle for TLC.  Rows do not interact, so one host   *)
(* with two concurrent deletes and one claim meets every interleaving.      *)
EXTENDS HostLifecycle, TLC

Symmetry == Permutations(Task)
=============================================================================
