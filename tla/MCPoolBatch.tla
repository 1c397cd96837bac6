----------------------------- MODULE MCPoolBatch -----------------------------
(* PoolBatch with the deficits bounded for TLC.                             *)
EXTENDS PoolBatch

CONSTANTS
    p1, p2, p3,
    MaxDeficit    \* bound on a deficit

MCInit == need \in [Provider -> 0..MaxDeficit] /\ BatchInit

MCSpec == MCInit /\ [][BatchNext]_batchVars

=============================================================================
