--------------------------- MODULE MCHostAdmission ---------------------------
EXTENDS HostAdmission, TLC

CONSTANTS r1, r2, r3, f1, admin, alice, bob, k1

Symmetry == Permutations(Request)

=============================================================================
