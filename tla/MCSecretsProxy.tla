--------------------------- MODULE MCSecretsProxy ---------------------------
(* Two secrets that share a header at one name and not at another; only    *)
(* one of them is good at the third.                                       *)
EXTENDS SecretsProxy, TLC

Symmetry == Permutations(Flow)

CONSTANTS git, api, raw, s1, s2, h1, h2

Approval == [s \in Service |-> IF s = s1 THEN {git, api} ELSE Name]

Headers == [p \in Service \X Name |-> IF p = <<s2, api>> THEN h2 ELSE h1]
=============================================================================
