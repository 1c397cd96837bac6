---------------------------- MODULE MCTemplates ----------------------------
(* The instance of Templates for TLC: one template and its image.          *)
EXTENDS Templates, TLC

CONSTANTS k1, i1

OneImage == k1 :> i1

=============================================================================
