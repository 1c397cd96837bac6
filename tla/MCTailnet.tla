------------------------------ MODULE MCTailnet ------------------------------
(* The instance of Tailnet for TLC: two hosts share the poller and the token. *)
EXTENDS Tailnet, TLC
=============================================================================
