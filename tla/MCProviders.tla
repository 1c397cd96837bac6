----------------------------- MODULE MCProviders -----------------------------
(* Two deletes of a VM; two creates on a group with older rules.              *)
EXTENDS Providers
=============================================================================
