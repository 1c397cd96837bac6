------------------------- MODULE MCSecretsExchange -------------------------
(* The instance of SecretsExchange for TLC: one request, one order, the    *)
(* timer, a record and the one that takes its place.                       *)
EXTENDS SecretsExchange, TLC
=============================================================================
