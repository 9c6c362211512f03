------------------------- MODULE MCWsConsumerHandle -------------------------
(* The bounds are numbers and are given in the configurations.             *)
EXTENDS WsConsumerHandle
=============================================================================
