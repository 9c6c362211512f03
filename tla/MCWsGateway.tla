---------------------------- MODULE MCWsGateway ----------------------------
(* Constants for TLC: connections and topics.                              *)
EXTENDS WsGateway

CONSTANTS c1, c2, btc, eth

MCConsumers == {c1, c2}
MCTopics == {btc, eth}
=============================================================================
