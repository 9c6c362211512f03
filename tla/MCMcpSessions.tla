--------------------------- MODULE MCMcpSessions ---------------------------
(* Constants for TLC: sessions and a topic.                                 *)
EXTENDS McpSessions

CONSTANTS c1, c2, btc

MCConsumers == {c1, c2}
MCTopics == {btc}
=============================================================================
