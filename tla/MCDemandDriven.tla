--------------------------- MODULE MCDemandDriven ---------------------------
(* Constants for TLC: three consumers, two configured topics and one that  *)
(* is not configured.                                                      *)
EXTENDS DemandDriven

CONSTANTS c1, c2, c3, btc, eth, other

MCConsumers == {c1, c2, c3}
MCTopics == {btc, eth, other}
MCConfigured == {btc, eth}
=============================================================================
