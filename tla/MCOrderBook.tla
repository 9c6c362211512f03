---------------------------- MODULE MCOrderBook ----------------------------
(* Constants for TLC.                                                      *)
EXTENDS OrderBook

CONSTANTS btc, eth
=============================================================================
