------------------------------ MODULE MCResync ------------------------------
(* Constants for TLC: two topics.                                          *)
EXTENDS Resync

CONSTANTS btc, eth

MCTopics == {btc, eth}
=============================================================================
