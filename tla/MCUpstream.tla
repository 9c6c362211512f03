----------------------------- MODULE MCUpstream -----------------------------
(* Constants for TLC: two symbols, at most three sockets alive at once.    *)
EXTENDS Upstream

CONSTANTS btc, eth, w1, w2, w3

MCSymbols == {btc, eth}
MCSockets == {w1, w2, w3}
=============================================================================
