---------------------------- MODULE MCDashboard ----------------------------
(* Constants for TLC.  Tabs and topics are interchangeable, but liveness   *)
(* is checked, so no symmetry is used.                                     *)
EXTENDS Dashboard

CONSTANTS t1, t2, btc, eth
=============================================================================
