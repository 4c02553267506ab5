---------------------------- MODULE MCHeartbeat ----------------------------
(* The heartbeat, for TLC: ticks of one second.                            *)
EXTENDS Heartbeat
=============================================================================
