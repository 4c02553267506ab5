--------------------------- MODULE MCMessageQueue ---------------------------
(* Server processes and stop commands, for TLC.                            *)
EXTENDS MessageQueue

=============================================================================
