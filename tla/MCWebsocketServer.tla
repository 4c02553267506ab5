------------------------- MODULE MCWebsocketServer -------------------------
(* The threads of the server, for TLC.                                     *)
EXTENDS WebsocketServer
=============================================================================
