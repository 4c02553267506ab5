--------------------------- MODULE MCSignalSystem ---------------------------
(* The whole server, for TLC, with clients that sign in, offer a call to   *)
(* the peer that signed in first, or send a text the server throws on.     *)
EXTENDS SignalSystem

MCClientInt == {0, 1}

MCText ==
  {[signal |-> "sign_in", name |-> n, nolist |-> FALSE] : n \in Name}
  \cup {[signal |-> "message", to |-> S!JsonInt(0), from |-> S!JsonInt(1), type |-> "offer"]}
  \cup {[signal |-> "malformed"]}
=============================================================================
