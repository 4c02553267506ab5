--------------------------- MODULE MCSignalServer ---------------------------
(* SignalServer under arbitrary clients, for TLC.                          *)
EXTENDS SignalServerHistory

(* The connections at one time are fewer than the ids: NextID() ends.      *)
ASSUME FewerConnectionsThanIds == Cardinality(Conn) < IntMax

MCClientInt == {-1, 1}

Symmetry == Permutations(Conn) \cup Permutations(Name)
=============================================================================
