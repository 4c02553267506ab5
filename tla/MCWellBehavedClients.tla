------------------------ MODULE MCWellBehavedClients ------------------------
(* SignalServer under well-behaved clients, for TLC.                       *)
EXTENDS WellBehavedClients, FiniteSets

ASSUME FewerConnectionsThanIds == Cardinality(Conn) < IntMax

MCClientInt == 0 .. IntMax - 1

Symmetry == Permutations(Conn)
=============================================================================
