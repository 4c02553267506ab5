---------------------------- MODULE TextReaders ----------------------------
(***************************************************************************)
(* All that the program reads: the JSON texts of clients and of the        *)
(* configuration file, the strings and the numbers in them, and the ICE    *)
(* string.  Each behaviour reads one of them.                              *)
(***************************************************************************)
EXTENDS JsonText, JsonString, JsonNumber, IceServer

RInit == DocumentGiven \/ StringGiven \/ NumberGiven \/ IceGiven

RNext == Parse \/ DecodeString \/ DecodeNumber \/ ParseIce \/ Done

RSpec == RInit /\ [][RNext]_rvars
=============================================================================
