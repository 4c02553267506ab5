------------------------ MODULE SignalServerHistory ------------------------
(***************************************************************************)
(* SignalServer with a history variable that counts, for every id, the ids *)
(* issued since it was issued last.  Clients keep the ids they were told   *)
(* (the peers list of a sign_in reply, the id of an exist reply) and       *)
(* address messages with them long after; an id issued again too soon      *)
(* would deliver such a message to a stranger.                             *)
(***************************************************************************)
EXTENDS SignalServer

VARIABLE age  \* Id -> 0 .. IntMax, IntMax standing for "never, or longer ago"

hvars == <<m_map_peers, m_last_id, m_vPairID, sent, alive, age>>

Aged(i) == IF age[i] < IntMax THEN age[i] + 1 ELSE age[i]

(* The step is a sign_in: no other handler leaves such a reply in sent.    *)
SignsIn == sent' # <<>> /\ sent'[1].signal = "return" /\ sent'[1].request = "sign_in"

HInit == Init /\ age = [i \in Id |-> IntMax]

HNext ==
  /\ Next
  /\ age' = IF SignsIn
            THEN [i \in Id |-> IF i = m_last_id' THEN 0 ELSE Aged(i)]
            ELSE age

HSpec == HInit /\ [][HNext]_hvars

(* NextID() goes around the whole id space before it issues an id again:   *)
(* between two sign-ins that get the same id there are at least            *)
(* INT_MAX minus the number of connections others.                         *)
ReuseDistance ==
  [][SignsIn => age[m_last_id'] >= IntMax - Cardinality(Conn)]_hvars
=============================================================================
