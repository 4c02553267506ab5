------------------------- MODULE WellBehavedClients -------------------------
(***************************************************************************)
(* SignalServer together with the clients it is written for.  The server   *)
(* does not check any of what follows; the promise of CallDirectory needs  *)
(* it.  A well-behaved client                                              *)
(*   - signs in once per connection,                                       *)
(*   - writes its own id into sign_out and into "from",                    *)
(*   - calls, and is called by, one peer per sign-in, which is signed in   *)
(*     when the server handles the offer; the two may offer again as often *)
(*     as they like (renegotiation), and each offer records another pair,  *)
(*   - sends well-formed JSON.                                             *)
(* A departure erases one pair; those of a renegotiation stay behind.      *)
(***************************************************************************)
EXTENDS SignalServer

MyId(hdl) == m_map_peers[hdl].id

Offers == Range(m_vPairID)

(* All recorded offers of the two, old ones included, are between them.    *)
FreeToCall(hdl, id) ==
  /\ IsExistId(m_map_peers, id)
  /\ id # MyId(hdl)
  /\ \A pair \in Offers :
       HasEnd(pair, id) \/ HasEnd(pair, MyId(hdl))
         => HasEnd(pair, id) /\ HasEnd(pair, MyId(hdl))

WellBehaved(hdl, value) ==
  /\ ~Throws(value)
  /\ value.signal = "sign_in" => hdl \notin DOMAIN m_map_peers
  /\ value.signal = "sign_out" =>
       hdl \in DOMAIN m_map_peers /\ value.id = JsonInt(MyId(hdl))
  /\ value.signal = "message" =>
       /\ hdl \in DOMAIN m_map_peers /\ value.from = JsonInt(MyId(hdl))
       /\ value.type = "offer" => FreeToCall(hdl, asInt(value.to))

WNext ==
  \E hdl \in Conn :
    \/ OnClose(hdl)
    \/ \E value \in Request : WellBehaved(hdl, value) /\ OnReceive(hdl, value)

(* The ids go around only after INT_MAX sign-ins.  The server does not ask *)
(* whether the id it issues is in a pair left behind; that it is not, is   *)
(* assumed where pairs are left behind.                                    *)
FreshId ==
  \A hdl \in DOMAIN m_map_peers' \ DOMAIN m_map_peers, pair \in Offers :
    ~HasEnd(pair, m_map_peers'[hdl].id)

WSpec == Init /\ [][WNext /\ FreshId]_vars

(* Clients that do not renegotiate: one offer per call.                    *)
OneOffer ==
  Len(m_vPairID') > Len(m_vPairID)
    => \A pair \in Offers : ~HasEnd(pair, Last(m_vPairID').from)

OnceSpec == Init /\ [][WNext /\ OneOffer]_vars

-----------------------------------------------------------------------------
(* Between clients that make one offer per call the vector of pairs is     *)
(* exactly the calls in progress: both ends of a recorded offer are signed *)
(* in, they differ, and no peer is an end of two pairs.  No pair is left   *)
(* behind for a later peer that gets one of its ids.                       *)
PairsAreCalls ==
  \A i \in 1 .. Len(m_vPairID) :
    /\ IsExistId(m_map_peers, m_vPairID[i].from)
    /\ IsExistId(m_map_peers, m_vPairID[i].to)
    /\ m_vPairID[i].from # m_vPairID[i].to
    /\ \A j \in 1 .. Len(m_vPairID) \ {i} :
         ~HasEnd(m_vPairID[j], m_vPairID[i].from) /\ ~HasEnd(m_vPairID[j], m_vPairID[i].to)

-----------------------------------------------------------------------------
(* The offers whose ends are both here are the calls.                      *)
InProgress == {pair \in Offers :
  IsExistId(m_map_peers, pair.from) /\ IsExistId(m_map_peers, pair.to)}

CallEnds(pair) ==
  {GetConnectionFromID(m_map_peers, pair.from), GetConnectionFromID(m_map_peers, pair.to)}

Present == [h \in DOMAIN m_map_peers |-> MyId(h)]

Calls == {CallEnds(pair) : pair \in InProgress}

Told == {<<sent[i].hdl, sent[i].id>> : i \in {j \in 1 .. Len(sent) : sent[j].signal = "sign_out"}}

Directory == INSTANCE CallDirectory WITH present <- Present, calls <- Calls, told <- Told

(* For well-behaved clients the registry, the vector of pairs and the      *)
(* sign_out messages implement CallDirectory: whoever leaves, by sign_out  *)
(* or by a lost connection, its partner and nobody else is told, also when *)
(* the two have offered several times and pairs of theirs, or of others    *)
(* that are gone, are left in the vector RemovePairID() searches.          *)
ImplementsCallDirectory == Directory!Spec
=============================================================================
