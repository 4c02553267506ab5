---------------------------- MODULE SignalServer ----------------------------
(***************************************************************************)
(* The signalling logic of the server: class SignalServer                  *)
(* (signal_server.h, signal_server.cpp).                                   *)
(*                                                                         *)
(* Every handler runs on the single process_messages thread, under         *)
(* m_connection_lock, so one handler is one atomic step.  m_mutex_peers is *)
(* taken by that thread only and is therefore not state of this module.    *)
(*                                                                         *)
(* A connection is an opaque handle.  After OnClose(hdl) the same element  *)
(* of Conn stands for a later connection: nothing in the server's state    *)
(* still refers to the closed one (pairs hold peer ids, not handles).      *)
(***************************************************************************)
EXTENDS Integers, Sequences, FiniteSets, SequencesExt

CONSTANTS
  Conn,        \* connection handles (websocketpp::connection_hdl)
  Name,        \* peer names, among them the empty string an absent name reads as
  NotAString,  \* a JSON array or object where a name is expected
  IntMax,      \* INT_MAX: peer ids are 0 .. IntMax-1
  ClientInt,   \* the integers that clients write into id, to and from
  MaxPairs     \* bound on Len(m_vPairID), a std::vector without one

ASSUME ConstantsAssumption ==
  /\ IntMax \in Nat \ {0}
  /\ ClientInt \subseteq Int
  /\ MaxPairs \in Nat
  /\ NotAString \notin Name

VARIABLES
  m_map_peers, \* connection_hdl -> Peer, for the connections signed in
  m_last_id,   \* the id issued last, -1 before the first
  m_vPairID,   \* the recorded offers <<from, to>>, oldest first
  sent,        \* the messages the last handler addressed, in order
  alive        \* FALSE once an exception has left process_messages

vars == <<m_map_peers, m_last_id, m_vPairID, sent, alive>>

Id   == 0 .. IntMax - 1
Peer == [id : Id, name : Name]
Pair == [from : Int, to : Int]

-----------------------------------------------------------------------------
(* JSON fields.  asInt() turns an absent member (operator[] inserts a null *)
(* for it) into 0 and throws on a string; JsonText stands for every value  *)
(* it throws on.                                                           *)

JsonInt(n) == [type |-> "intValue", int |-> n]
JsonNull   == [type |-> "nullValue", int |-> 0]
JsonText   == [type |-> "stringValue", int |-> 0]

IntField == {JsonInt(n) : n \in ClientInt} \cup {JsonNull, JsonText}

IsConvertibleToInt(v) == v.type \in {"intValue", "nullValue"}

asInt(v) == IF v.type = "nullValue" THEN 0 ELSE v.int

(* The texts a client may send, up to what the handlers tell apart.        *)
(* "ignored": not JSON, no "signal" member, or an unknown signal.          *)
(* "malformed": the root is no object, "signal" is an array or object, or  *)
(* the text is nested deeper than parse() goes (see JsonText).             *)

SignInRequest  == [signal : {"sign_in"}, name : Name \cup {NotAString}, nolist : BOOLEAN]
SignOutRequest == [signal : {"sign_out"}, id : IntField]
MessageRequest == [signal : {"message"}, to : IntField, from : IntField,
                   type : {"offer", "other", "malformed"}]
ExistRequest   == [signal : {"exist"}, name : Name \cup {NotAString}]
OtherRequest   == [signal : {"ignored", "malformed"}]

Request ==
  SignInRequest \cup SignOutRequest \cup MessageRequest \cup ExistRequest \cup OtherRequest

(* Whether handling the text throws a Json::Exception on the way.  The     *)
(* handler converts the fields it uses, and "from" only for an offer.      *)
Throws(value) ==
  CASE value.signal \in {"sign_in", "exist"} -> value.name = NotAString
    [] value.signal = "sign_out" -> ~IsConvertibleToInt(value.id)
    [] value.signal = "message" ->
         \/ ~IsConvertibleToInt(value.to)
         \/ value.type = "malformed"
         \/ value.type = "offer" /\ ~IsConvertibleToInt(value.from)
    [] OTHER -> value.signal = "malformed"

-----------------------------------------------------------------------------
(* The registry m_map_peers.                                               *)

Registered(peers, hdl, p) == (* m_map_peers[hdl] = p *)
  [h \in DOMAIN peers \cup {hdl} |-> IF h = hdl THEN p ELSE peers[h]]

Erased(peers, hdl) == (* m_map_peers.erase(hdl) *)
  [h \in DOMAIN peers \ {hdl} |-> peers[h]]

IsExistId(peers, id) == \E h \in DOMAIN peers : peers[h].id = id

IsExistName(peers, name) == \E h \in DOMAIN peers : peers[h].name = name

(* The handle of the first peer with this id, if there is one.             *)
GetConnectionFromID(peers, id) ==
  CHOOSE h \in DOMAIN peers : peers[h].id = id

(* Mutant: wraps one too late and issues INT_MAX.                          *)
WrapId_Late(n) == IF n > IntMax THEN n - IntMax ELSE n

WrapId(n) == IF n >= IntMax THEN n - IntMax ELSE n

(* Mutant: the next id without the search for a free one.                  *)
NextID_NoSearch(id) == id = WrapId(m_last_id + 1)

(* Mutant: the lowest free id.                                             *)
NextID_Lowest(id) ==
  /\ ~IsExistId(m_map_peers, id)
  /\ \A j \in 0 .. id - 1 : IsExistId(m_map_peers, j)

(* Mutant: the search does not go around.                                  *)
NextID_NoWrap(id) ==
  /\ id \in m_last_id + 1 .. IntMax - 1
  /\ ~IsExistId(m_map_peers, id)
  /\ \A j \in m_last_id + 1 .. id - 1 : IsExistId(m_map_peers, j)

(* NextID() returns id: the first value after m_last_id, going around at   *)
(* INT_MAX, that no peer holds.  No id satisfies it when all are held: the *)
(* loop of the code then never ends.                                       *)
NextID(id) ==
  \E k \in 0 .. IntMax - 1 :
    /\ id = WrapId(m_last_id + 1 + k)
    /\ ~IsExistId(m_map_peers, id)
    /\ \A j \in 0 .. k - 1 : IsExistId(m_map_peers, WrapId(m_last_id + 1 + j))

-----------------------------------------------------------------------------
(* The recorded offers m_vPairID.                                          *)

HasEnd(pair, id) == pair.from = id \/ pair.to = id

(* Mutant: the end that left.                                              *)
OtherEnd_Same(pair, id) == IF pair.from = id THEN pair.from ELSE pair.to

OtherEnd(pair, id) == IF pair.from = id THEN pair.to ELSE pair.from

PairIndex(id) == SelectInSeq(m_vPairID, LAMBDA pair : HasEnd(pair, id))

(* Mutant: finds the pair and forgets to erase it.                         *)
RemovePairID_Kept(id) == UNCHANGED m_vPairID

(* RemovePairID(id) erases the first pair with this end ...                *)
RemovePairID(id) ==
  m_vPairID' = IF PairIndex(id) = 0 THEN m_vPairID
               ELSE RemoveAt(m_vPairID, PairIndex(id))

(* ... and returns its other end, or -1.                                   *)
RemovedPartner(id) ==
  IF PairIndex(id) = 0 THEN -1 ELSE OtherEnd(m_vPairID[PairIndex(id)], id)

-----------------------------------------------------------------------------
(* What the server sends.  A handle of m_map_peers may be expired, its     *)
(* connection destroyed while the UNSUBSCRIBE is still queued; the code    *)
(* then leaves out a Send() that would fail.  Neither reaches anyone, and  *)
(* sent holds the message in both cases: it says to whom the handler       *)
(* addresses what, not what arrives.                                       *)

SignInReply(hdl, id, repeat, peers) ==
  [hdl |-> hdl, signal |-> "return", request |-> "sign_in",
   id |-> id, repeat |-> repeat, peers |-> peers]

SignOutReply(hdl) == [hdl |-> hdl, signal |-> "return", request |-> "sign_out"]

ExistReply(hdl, exist, id) ==
  [hdl |-> hdl, signal |-> "return", request |-> "exist", exist |-> exist, id |-> id]

Relayed(hdl, to) == [hdl |-> hdl, signal |-> "message", to |-> to]

SignOutNotice(hdl, id) == [hdl |-> hdl, signal |-> "sign_out", id |-> id]

Outgoing ==
       [hdl : Conn, signal : {"return"}, request : {"sign_in"}, id : Id,
        repeat : BOOLEAN, peers : SUBSET Peer]
  \cup [hdl : Conn, signal : {"return"}, request : {"sign_out"}]
  \cup [hdl : Conn, signal : {"return"}, request : {"exist"},
        exist : BOOLEAN, id : Id \cup {-1}]
  \cup [hdl : Conn, signal : {"message"}, to : Int]
  \cup [hdl : Conn, signal : {"sign_out"}, id : Int]

(* The tail of ProcessSignOut and OnClose: tell the partner pid, if it is  *)
(* signed in, that id has left.                                            *)
NoticeTo(peers, pid, id) ==
  IF pid # -1 /\ IsExistId(peers, pid)
  THEN <<SignOutNotice(GetConnectionFromID(peers, pid), id)>>
  ELSE <<>>

(* The start of ProcessMessage: pass the message on if its addressee is    *)
(* signed in, drop it silently otherwise.                                  *)
Relay(id) ==
  IF IsExistId(m_map_peers, id)
  THEN <<Relayed(GetConnectionFromID(m_map_peers, id), id)>>
  ELSE <<>>

-----------------------------------------------------------------------------
(* The handlers.                                                           *)

ProcessSignIn(hdl, value) ==
  /\ value.signal = "sign_in"
  /\ \E id \in 0 .. IntMax :
       /\ NextID(id)
       /\ m_last_id' = id
       /\ m_map_peers' = Registered(m_map_peers, hdl, [id |-> id, name |-> value.name])
       /\ sent' = <<SignInReply(hdl, id,
                      IsExistName(m_map_peers, value.name),
                      IF value.nolist THEN {} ELSE Range(m_map_peers))>>
  /\ UNCHANGED <<m_vPairID, alive>>

(* The id is the one the client writes, not the one it is registered with. *)
ProcessSignOut(hdl, value) ==
  /\ value.signal = "sign_out"
  /\ m_map_peers' = Erased(m_map_peers, hdl)
  /\ LET id == asInt(value.id) IN
     /\ RemovePairID(id)
     /\ sent' = <<SignOutReply(hdl)>>
                 \o NoticeTo(m_map_peers', RemovedPartner(id), id)
  /\ UNCHANGED <<m_last_id, alive>>

ProcessMessage(hdl, value) ==
  /\ value.signal = "message"
  /\ sent' = Relay(asInt(value.to))
  /\ IF value.type = "offer"
     THEN /\ Len(m_vPairID) < MaxPairs
          /\ m_vPairID' = Append(m_vPairID,
                                 [from |-> asInt(value.from), to |-> asInt(value.to)])
     ELSE UNCHANGED m_vPairID
  /\ UNCHANGED <<m_map_peers, m_last_id, alive>>

(* IsExist(name) returns the id of the first match in the map's order,     *)
(* which is that of the handles' addresses: any match.                     *)
ProcessExist(hdl, value) ==
  /\ value.signal = "exist"
  /\ IF IsExistName(m_map_peers, value.name)
     THEN \E h \in DOMAIN m_map_peers :
            /\ m_map_peers[h].name = value.name
            /\ sent' = <<ExistReply(hdl, TRUE, m_map_peers[h].id)>>
     ELSE sent' = <<ExistReply(hdl, FALSE, -1)>>
  /\ UNCHANGED <<m_map_peers, m_last_id, m_vPairID, alive>>

Ignore(hdl, value) ==
  /\ value.signal = "ignored"
  /\ sent' = <<>>
  /\ UNCHANGED <<m_map_peers, m_last_id, m_vPairID, alive>>

(* Nothing between the conversion and the thread's entry point catches the *)
(* exception: the process ends.  A message is passed on before its "type"  *)
(* and "from" are converted.                                               *)
Terminate(hdl, value) ==
  /\ alive' = FALSE
  /\ sent' = IF value.signal = "message" /\ IsConvertibleToInt(value.to)
             THEN Relay(asInt(value.to)) ELSE <<>>
  /\ UNCHANGED <<m_map_peers, m_last_id, m_vPairID>>

OnReceive(hdl, value) ==
  /\ alive
  /\ IF Throws(value)
     THEN Terminate(hdl, value)
     ELSE \/ ProcessSignIn(hdl, value)
          \/ ProcessSignOut(hdl, value)
          \/ ProcessMessage(hdl, value)
          \/ ProcessExist(hdl, value)
          \/ Ignore(hdl, value)

OnClose(hdl) ==
  /\ alive
  /\ IF hdl \in DOMAIN m_map_peers
     THEN LET id == m_map_peers[hdl].id IN
          /\ m_map_peers' = Erased(m_map_peers, hdl)
          /\ RemovePairID(id)
          /\ sent' = NoticeTo(m_map_peers', RemovedPartner(id), id)
     ELSE sent' = <<>> /\ UNCHANGED <<m_map_peers, m_vPairID>>
  /\ UNCHANGED <<m_last_id, alive>>

-----------------------------------------------------------------------------
Init ==
  /\ m_map_peers = [h \in {} |-> {}]
  /\ m_last_id = -1
  /\ m_vPairID = <<>>
  /\ sent = <<>>
  /\ alive = TRUE

Next ==
  \E hdl \in Conn :
    \/ OnClose(hdl)
    \/ \E value \in Request : OnReceive(hdl, value)

Spec == Init /\ [][Next]_vars

-----------------------------------------------------------------------------
(* Every variable has the type its declaration in signal_server.h gives    *)
(* it; a peer id is never -1, the value that means "none" in OnClose,      *)
(* ProcessSignIn and RemovePairID.                                         *)
TypeOK ==
  /\ DOMAIN m_map_peers \subseteq Conn
  /\ m_map_peers \in [DOMAIN m_map_peers -> Peer]
  /\ m_last_id \in Id \cup {-1}
  /\ m_vPairID \in Seq(Pair)
  /\ sent \in Seq(Outgoing)
  /\ alive \in BOOLEAN

(* No two signed-in connections hold the same peer id, also after the id   *)
(* counter of NextID() has gone around INT_MAX: otherwise                  *)
(* GetConnectionFromID() would route to whichever comes first.             *)
UniqueIds ==
  \A g, h \in DOMAIN m_map_peers :
    m_map_peers[g].id = m_map_peers[h].id => g = h

(* The search of NextID() ends as long as fewer than INT_MAX connections   *)
(* are signed in, wherever the counter stands and whichever ids are held:  *)
(* it goes around and comes to the one that is free.  A search that did    *)
(* not end would keep m_connection_lock.                                   *)
NextIDEnds ==
  Cardinality(DOMAIN m_map_peers) < IntMax => \E id \in Id : NextID(id)
=============================================================================
