------------------------- MODULE SignalServerProofs -------------------------
(***************************************************************************)
(* Type correctness of SignalServer, the uniqueness of peer ids, the end   *)
(* of the search for one and the distance between two uses of one, for     *)
(* every set of connections, names and client integers and for every       *)
(* INT_MAX.                                                                *)
(***************************************************************************)
EXTENDS SignalServerHistory, SequenceTheorems, FiniteSetTheorems,
        WellFoundedInduction, TLAPS

-----------------------------------------------------------------------------
(* A non-empty set of naturals has a least element.  RemovePairID() stops  *)
(* at the first match, which PairIndex expresses as a minimum.             *)
NatLess == OpToRel(<, Nat)

LEMMA LeastNatural ==
  ASSUME NEW S \in SUBSET Nat, S # {}
  PROVE  \E x \in S : \A y \in S : x <= y
<1>1. IsWellFoundedOn(NatLess, Nat)
  BY NatLessThanWellFounded, Zenon DEF NatLess
<1>2. PICK x \in S : \A y \in S : <<y, x>> \notin NatLess
  BY <1>1, WFMin
<1>3. \A y \in S : ~(y < x)
  BY <1>2 DEF NatLess, OpToRel
<1> QED
  BY <1>3

(* The search of RemovePairID(): either nothing matches, or the index is   *)
(* that of a pair with the id at one end, and no earlier pair has it.      *)
LEMMA PairIndexIsFirst ==
  ASSUME m_vPairID \in Seq(Pair), NEW id
  PROVE  \/ /\ PairIndex(id) = 0
            /\ \A i \in 1 .. Len(m_vPairID) : ~HasEnd(m_vPairID[i], id)
         \/ /\ PairIndex(id) \in 1 .. Len(m_vPairID)
            /\ HasEnd(m_vPairID[PairIndex(id)], id)
            /\ \A i \in 1 .. PairIndex(id) - 1 : ~HasEnd(m_vPairID[i], id)
<1> DEFINE I == {i \in 1 .. Len(m_vPairID) : HasEnd(m_vPairID[i], id)}
<1>0. Len(m_vPairID) \in Nat
  BY LenProperties
<1>1. PairIndex(id) = IF I # {} THEN Min(I) ELSE 0
  BY DEF PairIndex, SelectInSeq
<1>2. CASE I = {}
  BY <1>1, <1>2
<1>3. CASE I # {}
  <2>1. I \in SUBSET Nat
    BY <1>0
  <2>2. \E x \in I : \A y \in I : x <= y
    BY <2>1, <1>3, LeastNatural
  <2>3. /\ Min(I) \in I
        /\ \A y \in I : Min(I) <= y
    BY <2>2 DEF Min
  <2>4. PairIndex(id) \in I
    BY <2>3, <1>1, <1>3
  <2>5. \A i \in 1 .. PairIndex(id) - 1 : i \notin I
    BY <2>3, <2>1, <1>1, <1>3
  <2> QED
    BY <2>4, <2>5, <1>0
<1> QED
  BY <1>2, <1>3

(* vector::erase at a valid position leaves a vector of pairs.             *)
LEMMA RemoveAtType ==
  ASSUME NEW S, NEW s \in Seq(S), NEW i \in 1 .. Len(s)
  PROVE  RemoveAt(s, i) \in Seq(S)
<1>1. Len(s) \in Nat
  BY LenProperties
<1>2. SubSeq(s, 1, i - 1) \in Seq(S)
  <2>1. \A k \in 1 .. i - 1 : s[k] \in S
    BY <1>1, ElementOfSeq
  <2> QED
    BY <2>1, <1>1, SubSeqProperties
<1>3. SubSeq(s, i + 1, Len(s)) \in Seq(S)
  <2>1. \A k \in i + 1 .. Len(s) : s[k] \in S
    BY <1>1, ElementOfSeq
  <2> QED
    BY <2>1, <1>1, SubSeqProperties
<1> QED
  BY <1>2, <1>3, ConcatProperties DEF RemoveAt

(* RemovePairID() keeps the vector well-typed, and what it returns is an   *)
(* int.                                                                    *)
LEMMA RemovePairIDType ==
  ASSUME m_vPairID \in Seq(Pair), NEW id \in Int, RemovePairID(id)
  PROVE  m_vPairID' \in Seq(Pair)
<1>1. CASE PairIndex(id) = 0
  BY <1>1 DEF RemovePairID
<1>2. CASE PairIndex(id) # 0
  <2>1. PairIndex(id) \in 1 .. Len(m_vPairID)
    BY <1>2, PairIndexIsFirst
  <2>2. RemoveAt(m_vPairID, PairIndex(id)) \in Seq(Pair)
    BY <2>1, RemoveAtType
  <2> QED
    BY <1>2, <2>2 DEF RemovePairID
<1> QED
  BY <1>1, <1>2

-----------------------------------------------------------------------------
(* What the look-ups and the sends of the handlers return.                 *)

(* GetConnectionFromID() finds a signed-in connection when there is one.   *)
LEMMA GetConnectionFromIDType ==
  ASSUME NEW peers, NEW id, IsExistId(peers, id)
  PROVE  /\ GetConnectionFromID(peers, id) \in DOMAIN peers
         /\ peers[GetConnectionFromID(peers, id)].id = id
BY DEF GetConnectionFromID, IsExistId

(* NextID() returns an id below INT_MAX that nobody holds.                 *)
LEMMA NextIDFresh ==
  ASSUME ConstantsAssumption, m_last_id \in Id \cup {-1}, NEW id, NextID(id)
  PROVE  id \in Id /\ ~IsExistId(m_map_peers, id)
<1>1. PICK k \in 0 .. IntMax - 1 :
        id = WrapId(m_last_id + 1 + k) /\ ~IsExistId(m_map_peers, id)
  BY DEF NextID
<1>2. m_last_id + 1 + k \in 0 .. 2 * IntMax - 1
  BY DEF Id, ConstantsAssumption
<1>3. WrapId(m_last_id + 1 + k) \in Id
  BY <1>2 DEF WrapId, Id, ConstantsAssumption
<1> QED
  BY <1>1, <1>3

LEMMA RelayType ==
  ASSUME DOMAIN m_map_peers \subseteq Conn, NEW id \in Int
  PROVE  Relay(id) \in Seq(Outgoing)
<1>1. CASE IsExistId(m_map_peers, id)
  <2>1. GetConnectionFromID(m_map_peers, id) \in Conn
    BY <1>1, GetConnectionFromIDType
  <2>2. Relayed(GetConnectionFromID(m_map_peers, id), id) \in Outgoing
    BY <2>1 DEF Relayed, Outgoing
  <2> QED
    BY <1>1, <2>2 DEF Relay
<1>2. CASE ~IsExistId(m_map_peers, id)
  BY <1>2 DEF Relay
<1> QED
  BY <1>1, <1>2

LEMMA NoticeToType ==
  ASSUME NEW peers, DOMAIN peers \subseteq Conn, NEW pid, NEW id \in Int
  PROVE  NoticeTo(peers, pid, id) \in Seq(Outgoing)
<1>1. CASE pid # -1 /\ IsExistId(peers, pid)
  <2>1. GetConnectionFromID(peers, pid) \in Conn
    BY <1>1, GetConnectionFromIDType
  <2>2. SignOutNotice(GetConnectionFromID(peers, pid), id) \in Outgoing
    BY <2>1 DEF SignOutNotice, Outgoing
  <2> QED
    BY <1>1, <2>2 DEF NoticeTo
<1>2. CASE ~(pid # -1 /\ IsExistId(peers, pid))
  BY <1>2 DEF NoticeTo
<1> QED
  BY <1>1, <1>2

(* m_map_peers[hdl] = p and m_map_peers.erase(hdl) keep the map a map.     *)
LEMMA RegisteredType ==
  ASSUME NEW peers, peers \in [DOMAIN peers -> Peer], DOMAIN peers \subseteq Conn,
         NEW hdl \in Conn, NEW p \in Peer
  PROVE  /\ DOMAIN Registered(peers, hdl, p) \subseteq Conn
         /\ Registered(peers, hdl, p) \in [DOMAIN Registered(peers, hdl, p) -> Peer]
BY DEF Registered

LEMMA ErasedType ==
  ASSUME NEW peers, peers \in [DOMAIN peers -> Peer], DOMAIN peers \subseteq Conn, NEW hdl
  PROVE  /\ DOMAIN Erased(peers, hdl) \subseteq Conn
         /\ Erased(peers, hdl) \in [DOMAIN Erased(peers, hdl) -> Peer]
BY DEF Erased

(* asInt() yields an int for every field it does not throw on.             *)
LEMMA asIntType ==
  ASSUME ConstantsAssumption, NEW v \in IntField
  PROVE  asInt(v) \in Int
BY DEF ConstantsAssumption, IntField, JsonInt, JsonNull, JsonText, asInt

-----------------------------------------------------------------------------
(* Type correctness.                                                       *)

LEMMA SignInType ==
  ASSUME ConstantsAssumption, TypeOK, NEW hdl \in Conn, NEW value \in Request,
         ~Throws(value), ProcessSignIn(hdl, value)
  PROVE  TypeOK'
<1>1. PICK id \in 0 .. IntMax :
        /\ NextID(id)
        /\ m_last_id' = id
        /\ m_map_peers' = Registered(m_map_peers, hdl, [id |-> id, name |-> value.name])
        /\ sent' = <<SignInReply(hdl, id, IsExistName(m_map_peers, value.name),
                       IF value.nolist THEN {} ELSE Range(m_map_peers))>>
  BY DEF ProcessSignIn
<1>2. id \in Id
  BY <1>1, NextIDFresh DEF TypeOK
<1>3. value.name \in Name
  BY DEF ProcessSignIn, Throws, Request, SignInRequest, SignOutRequest,
         MessageRequest, ExistRequest, OtherRequest
<1>4. [id |-> id, name |-> value.name] \in Peer
  BY <1>2, <1>3 DEF Peer
<1>5. DOMAIN m_map_peers' \subseteq Conn /\ m_map_peers' \in [DOMAIN m_map_peers' -> Peer]
  BY <1>1, <1>4, RegisteredType DEF TypeOK
<1>6. (IF value.nolist THEN {} ELSE Range(m_map_peers)) \in SUBSET Peer
  BY DEF TypeOK, Range
<1>7. IsExistName(m_map_peers, value.name) \in BOOLEAN
  BY DEF IsExistName
<1>8. SignInReply(hdl, id, IsExistName(m_map_peers, value.name),
        IF value.nolist THEN {} ELSE Range(m_map_peers)) \in Outgoing
  BY <1>2, <1>6, <1>7 DEF SignInReply, Outgoing
<1>9. sent' \in Seq(Outgoing)
  BY <1>1, <1>8
<1> QED
  BY <1>1, <1>2, <1>5, <1>9 DEF TypeOK, ProcessSignIn

LEMMA SignOutType ==
  ASSUME ConstantsAssumption, TypeOK, NEW hdl \in Conn, NEW value \in Request,
         ProcessSignOut(hdl, value)
  PROVE  TypeOK'
<1> DEFINE id == asInt(value.id)
<1>1. value.id \in IntField
  BY DEF ProcessSignOut, Request, SignInRequest, SignOutRequest,
         MessageRequest, ExistRequest, OtherRequest
<1>2. id \in Int
  BY <1>1, asIntType
<1>3. DOMAIN m_map_peers' \subseteq Conn /\ m_map_peers' \in [DOMAIN m_map_peers' -> Peer]
  BY ErasedType DEF TypeOK, ProcessSignOut
<1>4. m_vPairID' \in Seq(Pair)
  BY <1>2, RemovePairIDType DEF TypeOK, ProcessSignOut
<1>5. SignOutReply(hdl) \in Outgoing
  BY DEF SignOutReply, Outgoing
<1>6. NoticeTo(m_map_peers', RemovedPartner(id), id) \in Seq(Outgoing)
  BY <1>2, <1>3, NoticeToType
<1>7. <<SignOutReply(hdl)>> \in Seq(Outgoing)
  BY <1>5
<1>8. sent' \in Seq(Outgoing)
  <2>1. sent' = <<SignOutReply(hdl)>> \o NoticeTo(m_map_peers', RemovedPartner(id), id)
    BY DEF ProcessSignOut
  <2> HIDE DEF id
  <2> QED
    BY <2>1, <1>6, <1>7, ConcatProperties
<1> QED
  BY <1>3, <1>4, <1>8 DEF TypeOK, ProcessSignOut

LEMMA MessageType ==
  ASSUME ConstantsAssumption, TypeOK, NEW hdl \in Conn, NEW value \in Request,
         ProcessMessage(hdl, value)
  PROVE  TypeOK'
<1>1. value.to \in IntField /\ value.from \in IntField
  BY DEF ProcessMessage, Request, SignInRequest, SignOutRequest,
         MessageRequest, ExistRequest, OtherRequest
<1>2. asInt(value.to) \in Int /\ asInt(value.from) \in Int
  BY <1>1, asIntType
<1>3. sent' \in Seq(Outgoing)
  BY <1>2, RelayType DEF TypeOK, ProcessMessage
<1>4. m_vPairID' \in Seq(Pair)
  <2>1. [from |-> asInt(value.from), to |-> asInt(value.to)] \in Pair
    BY <1>2 DEF Pair
  <2>2. CASE value.type = "offer"
    <3>1. m_vPairID' = Append(m_vPairID, [from |-> asInt(value.from), to |-> asInt(value.to)])
      BY <2>2 DEF ProcessMessage
    <3>2. m_vPairID \in Seq(Pair)
      BY DEF TypeOK
    <3> QED
      BY <2>1, <3>1, <3>2, AppendProperties
  <2>3. CASE value.type # "offer"
    BY <2>3 DEF TypeOK, ProcessMessage
  <2> QED
    BY <2>2, <2>3
<1> QED
  BY <1>3, <1>4 DEF TypeOK, ProcessMessage

LEMMA ExistType ==
  ASSUME TypeOK, NEW hdl \in Conn, NEW value \in Request, ProcessExist(hdl, value)
  PROVE  TypeOK'
<1>1. sent' \in Seq(Outgoing)
  <2>1. \A exist \in BOOLEAN, id \in Id \cup {-1} : ExistReply(hdl, exist, id) \in Outgoing
    BY DEF ExistReply, Outgoing
  <2>2. \A h \in DOMAIN m_map_peers : m_map_peers[h].id \in Id
    BY DEF TypeOK, Peer
  <2>3. \/ sent' = <<ExistReply(hdl, FALSE, -1)>>
        \/ \E h \in DOMAIN m_map_peers : sent' = <<ExistReply(hdl, TRUE, m_map_peers[h].id)>>
    BY DEF ProcessExist
  <2>4. PICK reply \in Outgoing : sent' = <<reply>>
    BY <2>1, <2>2, <2>3
  <2> QED
    BY <2>4
<1> QED
  BY <1>1 DEF TypeOK, ProcessExist

LEMMA TerminateType ==
  ASSUME ConstantsAssumption, TypeOK, NEW hdl \in Conn, NEW value \in Request,
         Terminate(hdl, value)
  PROVE  TypeOK'
<1>1. value.signal = "message" => value.to \in IntField
  BY DEF Request, SignInRequest, SignOutRequest, MessageRequest, ExistRequest, OtherRequest
<1>2. value.signal = "message" => Relay(asInt(value.to)) \in Seq(Outgoing)
  BY <1>1, asIntType, RelayType DEF TypeOK
<1>3. sent' \in Seq(Outgoing)
  BY <1>2 DEF Terminate
<1> QED
  BY <1>3 DEF TypeOK, Terminate

LEMMA OnCloseType ==
  ASSUME TypeOK, ConstantsAssumption, NEW hdl \in Conn, OnClose(hdl)
  PROVE  TypeOK'
<1>1. CASE hdl \in DOMAIN m_map_peers
  <2> DEFINE id == m_map_peers[hdl].id
  <2>1. id \in Int
    BY <1>1 DEF TypeOK, Peer, Id, ConstantsAssumption
  <2>2. DOMAIN m_map_peers' \subseteq Conn /\ m_map_peers' \in [DOMAIN m_map_peers' -> Peer]
    BY <1>1, ErasedType DEF TypeOK, OnClose
  <2>3. m_vPairID' \in Seq(Pair)
    BY <1>1, <2>1, RemovePairIDType DEF TypeOK, OnClose
  <2>4. sent' \in Seq(Outgoing)
    BY <1>1, <2>1, <2>2, NoticeToType DEF OnClose
  <2> QED
    BY <2>2, <2>3, <2>4 DEF TypeOK, OnClose
<1>2. CASE hdl \notin DOMAIN m_map_peers
  BY <1>2 DEF TypeOK, OnClose
<1> QED
  BY <1>1, <1>2

(* Every reachable state of the signalling logic is well-typed; in         *)
(* particular no peer is ever given INT_MAX or the sentinel -1 as its id.  *)
THEOREM TypeCorrect == Spec => []TypeOK
<1>1. Init => TypeOK
  BY DEF Init, TypeOK
<1>2. TypeOK /\ [Next]_vars => TypeOK'
  <2> SUFFICES ASSUME TypeOK, [Next]_vars PROVE TypeOK'
    OBVIOUS
  <2>1. CASE UNCHANGED vars
    BY <2>1 DEF TypeOK, vars
  <2>2. ASSUME NEW hdl \in Conn, OnClose(hdl) PROVE TypeOK'
    BY <2>2, OnCloseType, ConstantsAssumption
  <2>3. ASSUME NEW hdl \in Conn, NEW value \in Request, OnReceive(hdl, value) PROVE TypeOK'
    <3>1. CASE Throws(value)
      BY <2>3, <3>1, TerminateType, ConstantsAssumption DEF OnReceive
    <3>2. CASE ~Throws(value)
      <4>1. CASE ProcessSignIn(hdl, value)
        BY <3>2, <4>1, SignInType, ConstantsAssumption
      <4>2. CASE ProcessSignOut(hdl, value)
        BY <4>2, SignOutType, ConstantsAssumption
      <4>3. CASE ProcessMessage(hdl, value)
        BY <4>3, MessageType, ConstantsAssumption
      <4>4. CASE ProcessExist(hdl, value)
        BY <4>4, ExistType
      <4>5. CASE Ignore(hdl, value)
        BY <4>5 DEF Ignore, TypeOK
      <4> QED
        BY <2>3, <3>2, <4>1, <4>2, <4>3, <4>4, <4>5 DEF OnReceive
    <3> QED
      BY <3>1, <3>2
  <2> QED
    BY <2>1, <2>2, <2>3 DEF Next
<1> QED
  BY <1>1, <1>2, PTL DEF Spec

-----------------------------------------------------------------------------
(* Uniqueness of ids.  It is inductive once the types are known: sign_in   *)
(* is the only handler that adds an entry, and NextID() searched the whole *)
(* map; erasing entries cannot make two of them equal.                     *)

LEMMA ErasedUnique ==
  ASSUME UniqueIds, NEW hdl, m_map_peers' = Erased(m_map_peers, hdl)
  PROVE  UniqueIds'
BY DEF UniqueIds, Erased

LEMMA SignInUnique ==
  ASSUME ConstantsAssumption, TypeOK, UniqueIds, NEW hdl \in Conn,
         NEW value \in Request, ProcessSignIn(hdl, value)
  PROVE  UniqueIds'
<1>1. PICK id \in 0 .. IntMax :
        /\ NextID(id)
        /\ m_map_peers' = Registered(m_map_peers, hdl, [id |-> id, name |-> value.name])
  BY DEF ProcessSignIn
<1>2. \A h \in DOMAIN m_map_peers : m_map_peers[h].id # id
  BY <1>1, NextIDFresh DEF TypeOK, IsExistId
<1>3. m_map_peers'[hdl].id = id
  BY <1>1 DEF Registered
<1>4. \A h \in DOMAIN m_map_peers' :
        h # hdl => h \in DOMAIN m_map_peers /\ m_map_peers'[h] = m_map_peers[h]
  BY <1>1 DEF Registered
<1> QED
  BY <1>2, <1>3, <1>4 DEF UniqueIds

(* No two signed-in connections ever hold the same id, for every INT_MAX   *)
(* and however often the counter has gone around: GetConnectionFromID()    *)
(* has one answer.                                                         *)
THEOREM IdsUnique == Spec => []UniqueIds
<1>1. Init => UniqueIds
  BY DEF Init, UniqueIds
<1>2. TypeOK /\ UniqueIds /\ [Next]_vars => UniqueIds'
  <2> SUFFICES ASSUME TypeOK, UniqueIds, [Next]_vars PROVE UniqueIds'
    OBVIOUS
  <2>1. CASE UNCHANGED m_map_peers
    BY <2>1 DEF UniqueIds
  <2>2. ASSUME NEW hdl \in Conn, OnClose(hdl) PROVE UniqueIds'
    BY <2>1, <2>2, ErasedUnique DEF OnClose
  <2>3. ASSUME NEW hdl \in Conn, NEW value \in Request, OnReceive(hdl, value)
        PROVE UniqueIds'
    <3>1. CASE ProcessSignIn(hdl, value)
      BY <3>1, SignInUnique, ConstantsAssumption
    <3>2. CASE ProcessSignOut(hdl, value)
      BY <3>2, ErasedUnique DEF ProcessSignOut
    <3>3. CASE \/ ProcessMessage(hdl, value) \/ ProcessExist(hdl, value)
               \/ Ignore(hdl, value) \/ Terminate(hdl, value)
      BY <2>1, <3>3 DEF ProcessMessage, ProcessExist, Ignore, Terminate
    <3> QED
      BY <2>3, <3>1, <3>2, <3>3 DEF OnReceive
  <2> QED
    BY <2>1, <2>2, <2>3 DEF Next, vars
<1> QED
  BY <1>1, <1>2, TypeCorrect, PTL DEF Spec

-----------------------------------------------------------------------------
(* The search of NextID() ends.                                            *)

LEMMA IdFinite ==
  ASSUME ConstantsAssumption
  PROVE  IsFiniteSet(Id) /\ Cardinality(Id) = IntMax
<1>1. 0 \in Int /\ IntMax - 1 \in Int /\ ~(0 > IntMax - 1)
  BY DEF ConstantsAssumption
<1>2. IsFiniteSet(0 .. IntMax - 1) /\ Cardinality(0 .. IntMax - 1) = IntMax - 1 - 0 + 1
  BY <1>1, FS_Interval
<1> QED
  BY <1>2 DEF Id, ConstantsAssumption

LEMMA FreeIdExists ==
  ASSUME ConstantsAssumption, IsFiniteSet(DOMAIN m_map_peers),
         Cardinality(DOMAIN m_map_peers) < IntMax
  PROVE  \E id \in Id : ~IsExistId(m_map_peers, id)
<1> SUFFICES ASSUME \A id \in Id : IsExistId(m_map_peers, id) PROVE FALSE
  OBVIOUS
<1> DEFINE holder == [id \in Id |-> GetConnectionFromID(m_map_peers, id)]
<1>1. \A id \in Id : holder[id] \in DOMAIN m_map_peers /\ m_map_peers[holder[id]].id = id
  BY GetConnectionFromIDType
<1>2. holder \in [Id -> DOMAIN m_map_peers]
  BY <1>1
<1>3. IsFiniteSet(Id) /\ Cardinality(Id) = IntMax
  BY IdFinite
<1> HIDE DEF holder
<1>4. \E x, y \in Id : x # y /\ holder[x] = holder[y]
  BY <1>2, <1>3, FS_PigeonHole
<1> QED
  BY <1>1, <1>4

(* Every id comes up in the search, at most IntMax - 1 steps on.           *)
LEMMA SearchReaches ==
  ASSUME ConstantsAssumption, m_last_id \in Id \cup {-1}, NEW id \in Id
  PROVE  \E k \in 0 .. IntMax - 1 : WrapId(m_last_id + 1 + k) = id
<1> DEFINE d == id - (m_last_id + 1)
<1>1. IntMax \in Nat /\ id \in 0 .. IntMax - 1 /\ m_last_id \in -1 .. IntMax - 1
  BY DEF ConstantsAssumption, Id
<1>2. CASE id >= m_last_id + 1
  <2>1. d \in 0 .. IntMax - 1 /\ WrapId(m_last_id + 1 + d) = id
    BY <1>1, <1>2 DEF WrapId
  <2> QED
    BY <2>1
<1>3. CASE id < m_last_id + 1
  <2>1. d + IntMax \in 0 .. IntMax - 1 /\ WrapId(m_last_id + 1 + (d + IntMax)) = id
    BY <1>1, <1>3 DEF WrapId
  <2> QED
    BY <2>1
<1> QED
  BY <1>1, <1>2, <1>3

LEMMA SearchEnds ==
  ASSUME ConstantsAssumption, TypeOK, IsFiniteSet(DOMAIN m_map_peers)
  PROVE  NextIDEnds
<1> SUFFICES ASSUME Cardinality(DOMAIN m_map_peers) < IntMax PROVE \E id \in Id : NextID(id)
  BY DEF NextIDEnds
<1> DEFINE K == {k \in 0 .. IntMax - 1 : ~IsExistId(m_map_peers, WrapId(m_last_id + 1 + k))}
<1>1. K # {}
  BY FreeIdExists, SearchReaches DEF TypeOK
<1>2. K \in SUBSET Nat
  BY DEF ConstantsAssumption
<1>3. PICK k \in K : \A j \in K : k <= j
  BY <1>1, <1>2, LeastNatural
<1>4. \A j \in 0 .. k - 1 : IsExistId(m_map_peers, WrapId(m_last_id + 1 + j))
  BY <1>3 DEF ConstantsAssumption
<1>5. NextID(WrapId(m_last_id + 1 + k))
  BY <1>4 DEF NextID
<1> QED
  BY <1>5, NextIDFresh DEF TypeOK

(* NextID() returns, for every INT_MAX, whichever ids are held and         *)
(* wherever the counter stands, as long as fewer than INT_MAX connections  *)
(* are signed in.                                                          *)
THEOREM NextIDReturns == Spec => []NextIDEnds
<1> DEFINE Finite == IsFiniteSet(DOMAIN m_map_peers)
<1>1. Init => Finite
  BY FS_EmptySet DEF Init
<1>2. Finite /\ [Next]_vars => Finite'
  <2> SUFFICES ASSUME Finite, [Next]_vars PROVE Finite'
    OBVIOUS
  <2>1. CASE UNCHANGED m_map_peers
    BY <2>1
  <2>2. ASSUME NEW hdl, m_map_peers' = Erased(m_map_peers, hdl) PROVE Finite'
    BY <2>2, FS_RemoveElement DEF Erased
  <2>3. ASSUME NEW hdl, NEW p, m_map_peers' = Registered(m_map_peers, hdl, p) PROVE Finite'
    BY <2>3, FS_AddElement DEF Registered
  <2>4. ASSUME NEW hdl \in Conn, OnClose(hdl) PROVE Finite'
    BY <2>1, <2>2, <2>4 DEF OnClose
  <2>5. ASSUME NEW hdl \in Conn, NEW value \in Request, OnReceive(hdl, value) PROVE Finite'
    <3>1. CASE ProcessSignIn(hdl, value)
      BY <2>3, <3>1 DEF ProcessSignIn
    <3>2. CASE ProcessSignOut(hdl, value)
      BY <2>2, <3>2 DEF ProcessSignOut
    <3>3. CASE \/ ProcessMessage(hdl, value) \/ ProcessExist(hdl, value)
               \/ Ignore(hdl, value) \/ Terminate(hdl, value)
      BY <2>1, <3>3 DEF ProcessMessage, ProcessExist, Ignore, Terminate
    <3> QED
      BY <2>5, <3>1, <3>2, <3>3 DEF OnReceive
  <2> QED
    BY <2>1, <2>4, <2>5 DEF Next, vars
<1>3. TypeOK /\ Finite => NextIDEnds
  BY SearchEnds, ConstantsAssumption
<1> QED
  BY <1>1, <1>2, <1>3, TypeCorrect, PTL DEF Spec

-----------------------------------------------------------------------------
(* The distance between two sign-ins that get the same id.  The ids lie on *)
(* a circle and the counter goes around it; an id is issued again once no  *)
(* free id is left between the counter and it.  The inductive invariant    *)
(* counts: the sign-ins since an id was issued, plus the free ids that the *)
(* counter meets before it comes back, never add up to less than the bound.*)

(* How far NextID() has to count from the id last to j: 1 .. IntMax.       *)
Steps(last, j) == IF j > last THEN j - last ELSE j - last + IntMax

(* The free ids that come up in the search of NextID() before i does.      *)
FreeAhead(i) == {j \in Id : ~IsExistId(m_map_peers, j) /\ Steps(m_last_id, j) < Steps(m_last_id, i)}

AgeType == age \in [Id -> 0 .. IntMax]

FarApart ==
  \A i \in Id :
    age[i] < IntMax => age[i] + Cardinality(FreeAhead(i)) >= IntMax - Cardinality(Conn)

(* The circle of the ids: when the counter moves on to n, what lies beyond *)
(* n keeps its order, and n itself is now farthest.                        *)
LEMMA StepsMove ==
  ASSUME ConstantsAssumption, NEW last \in Id \cup {-1}, NEW n \in Id, NEW i \in Id
  PROVE  /\ Steps(last, i) \in 1 .. IntMax
         /\ i # n => Steps(last, i) # Steps(last, n) /\ Steps(n, i) < Steps(n, n)
         /\ \A j \in Id :
              /\ j # n
              /\ ~(Steps(last, j) < Steps(last, n))
              /\ Steps(last, j) < Steps(last, i)
              => Steps(n, j) < Steps(n, i)
<1>1. IntMax \in Nat \ {0} /\ last \in -1 .. IntMax - 1
  BY DEF ConstantsAssumption, Id
<1> QED
  BY <1>1, SMTT(30) DEF Steps, Id

LEMMA FreeAheadFinite ==
  ASSUME ConstantsAssumption, NEW i
  PROVE  IsFiniteSet(FreeAhead(i)) /\ Cardinality(FreeAhead(i)) \in Nat
<1>1. FreeAhead(i) \in SUBSET Id
  BY DEF FreeAhead
<1> QED
  BY <1>1, IdFinite, FS_Subset, FS_CardinalityType

(* Every connection holds at most one id, so all but Cardinality(Conn) of  *)
(* the ids are free.                                                       *)
LEMMA FreeCount ==
  ASSUME ConstantsAssumption, IsFiniteSet(Conn), NEW peers, DOMAIN peers \subseteq Conn
  PROVE  Cardinality({j \in Id : ~IsExistId(peers, j)}) >= IntMax - Cardinality(Conn)
<1> DEFINE Free == {j \in Id : ~IsExistId(peers, j)}
           Held == {j \in Id : IsExistId(peers, j)}
           holder == [j \in Held |-> GetConnectionFromID(peers, j)]
<1>1. \A j \in Held : holder[j] \in Conn /\ peers[holder[j]].id = j
  BY GetConnectionFromIDType
<1>2. holder \in Injection(Held, Conn)
  <2>1. holder \in [Held -> Conn]
    BY <1>1
  <2>2. \A a, b \in Held : holder[a] = holder[b] => a = b
    BY <1>1
  <2> HIDE DEF holder, Held
  <2> QED
    BY <2>1, <2>2 DEF Injection, IsInjective
<1>3. Cardinality(Held) <= Cardinality(Conn) /\ IsFiniteSet(Held)
  BY <1>2, FS_Injection
<1>4. Free = Id \ Held /\ Id \cap Held = Held
  OBVIOUS
<1>5. Cardinality(Free) = Cardinality(Id) - Cardinality(Id \cap Held)
  <2> HIDE DEF Free, Held
  <2> QED
    BY <1>4, IdFinite, FS_Difference
<1>6. Cardinality(Free) = IntMax - Cardinality(Held)
  BY <1>4, <1>5, IdFinite
<1>7. Cardinality(Held) \in Nat /\ Cardinality(Conn) \in Nat
  BY <1>3, FS_CardinalityType
<1> HIDE DEF Free, Held
<1>8. Cardinality(Free) >= IntMax - Cardinality(Conn)
  BY <1>3, <1>6, <1>7 DEF ConstantsAssumption
<1> QED
  BY <1>8 DEF Free

(* No free id comes up before the one NextID() returns.                    *)
LEMMA NothingFreeBefore ==
  ASSUME ConstantsAssumption, m_last_id \in Id \cup {-1}, NEW n, NextID(n)
  PROVE  FreeAhead(n) = {}
<1>1. PICK k \in 0 .. IntMax - 1 :
        /\ n = WrapId(m_last_id + 1 + k)
        /\ \A j \in 0 .. k - 1 : IsExistId(m_map_peers, WrapId(m_last_id + 1 + j))
  BY DEF NextID
<1>2. Steps(m_last_id, n) = k + 1
  BY <1>1 DEF Steps, WrapId, Id, ConstantsAssumption
<1>3. ASSUME NEW j \in Id, Steps(m_last_id, j) < Steps(m_last_id, n) PROVE IsExistId(m_map_peers, j)
  <2>1. Steps(m_last_id, j) \in Int /\ Steps(m_last_id, j) - 1 \in 0 .. k - 1
    BY <1>2, <1>3 DEF Steps, Id, ConstantsAssumption
  <2>2. WrapId(m_last_id + 1 + (Steps(m_last_id, j) - 1)) = j
    BY <1>3 DEF Steps, WrapId, Id, ConstantsAssumption
  <2> QED
    BY <1>1, <2>1, <2>2
<1> QED
  BY <1>3 DEF FreeAhead

(* An id whose holder leaves only adds to what is free; the counter stays. *)
LEMMA FreedFarApart ==
  ASSUME ConstantsAssumption, AgeType, IsFiniteSet(Conn), FarApart, m_last_id' = m_last_id, age' = age,
         \A j \in Id : IsExistId(m_map_peers', j) => IsExistId(m_map_peers, j)
  PROVE  FarApart'
<1> SUFFICES ASSUME NEW i \in Id, age[i] < IntMax
             PROVE  age[i] + Cardinality(FreeAhead(i)') >= IntMax - Cardinality(Conn)
  BY DEF FarApart
<1>1. FreeAhead(i) \in SUBSET (FreeAhead(i)')
  BY DEF FreeAhead, Steps
<1>2. FreeAhead(i)' \in SUBSET Id
  BY DEF FreeAhead
<1>3. /\ Cardinality(FreeAhead(i)) <= Cardinality(FreeAhead(i)')
      /\ Cardinality(FreeAhead(i)') \in Nat
  BY <1>1, <1>2, IdFinite, FS_Subset, FS_CardinalityType
<1>4. Cardinality(FreeAhead(i)) \in Nat /\ Cardinality(Conn) \in Nat
  BY FreeAheadFinite, FS_CardinalityType
<1> QED
  BY <1>3, <1>4 DEF FarApart, AgeType, ConstantsAssumption

(* A sign-in moves the counter to the id it issues.                        *)
LEMMA SignInFarApart ==
  ASSUME ConstantsAssumption, TypeOK, TypeOK', AgeType, IsFiniteSet(Conn), FarApart,
         NEW hdl \in Conn, NEW name, NextID(m_last_id'),
         m_map_peers' = Registered(m_map_peers, hdl, [id |-> m_last_id', name |-> name]),
         age' = [i \in Id |-> IF i = m_last_id' THEN 0 ELSE Aged(i)]
  PROVE  AgeType' /\ FarApart'
<1> DEFINE n == m_last_id'
           c == Cardinality(Conn)
<1>0. n \in Id /\ ~IsExistId(m_map_peers, n)
  BY NextIDFresh DEF TypeOK
<1>1. c \in Nat
  BY FS_CardinalityType
<1>2. \A j \in Id : ~IsExistId(m_map_peers, j) /\ j # n => ~IsExistId(m_map_peers', j)
  BY DEF IsExistId, Registered
<1>3. IsExistId(m_map_peers', n)
  BY DEF IsExistId, Registered
<1>4. AgeType'
  BY DEF AgeType, Aged, ConstantsAssumption
<1>5. ASSUME NEW i \in Id, age'[i] < IntMax
      PROVE  age'[i] + Cardinality(FreeAhead(i)') >= IntMax - c
  <2>0. FreeAhead(i)' \in SUBSET Id
    BY DEF FreeAhead
  <2>1. IsFiniteSet(FreeAhead(i)') /\ Cardinality(FreeAhead(i)') \in Nat
    BY <2>0, IdFinite, FS_Subset, FS_CardinalityType
  <2>2. IsFiniteSet(FreeAhead(i)) /\ Cardinality(FreeAhead(i)) \in Nat
    BY FreeAheadFinite
  <2>3. CASE i = n
    <3> DEFINE Free == {j \in Id : ~IsExistId(m_map_peers', j)}
    <3>1. \A j \in Id : j # i => Steps(m_last_id', j) < Steps(m_last_id', i)
      BY <1>0, <2>3, StepsMove
    <3>2. Free \in SUBSET (FreeAhead(i)')
      BY <1>3, <2>3, <3>1 DEF FreeAhead
    <3>3. Cardinality(Free) >= IntMax - c
      BY FreeCount DEF TypeOK
    <3>4. Cardinality(Free) <= Cardinality(FreeAhead(i)') /\ Cardinality(Free) \in Nat
      BY <2>1, <3>2, FS_Subset, FS_CardinalityType
    <3>5. age'[i] = 0
      BY <2>3
    <3> HIDE DEF Free, c
    <3> QED
      BY <1>1, <2>1, <3>3, <3>4, <3>5 DEF ConstantsAssumption
  <2>4. ASSUME i # n
        PROVE  /\ age[i] \in Nat /\ age[i] < IntMax /\ age'[i] = age[i] + 1
               /\ age[i] + Cardinality(FreeAhead(i)) >= IntMax - c
    <3>1. age[i] \in 0 .. IntMax /\ age'[i] = Aged(i)
      BY <2>4 DEF AgeType
    <3>2. age[i] < IntMax /\ age'[i] = age[i] + 1
      BY <1>5, <3>1 DEF Aged
    <3> QED
      BY <3>1, <3>2 DEF FarApart
  <2>5. CASE i # n /\ Steps(m_last_id, n) < Steps(m_last_id, i)
    <3>1. \A j \in Id : j # n /\ ~IsExistId(m_map_peers, j) => ~(Steps(m_last_id, j) < Steps(m_last_id, n))
      BY NothingFreeBefore DEF FreeAhead, TypeOK
    <3>2. \A j \in Id : j # n /\ ~(Steps(m_last_id, j) < Steps(m_last_id, n)) /\ Steps(m_last_id, j) < Steps(m_last_id, i)
                          => Steps(m_last_id', j) < Steps(m_last_id', i)
      BY <1>0, StepsMove DEF TypeOK
    <3>3. FreeAhead(i) \ {n} \in SUBSET (FreeAhead(i)')
      BY <1>2, <3>1, <3>2 DEF FreeAhead
    <3>4. /\ IsFiniteSet(FreeAhead(i) \ {n})
          /\ Cardinality(FreeAhead(i) \ {n}) >= Cardinality(FreeAhead(i)) - 1
      <4>1. Cardinality(FreeAhead(i) \ {n})
              \in {Cardinality(FreeAhead(i)), Cardinality(FreeAhead(i)) - 1}
        BY <2>2, FS_RemoveElement
      <4> HIDE DEF n
      <4> QED
        BY <2>2, <4>1, FS_RemoveElement
    <3>5. /\ Cardinality(FreeAhead(i) \ {n}) <= Cardinality(FreeAhead(i)')
          /\ Cardinality(FreeAhead(i) \ {n}) \in Nat
      BY <2>1, <3>3, <3>4, FS_Subset, FS_CardinalityType
    <3> HIDE DEF n, c
    <3> QED
      BY <1>1, <2>1, <2>2, <2>4, <2>5, <3>4, <3>5 DEF ConstantsAssumption
  <2>6. CASE i # n /\ ~(Steps(m_last_id, n) < Steps(m_last_id, i))
    <3>1. Steps(m_last_id, i) \in Int /\ Steps(m_last_id, n) \in Int /\ Steps(m_last_id, i) # Steps(m_last_id, n)
      BY <1>0, <2>6, StepsMove DEF TypeOK
    <3>2. \A j \in Id : Steps(m_last_id, j) \in Int
      <4>1. \A j \in Id : Steps(m_last_id, j) \in 1 .. IntMax
        BY <1>0, StepsMove DEF TypeOK
      <4> QED
        BY <4>1 DEF ConstantsAssumption
    <3>3. FreeAhead(i) \subseteq FreeAhead(n)
      BY <2>6, <3>1, <3>2 DEF FreeAhead
    <3>4. FreeAhead(i) = {}
      BY <3>3, NothingFreeBefore DEF TypeOK
    <3>5. Cardinality(FreeAhead(i)) = 0
      BY <3>4, FS_EmptySet
    <3> HIDE DEF n, c
    <3> QED
      BY <1>1, <2>1, <2>4, <2>6, <3>5 DEF ConstantsAssumption
  <2> QED
    BY <2>3, <2>5, <2>6
<1> QED
  BY <1>4, <1>5 DEF FarApart

(* Only the sign_in handler ends with a reply to a sign_in.                *)
LEMMA OthersDoNotSignIn ==
  ASSUME ConstantsAssumption, TypeOK, NEW hdl \in Conn,
         \/ OnClose(hdl)
         \/ \E value \in Request :
              \/ ProcessSignOut(hdl, value) \/ ProcessMessage(hdl, value)
              \/ ProcessExist(hdl, value) \/ Ignore(hdl, value) \/ Terminate(hdl, value)
  PROVE  /\ ~SignsIn
         /\ m_last_id' = m_last_id
         /\ \A j \in Id : IsExistId(m_map_peers', j) => IsExistId(m_map_peers, j)
<1>1. \A id : ~(Relay(id) # <<>> /\ Relay(id)[1].signal = "return")
  BY DEF Relay, Relayed
<1>2. \A peers, pid, id :
        LET s == NoticeTo(peers, pid, id)
        IN  ~(s # <<>> /\ s[1].signal = "return")
  BY DEF NoticeTo, SignOutNotice
<1>3. \A h \in DOMAIN Erased(m_map_peers, hdl) :
        h \in DOMAIN m_map_peers /\ Erased(m_map_peers, hdl)[h] = m_map_peers[h]
  BY DEF Erased
<1>4. ASSUME NEW value \in Request, ProcessSignOut(hdl, value)
      PROVE  /\ ~SignsIn
             /\ m_last_id' = m_last_id
             /\ \A j \in Id : IsExistId(m_map_peers', j) => IsExistId(m_map_peers, j)
  <2>1. asInt(value.id) \in Int
    BY <1>4, asIntType DEF ProcessSignOut, Request, SignInRequest, SignOutRequest,
         MessageRequest, ExistRequest, OtherRequest
  <2>2. DOMAIN m_map_peers' \subseteq Conn
    BY <1>4, ErasedType DEF TypeOK, ProcessSignOut
  <2>3. NoticeTo(m_map_peers', RemovedPartner(asInt(value.id)), asInt(value.id)) \in Seq(Outgoing)
    BY <2>1, <2>2, NoticeToType
  <2>4. PICK notice \in Seq(Outgoing) : sent' = <<SignOutReply(hdl)>> \o notice
    BY <1>4, <2>3 DEF ProcessSignOut
  <2>5. sent'[1] = SignOutReply(hdl)
    BY <2>4
  <2> QED
    BY <1>3, <1>4, <2>5 DEF SignsIn, SignOutReply, ProcessSignOut, IsExistId
<1>5. CASE \E value \in Request :
             ProcessMessage(hdl, value) \/ Terminate(hdl, value) \/ Ignore(hdl, value)
  BY <1>1, <1>5 DEF ProcessMessage, Terminate, Ignore, SignsIn
<1>6. CASE \E value \in Request : ProcessExist(hdl, value)
  BY <1>6 DEF ProcessExist, SignsIn, ExistReply
<1>7. CASE OnClose(hdl)
  BY <1>2, <1>3, <1>7 DEF OnClose, SignsIn, IsExistId
<1> QED
  BY <1>4, <1>5, <1>6, <1>7

(* NextID() never issues an id again before it has issued at least INT_MAX *)
(* minus the number of connections others, for every INT_MAX and however   *)
(* sign-ins, repeated ones included, sign-outs and closes interleave: an   *)
(* id a client was told long ago does not soon name a stranger.            *)
THEOREM IdsFarApart ==
  ASSUME IsFiniteSet(Conn)
  PROVE  HSpec => ReuseDistance
<1>1. HInit => AgeType /\ FarApart
  BY ConstantsAssumption DEF HInit, AgeType, FarApart, ConstantsAssumption
<1>2. HSpec => []TypeOK
  <2>1. HInit => Init
    BY DEF HInit
  <2>2. [HNext]_hvars => [Next]_vars
    BY DEF HNext, hvars, vars
  <2> QED
    BY <2>1, <2>2, TypeCorrect, PTL DEF HSpec, Spec
<1>3. TypeOK /\ TypeOK' /\ AgeType /\ FarApart /\ [HNext]_hvars => AgeType' /\ FarApart'
  <2> SUFFICES ASSUME TypeOK, TypeOK', AgeType, FarApart, [HNext]_hvars
               PROVE  AgeType' /\ FarApart'
    OBVIOUS
  <2>1. CASE UNCHANGED hvars
    BY <2>1 DEF hvars, AgeType, FarApart, FreeAhead
  <2>2. ASSUME HNext, ~SignsIn, m_last_id' = m_last_id,
               \A j \in Id : IsExistId(m_map_peers', j) => IsExistId(m_map_peers, j)
        PROVE  AgeType' /\ FarApart'
    <3>1. age' = age
      BY <2>2 DEF HNext
    <3> QED
      BY <2>2, <3>1, FreedFarApart, ConstantsAssumption DEF AgeType
  <2>3. ASSUME NEW hdl \in Conn, NEW value \in Request, HNext, ProcessSignIn(hdl, value)
        PROVE  AgeType' /\ FarApart'
    <3>1. /\ NextID(m_last_id')
          /\ m_map_peers' = Registered(m_map_peers, hdl, [id |-> m_last_id', name |-> value.name])
          /\ SignsIn
      BY <2>3 DEF ProcessSignIn, SignsIn, SignInReply
    <3>2. age' = [i \in Id |-> IF i = m_last_id' THEN 0 ELSE Aged(i)]
      BY <2>3, <3>1 DEF HNext
    <3> QED
      BY <3>1, <3>2, SignInFarApart, ConstantsAssumption
  <2>4. CASE HNext
    <3>1. PICK hdl \in Conn : OnClose(hdl) \/ \E value \in Request : OnReceive(hdl, value)
      BY <2>4 DEF HNext, Next
    <3>2. CASE OnClose(hdl)
      BY <2>2, <2>4, <3>2, OthersDoNotSignIn, ConstantsAssumption
    <3>3. ASSUME NEW value \in Request, OnReceive(hdl, value) PROVE AgeType' /\ FarApart'
      <4>1. CASE ProcessSignIn(hdl, value)
        BY <2>3, <2>4, <4>1
      <4>2. CASE \/ ProcessSignOut(hdl, value) \/ ProcessMessage(hdl, value)
                 \/ ProcessExist(hdl, value) \/ Ignore(hdl, value) \/ Terminate(hdl, value)
        BY <2>2, <2>4, <4>2, OthersDoNotSignIn, ConstantsAssumption
      <4> QED
        BY <3>3, <4>1, <4>2 DEF OnReceive
    <3> QED
      BY <3>1, <3>2, <3>3
  <2> QED
    BY <2>1, <2>4
<1>4. TypeOK /\ AgeType /\ FarApart /\ [HNext]_hvars
        => [SignsIn => age[m_last_id'] >= IntMax - Cardinality(Conn)]_hvars
  <2> SUFFICES ASSUME TypeOK, AgeType, FarApart, HNext, SignsIn
               PROVE  age[m_last_id'] >= IntMax - Cardinality(Conn)
    OBVIOUS
  <2>1. PICK hdl \in Conn : OnClose(hdl) \/ \E value \in Request : OnReceive(hdl, value)
    BY DEF HNext, Next
  <2>2. \E value \in Request : ProcessSignIn(hdl, value)
    <3>1. ~OnClose(hdl)
      BY OthersDoNotSignIn, ConstantsAssumption
    <3>2. PICK value \in Request : OnReceive(hdl, value)
      BY <2>1, <3>1
    <3>3. ProcessSignIn(hdl, value)
      BY <3>2, OthersDoNotSignIn, ConstantsAssumption DEF OnReceive
    <3> QED
      BY <3>3
  <2>3. NextID(m_last_id')
    BY <2>2 DEF ProcessSignIn
  <2>4. m_last_id' \in Id /\ FreeAhead(m_last_id') = {}
    BY <2>3, NextIDFresh, NothingFreeBefore, ConstantsAssumption DEF TypeOK
  <2>5. Cardinality(FreeAhead(m_last_id')) = 0
    BY <2>4, FS_EmptySet
  <2>6. age[m_last_id'] \in 0 .. IntMax /\ Cardinality(Conn) \in Nat
    BY <2>4, FS_CardinalityType DEF AgeType
  <2>7. age[m_last_id'] < IntMax => age[m_last_id'] >= IntMax - Cardinality(Conn)
    <3>1. age[m_last_id'] < IntMax => age[m_last_id'] + 0 >= IntMax - Cardinality(Conn)
      BY <2>4, <2>5 DEF FarApart
    <3> QED
      BY <2>6, <3>1
  <2> QED
    BY <2>6, <2>7, ConstantsAssumption DEF ConstantsAssumption
<1> QED
  BY <1>1, <1>2, <1>3, <1>4, PTL DEF HSpec, ReuseDistance
=============================================================================
