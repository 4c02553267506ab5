---------------------- MODULE WellBehavedClientsProofs ----------------------
(***************************************************************************)
(* Proofs that the server implements CallDirectory for well-behaved        *)
(* clients, and that without renegotiation no pair is left behind.         *)
(***************************************************************************)
EXTENDS WellBehavedClients, SignalServerProofs

-----------------------------------------------------------------------------
(* The vector of pairs.                                                    *)

LEMMA RemoveAtElements ==
  ASSUME NEW S, NEW s \in Seq(S), NEW i \in 1 .. Len(s)
  PROVE  /\ Len(RemoveAt(s, i)) = Len(s) - 1
         /\ \A k \in 1 .. Len(s) - 1 :
              RemoveAt(s, i)[k] = IF k < i THEN s[k] ELSE s[k + 1]
<1> DEFINE a == SubSeq(s, 1, i - 1)
           b == SubSeq(s, i + 1, Len(s))
<1>1. Len(s) \in Nat /\ i \in Nat /\ \A k \in 1 .. Len(s) : s[k] \in S
  BY LenProperties, ElementOfSeq
<1>2. a \in Seq(S) /\ Len(a) = i - 1 /\ \A k \in 1 .. i - 1 : a[k] = s[k]
  BY <1>1, SubSeqProperties
<1>3. b \in Seq(S) /\ Len(b) = Len(s) - i /\ \A k \in 1 .. Len(s) - i : b[k] = s[k + i]
  BY <1>1, SubSeqProperties
<1>4. RemoveAt(s, i) = a \o b
  BY DEF RemoveAt
<1> HIDE DEF a, b
<1>5. Len(a \o b) = Len(a) + Len(b) /\
      \A k \in 1 .. Len(a) + Len(b) : (a \o b)[k] = IF k <= Len(a) THEN a[k] ELSE b[k - Len(a)]
  BY <1>2, <1>3, ConcatProperties
<1> QED
  BY <1>1, <1>2, <1>3, <1>4, <1>5

LEMMA OffersByIndex ==
  ASSUME m_vPairID \in Seq(Pair)
  PROVE  /\ Offers = {m_vPairID[i] : i \in 1 .. Len(m_vPairID)}
         /\ Offers \subseteq Pair
BY LenProperties, ElementOfSeq DEF Offers, Range

(* RemovePairID() adds no pair, and every pair without the id stays.       *)
LEMMA RemovedOffers ==
  ASSUME m_vPairID \in Seq(Pair), NEW id \in Int, RemovePairID(id)
  PROVE  Offers' \subseteq Offers /\ \A pair \in Offers : ~HasEnd(pair, id) => pair \in Offers'
<1>1. CASE PairIndex(id) = 0
  BY <1>1 DEF RemovePairID, Offers
<1>2. CASE PairIndex(id) # 0
  <2> DEFINE k == PairIndex(id)
  <2>1. k \in 1 .. Len(m_vPairID) /\ HasEnd(m_vPairID[k], id)
    BY <1>2, PairIndexIsFirst
  <2>2. m_vPairID' = RemoveAt(m_vPairID, k) /\ m_vPairID' \in Seq(Pair)
    BY <1>2, RemovePairIDType DEF RemovePairID
  <2>3. Len(m_vPairID) \in Nat /\ k \in Nat
    BY <2>1, LenProperties
  <2> HIDE DEF k
  <2>4. /\ Len(m_vPairID') = Len(m_vPairID) - 1
        /\ \A i \in 1 .. Len(m_vPairID) - 1 :
             m_vPairID'[i] = IF i < k THEN m_vPairID[i] ELSE m_vPairID[i + 1]
    BY <2>1, <2>2, RemoveAtElements
  <2>5. Offers = {m_vPairID[i] : i \in 1 .. Len(m_vPairID)}
    BY OffersByIndex
  <2>6. Offers' = {m_vPairID'[i] : i \in 1 .. Len(m_vPairID')}
    BY <2>2, LenProperties DEF Offers, Range
  <2>7. Offers' \subseteq Offers
    BY <2>3, <2>4, <2>5, <2>6
  <2>8. ASSUME NEW pair \in Offers, ~HasEnd(pair, id) PROVE pair \in Offers'
    <3>1. PICK i \in 1 .. Len(m_vPairID) : pair = m_vPairID[i]
      BY <2>5
    <3>2. i # k
      BY <2>1, <2>8, <3>1
    <3>3. CASE i < k
      <4>1. i \in 1 .. Len(m_vPairID) - 1
        BY <2>1, <2>3, <3>3
      <4> QED
        BY <2>4, <2>6, <3>1, <3>3, <4>1
    <3>4. CASE i > k
      <4>1. i - 1 \in 1 .. Len(m_vPairID) - 1 /\ ~(i - 1 < k) /\ (i - 1) + 1 = i
        BY <2>1, <2>3, <3>4
      <4> QED
        BY <2>4, <2>6, <3>1, <4>1
    <3> QED
      BY <2>1, <2>3, <3>2, <3>3, <3>4
  <2> QED
    BY <2>7, <2>8
<1> QED
  BY <1>1, <1>2

-----------------------------------------------------------------------------
(* The registry.                                                           *)

(* Ids being unique, GetConnectionFromID() inverts the registry.           *)
LEMMA ConnectionOf ==
  ASSUME NEW peers, \A g, h \in DOMAIN peers : peers[g].id = peers[h].id => g = h,
         NEW h \in DOMAIN peers
  PROVE  GetConnectionFromID(peers, peers[h].id) = h
<1>1. IsExistId(peers, peers[h].id)
  BY DEF IsExistId
<1> QED
  BY <1>1, GetConnectionFromIDType

(* Whoever stays keeps its connection when hdl is erased.                  *)
LEMMA ErasedLookup ==
  ASSUME UniqueIds, NEW hdl \in DOMAIN m_map_peers, m_map_peers' = Erased(m_map_peers, hdl)
  PROVE  \A id : /\ IsExistId(m_map_peers', id)
                      <=> IsExistId(m_map_peers, id) /\ id # MyId(hdl)
                 /\ IsExistId(m_map_peers', id)
                      => GetConnectionFromID(m_map_peers', id) = GetConnectionFromID(m_map_peers, id)
<1>1. /\ DOMAIN m_map_peers' = DOMAIN m_map_peers \ {hdl}
      /\ \A h \in DOMAIN m_map_peers' : m_map_peers'[h] = m_map_peers[h]
  BY DEF Erased
<1>2. \A id : IsExistId(m_map_peers', id) <=> IsExistId(m_map_peers, id) /\ id # MyId(hdl)
  BY <1>1 DEF IsExistId, MyId, UniqueIds
<1>3. ASSUME NEW id, IsExistId(m_map_peers', id)
      PROVE  GetConnectionFromID(m_map_peers', id) = GetConnectionFromID(m_map_peers, id)
  <2>1. PICK h \in DOMAIN m_map_peers' : m_map_peers'[h].id = id
    BY <1>3 DEF IsExistId
  <2>2. GetConnectionFromID(m_map_peers', id) = h
    <3>1. \A f, g \in DOMAIN m_map_peers' : m_map_peers'[f].id = m_map_peers'[g].id => f = g
      BY <1>1 DEF UniqueIds
    <3> QED
      BY <2>1, <3>1, ConnectionOf
  <2>3. GetConnectionFromID(m_map_peers, id) = h
    BY <1>1, <2>1, ConnectionOf DEF UniqueIds
  <2> QED
    BY <2>2, <2>3
<1> QED
  BY <1>2, <1>3

(* Whoever is here keeps its connection when hdl signs in.                 *)
LEMMA RegisteredLookup ==
  ASSUME UniqueIds, UniqueIds', NEW hdl, hdl \notin DOMAIN m_map_peers, NEW p,
         m_map_peers' = Registered(m_map_peers, hdl, p)
  PROVE  \A id : /\ IsExistId(m_map_peers', id)
                      <=> IsExistId(m_map_peers, id) \/ id = p.id
                 /\ IsExistId(m_map_peers, id)
                      => GetConnectionFromID(m_map_peers', id) = GetConnectionFromID(m_map_peers, id)
<1>1. /\ DOMAIN m_map_peers' = DOMAIN m_map_peers \cup {hdl}
      /\ \A h \in DOMAIN m_map_peers : m_map_peers'[h] = m_map_peers[h]
      /\ m_map_peers'[hdl] = p
  BY DEF Registered
<1>2. \A id : IsExistId(m_map_peers', id) <=> IsExistId(m_map_peers, id) \/ id = p.id
  BY <1>1 DEF IsExistId
<1>3. ASSUME NEW id, IsExistId(m_map_peers, id)
      PROVE  GetConnectionFromID(m_map_peers', id) = GetConnectionFromID(m_map_peers, id)
  <2>1. PICK h \in DOMAIN m_map_peers : m_map_peers[h].id = id
    BY <1>3 DEF IsExistId
  <2>2. GetConnectionFromID(m_map_peers', id) = h
    <3>1. \A f, g \in DOMAIN m_map_peers' : m_map_peers'[f].id = m_map_peers'[g].id => f = g
      BY DEF UniqueIds
    <3> QED
      BY <1>1, <2>1, <3>1, ConnectionOf
  <2>3. GetConnectionFromID(m_map_peers, id) = h
    BY <2>1, ConnectionOf DEF UniqueIds
  <2> QED
    BY <2>2, <2>3
<1> QED
  BY <1>2, <1>3

(* The ends of a call are its two connections.                             *)
LEMMA CallOf ==
  ASSUME UniqueIds, NEW pair \in InProgress, NEW hdl \in DOMAIN m_map_peers
  PROVE  hdl \in CallEnds(pair) <=> HasEnd(pair, MyId(hdl))
<1>1. IsExistId(m_map_peers, pair.from) /\ IsExistId(m_map_peers, pair.to)
  BY DEF InProgress
<1>2. /\ m_map_peers[GetConnectionFromID(m_map_peers, pair.from)].id = pair.from
      /\ m_map_peers[GetConnectionFromID(m_map_peers, pair.to)].id = pair.to
  BY <1>1, GetConnectionFromIDType
<1>3. GetConnectionFromID(m_map_peers, MyId(hdl)) = hdl
  BY ConnectionOf DEF UniqueIds, MyId
<1> QED
  BY <1>2, <1>3 DEF CallEnds, HasEnd, MyId

-----------------------------------------------------------------------------
(* The invariant of well-behaved clients: over all recorded offers, those  *)
(* left behind included, an id has at most one partner.  RemovePairID()    *)
(* stops at the first match; it may stop at any.                           *)
OnePartner ==
  /\ \A pair \in Offers : pair.from # pair.to
  /\ \A p, q \in Offers : \A id \in Int :
       HasEnd(p, id) /\ HasEnd(q, id) => OtherEnd(p, id) = OtherEnd(q, id)

WInv == TypeOK /\ UniqueIds /\ OnePartner

LEMMA FewerOffers ==
  ASSUME OnePartner, Offers' \subseteq Offers
  PROVE  OnePartner'
BY DEF OnePartner, HasEnd, OtherEnd

LEMMA OneMoreOffer ==
  ASSUME TypeOK, OnePartner, NEW hdl \in DOMAIN m_map_peers, NEW to \in Int,
         FreeToCall(hdl, to),
         Offers' = Offers \cup {[from |-> MyId(hdl), to |-> to]}
  PROVE  OnePartner'
<1> DEFINE new == [from |-> MyId(hdl), to |-> to]
<1>1. /\ to # MyId(hdl)
      /\ \A pair \in Offers :
           HasEnd(pair, to) \/ HasEnd(pair, MyId(hdl))
             => HasEnd(pair, to) /\ HasEnd(pair, MyId(hdl))
  BY DEF FreeToCall
<1>2. \A pair \in Offers' : pair.from # pair.to
  BY <1>1 DEF OnePartner
<1>3. \A pair \in Offers : \A id \in Int :
        HasEnd(pair, id) /\ HasEnd(new, id) => OtherEnd(pair, id) = OtherEnd(new, id)
  BY <1>1 DEF OnePartner, HasEnd, OtherEnd
<1>4. \A p, q \in Offers' : \A id \in Int :
        HasEnd(p, id) /\ HasEnd(q, id) => OtherEnd(p, id) = OtherEnd(q, id)
  BY <1>3 DEF OnePartner
<1> QED
  BY <1>2, <1>4 DEF OnePartner, HasEnd, OtherEnd

-----------------------------------------------------------------------------
(* Steps of the server as steps of the directory.                          *)

(* What a handler that sends at most one notice tells.                     *)
LEMMA ToldNothing ==
  ASSUME \A i \in 1 .. Len(sent') : sent'[i].signal # "sign_out"
  PROVE  Told' = {}
BY DEF Told

LEMMA NoticeTold ==
  ASSUME NEW peers, NEW pid, NEW id, NEW hdl,
         sent' \in {NoticeTo(peers, pid, id), <<SignOutReply(hdl)>> \o NoticeTo(peers, pid, id)}
  PROVE  Told' = IF pid # -1 /\ IsExistId(peers, pid)
                THEN {<<GetConnectionFromID(peers, pid), id>>} ELSE {}
<1> DEFINE notice == SignOutNotice(GetConnectionFromID(peers, pid), id)
<1>1. /\ notice.hdl = GetConnectionFromID(peers, pid)
      /\ notice.id = id /\ notice.signal = "sign_out"
      /\ SignOutReply(hdl).signal = "return"
  BY DEF SignOutNotice, SignOutReply
<1> HIDE DEF notice
<1>2. CASE pid # -1 /\ IsExistId(peers, pid)
  <2>1. NoticeTo(peers, pid, id) = <<notice>>
    BY <1>2 DEF NoticeTo, notice
  <2>2. sent' = <<notice>> \/ sent' = <<SignOutReply(hdl), notice>>
    BY <2>1
  <2>3. {j \in 1 .. Len(sent') : sent'[j].signal = "sign_out"} = {Len(sent')} /\ sent'[Len(sent')] = notice
    <3>1. CASE sent' = <<notice>>
      <4>1. Len(sent') = 1 /\ sent'[1] = notice
        BY <3>1
      <4> QED
        BY <1>1, <4>1
    <3>2. CASE sent' = <<SignOutReply(hdl), notice>>
      <4>1. Len(sent') = 2 /\ sent'[1] = SignOutReply(hdl) /\ sent'[2] = notice
        BY <3>2
      <4> QED
        BY <1>1, <4>1
    <3> QED
      BY <2>2, <3>1, <3>2
  <2>4. Told' = {<<notice.hdl, notice.id>>}
    BY <2>3 DEF Told
  <2> QED
    BY <1>1, <1>2, <2>4
<1>3. CASE ~(pid # -1 /\ IsExistId(peers, pid))
  <2>1. NoticeTo(peers, pid, id) = <<>>
    BY <1>3 DEF NoticeTo
  <2>2. sent' = <<>> \/ sent' = <<SignOutReply(hdl)>>
    BY <2>1
  <2>3. \A i \in 1 .. Len(sent') : sent'[i].signal # "sign_out"
    BY <1>1, <2>2
  <2> QED
    BY <1>3, <2>3, ToldNothing
<1> QED
  BY <1>2, <1>3

(* The calls that are left when hdl is gone are those without it.          *)
LEMMA CallsLeft ==
  ASSUME WInv, NEW hdl \in DOMAIN m_map_peers,
         m_map_peers' = Erased(m_map_peers, hdl), RemovePairID(MyId(hdl))
  PROVE  Calls' = {call \in Calls : hdl \notin call}
<1>1. MyId(hdl) \in Int
  BY DEF WInv, TypeOK, Peer, Id, MyId
<1>2. Offers' \subseteq Offers /\ \A pair \in Offers : ~HasEnd(pair, MyId(hdl)) => pair \in Offers'
  BY <1>1, RemovedOffers DEF WInv, TypeOK
<1>3. \A id : /\ IsExistId(m_map_peers', id) <=> IsExistId(m_map_peers, id) /\ id # MyId(hdl)
              /\ IsExistId(m_map_peers', id)
                   => GetConnectionFromID(m_map_peers', id) = GetConnectionFromID(m_map_peers, id)
  BY ErasedLookup DEF WInv
<1>4. InProgress' = {pair \in InProgress : ~HasEnd(pair, MyId(hdl))}
  BY <1>2, <1>3 DEF InProgress, HasEnd
<1>5. \A pair \in InProgress' : CallEnds(pair)' = CallEnds(pair)
  BY <1>3 DEF InProgress, CallEnds
<1>6. \A pair \in InProgress : hdl \in CallEnds(pair) <=> HasEnd(pair, MyId(hdl))
  BY CallOf DEF WInv
<1> QED
  BY <1>4, <1>5, <1>6 DEF Calls

(* Whoever calls hdl is the partner RemovePairID() returns.                *)
LEMMA PartnerOf ==
  ASSUME WInv, NEW hdl \in DOMAIN m_map_peers, NEW d \in DOMAIN m_map_peers \ {hdl}
  PROVE  {hdl, d} \in Calls <=> RemovedPartner(MyId(hdl)) = MyId(d)
<1> DEFINE id == MyId(hdl)
           k  == PairIndex(id)
<1>0. id \in Int /\ MyId(d) \in Int /\ MyId(d) # id /\ MyId(d) # -1
  BY DEF WInv, TypeOK, UniqueIds, Peer, Id, MyId
<1>1. \/ k = 0 /\ \A i \in 1 .. Len(m_vPairID) : ~HasEnd(m_vPairID[i], id)
      \/ k \in 1 .. Len(m_vPairID) /\ HasEnd(m_vPairID[k], id)
  BY PairIndexIsFirst DEF WInv, TypeOK
<1>2. Offers = {m_vPairID[i] : i \in 1 .. Len(m_vPairID)}
  BY OffersByIndex DEF WInv, TypeOK
<1>3. RemovedPartner(id) = IF k = 0 THEN -1 ELSE OtherEnd(m_vPairID[k], id)
  BY DEF RemovedPartner
<1>4. \A h \in DOMAIN m_map_peers : IsExistId(m_map_peers, MyId(h))
                                    /\ GetConnectionFromID(m_map_peers, MyId(h)) = h
  BY ConnectionOf DEF WInv, UniqueIds, IsExistId, MyId
<1> HIDE DEF id, k
<1>5. ASSUME {hdl, d} \in Calls PROVE RemovedPartner(id) = MyId(d)
  <2>1. PICK pair \in InProgress : {hdl, d} = CallEnds(pair)
    BY <1>5 DEF Calls
  <2>2. HasEnd(pair, id) /\ HasEnd(pair, MyId(d)) /\ pair \in Offers
    BY <2>1, CallOf DEF WInv, InProgress, id
  <2>3. OtherEnd(pair, id) = MyId(d)
    BY <1>0, <2>2 DEF OtherEnd, HasEnd
  <2>4. k # 0
    BY <1>1, <1>2, <2>2
  <2>5. OtherEnd(m_vPairID[k], id) = OtherEnd(pair, id)
    BY <1>0, <1>1, <1>2, <2>2, <2>4 DEF WInv, OnePartner
  <2> QED
    BY <1>3, <2>3, <2>4, <2>5
<1>6. ASSUME RemovedPartner(id) = MyId(d) PROVE {hdl, d} \in Calls
  <2>1. k # 0 /\ OtherEnd(m_vPairID[k], id) = MyId(d)
    BY <1>0, <1>3, <1>6
  <2>2. m_vPairID[k] \in Offers /\ HasEnd(m_vPairID[k], id)
    BY <1>1, <1>2, <2>1
  <2>3. {m_vPairID[k].from, m_vPairID[k].to} = {id, MyId(d)}
    BY <2>1, <2>2 DEF OtherEnd, HasEnd
  <2>4. m_vPairID[k] \in InProgress
    BY <1>4, <2>2, <2>3 DEF InProgress, id
  <2>5. CallEnds(m_vPairID[k]) = {hdl, d}
    BY <1>4, <2>3 DEF CallEnds, id
  <2> QED
    BY <2>4, <2>5 DEF Calls
<1> QED
  BY <1>5, <1>6 DEF id

LEMMA Leaving ==
  ASSUME WInv, NEW hdl \in DOMAIN m_map_peers, NEW g,
         m_map_peers' = Erased(m_map_peers, hdl), RemovePairID(MyId(hdl)),
         LET notice == NoticeTo(m_map_peers', RemovedPartner(MyId(hdl)), MyId(hdl))
         IN  sent' \in {notice, <<SignOutReply(g)>> \o notice}
  PROVE  Directory!Leave(hdl)
<1> DEFINE id  == MyId(hdl)
           pid == RemovedPartner(id)
<1>1. Told' = IF pid # -1 /\ IsExistId(m_map_peers', pid)
              THEN {<<GetConnectionFromID(m_map_peers', pid), id>>} ELSE {}
  BY NoticeTold
<1>2. \A i : /\ IsExistId(m_map_peers', i) <=> IsExistId(m_map_peers, i) /\ i # id
             /\ IsExistId(m_map_peers', i)
                  => GetConnectionFromID(m_map_peers', i) = GetConnectionFromID(m_map_peers, i)
  BY ErasedLookup DEF WInv
<1>3. \A d \in DOMAIN m_map_peers \ {hdl} : {hdl, d} \in Calls <=> pid = MyId(d)
  BY PartnerOf
<1>4. DOMAIN Present = DOMAIN m_map_peers /\ \A d \in DOMAIN m_map_peers : Present[d] = MyId(d)
  BY DEF Present
<1>5. Present' = [d \in DOMAIN Present \ {hdl} |-> Present[d]]
  BY <1>4 DEF Present, Erased, MyId
<1>6. \A d \in DOMAIN m_map_peers :
        MyId(d) \in Id /\ GetConnectionFromID(m_map_peers, MyId(d)) = d
  BY ConnectionOf DEF WInv, TypeOK, UniqueIds, Peer, MyId
<1>7. Told' = {<<d, id>> : d \in {e \in DOMAIN Present \ {hdl} : {hdl, e} \in Calls}}
  <2>1. CASE \E d \in DOMAIN m_map_peers \ {hdl} : pid = MyId(d)
    <3>1. PICK d \in DOMAIN m_map_peers \ {hdl} : pid = MyId(d)
      BY <2>1
    <3>2. IsExistId(m_map_peers, pid) /\ pid # id /\ pid # -1
      BY <3>1 DEF IsExistId, MyId, WInv, TypeOK, UniqueIds, Peer, Id
    <3>3. Told' = {<<d, id>>}
      BY <1>1, <1>2, <1>6, <3>1, <3>2
    <3>4. {e \in DOMAIN Present \ {hdl} : {hdl, e} \in Calls} = {d}
      BY <1>3, <1>4, <3>1 DEF WInv, UniqueIds, MyId
    <3> QED
      BY <3>3, <3>4
  <2>2. CASE ~ \E d \in DOMAIN m_map_peers \ {hdl} : pid = MyId(d)
    <3>1. ~IsExistId(m_map_peers', pid)
      BY <1>2, <2>2 DEF IsExistId, MyId
    <3> QED
      BY <1>1, <1>3, <1>4, <2>2, <3>1
  <2> QED
    BY <2>1, <2>2
<1>8. Calls' = {call \in Calls : hdl \notin call}
  BY CallsLeft
<1> QED
  BY <1>4, <1>5, <1>7, <1>8 DEF Directory!Leave

LEMMA Joining ==
  ASSUME WInv, UniqueIds', NEW hdl \in Conn, hdl \notin DOMAIN m_map_peers, NEW value \in Request,
         ProcessSignIn(hdl, value), FreshId
  PROVE  Directory!Join(hdl)
<1>1. PICK id \in 0 .. IntMax :
        /\ NextID(id)
        /\ m_map_peers' = Registered(m_map_peers, hdl, [id |-> id, name |-> value.name])
        /\ sent' = <<SignInReply(hdl, id, IsExistName(m_map_peers, value.name),
                       IF value.nolist THEN {} ELSE Range(m_map_peers))>>
  BY DEF ProcessSignIn
<1>2. id \in Id /\ ~IsExistId(m_map_peers, id)
  BY <1>1, NextIDFresh, ConstantsAssumption DEF WInv, TypeOK
<1>3. /\ DOMAIN m_map_peers' = DOMAIN m_map_peers \cup {hdl}
      /\ \A h \in DOMAIN m_map_peers : m_map_peers'[h] = m_map_peers[h]
      /\ m_map_peers'[hdl].id = id
  BY <1>1 DEF Registered
<1>4. \A pair \in Offers : ~HasEnd(pair, id)
  BY <1>3 DEF FreshId
<1>5. \A i : /\ IsExistId(m_map_peers', i) <=> IsExistId(m_map_peers, i) \/ i = id
             /\ IsExistId(m_map_peers, i)
                  => GetConnectionFromID(m_map_peers', i) = GetConnectionFromID(m_map_peers, i)
  <2> DEFINE p == [id |-> id, name |-> value.name]
  <2>1. p.id = id
    OBVIOUS
  <2> HIDE DEF p
  <2> QED
    BY <1>1, <2>1, RegisteredLookup DEF WInv, p
<1>6. Offers' = Offers
  BY DEF ProcessSignIn, Offers
<1>7. InProgress' = InProgress
  BY <1>4, <1>5, <1>6 DEF InProgress, HasEnd
<1>8. Calls' = Calls
  <2>1. \A pair \in InProgress : CallEnds(pair)' = CallEnds(pair)
    BY <1>5 DEF InProgress, CallEnds
  <2> QED
    BY <1>7, <2>1 DEF Calls
<1>9. Told' = {}
  <2>1. Len(sent') = 1 /\ sent'[1].signal = "return"
    BY <1>1 DEF SignInReply
  <2> QED
    BY <2>1, ToldNothing
<1>10. DOMAIN Present = DOMAIN m_map_peers /\ \A d \in DOMAIN m_map_peers : Present[d] = MyId(d)
  BY DEF Present
<1>11. \A d \in DOMAIN Present : Present[d] # id
  BY <1>2, <1>10 DEF IsExistId, MyId
<1>12. Present' = [d \in DOMAIN Present \cup {hdl} |-> IF d = hdl THEN id ELSE Present[d]]
  BY <1>3, <1>10 DEF Present, MyId
<1> QED
  BY <1>2, <1>8, <1>9, <1>10, <1>11, <1>12 DEF Directory!Join

(* A handler that changes neither the registry nor the pairs.              *)
LEMMA Conversing ==
  ASSUME UNCHANGED <<m_map_peers, m_vPairID>>, \A i \in 1 .. Len(sent') : sent'[i].signal # "sign_out"
  PROVE  Directory!Converse
<1>1. Told' = {}
  BY ToldNothing
<1>2. Present' = Present /\ Calls' = Calls
  BY DEF Present, MyId, Calls, InProgress, Offers, CallEnds
<1> QED
  BY <1>1, <1>2 DEF Directory!Converse

LEMMA RelayTellsNothing ==
  ASSUME NEW id, sent' = Relay(id)
  PROVE  \A i \in 1 .. Len(sent') : sent'[i].signal # "sign_out"
<1>1. \A h : Relayed(h, id).signal = "message"
  BY DEF Relayed
<1>2. sent' = <<>> \/ \E h : sent' = <<Relayed(h, id)>>
  BY DEF Relay
<1> QED
  BY <1>1, <1>2

LEMMA OfferAppended ==
  ASSUME NEW pair \in Pair, m_vPairID \in Seq(Pair), m_vPairID' = Append(m_vPairID, pair)
  PROVE  Offers' = Offers \cup {pair}
<1>1. /\ m_vPairID' \in Seq(Pair) /\ Len(m_vPairID') = Len(m_vPairID) + 1
      /\ \A i \in 1 .. Len(m_vPairID) : m_vPairID'[i] = m_vPairID[i]
      /\ m_vPairID'[Len(m_vPairID) + 1] = pair
  BY AppendProperties
<1>2. Len(m_vPairID) \in Nat
  BY LenProperties
<1>3. Offers' = {m_vPairID'[i] : i \in 1 .. Len(m_vPairID')}
  BY <1>1, LenProperties DEF Offers, Range
<1>4. Offers = {m_vPairID[i] : i \in 1 .. Len(m_vPairID)}
  BY OffersByIndex
<1> QED
  BY <1>1, <1>2, <1>3, <1>4

(* An offer starts a call, or repeats one.                                 *)
LEMMA Calling ==
  ASSUME WInv, NEW hdl \in DOMAIN m_map_peers, NEW to \in Int, FreeToCall(hdl, to),
         m_vPairID' = Append(m_vPairID, [from |-> MyId(hdl), to |-> to]),
         UNCHANGED m_map_peers, sent' = Relay(to)
  PROVE  Directory!Converse \/ \E d \in Conn : Directory!Call(hdl, d)
<1> DEFINE new == [from |-> MyId(hdl), to |-> to]
           d   == GetConnectionFromID(m_map_peers, to)
<1>1. new \in Pair /\ new.from = MyId(hdl) /\ new.to = to
  BY DEF WInv, TypeOK, Pair, Peer, Id, MyId
<1>2. Offers' = Offers \cup {new}
  BY <1>1, OfferAppended DEF WInv, TypeOK
<1>3. IsExistId(m_map_peers, to) /\ IsExistId(m_map_peers, MyId(hdl)) /\ to # MyId(hdl)
  BY DEF FreeToCall, IsExistId, MyId
<1>4. d \in DOMAIN m_map_peers /\ MyId(d) = to /\ d # hdl
  BY <1>3, GetConnectionFromIDType DEF MyId
<1>5. GetConnectionFromID(m_map_peers, MyId(hdl)) = hdl
  BY ConnectionOf DEF WInv, UniqueIds, MyId
<1> HIDE DEF new, d
<1>6. CallEnds(new) = {hdl, d}
  BY <1>1, <1>5 DEF CallEnds, d
<1>7. InProgress' = InProgress \cup {new}
  BY <1>1, <1>2, <1>3 DEF InProgress
<1>8. Calls' = Calls \cup {{hdl, d}}
  <2>1. \A pair : CallEnds(pair)' = CallEnds(pair)
    BY DEF CallEnds
  <2> QED
    BY <1>6, <1>7, <2>1 DEF Calls
<1>9. Told' = {} /\ Present' = Present
  BY RelayTellsNothing, ToldNothing DEF Present, MyId
<1>10. CASE {hdl, d} \in Calls
  BY <1>8, <1>9, <1>10 DEF Directory!Converse
<1>11. CASE {hdl, d} \notin Calls
  <2>1. ASSUME NEW pair \in InProgress, hdl \in CallEnds(pair) \/ d \in CallEnds(pair) PROVE FALSE
    <3>1. pair \in Offers /\ (HasEnd(pair, MyId(hdl)) \/ HasEnd(pair, to))
      BY <1>4, <2>1, CallOf DEF WInv, InProgress
    <3>2. HasEnd(pair, MyId(hdl)) /\ HasEnd(pair, to)
      BY <3>1 DEF FreeToCall
    <3>3. {pair.from, pair.to} = {MyId(hdl), to}
      BY <1>3, <3>2 DEF HasEnd
    <3>4. CallEnds(pair) = {hdl, d}
      BY <1>5, <3>3 DEF CallEnds, d
    <3> QED
      BY <1>11, <2>1, <3>4 DEF Calls
  <2>2. ~Directory!Busy(hdl) /\ ~Directory!Busy(d)
    BY <2>1 DEF Directory!Busy, Calls
  <2>3. DOMAIN Present = DOMAIN m_map_peers /\ d \in Conn
    BY <1>4 DEF Present, WInv, TypeOK
  <2> QED
    BY <1>4, <1>8, <1>9, <2>2, <2>3 DEF Directory!Call
<1> QED
  BY <1>10, <1>11

LEMMA WellBehavedStep ==
  ASSUME WInv, UniqueIds', WNext, FreshId
  PROVE  OnePartner' /\ Directory!Next
<1>1. \A n : asInt(JsonInt(n)) = n
  BY DEF asInt, JsonInt
<1>2. \A h \in DOMAIN m_map_peers : MyId(h) \in Int
  BY DEF WInv, TypeOK, Peer, Id, MyId
<1>3. UNCHANGED m_vPairID => Offers' = Offers
  BY DEF Offers
<1>4. ASSUME NEW hdl \in Conn, OnClose(hdl) PROVE OnePartner' /\ Directory!Next
  <2>1. CASE hdl \in DOMAIN m_map_peers
    <3>1. /\ m_map_peers' = Erased(m_map_peers, hdl) /\ RemovePairID(MyId(hdl))
          /\ sent' = NoticeTo(m_map_peers', RemovedPartner(MyId(hdl)), MyId(hdl))
      BY <1>4, <2>1 DEF OnClose, MyId
    <3>2. Directory!Leave(hdl)
      BY <2>1, <3>1, Leaving
    <3>3. OnePartner'
      BY <1>2, <2>1, <3>1, RemovedOffers, FewerOffers DEF WInv, TypeOK
    <3> QED
      BY <3>2, <3>3 DEF Directory!Next
  <2>2. CASE hdl \notin DOMAIN m_map_peers
    <3>1. UNCHANGED <<m_map_peers, m_vPairID>> /\ sent' = <<>>
      BY <1>4, <2>2 DEF OnClose
    <3>2. Directory!Converse
      BY <3>1, Conversing
    <3> QED
      BY <1>3, <3>1, <3>2, FewerOffers DEF Directory!Next, WInv
  <2> QED
    BY <2>1, <2>2
<1>5. ASSUME NEW hdl \in Conn, NEW value \in Request, WellBehaved(hdl, value), OnReceive(hdl, value)
      PROVE  OnePartner' /\ Directory!Next
  <2>1. CASE ProcessSignIn(hdl, value)
    <3>1. hdl \notin DOMAIN m_map_peers
      BY <1>5, <2>1 DEF WellBehaved, ProcessSignIn
    <3>2. Directory!Join(hdl)
      BY <2>1, <3>1, Joining
    <3> QED
      BY <1>3, <2>1, <3>2, FewerOffers DEF Directory!Next, ProcessSignIn, WInv
  <2>2. CASE ProcessSignOut(hdl, value)
    <3>1. hdl \in DOMAIN m_map_peers /\ asInt(value.id) = MyId(hdl)
      BY <1>1, <1>5, <2>2 DEF WellBehaved, ProcessSignOut
    <3>2. /\ m_map_peers' = Erased(m_map_peers, hdl) /\ RemovePairID(MyId(hdl))
          /\ sent' = <<SignOutReply(hdl)>>
                       \o NoticeTo(m_map_peers', RemovedPartner(MyId(hdl)), MyId(hdl))
      BY <2>2, <3>1 DEF ProcessSignOut
    <3>3. Directory!Leave(hdl)
      BY <3>1, <3>2, Leaving
    <3>4. OnePartner'
      BY <1>2, <3>1, <3>2, RemovedOffers, FewerOffers DEF WInv, TypeOK
    <3> QED
      BY <3>3, <3>4 DEF Directory!Next
  <2>3. CASE ProcessMessage(hdl, value)
    <3>1. hdl \in DOMAIN m_map_peers /\ asInt(value.from) = MyId(hdl)
      BY <1>1, <1>5, <2>3 DEF WellBehaved, ProcessMessage
    <3>2. UNCHANGED m_map_peers /\ sent' = Relay(asInt(value.to))
      BY <2>3 DEF ProcessMessage
    <3>3. CASE value.type = "offer"
      <4>1. asInt(value.to) \in Int
        <5>1. value.to \in IntField
          BY <2>3 DEF ProcessMessage, Request, SignInRequest, SignOutRequest,
                 MessageRequest, ExistRequest, OtherRequest
        <5> QED
          BY <5>1, asIntType, ConstantsAssumption
      <4>2. FreeToCall(hdl, asInt(value.to))
        BY <1>5, <2>3, <3>3 DEF WellBehaved, ProcessMessage
      <4>3. m_vPairID' = Append(m_vPairID, [from |-> MyId(hdl), to |-> asInt(value.to)])
        BY <2>3, <3>1, <3>3 DEF ProcessMessage
      <4>4. Directory!Converse \/ \E d \in Conn : Directory!Call(hdl, d)
        BY <3>1, <3>2, <4>1, <4>2, <4>3, Calling
      <4>5. [from |-> MyId(hdl), to |-> asInt(value.to)] \in Pair
        BY <1>2, <3>1, <4>1 DEF Pair
      <4>6. Offers' = Offers \cup {[from |-> MyId(hdl), to |-> asInt(value.to)]}
        BY <4>3, <4>5, OfferAppended DEF WInv, TypeOK
      <4>7. OnePartner'
        BY <3>1, <4>1, <4>2, <4>6, OneMoreOffer DEF WInv
      <4> QED
        BY <4>4, <4>7 DEF Directory!Next
    <3>4. CASE value.type # "offer"
      <4>1. UNCHANGED m_vPairID
        BY <2>3, <3>4 DEF ProcessMessage
      <4>2. Directory!Converse
        BY <3>2, <4>1, RelayTellsNothing, Conversing
      <4> QED
        BY <1>3, <4>1, <4>2, FewerOffers DEF Directory!Next, WInv
    <3> QED
      BY <3>3, <3>4
  <2>4. CASE ProcessExist(hdl, value) \/ Ignore(hdl, value)
    <3>1. UNCHANGED <<m_map_peers, m_vPairID>>
      BY <2>4 DEF ProcessExist, Ignore
    <3>2. \A i \in 1 .. Len(sent') : sent'[i].signal # "sign_out"
      <4>1. sent' = <<>> \/ \E exist, id : sent' = <<ExistReply(hdl, exist, id)>>
        BY <2>4 DEF ProcessExist, Ignore
      <4>2. \A exist, id : ExistReply(hdl, exist, id).signal = "return"
        BY DEF ExistReply
      <4> QED
        BY <4>1, <4>2
    <3>3. Directory!Converse
      BY <3>1, <3>2, Conversing
    <3> QED
      BY <1>3, <3>1, <3>3, FewerOffers DEF Directory!Next, WInv
  <2> QED
    BY <1>5, <2>1, <2>2, <2>3, <2>4 DEF WellBehaved, OnReceive
<1> QED
  BY <1>4, <1>5 DEF WNext

-----------------------------------------------------------------------------
LEMMA WellBehavedTypes == WSpec => [](TypeOK /\ UniqueIds)
<1>1. WNext /\ FreshId => Next
  BY DEF WNext, Next
<1> QED
  BY <1>1, TypeCorrect, IdsUnique, PTL DEF WSpec, Spec

LEMMA OnePartnerHolds == WSpec => []OnePartner
<1>1. Init => OnePartner
  BY DEF Init, OnePartner, Offers, Range
<1>2. WInv /\ UniqueIds' /\ [WNext /\ FreshId]_vars => OnePartner'
  <2>1. WInv /\ UNCHANGED vars => OnePartner'
    BY FewerOffers DEF WInv, vars, Offers
  <2> QED
    BY <2>1, WellBehavedStep
<1> QED
  BY <1>1, <1>2, WellBehavedTypes, PTL DEF WSpec, WInv

(* For every number of clients and ids: as long as no id in a pair left    *)
(* behind is issued again, the server keeps the promise of CallDirectory   *)
(* to clients that renegotiate with one partner per sign-in.               *)
THEOREM CallDirectoryImplemented == WSpec => ImplementsCallDirectory
<1>1. Init => Directory!Init
  <2>1. ASSUME Init PROVE Present = [c \in {} |-> {}] /\ Calls = {} /\ Told = {}
    <3>1. Present = [c \in {} |-> {}] /\ Offers = {} /\ Told = {}
      BY <2>1 DEF Init, Present, Offers, Range, Told
    <3> QED
      BY <3>1 DEF Calls, InProgress
  <2> QED
    BY <2>1 DEF Directory!Init
<1>2. WInv /\ UniqueIds' /\ [WNext /\ FreshId]_vars => [Directory!Next]_(Directory!dvars)
  <2>1. UNCHANGED vars => UNCHANGED Directory!dvars
    BY DEF vars, Directory!dvars, Present, MyId, Calls, InProgress, Offers, CallEnds, Told
  <2> QED
    BY <2>1, WellBehavedStep
<1> QED
  BY <1>1, <1>2, WellBehavedTypes, OnePartnerHolds, PTL
     DEF WSpec, WInv, ImplementsCallDirectory, Directory!Spec

-----------------------------------------------------------------------------
(* Clients that make one offer per call.                                   *)

(* Erasing the only pair of hdl leaves the calls of the others.            *)
LEMMA CallErased ==
  ASSUME TypeOK, UniqueIds, PairsAreCalls, NEW hdl \in DOMAIN m_map_peers,
         m_map_peers' = Erased(m_map_peers, hdl), RemovePairID(MyId(hdl))
  PROVE  PairsAreCalls'
<1> DEFINE id == MyId(hdl)
           k  == PairIndex(id)
<1>1. id \in Int /\ Len(m_vPairID) \in Nat /\ m_vPairID \in Seq(Pair)
  BY LenProperties DEF TypeOK, Peer, Id, MyId
<1>2. \A x : IsExistId(m_map_peers', x) <=> IsExistId(m_map_peers, x) /\ x # id
  BY ErasedLookup
<1>3. CASE k = 0
  <2>1. m_vPairID' = m_vPairID /\ \A i \in 1 .. Len(m_vPairID) : ~HasEnd(m_vPairID[i], id)
    BY <1>1, <1>3, PairIndexIsFirst DEF RemovePairID
  <2> QED
    BY <1>2, <2>1 DEF PairsAreCalls, HasEnd
<1>4. CASE k # 0
  <2> DEFINE old(i) == IF i < k THEN i ELSE i + 1
  <2>1. k \in 1 .. Len(m_vPairID) /\ HasEnd(m_vPairID[k], id)
    BY <1>1, <1>4, PairIndexIsFirst
  <2>2. m_vPairID' = RemoveAt(m_vPairID, k)
    BY <1>4 DEF RemovePairID
  <2> HIDE DEF id, k
  <2>3. /\ Len(m_vPairID') = Len(m_vPairID) - 1
        /\ \A i \in 1 .. Len(m_vPairID) - 1 : m_vPairID'[i] = m_vPairID[old(i)]
    BY <1>1, <2>1, <2>2, RemoveAtElements
  <2>4. /\ \A i \in 1 .. Len(m_vPairID) - 1 : old(i) \in 1 .. Len(m_vPairID) \ {k}
        /\ \A i, j \in 1 .. Len(m_vPairID) - 1 : i # j => old(i) # old(j)
    BY <1>1, <2>1
  <2> HIDE DEF old
  <2>5. \A i \in 1 .. Len(m_vPairID) \ {k} : ~HasEnd(m_vPairID[i], id)
    BY <2>1 DEF PairsAreCalls, HasEnd
  <2>6. ASSUME NEW i \in 1 .. Len(m_vPairID')
        PROVE  /\ IsExistId(m_map_peers', m_vPairID'[i].from)
               /\ IsExistId(m_map_peers', m_vPairID'[i].to)
               /\ m_vPairID'[i].from # m_vPairID'[i].to
               /\ \A j \in 1 .. Len(m_vPairID') \ {i} :
                    /\ ~HasEnd(m_vPairID'[j], m_vPairID'[i].from)
                    /\ ~HasEnd(m_vPairID'[j], m_vPairID'[i].to)
    <3>1. m_vPairID'[i] = m_vPairID[old(i)] /\ old(i) \in 1 .. Len(m_vPairID) \ {k}
      BY <2>3, <2>4
    <3>2. \A j \in 1 .. Len(m_vPairID') \ {i} :
            m_vPairID'[j] = m_vPairID[old(j)] /\ old(j) \in 1 .. Len(m_vPairID) \ {old(i)}
      BY <2>3, <2>4
    <3>3. m_vPairID[old(i)].from # id /\ m_vPairID[old(i)].to # id
      BY <2>5, <3>1 DEF HasEnd
    <3> QED
      BY <1>2, <3>1, <3>2, <3>3 DEF PairsAreCalls
  <2> QED
    BY <2>6 DEF PairsAreCalls, HasEnd
<1> QED
  BY <1>3, <1>4

LEMMA CallAppended ==
  ASSUME TypeOK, PairsAreCalls, NEW hdl \in DOMAIN m_map_peers, NEW to \in Int,
         FreeToCall(hdl, to), OneOffer, UNCHANGED m_map_peers,
         m_vPairID' = Append(m_vPairID, [from |-> MyId(hdl), to |-> to])
  PROVE  PairsAreCalls'
<1> DEFINE new == [from |-> MyId(hdl), to |-> to]
           n   == Len(m_vPairID)
<1>1. new \in Pair /\ new.from = MyId(hdl) /\ new.to = to
  BY DEF TypeOK, Pair, Peer, Id, MyId
<1>2. n \in Nat
  BY LenProperties DEF TypeOK
<1>3. /\ Len(m_vPairID') = n + 1 /\ m_vPairID'[n + 1] = new
      /\ \A i \in 1 .. n : m_vPairID'[i] = m_vPairID[i]
  BY <1>1, AppendProperties DEF TypeOK
<1>4. Offers = {m_vPairID[i] : i \in 1 .. n}
  BY OffersByIndex DEF TypeOK
<1>5. Last(m_vPairID') = new
  BY <1>3 DEF Last
<1> HIDE DEF new
<1>6. /\ IsExistId(m_map_peers, new.from) /\ IsExistId(m_map_peers, new.to)
      /\ new.from # new.to
  BY <1>1 DEF FreeToCall, IsExistId, MyId
<1>7. \A pair \in Offers : ~HasEnd(pair, new.from) /\ ~HasEnd(pair, new.to)
  BY <1>1, <1>2, <1>3, <1>5 DEF OneOffer, FreeToCall
<1>8. \A i \in 1 .. n : /\ ~HasEnd(m_vPairID[i], new.from) /\ ~HasEnd(m_vPairID[i], new.to)
                        /\ ~HasEnd(new, m_vPairID[i].from) /\ ~HasEnd(new, m_vPairID[i].to)
  BY <1>4, <1>7 DEF HasEnd
<1> HIDE DEF n
<1>9. ASSUME NEW i \in 1 .. n + 1
      PROVE  /\ IsExistId(m_map_peers', m_vPairID'[i].from)
             /\ IsExistId(m_map_peers', m_vPairID'[i].to)
             /\ m_vPairID'[i].from # m_vPairID'[i].to
             /\ \A j \in 1 .. n + 1 \ {i} :
                  /\ ~HasEnd(m_vPairID'[j], m_vPairID'[i].from)
                  /\ ~HasEnd(m_vPairID'[j], m_vPairID'[i].to)
  <2>1. CASE i = n + 1
    <3>1. \A j \in 1 .. n + 1 \ {i} : j \in 1 .. n
      BY <1>2, <2>1
    <3> QED
      BY <1>3, <1>6, <1>8, <2>1, <3>1
  <2>2. CASE i \in 1 .. n
    <3>1. m_vPairID'[i] = m_vPairID[i]
      BY <1>3, <2>2
    <3>2. \A j \in 1 .. n + 1 \ {i} : j = n + 1 \/ j \in 1 .. n \ {i}
      BY <1>2, <2>2
    <3> QED
      BY <1>3, <1>8, <2>2, <3>1, <3>2 DEF PairsAreCalls, n
  <2>3. i = n + 1 \/ i \in 1 .. n
    BY <1>2
  <2> QED
    BY <2>1, <2>2, <2>3
<1> QED
  BY <1>3, <1>9 DEF PairsAreCalls, HasEnd

LEMMA OneOfferStep ==
  ASSUME TypeOK, UniqueIds, PairsAreCalls, WNext, OneOffer
  PROVE  PairsAreCalls' /\ FreshId
<1>1. \A n : asInt(JsonInt(n)) = n
  BY DEF asInt, JsonInt
<1>2. UNCHANGED <<m_map_peers, m_vPairID>> => PairsAreCalls'
  BY DEF PairsAreCalls
<1>3. DOMAIN m_map_peers' \subseteq DOMAIN m_map_peers => FreshId
  BY DEF FreshId
<1>4. ASSUME NEW hdl \in Conn, OnClose(hdl) PROVE PairsAreCalls' /\ FreshId
  <2>1. CASE hdl \in DOMAIN m_map_peers
    <3>1. m_map_peers' = Erased(m_map_peers, hdl) /\ RemovePairID(MyId(hdl))
      BY <1>4, <2>1 DEF OnClose, MyId
    <3> QED
      BY <1>3, <2>1, <3>1, CallErased DEF Erased
  <2>2. CASE hdl \notin DOMAIN m_map_peers
    BY <1>2, <1>3, <1>4, <2>2 DEF OnClose
  <2> QED
    BY <2>1, <2>2
<1>5. ASSUME NEW hdl \in Conn, NEW value \in Request, WellBehaved(hdl, value), OnReceive(hdl, value)
      PROVE  PairsAreCalls' /\ FreshId
  <2>1. CASE ProcessSignIn(hdl, value)
    <3>1. PICK id \in 0 .. IntMax :
            /\ NextID(id)
            /\ m_map_peers' = Registered(m_map_peers, hdl, [id |-> id, name |-> value.name])
      BY <2>1 DEF ProcessSignIn
    <3>2. ~IsExistId(m_map_peers, id)
      BY <3>1, NextIDFresh, ConstantsAssumption DEF TypeOK
    <3>3. hdl \notin DOMAIN m_map_peers /\ UNCHANGED m_vPairID
      BY <1>5, <2>1 DEF WellBehaved, ProcessSignIn
    <3>4. /\ DOMAIN m_map_peers' = DOMAIN m_map_peers \cup {hdl}
          /\ \A h \in DOMAIN m_map_peers : m_map_peers'[h] = m_map_peers[h]
          /\ m_map_peers'[hdl].id = id
      BY <3>1, <3>3 DEF Registered
    <3>5. \A x : IsExistId(m_map_peers, x) => IsExistId(m_map_peers', x)
      BY <3>4 DEF IsExistId
    <3>6. PairsAreCalls'
      BY <3>3, <3>5 DEF PairsAreCalls, HasEnd
    <3>7. Offers = {m_vPairID[i] : i \in 1 .. Len(m_vPairID)}
      BY OffersByIndex DEF TypeOK
    <3>8. \A pair \in Offers : ~HasEnd(pair, id)
      BY <3>2, <3>7 DEF PairsAreCalls, HasEnd
    <3> QED
      BY <3>3, <3>4, <3>6, <3>8 DEF FreshId
  <2>2. CASE ProcessSignOut(hdl, value)
    <3>1. hdl \in DOMAIN m_map_peers /\ asInt(value.id) = MyId(hdl)
      BY <1>1, <1>5, <2>2 DEF WellBehaved, ProcessSignOut
    <3>2. m_map_peers' = Erased(m_map_peers, hdl) /\ RemovePairID(MyId(hdl))
      BY <2>2, <3>1 DEF ProcessSignOut
    <3> QED
      BY <1>3, <3>1, <3>2, CallErased DEF Erased
  <2>3. CASE ProcessMessage(hdl, value) /\ value.type = "offer"
    <3>1. /\ hdl \in DOMAIN m_map_peers /\ asInt(value.from) = MyId(hdl)
          /\ FreeToCall(hdl, asInt(value.to))
      BY <1>1, <1>5, <2>3 DEF WellBehaved, ProcessMessage
    <3>2. value.to \in IntField
      BY <2>3 DEF ProcessMessage, Request, SignInRequest, SignOutRequest,
             MessageRequest, ExistRequest, OtherRequest
    <3>3. asInt(value.to) \in Int
      BY <3>2, asIntType, ConstantsAssumption
    <3>4. /\ UNCHANGED m_map_peers
          /\ m_vPairID' = Append(m_vPairID, [from |-> MyId(hdl), to |-> asInt(value.to)])
      BY <2>3, <3>1 DEF ProcessMessage
    <3> QED
      BY <1>3, <3>1, <3>3, <3>4, CallAppended
  <2>4. CASE \/ ProcessMessage(hdl, value) /\ value.type # "offer"
             \/ ProcessExist(hdl, value) \/ Ignore(hdl, value)
    BY <1>2, <1>3, <2>4 DEF ProcessMessage, ProcessExist, Ignore
  <2> QED
    BY <1>5, <2>1, <2>2, <2>3, <2>4 DEF WellBehaved, OnReceive
<1> QED
  BY <1>4, <1>5 DEF WNext

(* For every number of clients and ids, and however often the ids have     *)
(* gone around: m_vPairID holds exactly the calls in progress of clients   *)
(* that make one offer per call.                                           *)
THEOREM NoPairLeftBehind == OnceSpec => []PairsAreCalls
<1>1. Init => PairsAreCalls
  BY DEF Init, PairsAreCalls
<1>2. TypeOK /\ UniqueIds /\ PairsAreCalls /\ [WNext /\ OneOffer]_vars => PairsAreCalls'
  <2>1. PairsAreCalls /\ UNCHANGED vars => PairsAreCalls'
    BY DEF PairsAreCalls, vars
  <2> QED
    BY <2>1, OneOfferStep
<1>3. OnceSpec => Spec
  <2>1. WNext /\ OneOffer => Next
    BY DEF WNext, Next
  <2> QED
    BY <2>1, PTL DEF OnceSpec, Spec
<1> QED
  BY <1>1, <1>2, <1>3, TypeCorrect, IdsUnique, PTL DEF OnceSpec

(* Such clients need no assumption about ids that are issued again: the    *)
(* server keeps the promise of CallDirectory to them unconditionally.      *)
THEOREM OnceImplementsCallDirectory == OnceSpec => ImplementsCallDirectory
<1>1. TypeOK /\ UniqueIds /\ PairsAreCalls /\ [WNext /\ OneOffer]_vars => [WNext /\ FreshId]_vars
  BY OneOfferStep
<1>2. OnceSpec => Spec
  <2>1. WNext /\ OneOffer => Next
    BY DEF WNext, Next
  <2> QED
    BY <2>1, PTL DEF OnceSpec, Spec
<1>3. OnceSpec => WSpec
  BY <1>1, <1>2, NoPairLeftBehind, TypeCorrect, IdsUnique, PTL DEF OnceSpec, WSpec
<1> QED
  BY <1>3, CallDirectoryImplemented, PTL
=============================================================================
