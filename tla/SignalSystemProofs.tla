------------------------- MODULE SignalSystemProofs -------------------------
(***************************************************************************)
(* The handlers on the threads: who is signed in is listed, and what is    *)
(* sent goes to the right endpoint, for any number of connections, texts   *)
(* and messages.                                                           *)
(***************************************************************************)
EXTENDS SignalSystem, WebsocketServerProofs

(* The connections listed under their own endpoint.                        *)
OwnListed == (m_con_list_plain \cap PlainConn) \cup (m_con_list_tls \ PlainConn)

(* Whoever the last handler addressed is still listed: a connection leaves *)
(* the lists in a step that overwrites sent.                               *)
SentListed == \A i \in 1 .. Len(sent) : sent[i].hdl \in OwnListed

SysInv == DOMAIN m_map_peers \subseteq OwnListed /\ SentListed

-----------------------------------------------------------------------------
(* What the handlers do to the registry, and whom they address.            *)

LEMMA NoticeAddressee ==
  ASSUME NEW peers, NEW pid, NEW id
  PROVE  \/ S!NoticeTo(peers, pid, id) = <<>>
         \/ \E h \in DOMAIN peers : S!NoticeTo(peers, pid, id) = <<S!SignOutNotice(h, id)>>
<1>1. S!IsExistId(peers, pid) => S!GetConnectionFromID(peers, pid) \in DOMAIN peers
  BY DEF S!IsExistId, S!GetConnectionFromID
<1> QED
  BY <1>1 DEF S!NoticeTo

LEMMA RelayAddressee ==
  ASSUME NEW id
  PROVE  \A i \in 1 .. Len(S!Relay(id)) : S!Relay(id)[i].hdl \in DOMAIN m_map_peers
<1>1. CASE S!IsExistId(m_map_peers, id)
  <2> DEFINE h == S!GetConnectionFromID(m_map_peers, id)
  <2>1. h \in DOMAIN m_map_peers
    BY <1>1 DEF S!IsExistId, S!GetConnectionFromID
  <2>2. S!Relay(id) = <<S!Relayed(h, id)>>
    BY <1>1 DEF S!Relay
  <2>3. S!Relayed(h, id).hdl = h
    BY DEF S!Relayed
  <2> HIDE DEF h
  <2> QED
    BY <2>1, <2>2, <2>3
<1>2. CASE ~S!IsExistId(m_map_peers, id)
  BY <1>2 DEF S!Relay
<1> QED
  BY <1>1, <1>2

LEMMA Concat1 ==
  ASSUME NEW x, NEW y
  PROVE  /\ Len(<<x>> \o <<y>>) = 2
         /\ (<<x>> \o <<y>>)[1] = x
         /\ (<<x>> \o <<y>>)[2] = y
<1>1. <<x>> \in Seq({x, y}) /\ <<y>> \in Seq({x, y}) /\ Len(<<x>>) = 1 /\ Len(<<y>>) = 1
  OBVIOUS
<1> QED
  BY <1>1

LEMMA OnCloseAddressees ==
  ASSUME NEW hdl, S!OnClose(hdl)
  PROVE  /\ DOMAIN m_map_peers' \subseteq DOMAIN m_map_peers \ {hdl}
         /\ \A i \in 1 .. Len(sent') : sent'[i].hdl \in DOMAIN m_map_peers'
<1>1. CASE hdl \in DOMAIN m_map_peers
  <2> DEFINE id == m_map_peers[hdl].id
  <2>1. /\ m_map_peers' = S!Erased(m_map_peers, hdl)
        /\ sent' = S!NoticeTo(m_map_peers', S!RemovedPartner(id), id)
    BY <1>1 DEF S!OnClose
  <2>2. DOMAIN m_map_peers' = DOMAIN m_map_peers \ {hdl}
    BY <2>1 DEF S!Erased
  <2>3. sent' = <<>> \/ \E h \in DOMAIN m_map_peers' : sent' = <<S!SignOutNotice(h, id)>>
    BY <2>1, NoticeAddressee
  <2> QED
    BY <2>2, <2>3 DEF S!SignOutNotice
<1>2. CASE hdl \notin DOMAIN m_map_peers
  BY <1>2 DEF S!OnClose
<1> QED
  BY <1>1, <1>2

LEMMA OnReceiveAddressees ==
  ASSUME NEW hdl, NEW value, S!OnReceive(hdl, value)
  PROVE  /\ DOMAIN m_map_peers' \subseteq DOMAIN m_map_peers \cup {hdl}
         /\ \A i \in 1 .. Len(sent') : sent'[i].hdl \in DOMAIN m_map_peers \cup {hdl}
<1>1. CASE S!Terminate(hdl, value)
  <2>1. m_map_peers' = m_map_peers /\ (sent' = <<>> \/ \E id : sent' = S!Relay(id))
    BY <1>1 DEF S!Terminate
  <2> QED
    BY <2>1, RelayAddressee
<1>2. CASE S!ProcessSignIn(hdl, value)
  <2>1. PICK id, repeat, peers, p :
          /\ m_map_peers' = S!Registered(m_map_peers, hdl, p)
          /\ sent' = <<S!SignInReply(hdl, id, repeat, peers)>>
    BY <1>2 DEF S!ProcessSignIn
  <2> QED
    BY <2>1 DEF S!Registered, S!SignInReply
<1>3. CASE S!ProcessSignOut(hdl, value)
  <2> DEFINE id     == S!asInt(value.id)
             notice == S!NoticeTo(m_map_peers', S!RemovedPartner(id), id)
  <2>1. m_map_peers' = S!Erased(m_map_peers, hdl) /\ sent' = <<S!SignOutReply(hdl)>> \o notice
    BY <1>3 DEF S!ProcessSignOut
  <2>2. DOMAIN m_map_peers' = DOMAIN m_map_peers \ {hdl}
    BY <2>1 DEF S!Erased
  <2>3. notice = <<>> \/ \E h \in DOMAIN m_map_peers' : notice = <<S!SignOutNotice(h, id)>>
    BY NoticeAddressee
  <2>4. S!SignOutReply(hdl).hdl = hdl /\ \A h : S!SignOutNotice(h, id).hdl = h
    BY DEF S!SignOutReply, S!SignOutNotice
  <2> HIDE DEF id, notice
  <2>5. CASE notice = <<>>
    <3>1. sent' = <<S!SignOutReply(hdl)>>
      <4>1. <<S!SignOutReply(hdl)>> \o <<>> = <<S!SignOutReply(hdl)>>
        OBVIOUS
      <4> QED
        BY <2>1, <2>5, <4>1
    <3> QED
      BY <2>2, <2>4, <3>1
  <2>6. CASE notice # <<>>
    <3>1. PICK h \in DOMAIN m_map_peers' : notice = <<S!SignOutNotice(h, id)>>
      BY <2>3, <2>6
    <3>2. Len(sent') = 2 /\ sent'[1] = S!SignOutReply(hdl) /\ sent'[2] = S!SignOutNotice(h, id)
      BY <2>1, <3>1, Concat1
    <3>3. sent'[1].hdl = hdl /\ sent'[2].hdl = h
      BY <2>4, <3>2
    <3> QED
      BY <2>2, <3>2, <3>3
  <2> QED
    BY <2>5, <2>6
<1>4. CASE S!ProcessMessage(hdl, value)
  <2>1. m_map_peers' = m_map_peers /\ sent' = S!Relay(S!asInt(value.to))
    BY <1>4 DEF S!ProcessMessage
  <2> QED
    BY <2>1, RelayAddressee
<1>5. CASE S!ProcessExist(hdl, value) \/ S!Ignore(hdl, value)
  <2>1. /\ m_map_peers' = m_map_peers
        /\ sent' = <<>> \/ \E exist, id : sent' = <<S!ExistReply(hdl, exist, id)>>
    BY <1>5 DEF S!ProcessExist, S!Ignore
  <2> QED
    BY <2>1 DEF S!ExistReply
<1> QED
  BY <1>1, <1>2, <1>3, <1>4, <1>5 DEF S!OnReceive

-----------------------------------------------------------------------------
(* Every step of the system is a step of the threads.                      *)
LEMMA SystemIsThreads == SSpec => WSpec
<1>1. SInit => WInit
  BY DEF SInit
<1>2. ASSUME NEW value, ReceiveText(value) PROVE \E throws \in BOOLEAN : Message(throws)
  <2>1. CASE S!Throws(value)
    <3>1. Message(TRUE)
      BY <1>2, <2>1 DEF ReceiveText, Message
    <3> QED
      BY <3>1
  <2>2. CASE ~S!Throws(value)
    <3>1. Message(FALSE)
      BY <1>2, <2>2 DEF ReceiveText, Message
    <3> QED
      BY <3>1
  <2> QED
    BY <2>1, <2>2
<1>3. SNext => WNext
  BY <1>2 DEF SNext, WNext, process_texts, process_messages, Handlers, Others,
              UnsubscribeAndClose, SkipBinary
<1>4. [SNext]_svars => [WNext]_wvars
  BY <1>3 DEF svars
<1> QED
  BY <1>1, <1>4, PTL DEF SSpec, WSpec

LEMMA SysStep ==
  ASSUME WInv, SenderListed, SysInv, [SNext]_svars
  PROVE  SysInv'
<1>1. ASSUME UNCHANGED sigvars, OwnListed \subseteq OwnListed' PROVE SysInv'
  BY <1>1 DEF SysInv, SentListed, sigvars
<1>2. ASSUME UNCHANGED <<sigvars, lists>> PROVE SysInv'
  BY <1>1, <1>2 DEF lists, OwnListed
<1>3. CASE UnsubscribeAndClose
  <2>1. OwnListed' = OwnListed \ {act[1].hdl}
    BY <1>3 DEF UnsubscribeAndClose, Unsubscribe, OwnListed
  <2>2. /\ DOMAIN m_map_peers' \subseteq DOMAIN m_map_peers \ {act[1].hdl}
        /\ \A i \in 1 .. Len(sent') : sent'[i].hdl \in DOMAIN m_map_peers'
    BY <1>3, OnCloseAddressees DEF UnsubscribeAndClose
  <2> QED
    BY <2>1, <2>2 DEF SysInv, SentListed
<1>4. ASSUME NEW value \in Text, ReceiveText(value) PROVE SysInv'
  <2>1. act # <<>> /\ act[1].type = "MESSAGE" /\ act[1].hdl \in Conn
    <3>1. PICK a \in Action : act = <<a>>
      BY <1>4 DEF ReceiveText, Message, Branch, WInv, WTypeOK
    <3> QED
      BY <1>4, <3>1 DEF ReceiveText, Message, Branch, Action
  <2>2. act[1].hdl \in OwnListed
    BY <2>1 DEF SenderListed, OwnListed, Conn
  <2>3. OwnListed' = OwnListed
    BY <1>4 DEF ReceiveText, Message, lists, OwnListed
  <2>4. /\ DOMAIN m_map_peers' \subseteq DOMAIN m_map_peers \cup {act[1].hdl}
        /\ \A i \in 1 .. Len(sent') : sent'[i].hdl \in DOMAIN m_map_peers \cup {act[1].hdl}
    BY <1>4, OnReceiveAddressees DEF ReceiveText
  <2> QED
    BY <2>2, <2>3, <2>4 DEF SysInv, SentListed
<1>5. CASE SkipBinary
  BY <1>2, <1>5 DEF SkipBinary, Message
<1>6. CASE (Subscribe \/ TlsSubscribe) /\ UNCHANGED sigvars
  BY <1>1, <1>6 DEF Subscribe, TlsSubscribe, OwnListed
<1>7. CASE (Take \/ Exit \/ LockForAction) /\ UNCHANGED sigvars
  BY <1>2, <1>7 DEF Take, Exit, LockForAction
<1>8. CASE Others /\ UNCHANGED sigvars
  <2>1. Callbacks => UNCHANGED lists
    BY DEF Callbacks, on_open, on_open_tls, on_close, on_message, on_pong, on_pong_timeout, Push
  <2>2. MainContinues \/ RunThrows \/ SpuriousWakeup => UNCHANGED lists
    BY DEF MainContinues, Listen, CallbackNotifies, RunStopped, RunThrows, RunReturns, Join,
           SpuriousWakeup
  <2>3. loop_ping \/ WaitExitMessage \/ ExitSequence \/ Ended => UNCHANGED lists
    BY DEF loop_ping, EnterWait, WaitReturns, LockForPings, Ping, PingsDone, WaitExitMessage,
           ExitSequence, NotifyExit, Stop, PushExit, ExitNotifies, Ended, wvars, lists
  <2> QED
    BY <1>2, <1>8, <2>1, <2>2, <2>3 DEF Others
<1>9. CASE UNCHANGED svars
  BY <1>2, <1>9 DEF svars, wvars, lists
<1> QED
  BY <1>3, <1>4, <1>5, <1>6, <1>7, <1>8, <1>9 DEF SNext, process_texts, Handlers

LEMMA SystemInvariant == SSpec => [](WInv /\ SysInv)
<1>1. SInit => SysInv
  BY DEF SInit, S!Init, SysInv, SentListed
<1>2. WInv /\ SenderListed /\ SysInv /\ [SNext]_svars => SysInv'
  BY SysStep
<1> QED
  BY <1>1, <1>2, SystemIsThreads, WInvariant, RepliesRouted, PTL DEF SSpec

(* Whatever clients send and whenever their connections close: a peer is   *)
(* registered only while its connection is listed, under its own endpoint. *)
THEOREM PeersAreListed == SSpec => []PeersListed
<1>1. SysInv => PeersListed
  BY DEF SysInv, OwnListed, PeersListed
<1> QED
  BY <1>1, SystemInvariant, PTL

(* No handler ever sends through the wrong endpoint.                       *)
THEOREM SendsAreRouted == SSpec => SendsToOwnEndpoint
<1>1. WInv' /\ SysInv' =>
        (\A i \in 1 .. Len(sent) : Send(sent[i].hdl) = EndpointOf(sent[i].hdl))'
  BY EndpointsAssumption
     DEF WInv, Flow, OwnLists, SysInv, SentListed, OwnListed, Send, EndpointOf, EndpointsAssumption
<1> QED
  BY <1>1, SystemInvariant, PTL DEF SendsToOwnEndpoint

-----------------------------------------------------------------------------
(* The handlers are called as SignalServer takes them to be: one at a time *)
(* and to the end, for a connection, with a text of a client; whatever the *)
(* other threads do leaves the registry alone.                             *)
THEOREM HandlersRunAlone == SSpec => S!Spec
<1>1. SInit => S!Init
  BY DEF SInit
<1>2. ASSUME WInv, [SNext]_svars PROVE [S!Next]_(S!vars)
  <2>1. ASSUME t1 = "locked", act[1].type \in {"UNSUBSCRIBE", "MESSAGE"} PROVE act[1].hdl \in Conn
    <3>1. PICK a \in Action : act = <<a>>
      BY <1>2, <2>1 DEF WInv, WTypeOK
    <3> QED
      BY <2>1, <3>1 DEF Action
  <2>2. CASE UnsubscribeAndClose
    <3>1. act[1].hdl \in Conn /\ S!OnClose(act[1].hdl)
      BY <2>1, <2>2 DEF UnsubscribeAndClose, Unsubscribe, Branch
    <3> QED
      BY <3>1 DEF S!Next
  <2>3. ASSUME NEW value \in Text, ReceiveText(value) PROVE S!Next
    <3>1. act[1].hdl \in Conn /\ S!OnReceive(act[1].hdl, value)
      BY <2>1, <2>3 DEF ReceiveText, Message, Branch
    <3>2. value \in S!Request
      BY TextAssumption DEF TextAssumption
    <3> QED
      BY <3>1, <3>2 DEF S!Next
  <2>4. CASE UNCHANGED sigvars
    BY <2>4 DEF sigvars, S!vars
  <2> QED
    BY <1>2, <2>2, <2>3, <2>4 DEF SNext, process_texts, Handlers, SkipBinary, svars
<1> QED
  BY <1>1, <1>2, SystemInvariant, PTL DEF SSpec, S!Spec

(* What is proved of the handlers by themselves holds of the server.  S    *)
(* and P are the same module, instantiated in the same way.                *)
P == INSTANCE SignalServerProofs WITH age <- 0

LEMMA SameHandlers == S!Spec <=> P!Spec
<1>1. \A peers, id : S!IsExistId(peers, id) <=> P!IsExistId(peers, id)
  BY DEF S!IsExistId, P!IsExistId
<1>2. \A peers, name : S!IsExistName(peers, name) <=> P!IsExistName(peers, name)
  BY DEF S!IsExistName, P!IsExistName
<1>3. \A peers, id : S!GetConnectionFromID(peers, id) = P!GetConnectionFromID(peers, id)
  BY DEF S!GetConnectionFromID, P!GetConnectionFromID
<1>4. \A peers, h, p : S!Registered(peers, h, p) = P!Registered(peers, h, p)
  BY DEF S!Registered, P!Registered
<1>5. \A peers, h : S!Erased(peers, h) = P!Erased(peers, h)
  BY DEF S!Erased, P!Erased
<1>6. \A v : S!asInt(v) = P!asInt(v)
  BY DEF S!asInt, P!asInt
<1>7. \A v : S!Throws(v) <=> P!Throws(v)
  BY DEF S!Throws, S!IsConvertibleToInt, P!Throws, P!IsConvertibleToInt
<1>8. \A id : S!PairIndex(id) = P!PairIndex(id)
  BY DEF S!PairIndex, S!HasEnd, S!SelectInSeq, S!Min, P!PairIndex, P!HasEnd,
         P!SelectInSeq, P!Min
<1>9. \A id : /\ S!RemovePairID(id) <=> P!RemovePairID(id)
              /\ S!RemovedPartner(id) = P!RemovedPartner(id)
  BY <1>8 DEF S!RemovePairID, P!RemovePairID, S!RemovedPartner, P!RemovedPartner, S!OtherEnd,
              P!OtherEnd, S!RemoveAt, P!RemoveAt
<1>10. \A peers, pid, id : S!NoticeTo(peers, pid, id) = P!NoticeTo(peers, pid, id)
  BY <1>1, <1>3 DEF S!NoticeTo, P!NoticeTo, S!SignOutNotice, P!SignOutNotice
<1>11. \A id : S!Relay(id) = P!Relay(id)
  BY <1>1, <1>3 DEF S!Relay, P!Relay, S!Relayed, P!Relayed
<1>12. \A id : S!NextID(id) <=> P!NextID(id)
  BY <1>1 DEF S!NextID, P!NextID, S!WrapId, P!WrapId
<1>13. \A h, v : S!ProcessSignIn(h, v) <=> P!ProcessSignIn(h, v)
  BY <1>2, <1>4, <1>12 DEF S!ProcessSignIn, P!ProcessSignIn, S!SignInReply, P!SignInReply, S!Range,
         P!Range
<1>14. \A h, v : S!ProcessSignOut(h, v) <=> P!ProcessSignOut(h, v)
  BY <1>5, <1>6, <1>9, <1>10 DEF S!ProcessSignOut, P!ProcessSignOut, S!SignOutReply, P!SignOutReply
<1>15. \A h, v : S!ProcessMessage(h, v) <=> P!ProcessMessage(h, v)
  BY <1>6, <1>11 DEF S!ProcessMessage, P!ProcessMessage
<1>16. \A h, v : S!ProcessExist(h, v) <=> P!ProcessExist(h, v)
  BY <1>2 DEF S!ProcessExist, P!ProcessExist, S!ExistReply, P!ExistReply
<1>17. \A h, v : (S!Ignore(h, v) <=> P!Ignore(h, v)) /\ (S!Terminate(h, v) <=> P!Terminate(h, v))
  BY <1>6, <1>11 DEF S!Ignore, P!Ignore, S!Terminate, P!Terminate,
         S!IsConvertibleToInt, P!IsConvertibleToInt
<1>18. \A h, v : S!OnReceive(h, v) <=> P!OnReceive(h, v)
  BY <1>7, <1>13, <1>14, <1>15, <1>16, <1>17 DEF S!OnReceive, P!OnReceive
<1>19. \A h : S!OnClose(h) <=> P!OnClose(h)
  BY <1>5, <1>9, <1>10 DEF S!OnClose, P!OnClose
<1>20. S!Request = P!Request
  BY DEF S!Request, S!SignInRequest, S!SignOutRequest, S!MessageRequest,
         S!ExistRequest, S!OtherRequest, S!IntField, S!JsonInt, S!JsonNull,
         S!JsonText, P!Request, P!SignInRequest, P!SignOutRequest,
         P!MessageRequest, P!ExistRequest, P!OtherRequest, P!IntField,
         P!JsonInt, P!JsonNull, P!JsonText
<1>21. [S!Next]_(S!vars) <=> [P!Next]_(P!vars)
  BY <1>18, <1>19, <1>20 DEF S!Next, P!Next, S!vars, P!vars
<1>22. S!Init <=> P!Init
  BY DEF S!Init, P!Init
<1> QED
  BY <1>21, <1>22, PTL DEF S!Spec, P!Spec

(* No two connections that are signed in ever hold the same id, however    *)
(* the threads interleave: GetConnectionFromID() has one answer.           *)
THEOREM RunningIdsUnique ==
  ASSUME S!ConstantsAssumption
  PROVE  SSpec => []S!UniqueIds
<1>1. S!UniqueIds <=> P!UniqueIds
  BY DEF S!UniqueIds, P!UniqueIds
<1>2. P!Spec => []P!UniqueIds
  BY P!IdsUnique
<1> QED
  BY <1>1, <1>2, HandlersRunAlone, SameHandlers, PTL

(* A sign-in does not keep m_connection_lock for ever while fewer peers    *)
(* than INT_MAX are signed in: NextID() finds an id in every state in      *)
(* which t1 may call it.                                                   *)
THEOREM RunningSearchEnds ==
  ASSUME S!ConstantsAssumption
  PROVE  SSpec => []S!NextIDEnds
<1>1. S!NextIDEnds <=> P!NextIDEnds
  BY DEF S!NextIDEnds, P!NextIDEnds, S!NextID, P!NextID, S!IsExistId, P!IsExistId, S!WrapId,
         P!WrapId, S!Id, P!Id, S!Cardinality, P!Cardinality
<1>2. P!Spec => []P!NextIDEnds
  BY P!NextIDReturns
<1> QED
  BY <1>1, <1>2, HandlersRunAlone, SameHandlers, PTL
=============================================================================
