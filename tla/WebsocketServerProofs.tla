----------------------- MODULE WebsocketServerProofs -----------------------
(***************************************************************************)
(* The safety of the threads of WebsocketServer, for every number of       *)
(* connections and messages.                                               *)
(***************************************************************************)
EXTENDS WebsocketServer, SequenceTheorems, TLAPS

-----------------------------------------------------------------------------
(* m_actions can only become non-empty while main or t3 is on its way to   *)
(* notify_one(), and a notification leaves t1 awake: NoLostWakeup is       *)
(* inductive as it stands.                                                 *)

LEMMA WakeupMain ==
  ASSUME NoLostWakeup, Callbacks \/ MainContinues \/ RunThrows
  PROVE  NoLostWakeup'
<1>1. ASSUME NEW hdl \in Conn,
             \/ on_open(hdl) \/ on_open_tls(hdl) \/ on_close(hdl)
             \/ \E text \in BOOLEAN : on_message(hdl, text)
      PROVE  NoLostWakeup'
  BY <1>1 DEF on_open, on_open_tls, on_close, on_message, Push, NoLostWakeup
<1>2. ASSUME NEW hdl \in Conn, on_pong(hdl) \/ on_pong_timeout(hdl)
      PROVE  NoLostWakeup'
  BY <1>2 DEF on_pong, on_pong_timeout, Callback, NoLostWakeup, queue, mainvars
<1>3. CASE CallbackNotifies
  BY <1>3 DEF CallbackNotifies, NotifyOne, NoLostWakeup
<1>4. CASE Listen \/ RunStopped \/ RunThrows \/ Join
  BY <1>4 DEF Listen, RunStopped, RunThrows, RunReturns, Join, NoLostWakeup, queue
<1> QED
  BY <1>1, <1>2, <1>3, <1>4 DEF Callbacks, MainContinues

LEMMA WakeupProcessMessages ==
  ASSUME NoLostWakeup, process_messages \/ SpuriousWakeup
  PROVE  NoLostWakeup'
<1>1. CASE Take
  BY <1>1 DEF Take, NoLostWakeup, queue, mainvars
<1>2. CASE Exit \/ LockForAction \/ SpuriousWakeup
  BY <1>2 DEF Exit, LockForAction, SpuriousWakeup, NoLostWakeup
<1>3. CASE Subscribe \/ TlsSubscribe \/ Unsubscribe \/ \E throws \in BOOLEAN : Message(throws)
  BY <1>3 DEF Subscribe, TlsSubscribe, Unsubscribe, Message, Branch, NoLostWakeup
<1> QED
  BY <1>1, <1>2, <1>3 DEF process_messages

LEMMA WakeupOthers ==
  ASSUME NoLostWakeup, loop_ping \/ WaitExitMessage \/ ExitSequence \/ Ended
  PROVE  NoLostWakeup'
<1>1. CASE loop_ping
  BY <1>1 DEF loop_ping, EnterWait, WaitReturns, LockForPings, Ping, PingsDone,
              NoLostWakeup, queue, mainvars
<1>2. CASE WaitExitMessage
  BY <1>2 DEF WaitExitMessage, NoLostWakeup, queue, mainvars
<1>3. CASE NotifyExit \/ Stop \/ PushExit
  BY <1>3 DEF NotifyExit, Stop, PushExit, NoLostWakeup, queue, mainvars
<1>4. CASE ExitNotifies
  BY <1>4 DEF ExitNotifies, NotifyOne, NoLostWakeup
<1>5. CASE Ended
  BY <1>5 DEF Ended, wvars, NoLostWakeup
<1> QED
  BY <1>1, <1>2, <1>3, <1>4, <1>5 DEF ExitSequence

(* process_messages() never sleeps over a non-empty queue with nobody      *)
(* about to wake it, although notify_one() is called outside the lock.     *)
THEOREM WakeupNeverLost == WSpec => []NoLostWakeup
<1>1. WInit => NoLostWakeup
  BY DEF WInit, NoLostWakeup
<1>2. NoLostWakeup /\ [WNext]_wvars => NoLostWakeup'
  <2>1. CASE UNCHANGED wvars
    BY <2>1 DEF wvars, NoLostWakeup
  <2> QED
    BY <2>1, WakeupMain, WakeupProcessMessages, WakeupOthers DEF WNext
<1> QED
  BY <1>1, <1>2, PTL DEF WSpec

-----------------------------------------------------------------------------
(* The inductive invariant.  Everything the lists are used for rests on    *)
(* the order of a connection's actions in the queue, from on_open() to     *)
(* on_close(), and on what of it t1 has carried out.                       *)

SubscribeType(hdl) == IF hdl \in PlainConn THEN "SUBSCRIBE" ELSE "TLS_SUBSCRIBE"

Subscribes(a, hdl) == a.type = SubscribeType(hdl) /\ a.hdl = hdl

Unsubscribes(a, hdl) == a.type = "UNSUBSCRIBE" /\ a.hdl = hdl

(* The i-th pending action of the sequence q: a SUBSCRIBE is the first     *)
(* action of its connection; a MESSAGE or an UNSUBSCRIBE comes after the   *)
(* SUBSCRIBE, done or pending, and not after an UNSUBSCRIBE.               *)
InOrder(q, i) ==
  LET a == q[i] IN
  a.type # "EXIT" =>
    /\ conn[a.hdl] # "new"
    /\ a.type \in {"SUBSCRIBE", "TLS_SUBSCRIBE"} =>
         /\ a.type = SubscribeType(a.hdl)
         /\ a.hdl \notin Listed
         /\ \A j \in 1 .. i - 1 : q[j].hdl # a.hdl
    /\ a.type \in {"MESSAGE", "UNSUBSCRIBE"} =>
         /\ a.hdl \in Listed \/ \E j \in 1 .. i - 1 : Subscribes(q[j], a.hdl)
         /\ \A j \in 1 .. i - 1 : ~Unsubscribes(q[j], a.hdl)
    /\ a.type = "UNSUBSCRIBE" => conn[a.hdl] = "closed"

QueueInOrder(q) == \A i \in 1 .. Len(q) : InOrder(q, i)

OwnLists == m_con_list_plain \subseteq PlainConn /\ m_con_list_tls \subseteq TlsConn

(* A connection that has opened is listed or about to be, and one that has *)
(* closed is on its way out.                                               *)
Accounted(q, hdl) ==
  LET entering == hdl \in Listed \/ \E i \in 1 .. Len(q) : Subscribes(q[i], hdl)
      leaving  == \E i \in 1 .. Len(q) : Unsubscribes(q[i], hdl)
  IN  /\ hdl \in Listed => conn[hdl] # "new"
      /\ conn[hdl] \in {"open", "closing"} => entering
      /\ conn[hdl] = "closed" /\ entering => leaving

Flow ==
  /\ QueueInOrder(Pending)
  /\ OwnLists
  /\ \A hdl \in Conn : Accounted(Pending, hdl)

(* t1 and t2 exclude each other, and what t2 still has to ping is listed.  *)
Locking ==
  /\ t1 = "locked" => m_connection_lock = "t1"
  /\ t2 = "ping" => m_connection_lock = "t2" /\ to_ping \subseteq Listed

(* A connection with a pong timer is listed until it is closed.            *)
Timers ==
  \A hdl \in armed : conn[hdl] # "closed" => hdl \in Listed

WInv == WTypeOK /\ Flow /\ Locking /\ Timers

-----------------------------------------------------------------------------
(* Type correctness.                                                       *)

LEMMA PushType ==
  ASSUME m_actions \in Seq(Action), NEW a \in Action, m_actions' = Append(m_actions, a)
  PROVE  m_actions' \in Seq(Action)
BY AppendProperties

LEMMA TypeMain ==
  ASSUME EndpointsAssumption, WTypeOK, Callbacks \/ MainContinues \/ RunThrows
  PROVE  WTypeOK'
<1>1. ASSUME NEW hdl \in Conn, NEW a \in Action, Push(a),
             conn' \in [Conn -> {"new", "open", "closing", "closed"}],
             received' \in [Conn -> 0 .. MaxMessages]
      PROVE  WTypeOK'
  <2>1. m_actions' \in Seq(Action)
    BY <1>1, PushType DEF Push, WTypeOK
  <2> QED
    BY <1>1, <2>1 DEF Push, WTypeOK, lists
<1>2. ASSUME NEW hdl \in Conn,
             on_open(hdl) \/ on_open_tls(hdl) \/ on_close(hdl)
      PROVE  WTypeOK'
  <2>1. \A type \in ClientAction : action(type, hdl) \in Action
    BY DEF action, Action, ClientAction
  <2>2. conn' \in [Conn -> {"new", "open", "closing", "closed"}] /\ UNCHANGED received
    BY <1>2 DEF on_open, on_open_tls, on_close, WTypeOK
  <2>3. \E a \in Action : Push(a)
    BY <1>2, <2>1 DEF on_open, on_open_tls, on_close, ClientAction
  <2> QED
    BY <1>1, <2>2, <2>3 DEF WTypeOK
<1>3. ASSUME NEW hdl \in Conn, NEW text \in BOOLEAN, on_message(hdl, text)
      PROVE  WTypeOK'
  <2>1. [type |-> "MESSAGE", hdl |-> hdl, text |-> text] \in Action
    BY DEF Action, ClientAction
  <2>2. received' \in [Conn -> 0 .. MaxMessages] /\ UNCHANGED conn
    BY <1>3 DEF on_message, WTypeOK, EndpointsAssumption
  <2> QED
    BY <1>1, <1>3, <2>1, <2>2 DEF on_message, WTypeOK
<1>4. ASSUME NEW hdl \in Conn, on_pong(hdl)
      PROVE  WTypeOK'
  BY <1>4 DEF on_pong, WTypeOK, mainvars, queue, lists
<1>5. ASSUME NEW hdl \in Conn, on_pong_timeout(hdl)
      PROVE  WTypeOK'
  <2>1. conn' \in [Conn -> {"new", "open", "closing", "closed"}]
    BY <1>5 DEF on_pong_timeout, WTypeOK
  <2>2. main' \in {main, "aborted"}
    BY <1>5 DEF on_pong_timeout
  <2> QED
    BY <1>5, <2>1, <2>2 DEF on_pong_timeout, WTypeOK, queue, lists
<1>6. CASE CallbackNotifies
  BY <1>6 DEF CallbackNotifies, NotifyOne, WTypeOK, queue, lists, net
<1>7. CASE Listen \/ RunStopped \/ RunThrows
  BY <1>7 DEF Listen, RunStopped, RunThrows, RunReturns, WTypeOK, queue, lists, net
<1>8. CASE Join
  BY <1>8 DEF Join, WTypeOK, queue, lists, net
<1> QED
  BY <1>2, <1>3, <1>4, <1>5, <1>6, <1>7, <1>8 DEF Callbacks, MainContinues

LEMMA TypeProcessMessages ==
  ASSUME WTypeOK, process_messages \/ SpuriousWakeup
  PROVE  WTypeOK'
<1>1. CASE Take
  <2>1. CASE m_actions = <<>>
    BY <1>1, <2>1 DEF Take, WTypeOK, queue, mainvars, lists, net
  <2>2. CASE m_actions # <<>>
    <3>1. Head(m_actions) \in Action /\ Tail(m_actions) \in Seq(Action)
      BY <2>2, HeadTailProperties DEF WTypeOK
    <3> QED
      BY <1>1, <2>2, <3>1 DEF Take, WTypeOK, mainvars, lists, net
  <2> QED
    BY <2>1, <2>2
<1>2. CASE Exit \/ LockForAction \/ SpuriousWakeup
  BY <1>2 DEF Exit, LockForAction, SpuriousWakeup, WTypeOK, queue, mainvars, lists, net
<1>3. ASSUME NEW type, Branch(type), main' \in {main, "aborted"},
             m_con_list_plain' \subseteq Conn, m_con_list_tls' \subseteq Conn
      PROVE  WTypeOK'
  BY <1>3 DEF Branch, WTypeOK, net
<1>4. act # <<>> /\ act[1].type # "EXIT" => act[1].hdl \in Conn
  <2>1. \A a \in Action : a.type # "EXIT" => a.hdl \in Conn
    BY DEF Action
  <2>2. act # <<>> => act[1] \in Action
    BY DEF WTypeOK
  <2> QED
    BY <2>1, <2>2
<1>5. CASE Subscribe
  <2>1. act # <<>> /\ act[1].type # "EXIT"
    BY <1>5 DEF Subscribe, Branch, WTypeOK
  <2> QED
    BY <1>3, <1>4, <1>5, <2>1 DEF Subscribe, WTypeOK
<1>6. CASE TlsSubscribe
  <2>1. act # <<>> /\ act[1].type # "EXIT"
    BY <1>6 DEF TlsSubscribe, Branch, WTypeOK
  <2> QED
    BY <1>3, <1>4, <1>6, <2>1 DEF TlsSubscribe, WTypeOK
<1>7. CASE Unsubscribe
  BY <1>3, <1>7 DEF Unsubscribe, WTypeOK
<1>8. ASSUME NEW throws \in BOOLEAN, Message(throws)
      PROVE  WTypeOK'
  BY <1>3, <1>8 DEF Message, WTypeOK, lists
<1> QED
  BY <1>1, <1>2, <1>5, <1>6, <1>7, <1>8 DEF process_messages

LEMMA TypeOthers ==
  ASSUME EndpointsAssumption, WTypeOK, loop_ping \/ WaitExitMessage \/ ExitSequence \/ Ended
  PROVE  WTypeOK'
<1>1. CASE EnterWait
  BY <1>1 DEF EnterWait, WTypeOK, queue, mainvars, lists, net
<1>8. CASE WaitReturns
  BY <1>8 DEF WaitReturns, WTypeOK, queue, mainvars, lists, net
<1>9. CASE PingsDone
  BY <1>9 DEF PingsDone, WTypeOK, queue, mainvars, lists, net
<1>2. CASE LockForPings
  BY <1>2 DEF LockForPings, Listed, WTypeOK, queue, mainvars, lists, net
<1>3. ASSUME NEW hdl \in Conn, Ping(hdl) PROVE WTypeOK'
  BY <1>3 DEF Ping, WTypeOK, queue, mainvars, lists
<1>4. CASE WaitExitMessage
  BY <1>4 DEF WaitExitMessage, WTypeOK, queue, mainvars, lists, net
<1>10. CASE NotifyExit
  BY <1>10 DEF NotifyExit, WTypeOK, queue, mainvars, lists, net
<1>11. CASE Stop
  BY <1>11 DEF Stop, WTypeOK, queue, lists, net
<1>5. CASE PushExit
  <2>1. action("EXIT", NoHdl) \in Action
    BY DEF action, Action
  <2>2. m_actions' \in Seq(Action)
    BY <1>5, <2>1, PushType DEF PushExit, WTypeOK
  <2> QED
    BY <1>5, <2>2 DEF PushExit, WTypeOK, mainvars, lists, net
<1>6. CASE ExitNotifies
  BY <1>6 DEF ExitNotifies, NotifyOne, WTypeOK, queue, mainvars, lists, net
<1>7. CASE Ended
  BY <1>7 DEF Ended, wvars, WTypeOK
<1> QED
  BY <1>1, <1>2, <1>3, <1>4, <1>5, <1>6, <1>7, <1>8, <1>9, <1>10, <1>11
     DEF loop_ping, ExitSequence
-----------------------------------------------------------------------------
(* How the pending actions change: not at all while t1 takes one, at the   *)
(* end when a thread pushes, at the front when t1 has carried one out.     *)

LEMMA ActType ==
  ASSUME WTypeOK
  PROVE  act \in Seq(Action) /\ m_actions \in Seq(Action)
<1>1. act = <<>> \/ \E a \in Action : act = <<a>>
  BY DEF WTypeOK
<1>2. CASE act = <<>>
  BY <1>2, EmptySeq DEF WTypeOK
<1>3. ASSUME NEW a \in Action, act = <<a>>
      PROVE  act \in Seq(Action)
  BY <1>3
<1> QED
  BY <1>1, <1>2, <1>3 DEF WTypeOK

LEMMA PendingType ==
  ASSUME WTypeOK
  PROVE  Pending \in Seq(Action) /\ Len(Pending) \in Nat
<1>1. act \in Seq(Action) /\ m_actions \in Seq(Action)
  BY ActType
<1>2. Pending \in Seq(Action)
  BY <1>1, ConcatProperties DEF Pending
<1> QED
  BY <1>2, LenProperties

LEMMA ClientActionHdl ==
  ASSUME NEW a \in Action
  PROVE  IF a.type = "EXIT" THEN a.hdl = NoHdl ELSE a.hdl \in Conn /\ a.type \in ClientAction
BY DEF Action, ClientAction

LEMMA HeadThenTail ==
  ASSUME NEW E, NEW s \in Seq(E), s # <<>>
  PROVE  <<Head(s)>> \o Tail(s) = s
<1>1. /\ Len(s) \in Nat /\ Len(s) > 0
      /\ Head(s) = s[1] /\ Head(s) \in E
      /\ Tail(s) \in Seq(E) /\ Len(Tail(s)) = Len(s) - 1
      /\ \A i \in 1 .. Len(Tail(s)) : Tail(s)[i] = s[i + 1]
  BY HeadTailProperties
<1>2. <<Head(s)>> \in Seq(E) /\ Len(<<Head(s)>>) = 1 /\ <<Head(s)>>[1] = s[1]
  BY <1>1
<1>3. <<Head(s)>> \o Tail(s) \in Seq(E) /\ Len(<<Head(s)>> \o Tail(s)) = Len(s)
  BY <1>1, <1>2, ConcatProperties
<1>4. \A i \in 1 .. Len(s) : (<<Head(s)>> \o Tail(s))[i] = s[i]
  BY <1>1, <1>2, ConcatProperties
<1> QED
  BY <1>3, <1>4, SeqEqual

LEMMA PendingTake ==
  ASSUME WTypeOK, Take
  PROVE  Pending' = Pending
<1>1. CASE m_actions = <<>>
  BY <1>1 DEF Take, queue, Pending
<1>2. CASE m_actions # <<>>
  <2>1. act = <<>> /\ m_actions \in Seq(Action)
    BY DEF Take, WTypeOK
  <2>2. act' = <<Head(m_actions)>> /\ m_actions' = Tail(m_actions)
    BY <1>2 DEF Take
  <2>3. Pending' = m_actions
    BY <1>2, <2>1, <2>2, HeadThenTail DEF Pending
  <2>4. Pending = m_actions
    BY <2>1, ConcatEmptySeq DEF Pending
  <2> QED
    BY <2>3, <2>4
<1> QED
  BY <1>1, <1>2

LEMMA PendingPush ==
  ASSUME WTypeOK, NEW a \in Action, m_actions' = Append(m_actions, a), act' = act
  PROVE  /\ Len(Pending') = Len(Pending) + 1
         /\ Pending'[Len(Pending) + 1] = a
         /\ \A i \in 1 .. Len(Pending) : Pending'[i] = Pending[i]
<1>1. act \in Seq(Action) /\ m_actions \in Seq(Action)
  BY ActType
<1>2. Pending' = Append(Pending, a)
  BY <1>1 DEF Pending
<1> QED
  BY <1>2, PendingType, AppendProperties

LEMMA PendingPop ==
  ASSUME WTypeOK, NEW type, Branch(type)
  PROVE  /\ Len(Pending) = Len(Pending') + 1
         /\ Pending[1] = act[1]
         /\ act[1] \in Action
         /\ act[1].type = type
         /\ \A i \in 1 .. Len(Pending') : Pending'[i] = Pending[i + 1]
<1>1. PICK a \in Action : act = <<a>>
  BY DEF WTypeOK, Branch
<1>2. act' = <<>> /\ m_actions' = m_actions /\ m_actions \in Seq(Action)
  BY DEF Branch, WTypeOK
<1>3. Pending' = m_actions
  BY <1>2, ConcatEmptySeq DEF Pending
<1>4. Pending = <<a>> \o m_actions
  BY <1>1 DEF Pending
<1> QED
  BY <1>1, <1>2, <1>3, <1>4 DEF Branch

-----------------------------------------------------------------------------
(* Flow is preserved by everything that happens to the pending actions.    *)

LEMMA FlowSame ==
  ASSUME WTypeOK, Flow, Pending' = Pending, UNCHANGED lists,
         \A hdl \in Conn :
           \/ conn'[hdl] = conn[hdl]
           \/ conn[hdl] = "open" /\ conn'[hdl] = "closing"
  PROVE  Flow'
<1>1. UNCHANGED Listed /\ OwnLists'
  BY DEF Flow, lists, Listed, OwnLists
<1>2. QueueInOrder(Pending)'
  <2> SUFFICES ASSUME NEW i \in 1 .. Len(Pending) PROVE InOrder(Pending, i)'
    BY DEF QueueInOrder
  <2>1. InOrder(Pending, i)
    BY DEF Flow, QueueInOrder
  <2>2. Pending[i].type # "EXIT" => Pending[i].hdl \in Conn
    BY PendingType, ElementOfSeq, ClientActionHdl
  <2> QED
    BY <1>1, <2>1, <2>2 DEF InOrder
<1>3. \A hdl \in Conn : Accounted(Pending, hdl)'
  BY <1>1 DEF Flow, Accounted
<1> QED
  BY <1>1, <1>2, <1>3 DEF Flow

(* A push for connection a.hdl: it opens, it has sent something, or it     *)
(* closes; or the push of EXIT.                                            *)
Pushed(a) ==
  /\ \A hdl \in Conn \ {a.hdl} : conn'[hdl] = conn[hdl]
  /\ \/ a.type = "EXIT"
     \/ /\ a.type = SubscribeType(a.hdl)
        /\ conn[a.hdl] = "new" /\ conn'[a.hdl] = "open"
     \/ /\ a.type = "MESSAGE"
        /\ conn[a.hdl] = "open" /\ conn'[a.hdl] = "open"
     \/ /\ a.type = "UNSUBSCRIBE"
        /\ conn[a.hdl] \in {"open", "closing"} /\ conn'[a.hdl] = "closed"

LEMMA FlowPush ==
  ASSUME EndpointsAssumption, WTypeOK, Flow, UNCHANGED lists, NEW a \in Action,
         m_actions' = Append(m_actions, a), act' = act, Pushed(a)
  PROVE  Flow'
<1>0. PICK n \in Nat : n = Len(Pending) /\ \A i \in 1 .. n : Pending[i] \in Action
  BY PendingType, ElementOfSeq
<1>1. UNCHANGED Listed /\ OwnLists'
  BY DEF Flow, lists, Listed, OwnLists
<1>2. /\ Len(Pending') = n + 1
      /\ Pending'[n + 1] = a
      /\ \A i \in 1 .. n : Pending'[i] = Pending[i]
  BY <1>0, PendingPush
<1>3. \A i \in 1 .. n : InOrder(Pending, i)
  BY <1>0 DEF Flow, QueueInOrder
<1>4. \A hdl \in Conn : Accounted(Pending, hdl)
  BY DEF Flow
<1>5. IF a.type = "EXIT" THEN a.hdl = NoHdl ELSE a.hdl \in Conn
  BY ClientActionHdl
<1>6. \A i \in 1 .. n : Pending[i].type # "EXIT" => Pending[i].hdl \in Conn
  BY <1>0, ClientActionHdl
<1>7. \A i \in 1 .. n : Pending[i].type = "EXIT" => Pending[i].hdl = NoHdl
  BY <1>0, ClientActionHdl
<1> DEFINE Kept(hdl) ==
      /\ conn[hdl] # "new" => conn'[hdl] # "new"
      /\ conn[hdl] = "closed" => conn'[hdl] = "closed"
<1>12. \A hdl \in Conn : Kept(hdl)
  <2> SUFFICES ASSUME NEW hdl \in Conn PROVE Kept(hdl)
    OBVIOUS
  <2>1. CASE hdl = a.hdl
    <3>1. a.type # "EXIT"
      BY <1>5, <2>1 DEF EndpointsAssumption
    <3> QED
      BY <2>1, <3>1 DEF Pushed
  <2>2. CASE hdl # a.hdl
    BY <2>2 DEF Pushed
  <2> QED
    BY <2>1, <2>2
<1> HIDE DEF Kept
<1>8. ASSUME NEW i \in 1 .. n PROVE InOrder(Pending, i)'
  <2>1. InOrder(Pending, i)
    BY <1>3
  <2>2. Pending'[i] = Pending[i] /\ \A j \in 1 .. i - 1 : Pending'[j] = Pending[j]
    BY <1>0, <1>2
  <2>3. Pending[i].type # "EXIT" => Kept(Pending[i].hdl)
    BY <1>6, <1>12
  <2> QED
    BY <1>1, <2>1, <2>2, <2>3 DEF InOrder, Subscribes, Unsubscribes, Kept
<1>9. InOrder(Pending, n + 1)'
  <2>1. CASE a.type = "EXIT"
    BY <1>2, <2>1 DEF InOrder
  <2>2. CASE a.type = SubscribeType(a.hdl) /\ conn[a.hdl] = "new" /\ conn'[a.hdl] = "open"
    <3>1. a.hdl \in Conn /\ a.hdl # NoHdl
      BY <1>5, <2>2 DEF SubscribeType, EndpointsAssumption
    <3>2. a.hdl \notin Listed
      BY <1>4, <2>2, <3>1 DEF Accounted
    <3>3. \A j \in 1 .. n : Pending[j].hdl # a.hdl
      BY <1>3, <1>7, <2>2, <3>1 DEF InOrder
    <3> QED
      BY <1>0, <1>1, <1>2, <2>2, <3>2, <3>3 DEF InOrder, SubscribeType
  <2>3. CASE a.type \in {"MESSAGE", "UNSUBSCRIBE"} /\ conn[a.hdl] \in {"open", "closing"}
    <3>1. a.hdl \in Conn
      BY <1>5, <2>3
    <3>2. a.hdl \in Listed \/ \E j \in 1 .. n : Subscribes(Pending[j], a.hdl)
      BY <1>0, <1>4, <2>3, <3>1 DEF Accounted
    <3>3. \A j \in 1 .. n : ~Unsubscribes(Pending[j], a.hdl)
      BY <1>3, <2>3 DEF InOrder, Unsubscribes
    <3>4. conn'[a.hdl] # "new" /\ (a.type = "UNSUBSCRIBE" => conn'[a.hdl] = "closed")
      BY <2>3 DEF Pushed, SubscribeType
    <3> QED
      BY <1>0, <1>1, <1>2, <2>3, <3>2, <3>3, <3>4 DEF InOrder, Subscribes, Unsubscribes
  <2> QED
    BY <2>1, <2>2, <2>3 DEF Pushed
<1>10. ASSUME NEW hdl \in Conn PROVE Accounted(Pending, hdl)'
  <2>1. Accounted(Pending, hdl)
    BY <1>4
  <2>2. \A i \in 1 .. n : i \in 1 .. n + 1
    BY <1>0
  <2>3. n + 1 \in 1 .. n + 1
    BY <1>0
  <2>4. CASE hdl = a.hdl
    <3>1. a.type # "EXIT"
      BY <1>5, <2>4 DEF EndpointsAssumption
    <3> QED
      BY <1>0, <1>1, <1>2, <2>1, <2>2, <2>3, <2>4, <3>1
         DEF Accounted, Pushed, Subscribes, Unsubscribes
  <2>5. CASE hdl # a.hdl
    <3>1. conn'[hdl] = conn[hdl]
      BY <2>5 DEF Pushed
    <3> QED
      BY <1>0, <1>1, <1>2, <2>1, <2>2, <2>5, <3>1 DEF Accounted, Subscribes, Unsubscribes
  <2> QED
    BY <2>4, <2>5
<1>11. QueueInOrder(Pending)'
  BY <1>0, <1>2, <1>8, <1>9 DEF QueueInOrder
<1> QED
  BY <1>1, <1>10, <1>11 DEF Flow

(* t1 has carried out a, the first pending action.                         *)
CarriedOut(a) ==
  \/ Subscribes(a, a.hdl) /\ Listed' = Listed \cup {a.hdl}
  \/ a.type = "UNSUBSCRIBE" /\ Listed' = Listed \ {a.hdl}
  \/ a.type = "MESSAGE" /\ Listed' = Listed

LEMMA FlowPop ==
  ASSUME WTypeOK, Flow, NEW type, Branch(type), CarriedOut(act[1]), OwnLists'
  PROVE  Flow'
<1>0. PICK n \in Nat : n + 1 = Len(Pending)
  <2>1. Len(Pending) \in Nat /\ Len(Pending) # 0
    <3>1. act # <<>> /\ act \in Seq(Action) /\ m_actions \in Seq(Action)
      BY ActType DEF Branch, WTypeOK
    <3> QED
      BY <3>1, PendingType DEF Pending
  <2>2. Len(Pending) - 1 \in Nat /\ (Len(Pending) - 1) + 1 = Len(Pending)
    BY <2>1
  <2> QED
    BY <2>2
<1>1. PICK a \in Action :
        /\ a = act[1]
        /\ Pending[1] = a
        /\ Len(Pending') = n
        /\ \A i \in 1 .. n : Pending'[i] = Pending[i + 1]
  <2>1. /\ Len(Pending) = Len(Pending') + 1
        /\ Pending[1] = act[1]
        /\ act[1] \in Action
        /\ \A i \in 1 .. Len(Pending') : Pending'[i] = Pending[i + 1]
    BY PendingPop
  <2>2. Len(Pending') \in Nat
    <3>1. act' = <<>> /\ m_actions' = m_actions /\ m_actions \in Seq(Action)
      BY DEF Branch, WTypeOK
    <3> QED
      BY <3>1 DEF Pending
  <2>3. Len(Pending') = n
    BY <1>0, <2>1, <2>2
  <2> QED
    BY <2>1, <2>3
<1>2. UNCHANGED conn
  BY DEF Branch, net
<1>3. \A i \in 1 .. n + 1 : InOrder(Pending, i)
  BY <1>0 DEF Flow, QueueInOrder
<1>4. \A hdl \in Conn : Accounted(Pending, hdl)
  BY DEF Flow
<1>5. CarriedOut(a)
  BY <1>1
<1>6. ASSUME NEW i \in 1 .. n PROVE InOrder(Pending, i)'
  <2> DEFINE b == Pending[i + 1]
  <2>1. InOrder(Pending, i + 1) /\ Pending'[i] = b /\ i + 1 \in 1 .. n + 1
    BY <1>1, <1>3
  <2>2. \A j \in 1 .. i - 1 : Pending'[j] = Pending[j + 1] /\ j + 1 \in 1 .. i
    BY <1>1
  <2>3. \A j \in 1 .. i : j = 1 \/ (j - 1 \in 1 .. i - 1 /\ Pending'[j - 1] = Pending[j])
    BY <1>1
  <2>4. 1 \in 1 .. i
    OBVIOUS
  <2>5. CASE b.type = "EXIT"
    BY <2>1, <2>5 DEF InOrder
  <2>6. CASE b.type \in {"SUBSCRIBE", "TLS_SUBSCRIBE"}
    <3>1. /\ conn[b.hdl] # "new" /\ b.type = SubscribeType(b.hdl) /\ b.hdl \notin Listed
          /\ \A j \in 1 .. i : Pending[j].hdl # b.hdl
      BY <2>1, <2>6 DEF InOrder
    <3>2. b.hdl \notin Listed'
      BY <1>1, <1>5, <2>4, <3>1 DEF CarriedOut
    <3>3. \A j \in 1 .. i - 1 : Pending'[j].hdl # b.hdl
      BY <2>2, <3>1
    <3> HIDE DEF b
    <3> QED
      BY <1>2, <2>1, <2>6, <3>1, <3>2, <3>3 DEF InOrder
  <2>7. CASE b.type \in {"MESSAGE", "UNSUBSCRIBE"}
    <3>1. /\ conn[b.hdl] # "new"
          /\ b.hdl \in Listed \/ \E j \in 1 .. i : Subscribes(Pending[j], b.hdl)
          /\ \A j \in 1 .. i : ~Unsubscribes(Pending[j], b.hdl)
          /\ b.type = "UNSUBSCRIBE" => conn[b.hdl] = "closed"
      BY <2>1, <2>7 DEF InOrder
    <3>2. ~Unsubscribes(a, b.hdl)
      BY <1>1, <2>4, <3>1
    <3>3. b.hdl \in Listed => b.hdl \in Listed'
      BY <1>5, <3>2 DEF CarriedOut, Unsubscribes
    <3>4. Subscribes(a, b.hdl) => b.hdl \in Listed'
      BY <1>5 DEF CarriedOut, Subscribes, SubscribeType
    <3>5. b.hdl \in Listed' \/ \E j \in 1 .. i - 1 : Subscribes(Pending'[j], b.hdl)
      BY <1>1, <2>3, <3>1, <3>3, <3>4
    <3>6. \A j \in 1 .. i - 1 : ~Unsubscribes(Pending'[j], b.hdl)
      BY <2>2, <3>1
    <3> HIDE DEF b
    <3> QED
      BY <1>2, <2>1, <2>7, <3>1, <3>5, <3>6 DEF InOrder, Subscribes, Unsubscribes
  <2>8. b \in Action
    BY <1>0, <2>1, PendingType, ElementOfSeq
  <2> QED
    BY <2>5, <2>6, <2>7, <2>8, ClientActionHdl DEF ClientAction
<1>7. ASSUME NEW hdl \in Conn PROVE Accounted(Pending, hdl)'
  <2>1. Accounted(Pending, hdl)
    BY <1>4
  <2>2. \A i \in 1 .. n + 1 : i = 1 \/ (i - 1 \in 1 .. n /\ Pending'[i - 1] = Pending[i])
    BY <1>1
  <2>3. \A i \in 1 .. n : i + 1 \in 1 .. n + 1 /\ Pending'[i] = Pending[i + 1]
    BY <1>1
  <2>4. InOrder(Pending, 1) /\ 1 \in 1 .. n + 1
    BY <1>3
  <2>5. hdl \in Listed' => hdl \in Listed \/ Subscribes(Pending[1], hdl)
    BY <1>1, <1>5 DEF CarriedOut, Subscribes
  <2>6. hdl \in Listed' => conn'[hdl] # "new"
    BY <1>2, <2>1, <2>4, <2>5 DEF Accounted, InOrder, Subscribes, SubscribeType
  <2>7. ASSUME conn'[hdl] \in {"open", "closing"}
        PROVE  hdl \in Listed' \/ \E i \in 1 .. n : Subscribes(Pending'[i], hdl)
    <3>1. hdl \in Listed \/ \E i \in 1 .. n + 1 : Subscribes(Pending[i], hdl)
      BY <1>0, <1>2, <2>1, <2>7 DEF Accounted
    <3>2. ~Unsubscribes(a, hdl)
      BY <1>1, <1>2, <2>4, <2>7 DEF InOrder, Unsubscribes
    <3>3. (hdl \in Listed \/ Subscribes(a, hdl)) => hdl \in Listed'
      BY <1>5, <3>2 DEF CarriedOut, Subscribes, Unsubscribes, SubscribeType
    <3> QED
      BY <1>1, <2>2, <3>1, <3>3
  <2>8. ASSUME conn'[hdl] = "closed",
               hdl \in Listed' \/ \E i \in 1 .. n : Subscribes(Pending'[i], hdl)
        PROVE  \E i \in 1 .. n : Unsubscribes(Pending'[i], hdl)
    <3>1. hdl \in Listed \/ \E i \in 1 .. n + 1 : Subscribes(Pending[i], hdl)
      BY <2>3, <2>4, <2>5, <2>8
    <3>2. PICK i \in 1 .. n + 1 : Unsubscribes(Pending[i], hdl)
      BY <1>0, <1>2, <2>1, <2>8, <3>1 DEF Accounted
    <3>3. ~Unsubscribes(Pending[1], hdl)
      <4>1. SUFFICES ASSUME Unsubscribes(Pending[1], hdl) PROVE FALSE
        OBVIOUS
      <4>2. hdl \notin Listed'
        BY <1>1, <1>5, <4>1 DEF CarriedOut, Unsubscribes, Subscribes, SubscribeType
      <4>3. PICK k \in 1 .. n : Subscribes(Pending[k + 1], hdl)
        BY <2>3, <2>8, <4>2
      <4>4. InOrder(Pending, k + 1) /\ 1 \in 1 .. (k + 1) - 1
        BY <1>3, <2>3
      <4> QED
        BY <4>1, <4>3, <4>4 DEF InOrder, Subscribes, Unsubscribes, SubscribeType
    <3> QED
      BY <2>2, <3>2, <3>3
  <2> QED
    BY <1>1, <2>6, <2>7, <2>8 DEF Accounted
<1>8. QueueInOrder(Pending)'
  BY <1>1, <1>6 DEF QueueInOrder
<1> QED
  BY <1>7, <1>8 DEF Flow

-----------------------------------------------------------------------------
(* Every step preserves the invariant.                                     *)

LEMMA FlowMain ==
  ASSUME EndpointsAssumption, WTypeOK, Flow, Callbacks \/ MainContinues \/ RunThrows
  PROVE  Flow'
<1>1. ASSUME NEW hdl \in Conn, NEW type \in ClientAction, NEW text \in BOOLEAN,
             NEW a, a = [type |-> type, hdl |-> hdl, text |-> text],
             Push(a), Pushed(a)
      PROVE  Flow'
  <2>1. a \in Action
    BY <1>1 DEF Action
  <2>2. UNCHANGED lists /\ act' = act /\ m_actions' = Append(m_actions, a)
    BY <1>1 DEF Push
  <2> QED
    BY <1>1, <2>1, <2>2, FlowPush
<1>2. ASSUME NEW hdl \in Conn, on_open(hdl) \/ on_open_tls(hdl) PROVE Flow'
  <2>1. /\ Push(action(SubscribeType(hdl), hdl))
        /\ conn[hdl] = "new"
        /\ conn' = [conn EXCEPT ![hdl] = "open"]
    BY <1>2 DEF on_open, on_open_tls, SubscribeType, EndpointsAssumption
  <2>2. Pushed(action(SubscribeType(hdl), hdl))
    BY <2>1 DEF Pushed, action, WTypeOK
  <2>3. SubscribeType(hdl) \in ClientAction
    BY DEF SubscribeType, ClientAction
  <2> QED
    BY <1>1, <2>1, <2>2, <2>3 DEF action
<1>3. ASSUME NEW hdl \in Conn, NEW text \in BOOLEAN, on_message(hdl, text) PROVE Flow'
  <2>1. Pushed([type |-> "MESSAGE", hdl |-> hdl, text |-> text])
    BY <1>3 DEF on_message, Pushed
  <2> QED
    BY <1>1, <1>3, <2>1 DEF on_message, ClientAction
<1>4. ASSUME NEW hdl \in Conn, on_close(hdl) PROVE Flow'
  <2>1. Pushed(action("UNSUBSCRIBE", hdl))
    BY <1>4 DEF on_close, Pushed, action, WTypeOK
  <2> QED
    BY <1>1, <1>4, <2>1 DEF on_close, action, ClientAction
<1>5. ASSUME NEW hdl \in Conn, on_pong_timeout(hdl) PROVE Flow'
  <2>1. UNCHANGED lists /\ Pending' = Pending
    BY <1>5 DEF on_pong_timeout, queue, Pending
  <2>2. \A c \in Conn :
          \/ conn'[c] = conn[c]
          \/ conn[c] = "open" /\ conn'[c] = "closing"
    BY <1>5 DEF on_pong_timeout, WTypeOK
  <2> QED
    BY <2>1, <2>2, FlowSame
<1>6. ASSUME UNCHANGED <<queue, lists, conn>> PROVE Flow'
  BY <1>6, FlowSame DEF queue, Pending
<1>7. CASE \E hdl \in Conn : on_pong(hdl)
  BY <1>6, <1>7 DEF on_pong
<1>8. CASE MainContinues \/ RunThrows
  BY <1>6, <1>8 DEF MainContinues, Listen, CallbackNotifies, RunStopped, RunThrows, RunReturns,
                    Join, net
<1> QED
  BY <1>2, <1>3, <1>4, <1>5, <1>7, <1>8 DEF Callbacks

LEMMA FlowProcessMessages ==
  ASSUME WTypeOK, Flow, process_messages \/ SpuriousWakeup
  PROVE  Flow'
<1>1. CASE Take
  BY <1>1, PendingTake, FlowSame DEF Take, net
<1>2. CASE Exit \/ LockForAction \/ SpuriousWakeup
  <2>1. UNCHANGED <<queue, lists, conn>>
    BY <1>2 DEF Exit, LockForAction, SpuriousWakeup, net
  <2> QED
    BY <2>1, FlowSame DEF queue, Pending
<1>3. ASSUME NEW type, Branch(type), type # "EXIT"
      PROVE  /\ act[1] \in Action /\ act[1].type = type
             /\ type \in {"SUBSCRIBE", "TLS_SUBSCRIBE"} => type = SubscribeType(act[1].hdl)
  <2>1. act[1] \in Action /\ act[1].type = type /\ Pending[1] = act[1]
    BY <1>3, PendingPop
  <2>2. 1 \in 1 .. Len(Pending)
    BY <1>3, ActType DEF Branch, WTypeOK, Pending
  <2>3. InOrder(Pending, 1)
    BY <2>2 DEF Flow, QueueInOrder
  <2> QED
    BY <1>3, <2>1, <2>3 DEF InOrder
<1>4. CASE Subscribe
  <2>1. Branch("SUBSCRIBE") /\ act[1].type = "SUBSCRIBE" /\ act[1].hdl \in PlainConn
    BY <1>3, <1>4 DEF Subscribe, SubscribeType
  <2>2. CarriedOut(act[1]) /\ OwnLists'
    BY <1>4, <2>1 DEF Subscribe, CarriedOut, Subscribes, SubscribeType, Listed, OwnLists, Flow
  <2> QED
    BY <2>1, <2>2, FlowPop
<1>5. CASE TlsSubscribe
  <2>1. Branch("TLS_SUBSCRIBE") /\ act[1] \in Action /\ act[1].type = "TLS_SUBSCRIBE"
        /\ act[1].hdl \notin PlainConn
    BY <1>3, <1>5 DEF TlsSubscribe, SubscribeType
  <2>2. act[1].hdl \in TlsConn
    BY <2>1, ClientActionHdl DEF Conn
  <2>3. CarriedOut(act[1]) /\ OwnLists'
    BY <1>5, <2>1, <2>2
       DEF TlsSubscribe, CarriedOut, Subscribes, SubscribeType, Listed, OwnLists, Flow
  <2> QED
    BY <2>1, <2>3, FlowPop
<1>6. CASE Unsubscribe
  <2>1. CarriedOut(act[1]) /\ OwnLists'
    BY <1>6 DEF Unsubscribe, Branch, CarriedOut, Listed, OwnLists, Flow
  <2> QED
    BY <1>6, <2>1, FlowPop DEF Unsubscribe
<1>7. ASSUME NEW throws \in BOOLEAN, Message(throws) PROVE Flow'
  <2>1. CarriedOut(act[1]) /\ OwnLists'
    BY <1>7 DEF Message, Branch, CarriedOut, Listed, OwnLists, Flow, lists
  <2> QED
    BY <1>7, <2>1, FlowPop DEF Message
<1> QED
  BY <1>1, <1>2, <1>4, <1>5, <1>6, <1>7 DEF process_messages

LEMMA FlowOthers ==
  ASSUME EndpointsAssumption, WTypeOK, Flow,
         loop_ping \/ WaitExitMessage \/ ExitSequence \/ Ended
  PROVE  Flow'
<1>1. ASSUME UNCHANGED <<queue, lists, conn>> PROVE Flow'
  BY <1>1, FlowSame DEF queue, Pending
<1>2. CASE loop_ping
  BY <1>1, <1>2 DEF loop_ping, EnterWait, WaitReturns, LockForPings, Ping, PingsDone, net
<1>3. CASE WaitExitMessage \/ NotifyExit \/ Stop \/ ExitNotifies
  BY <1>1, <1>3 DEF WaitExitMessage, NotifyExit, Stop, ExitNotifies, net
<1>4. CASE PushExit
  <2>1. action("EXIT", NoHdl) \in Action
    BY DEF action, Action
  <2>2. UNCHANGED <<lists, act, conn>> /\ m_actions' = Append(m_actions, action("EXIT", NoHdl))
    BY <1>4 DEF PushExit, net
  <2>3. Pushed(action("EXIT", NoHdl))
    BY <2>2 DEF Pushed, action
  <2> QED
    BY <2>1, <2>2, <2>3, FlowPush
<1>5. CASE Ended
  BY <1>1, <1>5 DEF Ended, wvars, queue, lists
<1> QED
  BY <1>2, <1>3, <1>4, <1>5 DEF ExitSequence

LEMMA LockingStep ==
  ASSUME WTypeOK, Locking, WNext
  PROVE  Locking'
<1>1. ASSUME UNCHANGED <<t2, lists, m_connection_lock, to_ping>>, t1' = "locked" => t1 = "locked"
      PROVE  Locking'
  BY <1>1 DEF Locking, Listed, lists
<1>2. CASE Callbacks
  BY <1>1, <1>2 DEF Callbacks, on_open, on_open_tls, on_close, on_message, on_pong, on_pong_timeout, Push
<1>3. CASE MainContinues \/ RunThrows \/ SpuriousWakeup \/ Ended
  BY <1>1, <1>3 DEF MainContinues, Listen, CallbackNotifies, NotifyOne, RunStopped, RunThrows,
                    RunReturns, Join, SpuriousWakeup, Ended, wvars, lists
<1>4. CASE Take \/ Exit
  BY <1>1, <1>4 DEF Take, Exit
<1>5. CASE LockForAction
  BY <1>5 DEF LockForAction, Locking, Listed, lists
<1>6. ASSUME NEW type, Branch(type) PROVE Locking'
  BY <1>6 DEF Branch, Locking
<1>7. CASE Subscribe \/ TlsSubscribe \/ Unsubscribe \/ \E throws \in BOOLEAN : Message(throws)
  BY <1>6, <1>7 DEF Subscribe, TlsSubscribe, Unsubscribe, Message
<1>8. CASE EnterWait \/ WaitReturns
  BY <1>8 DEF EnterWait, WaitReturns, Locking
<1>9. CASE LockForPings
  BY <1>9 DEF LockForPings, Locking, Listed, lists
<1>10. CASE \E hdl \in Conn : Ping(hdl)
  BY <1>10 DEF Ping, Locking, Listed, lists
<1>11. CASE PingsDone
  BY <1>11 DEF PingsDone, Locking
<1>12. CASE WaitExitMessage \/ ExitSequence
  BY <1>1, <1>12 DEF WaitExitMessage, ExitSequence, NotifyExit, Stop, PushExit, ExitNotifies, NotifyOne
<1> QED
  BY <1>2, <1>3, <1>4, <1>5, <1>7, <1>8, <1>9, <1>10, <1>11, <1>12
     DEF WNext, process_messages, loop_ping

LEMMA TimersStep ==
  ASSUME WTypeOK, Flow, Locking, Timers, WNext
  PROVE  Timers'
<1>1. ASSUME armed' \subseteq armed, Listed' = Listed,
             \A c \in Conn : conn[c] = "closed" => conn'[c] = "closed"
      PROVE  Timers'
  BY <1>1 DEF Timers, WTypeOK
<1>2. ASSUME UNCHANGED <<net, lists>> PROVE Timers'
  BY <1>2 DEF Timers, net, lists, Listed
<1>3. ASSUME NEW hdl \in Conn,
             \/ on_open(hdl) \/ on_open_tls(hdl) \/ on_close(hdl)
             \/ \E text \in BOOLEAN : on_message(hdl, text)
      PROVE  Timers'
  <2>1. UNCHANGED <<armed, lists>>
    BY <1>3 DEF on_open, on_open_tls, on_close, on_message, Push
  <2>2. \A c \in Conn : conn[c] = "closed" => conn'[c] = "closed"
    BY <1>3 DEF on_open, on_open_tls, on_close, on_message, WTypeOK
  <2> QED
    BY <1>1, <2>1, <2>2 DEF lists, Listed
<1>4. ASSUME NEW hdl \in Conn, on_pong(hdl) \/ on_pong_timeout(hdl) PROVE Timers'
  <2>1. armed' = armed \ {hdl} /\ UNCHANGED lists
    BY <1>4 DEF on_pong, on_pong_timeout
  <2>2. \A c \in Conn : conn[c] = "closed" => conn'[c] = "closed"
    BY <1>4 DEF on_pong, on_pong_timeout, WTypeOK
  <2> QED
    BY <1>1, <2>1, <2>2 DEF lists, Listed
<1>5. CASE MainContinues \/ RunThrows \/ SpuriousWakeup \/ Ended
  BY <1>2, <1>5 DEF MainContinues, Listen, CallbackNotifies, RunStopped, RunThrows,
                    RunReturns, Join, SpuriousWakeup, Ended, wvars, lists, net
<1>6. CASE Take \/ Exit \/ LockForAction
  BY <1>2, <1>6 DEF Take, Exit, LockForAction
<1>7. CASE Subscribe \/ TlsSubscribe \/ \E throws \in BOOLEAN : Message(throws)
  <2>1. UNCHANGED net /\ Listed \subseteq Listed'
    BY <1>7 DEF Subscribe, TlsSubscribe, Message, Branch, Listed, lists
  <2> QED
    BY <2>1 DEF Timers, net
<1>8. CASE Unsubscribe
  <2>1. UNCHANGED net /\ Listed' = Listed \ {act[1].hdl}
    BY <1>8 DEF Unsubscribe, Branch, Listed
  <2>2. conn[act[1].hdl] = "closed"
    <3>1. act[1].type = "UNSUBSCRIBE" /\ Pending[1] = act[1]
      BY <1>8, PendingPop DEF Unsubscribe
    <3>2. 1 \in 1 .. Len(Pending)
      BY <1>8, ActType DEF Unsubscribe, Branch, WTypeOK, Pending
    <3>3. InOrder(Pending, 1)
      BY <3>2 DEF Flow, QueueInOrder
    <3> QED
      BY <3>1, <3>3 DEF InOrder
  <2> QED
    BY <2>1, <2>2 DEF Timers, net
<1>9. CASE EnterWait \/ WaitReturns \/ LockForPings \/ PingsDone
  BY <1>2, <1>9 DEF EnterWait, WaitReturns, LockForPings, PingsDone
<1>10. ASSUME NEW hdl \in Conn, Ping(hdl) PROVE Timers'
  <2>1. armed' \subseteq armed \cup {hdl} /\ UNCHANGED <<conn, lists>> /\ hdl \in Listed
    BY <1>10 DEF Ping, Locking
  <2> QED
    BY <2>1 DEF Timers, lists, Listed
<1>11. CASE WaitExitMessage \/ ExitSequence
  BY <1>2, <1>11 DEF WaitExitMessage, ExitSequence, NotifyExit, Stop, PushExit, ExitNotifies
<1> QED
  BY <1>3, <1>4, <1>5, <1>6, <1>7, <1>8, <1>9, <1>10, <1>11
     DEF WNext, Callbacks, process_messages, loop_ping

(* The invariant holds in every reachable state of the threads.            *)
THEOREM WInvariant == WSpec => []WInv
<1>1. WInit => WInv
  <2> SUFFICES ASSUME WInit PROVE WInv
    OBVIOUS
  <2>1. WTypeOK
    <3>1. received \in [Conn -> 0 .. MaxMessages]
      BY EndpointsAssumption DEF WInit, EndpointsAssumption
    <3>2. m_actions \in Seq(Action)
      BY EmptySeq DEF WInit
    <3> QED
      BY <3>1, <3>2 DEF WInit, WTypeOK
  <2>2. Pending = <<>> /\ Listed = {}
    BY DEF WInit, Pending, Listed
  <2>3. Flow
    BY <2>2 DEF WInit, Flow, QueueInOrder, OwnLists, Accounted
  <2>4. Locking /\ Timers
    BY DEF WInit, Locking, Timers
  <2> QED
    BY <2>1, <2>3, <2>4 DEF WInv
<1>2. WInv /\ [WNext]_wvars => WInv'
  <2> SUFFICES ASSUME WInv, [WNext]_wvars PROVE WInv'
    OBVIOUS
  <2> USE EndpointsAssumption
  <2>1. CASE WNext
    <3>1. WTypeOK'
      BY <2>1, TypeMain, TypeProcessMessages, TypeOthers DEF WInv, WNext
    <3>2. Flow'
      BY <2>1, FlowMain, FlowProcessMessages, FlowOthers DEF WInv, WNext
    <3>3. Locking' /\ Timers'
      BY <2>1, LockingStep, TimersStep DEF WInv
    <3> QED
      BY <3>1, <3>2, <3>3 DEF WInv
  <2>2. CASE UNCHANGED wvars
    <3>1. WTypeOK' /\ Locking' /\ Timers'
      BY <2>2 DEF WInv, wvars, WTypeOK, Locking, Timers, Listed
    <3>2. Flow'
      BY <2>2, FlowSame DEF WInv, wvars, Pending, lists
    <3> QED
      BY <3>1, <3>2 DEF WInv
  <2> QED
    BY <2>1, <2>2
<1> QED
  BY <1>1, <1>2, PTL DEF WSpec

(* The threads of the server are type-correct.                             *)
THEOREM WTypeCorrect == WSpec => []WTypeOK
<1>1. WInv => WTypeOK
  BY DEF WInv
<1> QED
  BY <1>1, WInvariant, PTL

(* m_connection_lock keeps t1 from changing the sets that loop_ping()      *)
(* iterates over, and every ping goes through the connection's endpoint.   *)
THEOREM PingsSafe == WSpec => []PingIterationStable
<1>1. WInv => PingIterationStable
  BY DEF WInv, Locking, Flow, OwnLists, PingIterationStable
<1> QED
  BY <1>1, WInvariant, PTL

(* The lists are the open connections, but for the pending actions.        *)
THEOREM ListsFollow == WSpec => []ListsFollowConnections
<1>1. WInv => ListsFollowConnections
  <2> SUFFICES ASSUME WInv, NEW hdl \in Conn
               PROVE  conn[hdl] \in {"open", "closing"} <=>
                        /\ hdl \in Listed \/ IsPending({"SUBSCRIBE", "TLS_SUBSCRIBE"}, hdl)
                        /\ ~IsPending({"UNSUBSCRIBE"}, hdl)
    BY DEF ListsFollowConnections
  <2>1. /\ Accounted(Pending, hdl)
        /\ \A i \in 1 .. Len(Pending) : InOrder(Pending, i)
        /\ conn[hdl] \in {"new", "open", "closing", "closed"}
    BY DEF WInv, Flow, QueueInOrder, WTypeOK
  <2>2. IsPending({"SUBSCRIBE", "TLS_SUBSCRIBE"}, hdl) <=>
          \E i \in 1 .. Len(Pending) : Subscribes(Pending[i], hdl)
    BY <2>1 DEF IsPending, Subscribes, SubscribeType, InOrder
  <2>3. IsPending({"UNSUBSCRIBE"}, hdl) <=>
          \E i \in 1 .. Len(Pending) : Unsubscribes(Pending[i], hdl)
    BY DEF IsPending, Unsubscribes
  <2>4. IsPending({"SUBSCRIBE", "TLS_SUBSCRIBE"}, hdl) => conn[hdl] # "new"
    BY <2>1 DEF IsPending, InOrder
  <2>5. IsPending({"UNSUBSCRIBE"}, hdl) => conn[hdl] = "closed"
    BY <2>1 DEF IsPending, InOrder
  <2> QED
    BY <2>1, <2>2, <2>3, <2>4, <2>5 DEF Accounted
<1> QED
  BY <1>1, WInvariant, PTL

(* While t1 has a message in hand, its sender is listed under its own      *)
(* endpoint and no other: a reply by Send() takes the right one.           *)
THEOREM RepliesRouted == WSpec => []SenderListed
<1>1. WInv => SenderListed
  <2> SUFFICES ASSUME WInv, act # <<>>, act[1].type = "MESSAGE"
               PROVE  /\ act[1].hdl \in m_con_list_plain <=> act[1].hdl \in PlainConn
                      /\ act[1].hdl \in m_con_list_tls <=> act[1].hdl \in TlsConn
    BY DEF SenderListed
  <2>1. PICK a \in Action : act = <<a>>
    BY DEF WInv, WTypeOK
  <2>2. m_actions \in Seq(Action)
    BY DEF WInv, WTypeOK
  <2>3. Pending[1] = a /\ 1 \in 1 .. Len(Pending)
    BY <2>1, <2>2 DEF Pending
  <2>4. InOrder(Pending, 1) /\ OwnLists
    BY <2>3 DEF WInv, Flow, QueueInOrder
  <2>5. a.hdl \in Listed
    BY <2>1, <2>3, <2>4 DEF InOrder
  <2> QED
    BY <2>1, <2>4, <2>5, EndpointsAssumption DEF OwnLists, Listed, EndpointsAssumption
<1> QED
  BY <1>1, WInvariant, PTL

(* A pong timeout of a connection that is not closed finds its endpoint.   *)
THEOREM PongTimeoutsRouted == WSpec => []PongTimeoutEndpoint
<1>1. WInv => PongTimeoutEndpoint
  BY EndpointsAssumption
     DEF WInv, Timers, Flow, OwnLists, Listed, PongTimeoutEndpoint, EndpointsAssumption
<1> QED
  BY <1>1, WInvariant, PTL
=============================================================================
