---------------------------- MODULE SignalSystem ----------------------------
(***************************************************************************)
(* The server as it runs: the threads of WebsocketServer with the handlers *)
(* of SignalServer, which overrides OnReceive() and OnClose(), on t1.      *)
(***************************************************************************)
EXTENDS WebsocketServer

CONSTANTS
  Name, NotAString, IntMax, ClientInt, MaxPairs,
  Text         \* the texts clients send, among the requests of SignalServer

VARIABLES m_map_peers, m_last_id, m_vPairID, sent, alive

S == INSTANCE SignalServer

ASSUME TextAssumption == Text \subseteq S!Request

sigvars == <<m_map_peers, m_last_id, m_vPairID, sent, alive>>
svars   == <<wvars, sigvars>>

-----------------------------------------------------------------------------
(* Mutant: the connection leaves the lists and OnClose() is not called.    *)
UnsubscribeAndClose_Not == Unsubscribe /\ UNCHANGED sigvars

(* The branch for UNSUBSCRIBE: out of the lists first, then OnClose().     *)
UnsubscribeAndClose ==
  /\ Unsubscribe
  /\ S!OnClose(act[1].hdl)

(* The branch for MESSAGE.                                                 *)
ReceiveText(value) ==
  /\ Message(S!Throws(value))
  /\ act[1].text
  /\ S!OnReceive(act[1].hdl, value)

SkipBinary ==
  /\ Message(FALSE)
  /\ ~act[1].text
  /\ UNCHANGED sigvars

(* Send(text, hdl): the endpoint the text is handed to.                    *)
Send(hdl) == IF hdl \in m_con_list_plain THEN "plain" ELSE "tls"

EndpointOf(hdl) == IF hdl \in PlainConn THEN "plain" ELSE "tls"

-----------------------------------------------------------------------------
SInit == WInit /\ S!Init

Handlers == UnsubscribeAndClose \/ SkipBinary \/ \E value \in Text : ReceiveText(value)

process_texts ==
  \/ Handlers
  \/ (Take \/ Exit \/ LockForAction \/ Subscribe \/ TlsSubscribe) /\ UNCHANGED sigvars

Others ==
  \/ Callbacks \/ MainContinues \/ RunThrows \/ SpuriousWakeup
  \/ loop_ping \/ WaitExitMessage \/ ExitSequence \/ Ended

SNext == process_texts \/ (Others /\ UNCHANGED sigvars)

SSpec == SInit /\ [][SNext]_svars

FairSSpec ==
  /\ SSpec
  /\ WF_svars(MainContinues /\ UNCHANGED sigvars)
  /\ SF_svars(process_texts)
  /\ SF_svars(loop_ping /\ UNCHANGED sigvars)
  /\ WF_svars(ExitSequence /\ UNCHANGED sigvars)

-----------------------------------------------------------------------------
(* A signed-in peer is a connection the server lists, under its own        *)
(* endpoint: the queue hands a connection's texts to OnReceive() after its *)
(* SUBSCRIBE and before its UNSUBSCRIBE, which signs it out.  A peer that  *)
(* signed in after its OnClose() would stay registered for ever.           *)
PeersListed ==
  \A hdl \in DOMAIN m_map_peers :
    hdl \in (IF hdl \in PlainConn THEN m_con_list_plain ELSE m_con_list_tls)

(* Whatever a handler sends, to the sender or to another peer, Send()      *)
(* hands to the endpoint the addressee is connected to.                    *)
SendsToOwnEndpoint ==
  [][Handlers =>
       (\A i \in 1 .. Len(sent) : Send(sent[i].hdl) = EndpointOf(sent[i].hdl))']_svars

(* The peer of a connection that is closed is signed out eventually and    *)
(* for good, unless the server stops first.                                *)
ClosedSignedOut ==
  \A hdl \in Conn :
    conn[hdl] = "closed" ~>
      [](hdl \notin DOMAIN m_map_peers \/ t1 = "done" \/ main = "aborted")
=============================================================================
