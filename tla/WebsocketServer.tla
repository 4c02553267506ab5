-------------------------- MODULE WebsocketServer --------------------------
(***************************************************************************)
(* The threads of the server: class WebsocketServer (websocket_server.h,   *)
(* websocket_server.cc).                                                   *)
(*                                                                         *)
(*   main  Listen(), run(): the callbacks of both endpoints, then the joins*)
(*   t1    process_messages(): takes actions from m_actions, one by one    *)
(*   t2    loop_ping(): pings every listed connection every five seconds   *)
(*   t3    wait_exit_message(): waits for "-c stop", then stops the others *)
(*                                                                         *)
(* m_action_lock and condition_mutex::lock_ only ever protect a section    *)
(* that does not block, which is one step here; m_connection_lock is held  *)
(* across several steps and is a variable.  OnReceive() and OnClose(),     *)
(* which this class leaves abstract, are modelled by SignalServer.         *)
(***************************************************************************)
EXTENDS Integers, Sequences

CONSTANTS
  PlainConn,   \* connections to m_server_plain
  TlsConn,     \* connections to m_server_tls
  MaxMessages  \* bound on the messages of one connection

Conn == PlainConn \cup TlsConn

NoHdl == "connection_hdl()"  \* the handle of an EXIT action

ASSUME EndpointsAssumption ==
  /\ PlainConn \cap TlsConn = {}
  /\ NoHdl \notin Conn
  /\ MaxMessages \in Nat

VARIABLES
  main,              \* where the main (I/O) thread is
  t1, t2, t3,        \* where the other threads are
  m_actions,         \* the queue from the callbacks to t1
  act,               \* the action t1 has in hand, <<>> or <<a>>
  m_con_list_plain,  \* the connections t1 has subscribed
  m_con_list_tls,
  m_connection_lock, \* who holds it
  ready,             \* condition_mutex::ready_ of m_mutex_exit
  to_ping,           \* what is left of the iteration of loop_ping
  stopped,           \* m_ios.stop() has been called
  conn,              \* what websocketpp knows of a connection
  armed,             \* connections with a pong timer running
  received           \* number of messages received from a connection

mainvars == <<main, stopped>>
queue    == <<m_actions, act>>
lists    == <<m_con_list_plain, m_con_list_tls>>
net      == <<conn, armed, received>>
wvars    == <<main, t1, t2, t3, m_actions, act, m_con_list_plain, m_con_list_tls,
              m_connection_lock, ready, to_ping, stopped, conn, armed, received>>

Listed  == m_con_list_plain \cup m_con_list_tls
Running == main \notin {"exited", "aborted"}

ClientAction == {"SUBSCRIBE", "TLS_SUBSCRIBE", "UNSUBSCRIBE", "MESSAGE"}

Action == [type : ClientAction, hdl : Conn, text : BOOLEAN]
          \cup [type : {"EXIT"}, hdl : {NoHdl}, text : {FALSE}]

(* Mutant: the handle was moved from before it was stored.                 *)
action_Moved(type, hdl) == [type |-> type, hdl |-> NoHdl, text |-> FALSE]

action(type, hdl) == [type |-> type, hdl |-> hdl, text |-> FALSE]

-----------------------------------------------------------------------------
(* The I/O thread.  A callback pushes under m_action_lock and notifies     *)
(* after the unlock: two steps, main = "notify" in between.  No callback   *)
(* starts once m_ios has been stopped.                                     *)

Callback == main = "run" /\ ~stopped

Push(a) ==
  /\ m_actions' = Append(m_actions, a)
  /\ main' = "notify"
  /\ UNCHANGED <<t1, t2, t3, act, lists, m_connection_lock, ready, to_ping, stopped, armed>>

on_open(hdl) ==
  /\ Callback
  /\ hdl \in PlainConn /\ conn[hdl] = "new"
  /\ conn' = [conn EXCEPT ![hdl] = "open"]
  /\ Push(action("SUBSCRIBE", hdl))
  /\ UNCHANGED received

(* Mutant: on_open_tls() copied from on_open().                            *)
on_open_tls_Copied(hdl) ==
  /\ Callback
  /\ hdl \in TlsConn /\ conn[hdl] = "new"
  /\ conn' = [conn EXCEPT ![hdl] = "open"]
  /\ Push(action("SUBSCRIBE", hdl))
  /\ UNCHANGED received

on_open_tls(hdl) ==
  /\ Callback
  /\ hdl \in TlsConn /\ conn[hdl] = "new"
  /\ conn' = [conn EXCEPT ![hdl] = "open"]
  /\ Push(action("TLS_SUBSCRIBE", hdl))
  /\ UNCHANGED received

on_message(hdl, text) ==
  /\ Callback
  /\ conn[hdl] = "open" /\ received[hdl] < MaxMessages
  /\ received' = [received EXCEPT ![hdl] = @ + 1]
  /\ Push([type |-> "MESSAGE", hdl |-> hdl, text |-> text])
  /\ UNCHANGED conn

on_close(hdl) ==
  /\ Callback
  /\ conn[hdl] \in {"open", "closing"}
  /\ conn' = [conn EXCEPT ![hdl] = "closed"]
  /\ Push(action("UNSUBSCRIBE", hdl))
  /\ UNCHANGED received

(* notify_one() wakes t1 if it waits; otherwise it has no effect.          *)
NotifyOne == t1' = IF t1 = "waiting" THEN "take" ELSE t1

(* Mutant: the callback pushes and does not notify.                        *)
CallbackNotifies_Not ==
  /\ main = "notify"
  /\ main' = "run"
  /\ UNCHANGED <<t1, t2, t3, queue, lists, m_connection_lock, ready, to_ping, stopped, net>>

CallbackNotifies ==
  /\ main = "notify"
  /\ NotifyOne
  /\ main' = "run"
  /\ UNCHANGED <<t2, t3, queue, lists, m_connection_lock, ready, to_ping, stopped, net>>

(* A pong stops the timer that the ping before it started.                 *)
on_pong(hdl) ==
  /\ Callback
  /\ hdl \in armed /\ conn[hdl] = "open"
  /\ armed' = armed \ {hdl}
  /\ UNCHANGED <<mainvars, t1, t2, t3, queue, lists, m_connection_lock, ready, to_ping,
                 conn, received>>

(* m_con_list_plain.count(hdl), read without m_connection_lock: any answer *)
(* while t1 is inserting into the set or erasing from it.                  *)
Racing == t1 = "locked" /\ act[1].type \in {"SUBSCRIBE", "UNSUBSCRIBE"}

CountPlain(hdl) == IF Racing THEN BOOLEAN ELSE {hdl \in m_con_list_plain}

(* The endpoint whose close() is called casts the handle to its own type   *)
(* of connection.  For its own it closes an open connection and reports an *)
(* error otherwise; for the other's the behaviour is undefined: nothing,   *)
(* or the end of the process.                                              *)
on_pong_timeout(hdl) ==
  /\ Callback
  /\ hdl \in armed
  /\ armed' = armed \ {hdl}
  /\ \E plain \in CountPlain(hdl) :
       \/ /\ plain <=> hdl \in PlainConn
          /\ conn' = [conn EXCEPT ![hdl] = IF @ = "open" THEN "closing" ELSE @]
          /\ UNCHANGED main
       \/ /\ ~(plain <=> hdl \in PlainConn)
          /\ main' \in {main, "aborted"}
          /\ UNCHANGED conn
  /\ UNCHANGED <<t1, t2, t3, queue, lists, m_connection_lock, ready, to_ping, stopped, received>>

(* Listen() starts the threads before run() listens.  An exception of      *)
(* listen() leaves the block with the threads joinable: std::terminate.    *)
Listen ==
  /\ main = "listen"
  /\ main' \in {"run", "aborted"}
  /\ UNCHANGED <<stopped, t1, t2, t3, queue, lists, m_connection_lock, ready, to_ping, net>>

(* m_ios.run() returns once stopped, or throws; the exception is caught.   *)
RunReturns ==
  /\ main = "run"
  /\ main' = "join3"
  /\ UNCHANGED <<stopped, t1, t2, t3, queue, lists, m_connection_lock, ready, to_ping, net>>

RunStopped == stopped /\ RunReturns

RunThrows == ~stopped /\ RunReturns

Join ==
  /\ \/ main = "join3" /\ t3 = "done" /\ main' = "join2"
     \/ main = "join2" /\ t2 = "done" /\ main' = "join1"
     \/ main = "join1" /\ t1 = "done" /\ main' = "exited"
  /\ UNCHANGED <<stopped, t1, t2, t3, queue, lists, m_connection_lock, ready, to_ping, net>>

-----------------------------------------------------------------------------
(* t1: process_messages().                                                 *)

Take ==
  /\ Running /\ t1 = "take"
  /\ IF m_actions = <<>>
     THEN t1' = "waiting" /\ UNCHANGED queue
     ELSE /\ act' = <<Head(m_actions)>>
          /\ m_actions' = Tail(m_actions)
          /\ t1' = "dispatch"
  /\ UNCHANGED <<mainvars, t2, t3, lists, m_connection_lock, ready, to_ping, net>>

SpuriousWakeup ==
  /\ Running /\ t1 = "waiting"
  /\ t1' = "take"
  /\ UNCHANGED <<mainvars, t2, t3, queue, lists, m_connection_lock, ready, to_ping, net>>

Exit ==
  /\ Running /\ t1 = "dispatch" /\ act[1].type = "EXIT"
  /\ t1' = "done"
  /\ UNCHANGED <<mainvars, t2, t3, queue, lists, m_connection_lock, ready, to_ping, net>>

(* Mutant: the branch runs without m_connection_lock.                      *)
LockForAction_Not ==
  /\ Running /\ t1 = "dispatch" /\ act[1].type # "EXIT"
  /\ t1' = "locked"
  /\ UNCHANGED <<mainvars, t2, t3, queue, lists, m_connection_lock, ready, to_ping, net>>

LockForAction ==
  /\ Running /\ t1 = "dispatch" /\ act[1].type # "EXIT"
  /\ m_connection_lock = "free"
  /\ m_connection_lock' = "t1"
  /\ t1' = "locked"
  /\ UNCHANGED <<mainvars, t2, t3, queue, lists, ready, to_ping, net>>

(* The body of the branch for one type of action, to the unlock.           *)
Branch(type) ==
  /\ Running /\ t1 = "locked" /\ act[1].type = type
  /\ t1' = "take"
  /\ act' = <<>>
  /\ m_connection_lock' = "free"
  /\ UNCHANGED <<stopped, t2, t3, m_actions, ready, to_ping, net>>

Subscribe ==
  /\ Branch("SUBSCRIBE")
  /\ m_con_list_plain' = m_con_list_plain \cup {act[1].hdl}
  /\ UNCHANGED <<main, m_con_list_tls>>

(* Mutant: inserts into the other list.                                    *)
TlsSubscribe_Plain ==
  /\ Branch("TLS_SUBSCRIBE")
  /\ m_con_list_plain' = m_con_list_plain \cup {act[1].hdl}
  /\ UNCHANGED <<main, m_con_list_tls>>

TlsSubscribe ==
  /\ Branch("TLS_SUBSCRIBE")
  /\ m_con_list_tls' = m_con_list_tls \cup {act[1].hdl}
  /\ UNCHANGED <<main, m_con_list_plain>>

(* Mutant: erases from one list only.                                      *)
Unsubscribe_PlainOnly ==
  /\ Branch("UNSUBSCRIBE")
  /\ m_con_list_plain' = m_con_list_plain \ {act[1].hdl}
  /\ UNCHANGED <<main, m_con_list_tls>>

Unsubscribe ==
  /\ Branch("UNSUBSCRIBE")
  /\ m_con_list_plain' = m_con_list_plain \ {act[1].hdl}
  /\ m_con_list_tls' = m_con_list_tls \ {act[1].hdl}
  /\ UNCHANGED main

(* Only a text frame is passed to OnReceive(), and nothing catches what    *)
(* that throws.                                                            *)
Message(throws) ==
  /\ Branch("MESSAGE")
  /\ throws => act[1].text
  /\ main' = IF throws THEN "aborted" ELSE main
  /\ UNCHANGED lists

-----------------------------------------------------------------------------
(* t2: loop_ping().                                                        *)

(* condition_mutex::wait() forgets a notification that came before it.     *)
EnterWait ==
  /\ Running /\ t2 = "loop"
  /\ ready' = FALSE
  /\ t2' = "waiting"
  /\ UNCHANGED <<mainvars, t1, t3, queue, lists, m_connection_lock, to_ping, net>>

(* Mutant: the result of wait() is not looked at.                          *)
WaitReturns_Ignored ==
  /\ Running /\ t2 = "waiting"
  /\ t2' = "lock"
  /\ UNCHANGED <<mainvars, t1, t3, queue, lists, m_connection_lock, ready, to_ping, net>>

(* wait_for returns ready_, on the notification or after five seconds.     *)
WaitReturns ==
  /\ Running /\ t2 = "waiting"
  /\ t2' = IF ready THEN "done" ELSE "lock"
  /\ UNCHANGED <<mainvars, t1, t3, queue, lists, m_connection_lock, ready, to_ping, net>>

LockForPings ==
  /\ Running /\ t2 = "lock"
  /\ m_connection_lock = "free"
  /\ m_connection_lock' = "t2"
  /\ to_ping' = Listed
  /\ t2' = "ping"
  /\ UNCHANGED <<mainvars, t1, t3, queue, lists, ready, net>>

(* The plain connections come first.  Pinging an open connection starts    *)
(* its pong timer, or starts it again; for any other ping() reports an     *)
(* error.                                                                  *)
Ping(hdl) ==
  /\ Running /\ t2 = "ping"
  /\ hdl \in to_ping
  /\ hdl \in TlsConn => to_ping \cap PlainConn = {}
  /\ to_ping' = to_ping \ {hdl}
  /\ armed' = IF conn[hdl] = "open" THEN armed \cup {hdl} ELSE armed
  /\ UNCHANGED <<mainvars, t1, t2, t3, queue, lists, m_connection_lock, ready, conn, received>>

PingsDone ==
  /\ Running /\ t2 = "ping" /\ to_ping = {}
  /\ m_connection_lock' = "free"
  /\ t2' = "loop"
  /\ UNCHANGED <<mainvars, t1, t3, queue, lists, ready, to_ping, net>>

-----------------------------------------------------------------------------
(* t3: wait_exit_message().                                                *)

(* WaitExitMessage() returns: with the message of "-c stop", or FALSE      *)
(* because the queue could not be created or read.                         *)
WaitExitMessage ==
  /\ Running /\ t3 = "receive"
  /\ t3' \in {"notify", "done"}
  /\ UNCHANGED <<mainvars, t1, t2, queue, lists, m_connection_lock, ready, to_ping, net>>

NotifyExit ==
  /\ Running /\ t3 = "notify"
  /\ ready' = TRUE
  /\ t3' = "stop"
  /\ UNCHANGED <<mainvars, t1, t2, queue, lists, m_connection_lock, to_ping, net>>

(* Both endpoints stop the one m_ios they share.                           *)
Stop ==
  /\ Running /\ t3 = "stop"
  /\ stopped' = TRUE
  /\ t3' = "push"
  /\ UNCHANGED <<main, t1, t2, queue, lists, m_connection_lock, ready, to_ping, net>>

PushExit ==
  /\ Running /\ t3 = "push"
  /\ m_actions' = Append(m_actions, action("EXIT", NoHdl))
  /\ t3' = "notify_one"
  /\ UNCHANGED <<mainvars, t1, t2, act, lists, m_connection_lock, ready, to_ping, net>>

(* Mutant: EXIT is pushed and t1 is not notified.                          *)
ExitNotifies_Not ==
  /\ Running /\ t3 = "notify_one"
  /\ t3' = "done"
  /\ UNCHANGED <<mainvars, t1, t2, queue, lists, m_connection_lock, ready, to_ping, net>>

ExitNotifies ==
  /\ Running /\ t3 = "notify_one"
  /\ NotifyOne
  /\ t3' = "done"
  /\ UNCHANGED <<mainvars, t2, queue, lists, m_connection_lock, ready, to_ping, net>>

-----------------------------------------------------------------------------
WInit ==
  /\ main = "listen" /\ stopped = FALSE
  /\ t1 = "take" /\ t2 = "loop" /\ t3 = "receive"
  /\ m_actions = <<>> /\ act = <<>>
  /\ m_con_list_plain = {} /\ m_con_list_tls = {}
  /\ m_connection_lock = "free"
  /\ ready = FALSE
  /\ to_ping = {}
  /\ conn = [c \in Conn |-> "new"]
  /\ armed = {}
  /\ received = [c \in Conn |-> 0]

Callbacks ==
  \E hdl \in Conn :
    \/ on_open(hdl) \/ on_open_tls(hdl) \/ on_close(hdl)
    \/ \E text \in BOOLEAN : on_message(hdl, text)
    \/ on_pong(hdl) \/ on_pong_timeout(hdl)

MainContinues == Listen \/ CallbackNotifies \/ RunStopped \/ Join

process_messages ==
  \/ Take \/ Exit \/ LockForAction \/ Subscribe \/ TlsSubscribe \/ Unsubscribe
  \/ \E throws \in BOOLEAN : Message(throws)

loop_ping ==
  \/ EnterWait \/ WaitReturns \/ LockForPings \/ PingsDone
  \/ \E hdl \in Conn : Ping(hdl)

ExitSequence == NotifyExit \/ Stop \/ PushExit \/ ExitNotifies

Ended == ~Running /\ UNCHANGED wvars

WNext ==
  \/ Callbacks \/ MainContinues \/ RunThrows
  \/ process_messages \/ SpuriousWakeup
  \/ loop_ping
  \/ WaitExitMessage \/ ExitSequence
  \/ Ended

WSpec == WInit /\ [][WNext]_wvars

(* The operating system runs every thread that can run.  t1 and t2 compete *)
(* for m_connection_lock; t2 sleeps for five seconds after every use of    *)
(* it, and t1 waits whenever the queue is empty, so neither is passed over *)
(* for ever: strong fairness.  Nothing is assumed of the clients, of       *)
(* exceptions or of "-c stop".                                             *)
Fairness ==
  /\ WF_wvars(MainContinues)
  /\ SF_wvars(process_messages)
  /\ SF_wvars(loop_ping)
  /\ WF_wvars(ExitSequence)

FairWSpec == WSpec /\ Fairness

-----------------------------------------------------------------------------
(* Every variable has its type, and t1 has an action in hand exactly when  *)
(* it is past the queue.                                                   *)
WTypeOK ==
  /\ main \in {"listen", "run", "notify", "join3", "join2", "join1", "exited", "aborted"}
  /\ t1 \in {"take", "waiting", "dispatch", "locked", "done"}
  /\ t2 \in {"loop", "waiting", "lock", "ping", "done"}
  /\ t3 \in {"receive", "notify", "stop", "push", "notify_one", "done"}
  /\ m_actions \in Seq(Action)
  /\ IF t1 \in {"take", "waiting"} THEN act = <<>> ELSE \E a \in Action : act = <<a>>
  /\ m_con_list_plain \subseteq Conn /\ m_con_list_tls \subseteq Conn
  /\ m_connection_lock \in {"free", "t1", "t2"}
  /\ ready \in BOOLEAN /\ stopped \in BOOLEAN
  /\ to_ping \subseteq Conn
  /\ conn \in [Conn -> {"new", "open", "closing", "closed"}]
  /\ armed \subseteq Conn
  /\ received \in [Conn -> 0 .. MaxMessages]

(* t1 never sleeps on m_action_cond over a non-empty queue, unless the     *)
(* thread that pushed is on its way to notify_one(), which the callbacks   *)
(* and wait_exit_message() call after m_action_lock is released.           *)
NoLostWakeup ==
  t1 = "waiting" /\ m_actions # <<>> => main = "notify" \/ t3 = "notify_one"

(* The sets loop_ping() iterates over do not change under it, insert() and *)
(* erase() of t1 wait for m_connection_lock: what is left of the iteration *)
(* is listed, and a connection's ping goes through its own endpoint.       *)
PingIterationStable ==
  t2 = "ping" =>
    /\ to_ping \subseteq Listed
    /\ to_ping \cap m_con_list_plain \subseteq PlainConn
    /\ to_ping \cap m_con_list_tls \subseteq TlsConn

(* The actions t1 has not carried out yet, the one in hand first.          *)
Pending == act \o m_actions

IsPending(types, hdl) ==
  \E i \in 1 .. Len(Pending) : Pending[i].type \in types /\ Pending[i].hdl = hdl

(* The lists lag behind the connections by the pending actions and by      *)
(* nothing else: a connection websocketpp has open is listed or about to   *)
(* be, and no closed one stays listed once the queue is empty.             *)
ListsFollowConnections ==
  \A hdl \in Conn :
    conn[hdl] \in {"open", "closing"} <=>
      /\ hdl \in Listed \/ IsPending({"SUBSCRIBE", "TLS_SUBSCRIBE"}, hdl)
      /\ ~IsPending({"UNSUBSCRIBE"}, hdl)

(* Send() takes the endpoint of a connection from m_con_list_plain, and    *)
(* the handler of a message answers its sender: while t1 has a message in  *)
(* hand, its sender is in the list of its own endpoint and in no other.    *)
SenderListed ==
  act # <<>> /\ act[1].type = "MESSAGE" =>
    /\ act[1].hdl \in m_con_list_plain <=> act[1].hdl \in PlainConn
    /\ act[1].hdl \in m_con_list_tls <=> act[1].hdl \in TlsConn

(* A pong timeout of a connection that is not closed yet finds it in the   *)
(* list on_pong_timeout() takes its endpoint from, unless t1 changes that  *)
(* list at the same time.                                                  *)
PongTimeoutEndpoint ==
  \A hdl \in armed :
    conn[hdl] # "closed" => (hdl \in m_con_list_plain <=> hdl \in PlainConn)

-----------------------------------------------------------------------------
(* A connection that websocketpp reports closed is eventually, and for     *)
(* good, out of both lists, unless the server stops first.                 *)
ClosedForgotten ==
  \A hdl \in Conn :
    conn[hdl] = "closed" ~> [](hdl \notin Listed \/ t1 = "done" \/ main = "aborted")

(* Once t3 has the exit message, the I/O loop, t1 and t3 come to an end,   *)
(* whatever is queued and whoever holds m_connection_lock: Listen() gets   *)
(* to the join of t2.                                                      *)
ExitReachesJoin2 ==
  t3 = "notify" ~>
    \/ main \in {"join2", "join1", "exited"} /\ t1 = "done" /\ t3 = "done"
    \/ main = "aborted"

(* If the notification finds loop_ping() in its wait, Listen() returns.    *)
NotifiedWaiterExits ==
  t2 = "waiting" /\ ready ~> ~Running

(* "-c stop" ends the server: an exit message leads to the return of       *)
(* Listen().  The code does not have this property: condition_mutex::wait  *)
(* resets ready_, and a notification that comes while loop_ping() is not   *)
(* waiting is lost.                                                        *)
StopCompletes ==
  t3 = "notify" ~> ~Running
=============================================================================
