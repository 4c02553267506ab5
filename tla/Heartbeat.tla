----------------------------- MODULE Heartbeat -----------------------------
(***************************************************************************)
(* The heartbeat of WebsocketServer, with time: loop_ping() pings every    *)
(* listed connection after a wait of PingPeriod, and websocketpp calls     *)
(* on_pong_timeout() when a pong is PongTimeout late.  Time is counted in  *)
(* ticks; the wait for m_connection_lock and the pings themselves take at  *)
(* most MaxDelay of them.  WebsocketServer lets a running timer fire at    *)
(* any moment; here it fires when it has run down.                         *)
(***************************************************************************)
EXTENDS Integers

CONSTANTS
  Conn,
  PingPeriod,  \* 5 s, the argument of m_mutex_exit.wait()
  PongTimeout, \* 15 s, set_pong_timeout() of both endpoints
  MaxDelay     \* bound on what loop_ping() adds to its period

ASSUME HeartbeatAssumption ==
  /\ PingPeriod \in Nat /\ PongTimeout \in Nat /\ MaxDelay \in Nat
  /\ PingPeriod + MaxDelay < PongTimeout

VARIABLES
  waited,  \* ticks since loop_ping() pinged last
  conn,    \* what websocketpp knows of a connection
  listing, \* whether t1 has yet to list a connection, lists it, has erased it
  timer    \* ticks left of a pong timer, Off if none runs

Off == -1

bvars == <<waited, conn, listing, timer>>

Pinged(c) == listing[c] = "listed" /\ conn[c] = "open"

-----------------------------------------------------------------------------
(* The client connects, and goes away or is cut off; t1 follows later.     *)
Connect(c) ==
  /\ conn[c] = "new"
  /\ conn' = [conn EXCEPT ![c] = "open"]
  /\ UNCHANGED <<waited, listing, timer>>

(* No pong timer is cancelled by the end of its connection.                *)
Disconnect(c) ==
  /\ conn[c] = "open"
  /\ conn' = [conn EXCEPT ![c] = "closed"]
  /\ UNCHANGED <<waited, listing, timer>>

Subscribe(c) ==
  /\ conn[c] # "new" /\ listing[c] = "pending"
  /\ listing' = [listing EXCEPT ![c] = "listed"]
  /\ UNCHANGED <<waited, conn, timer>>

Unsubscribe(c) ==
  /\ conn[c] = "closed" /\ listing[c] = "listed"
  /\ listing' = [listing EXCEPT ![c] = "erased"]
  /\ UNCHANGED <<waited, conn, timer>>

(* Mutant: ping() lets a timer that runs go on.                            *)
Ping_KeepsTimer ==
  /\ waited >= PingPeriod
  /\ waited' = 0
  /\ timer' = [c \in Conn |-> IF Pinged(c) /\ timer[c] = Off THEN PongTimeout ELSE timer[c]]
  /\ UNCHANGED <<conn, listing>>

(* ping() of an open connection cancels the timer that runs and starts a   *)
(* new one; of any other it reports an error.                              *)
Ping ==
  /\ waited >= PingPeriod
  /\ waited' = 0
  /\ timer' = [c \in Conn |-> IF Pinged(c) THEN PongTimeout ELSE timer[c]]
  /\ UNCHANGED <<conn, listing>>

Pong(c) ==
  /\ conn[c] = "open" /\ timer[c] # Off
  /\ timer' = [timer EXCEPT ![c] = Off]
  /\ UNCHANGED <<waited, conn, listing>>

(* on_pong_timeout() closes the connection, if it is still open.           *)
on_pong_timeout(c) ==
  /\ timer[c] = 0
  /\ timer' = [timer EXCEPT ![c] = Off]
  /\ conn' = [conn EXCEPT ![c] = IF @ = "open" THEN "closed" ELSE @]
  /\ UNCHANGED <<waited, listing>>

(* A timer that has run down fires before time goes on.                    *)
Tick ==
  /\ waited < PingPeriod + MaxDelay
  /\ \A c \in Conn : timer[c] # 0
  /\ waited' = waited + 1
  /\ timer' = [c \in Conn |-> IF timer[c] = Off THEN Off ELSE timer[c] - 1]
  /\ UNCHANGED <<conn, listing>>

BInit ==
  /\ waited = 0
  /\ conn = [c \in Conn |-> "new"]
  /\ listing = [c \in Conn |-> "pending"]
  /\ timer = [c \in Conn |-> Off]

BNext ==
  \/ Ping \/ Tick
  \/ \E c \in Conn :
       \/ Connect(c) \/ Disconnect(c) \/ Subscribe(c) \/ Unsubscribe(c)
       \/ Pong(c) \/ on_pong_timeout(c)

BSpec == BInit /\ [][BNext]_bvars

-----------------------------------------------------------------------------
(* on_pong_timeout() never finds a connection open: every ping puts the    *)
(* timeout of a silent connection off, and it comes only after the         *)
(* connection is closed for another reason.  What the pong timeout is set  *)
(* for, to close a connection whose client is gone, never happens.         *)
TimeoutsFindClosed == \A c \in Conn : timer[c] = 0 => conn[c] = "closed"
=============================================================================
