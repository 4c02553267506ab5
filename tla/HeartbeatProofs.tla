-------------------------- MODULE HeartbeatProofs --------------------------
(***************************************************************************)
(* For every period and timeout with PingPeriod + MaxDelay < PongTimeout,  *)
(* 5 s and 15 s among them, on_pong_timeout() finds no connection open.    *)
(***************************************************************************)
EXTENDS Heartbeat, TLAPS

BTypeOK ==
  /\ waited \in 0 .. PingPeriod + MaxDelay
  /\ conn \in [Conn -> {"new", "open", "closed"}]
  /\ listing \in [Conn -> {"pending", "listed", "erased"}]
  /\ timer \in [Conn -> Off .. PongTimeout]

(* A timer of a connection that is not closed was started by the last      *)
(* pings: what is left of it and the time since add up to PongTimeout.     *)
Restarted ==
  \A c \in Conn :
    conn[c] # "closed" /\ timer[c] # Off =>
      Pinged(c) /\ timer[c] + waited = PongTimeout

BInv == BTypeOK /\ Restarted

LEMMA BInvInit == BInit => BInv
BY HeartbeatAssumption DEF BInit, BInv, BTypeOK, Restarted, Off

LEMMA BInvNext == BInv /\ [BNext]_bvars => BInv'
<1> SUFFICES ASSUME BInv, [BNext]_bvars PROVE BInv'
  OBVIOUS
<1> USE HeartbeatAssumption DEF BInv, BTypeOK, Restarted, Pinged, Off
<1>1. CASE Ping
  BY <1>1 DEF Ping
<1>2. CASE Tick
  BY <1>2 DEF Tick
<1>3. ASSUME NEW c \in Conn, Connect(c) PROVE BInv'
  BY <1>3 DEF Connect
<1>4. ASSUME NEW c \in Conn, Disconnect(c) PROVE BInv'
  BY <1>4 DEF Disconnect
<1>5. ASSUME NEW c \in Conn, Subscribe(c) PROVE BInv'
  BY <1>5 DEF Subscribe
<1>6. ASSUME NEW c \in Conn, Unsubscribe(c) PROVE BInv'
  BY <1>6 DEF Unsubscribe
<1>7. ASSUME NEW c \in Conn, Pong(c) PROVE BInv'
  BY <1>7 DEF Pong
<1>8. ASSUME NEW c \in Conn, on_pong_timeout(c) PROVE BInv'
  BY <1>8 DEF on_pong_timeout
<1>9. CASE UNCHANGED bvars
  BY <1>9 DEF bvars
<1> QED
  BY <1>1, <1>2, <1>3, <1>4, <1>5, <1>6, <1>7, <1>8, <1>9 DEF BNext

LEMMA BInvariant == BSpec => []BInv
BY BInvInit, BInvNext, PTL DEF BSpec

(* The pings of loop_ping() keep every pong timeout from finding its       *)
(* connection open, whatever the clients do.                               *)
THEOREM TimeoutsTooLate == BSpec => []TimeoutsFindClosed
<1>1. BInv => TimeoutsFindClosed
  BY HeartbeatAssumption DEF BInv, BTypeOK, Restarted, TimeoutsFindClosed, Off
<1> QED
  BY <1>1, BInvariant, PTL
=============================================================================
