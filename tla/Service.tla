------------------------------ MODULE Service ------------------------------
(***************************************************************************)
(* The program as wsSignalServer.service runs it: processes that are       *)
(* started with a command line, take the branch of main() that Startup     *)
(* gives them, and are a server or a stop command of MessageQueue.  A unit *)
(* is started when no server of it runs; it is stopped at any time.        *)
(***************************************************************************)
EXTENDS MessageQueue, Startup

CONSTANTS
  Proc,       \* the processes: Server and Stopper are both this set
  StartLine,  \* the command lines that start the service (ExecStart)
  StopLine    \* the command lines that stop it (ExecStop)

ASSUME ProcAssumption == Server = Proc /\ Stopper = Proc

VARIABLES
  branch,     \* the branch of main() a process has taken, "off" before
  port,       \* the port a server is to listen on, besides 9002
  listening,  \* the servers that have both ports
  target      \* the servers that waited for a message when a stop line was run

pvars == <<branch, port, listening, target>>
svars == <<qvars, pvars>>

Launch(p, argv, up) ==
  /\ branch[p] = "off"
  /\ \E b \in IF Branch(argv) = "daemon" THEN {"listen", "none"} ELSE {Branch(argv)} :
       /\ branch' = [branch EXCEPT ![p] = b]
       /\ port' = [port EXCEPT ![p] = IF b = "listen" THEN Port(argv, ConfigFile(argv)) ELSE @]
  /\ target' = [target EXCEPT ![p] = up]
  /\ UNCHANGED <<qvars, listening>>

(* ExecStart, and ExecStop.                                                *)
Start(p) ==
  /\ \A q \in Proc : branch[q] = "listen" => server[q] \in {"gone", "dead"}
  /\ \E argv \in StartLine : Launch(p, argv, {})

Stop(p) == \E argv \in StopLine : Launch(p, argv, Up)

(* run() listens on the port and on 9002; if one of the two is taken the   *)
(* process terminates and leaves the queue and its name behind.            *)
Listens(p) ==
  /\ server[p] \in {"up", "deaf"} /\ p \notin listening
  /\ IF port[p] = 9002 \/ \E q \in listening : Lives(q)
     THEN Die(p) /\ UNCHANGED listening
     ELSE listening' = listening \cup {p} /\ UNCHANGED qvars
  /\ UNCHANGED <<branch, port, target>>

ServerRuns(p) == branch[p] = "listen" /\ (RemoveName(p) \/ ServerStep(p)) /\ UNCHANGED pvars

StopperRuns(p) == branch[p] = "stop" /\ StopperStep(p) /\ UNCHANGED pvars

-----------------------------------------------------------------------------
SInit ==
  /\ QInit
  /\ branch = [p \in Proc |-> "off"]
  /\ port = [p \in Proc |-> 0]
  /\ listening = {}
  /\ target = [p \in Proc |-> {}]

SNext ==
  \E p \in Proc : Start(p) \/ Stop(p) \/ Listens(p) \/ ServerRuns(p) \/ StopperRuns(p)

(* As in MessageQueue: a stop command runs to its end, and a server that   *)
(* waits receives.                                                         *)
SFairness ==
  \A p \in Proc :
    /\ WF_svars(StopperRuns(p))
    /\ WF_svars(branch[p] = "listen" /\ WaitExitMessage(p) /\ UNCHANGED pvars)

SSpec == SInit /\ [][SNext]_svars /\ SFairness

-----------------------------------------------------------------------------
(* ExecStop reaches the servers that wait for it: the command line is      *)
(* dispatched to the stop branch, which finds the queue of the running     *)
(* server under the name, however full that queue is, and the server's     *)
(* WaitExitMessage() returns true, unless boost throws or the server dies. *)
StopReachesService ==
  \A s, p \in Proc : p \in target[s] ~> Reached(p) \/ stopper[s] = "failed"
=============================================================================
