---------------------------- MODULE MessageQueue ----------------------------
(***************************************************************************)
(* How "wsSignalServer -c stop" reaches the server: class MessageQueue     *)
(* (message_queue.h, message_queue.cpp), used by several processes.        *)
(*                                                                         *)
(* A server creates a message queue under a name that all processes share; *)
(* a stop command opens the queue that has the name and sends one exit     *)
(* message.  Boost keeps the queue and the name apart: remove() takes the  *)
(* name away, and a process that has the queue open keeps it.  A queue is  *)
(* identified with the server that created it.                             *)
(***************************************************************************)
EXTENDS Naturals, Sequences

CONSTANTS
  Server,    \* processes that run Listen()
  Stopper,   \* processes that run "-c stop"
  NoQueue,   \* no queue has the name; mq_ == nullptr
  QueueSize  \* the capacity of the queue, 10 in the code

ASSUME QueueAssumption ==
  /\ NoQueue \notin Server
  /\ QueueSize \in Nat \ {0}

VARIABLES
  server,   \* where a server process is
  stopper,  \* where a stop command is
  name,     \* the queue MS_NAME_TASK names
  mq,       \* mq_ of every process
  queue,    \* the messages in the queue a server created
  stop_of   \* the exit message a server has received, <<>> or <<m>>

qvars == <<server, stopper, name, mq, queue, stop_of>>

(* An exit message carries nothing; here it remembers the servers that     *)
(* waited for one when it was sent.                                        *)
Up == {p \in Server : server[p] = "up"}

(* A "deaf" server runs on, but its thread t3 has stopped waiting.         *)
Lives(p) == server[p] \in {"removed", "up", "deaf", "exiting"}

-----------------------------------------------------------------------------
(* Mutant: the old name is not removed.                                    *)
RemoveName_Not(p) ==
  /\ server[p] = "off"
  /\ server' = [server EXCEPT ![p] = "removed"]
  /\ UNCHANGED <<stopper, name, mq, queue, stop_of>>

(* MessageQueue(true), in two steps: remove() and create_only.             *)
RemoveName(p) ==
  /\ server[p] = "off"
  /\ server' = [server EXCEPT ![p] = "removed"]
  /\ name' = NoQueue
  /\ UNCHANGED <<stopper, mq, queue, stop_of>>

(* Mutant: open_or_create for create_only.                                 *)
Create_Open(p) ==
  /\ server[p] = "removed"
  /\ server' = [server EXCEPT ![p] = "up"]
  /\ name' = IF name = NoQueue THEN p ELSE name
  /\ mq' = [mq EXCEPT ![p] = name']
  /\ UNCHANGED <<stopper, queue, stop_of>>

(* Another server may have created its queue in between: create_only then  *)
(* throws and mq_ is null.                                                 *)
Create(p) ==
  /\ server[p] = "removed"
  /\ server' = [server EXCEPT ![p] = "up"]
  /\ IF name = NoQueue
     THEN name' = p /\ mq' = [mq EXCEPT ![p] = p]
     ELSE UNCHANGED <<name, mq>>
  /\ UNCHANGED <<stopper, queue, stop_of>>

(* The process ends without its destructors: listen() throws while the     *)
(* threads are joinable, a text makes a handler throw, or it is killed.    *)
Die(p) ==
  /\ Lives(p)
  /\ server' = [server EXCEPT ![p] = "dead"]
  /\ UNCHANGED <<stopper, name, mq, queue, stop_of>>

(* Mutant: the loop does not return on the exit message.                   *)
WaitExitMessage_Stays(p) ==
  /\ server[p] = "up" /\ mq[p] # NoQueue
  /\ queue[mq[p]] # <<>>
  /\ queue' = [queue EXCEPT ![mq[p]] = Tail(@)]
  /\ UNCHANGED <<server, stopper, name, mq, stop_of>>

(* receive() returns a message; every message is an exit message.          *)
WaitExitMessage(p) ==
  /\ server[p] = "up" /\ mq[p] # NoQueue
  /\ queue[mq[p]] # <<>>
  /\ stop_of' = [stop_of EXCEPT ![p] = <<Head(queue[mq[p]])>>]
  /\ queue' = [queue EXCEPT ![mq[p]] = Tail(@)]
  /\ server' = [server EXCEPT ![p] = "exiting"]
  /\ UNCHANGED <<stopper, name, mq>>

(* mq_ is null, or receive() throws: WaitExitMessage() returns false and   *)
(* wait_exit_message() only logs it.                                       *)
WaitExitMessageFails(p) ==
  /\ server[p] = "up"
  /\ server' = [server EXCEPT ![p] = "deaf"]
  /\ UNCHANGED <<stopper, name, mq, queue, stop_of>>

(* ~MessageQueue() removes the name, whichever queue has it.               *)
Destroy(p) ==
  /\ server[p] = "exiting"
  /\ server' = [server EXCEPT ![p] = "gone"]
  /\ name' = NoQueue
  /\ UNCHANGED <<stopper, mq, queue, stop_of>>

(* MessageQueue(false): open_only, mq_ is null if it throws.               *)
Open(s) ==
  /\ stopper[s] = "off"
  /\ stopper' = [stopper EXCEPT ![s] = "opened"]
  /\ mq' = [mq EXCEPT ![s] = name]
  /\ UNCHANGED <<server, name, queue, stop_of>>

(* Mutant: the capacity is not respected.                                  *)
SendExitMessage_Unbounded(s) ==
  /\ stopper[s] = "opened"
  /\ stopper' = [stopper EXCEPT ![s] = "done"]
  /\ queue' = IF mq[s] # NoQueue THEN [queue EXCEPT ![mq[s]] = Append(@, Up)] ELSE queue
  /\ UNCHANGED <<server, name, mq, stop_of>>

(* try_send() drops the message when the queue is full.                    *)
SendExitMessage(s) ==
  /\ stopper[s] = "opened"
  /\ stopper' = [stopper EXCEPT ![s] = "done"]
  /\ queue' = IF mq[s] # NoQueue /\ Len(queue[mq[s]]) < QueueSize
              THEN [queue EXCEPT ![mq[s]] = Append(@, Up)]
              ELSE queue
  /\ UNCHANGED <<server, name, mq, stop_of>>

(* try_send() throws: nothing is sent, and main() ignores the result.      *)
SendExitMessageFails(s) ==
  /\ stopper[s] = "opened" /\ mq[s] # NoQueue
  /\ stopper' = [stopper EXCEPT ![s] = "failed"]
  /\ UNCHANGED <<server, name, mq, queue, stop_of>>

-----------------------------------------------------------------------------
QInit ==
  /\ server = [p \in Server |-> "off"]
  /\ stopper = [s \in Stopper |-> "off"]
  /\ name = NoQueue
  /\ mq = [x \in Server \cup Stopper |-> NoQueue]
  /\ queue = [p \in Server |-> <<>>]
  /\ stop_of = [p \in Server |-> <<>>]

ServerStep(p) ==
  Create(p) \/ Die(p) \/ WaitExitMessage(p) \/ WaitExitMessageFails(p) \/ Destroy(p)

StopperStep(s) == Open(s) \/ SendExitMessage(s) \/ SendExitMessageFails(s)

QNext ==
  \/ \E p \in Server : RemoveName(p) \/ ServerStep(p)
  \/ \E s \in Stopper : StopperStep(s)

(* A server that waits for a message gets the one that is there, and a     *)
(* stop command runs to its end.  Nobody has to start a server or run a    *)
(* stop command, no server has to die, and none has to reach its           *)
(* destructor: Listen() may fail to return (see WebsocketServer).          *)
QFairness ==
  /\ \A p \in Server : WF_qvars(WaitExitMessage(p))
  /\ \A s \in Stopper : WF_qvars(SendExitMessage(s))

QSpec == QInit /\ [][QNext]_qvars /\ QFairness

(* The servers of one service: the next is started when the last has ended.*)
OneAtATime ==
  \/ \E p \in Server :
       \/ RemoveName(p) /\ \A q \in Server : ~Lives(q)
       \/ ServerStep(p)
  \/ \E s \in Stopper : StopperStep(s)

OneServiceSpec == QInit /\ [][OneAtATime]_qvars /\ QFairness

-----------------------------------------------------------------------------
(* Every variable has its type.                                            *)
QTypeOK ==
  /\ server \in [Server -> {"off", "removed", "up", "deaf", "exiting", "gone", "dead"}]
  /\ stopper \in [Stopper -> {"off", "opened", "done", "failed"}]
  /\ name \in Server \cup {NoQueue}
  /\ mq \in [Server \cup Stopper -> Server \cup {NoQueue}]
  /\ queue \in [Server -> Seq(SUBSET Server)]
  /\ stop_of \in [Server -> Seq(SUBSET Server)]
  /\ \A p \in Server : Len(queue[p]) <= QueueSize /\ Len(stop_of[p]) <= 1

(* No server is ended by an exit message that was sent before it had       *)
(* started: messages left behind by a server that died stay in its queue.  *)
NoStaleExit ==
  \A p \in Server : stop_of[p] # <<>> => p \in stop_of[p][1]

(* The server p has received an exit message, or no longer can.            *)
Reached(p) == server[p] \in {"exiting", "gone"} \/ server[p] \in {"deaf", "dead"}

(* A stop command that opened the queue of a server that waits reaches it, *)
(* also when the queue is full: WaitExitMessage() of that server returns   *)
(* true, unless a call of boost throws on either side or the process dies. *)
(* Whether the server then ends is WebsocketServer's to say.               *)
OpenedStopIsReceived ==
  \A s \in Stopper, p \in Server :
    stopper[s] = "opened" /\ mq[s] = p /\ server[p] = "up"
      ~> Reached(p) \/ stopper[s] = "failed"

(* "-c stop" finds the queue of a server that runs alone.                  *)
AloneIsStoppable ==
  \A p \in Server :
    server[p] = "up" /\ (\A q \in Server \ {p} : ~Lives(q)) => name = p
=============================================================================
