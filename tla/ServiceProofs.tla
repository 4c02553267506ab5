--------------------------- MODULE ServiceProofs ---------------------------
(***************************************************************************)
(* Proofs about MessageQueue, for any number of servers and stop commands  *)
(* and any capacity of the queue; none of them uses ProcAssumption, so     *)
(* Server and Stopper may be any two sets there.  Behind them: the service *)
(* unit implements one server at a time on the queue, for any number of    *)
(* processes, any command lines and any files, as long as no line that is  *)
(* meant to stop the service starts one.  The program does not guarantee   *)
(* that: a "command" in config.json overrides "-c stop" (the run           *)
(* service_override); src/config.json has no such member.                  *)
(***************************************************************************)
EXTENDS Service, SequenceTheorems, TLAPS

-----------------------------------------------------------------------------
(* Types.                                                                  *)

(* What Head, Tail and Append do to a queue or to a received message.      *)
LEMMA Received ==
  ASSUME NEW q \in Seq(SUBSET Server), q # <<>>
  PROVE  /\ Head(q) \in SUBSET Server /\ Head(q) = q[1] /\ 1 \in 1 .. Len(q)
         /\ Tail(q) \in Seq(SUBSET Server) /\ Len(Tail(q)) = Len(q) - 1
         /\ \A i \in 1 .. Len(Tail(q)) : i + 1 \in 1 .. Len(q) /\ Tail(q)[i] = q[i + 1]
<1>1. Len(q) \in Nat /\ Len(q) # 0
  BY LenProperties, EmptySeq
<1> QED
  BY <1>1, HeadTailProperties, ElementOfSeq

LEMMA Sent ==
  ASSUME NEW q \in Seq(SUBSET Server), NEW m \in SUBSET Server
  PROVE  /\ Append(q, m) \in Seq(SUBSET Server) /\ Len(Append(q, m)) = Len(q) + 1
         /\ \A i \in 1 .. Len(Append(q, m)) :
              Append(q, m)[i] = IF i = Len(q) + 1 THEN m ELSE q[i]
         /\ Append(q, m) # <<>> /\ Len(q) \in Nat
BY AppendProperties, LenProperties

LEMMA QStepType ==
  ASSUME QueueAssumption, QTypeOK, QNext
  PROVE  QTypeOK'
<1>1. Up \in SUBSET Server
  BY DEF Up
<1>2. ASSUME NEW p \in Server, RemoveName(p) PROVE QTypeOK'
  BY <1>2 DEF QTypeOK, RemoveName
<1>3. ASSUME NEW p \in Server, Create(p) PROVE QTypeOK'
  BY <1>3 DEF QTypeOK, Create
<1>4. ASSUME NEW p \in Server, Die(p) PROVE QTypeOK'
  BY <1>4 DEF QTypeOK, Die
<1>5. ASSUME NEW p \in Server, WaitExitMessage(p) PROVE QTypeOK'
  <2> DEFINE q == queue[mq[p]]
  <2>1. mq[p] \in Server /\ q \in Seq(SUBSET Server) /\ Len(q) <= QueueSize /\ q # <<>>
    BY <1>5 DEF QTypeOK, WaitExitMessage
  <2>2. /\ Tail(q) \in Seq(SUBSET Server) /\ Len(Tail(q)) <= QueueSize
        /\ Head(q) \in SUBSET Server
    BY <2>1, Received, LenProperties DEF QueueAssumption
  <2>3. <<Head(q)>> \in Seq(SUBSET Server) /\ Len(<<Head(q)>>) <= 1
    BY <2>2
  <2>4. queue' = [queue EXCEPT ![mq[p]] = Tail(q)] /\ stop_of' = [stop_of EXCEPT ![p] = <<Head(q)>>]
    BY <1>5 DEF WaitExitMessage
  <2> HIDE DEF q
  <2>5. /\ queue' \in [Server -> Seq(SUBSET Server)] /\ stop_of' \in [Server -> Seq(SUBSET Server)]
        /\ \A r \in Server : Len(queue'[r]) <= QueueSize /\ Len(stop_of'[r]) <= 1
    BY <2>2, <2>3, <2>4 DEF QTypeOK
  <2> QED
    BY <1>5, <2>5 DEF QTypeOK, WaitExitMessage
<1>6. ASSUME NEW p \in Server, Destroy(p) PROVE QTypeOK'
  BY <1>6 DEF QTypeOK, Destroy
<1>7. ASSUME NEW s \in Stopper, Open(s) PROVE QTypeOK'
  BY <1>7 DEF QTypeOK, Open
<1>8. ASSUME NEW s \in Stopper, SendExitMessage(s) PROVE QTypeOK'
  <2>1. CASE mq[s] # NoQueue /\ Len(queue[mq[s]]) < QueueSize
    <3>1. mq[s] \in Server /\ queue[mq[s]] \in Seq(SUBSET Server)
      BY <2>1 DEF QTypeOK
    <3>2. /\ Append(queue[mq[s]], Up) \in Seq(SUBSET Server)
          /\ Len(Append(queue[mq[s]], Up)) <= QueueSize
      BY <1>1, <2>1, <3>1, Sent DEF QueueAssumption
    <3>3. queue' = [queue EXCEPT ![mq[s]] = Append(queue[mq[s]], Up)]
      BY <1>8, <2>1 DEF SendExitMessage
    <3>4. /\ queue' \in [Server -> Seq(SUBSET Server)]
          /\ \A r \in Server : Len(queue'[r]) <= QueueSize
      BY <3>2, <3>3 DEF QTypeOK
    <3> QED
      BY <1>8, <3>4 DEF QTypeOK, SendExitMessage
  <2>2. CASE ~(mq[s] # NoQueue /\ Len(queue[mq[s]]) < QueueSize)
    BY <1>8, <2>2 DEF QTypeOK, SendExitMessage
  <2> QED
    BY <2>1, <2>2
<1>9. ASSUME NEW p \in Server, WaitExitMessageFails(p) PROVE QTypeOK'
  BY <1>9 DEF QTypeOK, WaitExitMessageFails
<1>10. ASSUME NEW s \in Stopper, SendExitMessageFails(s) PROVE QTypeOK'
  BY <1>10 DEF QTypeOK, SendExitMessageFails
<1> QED
  BY <1>2, <1>3, <1>4, <1>5, <1>6, <1>7, <1>8, <1>9, <1>10 DEF QNext, ServerStep, StopperStep

(* Every variable keeps its type, and no queue holds more than it can.     *)
THEOREM QTypeCorrect == QSpec => []QTypeOK
<1>1. QInit => QTypeOK
  BY QueueAssumption DEF QInit, QTypeOK, QueueAssumption
<1>2. QTypeOK /\ [QNext]_qvars => QTypeOK'
  <2>1. QTypeOK /\ UNCHANGED qvars => QTypeOK'
    BY DEF QTypeOK, qvars
  <2> QED
    BY <2>1, QStepType, QueueAssumption
<1> QED
  BY <1>1, <1>2, PTL DEF QSpec

-----------------------------------------------------------------------------
(* Exit messages.  A queue has messages, and someone has it open or it has *)
(* the name, only after its server has created it; a server waits on its   *)
(* own queue or on none; and what is in the queue of a server that is up   *)
(* was sent while it was up.                                               *)

Created(p) == server[p] \in {"up", "deaf", "exiting", "gone", "dead"}

MessagesInv ==
  /\ \A p \in Server : name = p => Created(p)
  /\ \A p \in Server : mq[p] \in {p, NoQueue}
  /\ \A s \in Server \cup Stopper, p \in Server : mq[s] = p => Created(p)
  /\ \A p \in Server : queue[p] # <<>> => Created(p)
  /\ \A p \in Server : server[p] = "up" => \A i \in 1 .. Len(queue[p]) : p \in queue[p][i]

LEMMA MessagesStep ==
  ASSUME QueueAssumption, Server \cap Stopper = {}, QTypeOK, MessagesInv, NoStaleExit, QNext
  PROVE  MessagesInv' /\ NoStaleExit'
<1>1. ASSUME NEW p \in Server, RemoveName(p) PROVE MessagesInv' /\ NoStaleExit'
  BY <1>1 DEF QueueAssumption, QTypeOK, MessagesInv, NoStaleExit, RemoveName, Created
<1>2. ASSUME NEW p \in Server, Create(p) PROVE MessagesInv' /\ NoStaleExit'
  <2>1. queue[p] = <<>>
    BY <1>2 DEF MessagesInv, Create, Created
  <2>2. \A q \in Server : Created(q) => Created(q)'
    BY <1>2 DEF QTypeOK, Create, Created
  <2>3. Created(p)'
    BY <1>2 DEF QTypeOK, Create, Created
  <2>4. \A q \in Server : server'[q] = "up" => \A i \in 1 .. Len(queue'[q]) : q \in queue'[q][i]
    BY <1>2, <2>1 DEF QTypeOK, MessagesInv, Create
  <2>5. \A q \in Server : (name' = q => Created(q)') /\ (queue'[q] # <<>> => Created(q)')
    BY <1>2, <2>2, <2>3 DEF MessagesInv, Create
  <2>6. \A q \in Server : mq'[q] \in {q, NoQueue}
    BY <1>2 DEF QTypeOK, MessagesInv, Create
  <2>7. \A s \in Server \cup Stopper, q \in Server : mq'[s] = q => Created(q)'
    BY <1>2, <2>2, <2>3 DEF QTypeOK, MessagesInv, Create
  <2>8. NoStaleExit'
    BY <1>2 DEF NoStaleExit, Create
  <2> QED
    BY <2>4, <2>5, <2>6, <2>7, <2>8 DEF MessagesInv, Created
<1>3. ASSUME NEW p \in Server, Die(p) PROVE MessagesInv' /\ NoStaleExit'
  BY <1>3 DEF QTypeOK, MessagesInv, NoStaleExit, Die, Created
<1>4. ASSUME NEW p \in Server, WaitExitMessage(p) PROVE MessagesInv' /\ NoStaleExit'
  <2>1. mq[p] = p /\ server[p] = "up" /\ queue[p] # <<>> /\ queue[p] \in Seq(SUBSET Server)
    BY <1>4 DEF QTypeOK, MessagesInv, WaitExitMessage
  <2>2. p \in Head(queue[p])
    BY <2>1, Received DEF MessagesInv
  <2>3. /\ stop_of' = [stop_of EXCEPT ![p] = <<Head(queue[p])>>]
        /\ queue' = [queue EXCEPT ![p] = Tail(queue[p])]
        /\ server' = [server EXCEPT ![p] = "exiting"]
        /\ UNCHANGED <<stopper, name, mq>>
    BY <1>4, <2>1 DEF WaitExitMessage
  <2>4. NoStaleExit'
    BY <2>2, <2>3 DEF QTypeOK, NoStaleExit
  <2>5. MessagesInv'
    BY <2>1, <2>3 DEF QTypeOK, MessagesInv, Created
  <2> QED
    BY <2>4, <2>5
<1>5. ASSUME NEW p \in Server, Destroy(p) PROVE MessagesInv' /\ NoStaleExit'
  BY <1>5 DEF QueueAssumption, QTypeOK, MessagesInv, NoStaleExit, Destroy, Created
<1>6. ASSUME NEW s \in Stopper, Open(s) PROVE MessagesInv' /\ NoStaleExit'
  BY <1>6 DEF QTypeOK, MessagesInv, NoStaleExit, Open, Created
<1>7. ASSUME NEW s \in Stopper, SendExitMessage(s) PROVE MessagesInv' /\ NoStaleExit'
  <2>0. UNCHANGED <<server, name, mq, stop_of>>
    BY <1>7 DEF SendExitMessage
  <2>1. CASE mq[s] # NoQueue /\ Len(queue[mq[s]]) < QueueSize
    <3> DEFINE p == mq[s]
    <3>1. p \in Server /\ queue[p] \in Seq(SUBSET Server) /\ Created(p) /\ Up \in SUBSET Server
      BY <2>1 DEF QTypeOK, MessagesInv, Up
    <3>2. queue' = [queue EXCEPT ![p] = Append(queue[p], Up)]
      BY <1>7, <2>1 DEF SendExitMessage
    <3> HIDE DEF p
    <3>3. \A q \in Server : queue'[q] = IF q = p THEN Append(queue[p], Up) ELSE queue[q]
      BY <3>1, <3>2 DEF QTypeOK
    <3>4. server[p] = "up" => \A i \in 1 .. Len(Append(queue[p], Up)) : p \in Append(queue[p], Up)[i]
      <4>1. SUFFICES ASSUME server[p] = "up", NEW i \in 1 .. Len(Append(queue[p], Up))
                     PROVE  p \in Append(queue[p], Up)[i]
        OBVIOUS
      <4>2. p \in Up
        BY <3>1, <4>1 DEF Up
      <4>3. i = Len(queue[p]) + 1 \/ i \in 1 .. Len(queue[p])
        BY <3>1, Sent
      <4> QED
        BY <3>1, <4>1, <4>2, <4>3, Sent DEF MessagesInv
    <3> QED
      BY <2>0, <3>1, <3>3, <3>4 DEF MessagesInv, NoStaleExit, Created
  <2>2. CASE ~(mq[s] # NoQueue /\ Len(queue[mq[s]]) < QueueSize)
    BY <1>7, <2>0, <2>2 DEF MessagesInv, NoStaleExit, SendExitMessage, Created
  <2> QED
    BY <2>1, <2>2
<1>8. ASSUME NEW p \in Server, WaitExitMessageFails(p) PROVE MessagesInv' /\ NoStaleExit'
  BY <1>8 DEF QTypeOK, MessagesInv, NoStaleExit, WaitExitMessageFails, Created
<1>9. ASSUME NEW s \in Stopper, SendExitMessageFails(s) PROVE MessagesInv' /\ NoStaleExit'
  BY <1>9 DEF MessagesInv, NoStaleExit, SendExitMessageFails, Created
<1> QED
  BY <1>1, <1>2, <1>3, <1>4, <1>5, <1>6, <1>7, <1>8, <1>9 DEF QNext, ServerStep, StopperStep

(* No server is ever ended by an exit message that is older than itself,   *)
(* for any number of servers that start, crash and take the name from each *)
(* other.  A process is a server or a stop command, not both.              *)
THEOREM ExitsAreFresh ==
  ASSUME Server \cap Stopper = {}
  PROVE  QSpec => []NoStaleExit
<1>1. QInit => MessagesInv /\ NoStaleExit
  BY QueueAssumption DEF QInit, MessagesInv, NoStaleExit, QueueAssumption
<1>2. QTypeOK /\ MessagesInv /\ NoStaleExit /\ [QNext]_qvars => MessagesInv' /\ NoStaleExit'
  <2>1. MessagesInv /\ NoStaleExit /\ UNCHANGED qvars => MessagesInv' /\ NoStaleExit'
    BY DEF MessagesInv, NoStaleExit, qvars, Created
  <2> QED
    BY <2>1, MessagesStep, QueueAssumption
<1> QED
  BY <1>1, <1>2, QTypeCorrect, PTL DEF QSpec

-----------------------------------------------------------------------------
(* One server at a time: while one is up the name is its own, and while    *)
(* one is between remove() and create_only nobody has the name.            *)

OneOwner ==
  /\ server \in [Server -> {"off", "removed", "up", "deaf", "exiting", "gone", "dead"}]
  /\ \A p, q \in Server : Lives(p) /\ Lives(q) => p = q
  /\ \A p \in Server : server[p] = "removed" => name = NoQueue
  /\ \A p \in Server : server[p] = "up" => name = p

(* It needs no fairness.                                                   *)
LEMMA OneAtATimeIsStoppable == QInit /\ [][OneAtATime]_qvars => []AloneIsStoppable
<1>1. QInit => OneOwner
  BY DEF QInit, OneOwner, Lives
<1>2. OneOwner /\ [OneAtATime]_qvars => OneOwner'
  <2> SUFFICES ASSUME OneOwner, [OneAtATime]_qvars PROVE OneOwner'
    OBVIOUS
  <2>1. CASE UNCHANGED <<server, name>>
    BY <2>1 DEF OneOwner, Lives
  <2>2. ASSUME NEW p \in Server, RemoveName(p), \A q \in Server : ~Lives(q) PROVE OneOwner'
    BY <2>2 DEF OneOwner, Lives, RemoveName
  <2>3. ASSUME NEW p \in Server, Create(p) PROVE OneOwner'
    BY <2>3 DEF OneOwner, Lives, Create
  <2>4. ASSUME NEW p \in Server, Die(p) PROVE OneOwner'
    BY <2>4 DEF OneOwner, Lives, Die
  <2>5. ASSUME NEW p \in Server, WaitExitMessage(p) PROVE OneOwner'
    BY <2>5 DEF OneOwner, Lives, WaitExitMessage
  <2>6. ASSUME NEW p \in Server, Destroy(p) PROVE OneOwner'
    BY <2>6 DEF OneOwner, Lives, Destroy
  <2>7. ASSUME NEW s \in Stopper, StopperStep(s) PROVE OneOwner'
    BY <2>1, <2>7 DEF StopperStep, Open, SendExitMessage, SendExitMessageFails
  <2>8. ASSUME NEW p \in Server, WaitExitMessageFails(p) PROVE OneOwner'
    BY <2>8 DEF OneOwner, Lives, WaitExitMessageFails
  <2> QED
    BY <2>1, <2>2, <2>3, <2>4, <2>5, <2>6, <2>7, <2>8 DEF OneAtATime, ServerStep, qvars
<1>3. OneOwner => AloneIsStoppable
  BY DEF OneOwner, AloneIsStoppable
<1> QED
  BY <1>1, <1>2, <1>3, PTL

(* "-c stop" always finds the queue of the server that is up, whatever     *)
(* crashed before it.                                                      *)
THEOREM ServiceIsStoppable == OneServiceSpec => []AloneIsStoppable
BY OneAtATimeIsStoppable, PTL DEF OneServiceSpec

-----------------------------------------------------------------------------
(* The service unit.                                                       *)

(* What is asked of the command lines and of the files they name.          *)
StopLinesStop ==
  \A argv \in StopLine : Branch(argv) \notin {"listen", "daemon"}

(* A server that has not ended, or that is about to start.                 *)
Runs(p) == branch[p] = "listen" /\ server[p] \notin {"gone", "dead"}

(* Only a process that main() has sent to Listen() touches the queue as a  *)
(* server, and at most one of them has not ended: Start waits for the      *)
(* last one also while that one has yet to reach remove().                 *)
ServiceInv ==
  /\ branch \in [Proc -> {"off", "listen", "stop", "none", "terminated"}]
  /\ server \in [Server -> {"off", "removed", "up", "deaf", "exiting", "gone", "dead"}]
  /\ \A p \in Proc : server[p] # "off" => branch[p] = "listen"
  /\ \A p, q \in Proc : Runs(p) /\ Runs(q) => p = q

(* The branches main() has.                                                *)
LEMMA BranchType ==
  ASSUME NEW argv
  PROVE  Branch(argv) \in {"listen", "daemon", "stop", "none", "terminated"}
BY DEF Branch

LEMMA LaunchInv ==
  ASSUME ServiceInv, NEW p \in Proc, NEW argv, NEW up, Launch(p, argv, up),
         \/ Branch(argv) \notin {"listen", "daemon"}
         \/ \A q \in Proc : ~Runs(q)
  PROVE  ServiceInv'
<1>1. PICK b \in IF Branch(argv) = "daemon" THEN {"listen", "none"} ELSE {Branch(argv)} :
        branch' = [branch EXCEPT ![p] = b]
  BY DEF Launch
<1>2. /\ b \in {"listen", "stop", "none", "terminated"}
      /\ Branch(argv) \notin {"listen", "daemon"} => b # "listen"
  BY <1>1, BranchType
<1>3. branch[p] = "off" /\ server' = server
  BY DEF Launch, qvars
<1>4. server[p] = "off"
  BY <1>3 DEF ServiceInv
<1>5. \A q \in Proc : branch'[q] = IF q = p THEN b ELSE branch[q]
  BY <1>1 DEF ServiceInv
<1>6. branch' \in [Proc -> {"off", "listen", "stop", "none", "terminated"}]
  BY <1>1, <1>2 DEF ServiceInv
<1>7. \A q, r \in Proc : Runs(q)' /\ Runs(r)' => q = r
  BY <1>2, <1>3, <1>5 DEF ServiceInv, Runs
<1> QED
  BY <1>3, <1>4, <1>5, <1>6, <1>7 DEF ServiceInv

(* A step of the queue leaves the branches alone, and only a process that  *)
(* listens moves as a server.                                              *)
LEMMA QueueStepInv ==
  ASSUME ProcAssumption, ServiceInv, NEW p \in Proc, UNCHANGED branch,
         \/ branch[p] = "listen" /\ (RemoveName(p) \/ ServerStep(p))
         \/ Die(p)
         \/ StopperStep(p)
  PROVE  ServiceInv'
<1>1. \/ server' = server
      \/ /\ branch[p] = "listen" /\ server[p] \notin {"gone", "dead"}
         /\ \E x \in {"removed", "up", "deaf", "exiting", "gone", "dead"} :
              server' = [server EXCEPT ![p] = x]
  BY DEF ServiceInv, RemoveName, ServerStep, Create, Die, WaitExitMessage, WaitExitMessageFails,
         Destroy, Lives, StopperStep, Open, SendExitMessage, SendExitMessageFails
<1>2. CASE server' = server
  BY <1>2 DEF ServiceInv, Runs
<1>3. ASSUME branch[p] = "listen", server[p] \notin {"gone", "dead"},
             NEW x \in {"removed", "up", "deaf", "exiting", "gone", "dead"},
             server' = [server EXCEPT ![p] = x]
      PROVE  ServiceInv'
  BY <1>3 DEF ServiceInv, Runs, ProcAssumption
<1> QED
  BY <1>1, <1>2, <1>3

LEMMA ServiceStepInv ==
  ASSUME ProcAssumption, StopLinesStop, ServiceInv, [SNext]_svars
  PROVE  ServiceInv'
<1>1. CASE UNCHANGED svars
  BY <1>1 DEF svars, qvars, pvars, ServiceInv, Runs
<1>2. ASSUME NEW p \in Proc, Start(p) PROVE ServiceInv'
  <2>1. \A q \in Proc : ~Runs(q)
    BY <1>2 DEF Start, Runs
  <2> QED
    BY <1>2, <2>1, LaunchInv DEF Start
<1>3. ASSUME NEW p \in Proc, Stop(p) PROVE ServiceInv'
  BY <1>3, LaunchInv DEF Stop, StopLinesStop
<1>4. ASSUME NEW p \in Proc, Listens(p) PROVE ServiceInv'
  <2>1. CASE Die(p)
    BY <1>4, <2>1, QueueStepInv DEF Listens
  <2>2. CASE UNCHANGED qvars
    BY <1>4, <2>2 DEF Listens, qvars, ServiceInv, Runs
  <2> QED
    BY <1>4, <2>1, <2>2 DEF Listens
<1>5. ASSUME NEW p \in Proc, ServerRuns(p) \/ StopperRuns(p) PROVE ServiceInv'
  BY <1>5, QueueStepInv DEF ServerRuns, StopperRuns, pvars
<1> QED
  BY <1>1, <1>2, <1>3, <1>4, <1>5 DEF SNext

(* A server that reaches remove() is the only one that has not ended.      *)
LEMMA RemovesAlone ==
  ASSUME ProcAssumption, ServiceInv, NEW p \in Proc, branch[p] = "listen", RemoveName(p)
  PROVE  \A q \in Server : ~Lives(q)
<1>1. Runs(p) /\ server[p] = "off"
  BY DEF Runs, RemoveName
<1> SUFFICES ASSUME NEW q \in Proc, Lives(q) PROVE FALSE
  BY DEF ProcAssumption
<1>2. Runs(q)
  BY DEF Lives, Runs, ServiceInv
<1> QED
  BY <1>1, <1>2 DEF ServiceInv, Lives

(* Every step of the service is a step of the abstract service of          *)
(* MessageQueue, in which the next server starts when the last has ended,  *)
(* or leaves the queue alone.  That is what systemd's unit adds to the     *)
(* program, which by itself lets servers overlap (the run                  *)
(* message_queue_overlap).                                                 *)
THEOREM ServiceRunsOneAtATime ==
  ASSUME StopLinesStop
  PROVE  SSpec => QInit /\ [][OneAtATime]_qvars
<1>1. SInit => ServiceInv
  BY ProcAssumption DEF SInit, QInit, ServiceInv, Runs, ProcAssumption
<1>2. ServiceInv /\ [SNext]_svars => ServiceInv'
  BY ServiceStepInv, ProcAssumption
<1>3. SInit => QInit
  BY DEF SInit
<1>4. ServiceInv /\ [SNext]_svars => [OneAtATime]_qvars
  <2> SUFFICES ASSUME ServiceInv, [SNext]_svars PROVE [OneAtATime]_qvars
    OBVIOUS
  <2>1. CASE UNCHANGED svars
    BY <2>1 DEF svars
  <2>2. ASSUME NEW p \in Proc, Start(p) \/ Stop(p) PROVE UNCHANGED qvars
    BY <2>2 DEF Start, Stop, Launch, qvars
  <2>3. ASSUME NEW p \in Proc, Listens(p) PROVE [OneAtATime]_qvars
    <3>1. Die(p) \/ UNCHANGED qvars
      BY <2>3 DEF Listens
    <3> QED
      BY <3>1, ProcAssumption DEF OneAtATime, ServerStep, ProcAssumption
  <2>4. ASSUME NEW p \in Proc, ServerRuns(p) PROVE OneAtATime
    BY <2>4, RemovesAlone, ProcAssumption DEF ServerRuns, OneAtATime, ProcAssumption
  <2>5. ASSUME NEW p \in Proc, StopperRuns(p) PROVE OneAtATime
    BY <2>5, ProcAssumption DEF StopperRuns, OneAtATime, ProcAssumption
  <2> QED
    BY <2>1, <2>2, <2>3, <2>4, <2>5 DEF SNext
<1> QED
  BY <1>1, <1>2, <1>3, <1>4, PTL DEF SSpec

(* ExecStop finds the queue of the server the unit runs: whichever process *)
(* died before it, at whichever step of its start or its end, the name is  *)
(* that of the server that is up.                                          *)
THEOREM RunningServiceIsStoppable ==
  ASSUME StopLinesStop
  PROVE  SSpec => []AloneIsStoppable
<1>1. QInit /\ [][OneAtATime]_qvars => []AloneIsStoppable
  BY OneAtATimeIsStoppable
<1> QED
  BY <1>1, ServiceRunsOneAtATime, PTL
=============================================================================
