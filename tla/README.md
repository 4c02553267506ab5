# A TLA+ model of the WebSocket signalling server

The program is a signalling server for WebRTC-like calls. Clients connect over
WebSocket (plain, port 2000, or TLS, port 9002), sign in under a name, get an
integer id, and send each other messages through the server. This directory
holds a model of it, TLC configurations that check the model, and proofs.

## 1. Inventory

| Part | State | Operations | Hard behaviour |
|---|---|---|---|
| `SignalServer` (`signal_server.*`) | `m_map_peers`, `m_last_id`, `m_vPairID` | sign_in, sign_out, message, exist, `OnClose` | ids after the counter goes around, stale pairs, texts that make a conversion throw |
| `WebsocketServer` (`websocket_server.*`) | `m_actions`, the two connection lists, two locks, two condition variables, four threads | callbacks, `process_messages`, `loop_ping`, `wait_exit_message`, `Listen` | interleavings, lost wakeups, shutdown, a data race in `on_pong_timeout` |
| Heartbeat (`loop_ping`, `on_pong_timeout`) | the pong timers of websocketpp | ping, pong, timeout | a timeout longer than the period of what restarts it |
| `MessageQueue` (`message_queue.*`) | a named inter-process queue | create, open, send, receive, destroy | several processes, crashes, a full queue |
| Start-up (`WebsocketSignalServer.cpp`) | options, `g_ice_server` | options, config file, ICE string, dispatch | the config file overrides the command line; `size_t` and `uint16_t` conversions; exceptions |
| Service unit (`wsSignalServer.service`) | none of its own | ExecStart, ExecStop | each is a process with a configuration file of its own |
| jsoncpp, vendored (`json_reader.cpp`, `json_writer.cpp`, `json_value.cpp`) | none between calls | `parse`, `toStyledString`, `asInt`, `asString` | nesting, recovery from errors, UTF-8, integer limits |
| Logging, TLS set-up, HTTP page | none of their own | output and library calls | none modelled |
| OpenSSL, websocketpp, Boost | third party | | modelled from their use only |

How they interact. The main thread runs the I/O loop of both endpoints. Its
callbacks do nothing but push an action on `m_actions`. Thread t1
(`process_messages`) takes the actions one at a time and, under
`m_connection_lock`, changes the connection lists and calls `OnReceive` and
`OnClose`, which `SignalServer` overrides; these read the text with jsoncpp and
send through `WebsocketServer::Send`. Thread t2 (`loop_ping`) pings every listed
connection every five seconds under the same lock. Thread t3
(`wait_exit_message`) blocks on the message queue; when `wsSignalServer -c stop`
in another process has sent a message, it notifies t2, stops the I/O loop and
pushes `EXIT` for t1. `Listen` then joins t3, t2 and t1. Which of the two a
process is, server or stop command, `main()` decides from the command line and
the configuration file.

What makes the parts correct:

- `SignalServer`: ids are unique and not reused soon, the search for one ends;
  whoever leaves a call has its partner, and nobody else, told.
- `WebsocketServer`: no action is forgotten, the lists follow the connections,
  the ping loop is safe, a handle is given to the endpoint it belongs to, and
  the stop command ends all threads.
- Heartbeat: what a pong timeout can and cannot do.
- `MessageQueue`, start-up and the unit: a stop command reaches the server that
  runs, and no other, whatever the configuration file says.
- The readers: what is accepted was JSON, what is relayed reads as it was sent,
  an id is the number that was written, and the ICE string is taken apart where
  its author meant it.

The `hazards` of `PROJECT.json` give the line where each of these can go wrong.

## 2. Modules

| Module | Models |
|---|---|
| `SignalServer` | the registry, ids, pairs and handlers; one handler is one action |
| `SignalServerHistory` | the same with a history variable, the age of every id |
| `WellBehavedClients` | the same under clients that keep the protocol, with renegotiation (`WSpec`) or with one offer per call (`OnceSpec`); the refinement mapping |
| `CallDirectory` | abstract specification: who is present, who calls whom, who is told |
| `WebsocketServer` | the four threads, the queue, the lists, the locks |
| `SignalSystem` | `WebsocketServer`'s threads with `SignalServer`'s handlers on t1 |
| `Heartbeat` | pings, pongs and timeouts with their durations |
| `MessageQueue` | server processes and stop commands on one queue name |
| `Startup` | `arg_option` and `main()` up to the branch it takes, as functions of the command line and the file |
| `Service` | processes of the unit: `Startup` decides what each one is, `MessageQueue` what it does |
| `JsonText` | `Reader::parse` and the styled writer, on tokens |
| `JsonString` | `decodeString` and `valueToQuotedStringN`, on bytes and escapes |
| `JsonNumber` | `decodeNumber`, `asInt` and `valueToString`, on digits, with the limits of the integer types as constants |
| `IceServer` | the parser of the ICE string |
| `Reading`, `TextReaders` | one text read by one of the four readers, and the four together |
| `...Proofs` | theorems and their proofs; those of `MessageQueue` are in `ServiceProofs`, those of `JsonString`, `JsonNumber` and `IceServer` in `ReadersProofs` |
| `MC...` | values of the constants for TLC |

Definitions named `X_Something` with a comment "Mutant:" are plausible bugs of
`X`. No specification uses them; each is a change of the code under which one
of the properties fails.

### Correspondence with the code

*SignalServer.* Variables carry the names of the members. The handlers run on
t1 only and hold `m_connection_lock`, so one handler is one step;
`m_mutex_peers` has no second user. A request is a record of the fields its
handler reads. `IntField` has the values that `asInt()` tells apart: integers, a
missing member (which reads as 0), and everything it throws on. Strings that
`asString()` throws on are `NotAString`. A text that makes a conversion throw,
or that is nested deeper than jsoncpp allows, ends the process (`Terminate`):
nothing on t1 catches it. `sent` holds what the handler addressed to whom.
Display, `status`, `ice` and the payload of a message are left out. A test for
`expired()` that skips a `Send()` to a destroyed connection is not distinguished
from a `Send()` that fails.

*WellBehavedClients.* What the server relies on and does not check: one sign-in
per connection, the client's own id in `from` and in sign_out, one partner per
sign-in. Every offer records a pair and every departure erases one, so those of
a renegotiation stay behind. `FreshId` says that no id in such a pair is issued
again, which takes `INT_MAX` sign-ins; `OnceSpec` does not need it.

*WebsocketServer.* One action per section that is atomic in the code. A
callback is two steps, the push under `m_action_lock` and `notify_one()` after
it. `process_messages` is: take or sleep (`Take`), acquire `m_connection_lock`,
the branch. `loop_ping` is: reset `ready_` and wait, return from the wait,
acquire the lock, one step per ping, release. `Listen()` may abort (a port is
taken: `std::terminate`, since the threads are joinable). The read of
`m_con_list_plain` in `on_pong_timeout`, which takes no lock, gives any answer
while t1 is changing the set, and calling the wrong endpoint's `close()` either
does nothing or ends the process. websocketpp is modelled from its use: one
open, then messages, then one close per connection, all on the I/O thread; a
ping of an open connection arms the pong timer, a pong disarms it.

*SignalSystem.* The branch for `UNSUBSCRIBE` erases from the lists and then
calls `OnClose`; the branch for `MESSAGE` calls `OnReceive` for a text frame.
`Send` chooses the endpoint by membership in `m_con_list_plain`. (The comment at
`websocket_server.h:27`, "on_message queue send to all channels", describes
another program: a message is relayed to the one peer it names.)

*Heartbeat.* A tick is a second. `waited` is the time since the last round of
pings, which comes `PingPeriod` later plus at most `MaxDelay` for the lock and
the sends. A ping cancels the timer that runs and starts a new one; a timer that
has run down fires before time goes on. t1's part is only when a connection
enters and leaves the lists.

*MessageQueue.* A queue is identified with the server that created it, the name
with the queue it refers to. The constructor is two steps, `remove()` and
`create_only`; the destructor removes the name whoever owns it; a server may die
at any point. An exit message is the set of the servers that were up when it was
sent, which the real message does not carry. A server that has received it is
`"exiting"`; that it then reaches its destructor is not promised here, since
`Listen()` may fail to return. If `mq_` is null or `receive()` throws,
`WaitExitMessage()` returns false and the server is `"deaf"`: it runs on, its queue
perhaps under the name, and nobody listens. A stop command whose `try_send()` throws
is `"failed"`.

*Startup, Service.* A configuration file is absent, refused by the parser, of the
wrong type, or an object with typed members; `ConfigThrows` has the conversions
that throw. `Launch` takes the branch of `main()`; the daemon branch may fail. A
server then goes through `MessageQueue`'s steps, and `Listens` is the two
`listen()` calls of `run()`: the port as a `uint16_t` or 9002 being taken ends
the process. systemd is external: it starts the unit when no server of it runs
and stops it at any time.

*The readers.* Reading is sequential, so it is one step from a text to a result,
and the specification's states are the texts. `JsonText` has one operator per
function of the reader, with positions for `current_`; a token that does not
decode is `"bad"`. `readValue()` is a function of how many nodes still fit on
`nodes_` (`Reader`), the loops of `readObject()` and `readArray()` are functions of
the number of rounds, and values, their texts and what is written for them are
functions of the depth of nesting; none needs a `RECURSIVE` operator. `parse()`
attaches the comments it skips to values, and the writer writes them: before an
element or a name, behind the comma after it, before a bracket that closes, and
around the whole. Which comment goes where is left open: `toStyledString` is the set
of all texts with any run of comments (`CommentRuns`) in each of these places, and
without any if the text that was read had none (`CommentsOf`). `JsonString` and `JsonNumber`
are the two decoders and what the writer makes of their results; each of their
loops is a recursive function of the number of turns, and one turn of the string
loops is an operator (`DecodeTurn`, `WriteTurn`). `IceServer` counts
from 0 and takes a negative length for a huge one, as `substr` does.

## 3. Runs

| Run | Checks | Bounds | Distinct states |
|---|---|---|---|
| `signal_server` | `TypeOK`, `UniqueIds`, `NextIDEnds`, `ReuseDistance` | 2 connections, 2 names, `IntMax` 5, 1 pair, any request | 41115 |
| `well_behaved_clients` | `PairsAreCalls`, `ImplementsCallDirectory` (`OnceSpec`) | 4 connections, `IntMax` 5, 2 pairs | 25877 |
| `renegotiation` | `ImplementsCallDirectory` (`WSpec`) | 3 connections, `IntMax` 4, 3 pairs | 33710 |
| `signal_system` | `WTypeOK`, `NoLostWakeup`, `PingIterationStable`, `ListsFollowConnections`, `SenderListed`, `PongTimeoutEndpoint`, `PeersListed`, `SendsToOwnEndpoint` | 1 plain, 1 TLS connection, 1 message each, 3 texts | 1.9 million |
| `signal_system_live` | `ClosedForgotten`, `ExitReachesJoin2`, `NotifiedWaiterExits`, `ClosedSignedOut` | 1 connection, 2 messages | 68714 |
| `websocket_stop` | `StopCompletes`: **violated** | 1 connection, 1 message | |
| `heartbeat` | `TimeoutsFindClosed` | 2 connections, period 5, timeout 15, delay up to 9 | 4303 |
| `message_queue` | `QTypeOK`, `NoStaleExit`, `OpenedStopIsReceived` | 3 servers, 2 stop commands, capacity 1 | 247452 |
| `message_queue_overlap` | `AloneIsStoppable`: **violated** | the same, any order | |
| `service` | `AloneIsStoppable`, `StopReachesService` | 3 processes, capacity 1, 3 start lines, 2 stop lines, 3 files | 19370 |
| `service_override` | `StopReachesService`: **violated** | the same with a corrected `config.json` | |
| `text_readers` | `AcceptedIsJson`, `JsonIsAccepted`, `RelayedReadsTheSame`, `UTF8ReadsBack`, `WrittenIsAccepted`, `IdIsDenoted`, `WrittenReadsBack`, `WellFormedIsParsed` | see below | 361378 |

The threads are checked with the handlers in place (`signal_system`), not by
themselves: `SignalSystem` refines the choice of `WebsocketServer` whether a
handler throws by what the handlers really do.

Why the bounds are enough. An `IntMax` of 5 with 2 (or 4) connections lets the
counter go around many times with ids held in every position. Four connections
are two calls, the least in which the wrong partner could be told; with
renegotiation three are a call, what it leaves behind and a newcomer. `MaxPairs`
bounds a vector that the code lets grow without limit; with one offer per call 2
is all that 4 connections can fill. One connection of each kind is the least
that tells the endpoints apart, and the theorems lift the safety properties of
the threads to any number of connections and messages. Capacity 1 with two stop
commands makes the queue full; three servers are the one that runs, one that
comes in between and one after it. The heartbeat runs with the code's own
numbers and the longest delay that leaves the ping before the timeout.
Connections are symmetric in the runs of `SignalServer`; no run with a liveness
property uses symmetry.

`OpenedStopIsReceived` and `StopReachesService` end where the message is received:
`WaitExitMessage()` of the server returns true, or boost threw on one side, or the
server died. That a received message ends the server is the business of the threads:
`ExitReachesJoin2` and `NotifiedWaiterExits` say what holds, `websocket_stop` what
does not.

The readers get: every sequence of up to four of nine tokens, and every insertion,
deletion or replacement of one token in every text of 30-odd values, with a
stack limit of 3 and values up to a depth (`MaxDepth`) of 4, so that some are just within the limit
and some just beyond it, and no comment or one in each place where the writer or
the grammar has comments; every
sequence of up to three units from the edges of the UTF-8 ranges, and four-byte
sequences after each kind of lead byte; every integer of up to four digits with
a `maxUInt` of 31 and a `maxLargestUInt` of 255, where 31, 127, 128 and 255 have their neighbours on both
sides; every ICE string of up to seven characters over the separators and a letter.

### What the violated properties show

- `StopCompletes`. `condition_mutex::wait` (`websocket_server.h:42`) sets
  `ready_` to false before it waits. The exit notification is sent once; if
  loop_ping is pinging or waiting for the lock at that moment it is forgotten and
  `Listen` blocks in `t2.join()`. `ExitReachesJoin2` and `NotifiedWaiterExits`
  say what does hold: everything but t2 ends, and t2 too if it was waiting.
- `AloneIsStoppable`. A server that is started while another runs takes the queue
  name away. If it dies before it has created its own queue, the name is gone (the
  trace TLC finds); if it gets further and its port is taken, it dies and its queue
  keeps the name. The first runs on, and `-c stop` finds no queue or one that
  nobody reads. For servers started one after the other the property holds.
- `StopReachesService`. The configuration file overrides the command line
  (`WebsocketSignalServer.cpp:130`), so with a `"command"` in `config.json` the
  unit's `-c stop` starts a second server. The file in the repository spells the
  key `"comand"`, which nothing reads; that hides it, and with that file the
  property holds (`service`).

`TimeoutsFindClosed` holds and is bad news all the same: the pong timeout of 15 s
is restarted every 5 s and never closes a silent connection.

### Fairness

`WebsocketServer` and `SignalSystem`: the operating system runs every thread
that can run. t1 and t2 compete for `m_connection_lock`; t2 sleeps for five
seconds between two uses of it, so neither is passed over for ever, which is
strong fairness of the two threads. Callbacks, exceptions, spurious wakeups and
the arrival of the stop message are not fair. `MessageQueue` and `Service`: a
server that waits receives a message that is there, a stop command that was
started runs to its end; starting, stopping and crashing are not fair.

Deadlock is checked in all runs but those of `SignalServer` (the bound on the
pairs and the end of the process stop the model) and of `MessageQueue` and
`Service` (all processes may have ended).

## 4. Proofs

All theorems hold for every value of the constants that satisfies the named
assumptions (`ConstantsAssumption`, `EndpointsAssumption`, `QueueAssumption`,
`HeartbeatAssumption`, and others that a theorem names itself).

*SignalServerProofs.* `TypeCorrect`, `IdsUnique` and `NextIDReturns`. `UniqueIds`
needs `TypeOK` and the search of `NextID`: the id it returns is held by nobody,
and the entry written by a sign-in is the only one that changes. `NextIDEnds`
says that the search ends as long as fewer peers than ids are signed in; the proof
counts the ids held. The lemmas say what `SelectInSeq`, `RemoveAt` and the handlers
return. `IdsFarApart` proves `ReuseDistance` for finitely many connections. Its
invariant `FarApart` counts, for every id that was issued before, the free ids the
counter passes first: they and the sign-ins since then make up `INT_MAX` but for
the connections. A sign-in takes one from the first and adds one to the second; a
departure only adds to the first. All of it holds for arbitrary clients.

*WellBehavedClientsProofs.* `CallDirectoryImplemented`: the refinement, initial
states to initial states and every step to a step or a stutter. It rests on
`WInv`, whose own part is `OnePartner`: over all recorded offers, those left
behind included, an id has at most one partner. `RemovePairID` stops at the first
match, and with `OnePartner` it does not matter which one that is. For clients
with one offer per call `NoPairLeftBehind` proves `PairsAreCalls`, and
`OnceImplementsCallDirectory` the refinement without `FreshId`.

*WebsocketServerProofs.* `WakeupNeverLost` is inductive by itself. The others
rest on the invariant `WInv`, proved inductive one action at a time:

- `QueueInOrder`: for each connection the pending actions are a SUBSCRIBE of its
  own kind first, then messages, then at most one UNSUBSCRIBE, last;
- `OwnLists` and `Accounted`: the lists hold a connection under its own endpoint
  only, and its state, its membership and its pending actions agree;
- `Locking`: the holder of `m_connection_lock` is where its program counter says
  it is, and what is left to ping is listed;
- `Timers`: a connection with a pong timer running is listed until it is closed.

Without the order of the queue none of `SenderListed`, `ListsFollowConnections`
and `PongTimeoutEndpoint` is inductive: a message in hand says nothing about the
SUBSCRIBE before it.

*SignalSystemProofs.* Every step of `SignalSystem` is a step of `WebsocketServer`,
so `WInv` holds of it; on top of it `SysInv` says that the registry, and the
addressees of what the last handler sent, are within the lists of their own
endpoints. From it `PeersAreListed` and the action property `SendsAreRouted`.
`HandlersRunAlone` proves that the running server implements `SignalServer`: the
registry changes only as one handler at a time changes it, for a connection, with
a text of a client. What is proved of the registry alone therefore holds under
the threads: `RunningIdsUnique` and `RunningSearchEnds`.

*HeartbeatProofs.* `TimeoutsTooLate` from `BInv`, the types and `Restarted`: what is left of the timer of
a connection that is not closed and the time since the last pings add up to
`PongTimeout`, so it cannot have run down while a ping is due earlier. That is
what `PingPeriod + MaxDelay < PongTimeout` is for.

*ServiceProofs.* First about the queue: `QTypeCorrect`; `ExitsAreFresh` from
`MessagesInv` (a queue holds messages only once its server has created it, and what
is in the queue of a server that is up was sent while it was up), for servers and
stop commands that are different processes; `ServiceIsStoppable` from `OneOwner` (at
most one server lives, and while it is up the name is its own). Then about the
service: `ServiceRunsOneAtATime`: a step of the unit is, on the queue, a step
of `MessageQueue` with one server at a time or none, so `RunningServiceIsStoppable`
follows from the proof above. `ServiceInv` says that only a process whose `main()`
chose to listen is a server, and that one of them runs at most. The hypothesis
`StopLinesStop`, that no stop line is sent to `Listen()` by its configuration file,
is what the run `service_override` shows to be needed; `service` has files with
which it holds.

*ReadersProofs.* Texts of every length.

- `IceIsParsed`. `IceString` bounds the length by a constant; the proof is for
  each. The positions that `find` returns are those its author meant, since each
  is the first of its separator after the one before.
- `IdsAreDenoted` and `IntegersReadBack`. The invariant of the loop of `decodeNumber`
  is that its value is what the digits so far denote and is within the threshold, so
  the test before the last digit decides whether the number fits; that of the writer's
  loop is that the digits written and the rest denote the number. They hold for
  integer types of any width (`WidthAssumption`).
- `UTF8IsReadBack` and `WrittenStringsAreAccepted`. `EncodedIsOne` and `OneIsDecoded`
  are about one character: the bytes of a code point are taken apart into the same
  code point, range by range. `WriterTurn` and `ReaderTurn` say what one turn of a loop
  does, `HaltingLoop` that a loop which moves on in every turn has halted after as many
  turns as there is to read. `Paired` relates the n-th turn of the writer to the n-th
  turn of the reader of its output: the reader has read all that the writer had
  written by then and holds UTF-8 (`UTF8Grows`), and if the string can be cut up into
  code points, it holds the part of it that the writer had taken.

A recursive function is defined by its equation only. `LoopRuns` shows that a
function with that equation exists, by induction over a set of numbers
(`InductionUpTo`, from the well-foundedness of `<`); this is how induction is
done without a theorem that has an operator as a parameter.

*JsonTextProofs.* Texts of any length, any strings and scalars, a stack of any
height. The only assumption is `TextAssumption`: strings, scalars and marks are
different tokens, and the values considered are at least as deep as the stack. The three
theorems rest on three lemmas, each an induction over the levels of nesting and,
within a level, over the rounds of a loop or the parts of what is joined:

- `WrittenIsText`: what is written for a value, with a run of comments before it, is
  one of the texts that the grammar has for it with such comments;
- `ReaderAnswers`: where the reader accepts a value in a plain text, a text of that
  value stands from there up to where it stopped. The invariant of a loop is that
  the elements or members read so far, joined with commas, stand in the text up to
  the comma behind the last. That no name occurs twice makes a member that is read
  a new one; that none is empty excludes the comma before a `}` that the reader lets
  pass; without comments the separator is a comma;
- `ReaderReadsTexts`: where a text of a value stands, that value is read to its end
  if the stack has room for it, and otherwise the reader throws. The loop is
  followed part by part, by where in the text (`At`) each element or member stands;
  the comments before a part, and behind the last one, are skipped (`RunSkipped`).

`AcceptedTextsAreJson` follows from `ReaderAnswers`, `JsonTextsAreAccepted` from
`ReaderReadsTexts`, and `RelayedTextsReadTheSame` from `WrittenIsText` and
`ReaderReadsTexts`. The last needs no `Plain`: what is written is a text of the value
even if the sender's was not, and comments stand only where the reader skips them.

Only model-checked: the liveness properties and everything under fairness
(`ClosedForgotten`, `ExitReachesJoin2`, `NotifiedWaiterExits`, `ClosedSignedOut`,
`OpenedStopIsReceived`, `StopReachesService`), which are out of the prover's reach. Every
invariant and every safety property that a passing run checks is stated by a
theorem. What is proved about the readers is proved about their models on tokens,
bytes and digits; that these are cut and joined as `Reader::readToken()` does is
not modelled.

## 5. Not modelled

- TLS set-up and the HTTP page: calls into libraries, no state of the program.
- Logging and the printed peer table: output. `log_filter` is read, and its
  conversion can throw (`Startup`); what it filters is left out.
- Both `Broadcast` overloads of `WebsocketServer`, that of `SignalServer` and the
  binary `Send`: never called.
- Clients that call a second peer during a call: the code promises nothing, since
  `RemovePairID` erases the first pair it finds. `signal_server` enumerates them and
  checks what holds for all clients.
- A configuration file that makes `ExecStop` throw: then the stop command does not
  stop anything, and nothing in the repository says otherwise.
- jsoncpp beyond what the server calls: `OurReader`, `CharReaderBuilder`,
  `FastWriter` and the other writers, `Path`, iterators. Of what it calls: what a
  comment says and to which value it is attached, the layout of the output, and doubles (`decodeDouble`, which no
  handler reads). `AcceptedIsJson` leaves out texts with comments or with empty or
  repeated names, with which the reader is lenient; `JsonIsAccepted` has comments where the grammar of
  `Texts` has them, and `RelayedReadsTheSame` covers all texts that are accepted.
  A second half of a surrogate pair by itself is read as it stands and relayed as
  U+FFFD: `UTF8ReadsBack` is about UTF-8 only, and `WrittenIsAccepted` covers the rest.
- OpenSSL: 32000 lines of headers, declarations without behaviour of this program.
  Of the 40000 lines in the repository the program's own are about 1200; the model
  covers those, and of the vendored code the part on the path of a message.

## 6. Plan

Done: all components of the program's own code, the composition of handlers and
threads, the abstract specification and its refinement, the service unit, the
readers on the path of a message, and proofs of all safety properties. Left:

1. The partner is told: liveness through queue, handler and notice, in
   `SignalSystem` with two signed-in connections.
2. Safety of `MessageQueue` and `Service` composed with `WebsocketServer`: the exit
   message that t3 receives is one of the queue's.
3. Doubles in `JsonNumber`, if a handler should ever read one.
