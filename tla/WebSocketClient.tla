--------------------------- MODULE WebSocketClient ---------------------------
(***************************************************************************)
(* The WebSocket clients (REST_WebSocketClient, REST_JsonWebSocketClient). *)
(*                                                                         *)
(* Each connected socket has a thread of its own, WebSocketReadLoop, that  *)
(* pushes one event per message and one when the connection ends.  The     *)
(* main thread connects and closes sockets, drains the events into         *)
(* callbacks, and after a disconnect callback erases the connection and    *)
(* joins its thread.  reset() and the destructor stop every socket and     *)
(* join all threads.  Both sides may end a connection at the same time:    *)
(* `disconnectEmitted` decides who reports it, while `closeStatus` is      *)
(* written and read by both without a lock.                                *)
(*                                                                         *)
(* One action is one access to shared state.  Payloads, reasons and the    *)
(* outgoing direction (WebSocketSendText changes nothing modelled here)    *)
(* are left out; a JSON message is followed for the node it stores.        *)
(***************************************************************************)
EXTENDS Integers, Sequences, FiniteSets

CONSTANTS
    MaxSockets,     \* bound: socket ids handed out
    MaxMessages,    \* bound: messages received, over all sockets
    MaxResets       \* bound: changes of gamemode

ASSUME BoundsAssumption ==
    MaxSockets \in Nat /\ MaxMessages \in Nat /\ MaxResets \in Nat

VARIABLES
    webSocketConnections,   \* sockets in the map
    nextWebSocketId,
    jsonMode,               \* sockets opened with jsonMode
    stopToken,              \* sockets whose stopToken is set
    closed,                 \* sockets whose client is no longer open
    closeStatus,            \* of each connection
    disconnectEmitted,      \* sockets whose flag is set
    pendingWebSocketEvents,
    jsonNodes,              \* handles in the JSON node store
    nextJsonNodeId,
    rpc,                    \* program counter of each read thread
    report,                 \* status and error each read thread will report
    node,                   \* the node each read thread has stored and not pushed
    messages,               \* messages received (bounds the model)
    batch,                  \* DrainEvents' local vector, callbacks to run
    mpc,                    \* program counter of the main thread
    target,                 \* the socket CloseWebSocketClient works on
    status,                 \* the status it was called with
    toStop,                 \* sockets ShutdownWebSocketConnections has yet to stop
    joining,                \* threads the main thread is joining
    afterJoin,              \* where the main thread goes from there
    cleanup,                \* the socket to clean up when its callback returns
    resets,                 \* number of resets (bounds the model)
    epoch,                  \* history: first socket id after the last reset
    heard,                  \* history: the events each socket's callbacks had
    scriptNodes,            \* history: nodes callbacks handed to the script
    mainClosed,             \* history: sockets closed by the main thread
    causes                  \* history: what ended or failed on each socket

connVars   == <<webSocketConnections, nextWebSocketId, jsonMode>>
flagVars   == <<stopToken, closed, closeStatus, disconnectEmitted>>
nodeVars   == <<jsonNodes, nextJsonNodeId>>
readerVars == <<rpc, report, node, messages>>
drainVars  == <<batch, cleanup>>
closeVars  == <<target, status, toStop, joining, afterJoin>>
resetVars  == <<resets, epoch>>
history    == <<heard, scriptNodes, mainClosed, causes>>
mainVars   == <<drainVars, mpc, closeVars, resetVars, history>>
vars == <<connVars, flagVars, pendingWebSocketEvents, nodeVars, readerVars, mainVars>>

Sockets  == 0 .. MaxSockets - 1
NoSocket == -1
NoNode   == -1
NodeIds  == 1 .. MaxMessages            \* a message stores at most one node
Statuses == {"Normal", "GoingAway", "Abnormal", "InvalidPayload"}
ScriptStatuses == {"Normal", "GoingAway"}   \* what the script closes with
Errors   == {"NONE", "WEBSOCKET", "JSON_PARSE"}
Causes   == {"peerClose", "broken", "payload"}
Reports  == [status : Statuses, error : Errors]
NoReport == [status |-> "Normal", error |-> "NONE"]
Message(s, n) == [id |-> s, type |-> "Message", node |-> n]
Disconnected(s, st, err) == [id |-> s, type |-> "Disconnected", status |-> st, error |-> err]
Events == {Message(s, n) : s \in Sockets, n \in NodeIds \cup {NoNode}}
          \cup {Disconnected(s, st, err) : s \in Sockets, st \in Statuses, err \in Errors}

Push(event) == pendingWebSocketEvents' = Append(pendingWebSocketEvents, event)
Transition(s, from, to) == rpc[s] = from /\ rpc' = [rpc EXCEPT ![s] = to]

Init ==
    /\ webSocketConnections = {} /\ nextWebSocketId = 0 /\ jsonMode = {}
    /\ stopToken = {} /\ closed = {} /\ disconnectEmitted = {}
    /\ closeStatus = [s \in Sockets |-> "Normal"]
    /\ pendingWebSocketEvents = <<>>
    /\ jsonNodes = {} /\ nextJsonNodeId = 1
    /\ rpc = [s \in Sockets |-> "none"]
    /\ report = [s \in Sockets |-> NoReport]
    /\ node = [s \in Sockets |-> NoNode]
    /\ messages = 0
    /\ batch = <<>> /\ cleanup = NoSocket
    /\ mpc = "script" /\ target = NoSocket /\ status = "Normal"
    /\ toStop = {} /\ joining = {} /\ afterJoin = "script"
    /\ resets = 0 /\ epoch = 0
    /\ heard = [s \in Sockets |-> <<>>]
    /\ scriptNodes = {} /\ mainClosed = {} /\ causes = {}

-----------------------------------------------------------------------------
(* WebSocketReadLoop on the thread of socket s.                            *)

\* `while (!stopToken)`; when it ends, the connection's status is reported.
LoopTest(s) ==
    /\ rpc[s] = "loop"
    /\ IF s \in stopToken
       THEN /\ rpc' = [rpc EXCEPT ![s] = "emit"]
            /\ report' = [report EXCEPT ![s] = [status |-> closeStatus[s], error |-> "NONE"]]
       ELSE /\ rpc' = [rpc EXCEPT ![s] = "read"]
            /\ UNCHANGED report
    /\ UNCHANGED <<connVars, flagVars, pendingWebSocketEvents, nodeVars, node, messages,
                   mainVars>>

\* WebSocket::read looks at closed_ once before it waits for a frame.
EnterRead(s) ==
    /\ rpc[s] = "read"
    /\ rpc' = [rpc EXCEPT ![s] = IF s \in closed THEN "failStatus" ELSE "reading"]
    /\ UNCHANGED <<connVars, flagVars, pendingWebSocketEvents, nodeVars, report, node, messages,
                   mainVars>>

\* A message; in JSON mode it parses or it does not.
ReadMessage(s) ==
    /\ rpc[s] = "reading" /\ messages < MaxMessages
    /\ messages' = messages + 1
    /\ \E next \in (IF s \in jsonMode THEN {"store", "badStatus"} ELSE {"push"}) :
          rpc' = [rpc EXCEPT ![s] = next]
    /\ UNCHANGED <<connVars, flagVars, pendingWebSocketEvents, nodeVars, report, node, mainVars>>

\* The peer's Close frame with 1000 (clean), a broken connection or a read
\* timeout; with the client closed on this side, what comes after does not
\* count as a cause.
ReadFails(s, clean) ==
    /\ Transition(s, "reading", "failStatus")
    /\ closed' = closed \cup {s}
    /\ causes' = IF s \in closed THEN causes
                 ELSE causes \cup {<<s, IF clean THEN "peerClose" ELSE "broken">>}
    /\ UNCHANGED <<connVars, stopToken, closeStatus, disconnectEmitted, pendingWebSocketEvents,
                   nodeVars, report, node, messages, drainVars, mpc, closeVars, resetVars, heard,
                   scriptNodes, mainClosed>>

\* The three reads of shared fields that make up the report of a failed read.
FailStatus(s) ==
    /\ Transition(s, "failStatus", "failStop")
    /\ report' = [report EXCEPT ![s].status = closeStatus[s]]
    /\ UNCHANGED <<connVars, flagVars, pendingWebSocketEvents, nodeVars, node, messages,
                   mainVars>>

\* Mutant: the normal close code is reported for a broken connection.
FailStopKeepsStatus(s) ==
    /\ Transition(s, "failStop", "failError")
    /\ UNCHANGED <<connVars, flagVars, pendingWebSocketEvents, nodeVars, report, node, messages,
                   mainVars>>

FailStop(s) ==
    /\ Transition(s, "failStop", "failError")
    /\ report' = IF s \notin stopToken /\ report[s].status = "Normal"
                 THEN [report EXCEPT ![s].status = "Abnormal"] ELSE report
    /\ UNCHANGED <<connVars, flagVars, pendingWebSocketEvents, nodeVars, node, messages,
                   mainVars>>

FailError(s) ==
    /\ Transition(s, "failError", "emit")
    /\ report' = [report EXCEPT ![s].error = IF s \in stopToken THEN "NONE" ELSE "WEBSOCKET"]
    /\ UNCHANGED <<connVars, flagVars, pendingWebSocketEvents, nodeVars, node, messages,
                   mainVars>>

\* A payload that is not JSON: status, token, close, and the status again.
BadPayloadStatus(s) ==
    /\ Transition(s, "badStatus", "badStop")
    /\ closeStatus' = [closeStatus EXCEPT ![s] = "InvalidPayload"]
    /\ causes' = causes \cup {<<s, "payload">>}
    /\ UNCHANGED <<connVars, stopToken, closed, disconnectEmitted, pendingWebSocketEvents,
                   nodeVars, report, node, messages, drainVars, mpc, closeVars, resetVars, heard,
                   scriptNodes, mainClosed>>

BadPayloadStop(s) ==
    /\ Transition(s, "badStop", "badClose")
    /\ stopToken' = stopToken \cup {s}
    /\ UNCHANGED <<connVars, closed, closeStatus, disconnectEmitted, pendingWebSocketEvents,
                   nodeVars, report, node, messages, mainVars>>

BadPayloadClose(s) ==
    /\ Transition(s, "badClose", "badReport")
    /\ closed' = closed \cup {s}
    /\ UNCHANGED <<connVars, stopToken, closeStatus, disconnectEmitted, pendingWebSocketEvents,
                   nodeVars, report, node, messages, mainVars>>

BadPayloadReport(s) ==
    /\ Transition(s, "badReport", "emit")
    /\ report' = [report EXCEPT ![s] = [status |-> closeStatus[s], error |-> "JSON_PARSE"]]
    /\ UNCHANGED <<connVars, flagVars, pendingWebSocketEvents, nodeVars, node, messages,
                   mainVars>>

\* ParseNode succeeded, so the node is not null and StoreJsonNode's -1 for a
\* null node, with the close that follows it, does not occur.
StoreJsonNode(s) ==
    /\ Transition(s, "store", "push")
    /\ jsonNodes' = jsonNodes \cup {nextJsonNodeId}
    /\ node' = [node EXCEPT ![s] = nextJsonNodeId]
    /\ nextJsonNodeId' = nextJsonNodeId + 1
    /\ UNCHANGED <<connVars, flagVars, pendingWebSocketEvents, report, messages, mainVars>>

\* Mutant: a message of a stopped socket is dropped, its node is not.
PushMessageUnlessStopped(s) ==
    /\ Transition(s, "push", "loop")
    /\ IF s \in stopToken THEN UNCHANGED pendingWebSocketEvents ELSE Push(Message(s, node[s]))
    /\ node' = [node EXCEPT ![s] = NoNode]
    /\ UNCHANGED <<connVars, flagVars, nodeVars, report, messages, mainVars>>

PushMessage(s) ==
    /\ Transition(s, "push", "loop")
    /\ Push(Message(s, node[s]))
    /\ node' = [node EXCEPT ![s] = NoNode]
    /\ UNCHANGED <<connVars, flagVars, nodeVars, report, messages, mainVars>>

\* Mutant: the flag is set and not tested.
EmitDisconnectAlways(s) ==
    /\ Transition(s, "emit", "pushEnd")
    /\ disconnectEmitted' = disconnectEmitted \cup {s}
    /\ UNCHANGED <<connVars, stopToken, closed, closeStatus, pendingWebSocketEvents, nodeVars,
                   report, node, messages, mainVars>>

\* EmitWebSocketDisconnect: the exchange, then the push.  The loop returns.
EmitDisconnect(s) ==
    /\ rpc[s] = "emit"
    /\ rpc' = [rpc EXCEPT ![s] = IF s \in disconnectEmitted THEN "done" ELSE "pushEnd"]
    /\ report' = IF s \in disconnectEmitted THEN [report EXCEPT ![s] = NoReport] ELSE report
    /\ disconnectEmitted' = disconnectEmitted \cup {s}
    /\ UNCHANGED <<connVars, stopToken, closed, closeStatus, pendingWebSocketEvents, nodeVars,
                   node, messages, mainVars>>

PushDisconnect(s) ==
    /\ Transition(s, "pushEnd", "done")
    /\ Push(Disconnected(s, report[s].status, report[s].error))
    /\ report' = [report EXCEPT ![s] = NoReport]
    /\ UNCHANGED <<connVars, flagVars, nodeVars, node, messages, mainVars>>

-----------------------------------------------------------------------------
(* The main thread: connect and close.                                     *)

\* An id is used up even if the connection fails.  The read thread starts
\* after the insertion, which only this thread could notice.
ConnectWebSocketClient(json, connects) ==
    /\ mpc = "script" /\ nextWebSocketId < MaxSockets
    /\ nextWebSocketId' = nextWebSocketId + 1
    /\ IF connects
       THEN /\ webSocketConnections' = webSocketConnections \cup {nextWebSocketId}
            /\ jsonMode' = IF json THEN jsonMode \cup {nextWebSocketId} ELSE jsonMode
            /\ rpc' = [rpc EXCEPT ![nextWebSocketId] = "loop"]
       ELSE UNCHANGED <<webSocketConnections, jsonMode, rpc>>
    /\ UNCHANGED <<flagVars, pendingWebSocketEvents, nodeVars, report, node, messages, mainVars>>

\* CloseWebSocketClient (and RemoveWebSocketClient, with 1000).
CloseWebSocketClient(s, st) ==
    /\ mpc = "script" /\ s \in webSocketConnections
    /\ mpc' = "closeStop" /\ target' = s /\ status' = st
    /\ closeStatus' = [closeStatus EXCEPT ![s] = st]
    /\ mainClosed' = mainClosed \cup {s}
    /\ UNCHANGED <<connVars, stopToken, closed, disconnectEmitted, pendingWebSocketEvents,
                   nodeVars, readerVars, drainVars, toStop, joining, afterJoin, resetVars, heard,
                   scriptNodes, causes>>

CloseStop ==
    /\ mpc = "closeStop" /\ mpc' = "closeClient"
    /\ stopToken' = stopToken \cup {target}
    /\ UNCHANGED <<connVars, closed, closeStatus, disconnectEmitted, pendingWebSocketEvents,
                   nodeVars, readerVars, drainVars, closeVars, resetVars, history>>

\* Mutant: only the token is set, the connection is left open.
CloseClientSkipped ==
    /\ mpc = "closeClient" /\ mpc' = "closeEmit"
    /\ UNCHANGED <<connVars, flagVars, pendingWebSocketEvents, nodeVars, readerVars, drainVars,
                   closeVars, resetVars, history>>

CloseClient ==
    /\ mpc = "closeClient" /\ mpc' = "closeEmit"
    /\ closed' = closed \cup {target}
    /\ UNCHANGED <<connVars, stopToken, closeStatus, disconnectEmitted, pendingWebSocketEvents,
                   nodeVars, readerVars, drainVars, closeVars, resetVars, history>>

\* Mutant: the flag is taken and nothing is pushed.
CloseEmitSilent ==
    /\ mpc = "closeEmit" /\ mpc' = "cleanup"
    /\ disconnectEmitted' = disconnectEmitted \cup {target}
    /\ UNCHANGED <<connVars, stopToken, closed, closeStatus, pendingWebSocketEvents, nodeVars,
                   readerVars, drainVars, closeVars, resetVars, history>>

CloseEmit ==
    /\ mpc = "closeEmit"
    /\ mpc' = IF target \in disconnectEmitted THEN "cleanup" ELSE "closePush"
    /\ disconnectEmitted' = disconnectEmitted \cup {target}
    /\ UNCHANGED <<connVars, stopToken, closed, closeStatus, pendingWebSocketEvents, nodeVars,
                   readerVars, drainVars, closeVars, resetVars, history>>

ClosePush ==
    /\ mpc = "closePush" /\ mpc' = "cleanup"
    /\ Push(Disconnected(target, status, "NONE"))
    /\ UNCHANGED <<connVars, flagVars, nodeVars, readerVars, drainVars, closeVars, resetVars,
                   history>>

\* CleanupWebSocketConnection: erase, then join, or return if it is gone.
CleanupConnection(s) ==
    /\ webSocketConnections' = webSocketConnections \ {s}
    /\ joining' = webSocketConnections \cap {s}
    /\ mpc' = IF s \in webSocketConnections THEN "join" ELSE "script"
    /\ afterJoin' = "script"
    /\ target' = NoSocket

CloseCleanup ==
    /\ mpc = "cleanup"
    /\ CleanupConnection(target)
    /\ status' = "Normal"
    /\ UNCHANGED <<nextWebSocketId, jsonMode, flagVars, pendingWebSocketEvents, nodeVars,
                   readerVars, drainVars, toStop, resetVars, history>>

\* Mutant: the read threads are detached instead of joined.
JoinReadersDetached ==
    /\ mpc = "join"
    /\ mpc' = afterJoin /\ joining' = {} /\ afterJoin' = "script"
    /\ UNCHANGED <<connVars, flagVars, pendingWebSocketEvents, nodeVars, readerVars, drainVars,
                   target, status, toStop, resetVars, history>>

JoinReaders ==
    /\ mpc = "join" /\ \A s \in joining : rpc[s] = "done"
    /\ mpc' = afterJoin /\ joining' = {} /\ afterJoin' = "script"
    /\ UNCHANGED <<connVars, flagVars, pendingWebSocketEvents, nodeVars, readerVars, drainVars,
                   target, status, toStop, resetVars, history>>

-----------------------------------------------------------------------------
(* The main thread: DrainEvents, reset and the destructor.                 *)

\* The swap under webSocketEventMutex.
DrainEvents ==
    /\ mpc = "script" /\ batch = <<>> /\ cleanup = NoSocket /\ pendingWebSocketEvents # <<>>
    /\ batch' = pendingWebSocketEvents
    /\ pendingWebSocketEvents' = <<>>
    /\ UNCHANGED <<connVars, flagVars, nodeVars, readerVars, cleanup, mpc, closeVars, resetVars,
                   history>>

\* CallPawnEvent for the next event; what the callback does are the steps
\* the script takes before the next one.
RunCallback ==
    /\ mpc = "script" /\ batch # <<>> /\ cleanup = NoSocket
    /\ LET ev == Head(batch) IN
       /\ heard' = [heard EXCEPT ![ev.id] = Append(@, ev)]
       /\ scriptNodes' = IF ev.type = "Message" THEN scriptNodes \cup ({ev.node} \ {NoNode})
                         ELSE scriptNodes
       /\ cleanup' = IF ev.type = "Disconnected" THEN ev.id ELSE NoSocket
    /\ batch' = Tail(batch)
    /\ UNCHANGED <<connVars, flagVars, pendingWebSocketEvents, nodeVars, readerVars, mpc,
                   closeVars, resetVars, mainClosed, causes>>

\* The disconnect callback has returned.
CleanupAfterCallback ==
    /\ mpc = "script" /\ cleanup # NoSocket
    /\ CleanupConnection(cleanup)
    /\ cleanup' = NoSocket
    /\ UNCHANGED <<nextWebSocketId, jsonMode, flagVars, pendingWebSocketEvents, nodeVars,
                   readerVars, batch, status, toStop, resetVars, history>>

\* REST_JsonCleanup of a handle a callback was given.
ReleaseJsonNode(n) ==
    /\ mpc = "script" /\ n \in scriptNodes \cap jsonNodes
    /\ jsonNodes' = jsonNodes \ {n}
    /\ UNCHANGED <<connVars, flagVars, pendingWebSocketEvents, nextJsonNodeId, readerVars,
                   mainVars>>

\* reset() up to ShutdownWebSocketConnections; it runs between two drains.
ResetEvents ==
    /\ mpc = "script" /\ batch = <<>> /\ cleanup = NoSocket /\ resets < MaxResets
    /\ mpc' = "swapOut" /\ afterJoin' = "resetNodes"
    /\ resets' = resets + 1 /\ epoch' = nextWebSocketId
    /\ pendingWebSocketEvents' = <<>>
    /\ UNCHANGED <<connVars, flagVars, nodeVars, readerVars, drainVars, target, status, toStop,
                   joining, history>>

\* The destructor up to ShutdownWebSocketConnections.
Destroy ==
    /\ mpc = "script" /\ batch = <<>> /\ cleanup = NoSocket
    /\ mpc' = "swapOut" /\ afterJoin' = "gone"
    /\ UNCHANGED <<connVars, flagVars, pendingWebSocketEvents, nodeVars, readerVars, drainVars,
                   target, status, toStop, joining, resetVars, history>>

\* ShutdownWebSocketConnections: empty the map, stop and close each socket,
\* then join them all.
ShutdownSwap ==
    /\ mpc = "swapOut" /\ mpc' = "shutdown"
    /\ toStop' = webSocketConnections /\ joining' = webSocketConnections
    /\ mainClosed' = mainClosed \cup webSocketConnections
    /\ webSocketConnections' = {}
    /\ UNCHANGED <<nextWebSocketId, jsonMode, flagVars, pendingWebSocketEvents, nodeVars,
                   readerVars, drainVars, target, status, afterJoin, resetVars, heard,
                   scriptNodes, causes>>

ShutdownStop(s) ==
    /\ mpc = "shutdown" /\ s \in toStop
    /\ mpc' = "shutdownClose" /\ target' = s
    /\ stopToken' = stopToken \cup {s}
    /\ UNCHANGED <<connVars, closed, closeStatus, disconnectEmitted, pendingWebSocketEvents,
                   nodeVars, readerVars, drainVars, status, toStop, joining, afterJoin,
                   resetVars, history>>

ShutdownClose ==
    /\ mpc = "shutdownClose" /\ mpc' = "shutdown"
    /\ closed' = closed \cup {target}
    /\ toStop' = toStop \ {target} /\ target' = NoSocket
    /\ UNCHANGED <<connVars, stopToken, closeStatus, disconnectEmitted, pendingWebSocketEvents,
                   nodeVars, readerVars, drainVars, status, joining, afterJoin, resetVars,
                   history>>

ShutdownJoin ==
    /\ mpc = "shutdown" /\ toStop = {} /\ mpc' = "join"
    /\ UNCHANGED <<connVars, flagVars, pendingWebSocketEvents, nodeVars, readerVars, drainVars,
                   closeVars, resetVars, history>>

ResetNodes ==
    /\ mpc = "resetNodes" /\ mpc' = "script"
    /\ jsonNodes' = {}
    /\ UNCHANGED <<connVars, flagVars, pendingWebSocketEvents, nextJsonNodeId, readerVars,
                   drainVars, closeVars, resetVars, history>>

-----------------------------------------------------------------------------
\* What a read thread does without waiting for its peer.
ReaderStep(s) ==
    \/ LoopTest(s)
    \/ EnterRead(s)
    \/ FailStatus(s)
    \/ FailStop(s)
    \/ FailError(s)
    \/ BadPayloadStatus(s)
    \/ BadPayloadStop(s)
    \/ BadPayloadClose(s)
    \/ BadPayloadReport(s)
    \/ StoreJsonNode(s)
    \/ PushMessage(s)
    \/ EmitDisconnect(s)
    \/ PushDisconnect(s)

Peer(s) == ReadMessage(s) \/ \E clean \in BOOLEAN : ReadFails(s, clean)

Script ==
    \/ \E json, connects \in BOOLEAN : ConnectWebSocketClient(json, connects)
    \/ \E s \in Sockets, st \in ScriptStatuses : CloseWebSocketClient(s, st)
    \/ \E n \in NodeIds : ReleaseJsonNode(n)

\* The rest of a call the main thread has begun.
MainStep ==
    \/ CloseStop
    \/ CloseClient
    \/ CloseEmit
    \/ ClosePush
    \/ CloseCleanup
    \/ JoinReaders
    \/ ShutdownSwap
    \/ \E s \in Sockets : ShutdownStop(s)
    \/ ShutdownClose
    \/ ShutdownJoin
    \/ ResetNodes

Next ==
    \/ \E s \in Sockets : ReaderStep(s) \/ Peer(s)
    \/ Script
    \/ MainStep
    \/ DrainEvents
    \/ RunCallback
    \/ CleanupAfterCallback
    \/ ResetEvents
    \/ Destroy

Spec == Init /\ [][Next]_vars

(***************************************************************************)
(* Threads are scheduled and the timer keeps draining.  A read need not    *)
(* end while the socket is open (heartbeats keep it alive); once the       *)
(* client is closed, the peer's answer or the close timeout ends it.       *)
(***************************************************************************)
Fairness ==
    /\ \A s \in Sockets :
          /\ WF_vars(ReaderStep(s))
          /\ WF_vars(s \in closed /\ \E clean \in BOOLEAN : ReadFails(s, clean))
    /\ WF_vars(MainStep)
    /\ WF_vars(DrainEvents) /\ WF_vars(RunCallback) /\ WF_vars(CleanupAfterCallback)

FairSpec == Spec /\ Fairness

-----------------------------------------------------------------------------
(* Properties.                                                             *)

\* The values the connections, the event queue, the read threads and the
\* main thread's calls may take.
TypeOK ==
    /\ webSocketConnections \subseteq Sockets /\ jsonMode \subseteq Sockets
    /\ nextWebSocketId \in 0 .. MaxSockets
    /\ stopToken \subseteq Sockets /\ closed \subseteq Sockets
    /\ closeStatus \in [Sockets -> Statuses]
    /\ disconnectEmitted \subseteq Sockets
    /\ pendingWebSocketEvents \in Seq(Events) /\ batch \in Seq(Events)
    /\ jsonNodes \subseteq NodeIds /\ nextJsonNodeId \in 1 .. MaxMessages + 1
    /\ rpc \in [Sockets -> {"none", "loop", "read", "reading", "failStatus", "failStop",
                            "failError", "badStatus", "badStop", "badClose", "badReport",
                            "store", "push", "emit", "pushEnd", "done"}]
    /\ report \in [Sockets -> Reports]
    /\ node \in [Sockets -> NodeIds \cup {NoNode}]
    /\ messages \in 0 .. MaxMessages
    /\ mpc \in {"script", "closeStop", "closeClient", "closeEmit", "closePush", "cleanup",
                "swapOut", "shutdown", "shutdownClose", "join", "resetNodes", "gone"}
    /\ target \in Sockets \cup {NoSocket} /\ status \in ScriptStatuses
    /\ toStop \subseteq Sockets /\ joining \subseteq Sockets
    /\ afterJoin \in {"script", "resetNodes", "gone"}
    /\ cleanup \in Sockets \cup {NoSocket}
    /\ resets \in 0 .. MaxResets /\ epoch \in 0 .. MaxSockets
    /\ heard \in [Sockets -> Seq(Events)]
    /\ scriptNodes \subseteq NodeIds
    /\ mainClosed \subseteq Sockets /\ causes \subseteq Sockets \X Causes

Undelivered  == batch \o pendingWebSocketEvents
EventIndices == 1 .. Len(Undelivered)

\* What the script has heard of a socket, and the events on their way, those
\* of other sockets among them.
Story(s) == heard[s] \o Undelivered
Chapters(s) == {i \in 1 .. Len(Story(s)) : Story(s)[i].id = s}

\* The end of a connection is reported at most once, whichever of the read
\* thread, the script's close and a shutdown get to it first, and it is the
\* last the script hears of the socket unless the main thread closed it
\* (a message already read may then still be pushed behind the report).
DisconnectIsLast ==
    \A s \in Sockets : \A i, k \in Chapters(s) :
        i < k /\ Story(s)[i].type = "Disconnected" =>
            Story(s)[k].type = "Message" /\ s \in mainClosed

\* No read thread outlives its connection: one that has not returned is in
\* the map or among those being joined, so no joinable thread is destroyed
\* and none runs on after a close, a reset or the destructor.
ReadersOwned ==
    \A s \in Sockets :
        rpc[s] \notin {"none", "done"} => s \in webSocketConnections \cup joining

Happened(s, cause) == <<s, cause>> \in causes
ReadFailed(s) == Happened(s, "peerClose") \/ Happened(s, "broken")

\* A failure is never told as a normal end, nor our own close as a failure.
\* A report without an error or with the normal close code is of a socket the
\* main thread closed or whose peer sent a normal Close; WEBSOCKET says that a
\* read failed while the socket was open on this side, and never comes with
\* the normal code; JSON_PARSE says that a payload was not JSON.  What it does
\* not say: the code reports a peer's normal Close like a broken connection, as
\* 1006 with WEBSOCKET, where the guide has 1000 and an error for failures only.
FailuresToldAsSuch ==
    \A s \in Sockets : \A i \in Chapters(s) :
        LET ev == Story(s)[i] IN
        ev.type = "Disconnected" =>
            /\ ev.error = "NONE" \/ ev.status = "Normal" =>
                  s \in mainClosed \/ Happened(s, "peerClose")
            /\ ev.error = "WEBSOCKET" => ev.status # "Normal" /\ ReadFailed(s)
            /\ ev.error = "JSON_PARSE" => Happened(s, "payload")

\* The handle of a message's node is never lost and never dangles.  In an
\* undelivered event it is live (unless the socket is older than the last
\* reset); and a node in the store is a read thread's, travels in an event,
\* or was handed to the script.  A reset drops events before the nodes they
\* carry, and has repaired that when it ends.
EventNodesLive ==
    \A i \in EventIndices :
        LET ev == Undelivered[i] IN
        ev.type = "Message" /\ ev.node # NoNode => ev.node \in jsonNodes \/ ev.id < epoch
Carried == {Undelivered[i].node : i \in {k \in EventIndices : Undelivered[k].type = "Message"}}
NodesOwned ==
    afterJoin # "resetNodes" /\ mpc # "resetNodes" =>
        jsonNodes \subseteq scriptNodes \cup Carried \cup {node[s] : s \in Sockets}
NodeCustody == EventNodesLive /\ NodesOwned

\* Every connection that ends is reported to the script that opened it,
\* unless a reset or the destructor ended that script.
EndIsHeard ==
    \A s \in Sockets :
        (s \in closed) ~>
            \/ \E i \in 1 .. Len(heard[s]) : heard[s][i].type = "Disconnected"
            \/ s < epoch
            \/ mpc = "gone"

\* Close, reset and the destructor return: the read threads they join end.
CallsReturn == (mpc # "script") ~> (mpc \in {"script", "gone"})
=============================================================================
