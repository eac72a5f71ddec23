------------------------ MODULE WebSocketClient_proofs ------------------------
(***************************************************************************)
(* Proofs about WebSocketClient for any number of sockets, messages and    *)
(* resets: an inductive invariant IInv and the safety properties that      *)
(* follow from it.                                                         *)
(***************************************************************************)
EXTENDS WebSocketClient, FiniteSetTheorems, SequenceTheorems, TLAPS

\* Ids that were not given out have left no trace.
FreshIds ==
    \A s \in Sockets : s >= nextWebSocketId =>
        rpc[s] = "none" /\ s \notin webSocketConnections \cup toStop /\ s # target
EventIds == \A i \in EventIndices : Undelivered[i].id < nextWebSocketId
FreshInv == FreshIds /\ EventIds

\* Where the main thread is in a close, a join or a shutdown.
Shutting == mpc \in {"swapOut", "shutdown", "shutdownClose", "join"}
MainInv ==
    /\ mpc \in {"closeStop", "closeClient", "closeEmit", "closePush", "cleanup",
                "shutdownClose"} => target \in mainClosed
    /\ mpc \in {"closeClient", "shutdownClose"} => target \in stopToken
    /\ toStop \subseteq mainClosed
    /\ afterJoin # "script" => Shutting
    /\ mpc \notin {"shutdown", "shutdownClose", "join"} => joining = {}
    /\ epoch <= nextWebSocketId
    /\ afterJoin = "resetNodes" \/ mpc = "resetNodes" => epoch = nextWebSocketId

\* What a disconnect report says is so.
Justified(s, d) ==
    /\ d.error = "NONE" \/ d.status = "Normal" => s \in mainClosed \/ Happened(s, "peerClose")
    /\ d.error = "WEBSOCKET" => d.status # "Normal" /\ ReadFailed(s)
    /\ d.error = "JSON_PARSE" => Happened(s, "payload")

\* What a read thread has found out, who set the token it looks at, and why
\* the client is closed.
CauseOf(s) ==
    /\ s \in stopToken =>
          s \in mainClosed \/ rpc[s] \in {"badClose", "badReport", "emit", "pushEnd", "done"}
    /\ s \in closed \/ rpc[s] \in {"failStatus", "failStop", "failError"} =>
          s \in stopToken \/ ReadFailed(s)
    /\ rpc[s] \in {"badStop", "badClose", "badReport"} =>
          Happened(s, "payload") /\ (closeStatus[s] = "Normal" => s \in mainClosed)
    /\ rpc[s] = "badClose" => s \in stopToken
    /\ rpc[s] = "failError" /\ s \notin stopToken => report[s].status # "Normal"
    /\ rpc[s] \in {"emit", "pushEnd"} => Justified(s, report[s])
CauseInv == \A s \in Sockets : CauseOf(s)

\* The disconnect reports that were heard and those on their way.
IsEnd(ev)   == ev.type = "Disconnected"
HeardEnd(s) == \E i \in 1 .. Len(heard[s]) : IsEnd(heard[s][i])
EndOnWay(s) == \E i \in EventIndices : Undelivered[i].id = s /\ IsEnd(Undelivered[i])
Ended(s)    == HeardEnd(s) \/ EndOnWay(s)

ReportsJustified ==
    /\ \A s \in Sockets : \A i \in 1 .. Len(heard[s]) :
          heard[s][i].id = s /\ (IsEnd(heard[s][i]) => Justified(s, heard[s][i]))
    /\ \A i \in EventIndices :
          IsEnd(Undelivered[i]) => Justified(Undelivered[i].id, Undelivered[i])

\* Whoever took the flag has pushed the report or is about to; a read thread
\* that reported itself has returned.
FlagInv ==
    /\ \A s \in Sockets :
          /\ Ended(s) => s \in disconnectEmitted
          /\ Ended(s) /\ s \notin mainClosed => rpc[s] = "done"
          /\ rpc[s] = "pushEnd" =>
                s \in disconnectEmitted /\ ~Ended(s) /\ ~(mpc = "closePush" /\ target = s)
    /\ mpc = "closePush" => target \in disconnectEmitted /\ ~Ended(target)

\* After the report there are only messages, of a socket the main thread
\* closed.
Trails(s, ev) == ~IsEnd(ev) /\ s \in mainClosed
HeardInOrder ==
    \A s \in Sockets : \A i, k \in 1 .. Len(heard[s]) :
        i < k /\ IsEnd(heard[s][i]) => Trails(s, heard[s][k])
WayAfterHeard ==
    \A k \in EventIndices :
        HeardEnd(Undelivered[k].id) => Trails(Undelivered[k].id, Undelivered[k])
WayInOrder ==
    \A i, k \in EventIndices :
        i < k /\ Undelivered[i].id = Undelivered[k].id /\ IsEnd(Undelivered[i]) =>
            Trails(Undelivered[k].id, Undelivered[k])
OrderInv == HeardInOrder /\ WayAfterHeard /\ WayInOrder

\* A handle is older than the counter, with one holder, and its node lives
\* unless a reset took it.
HasNode(ev) == ev.type = "Message" /\ ev.node # NoNode
ReaderNodes ==
    \A s \in Sockets : node[s] # NoNode =>
        /\ rpc[s] = "push" /\ node[s] < nextJsonNodeId /\ node[s] \notin scriptNodes
        /\ node[s] \in jsonNodes \/ s < epoch
        /\ \A t \in Sockets : node[t] = node[s] => t = s
EventNodes ==
    \A i \in EventIndices : HasNode(Undelivered[i]) =>
        /\ Undelivered[i].node < nextJsonNodeId /\ Undelivered[i].node \notin scriptNodes
        /\ \A s \in Sockets : node[s] # Undelivered[i].node
        /\ \A k \in EventIndices :
              HasNode(Undelivered[k]) /\ Undelivered[k].node = Undelivered[i].node => k = i
NodesOld == \A n \in jsonNodes \cup scriptNodes : n < nextJsonNodeId
NodeInv ==
    /\ NodesOld
    /\ ReaderNodes /\ EventNodes /\ NodeCustody

\* Each message read stores at most one node.
Storing == {s \in Sockets : rpc[s] = "store"}
NodeCount == nextJsonNodeId + Cardinality(Storing) <= messages + 1

IInv ==
    /\ TypeOK /\ FreshInv /\ MainInv /\ ReadersOwned /\ CauseInv /\ ReportsJustified
    /\ FlagInv /\ OrderInv /\ NodeInv /\ NodeCount

-----------------------------------------------------------------------------
(* What the steps leave alone.                                             *)

LEMMA SocketsAreNumbers ==
  /\ Sockets \in SUBSET Nat /\ NoSocket \notin Sockets /\ NoNode \notin NodeIds
  /\ NodeIds \in SUBSET Nat /\ NoSocket \in Int /\ NoNode \in Int
BY BoundsAssumption DEF Sockets, NoSocket, NoNode, NodeIds

\* The steps of the main thread, and those on no thread.
Main == Script \/ MainStep \/ DrainEvents \/ RunCallback \/ CleanupAfterCallback
        \/ ResetEvents \/ Destroy

\* A read thread that runs moves itself and nothing of the main thread's.
LEMMA ReaderFrame ==
  ASSUME TypeOK, NEW s \in Sockets, ReaderStep(s) \/ Peer(s)
  PROVE  /\ UNCHANGED <<connVars, drainVars, mpc, closeVars, resetVars, heard, scriptNodes,
                        mainClosed>>
         /\ rpc[s] \notin {"none", "done"} /\ rpc'[s] # "none"
         /\ \A t \in Sockets : t # s =>
               rpc'[t] = rpc[t] /\ report'[t] = report[t] /\ node'[t] = node[t]
<1> USE DEF TypeOK, Transition, mainVars, closeVars, readerVars, history
<1>1. CASE LoopTest(s)
  BY <1>1 DEF LoopTest
<1>2. CASE EnterRead(s)
  BY <1>2 DEF EnterRead
<1>3. CASE FailStatus(s)
  BY <1>3 DEF FailStatus
<1>4. CASE FailStop(s)
  BY <1>4 DEF FailStop
<1>5. CASE FailError(s)
  BY <1>5 DEF FailError
<1>6. CASE BadPayloadStatus(s) \/ BadPayloadStop(s) \/ BadPayloadClose(s)
  BY <1>6 DEF BadPayloadStatus, BadPayloadStop, BadPayloadClose
<1>7. CASE BadPayloadReport(s)
  BY <1>7 DEF BadPayloadReport
<1>8. CASE StoreJsonNode(s) \/ PushMessage(s)
  BY <1>8 DEF StoreJsonNode, PushMessage
<1>9. CASE EmitDisconnect(s) \/ PushDisconnect(s)
  BY <1>9 DEF EmitDisconnect, PushDisconnect
<1>10. CASE ReadMessage(s)
  BY <1>10 DEF ReadMessage
<1>11. ASSUME NEW clean \in BOOLEAN, ReadFails(s, clean)
       PROVE  /\ UNCHANGED <<connVars, drainVars, mpc, closeVars, resetVars, heard, scriptNodes,
                             mainClosed>>
              /\ rpc[s] \notin {"none", "done"} /\ rpc'[s] # "none"
              /\ \A t \in Sockets : t # s =>
                    rpc'[t] = rpc[t] /\ report'[t] = report[t] /\ node'[t] = node[t]
  BY <1>11 DEF ReadFails
<1>12. QED
  BY <1>1, <1>2, <1>3, <1>4, <1>5, <1>6, <1>7, <1>8, <1>9, <1>10, <1>11 DEF ReaderStep, Peer

\* The main thread touches a read thread only to start it.
LEMMA MainFrame ==
  ASSUME Main
  PROVE  /\ UNCHANGED <<report, node, messages, nextJsonNodeId>>
         /\ UNCHANGED rpc \/ \E json, connects \in BOOLEAN : ConnectWebSocketClient(json, connects)
<1> USE DEF mainVars, closeVars, readerVars, history, nodeVars
<1>1. CASE Script
  BY <1>1 DEF Script, ConnectWebSocketClient, CloseWebSocketClient, ReleaseJsonNode
<1>2. CASE MainStep
  BY <1>2 DEF MainStep, CloseStop, CloseClient, CloseEmit, ClosePush, CloseCleanup, JoinReaders,
     ShutdownSwap, ShutdownStop, ShutdownClose, ShutdownJoin, ResetNodes
<1>3. CASE DrainEvents \/ RunCallback \/ CleanupAfterCallback \/ ResetEvents \/ Destroy
  BY <1>3 DEF DrainEvents, RunCallback, CleanupAfterCallback, ResetEvents, Destroy
<1>4. QED
  BY <1>1, <1>2, <1>3 DEF Main

\* The steps that touch what the script has heard or will hear.
EventsQuiet == UNCHANGED <<heard, batch, pendingWebSocketEvents>>
LEMMA EventSteps ==
  ASSUME [Next]_vars
  PROVE  \/ EventsQuiet
         \/ \E s \in Sockets : PushMessage(s) \/ PushDisconnect(s)
         \/ ClosePush \/ DrainEvents \/ RunCallback \/ ResetEvents
<1> USE DEF EventsQuiet, mainVars, drainVars, history
<1>1. ASSUME NEW s \in Sockets, ReaderStep(s)
      PROVE  EventsQuiet \/ PushMessage(s) \/ PushDisconnect(s)
  BY <1>1 DEF ReaderStep, LoopTest, EnterRead, FailStatus, FailStop, FailError,
     BadPayloadStatus, BadPayloadStop, BadPayloadClose, BadPayloadReport, StoreJsonNode,
     EmitDisconnect
<1>2. ASSUME NEW s \in Sockets, Peer(s) PROVE EventsQuiet
  BY <1>2 DEF Peer, ReadMessage, ReadFails
<1>3. CASE Script
  BY <1>3 DEF Script, ConnectWebSocketClient, CloseWebSocketClient, ReleaseJsonNode
<1>4. CASE MainStep
  BY <1>4 DEF MainStep, CloseStop, CloseClient, CloseEmit, CloseCleanup, JoinReaders,
     ShutdownSwap, ShutdownStop, ShutdownClose, ShutdownJoin, ResetNodes
<1>5. CASE CleanupAfterCallback \/ Destroy
  BY <1>5 DEF CleanupAfterCallback, Destroy
<1>6. CASE UNCHANGED vars
  BY <1>6 DEF vars
<1>7. QED
  BY <1>1, <1>2, <1>3, <1>4, <1>5, <1>6 DEF Next

\* These only grow.
LEMMA Monotone ==
  ASSUME TypeOK, [Next]_vars
  PROVE  /\ mainClosed \subseteq mainClosed' /\ causes \subseteq causes'
         /\ disconnectEmitted \subseteq disconnectEmitted' /\ stopToken \subseteq stopToken'
         /\ nextWebSocketId <= nextWebSocketId'
<1> USE BoundsAssumption
    DEF TypeOK, connVars, flagVars, mainVars, drainVars, closeVars, history
<1>1. ASSUME NEW s \in Sockets, ReaderStep(s)
      PROVE  /\ UNCHANGED <<mainClosed, connVars>> /\ causes \subseteq causes'
             /\ disconnectEmitted \subseteq disconnectEmitted'
             /\ stopToken \subseteq stopToken'
  BY <1>1 DEF ReaderStep, LoopTest, EnterRead, FailStatus, FailStop, FailError,
     BadPayloadStatus, BadPayloadStop, BadPayloadClose, BadPayloadReport, StoreJsonNode,
     PushMessage, PushDisconnect, EmitDisconnect
<1>2. ASSUME NEW s \in Sockets, Peer(s)
      PROVE  /\ UNCHANGED <<mainClosed, connVars, disconnectEmitted, stopToken>>
             /\ causes \subseteq causes'
  BY <1>2 DEF Peer, ReadMessage, ReadFails
<1>3. CASE Script
  BY <1>3 DEF Script, ConnectWebSocketClient, CloseWebSocketClient, ReleaseJsonNode
<1>4. CASE MainStep
  BY <1>4 DEF MainStep, CloseStop, CloseClient, CloseEmit, ClosePush, CloseCleanup, JoinReaders,
     ShutdownSwap, ShutdownStop, ShutdownClose, ShutdownJoin, ResetNodes
<1>5. CASE DrainEvents \/ RunCallback \/ CleanupAfterCallback \/ ResetEvents \/ Destroy
  BY <1>5 DEF DrainEvents, RunCallback, CleanupAfterCallback, ResetEvents, Destroy
<1>6. CASE UNCHANGED vars
  BY <1>6 DEF vars
<1>7. QED
  BY <1>1, <1>2, <1>3, <1>4, <1>5, <1>6 DEF Next

-----------------------------------------------------------------------------
(* The events on their way, as one sequence.                               *)

LEMMA UndeliveredTyped == TypeOK => Undelivered \in Seq(Events)
BY ConcatProperties DEF TypeOK, Undelivered

LEMMA EventTyped ==
  ASSUME TypeOK, NEW i \in EventIndices
  PROVE  Undelivered[i] \in Events
BY UndeliveredTyped, ElementOfSeq DEF EventIndices

LEMMA HeardTyped ==
  ASSUME TypeOK, NEW s \in Sockets
  PROVE  /\ heard[s] \in Seq(Events) /\ Len(heard[s]) \in Nat
         /\ \A i \in 1 .. Len(heard[s]) : heard[s][i] \in Events
BY ElementOfSeq, LenProperties DEF TypeOK

\* The two forms of an event.
LEMMA EventForms ==
  ASSUME NEW e \in Events
  PROVE  /\ e.id \in Sockets
         /\ \/ e.type = "Message" /\ e.node \in NodeIds \cup {NoNode}
            \/ e.type = "Disconnected" /\ e.status \in Statuses /\ e.error \in Errors
BY DEF Events, Message, Disconnected

LEMMA QuietKeepsEvents ==
  ASSUME EventsQuiet PROVE Undelivered' = Undelivered /\ EventIndices' = EventIndices
BY DEF EventsQuiet, Undelivered, EventIndices

LEMMA DrainKeepsEvents ==
  ASSUME TypeOK, DrainEvents
  PROVE  Undelivered' = Undelivered /\ EventIndices' = EventIndices
<1>1. batch = <<>> /\ batch' = pendingWebSocketEvents /\ pendingWebSocketEvents' = <<>>
  BY DEF DrainEvents
<1>2. pendingWebSocketEvents \in Seq(Events)
  BY DEF TypeOK
<1>3. QED
  BY <1>1, <1>2, ConcatEmptySeq DEF Undelivered, EventIndices

LEMMA ResetDropsEvents ==
  ASSUME TypeOK, ResetEvents
  PROVE  Undelivered' = <<>> /\ EventIndices' = {}
<1>1. batch' = <<>> /\ pendingWebSocketEvents' = <<>>
  BY DEF ResetEvents, drainVars
<1>2. Undelivered' = <<>>
  BY <1>1, EmptySeq, ConcatEmptySeq DEF Undelivered
<1>3. QED
  BY <1>2 DEF EventIndices

\* The callback takes the first event.
LEMMA CallbackTakesFirst ==
  ASSUME TypeOK, RunCallback
  PROVE  /\ 1 \in EventIndices /\ Head(batch) = Undelivered[1] /\ Head(batch) \in Events
         /\ \A i \in EventIndices' : i + 1 \in EventIndices /\ Undelivered'[i] = Undelivered[i + 1]
         /\ \A i \in EventIndices : i # 1 => i - 1 \in EventIndices'
<1>1. /\ batch # <<>> /\ batch' = Tail(batch)
      /\ pendingWebSocketEvents' = pendingWebSocketEvents
  BY DEF RunCallback
<1>2. batch \in Seq(Events) /\ pendingWebSocketEvents \in Seq(Events)
  BY DEF TypeOK
<1>3. /\ Head(batch) \in Events
      /\ Tail(batch) \in Seq(Events) /\ Len(Tail(batch)) = Len(batch) - 1
      /\ \A i \in 1 .. Len(Tail(batch)) : Tail(batch)[i] = batch[i + 1]
  BY <1>1, <1>2, HeadTailProperties
<1>4. Len(batch) \in Nat \ {0} /\ Len(pendingWebSocketEvents) \in Nat
  BY <1>1, <1>2, EmptySeq, LenProperties
<1>5. /\ Len(Undelivered) = Len(batch) + Len(pendingWebSocketEvents)
      /\ \A i \in 1 .. (Len(batch) + Len(pendingWebSocketEvents)) : Undelivered[i] =
            IF i <= Len(batch) THEN batch[i] ELSE pendingWebSocketEvents[i - Len(batch)]
  BY <1>2, ConcatProperties DEF Undelivered
<1>6. /\ Len(Undelivered') = (Len(batch) - 1) + Len(pendingWebSocketEvents)
      /\ \A i \in 1 .. ((Len(batch) - 1) + Len(pendingWebSocketEvents)) : Undelivered'[i] =
            IF i <= Len(batch) - 1 THEN batch'[i]
            ELSE pendingWebSocketEvents[i - (Len(batch) - 1)]
  BY <1>1, <1>2, <1>3, ConcatProperties DEF Undelivered
<1>7. 1 \in EventIndices /\ Head(batch) = Undelivered[1]
  BY <1>1, <1>2, <1>4, <1>5 DEF EventIndices
<1>8. Len(Undelivered') = Len(Undelivered) - 1 /\ Len(Undelivered) \in Nat \ {0}
  BY <1>4, <1>5, <1>6
<1>9. ASSUME NEW i \in EventIndices'
      PROVE  i + 1 \in EventIndices /\ Undelivered'[i] = Undelivered[i + 1]
  <2>1. i \in 1 .. (Len(Undelivered) - 1)
    BY <1>8, <1>9 DEF EventIndices
  <2>2. CASE i <= Len(batch) - 1
    BY <1>1, <1>3, <1>4, <1>5, <1>6, <2>1, <2>2 DEF EventIndices
  <2>3. CASE ~(i <= Len(batch) - 1)
    <3>1. i - (Len(batch) - 1) = (i + 1) - Len(batch)
      BY <1>4, <2>1
    <3>2. Undelivered'[i] = pendingWebSocketEvents[i - (Len(batch) - 1)]
      BY <1>4, <1>5, <1>6, <2>1, <2>3
    <3>3. /\ i + 1 \in EventIndices
          /\ Undelivered[i + 1] = pendingWebSocketEvents[(i + 1) - Len(batch)]
      BY <1>4, <1>5, <2>1, <2>3 DEF EventIndices
    <3>4. QED
      BY <3>1, <3>2, <3>3
  <2>4. QED
    BY <2>2, <2>3
<1>10. \A i \in EventIndices : i # 1 => i - 1 \in EventIndices'
  BY <1>8 DEF EventIndices
<1>11. QED
  BY <1>3, <1>7, <1>9, <1>10

\* A pushed event is the last one.
LEMMA PushAddsLast ==
  ASSUME TypeOK, NEW e \in Events, Push(e), batch' = batch
  PROVE  /\ pendingWebSocketEvents' \in Seq(Events)
         /\ \E n \in EventIndices' :
               /\ EventIndices = EventIndices' \ {n} /\ Undelivered'[n] = e
               /\ \A i \in EventIndices : i < n /\ Undelivered'[i] = Undelivered[i]
<1>1. pendingWebSocketEvents' = Append(pendingWebSocketEvents, e)
  BY DEF Push
<1>2. batch \in Seq(Events) /\ pendingWebSocketEvents \in Seq(Events)
  BY DEF TypeOK
<1>3. Append(pendingWebSocketEvents, e) = pendingWebSocketEvents \o <<e>>
  BY <1>2, AppendIsConcat
<1>4. <<e>> \in Seq(Events)
  OBVIOUS
<1>5. Undelivered' = Undelivered \o <<e>>
  BY <1>1, <1>2, <1>3, <1>4, ConcatAssociative DEF Undelivered
<1>6. Undelivered \in Seq(Events) /\ Len(Undelivered) \in Nat
  BY UndeliveredTyped, LenProperties
<1>7. Undelivered' = Append(Undelivered, e)
  BY <1>5, <1>6, AppendIsConcat
<1>8. /\ Len(Undelivered') = Len(Undelivered) + 1
      /\ \A i \in 1 .. Len(Undelivered) : Undelivered'[i] = Undelivered[i]
      /\ Undelivered'[Len(Undelivered) + 1] = e
  BY <1>6, <1>7, AppendProperties
<1>9. PICK n \in Nat : n = Len(Undelivered) + 1
  BY <1>6
<1>10. /\ n \in EventIndices' /\ EventIndices = EventIndices' \ {n} /\ Undelivered'[n] = e
       /\ \A i \in EventIndices : i < n /\ Undelivered'[i] = Undelivered[i]
  BY <1>6, <1>8, <1>9 DEF EventIndices
<1>11. pendingWebSocketEvents' \in Seq(Events)
  BY <1>1, <1>2, AppendProperties
<1>12. QED
  BY <1>10, <1>11

\* The three pushes.
LEMMA MessagePushed ==
  ASSUME TypeOK, NEW s \in Sockets, PushMessage(s)
  PROVE  /\ Message(s, node[s]) \in Events /\ Push(Message(s, node[s])) /\ batch' = batch
         /\ heard' = heard /\ rpc[s] = "push"
BY DEF PushMessage, Transition, mainVars, drainVars, history, TypeOK, Events

LEMMA DisconnectPushed ==
  ASSUME TypeOK, NEW s \in Sockets, PushDisconnect(s)
  PROVE  LET e == Disconnected(s, report[s].status, report[s].error) IN
         e \in Events /\ Push(e) /\ batch' = batch /\ heard' = heard /\ rpc[s] = "pushEnd"
BY DEF PushDisconnect, Transition, mainVars, drainVars, history, TypeOK, Events, Reports

LEMMA ClosePushed ==
  ASSUME TypeOK, MainInv, ClosePush
  PROVE  LET e == Disconnected(target, status, "NONE") IN
         e \in Events /\ Push(e) /\ batch' = batch /\ heard' = heard /\ target \in Sockets
BY DEF ClosePush, drainVars, history, TypeOK, MainInv, Events, ScriptStatuses, Statuses, Errors

-----------------------------------------------------------------------------
(* The initial states, and type correctness.                               *)

LEMMA InitInv == Init => IInv
<1> SUFFICES ASSUME Init PROVE IInv
  OBVIOUS
<1> USE BoundsAssumption, SocketsAreNumbers DEF Init
<1>1. TypeOK
  BY EmptySeq DEF TypeOK, Statuses, ScriptStatuses, Reports, NoReport, Errors
<1>2. Undelivered = <<>> /\ EventIndices = {}
  BY EmptySeq, ConcatEmptySeq DEF Undelivered, EventIndices
<1>3. \A s \in Sockets : 1 .. Len(heard[s]) = {}
  BY EmptySeq
<1>4. FreshInv /\ MainInv /\ ReadersOwned /\ CauseInv
  BY <1>2 DEF FreshInv, FreshIds, EventIds, MainInv, Shutting, ReadersOwned, CauseInv, CauseOf
<1>5. ReportsJustified /\ FlagInv /\ OrderInv
  BY <1>2, <1>3 DEF ReportsJustified, FlagInv, Ended, HeardEnd, EndOnWay, OrderInv,
     HeardInOrder, WayAfterHeard, WayInOrder
<1>6. NodeInv
  BY <1>2 DEF NodeInv, NodesOld, ReaderNodes, EventNodes, NodeCustody,
     EventNodesLive, NodesOwned
<1>7. NodeCount
  <2>1. Storing = {}
    BY DEF Storing
  <2>2. QED
    BY <2>1, FS_EmptySet DEF NodeCount
<1>8. QED
  BY <1>1, <1>4, <1>5, <1>6, <1>7 DEF IInv

\* The read threads that have a node to store are finitely many.
LEMMA StoringFinite ==
  TypeOK => /\ IsFiniteSet(Sockets) /\ IsFiniteSet(Storing) /\ Cardinality(Storing) \in Nat
<1>1. IsFiniteSet(Sockets)
  BY BoundsAssumption, FS_Interval DEF Sockets
<1>2. Storing \in SUBSET Sockets
  BY DEF Storing
<1>3. QED
  BY <1>1, <1>2, FS_Subset, FS_CardinalityType

\* There is a handle left for the node to be stored.
LEMMA HandleLeft ==
  ASSUME TypeOK, NodeCount, NEW s \in Sockets, StoreJsonNode(s)
  PROVE  /\ nextJsonNodeId \in NodeIds /\ nextJsonNodeId + 1 \in 1 .. MaxMessages + 1
         /\ Storing' = Storing \ {s} /\ s \in Storing
<1>1. s \in Storing /\ Storing' = Storing \ {s}
  BY DEF StoreJsonNode, Transition, Storing, TypeOK
<1>2. Cardinality(Storing) # 0
  BY <1>1, StoringFinite, FS_EmptySet
<1>3. nextJsonNodeId + 1 <= messages + 1
  BY <1>2, StoringFinite, BoundsAssumption DEF NodeCount, TypeOK
<1>4. QED
  BY <1>1, <1>3, BoundsAssumption DEF TypeOK, NodeIds

LEMMA ReaderType ==
  ASSUME TypeOK, NodeCount, NEW s \in Sockets, ReaderStep(s) \/ Peer(s)
  PROVE  TypeOK'
<1> USE DEF Transition, connVars, flagVars, nodeVars, mainVars, drainVars, closeVars, resetVars,
        history
<1>1. CASE LoopTest(s)
  <2> DEFINE r == [status |-> closeStatus[s], error |-> "NONE"]
  <2>1. r \in Reports
    BY DEF TypeOK, Reports, Errors
  <2> HIDE DEF r
  <2>2. report' \in {report, [report EXCEPT ![s] = r]}
    BY <1>1 DEF LoopTest, r
  <2>3. report' \in [Sockets -> Reports]
    BY <2>1, <2>2 DEF TypeOK
  <2>4. QED
    BY <1>1, <2>3 DEF LoopTest, TypeOK
<1>2. CASE EnterRead(s)
  BY <1>2 DEF EnterRead, TypeOK
<1>3. CASE FailStatus(s)
  BY <1>3 DEF FailStatus, TypeOK, Reports
<1>4. CASE FailStop(s)
  BY <1>4 DEF FailStop, TypeOK, Reports, Statuses
<1>5. CASE FailError(s)
  BY <1>5 DEF FailError, TypeOK, Reports, Errors
<1>6. CASE BadPayloadStatus(s)
  BY <1>6 DEF BadPayloadStatus, TypeOK, Statuses, Causes
<1>7. CASE BadPayloadStop(s) \/ BadPayloadClose(s)
  BY <1>7 DEF BadPayloadStop, BadPayloadClose, TypeOK
<1>8. CASE BadPayloadReport(s)
  BY <1>8 DEF BadPayloadReport, TypeOK, Reports, Errors
<1>9. CASE StoreJsonNode(s)
  BY <1>9, HandleLeft DEF StoreJsonNode, TypeOK
<1>10. CASE PushMessage(s)
  <2>1. pendingWebSocketEvents' \in Seq(Events)
    BY <1>10, MessagePushed, PushAddsLast
  <2>2. QED
    BY <1>10, <2>1 DEF PushMessage, TypeOK
<1>11. CASE EmitDisconnect(s)
  BY <1>11 DEF EmitDisconnect, TypeOK, NoReport, Reports, Statuses, Errors
<1>12. CASE PushDisconnect(s)
  <2>1. pendingWebSocketEvents' \in Seq(Events)
    BY <1>12, DisconnectPushed, PushAddsLast
  <2>2. QED
    BY <1>12, <2>1 DEF PushDisconnect, TypeOK, NoReport, Reports, Statuses, Errors
<1>13. CASE ReadMessage(s)
  BY <1>13, BoundsAssumption DEF ReadMessage, TypeOK
<1>14. ASSUME NEW clean \in BOOLEAN, ReadFails(s, clean) PROVE TypeOK'
  BY <1>14 DEF ReadFails, TypeOK, Causes
<1>15. QED
  BY <1>1, <1>2, <1>3, <1>4, <1>5, <1>6, <1>7, <1>8, <1>9, <1>10, <1>11, <1>12, <1>13, <1>14
     DEF ReaderStep, Peer

LEMMA MainType ==
  ASSUME TypeOK, MainInv, Main
  PROVE  TypeOK'
<1> USE DEF connVars, flagVars, nodeVars, readerVars, mainVars, drainVars, closeVars, resetVars,
        history
<1>1. ASSUME NEW json \in BOOLEAN, NEW connects \in BOOLEAN,
             ConnectWebSocketClient(json, connects)
      PROVE  TypeOK'
  <2>1. nextWebSocketId \in Sockets /\ nextWebSocketId + 1 \in 0 .. MaxSockets
    BY <1>1, BoundsAssumption DEF ConnectWebSocketClient, TypeOK, Sockets
  <2>2. QED
    BY <1>1, <2>1 DEF ConnectWebSocketClient, TypeOK
<1>2. ASSUME NEW s \in Sockets, NEW st \in ScriptStatuses, CloseWebSocketClient(s, st)
      PROVE  TypeOK'
  BY <1>2 DEF CloseWebSocketClient, TypeOK, Statuses, ScriptStatuses
<1>3. ASSUME NEW n \in NodeIds, ReleaseJsonNode(n) PROVE TypeOK'
  BY <1>3 DEF ReleaseJsonNode, TypeOK
<1>4. CASE CloseStop \/ CloseClient \/ CloseEmit
  BY <1>4 DEF CloseStop, CloseClient, CloseEmit, TypeOK, MainInv
<1>5. CASE ClosePush
  <2>1. pendingWebSocketEvents' \in Seq(Events)
    BY <1>5, ClosePushed, PushAddsLast
  <2>2. QED
    BY <1>5, <2>1 DEF ClosePush, TypeOK
<1>6. CASE CloseCleanup
  BY <1>6 DEF CloseCleanup, CleanupConnection, TypeOK, ScriptStatuses
<1>7. CASE JoinReaders \/ ShutdownSwap \/ ShutdownJoin \/ ResetNodes
  BY <1>7 DEF JoinReaders, ShutdownSwap, ShutdownJoin, ResetNodes, TypeOK
<1>8. CASE (\E s \in Sockets : ShutdownStop(s)) \/ ShutdownClose
  BY <1>8 DEF ShutdownStop, ShutdownClose, TypeOK, MainInv
<1>9. CASE DrainEvents
  BY <1>9, EmptySeq DEF DrainEvents, TypeOK
<1>10. CASE RunCallback
  <2>1. Head(batch) \in Events /\ Head(batch).id \in Sockets
    BY <1>10, CallbackTakesFirst, EventForms
  <2>2. Tail(batch) \in Seq(Events)
    BY <1>10, HeadTailProperties DEF RunCallback, TypeOK
  <2>3. heard' \in [Sockets -> Seq(Events)]
    BY <1>10, <2>1, AppendProperties DEF RunCallback, TypeOK
  <2>4. scriptNodes' \subseteq NodeIds
    BY <1>10, <2>1, EventForms DEF RunCallback, TypeOK
  <2>5. QED
    BY <1>10, <2>1, <2>2, <2>3, <2>4 DEF RunCallback, TypeOK
<1>11. CASE CleanupAfterCallback
  BY <1>11 DEF CleanupAfterCallback, CleanupConnection, TypeOK
<1>12. CASE ResetEvents \/ Destroy
  <2>1. resets' \in 0 .. MaxResets /\ epoch' \in 0 .. MaxSockets
    BY <1>12, BoundsAssumption DEF ResetEvents, Destroy, TypeOK
  <2>2. pendingWebSocketEvents' \in Seq(Events)
    BY <1>12, EmptySeq DEF ResetEvents, Destroy, TypeOK
  <2>3. QED
    BY <1>12, <2>1, <2>2 DEF ResetEvents, Destroy, TypeOK
<1>13. QED
  BY <1>1, <1>2, <1>3, <1>4, <1>5, <1>6, <1>7, <1>8, <1>9, <1>10, <1>11, <1>12
     DEF Main, Script, MainStep

LEMMA StepType == IInv /\ [Next]_vars => TypeOK'
<1> SUFFICES ASSUME IInv, [Next]_vars PROVE TypeOK'
  OBVIOUS
<1>1. TypeOK /\ NodeCount /\ MainInv
  BY DEF IInv
<1>2. CASE UNCHANGED vars
  BY <1>1, <1>2 DEF vars, connVars, flagVars, nodeVars, readerVars, mainVars, drainVars,
     closeVars, resetVars, history, TypeOK
<1>3. QED
  BY <1>1, <1>2, ReaderType, MainType DEF Next, Main

\* Each message read stores at most one node.
LEMMA StepCount == IInv /\ [Next]_vars => NodeCount'
<1> SUFFICES ASSUME IInv, [Next]_vars PROVE NodeCount'
  OBVIOUS
<1>1. TypeOK /\ TypeOK' /\ NodeCount /\ FreshInv
  BY StepType DEF IInv
<1>2. ASSUME NEW s \in Sockets, StoreJsonNode(s) PROVE NodeCount'
  <2>1. Storing' = Storing \ {s} /\ s \in Storing
    BY <1>1, <1>2, HandleLeft
  <2>2. Cardinality(Storing') = Cardinality(Storing) - 1
    BY <1>1, <2>1, StoringFinite, FS_RemoveElement
  <2>3. QED
    BY <1>1, <1>2, <2>2, StoringFinite, BoundsAssumption DEF StoreJsonNode, NodeCount, TypeOK
<1>3. ASSUME NEW s \in Sockets, ReadMessage(s) PROVE NodeCount'
  <2>1. Storing' = Storing \/ Storing' = Storing \cup {s}
    BY <1>1, <1>3 DEF ReadMessage, Storing, TypeOK
  <2>2. Cardinality(Storing') \in Nat /\ Cardinality(Storing') <= Cardinality(Storing) + 1
    <3>1. CASE Storing' = Storing
      BY <1>1, <3>1, StoringFinite
    <3>2. CASE Storing' = Storing \cup {s}
      <4>1. Cardinality(Storing \cup {s}) \in {Cardinality(Storing), Cardinality(Storing) + 1}
        BY <1>1, StoringFinite, FS_AddElement
      <4>2. QED
        BY <1>1, <3>2, <4>1, StoringFinite
    <3>3. QED
      BY <2>1, <3>1, <3>2
  <2>3. messages' = messages + 1 /\ nextJsonNodeId' = nextJsonNodeId
    BY <1>3 DEF ReadMessage, nodeVars
  <2>4. messages \in Nat /\ nextJsonNodeId \in Nat /\ Cardinality(Storing) \in Nat
    BY <1>1, StoringFinite, BoundsAssumption DEF TypeOK
  <2>5. QED
    BY <1>1, <2>2, <2>3, <2>4 DEF NodeCount
<1>4. ASSUME NEW s \in Sockets, ReaderStep(s), ~StoreJsonNode(s) PROVE NodeCount'
  <2>1. Storing' = Storing /\ UNCHANGED <<messages, nextJsonNodeId>>
    BY <1>1, <1>4 DEF ReaderStep, LoopTest, EnterRead, FailStatus, FailStop, FailError,
       BadPayloadStatus, BadPayloadStop, BadPayloadClose, BadPayloadReport, PushMessage,
       EmitDisconnect, PushDisconnect, Transition, Storing, TypeOK, nodeVars
  <2>2. QED
    BY <1>1, <2>1 DEF NodeCount
<1>5. ASSUME NEW s \in Sockets, Peer(s), ~ReadMessage(s) PROVE NodeCount'
  <2>1. Storing' = Storing /\ UNCHANGED <<messages, nextJsonNodeId>>
    BY <1>1, <1>5 DEF Peer, ReadFails, Transition, Storing, TypeOK, nodeVars
  <2>2. QED
    BY <1>1, <2>1 DEF NodeCount
<1>6. CASE Main
  <2>1. UNCHANGED <<messages, nextJsonNodeId>>
    BY <1>6, MainFrame
  <2>2. ASSUME NEW json \in BOOLEAN, NEW connects \in BOOLEAN,
               ConnectWebSocketClient(json, connects)
        PROVE  Storing' = Storing
    <3>1. nextWebSocketId \in Sockets /\ rpc[nextWebSocketId] = "none"
      BY <1>1, <2>2, BoundsAssumption DEF ConnectWebSocketClient, TypeOK, Sockets, FreshInv, FreshIds
    <3>2. QED
      BY <1>1, <2>2, <3>1 DEF ConnectWebSocketClient, Storing, TypeOK
  <2>3. Storing' = Storing
    BY <1>6, <2>2, MainFrame DEF Storing
  <2>4. QED
    BY <1>1, <2>1, <2>3 DEF NodeCount
<1>7. CASE UNCHANGED vars
  BY <1>1, <1>7 DEF vars, nodeVars, readerVars, NodeCount, Storing
<1>8. QED
  BY <1>2, <1>3, <1>4, <1>5, <1>6, <1>7 DEF Next, Main

-----------------------------------------------------------------------------
(* Ids, the calls of the main thread, and who owns a read thread.          *)

LEMMA NextIdTyped ==
  ASSUME TypeOK, [Next]_vars PROVE nextWebSocketId \in Nat /\ nextWebSocketId' \in Nat
<1> USE BoundsAssumption DEF TypeOK, connVars
<1>1. ASSUME NEW s \in Sockets, ReaderStep(s) \/ Peer(s) PROVE UNCHANGED nextWebSocketId
  BY <1>1, ReaderFrame
<1>2. CASE Main
  BY <1>2 DEF Main, Script, MainStep, ConnectWebSocketClient, CloseWebSocketClient,
     ReleaseJsonNode, CloseStop, CloseClient, CloseEmit, ClosePush, CloseCleanup, JoinReaders,
     ShutdownSwap, ShutdownStop, ShutdownClose, ShutdownJoin, ResetNodes, DrainEvents,
     RunCallback, CleanupAfterCallback, ResetEvents, Destroy
<1>3. CASE UNCHANGED vars
  BY <1>3 DEF vars
<1>4. QED
  BY <1>1, <1>2, <1>3 DEF Next, Main

\* An event that is pushed is about a socket that was given out.
LEMMA PushKeepsIds ==
  ASSUME TypeOK, FreshInv, NEW e \in Events, Push(e), batch' = batch,
         e.id < nextWebSocketId, UNCHANGED nextWebSocketId
  PROVE  EventIds'
<1>1. PICK n \in EventIndices' :
        /\ EventIndices = EventIndices' \ {n} /\ Undelivered'[n] = e
        /\ \A i \in EventIndices : i < n /\ Undelivered'[i] = Undelivered[i]
  BY PushAddsLast
<1>2. QED
  BY <1>1 DEF FreshInv, EventIds

LEMMA StepIds ==
  ASSUME TypeOK, FreshInv, MainInv, [Next]_vars
  PROVE  EventIds'
<1>1. CASE EventsQuiet
  <2>1. \A i \in EventIndices : Undelivered[i].id \in Sockets
    BY EventTyped, EventForms
  <2>2. Undelivered' = Undelivered /\ EventIndices' = EventIndices
    BY <1>1, QuietKeepsEvents
  <2>3. PICK m \in Nat : m = nextWebSocketId
    BY NextIdTyped
  <2>4. PICK n \in Nat : n = nextWebSocketId' /\ m <= n
    BY <2>3, Monotone, NextIdTyped
  <2>5. \A i \in EventIndices : Undelivered[i].id \in Nat /\ Undelivered[i].id < m
    BY <2>1, <2>3, SocketsAreNumbers DEF FreshInv, EventIds
  <2>6. \A i \in EventIndices : Undelivered[i].id < n
    BY <2>4, <2>5
  <2>7. QED
    BY <2>2, <2>4, <2>6 DEF EventIds
<1>2. ASSUME NEW s \in Sockets, PushMessage(s) \/ PushDisconnect(s)
      PROVE  EventIds'
  <2>1. s < nextWebSocketId /\ UNCHANGED nextWebSocketId
    BY <1>2, SocketsAreNumbers, BoundsAssumption
       DEF PushMessage, PushDisconnect, Transition, FreshInv, FreshIds, connVars, TypeOK
  <2>2. CASE PushMessage(s)
    BY <2>1, <2>2, MessagePushed, PushKeepsIds DEF Message
  <2>3. CASE PushDisconnect(s)
    BY <2>1, <2>3, DisconnectPushed, PushKeepsIds DEF Disconnected
  <2>4. QED
    BY <1>2, <2>2, <2>3
<1>3. CASE ClosePush
  <2>1. target \in Sockets
    BY <1>3, ClosePushed
  <2>2. target < nextWebSocketId /\ UNCHANGED nextWebSocketId
    BY <1>3, <2>1, SocketsAreNumbers, BoundsAssumption
       DEF ClosePush, FreshInv, FreshIds, connVars, TypeOK
  <2>3. QED
    BY <1>3, <2>2, ClosePushed, PushKeepsIds DEF Disconnected
<1>4. CASE DrainEvents
  BY <1>4, DrainKeepsEvents DEF DrainEvents, connVars, FreshInv, EventIds
<1>5. CASE RunCallback
  BY <1>5, CallbackTakesFirst DEF RunCallback, connVars, FreshInv, EventIds
<1>6. CASE ResetEvents
  BY <1>6, ResetDropsEvents DEF EventIds
<1>7. QED
  BY <1>1, <1>2, <1>3, <1>4, <1>5, <1>6, EventSteps

LEMMA StepFresh == IInv /\ [Next]_vars => FreshInv'
<1> SUFFICES ASSUME IInv, [Next]_vars PROVE FreshInv'
  OBVIOUS
<1>1. TypeOK /\ FreshInv /\ MainInv
  BY DEF IInv
<1>2. EventIds'
  BY <1>1, StepIds
<1> SUFFICES FreshIds'
  BY <1>2 DEF FreshInv
<1>3. ASSUME NEW s \in Sockets, ReaderStep(s) \/ Peer(s) PROVE FreshIds'
  BY <1>1, <1>3, ReaderFrame DEF FreshInv, FreshIds, connVars, closeVars
<1>4. ASSUME NEW json \in BOOLEAN, NEW connects \in BOOLEAN,
             ConnectWebSocketClient(json, connects)
      PROVE  FreshIds'
  BY <1>1, <1>4, BoundsAssumption, SocketsAreNumbers
     DEF ConnectWebSocketClient, FreshInv, FreshIds, TypeOK, mainVars, closeVars
<1>5. ASSUME NEW s \in Sockets, NEW st \in ScriptStatuses, CloseWebSocketClient(s, st)
      PROVE  FreshIds'
  BY <1>1, <1>5 DEF CloseWebSocketClient, FreshInv, FreshIds, connVars, readerVars
<1>6. ASSUME NEW n \in NodeIds, ReleaseJsonNode(n) PROVE FreshIds'
  BY <1>1, <1>6 DEF ReleaseJsonNode, FreshInv, FreshIds, connVars, readerVars, mainVars, closeVars
<1>7. CASE CloseStop \/ CloseClient \/ CloseEmit \/ ClosePush \/ JoinReaders \/ ShutdownJoin
           \/ ResetNodes \/ DrainEvents \/ RunCallback \/ ResetEvents \/ Destroy
  <2>1. UNCHANGED <<connVars, rpc, toStop, target>>
    BY <1>7 DEF CloseStop, CloseClient, CloseEmit, ClosePush, JoinReaders, ShutdownJoin,
       ResetNodes, DrainEvents, RunCallback, ResetEvents, Destroy, readerVars, closeVars
  <2>2. QED
    BY <1>1, <2>1 DEF FreshInv, FreshIds, connVars
<1>8. CASE CloseCleanup \/ CleanupAfterCallback \/ ShutdownClose
  <2>1. /\ UNCHANGED <<nextWebSocketId, rpc>> /\ webSocketConnections' \subseteq webSocketConnections
        /\ toStop' \subseteq toStop /\ target' = NoSocket
    BY <1>8 DEF CloseCleanup, CleanupAfterCallback, CleanupConnection, ShutdownClose,
       readerVars, connVars
  <2>2. QED
    BY <1>1, <2>1, SocketsAreNumbers DEF FreshInv, FreshIds
<1>a. CASE ShutdownSwap
  BY <1>1, <1>a DEF ShutdownSwap, FreshInv, FreshIds, readerVars
<1>b. ASSUME NEW s \in Sockets, ShutdownStop(s) PROVE FreshIds'
  BY <1>1, <1>b DEF ShutdownStop, FreshInv, FreshIds, readerVars, connVars
<1>9. CASE UNCHANGED vars
  BY <1>1, <1>9 DEF vars, connVars, readerVars, mainVars, closeVars, FreshInv, FreshIds
<1>10. QED
  BY <1>3, <1>4, <1>5, <1>6, <1>7, <1>8, <1>9, <1>a, <1>b DEF Next, Script, MainStep

LEMMA StepMain == IInv /\ [Next]_vars => MainInv'
<1> SUFFICES ASSUME IInv, [Next]_vars PROVE MainInv'
  OBVIOUS
<1>1. TypeOK /\ FreshInv /\ MainInv
  BY DEF IInv
<1> USE DEF Shutting, connVars, mainVars, drainVars, closeVars, resetVars, history
<1>2. ASSUME NEW s \in Sockets, ReaderStep(s) \/ Peer(s) PROVE MainInv'
  BY <1>1, <1>2, ReaderFrame, Monotone DEF MainInv, Next
<1>3. CASE Script
  BY <1>1, <1>3, BoundsAssumption DEF Script, ConnectWebSocketClient, CloseWebSocketClient,
     ReleaseJsonNode, MainInv, TypeOK
<1>4. CASE CloseStop \/ CloseClient \/ CloseEmit \/ ClosePush \/ CloseCleanup
  BY <1>1, <1>4 DEF CloseStop, CloseClient, CloseEmit, ClosePush, CloseCleanup,
     CleanupConnection, MainInv
<1>5. CASE JoinReaders \/ ShutdownSwap \/ ShutdownClose \/ ShutdownJoin \/ ResetNodes
  BY <1>1, <1>5 DEF JoinReaders, ShutdownSwap, ShutdownClose, ShutdownJoin, ResetNodes,
     MainInv, TypeOK
<1>6. ASSUME NEW s \in Sockets, ShutdownStop(s) PROVE MainInv'
  BY <1>1, <1>6 DEF ShutdownStop, MainInv
<1>7. CASE DrainEvents \/ RunCallback \/ CleanupAfterCallback
  BY <1>1, <1>7 DEF DrainEvents, RunCallback, CleanupAfterCallback, CleanupConnection, MainInv
<1>8. CASE ResetEvents \/ Destroy
  BY <1>1, <1>8, BoundsAssumption DEF ResetEvents, Destroy, MainInv, TypeOK
<1>9. CASE UNCHANGED vars
  BY <1>1, <1>9 DEF vars, flagVars, MainInv
<1>10. QED
  BY <1>2, <1>3, <1>4, <1>5, <1>6, <1>7, <1>8, <1>9 DEF Next, MainStep

LEMMA StepReaders == IInv /\ [Next]_vars => ReadersOwned'
<1> SUFFICES ASSUME IInv, [Next]_vars PROVE ReadersOwned'
  OBVIOUS
<1>1. TypeOK /\ ReadersOwned /\ MainInv
  BY DEF IInv
<1> USE DEF connVars, readerVars, mainVars, closeVars
<1>2. ASSUME NEW s \in Sockets, ReaderStep(s) \/ Peer(s) PROVE ReadersOwned'
  BY <1>1, <1>2, ReaderFrame DEF ReadersOwned
<1>3. CASE Script
  BY <1>1, <1>3 DEF Script, ConnectWebSocketClient, CloseWebSocketClient, ReleaseJsonNode,
     ReadersOwned, TypeOK
<1>4. CASE MainStep
  BY <1>1, <1>4 DEF MainStep, CloseStop, CloseClient, CloseEmit, ClosePush, CloseCleanup,
     CleanupConnection, JoinReaders, ShutdownSwap, ShutdownStop, ShutdownClose, ShutdownJoin,
     ResetNodes, ReadersOwned, MainInv
<1>5. CASE DrainEvents \/ RunCallback \/ CleanupAfterCallback \/ ResetEvents \/ Destroy
  BY <1>1, <1>5 DEF DrainEvents, RunCallback, CleanupAfterCallback, CleanupConnection,
     ResetEvents, Destroy, ReadersOwned, MainInv
<1>6. CASE UNCHANGED vars
  BY <1>1, <1>6 DEF vars, ReadersOwned
<1>7. QED
  BY <1>2, <1>3, <1>4, <1>5, <1>6 DEF Next

-----------------------------------------------------------------------------
(* The causes of the disconnect reports.                                   *)

LEMMA ReaderCause ==
  ASSUME TypeOK, CauseInv, NEW s \in Sockets, ReaderStep(s) \/ Peer(s)
  PROVE  CauseInv'
<1>1. CauseOf(s)
  BY DEF CauseInv
<1> USE DEF CauseOf, Happened, ReadFailed, Transition, connVars, flagVars, mainVars, history
<1> DEFINE OfOthers == /\ stopToken' \subseteq stopToken \cup {s}
                       /\ stopToken \subseteq stopToken' /\ closed' \subseteq closed \cup {s}
                       /\ \A t \in Sockets : t # s => closeStatus'[t] = closeStatus[t]
                       /\ causes \subseteq causes'
<1>2. CauseOf(s)' /\ OfOthers
  <2>1. CASE LoopTest(s)
    BY <1>1, <2>1 DEF LoopTest, TypeOK, Justified
  <2>2. CASE EnterRead(s)
    BY <1>1, <2>2 DEF EnterRead, TypeOK
  <2>3. CASE FailStatus(s)
    BY <1>1, <2>3 DEF FailStatus, TypeOK
  <2>4. CASE FailStop(s)
    BY <1>1, <2>4 DEF FailStop, TypeOK, Reports
  <2>5. CASE FailError(s)
    BY <1>1, <2>5 DEF FailError, TypeOK, Reports, Justified
  <2>6. CASE BadPayloadStatus(s)
    BY <1>1, <2>6 DEF BadPayloadStatus, TypeOK
  <2>7. CASE BadPayloadStop(s) \/ BadPayloadClose(s)
    BY <1>1, <2>7 DEF BadPayloadStop, BadPayloadClose, TypeOK
  <2>8. CASE BadPayloadReport(s)
    BY <1>1, <2>8 DEF BadPayloadReport, TypeOK, Justified
  <2>9. CASE StoreJsonNode(s) \/ PushMessage(s)
    BY <1>1, <2>9 DEF StoreJsonNode, PushMessage, TypeOK
  <2>10. CASE EmitDisconnect(s)
    BY <1>1, <2>10 DEF EmitDisconnect, TypeOK, Justified
  <2>11. CASE PushDisconnect(s)
    BY <1>1, <2>11 DEF PushDisconnect, TypeOK
  <2>12. CASE ReadMessage(s)
    BY <1>1, <2>12 DEF ReadMessage, TypeOK
  <2>13. ASSUME NEW clean \in BOOLEAN, ReadFails(s, clean)
         PROVE  CauseOf(s)' /\ OfOthers
    BY <1>1, <2>13 DEF ReadFails, TypeOK
  <2>14. QED
    BY <2>1, <2>2, <2>3, <2>4, <2>5, <2>6, <2>7, <2>8, <2>9, <2>10, <2>11, <2>12, <2>13
       DEF ReaderStep, Peer
<1>3. ASSUME NEW t \in Sockets, t # s PROVE CauseOf(t)'
  <2>1. /\ rpc'[t] = rpc[t] /\ report'[t] = report[t] /\ mainClosed' = mainClosed
    BY <1>3, ReaderFrame
  <2>2. /\ t \in stopToken' <=> t \in stopToken
        /\ t \in closed' => t \in closed
        /\ closeStatus'[t] = closeStatus[t] /\ causes \subseteq causes'
    BY <1>2, <1>3
  <2>3. CauseOf(t)
    BY DEF CauseInv
  <2>4. QED
    BY <2>1, <2>2, <2>3 DEF Justified
<1>4. QED
  BY <1>2, <1>3 DEF CauseInv

\* The main thread sets the token and the status of sockets it closes only,
\* and closes clients whose token it has set.
LEMMA MainTokens ==
  ASSUME TypeOK, MainInv, Main
  PROVE  /\ stopToken \subseteq stopToken' /\ stopToken' \subseteq stopToken \cup mainClosed
         /\ closed' \subseteq closed \cup stopToken /\ causes' = causes
         /\ \A s \in Sockets : closeStatus'[s] = closeStatus[s] \/ s \in mainClosed'
<1> USE DEF flagVars, mainVars, history, MainInv, TypeOK
<1>1. CASE Script
  BY <1>1 DEF Script, ConnectWebSocketClient, CloseWebSocketClient, ReleaseJsonNode
<1>2. CASE MainStep
  BY <1>2 DEF MainStep, CloseStop, CloseClient, CloseEmit, ClosePush, CloseCleanup, JoinReaders,
     ShutdownSwap, ShutdownStop, ShutdownClose, ShutdownJoin, ResetNodes
<1>3. CASE DrainEvents \/ RunCallback \/ CleanupAfterCallback \/ ResetEvents \/ Destroy
  BY <1>3 DEF DrainEvents, RunCallback, CleanupAfterCallback, ResetEvents, Destroy
<1>4. QED
  BY <1>1, <1>2, <1>3 DEF Main

\* What a step of the main thread does to a read thread.
LEMMA MainMoves ==
  ASSUME TypeOK, FreshInv, Main, NEW s \in Sockets
  PROVE  rpc'[s] = rpc[s] \/ (rpc[s] = "none" /\ rpc'[s] = "loop")
<1>1. ASSUME NEW json \in BOOLEAN, NEW connects \in BOOLEAN,
             ConnectWebSocketClient(json, connects)
      PROVE  rpc'[s] = rpc[s] \/ (rpc[s] = "none" /\ rpc'[s] = "loop")
  <2>1. nextWebSocketId \in Sockets /\ rpc[nextWebSocketId] = "none"
    BY <1>1, BoundsAssumption
       DEF ConnectWebSocketClient, TypeOK, Sockets, FreshInv, FreshIds
  <2>2. QED
    BY <1>1, <2>1 DEF ConnectWebSocketClient, TypeOK
<1>2. QED
  BY <1>1, MainFrame

LEMMA StepCause == IInv /\ [Next]_vars => CauseInv'
<1> SUFFICES ASSUME IInv, [Next]_vars PROVE CauseInv'
  OBVIOUS
<1>1. TypeOK /\ FreshInv /\ MainInv /\ CauseInv
  BY DEF IInv
<1>2. ASSUME NEW s \in Sockets, ReaderStep(s) \/ Peer(s) PROVE CauseInv'
  BY <1>1, <1>2, ReaderCause
<1>3. CASE Main
  <2> SUFFICES ASSUME NEW s \in Sockets PROVE CauseOf(s)'
    BY DEF CauseInv
  <2>1. CauseOf(s) /\ report' = report
    BY <1>1, <1>3, MainFrame DEF CauseInv
  <2>2. mainClosed \subseteq mainClosed' /\ causes \subseteq causes'
    BY <1>1, Monotone
  <2>3. /\ stopToken \subseteq stopToken' /\ stopToken' \subseteq stopToken \cup mainClosed
        /\ closed' \subseteq closed \cup stopToken /\ causes' = causes
        /\ closeStatus'[s] = closeStatus[s] \/ s \in mainClosed'
    BY <1>1, <1>3, MainTokens
  <2>4. rpc'[s] = rpc[s] \/ (rpc[s] = "none" /\ rpc'[s] = "loop")
    BY <1>1, <1>3, MainMoves
  <2>5. QED
    BY <2>1, <2>2, <2>3, <2>4 DEF CauseOf, Justified, Happened, ReadFailed
<1>4. CASE UNCHANGED vars
  BY <1>1, <1>4
     DEF vars, connVars, flagVars, readerVars, mainVars, history, CauseInv, CauseOf, Justified,
         Happened, ReadFailed
<1>5. QED
  BY <1>2, <1>3, <1>4 DEF Next, Main

\* A callback appends its event to what the script has heard of the socket.
LEMMA CallbackTells ==
  ASSUME TypeOK, RunCallback
  PROVE  LET e == Undelivered[1]
             n == Len(heard[e.id]) + 1
         IN  /\ e \in Events /\ e.id \in Sockets
             /\ \A s \in Sockets : s # e.id => heard'[s] = heard[s]
             /\ n \in Nat /\ 1 .. Len(heard'[e.id]) = 1 .. n /\ heard'[e.id][n] = e
             /\ \A i \in 1 .. n : i # n => i < n /\ i \in 1 .. Len(heard[e.id])
                                           /\ heard'[e.id][i] = heard[e.id][i]
<1> DEFINE e == Undelivered[1]
<1>1. e \in Events /\ e = Head(batch) /\ e.id \in Sockets
  BY CallbackTakesFirst, EventForms
<1>2. heard[e.id] \in Seq(Events) /\ Len(heard[e.id]) \in Nat
  BY <1>1, HeardTyped
<1>3. heard' = [heard EXCEPT ![e.id] = Append(heard[e.id], e)]
  BY <1>1 DEF RunCallback
<1>4. heard'[e.id] = Append(heard[e.id], e) /\ \A s \in Sockets : s # e.id => heard'[s] = heard[s]
  BY <1>1, <1>3 DEF TypeOK
<1> HIDE DEF e
<1>5. /\ Len(heard'[e.id]) = Len(heard[e.id]) + 1
      /\ \A i \in 1 .. Len(heard[e.id]) : heard'[e.id][i] = heard[e.id][i]
      /\ heard'[e.id][Len(heard[e.id]) + 1] = e
  BY <1>1, <1>2, <1>4, AppendProperties
<1>6. QED
  BY <1>1, <1>2, <1>4, <1>5 DEF e

LEMMA PushKeepsJustified ==
  ASSUME TypeOK, ReportsJustified, [Next]_vars, NEW e \in Events, Push(e), batch' = batch,
         heard' = heard, IsEnd(e) => Justified(e.id, e)
  PROVE  ReportsJustified'
<1>1. PICK n \in EventIndices' :
        /\ EventIndices = EventIndices' \ {n} /\ Undelivered'[n] = e
        /\ \A i \in EventIndices : i < n /\ Undelivered'[i] = Undelivered[i]
  BY PushAddsLast
<1>2. mainClosed \subseteq mainClosed' /\ causes \subseteq causes'
  BY Monotone
<1>3. QED
  BY <1>1, <1>2 DEF ReportsJustified, IsEnd, Justified, Happened, ReadFailed

LEMMA StepJustified == IInv /\ [Next]_vars => ReportsJustified'
<1> SUFFICES ASSUME IInv, [Next]_vars PROVE ReportsJustified'
  OBVIOUS
<1>1. TypeOK /\ MainInv /\ CauseInv /\ ReportsJustified
  BY DEF IInv
<1>2. mainClosed \subseteq mainClosed' /\ causes \subseteq causes'
  BY <1>1, Monotone
<1>3. CASE EventsQuiet \/ DrainEvents
  <2>1. Undelivered' = Undelivered /\ EventIndices' = EventIndices /\ heard' = heard
    BY <1>1, <1>3, QuietKeepsEvents, DrainKeepsEvents DEF EventsQuiet, DrainEvents, history
  <2>2. QED
    BY <1>1, <1>2, <2>1 DEF ReportsJustified, IsEnd, Justified, Happened, ReadFailed
<1>4. ASSUME NEW s \in Sockets, PushMessage(s) PROVE ReportsJustified'
  BY <1>1, <1>4, MessagePushed, PushKeepsJustified DEF Message, IsEnd
<1>5. ASSUME NEW s \in Sockets, PushDisconnect(s) PROVE ReportsJustified'
  <2>1. Justified(s, report[s])
    BY <1>1, <1>5 DEF PushDisconnect, Transition, CauseInv, CauseOf
  <2>2. LET e == Disconnected(s, report[s].status, report[s].error) IN Justified(e.id, e)
    BY <2>1 DEF Disconnected, Justified
  <2>3. QED
    BY <1>1, <1>5, <2>2, DisconnectPushed, PushKeepsJustified
<1>6. CASE ClosePush
  <2>1. LET e == Disconnected(target, status, "NONE") IN Justified(e.id, e)
    BY <1>1, <1>6 DEF ClosePush, MainInv, Disconnected, Justified
  <2>2. QED
    BY <1>1, <1>6, <2>1, ClosePushed, PushKeepsJustified
<1>7. CASE RunCallback
  <2>1. PICK e : e = Undelivered[1]
    OBVIOUS
  <2>2. 1 \in EventIndices /\ e.id \in Sockets
    BY <1>1, <1>7, <2>1, CallbackTakesFirst, CallbackTells
  <2>3. IsEnd(e) => Justified(e.id, e)
    BY <1>1, <2>1, <2>2 DEF ReportsJustified
  <2>4. \A i \in EventIndices' : i + 1 \in EventIndices /\ Undelivered'[i] = Undelivered[i + 1]
    BY <1>1, <1>7, CallbackTakesFirst
  <2>5. ASSUME NEW s \in Sockets, NEW i \in 1 .. Len(heard'[s])
        PROVE  heard'[s][i].id = s /\ (IsEnd(heard'[s][i]) => Justified(s, heard'[s][i]))
    <3>1. CASE s # e.id
      BY <1>1, <1>7, <2>1, <2>5, <3>1, CallbackTells DEF ReportsJustified
    <3>2. CASE s = e.id /\ i = Len(heard[s]) + 1
      BY <1>1, <1>7, <2>1, <2>3, <2>5, <3>2, CallbackTells
    <3>3. CASE s = e.id /\ i # Len(heard[s]) + 1
      <4>1. i \in 1 .. Len(heard[s]) /\ heard'[s][i] = heard[s][i]
        BY <1>1, <1>7, <2>1, <2>5, <3>3, CallbackTells
      <4>2. QED
        BY <1>1, <4>1 DEF ReportsJustified
    <3>4. QED
      BY <3>1, <3>2, <3>3
  <2>6. QED
    BY <1>1, <1>2, <2>4, <2>5 DEF ReportsJustified, IsEnd, Justified, Happened, ReadFailed
<1>8. CASE ResetEvents
  <2>1. EventIndices' = {} /\ heard' = heard
    BY <1>1, <1>8, ResetDropsEvents DEF ResetEvents, history
  <2>2. QED
    BY <1>1, <1>2, <2>1 DEF ReportsJustified, IsEnd, Justified, Happened, ReadFailed
<1>9. QED
  BY <1>3, <1>4, <1>5, <1>6, <1>7, <1>8, EventSteps

-----------------------------------------------------------------------------
(* Who reports the end of a connection, and when.                          *)

\* A report appears only where one is pushed.
LEMMA PushedEnd ==
  ASSUME TypeOK, NEW e \in Events, Push(e), batch' = batch, heard' = heard,
         NEW s \in Sockets, Ended(s)'
  PROVE  Ended(s) \/ (IsEnd(e) /\ e.id = s)
<1>1. PICK n \in EventIndices' :
        /\ EventIndices = EventIndices' \ {n} /\ Undelivered'[n] = e
        /\ \A i \in EventIndices : i < n /\ Undelivered'[i] = Undelivered[i]
  BY PushAddsLast
<1>2. QED
  BY <1>1 DEF Ended, HeardEnd, EndOnWay, IsEnd

LEMMA EndsAppear ==
  ASSUME TypeOK, MainInv, [Next]_vars, NEW s \in Sockets, Ended(s)'
  PROVE  Ended(s) \/ PushDisconnect(s) \/ (ClosePush /\ target = s)
<1>1. CASE EventsQuiet \/ DrainEvents
  <2>1. Undelivered' = Undelivered /\ EventIndices' = EventIndices /\ heard' = heard
    BY <1>1, QuietKeepsEvents, DrainKeepsEvents DEF EventsQuiet, DrainEvents, history
  <2>2. QED
    BY <2>1 DEF Ended, HeardEnd, EndOnWay, IsEnd
<1>2. ASSUME NEW t \in Sockets, PushMessage(t) PROVE Ended(s)
  BY <1>2, MessagePushed, PushedEnd DEF Message, IsEnd
<1>3. ASSUME NEW t \in Sockets, PushDisconnect(t) PROVE Ended(s) \/ t = s
  BY <1>3, DisconnectPushed, PushedEnd DEF Disconnected, IsEnd
<1>4. CASE ClosePush
  BY <1>4, ClosePushed, PushedEnd DEF Disconnected, IsEnd
<1>5. CASE RunCallback
  <2>1. CASE EndOnWay(s)'
    BY <1>5, <2>1, CallbackTakesFirst DEF Ended, EndOnWay, IsEnd
  <2>2. CASE HeardEnd(s)'
    <3>1. PICK e : e = Undelivered[1]
      OBVIOUS
    <3>2. PICK i \in 1 .. Len(heard'[s]) : IsEnd(heard'[s][i])
      BY <2>2 DEF HeardEnd, IsEnd
    <3>3. CASE s # e.id
      BY <1>5, <3>1, <3>2, <3>3, CallbackTells DEF Ended, HeardEnd
    <3>4. CASE s = e.id /\ i = Len(heard[s]) + 1
      <4>1. IsEnd(e) /\ 1 \in EventIndices
        BY <1>5, <3>1, <3>2, <3>4, CallbackTells, CallbackTakesFirst
      <4>2. QED
        BY <3>1, <3>4, <4>1 DEF Ended, EndOnWay
    <3>5. CASE s = e.id /\ i # Len(heard[s]) + 1
      <4>1. i \in 1 .. Len(heard[s]) /\ heard'[s][i] = heard[s][i]
        BY <1>5, <3>1, <3>5, CallbackTells
      <4>2. QED
        BY <3>2, <4>1 DEF Ended, HeardEnd
    <3>6. QED
      BY <3>3, <3>4, <3>5
  <2>3. QED
    BY <2>1, <2>2 DEF Ended
<1>6. CASE ResetEvents
  <2>1. EventIndices' = {} /\ heard' = heard
    BY <1>6, ResetDropsEvents DEF ResetEvents, history
  <2>2. QED
    BY <2>1 DEF Ended, HeardEnd, EndOnWay, IsEnd
<1>7. QED
  BY <1>1, <1>2, <1>3, <1>4, <1>5, <1>6, EventSteps

\* The two that may push a report, and that a thread that returned stays so.
LEMMA ReportersAppear ==
  ASSUME TypeOK, FreshInv, [Next]_vars, NEW s \in Sockets
  PROVE  /\ rpc[s] = "done" => rpc'[s] = "done"
         /\ rpc'[s] = "pushEnd" => EmitDisconnect(s) \/ (rpc[s] = "pushEnd" /\ ~PushDisconnect(s))
<1>1. ASSUME NEW t \in Sockets, ReaderStep(t) \/ Peer(t), t # s
      PROVE  rpc'[s] = rpc[s] /\ ~PushDisconnect(s)
  <2>1. rpc'[s] = rpc[s] /\ rpc'[t] # rpc[t]
    <3>1. rpc'[s] = rpc[s]
      BY <1>1, ReaderFrame
    <3>2. rpc'[t] # rpc[t]
      BY <1>1 DEF ReaderStep, Peer, LoopTest, EnterRead, FailStatus, FailStop, FailError,
         BadPayloadStatus, BadPayloadStop, BadPayloadClose, BadPayloadReport, StoreJsonNode,
         PushMessage, PushDisconnect, EmitDisconnect, ReadMessage, ReadFails, Transition, TypeOK
    <3>3. QED
      BY <3>1, <3>2
  <2>2. QED
    BY <2>1 DEF PushDisconnect, Transition, TypeOK
<1>2. CASE ReaderStep(s) \/ Peer(s)
  BY <1>2 DEF ReaderStep, Peer, LoopTest, EnterRead, FailStatus, FailStop, FailError,
     BadPayloadStatus, BadPayloadStop, BadPayloadClose, BadPayloadReport, StoreJsonNode,
     PushMessage, PushDisconnect, ReadMessage, ReadFails, Transition, TypeOK, EmitDisconnect
<1>3. CASE Main
  BY <1>3, MainMoves DEF PushDisconnect, Transition, TypeOK
<1>4. CASE UNCHANGED vars
  BY <1>4 DEF vars, readerVars, PushDisconnect, Transition, TypeOK
<1>5. QED
  BY <1>1, <1>2, <1>3, <1>4 DEF Next, Main

LEMMA ClosersAppear ==
  ASSUME TypeOK, [Next]_vars, mpc' = "closePush"
  PROVE  /\ target' = target /\ ~ClosePush
         /\ mpc = "closePush" \/ (CloseEmit /\ target \notin disconnectEmitted)
<1> USE DEF mainVars, closeVars, ClosePush
<1>1. ASSUME NEW s \in Sockets, ReaderStep(s) \/ Peer(s)
      PROVE  UNCHANGED <<mpc, target>>
  BY <1>1, ReaderFrame
<1>2. CASE Script
  BY <1>2 DEF Script, ConnectWebSocketClient, CloseWebSocketClient, ReleaseJsonNode
<1>3. CASE MainStep
  BY <1>3 DEF MainStep, CloseStop, CloseClient, CloseEmit, CloseCleanup, CleanupConnection,
     JoinReaders, ShutdownSwap, ShutdownStop, ShutdownClose, ShutdownJoin, ResetNodes, TypeOK
<1>4. CASE DrainEvents \/ RunCallback \/ CleanupAfterCallback \/ ResetEvents \/ Destroy
  BY <1>4 DEF DrainEvents, RunCallback, CleanupAfterCallback, CleanupConnection, ResetEvents,
     Destroy
<1>5. CASE UNCHANGED vars
  BY <1>5 DEF vars
<1>6. QED
  BY <1>1, <1>2, <1>3, <1>4, <1>5 DEF Next

LEMMA StepFlag == IInv /\ [Next]_vars => FlagInv'
<1> SUFFICES ASSUME IInv, [Next]_vars PROVE FlagInv'
  OBVIOUS
<1>1. TypeOK /\ FreshInv /\ MainInv /\ FlagInv
  BY DEF IInv
<1>2. mainClosed \subseteq mainClosed' /\ disconnectEmitted \subseteq disconnectEmitted'
  BY <1>1, Monotone
<1>3. ASSUME NEW s \in Sockets, Ended(s)'
      PROVE  s \in disconnectEmitted' /\ (s \notin mainClosed' => rpc'[s] = "done")
  <2>1. CASE Ended(s)
    BY <1>1, <1>2, <2>1, ReportersAppear DEF FlagInv
  <2>2. CASE PushDisconnect(s)
    BY <1>1, <1>2, <2>2 DEF PushDisconnect, Transition, FlagInv, TypeOK
  <2>3. CASE ClosePush /\ target = s
    BY <1>1, <1>2, <2>3 DEF ClosePush, FlagInv, MainInv
  <2>4. QED
    BY <1>1, <1>3, <2>1, <2>2, <2>3, EndsAppear
<1>4. ASSUME NEW s \in Sockets, rpc'[s] = "pushEnd"
      PROVE  s \in disconnectEmitted' /\ ~Ended(s)' /\ ~(mpc' = "closePush" /\ target' = s)
  <2>1. CASE EmitDisconnect(s)
    <3>1. s \notin disconnectEmitted /\ s \in disconnectEmitted' /\ UNCHANGED <<mpc, target>>
      BY <1>1, <1>4, <2>1 DEF EmitDisconnect, mainVars, closeVars, TypeOK
    <3>2. ~Ended(s) /\ ~(mpc = "closePush" /\ target = s)
      BY <1>1, <3>1 DEF FlagInv
    <3>3. ~PushDisconnect(s) /\ ~ClosePush
      BY <2>1, <3>1 DEF EmitDisconnect, PushDisconnect, Transition, ClosePush
    <3>4. QED
      BY <1>1, <3>1, <3>2, <3>3, EndsAppear
  <2>2. CASE rpc[s] = "pushEnd" /\ ~PushDisconnect(s)
    <3>1. s \in disconnectEmitted /\ ~Ended(s) /\ ~(mpc = "closePush" /\ target = s)
      BY <1>1, <2>2 DEF FlagInv
    <3>2. ~(ClosePush /\ target = s)
      BY <3>1 DEF ClosePush
    <3>3. ~(mpc' = "closePush" /\ target' = s)
      BY <1>1, <3>1, ClosersAppear
    <3>4. QED
      BY <1>1, <1>2, <2>2, <3>1, <3>2, <3>3, EndsAppear
  <2>3. QED
    BY <1>1, <1>4, <2>1, <2>2, ReportersAppear
<1>5. ASSUME mpc' = "closePush" PROVE target' \in disconnectEmitted' /\ ~Ended(target)'
  <2>1. /\ target' = target /\ ~ClosePush
        /\ mpc = "closePush" \/ (CloseEmit /\ target \notin disconnectEmitted)
    BY <1>1, <1>5, ClosersAppear
  <2>2. PICK s \in Sockets : s = target
    BY <1>1, <2>1 DEF MainInv, TypeOK, CloseEmit
  <2>3. s \in disconnectEmitted' /\ ~Ended(s)
    BY <1>1, <1>2, <2>1, <2>2 DEF FlagInv, CloseEmit
  <2>4. ~PushDisconnect(s)
    <3>1. CASE mpc = "closePush"
      BY <1>1, <2>2, <3>1 DEF FlagInv, PushDisconnect, Transition
    <3>2. CASE CloseEmit
      BY <1>1, <3>2 DEF CloseEmit, PushDisconnect, Transition, readerVars, TypeOK
    <3>3. QED
      BY <2>1, <3>1, <3>2
  <2>5. ~Ended(s)'
    BY <1>1, <2>1, <2>3, <2>4, EndsAppear
  <2>6. QED
    BY <2>1, <2>2, <2>3, <2>5 DEF Ended, HeardEnd, EndOnWay
<1>6. QED
  BY <1>3, <1>4, <1>5 DEF FlagInv

-----------------------------------------------------------------------------
(* A report is the last the script hears of a socket it did not close.     *)

LEMMA PushKeepsOrder ==
  ASSUME TypeOK, OrderInv, [Next]_vars, NEW e \in Events, Push(e), batch' = batch,
         heard' = heard, Ended(e.id) => Trails(e.id, e)
  PROVE  OrderInv'
<1>1. PICK n \in EventIndices' :
        /\ EventIndices = EventIndices' \ {n} /\ Undelivered'[n] = e
        /\ \A i \in EventIndices : i < n /\ Undelivered'[i] = Undelivered[i]
  BY PushAddsLast
<1>2. mainClosed \subseteq mainClosed'
  BY Monotone
<1>3. EventIndices' \subseteq Int
  BY DEF EventIndices
<1>4. HeardInOrder'
  BY <1>2 DEF OrderInv, HeardInOrder, Trails, IsEnd
<1>5. WayAfterHeard'
  BY <1>1, <1>2 DEF OrderInv, WayAfterHeard, Ended, HeardEnd, Trails, IsEnd
<1>6. ASSUME NEW i \in EventIndices', NEW k \in EventIndices',
             i < k, Undelivered'[i].id = Undelivered'[k].id, IsEnd(Undelivered'[i])
      PROVE  ~IsEnd(Undelivered'[k]) /\ Undelivered'[k].id \in mainClosed'
  <2>1. i \in EventIndices /\ Undelivered'[i] = Undelivered[i]
    BY <1>1, <1>3, <1>6
  <2>2. CASE k = n
    BY <1>1, <1>2, <1>6, <2>1, <2>2 DEF Ended, EndOnWay, Trails
  <2>3. CASE k # n
    BY <1>1, <1>2, <1>6, <2>1, <2>3 DEF OrderInv, WayInOrder, Trails
  <2>4. QED
    BY <2>2, <2>3
<1>7. QED
  BY <1>4, <1>5, <1>6 DEF OrderInv, WayInOrder, Trails, IsEnd

\* The callback moves the boundary between what was heard and what is to come.
LEMMA CallbackKeepsOrder ==
  ASSUME TypeOK, OrderInv, ReportsJustified, [Next]_vars, RunCallback
  PROVE  OrderInv'
<1>1. PICK e : e = Undelivered[1]
  OBVIOUS
<1>2. /\ e.id \in Sockets /\ 1 \in EventIndices /\ EventIndices \subseteq Nat
      /\ EventIndices' \subseteq Nat
      /\ \A i \in EventIndices' : i + 1 \in EventIndices /\ Undelivered'[i] = Undelivered[i + 1]
  BY <1>1, CallbackTakesFirst, CallbackTells DEF EventIndices
<1>3. mainClosed \subseteq mainClosed'
  BY Monotone
<1>4. PICK n \in Nat :
        /\ n = Len(heard[e.id]) + 1 /\ 1 .. Len(heard'[e.id]) = 1 .. n /\ heard'[e.id][n] = e
        /\ \A i \in 1 .. n : i # n => i < n /\ i \in 1 .. Len(heard[e.id])
                                      /\ heard'[e.id][i] = heard[e.id][i]
  BY <1>1, CallbackTells
<1>5. \A s \in Sockets : s # e.id => heard'[s] = heard[s]
  BY <1>1, CallbackTells
<1>6. ASSUME NEW s \in Sockets, NEW i \in 1 .. Len(heard'[s]), NEW k \in 1 .. Len(heard'[s]),
             i < k, IsEnd(heard'[s][i])
      PROVE  ~IsEnd(heard'[s][k]) /\ s \in mainClosed'
  <2>1. CASE s # e.id
    BY <1>3, <1>5, <1>6, <2>1 DEF OrderInv, HeardInOrder, Trails
  <2>2. CASE s = e.id
    <3>1. i # n
      BY <1>4, <1>6, <2>2
    <3>2. i \in 1 .. Len(heard[s]) /\ heard'[s][i] = heard[s][i]
      BY <1>4, <1>6, <2>2, <3>1
    <3>3. CASE k = n
      <4>1. HeardEnd(e.id) /\ heard'[s][k] = e
        BY <1>4, <1>6, <2>2, <3>2, <3>3 DEF HeardEnd
      <4>2. Trails(e.id, e)
        BY <1>1, <1>2, <4>1 DEF OrderInv, WayAfterHeard
      <4>3. QED
        BY <1>3, <2>2, <4>1, <4>2 DEF Trails
    <3>4. CASE k # n
      <4>1. k \in 1 .. Len(heard[s]) /\ heard'[s][k] = heard[s][k]
        BY <1>4, <1>6, <2>2, <3>4
      <4>2. QED
        BY <1>3, <1>6, <3>2, <4>1 DEF OrderInv, HeardInOrder, Trails
    <3>5. QED
      BY <3>3, <3>4
  <2>3. QED
    BY <2>1, <2>2
<1>7. ASSUME NEW k \in EventIndices', HeardEnd(Undelivered[k].id)'
      PROVE  ~IsEnd(Undelivered'[k]) /\ Undelivered'[k].id \in mainClosed'
  <2>1. PICK s : s = Undelivered'[k].id
    OBVIOUS
  <2>2. k + 1 \in EventIndices /\ Undelivered'[k] = Undelivered[k + 1] /\ s = Undelivered[k + 1].id
    BY <1>2, <2>1
  <2>3. s \in Sockets
    BY <2>2, EventTyped, EventForms
  <2>4. PICK i \in 1 .. Len(heard'[s]) : IsEnd(heard'[s][i])
    BY <1>7, <2>1 DEF HeardEnd, IsEnd
  <2>5. CASE s # e.id \/ i # n
    <3>1. HeardEnd(s)
      BY <1>4, <1>5, <2>3, <2>4, <2>5 DEF HeardEnd
    <3>2. QED
      BY <1>3, <2>2, <3>1 DEF OrderInv, WayAfterHeard, Trails
  <2>6. CASE s = e.id /\ i = n
    <3>1. IsEnd(Undelivered[1]) /\ Undelivered[1].id = Undelivered[k + 1].id
      BY <1>1, <1>4, <2>2, <2>4, <2>6
    <3>2. 1 < k + 1
      <4>1. k \in Nat /\ k # 0
        BY <1>7 DEF EventIndices
      <4>2. QED
        BY <4>1
    <3>3. Trails(Undelivered[k + 1].id, Undelivered[k + 1])
      BY <1>2, <2>2, <3>1, <3>2 DEF OrderInv, WayInOrder
    <3>4. QED
      BY <1>3, <2>2, <3>3 DEF Trails
  <2>7. QED
    BY <2>5, <2>6
<1>8. ASSUME NEW i \in EventIndices', NEW k \in EventIndices',
             i < k, Undelivered'[i].id = Undelivered'[k].id, IsEnd(Undelivered'[i])
      PROVE  ~IsEnd(Undelivered'[k]) /\ Undelivered'[k].id \in mainClosed'
  <2>1. /\ i + 1 \in EventIndices /\ Undelivered'[i] = Undelivered[i + 1]
        /\ k + 1 \in EventIndices /\ Undelivered'[k] = Undelivered[k + 1]
    BY <1>2
  <2>2. i + 1 < k + 1
    BY <1>2, <1>8
  <2>3. Trails(Undelivered[k + 1].id, Undelivered[k + 1])
    BY <1>8, <2>1, <2>2 DEF OrderInv, WayInOrder
  <2>4. QED
    BY <1>3, <2>1, <2>3 DEF Trails
<1>9. QED
  BY <1>6, <1>7, <1>8 DEF OrderInv, HeardInOrder, WayAfterHeard, WayInOrder, Trails, IsEnd

LEMMA StepOrder == IInv /\ [Next]_vars => OrderInv'
<1> SUFFICES ASSUME IInv, [Next]_vars PROVE OrderInv'
  OBVIOUS
<1>1. TypeOK /\ MainInv /\ FlagInv /\ OrderInv /\ ReportsJustified
  BY DEF IInv
<1>2. mainClosed \subseteq mainClosed'
  BY <1>1, Monotone
<1>3. CASE EventsQuiet \/ DrainEvents
  <2>1. Undelivered' = Undelivered /\ EventIndices' = EventIndices /\ heard' = heard
    BY <1>1, <1>3, QuietKeepsEvents, DrainKeepsEvents DEF EventsQuiet, DrainEvents, history
  <2>2. QED
    BY <1>1, <1>2, <2>1 DEF OrderInv, HeardInOrder, WayAfterHeard, WayInOrder, HeardEnd, Trails,
       IsEnd
<1>4. ASSUME NEW s \in Sockets, PushMessage(s) PROVE OrderInv'
  <2>1. LET e == Message(s, node[s]) IN Ended(e.id) => Trails(e.id, e)
    BY <1>1, <1>4, MessagePushed DEF FlagInv, Trails, IsEnd, Message
  <2>2. QED
    BY <1>1, <1>4, <2>1, MessagePushed, PushKeepsOrder
<1>5. ASSUME NEW s \in Sockets, PushDisconnect(s) PROVE OrderInv'
  <2>1. LET e == Disconnected(s, report[s].status, report[s].error) IN
        Ended(e.id) => Trails(e.id, e)
    BY <1>1, <1>5, DisconnectPushed DEF FlagInv, Disconnected
  <2>2. QED
    BY <1>1, <1>5, <2>1, DisconnectPushed, PushKeepsOrder
<1>6. CASE ClosePush
  <2>1. LET e == Disconnected(target, status, "NONE") IN Ended(e.id) => Trails(e.id, e)
    BY <1>1, <1>6 DEF ClosePush, FlagInv, Disconnected
  <2>2. QED
    BY <1>1, <1>6, <2>1, ClosePushed, PushKeepsOrder
<1>7. CASE RunCallback
  BY <1>1, <1>7, CallbackKeepsOrder
<1>8. CASE ResetEvents
  <2>1. EventIndices' = {} /\ heard' = heard
    BY <1>1, <1>8, ResetDropsEvents DEF ResetEvents, history
  <2>2. QED
    BY <1>1, <1>2, <2>1 DEF OrderInv, HeardInOrder, WayAfterHeard, WayInOrder, Trails, IsEnd
<1>9. QED
  BY <1>3, <1>4, <1>5, <1>6, <1>7, <1>8, EventSteps

-----------------------------------------------------------------------------
(* The custody of the JSON nodes.                                          *)

\* A node in the store that somebody holds.
Held(n) ==
    \/ n \in scriptNodes
    \/ \E i \in EventIndices : Undelivered[i].type = "Message" /\ Undelivered[i].node = n
    \/ \E s \in Sockets : node[s] = n
Idle == afterJoin # "resetNodes" /\ mpc # "resetNodes"

LEMMA OwnedMeansHeld == NodesOwned <=> (Idle => \A n \in jsonNodes : Held(n))
BY DEF NodesOwned, Idle, Held, Carried

\* A reset is over only when it has emptied the store.
LEMMA IdleBefore ==
  ASSUME TypeOK, MainInv, [Next]_vars, Idle' PROVE Idle \/ ResetNodes
<1> USE DEF Idle, MainInv, Shutting, mainVars, closeVars
<1>1. ASSUME NEW s \in Sockets, ReaderStep(s) \/ Peer(s) PROVE Idle
  BY <1>1, ReaderFrame
<1>2. CASE Script
  BY <1>2 DEF Script, ConnectWebSocketClient, CloseWebSocketClient, ReleaseJsonNode
<1>3. CASE MainStep
  BY <1>3 DEF MainStep, CloseStop, CloseClient, CloseEmit, ClosePush, CloseCleanup,
     CleanupConnection, JoinReaders, ShutdownSwap, ShutdownStop, ShutdownClose, ShutdownJoin
<1>4. CASE DrainEvents \/ RunCallback \/ CleanupAfterCallback \/ ResetEvents \/ Destroy
  BY <1>4 DEF DrainEvents, RunCallback, CleanupAfterCallback, CleanupConnection, ResetEvents,
     Destroy
<1>5. CASE UNCHANGED vars
  BY <1>5 DEF vars
<1>6. QED
  BY <1>1, <1>2, <1>3, <1>4, <1>5 DEF Next

\* The steps that touch nodes or the events that may carry them.
NodesQuiet ==
    UNCHANGED <<jsonNodes, nextJsonNodeId, scriptNodes, node, epoch>>
LEMMA NodeSteps ==
  ASSUME [Next]_vars
  PROVE  \/ NodesQuiet /\ \/ EventsQuiet \/ DrainEvents \/ ClosePush
                          \/ \E s \in Sockets : PushDisconnect(s)
         \/ \E s \in Sockets : StoreJsonNode(s) \/ PushMessage(s)
         \/ \E n \in NodeIds : ReleaseJsonNode(n)
         \/ RunCallback \/ ResetEvents \/ ResetNodes
<1> USE DEF NodesQuiet, EventsQuiet, nodeVars, readerVars, mainVars, drainVars, resetVars, history
<1>1. ASSUME NEW s \in Sockets, ReaderStep(s), ~StoreJsonNode(s), ~PushMessage(s)
      PROVE  NodesQuiet /\ (EventsQuiet \/ PushDisconnect(s))
  BY <1>1 DEF ReaderStep, LoopTest, EnterRead, FailStatus, FailStop, FailError,
     BadPayloadStatus, BadPayloadStop, BadPayloadClose, BadPayloadReport, EmitDisconnect,
     PushDisconnect
<1>2. ASSUME NEW s \in Sockets, Peer(s) PROVE NodesQuiet /\ EventsQuiet
  BY <1>2 DEF Peer, ReadMessage, ReadFails
<1>3. CASE Script /\ ~\E n \in NodeIds : ReleaseJsonNode(n)
  BY <1>3 DEF Script, ConnectWebSocketClient, CloseWebSocketClient
<1>4. CASE MainStep /\ ~ResetNodes
  BY <1>4 DEF MainStep, CloseStop, CloseClient, CloseEmit, ClosePush, CloseCleanup, JoinReaders,
     ShutdownSwap, ShutdownStop, ShutdownClose, ShutdownJoin
<1>5. CASE CleanupAfterCallback \/ Destroy \/ DrainEvents
  BY <1>5 DEF CleanupAfterCallback, Destroy, DrainEvents
<1>6. CASE UNCHANGED vars
  BY <1>6 DEF vars
<1>7. QED
  BY <1>1, <1>2, <1>3, <1>4, <1>5, <1>6 DEF Next

\* A read thread that holds a node stays where it is until it pushes it.
LEMMA HoldersWait ==
  ASSUME TypeOK, FreshInv, ReaderNodes, [Next]_vars, NEW s \in Sockets, node[s] # NoNode,
         ~PushMessage(s)
  PROVE  rpc'[s] = "push"
<1>1. rpc[s] = "push"
  BY DEF ReaderNodes
<1>2. ~ReaderStep(s) /\ ~Peer(s)
  BY <1>1 DEF ReaderStep, Peer, LoopTest, EnterRead, FailStatus, FailStop, FailError,
     BadPayloadStatus, BadPayloadStop, BadPayloadClose, BadPayloadReport, StoreJsonNode,
     PushDisconnect, EmitDisconnect, ReadMessage, ReadFails, Transition
<1>3. ASSUME NEW t \in Sockets, ReaderStep(t) \/ Peer(t) PROVE rpc'[s] = rpc[s]
  BY <1>2, <1>3, ReaderFrame
<1>4. CASE Main
  BY <1>1, <1>4, MainMoves
<1>5. CASE UNCHANGED vars
  BY <1>1, <1>5 DEF vars, readerVars
<1>6. QED
  BY <1>1, <1>3, <1>4, <1>5 DEF Next, Main

\* Nothing happens to the nodes, and the events stay or a report is pushed.
LEMMA QuietKeepsNodes ==
  ASSUME TypeOK, FreshInv, MainInv, NodeInv, [Next]_vars, NodesQuiet,
         EventsQuiet \/ DrainEvents \/ ClosePush \/ \E s \in Sockets : PushDisconnect(s)
  PROVE  NodeInv'
<1>1. \/ Undelivered' = Undelivered /\ EventIndices' = EventIndices
      \/ \E n \in EventIndices' :
            /\ EventIndices = EventIndices' \ {n} /\ IsEnd(Undelivered'[n])
            /\ \A i \in EventIndices : i < n /\ Undelivered'[i] = Undelivered[i]
  <2>1. CASE EventsQuiet \/ DrainEvents
    BY <2>1, QuietKeepsEvents, DrainKeepsEvents
  <2>2. CASE ClosePush
    BY <2>2, ClosePushed, PushAddsLast DEF Disconnected, IsEnd
  <2>3. ASSUME NEW s \in Sockets, PushDisconnect(s)
        PROVE  \E n \in EventIndices' :
                 /\ EventIndices = EventIndices' \ {n} /\ IsEnd(Undelivered'[n])
                 /\ \A i \in EventIndices : i < n /\ Undelivered'[i] = Undelivered[i]
    <3>1. PICK e : e = Disconnected(s, report[s].status, report[s].error)
      OBVIOUS
    <3>2. e \in Events /\ Push(e) /\ batch' = batch
      BY <2>3, <3>1, DisconnectPushed
    <3>3. IsEnd(e)
      BY <3>1 DEF Disconnected, IsEnd
    <3>4. QED
      BY <3>2, <3>3, PushAddsLast
  <2>4. QED
    BY <2>1, <2>2, <2>3
<1>2. \A i \in EventIndices' : Undelivered'[i].type = "Message" =>
         i \in EventIndices /\ Undelivered'[i] = Undelivered[i]
  BY <1>1 DEF IsEnd
<1>3. \A i \in EventIndices : i \in EventIndices' /\ Undelivered'[i] = Undelivered[i]
  BY <1>1
<1>4. UNCHANGED <<jsonNodes, nextJsonNodeId, scriptNodes, node, epoch>>
  BY DEF NodesQuiet
<1>5. NodesOld' /\ EventNodes'
  BY <1>2, <1>4 DEF NodeInv, NodesOld, EventNodes, HasNode
<1>6. ASSUME NEW s \in Sockets, node[s] # NoNode PROVE rpc'[s] = "push"
  <2>1. ~PushMessage(s)
    BY <1>4, <1>6 DEF PushMessage, TypeOK
  <2>2. QED
    BY <1>6, <2>1, HoldersWait DEF NodeInv
<1>7. ReaderNodes'
  BY <1>4, <1>6 DEF NodeInv, ReaderNodes
<1>8. EventNodesLive'
  BY <1>2, <1>4 DEF NodeInv, NodeCustody, EventNodesLive
<1>9. NodesOwned'
  <2>1. ~ResetNodes \/ jsonNodes' = {}
    BY DEF ResetNodes
  <2>2. Idle' => jsonNodes' = {} \/ \A n \in jsonNodes : Held(n)
    BY <2>1, IdleBefore, OwnedMeansHeld DEF NodeInv, NodeCustody
  <2>3. Idle' => \A n \in jsonNodes' : Held(n)'
    BY <1>3, <1>4, <2>2 DEF Held
  <2>4. QED
    BY <2>3 DEF NodesOwned, Idle, Held, Carried
<1>10. QED
  BY <1>5, <1>7, <1>8, <1>9 DEF NodeInv, NodeCustody

LEMMA StoreKeepsNodes ==
  ASSUME TypeOK, FreshInv, MainInv, NodeInv, NodeCount, [Next]_vars,
         NEW s \in Sockets, StoreJsonNode(s)
  PROVE  NodeInv'
<1>1. nextJsonNodeId \in NodeIds
  BY HandleLeft
<1>2. PICK n \in Nat : n = nextJsonNodeId /\ n # NoNode
  BY <1>1, SocketsAreNumbers
<1>3. /\ jsonNodes' = jsonNodes \cup {n} /\ nextJsonNodeId' = n + 1
      /\ node' = [node EXCEPT ![s] = n] /\ rpc' = [rpc EXCEPT ![s] = "push"] /\ rpc[s] = "store"
      /\ UNCHANGED <<scriptNodes, epoch, mpc, afterJoin>>
  BY <1>2 DEF StoreJsonNode, Transition, mainVars, closeVars, resetVars, history
<1>4. Undelivered' = Undelivered /\ EventIndices' = EventIndices
  BY DEF StoreJsonNode, mainVars, drainVars, Undelivered, EventIndices
<1>5. node[s] = NoNode
  BY <1>3 DEF NodeInv, ReaderNodes
<1>6. \A m \in NodeIds : m < n => m < n + 1
  BY <1>2, SocketsAreNumbers
<1>7. NodesOld'
  BY <1>2, <1>3, SocketsAreNumbers DEF NodeInv, NodesOld, TypeOK
<1>8. ReaderNodes'
  <2>1. n \notin scriptNodes /\ \A t \in Sockets : node[t] # n
    BY <1>2 DEF NodeInv, NodesOld, ReaderNodes
  <2>2. \A t \in Sockets : t # s => node'[t] = node[t] /\ rpc'[t] = rpc[t]
    BY <1>3 DEF TypeOK
  <2>3. node'[s] = n /\ rpc'[s] = "push"
    BY <1>3 DEF TypeOK
  <2>4. \A t \in Sockets : node[t] # NoNode => node[t] \in NodeIds
    BY DEF TypeOK
  <2>5. QED
    BY <1>2, <1>3, <1>6, <2>1, <2>2, <2>3, <2>4 DEF NodeInv, ReaderNodes
<1>9. EventNodes'
  <2>1. ASSUME NEW i \in EventIndices, HasNode(Undelivered[i])
        PROVE  Undelivered[i].node \in NodeIds /\ Undelivered[i].node < n
    <3>1. Undelivered[i].node \in NodeIds
      BY <2>1, EventTyped, EventForms DEF HasNode
    <3>2. QED
      BY <1>2, <2>1, <3>1 DEF NodeInv, EventNodes
  <2>2. \A i \in EventIndices : HasNode(Undelivered[i]) => Undelivered[i].node # n
    BY <1>2, <2>1
  <2>3. QED
    BY <1>3, <1>4, <1>6, <2>1, <2>2 DEF NodeInv, EventNodes, HasNode, TypeOK
<1>10. EventNodesLive'
  BY <1>3, <1>4 DEF NodeInv, NodeCustody, EventNodesLive
<1>11. NodesOwned'
  <2>1. Idle' => \A m \in jsonNodes : Held(m)
    BY <1>3, OwnedMeansHeld DEF NodeInv, NodeCustody, Idle
  <2>2. \A m \in jsonNodes : Held(m) => Held(m)'
    BY <1>2, <1>3, <1>4, <1>5, SocketsAreNumbers DEF Held, TypeOK
  <2>3. Held(n)'
    BY <1>3 DEF Held, TypeOK
  <2>4. Idle' => \A m \in jsonNodes' : Held(m)'
    BY <1>3, <2>1, <2>2, <2>3
  <2>5. QED
    BY <2>4 DEF NodesOwned, Idle, Held, Carried
<1>12. QED
  BY <1>7, <1>8, <1>9, <1>10, <1>11 DEF NodeInv, NodeCustody

LEMMA PushKeepsNodes ==
  ASSUME TypeOK, FreshInv, MainInv, NodeInv, [Next]_vars, NEW s \in Sockets, PushMessage(s)
  PROVE  NodeInv'
<1>1. PICK n \in EventIndices' :
        /\ EventIndices = EventIndices' \ {n} /\ Undelivered'[n] = Message(s, node[s])
        /\ \A i \in EventIndices : i < n /\ Undelivered'[i] = Undelivered[i]
  BY MessagePushed, PushAddsLast
<1>2. /\ UNCHANGED <<jsonNodes, nextJsonNodeId, scriptNodes, epoch, mpc, afterJoin>>
      /\ node' = [node EXCEPT ![s] = NoNode] /\ rpc' = [rpc EXCEPT ![s] = "loop"]
  BY DEF PushMessage, Transition, nodeVars, mainVars, closeVars, resetVars, history
<1>3. PICK m : m = node[s]
  OBVIOUS
<1>4. Undelivered'[n].id = s /\ Undelivered'[n].type = "Message" /\ Undelivered'[n].node = m
  BY <1>1, <1>3 DEF Message
<1>5. node'[s] = NoNode /\ \A t \in Sockets : t # s => node'[t] = node[t] /\ rpc'[t] = rpc[t]
  BY <1>2 DEF TypeOK
<1>6. m # NoNode => /\ m < nextJsonNodeId /\ m \notin scriptNodes
                    /\ m \in jsonNodes \/ s < epoch
                    /\ \A t \in Sockets : node[t] = m => t = s
  BY <1>3 DEF NodeInv, ReaderNodes
<1>7. NodesOld' /\ ReaderNodes'
  BY <1>2, <1>5 DEF NodeInv, NodesOld, ReaderNodes
<1>8. EventNodes'
  <2>1. ASSUME NEW i \in EventIndices', HasNode(Undelivered'[i])
        PROVE  /\ Undelivered'[i].node < nextJsonNodeId' /\ Undelivered'[i].node \notin scriptNodes'
               /\ \A t \in Sockets : node'[t] # Undelivered'[i].node
               /\ \A k \in EventIndices' :
                     HasNode(Undelivered'[k]) /\ Undelivered'[k].node = Undelivered'[i].node
                         => k = i
    <3>1. CASE i = n
      BY <1>1, <1>2, <1>3, <1>4, <1>5, <1>6, <2>1, <3>1 DEF NodeInv, EventNodes, HasNode
    <3>2. CASE i # n
      BY <1>1, <1>2, <1>3, <1>4, <1>5, <2>1, <3>2 DEF NodeInv, EventNodes, HasNode
    <3>3. QED
      BY <3>1, <3>2
  <2>2. QED
    BY <2>1 DEF EventNodes, HasNode
<1>9. EventNodesLive'
  BY <1>1, <1>2, <1>4, <1>6 DEF NodeInv, NodeCustody, EventNodesLive
<1>10. NodesOwned'
  <2>1. Idle' => \A l \in jsonNodes : Held(l)
    BY <1>2, OwnedMeansHeld DEF NodeInv, NodeCustody, Idle
  <2>2. \A l \in jsonNodes : Held(l) => Held(l)'
    BY <1>1, <1>2, <1>3, <1>4, <1>5 DEF Held
  <2>3. Idle' => \A l \in jsonNodes' : Held(l)'
    BY <1>2, <2>1, <2>2
  <2>4. QED
    BY <2>3 DEF NodesOwned, Idle, Held, Carried
<1>11. QED
  BY <1>7, <1>8, <1>9, <1>10 DEF NodeInv, NodeCustody

LEMMA CallbackKeepsNodes ==
  ASSUME TypeOK, MainInv, NodeInv, [Next]_vars, RunCallback
  PROVE  NodeInv'
<1>1. PICK e : e = Undelivered[1]
  OBVIOUS
<1>2. /\ e \in Events /\ e = Head(batch) /\ 1 \in EventIndices
      /\ EventIndices \subseteq Nat /\ EventIndices' \subseteq Nat \ {0}
      /\ \A i \in EventIndices' : i + 1 \in EventIndices /\ Undelivered'[i] = Undelivered[i + 1]
      /\ \A i \in EventIndices : i # 1 => i - 1 \in EventIndices'
  BY <1>1, CallbackTakesFirst DEF EventIndices
<1>3. /\ UNCHANGED <<jsonNodes, nextJsonNodeId, node, rpc, epoch, mpc, afterJoin>>
      /\ scriptNodes' = IF e.type = "Message" THEN scriptNodes \cup ({e.node} \ {NoNode})
                        ELSE scriptNodes
  BY <1>2 DEF RunCallback, nodeVars, readerVars, closeVars, resetVars
<1>4. HasNode(e) => /\ e.node < nextJsonNodeId
                    /\ \A s \in Sockets : node[s] # e.node
                    /\ \A k \in EventIndices :
                          HasNode(Undelivered[k]) /\ Undelivered[k].node = e.node => k = 1
  BY <1>1, <1>2 DEF NodeInv, EventNodes
<1>5. scriptNodes' = IF HasNode(e) THEN scriptNodes \cup {e.node} ELSE scriptNodes
  BY <1>3 DEF HasNode
<1>6. NodesOld'
  BY <1>3, <1>4, <1>5 DEF NodeInv, NodesOld
<1>7. ReaderNodes'
  BY <1>3, <1>4, <1>5 DEF NodeInv, ReaderNodes
<1>8. EventNodes'
  <2>1. ASSUME NEW i \in EventIndices', HasNode(Undelivered'[i])
        PROVE  /\ Undelivered'[i].node < nextJsonNodeId' /\ Undelivered'[i].node \notin scriptNodes'
               /\ \A t \in Sockets : node'[t] # Undelivered'[i].node
               /\ \A k \in EventIndices' :
                     HasNode(Undelivered'[k]) /\ Undelivered'[k].node = Undelivered'[i].node
                         => k = i
    <3>1. PICK j \in Nat : j = i + 1 /\ j \in EventIndices /\ j # 1 /\ Undelivered'[i] = Undelivered[j]
      BY <1>2, <2>1
    <3>2. /\ Undelivered[j].node < nextJsonNodeId /\ Undelivered[j].node \notin scriptNodes
          /\ \A t \in Sockets : node[t] # Undelivered[j].node
      BY <2>1, <3>1 DEF NodeInv, EventNodes
    <3>3. HasNode(e) => Undelivered[j].node # e.node
      BY <1>4, <2>1, <3>1
    <3>4. ASSUME NEW k \in EventIndices', HasNode(Undelivered'[k]),
                 Undelivered'[k].node = Undelivered'[i].node
          PROVE  k = i
      <4>1. k + 1 \in EventIndices /\ Undelivered'[k] = Undelivered[k + 1]
        BY <1>2, <3>4
      <4>2. k + 1 = j
        BY <2>1, <3>1, <3>4, <4>1 DEF NodeInv, EventNodes
      <4>3. QED
        BY <1>2, <2>1, <3>1, <3>4, <4>2
    <3>5. QED
      BY <1>3, <1>5, <3>1, <3>2, <3>3, <3>4
  <2>2. QED
    BY <2>1 DEF EventNodes, HasNode
<1>9. EventNodesLive'
  BY <1>2, <1>3 DEF NodeInv, NodeCustody, EventNodesLive
<1>10. NodesOwned'
  <2>1. Idle' => \A l \in jsonNodes : Held(l)
    BY <1>3, OwnedMeansHeld DEF NodeInv, NodeCustody, Idle
  <2>2. ASSUME NEW l \in jsonNodes, Held(l) PROVE Held(l)'
    <3>1. l # NoNode
      BY <2>2, SocketsAreNumbers DEF TypeOK
    <3>2. CASE l \in scriptNodes \/ \E s \in Sockets : node[s] = l
      BY <1>3, <3>2 DEF Held
    <3>3. ASSUME NEW i \in EventIndices, Undelivered[i].type = "Message", Undelivered[i].node = l
          PROVE  Held(l)'
      <4>1. CASE i = 1
        BY <1>1, <1>3, <3>1, <3>3, <4>1 DEF Held
      <4>2. CASE i # 1
        <5>1. PICK k \in EventIndices' : k = i - 1
          BY <1>2, <3>3, <4>2
        <5>2. Undelivered'[k] = Undelivered[i]
          BY <1>2, <3>3, <5>1
        <5>3. QED
          BY <3>3, <5>1, <5>2 DEF Held
      <4>3. QED
        BY <4>1, <4>2
    <3>4. QED
      BY <2>2, <3>2, <3>3 DEF Held
  <2>3. Idle' => \A l \in jsonNodes' : Held(l)'
    BY <1>3, <2>1, <2>2
  <2>4. QED
    BY <2>3 DEF NodesOwned, Idle, Held, Carried
<1>11. QED
  BY <1>6, <1>7, <1>8, <1>9, <1>10 DEF NodeInv, NodeCustody

LEMMA ReleaseKeepsNodes ==
  ASSUME TypeOK, NodeInv, NEW n \in NodeIds, ReleaseJsonNode(n)
  PROVE  NodeInv'
<1>1. /\ jsonNodes' = jsonNodes \ {n} /\ n \in scriptNodes
      /\ UNCHANGED <<nextJsonNodeId, scriptNodes, node, rpc, epoch, mpc, afterJoin>>
  BY DEF ReleaseJsonNode, readerVars, mainVars, closeVars, resetVars, history
<1>2. Undelivered' = Undelivered /\ EventIndices' = EventIndices
  BY DEF ReleaseJsonNode, mainVars, drainVars, Undelivered, EventIndices
<1>3. NodesOld' /\ ReaderNodes'
  BY <1>1 DEF NodeInv, NodesOld, ReaderNodes
<1>4. EventNodes'
  BY <1>1, <1>2 DEF NodeInv, EventNodes, HasNode
<1>5. EventNodesLive'
  BY <1>1, <1>2 DEF NodeInv, NodeCustody, EventNodesLive, EventNodes, HasNode
<1>6. NodesOwned'
  <2>1. Idle' => \A l \in jsonNodes : Held(l)
    BY <1>1, OwnedMeansHeld DEF NodeInv, NodeCustody, Idle
  <2>2. Idle' => \A l \in jsonNodes' : Held(l)'
    BY <1>1, <1>2, <2>1 DEF Held
  <2>3. QED
    BY <2>2 DEF NodesOwned, Idle, Held, Carried
<1>7. QED
  BY <1>3, <1>4, <1>5, <1>6 DEF NodeInv, NodeCustody

\* The two halves of a reset: the events go, then the nodes.
LEMMA ResetKeepsNodes ==
  ASSUME TypeOK, FreshInv, MainInv, NodeInv, ResetEvents \/ ResetNodes
  PROVE  NodeInv'
<1>1. CASE ResetEvents
  <2>1. EventIndices' = {}
    BY <1>1, ResetDropsEvents
  <2>2. /\ UNCHANGED <<jsonNodes, nextJsonNodeId, scriptNodes, node, rpc>>
        /\ epoch' = nextWebSocketId /\ afterJoin' = "resetNodes"
    BY <1>1 DEF ResetEvents, nodeVars, readerVars, history
  <2>3. PICK l \in Nat : l = epoch
    BY BoundsAssumption DEF TypeOK
  <2>4. PICK m \in Nat : m = nextWebSocketId /\ l <= m
    BY <2>3, BoundsAssumption DEF TypeOK, MainInv
  <2>5. \A s \in Sockets : s < epoch => s < epoch'
    BY <2>2, <2>3, <2>4, SocketsAreNumbers
  <2>6. NodesOld' /\ ReaderNodes'
    BY <2>2, <2>5 DEF NodeInv, NodesOld, ReaderNodes
  <2>7. EventNodes' /\ EventNodesLive' /\ NodesOwned'
    BY <2>1, <2>2 DEF EventNodes, EventNodesLive, NodesOwned
  <2>8. QED
    BY <2>6, <2>7 DEF NodeInv, NodeCustody
<1>2. CASE ResetNodes
  <2>1. Undelivered' = Undelivered /\ EventIndices' = EventIndices
    BY <1>2 DEF ResetNodes, drainVars, Undelivered, EventIndices
  <2>2. /\ jsonNodes' = {} /\ epoch = nextWebSocketId
        /\ UNCHANGED <<nextJsonNodeId, scriptNodes, node, rpc, epoch>>
    BY <1>2 DEF ResetNodes, MainInv, readerVars, resetVars, history
  <2>3. PICK l \in Nat : l = epoch
    BY BoundsAssumption DEF TypeOK
  <2>4. \A s \in Sockets : rpc[s] # "none" => s < epoch
    BY <2>2, <2>3, SocketsAreNumbers DEF FreshInv, FreshIds
  <2>5. NodesOld' /\ ReaderNodes'
    BY <2>2, <2>4 DEF NodeInv, NodesOld, ReaderNodes
  <2>6. EventNodes'
    BY <2>1, <2>2 DEF NodeInv, EventNodes, HasNode
  <2>7. EventNodesLive' /\ NodesOwned'
    BY <2>1, <2>2 DEF FreshInv, EventIds, EventNodesLive, NodesOwned
  <2>8. QED
    BY <2>5, <2>6, <2>7 DEF NodeInv, NodeCustody
<1>3. QED
  BY <1>1, <1>2

LEMMA StepNodes == IInv /\ [Next]_vars => NodeInv'
<1> SUFFICES ASSUME IInv, [Next]_vars PROVE NodeInv'
  OBVIOUS
<1>1. TypeOK /\ FreshInv /\ MainInv /\ NodeInv /\ NodeCount
  BY DEF IInv
<1>2. CASE NodesQuiet /\ (EventsQuiet \/ DrainEvents \/ ClosePush
                          \/ \E s \in Sockets : PushDisconnect(s))
  BY <1>1, <1>2, QuietKeepsNodes
<1>3. ASSUME NEW s \in Sockets, StoreJsonNode(s) \/ PushMessage(s) PROVE NodeInv'
  BY <1>1, <1>3, StoreKeepsNodes, PushKeepsNodes
<1>4. ASSUME NEW n \in NodeIds, ReleaseJsonNode(n) PROVE NodeInv'
  BY <1>1, <1>4, ReleaseKeepsNodes
<1>5. CASE RunCallback
  BY <1>1, <1>5, CallbackKeepsNodes
<1>6. CASE ResetEvents \/ ResetNodes
  BY <1>1, <1>6, ResetKeepsNodes
<1>7. QED
  BY <1>2, <1>3, <1>4, <1>5, <1>6, NodeSteps

-----------------------------------------------------------------------------
(* The theorems.                                                           *)

LEMMA StepIInv == IInv /\ [Next]_vars => IInv'
<1> SUFFICES ASSUME IInv, [Next]_vars PROVE IInv'
  OBVIOUS
<1>1. TypeOK' /\ FreshInv' /\ MainInv' /\ ReadersOwned'
  BY StepType, StepFresh, StepMain, StepReaders
<1>2. CauseInv' /\ ReportsJustified' /\ FlagInv' /\ OrderInv'
  BY StepCause, StepJustified, StepFlag, StepOrder
<1>3. NodeInv' /\ NodeCount'
  BY StepNodes, StepCount
<1>4. QED
  BY <1>1, <1>2, <1>3 DEF IInv

\* The invariant holds of every reachable state, whatever the bounds.
THEOREM InvariantHolds == Spec => []IInv
<1>1. IInv /\ [Next]_vars => IInv'
  BY StepIInv
<1>2. QED
  BY InitInv, <1>1, PTL DEF Spec

\* Every variable keeps its type; in particular no more nodes are stored than
\* messages were read.
THEOREM TypeCorrect == Spec => []TypeOK
<1>1. IInv => TypeOK
  BY DEF IInv
<1>2. QED
  BY InvariantHolds, <1>1, PTL

\* No read thread outlives its connection: it is in the map or being joined.
THEOREM ReadersAreOwned == Spec => []ReadersOwned
<1>1. IInv => ReadersOwned
  BY DEF IInv
<1>2. QED
  BY InvariantHolds, <1>1, PTL

\* The handle of a message's node is never lost and never dangles.
THEOREM NodesChangeHands == Spec => []NodeCustody
<1>1. IInv => NodeCustody
  BY DEF IInv, NodeInv
<1>2. QED
  BY InvariantHolds, <1>1, PTL

\* Where an event of a story comes from.
LEMMA StoryParts ==
  ASSUME TypeOK, NEW s \in Sockets
  PROVE  \E n \in Nat :
           /\ 1 .. n = 1 .. Len(heard[s])
           /\ \A i \in Chapters(s) :
                 /\ i \in Nat /\ Story(s)[i].id = s
                 /\ \/ i \in 1 .. n /\ Story(s)[i] = heard[s][i]
                    \/ i > n /\ i - n \in EventIndices /\ Story(s)[i] = Undelivered[i - n]
<1>1. heard[s] \in Seq(Events) /\ Undelivered \in Seq(Events)
  BY HeardTyped, UndeliveredTyped
<1>2. PICK n \in Nat : n = Len(heard[s])
  BY <1>1, LenProperties
<1>3. PICK m \in Nat : m = Len(Undelivered)
  BY <1>1, LenProperties
<1>4. /\ Len(Story(s)) = n + m
      /\ \A i \in 1 .. (n + m) : Story(s)[i] =
            IF i <= n THEN heard[s][i] ELSE Undelivered[i - n]
  BY <1>1, <1>2, <1>3, ConcatProperties DEF Story
<1>5. ASSUME NEW i \in Chapters(s)
      PROVE  /\ i \in Nat /\ Story(s)[i].id = s
             /\ \/ i \in 1 .. n /\ Story(s)[i] = heard[s][i]
                \/ i > n /\ i - n \in EventIndices /\ Story(s)[i] = Undelivered[i - n]
  BY <1>3, <1>4 DEF Chapters, EventIndices
<1>6. QED
  BY <1>2, <1>5

\* The end of a connection is reported at most once, and last unless the main
\* thread closed the socket.
THEOREM EndsComeLast == Spec => []DisconnectIsLast
<1>1. IInv => DisconnectIsLast
  <2> SUFFICES ASSUME IInv, NEW s \in Sockets, NEW i \in Chapters(s), NEW k \in Chapters(s),
                      i < k, IsEnd(Story(s)[i])
               PROVE  Story(s)[k].type = "Message" /\ s \in mainClosed
    BY DEF DisconnectIsLast, IsEnd
  <2>1. TypeOK /\ OrderInv
    BY DEF IInv
  <2>2. PICK n \in Nat :
          /\ 1 .. n = 1 .. Len(heard[s])
          /\ \A j \in {i, k} :
                /\ j \in Nat /\ Story(s)[j].id = s
                /\ \/ j \in 1 .. n /\ Story(s)[j] = heard[s][j]
                   \/ j > n /\ j - n \in EventIndices /\ Story(s)[j] = Undelivered[j - n]
    BY <2>1, StoryParts
  <2>3. Story(s)[k] \in Events
    BY <2>1, <2>2, EventTyped, HeardTyped
  <2>4. Trails(s, Story(s)[k])
    <3>1. CASE k \in 1 .. n /\ Story(s)[k] = heard[s][k]
      <4>1. i \in 1 .. n /\ Story(s)[i] = heard[s][i]
        BY <2>2, <3>1
      <4>2. QED
        BY <2>1, <2>2, <3>1, <4>1 DEF OrderInv, HeardInOrder
    <3>2. CASE /\ k > n /\ k - n \in EventIndices /\ Story(s)[k] = Undelivered[k - n]
               /\ i \in 1 .. n /\ Story(s)[i] = heard[s][i]
      <4>1. HeardEnd(s) /\ Undelivered[k - n].id = s
        BY <2>2, <3>2 DEF HeardEnd
      <4>2. QED
        BY <2>1, <3>2, <4>1 DEF OrderInv, WayAfterHeard
    <3>3. CASE /\ k - n \in EventIndices /\ Story(s)[k] = Undelivered[k - n]
               /\ i - n \in EventIndices /\ Story(s)[i] = Undelivered[i - n]
      <4>1. i - n < k - n
        BY <2>2
      <4>2. Undelivered[i - n].id = s /\ Undelivered[k - n].id = s
        BY <2>2, <3>3
      <4>3. QED
        BY <2>1, <3>3, <4>1, <4>2 DEF OrderInv, WayInOrder
    <3>4. QED
      BY <2>2, <3>1, <3>2, <3>3
  <2>5. QED
    BY <2>3, <2>4, EventForms DEF Trails, IsEnd
<1>2. QED
  BY InvariantHolds, <1>1, PTL

\* A failure is never told as a normal end, nor our own close as a failure:
\* what a disconnect report says of the cause has happened on the socket.
THEOREM FailuresAreToldAsSuch == Spec => []FailuresToldAsSuch
<1>1. IInv => FailuresToldAsSuch
  <2> SUFFICES ASSUME IInv, NEW s \in Sockets, NEW i \in Chapters(s), IsEnd(Story(s)[i])
               PROVE  Justified(s, Story(s)[i])
    BY DEF FailuresToldAsSuch, IsEnd, Justified
  <2>1. TypeOK /\ ReportsJustified
    BY DEF IInv
  <2>2. PICK n \in Nat :
          /\ 1 .. n = 1 .. Len(heard[s]) /\ Story(s)[i].id = s
          /\ \/ i \in 1 .. n /\ Story(s)[i] = heard[s][i]
             \/ i > n /\ i - n \in EventIndices /\ Story(s)[i] = Undelivered[i - n]
    BY <2>1, StoryParts
  <2>3. QED
    BY <2>1, <2>2 DEF ReportsJustified
<1>2. QED
  BY InvariantHolds, <1>1, PTL
=============================================================================
