----------------------- MODULE OutboundRequests_proofs -----------------------
(***************************************************************************)
(* Proofs about OutboundRequests for any number of requests and resets:    *)
(* an inductive invariant IInv, the safety properties that follow from it, *)
(* and that the module implements JobLifecycle.                            *)
(***************************************************************************)
EXTENDS OutboundRequests, FiniteSetTheorems, SequenceTheorems, TLAPS

\* The worker has a request between copy and push; what it has decided, and
\* what the status of its request may be by then.
WorkerInv ==
    /\ pc \in {"loop", "exited"} <=> job = NoRequest
    /\ pc \in {"store", "complete"} => outcome = "completed"
    /\ pc = "fail" => outcome \in {"failed", "cancelled"}
    /\ nodeId # NoNode => pc \in {"complete", "push"}
    /\ job # NoRequest /\ pc # "push" =>
          outgoingRequests[job] \in {"absent", "Requesting", "Cancelled"}
    /\ pc = "push" /\ Present(job) => outgoingRequests[job] = StatusFor[outcome]

\* Ids that were not given out have left no trace.
FreshInv ==
    /\ \A r \in Requests : r >= nextOutgoingRequestId =>
          outgoingRequests[r] = "absent" /\ told[r] = "nothing"
    /\ job < nextOutgoingRequestId

\* Between the locks of a reset the map is empty.
ResetInv == mpc = "resetNodes" => \A r \in Requests : ~Present(r)

\* A pending request, and the one being worked on, have no callback yet; and
\* what a callback said is the status.
RequestInv ==
    /\ \A r \in Requests : outgoingRequests[r] = "Pending" => told[r] = "nothing" /\ job # r
    /\ job # NoRequest => told[job] = "nothing"
    /\ ToldOutcomesMatch

\* An undelivered event.
EventOK(e) ==
    /\ e.id < nextOutgoingRequestId
    /\ told[e.id] = "nothing"
    /\ e.id # job
    /\ Present(e.id) => outgoingRequests[e.id] = StatusFor[e.outcome]
    /\ e.node # NoNode =>
          /\ e.node < nextJsonNodeId /\ e.node # nodeId /\ e.node \notin scriptNodes
          /\ e.node \in jsonNodes \/ ~Present(e.id)
EventsOK == \A i \in EventIndices : EventOK(Undelivered[i])

\* No two events of a sequence are about one request or carry one node.
Distinct(q) ==
    \A i, k \in 1 .. Len(q) : i # k =>
        q[i].id # q[k].id /\ (q[i].node # NoNode => q[i].node # q[k].node)

\* The handles that were given out.
NodeInv ==
    /\ \A n \in jsonNodes \cup scriptNodes : n < nextJsonNodeId
    /\ nodeId # NoNode =>
          /\ nodeId < nextJsonNodeId /\ nodeId \notin scriptNodes
          /\ nodeId \in jsonNodes \/ ~Present(job)

\* Requests that will not store a node any more; each has stored at most one.
Storing == pc \in {"copy", "check", "send", "recheck", "store"}
Spent   == {r \in Requests : r < nextOutgoingRequestId /\ outgoingRequests[r] # "Pending"}
Stored  == IF Storing THEN Spent \ {job} ELSE Spent
NodeCount == nextJsonNodeId <= Cardinality(Stored) + 1

IInv ==
    /\ TypeOK /\ WorkerInv /\ FreshInv /\ ResetInv /\ RequestInv
    /\ EventsOK /\ Distinct(Undelivered) /\ NodeInv /\ NodeCount
    /\ NoSilentOutcome /\ NodesOwned

-----------------------------------------------------------------------------
(* The events on their way, as one sequence.                               *)

LEMMA RequestsAreNumbers ==
  /\ Requests \in SUBSET Nat /\ NoRequest \notin Requests /\ NoNode \notin NodeIds
  /\ NodeIds \in SUBSET Nat /\ NoRequest \in Int /\ NoNode \in Int
BY BoundsAssumption DEF Requests, NoRequest, NoNode, NodeIds

LEMMA UndeliveredTyped == TypeOK => Undelivered \in Seq(Events)
BY ConcatProperties DEF TypeOK, Undelivered

LEMMA EventTyped ==
  ASSUME TypeOK, NEW i \in EventIndices
  PROVE  Undelivered[i] \in Events
BY UndeliveredTyped, ElementOfSeq DEF EventIndices

LEMMA DrainKeepsEvents == TypeOK /\ DrainEvents => Undelivered' = Undelivered
<1> SUFFICES ASSUME TypeOK, DrainEvents PROVE Undelivered' = Undelivered
  OBVIOUS
<1>1. batch = <<>> /\ batch' = pendingRequestEvents /\ pendingRequestEvents' = <<>>
  BY DEF DrainEvents
<1>2. pendingRequestEvents \in Seq(Events)
  BY DEF TypeOK
<1>3. QED
  BY <1>1, <1>2, ConcatEmptySeq DEF Undelivered

LEMMA ResetDropsEvents == TypeOK /\ ResetEvents => Undelivered' = <<>>
<1> SUFFICES ASSUME TypeOK, ResetEvents PROVE Undelivered' = <<>>
  OBVIOUS
<1>1. batch' = <<>> /\ pendingRequestEvents' = <<>>
  BY DEF ResetEvents
<1>2. QED
  BY <1>1, EmptySeq, ConcatEmptySeq DEF Undelivered

\* The callback takes the first event.
LEMMA CallbackTakesFirst ==
  ASSUME TypeOK, RunCallback
  PROVE  /\ Undelivered # <<>> /\ Head(batch) = Undelivered[1]
         /\ Undelivered' = Tail(Undelivered)
         /\ Len(Undelivered') = Len(Undelivered) - 1 /\ Len(Undelivered) \in Nat \ {0}
         /\ \A i \in EventIndices' : i + 1 \in EventIndices /\ Undelivered'[i] = Undelivered[i + 1]
<1>1. batch # <<>> /\ batch' = Tail(batch) /\ pendingRequestEvents' = pendingRequestEvents
  BY DEF RunCallback
<1>2. batch \in Seq(Events) /\ pendingRequestEvents \in Seq(Events)
  BY DEF TypeOK
<1>3. /\ Tail(batch) \in Seq(Events) /\ Len(Tail(batch)) = Len(batch) - 1
      /\ \A i \in 1 .. Len(Tail(batch)) : Tail(batch)[i] = batch[i + 1]
  BY <1>1, <1>2, HeadTailProperties
<1>4. Len(batch) \in Nat \ {0} /\ Len(pendingRequestEvents) \in Nat
  BY <1>1, <1>2, EmptySeq, LenProperties
<1>5. /\ Undelivered \in Seq(Events)
      /\ Len(Undelivered) = Len(batch) + Len(pendingRequestEvents)
      /\ \A i \in 1 .. (Len(batch) + Len(pendingRequestEvents)) : Undelivered[i] =
            IF i <= Len(batch) THEN batch[i] ELSE pendingRequestEvents[i - Len(batch)]
  BY <1>2, ConcatProperties DEF Undelivered
<1>6. /\ Undelivered' \in Seq(Events)
      /\ Len(Undelivered') = (Len(batch) - 1) + Len(pendingRequestEvents)
      /\ \A i \in 1 .. ((Len(batch) - 1) + Len(pendingRequestEvents)) : Undelivered'[i] =
            IF i <= Len(batch) - 1 THEN batch'[i]
            ELSE pendingRequestEvents[i - (Len(batch) - 1)]
  BY <1>1, <1>2, <1>3, ConcatProperties DEF Undelivered
<1>7. Undelivered # <<>> /\ Len(Undelivered) \in Nat \ {0}
  BY <1>4, <1>5, EmptySeq
<1>8. Head(batch) = Undelivered[1]
  BY <1>1, <1>2, <1>4, <1>5
<1>9. Len(Undelivered') = Len(Undelivered) - 1
  BY <1>4, <1>5, <1>6
<1>10. ASSUME NEW i \in EventIndices'
       PROVE  i + 1 \in EventIndices /\ Undelivered'[i] = Undelivered[i + 1]
  <2>1. i \in 1 .. (Len(Undelivered) - 1)
    BY <1>9, <1>10 DEF EventIndices
  <2>2. CASE i <= Len(batch) - 1
    BY <1>1, <1>3, <1>4, <1>5, <1>6, <2>1, <2>2 DEF EventIndices
  <2>3. CASE ~(i <= Len(batch) - 1)
    <3>1. i - (Len(batch) - 1) = (i + 1) - Len(batch)
      BY <1>4, <2>1
    <3>2. Undelivered'[i] = pendingRequestEvents[i - (Len(batch) - 1)]
      BY <1>4, <1>5, <1>6, <2>1, <2>3
    <3>3. i + 1 \in EventIndices /\ Undelivered[i + 1] = pendingRequestEvents[(i + 1) - Len(batch)]
      BY <1>4, <1>5, <2>1, <2>3 DEF EventIndices
    <3>4. QED
      BY <3>1, <3>2, <3>3
  <2>4. QED
    BY <2>2, <2>3
<1>11. Undelivered' = Tail(Undelivered)
  <2>1. /\ Tail(Undelivered) \in Seq(Events) /\ Len(Tail(Undelivered)) = Len(Undelivered) - 1
        /\ \A i \in 1 .. Len(Tail(Undelivered)) : Tail(Undelivered)[i] = Undelivered[i + 1]
    BY <1>5, <1>7, HeadTailProperties
  <2>2. \A i \in 1 .. Len(Undelivered') : Undelivered'[i] = Tail(Undelivered)[i]
    BY <1>9, <1>10, <2>1 DEF EventIndices
  <2>3. QED
    BY <1>6, <1>9, <2>1, <2>2, SeqEqual
<1>12. QED
  BY <1>7, <1>8, <1>9, <1>10, <1>11

\* The worker's event is the last one.
NewEvent == [id |-> job, outcome |-> outcome, node |-> nodeId]
LEMMA PushAddsLast ==
  ASSUME TypeOK, WorkerInv, PushRequestEvent
  PROVE  /\ job \in Requests /\ NewEvent \in Events
         /\ Undelivered' = Append(Undelivered, NewEvent)
         /\ Len(Undelivered') = Len(Undelivered) + 1 /\ Len(Undelivered) \in Nat
         /\ \A i \in EventIndices : i \in EventIndices' /\ Undelivered'[i] = Undelivered[i]
         /\ Undelivered'[Len(Undelivered) + 1] = NewEvent
<1>1. /\ pendingRequestEvents' = Append(pendingRequestEvents, NewEvent)
      /\ batch' = batch /\ pc = "push"
  BY DEF PushRequestEvent, NewEvent, mainVars, Transition
<1>2. job \in Requests /\ NewEvent \in Events
  BY <1>1 DEF TypeOK, WorkerInv, NewEvent, Events
<1>3. batch \in Seq(Events) /\ pendingRequestEvents \in Seq(Events)
  BY DEF TypeOK
<1>4. Append(pendingRequestEvents, NewEvent) = pendingRequestEvents \o <<NewEvent>>
  BY <1>2, <1>3, AppendIsConcat
<1>5. <<NewEvent>> \in Seq(Events)
  BY <1>2
<1>6. Undelivered' = Undelivered \o <<NewEvent>>
  BY <1>1, <1>3, <1>4, <1>5, ConcatAssociative DEF Undelivered
<1>7. Undelivered \in Seq(Events)
  BY UndeliveredTyped
<1>8. Undelivered' = Append(Undelivered, NewEvent)
  BY <1>2, <1>6, <1>7, AppendIsConcat
<1>9. /\ Len(Undelivered') = Len(Undelivered) + 1
      /\ \A i \in 1 .. Len(Undelivered) : Undelivered'[i] = Undelivered[i]
      /\ Undelivered'[Len(Undelivered) + 1] = NewEvent
  BY <1>2, <1>7, <1>8, AppendProperties
<1>10. Len(Undelivered) \in Nat
  BY <1>7, LenProperties
<1>11. QED
  BY <1>2, <1>8, <1>9, <1>10 DEF EventIndices

-----------------------------------------------------------------------------
(* Type correctness.                                                       *)

LEMMA InitInv == Init => IInv
<1> SUFFICES ASSUME Init PROVE IInv
  OBVIOUS
<1> USE BoundsAssumption DEF Init
<1>1. TypeOK
  BY RequestsAreNumbers DEF TypeOK, Requests, Outcomes
<1>2. Undelivered = <<>>
  BY EmptySeq, ConcatEmptySeq DEF Undelivered
<1>3. EventIndices = {}
  BY <1>2 DEF EventIndices
<1>4. WorkerInv /\ FreshInv /\ ResetInv /\ RequestInv /\ NoSilentOutcome
  BY RequestsAreNumbers DEF WorkerInv, FreshInv, ResetInv, RequestInv, NoSilentOutcome,
     ToldOutcomesMatch, NoRequest, NoNode, Present, Requests
<1>5. EventsOK /\ Distinct(Undelivered) /\ NodeInv /\ NodesOwned
  BY <1>2, <1>3 DEF EventsOK, Distinct, NodeInv, NodesOwned
<1>6. NodeCount
  <2>1. Stored = {}
    BY RequestsAreNumbers DEF Stored, Storing, Spent
  <2>2. QED
    BY <2>1, FS_EmptySet DEF NodeCount
<1>7. QED
  BY <1>1, <1>4, <1>5, <1>6 DEF IInv

\* A store of a node has a request of its own behind it.
LEMMA StoredBounded ==
  ASSUME MaxRequests \in Nat
  PROVE  /\ IsFiniteSet(Spent) /\ IsFiniteSet(Stored)
         /\ Cardinality(Stored) \in Nat /\ Cardinality(Spent) \in Nat
         /\ Cardinality(Stored) <= MaxRequests /\ Cardinality(Spent) <= MaxRequests
<1>1. Spent \in SUBSET Requests /\ Stored \in SUBSET Requests
  BY DEF Stored, Spent
<1>2. IsFiniteSet(Requests) /\ Cardinality(Requests) = MaxRequests
  BY FS_Interval DEF Requests
<1>3. IsFiniteSet(Spent) /\ IsFiniteSet(Stored)
  BY <1>1, <1>2, FS_Subset
<1>4. Cardinality(Stored) <= MaxRequests /\ Cardinality(Spent) <= MaxRequests
  BY <1>1, <1>2, FS_Subset
<1>5. QED
  BY <1>3, <1>4, FS_CardinalityType

LEMMA StoreHasRequest ==
  ASSUME TypeOK, WorkerInv, FreshInv, NodeCount, StoreJsonNode
  PROVE  nextJsonNodeId + 1 <= Cardinality(Spent) + 1 /\ nextJsonNodeId \in NodeIds
<1>1. Storing /\ pc = "store"
  BY DEF StoreJsonNode, Transition, Storing
<1>2. job \in Requests
  BY <1>1 DEF WorkerInv, TypeOK
<1>3. job \in Spent
  BY <1>1, <1>2, RequestsAreNumbers DEF Spent, FreshInv, WorkerInv
<1>4. Stored = Spent \ {job}
  BY <1>1 DEF Stored
<1>5. Cardinality(Stored) = Cardinality(Spent) - 1
  BY <1>3, <1>4, StoredBounded, BoundsAssumption, FS_RemoveElement
<1>6. nextJsonNodeId \in Nat \ {0}
  BY BoundsAssumption DEF TypeOK
<1>7. QED
  BY <1>5, <1>6, StoredBounded, BoundsAssumption DEF NodeCount, NodeIds

LEMMA StepType == IInv /\ [Next]_vars => TypeOK'
<1> SUFFICES ASSUME IInv, [Next]_vars PROVE TypeOK'
  OBVIOUS
<1>0. TypeOK /\ WorkerInv /\ FreshInv /\ NodeCount /\ EventsOK
  BY DEF IInv
<1> USE DEF requestVars, nodeVars, workerVars, mainVars, history, Transition
<1>1. ASSUME NEW r \in Requests, PickRequest(r) PROVE TypeOK'
  BY <1>0, <1>1 DEF PickRequest, TypeOK, Statuses
<1>2. CASE CopyRequest
  BY <1>0, <1>2 DEF CopyRequest, TypeOK
<1>3. CASE CheckBeforeSend
  BY <1>0, <1>3 DEF CheckBeforeSend, TypeOK, Outcomes
<1>4. CASE FailTls
  BY <1>0, <1>4 DEF FailTls, TypeOK, Outcomes
<1>5. CASE DispatchOutgoingRequest
  BY <1>0, <1>5 DEF DispatchOutgoingRequest, TypeOK, Outcomes
<1>6. CASE CheckAfterSend
  BY <1>0, <1>6 DEF CheckAfterSend, TypeOK, Outcomes
<1>7. CASE StoreJsonNode
  <2>1. nextJsonNodeId \in NodeIds
    BY <1>0, <1>7, StoreHasRequest
  <2>2. nextJsonNodeId + 1 \in 1 .. MaxRequests + 1
    BY <2>1, BoundsAssumption DEF NodeIds
  <2>3. QED
    BY <1>0, <1>7, <2>1, <2>2 DEF StoreJsonNode, TypeOK
<1>8. CASE CompleteRequest
  BY <1>0, <1>8 DEF CompleteRequest, TypeOK, Statuses
<1>9. CASE FailOutgoingRequest
  BY <1>0, <1>9 DEF FailOutgoingRequest, TypeOK, Statuses
<1>10. CASE PushRequestEvent
  <2>1. NewEvent \in Events
    BY <1>0, <1>10, PushAddsLast
  <2>2. pendingRequestEvents' = Append(pendingRequestEvents, NewEvent)
    BY <1>10 DEF PushRequestEvent, NewEvent
  <2>3. pendingRequestEvents' \in Seq(Events)
    BY <1>0, <2>1, <2>2, AppendProperties DEF TypeOK
  <2>4. QED
    BY <1>0, <1>10, <2>3 DEF PushRequestEvent, TypeOK
<1>11. CASE WorkerExit
  BY <1>0, <1>11 DEF WorkerExit, TypeOK
<1>12. ASSUME NEW json \in BOOLEAN, QueueOutboundRequest(json) PROVE TypeOK'
  <2>1. nextOutgoingRequestId \in Requests /\ nextOutgoingRequestId + 1 \in 0 .. MaxRequests
    BY <1>0, <1>12, BoundsAssumption DEF QueueOutboundRequest, TypeOK, Requests
  <2>2. QED
    BY <1>0, <1>12, <2>1 DEF QueueOutboundRequest, TypeOK, Statuses
<1>13. ASSUME NEW r \in Requests, CancelOutboundRequest(r) PROVE TypeOK'
  BY <1>0, <1>13 DEF CancelOutboundRequest, TypeOK, Statuses
<1>14. ASSUME NEW n \in NodeIds, ReleaseJsonNode(n) PROVE TypeOK'
  BY <1>0, <1>14 DEF ReleaseJsonNode, TypeOK
<1>15. CASE DrainEvents
  BY <1>0, <1>15, EmptySeq DEF DrainEvents, TypeOK
<1>16. CASE RunCallback
  <2>1. Head(batch) \in Events /\ Tail(batch) \in Seq(Events)
    BY <1>0, <1>16, HeadTailProperties DEF RunCallback, TypeOK
  <2>2. /\ Head(batch).id \in Requests /\ Head(batch).outcome \in Outcomes
        /\ Head(batch).node \in NodeIds \cup {NoNode}
    BY <2>1 DEF Events
  <2>3. told' \in [Requests -> Outcomes \cup {"nothing"}] /\ scriptNodes' \subseteq NodeIds
    BY <1>0, <1>16, <2>2 DEF RunCallback, TypeOK
  <2>4. QED
    BY <1>0, <1>16, <2>1, <2>3 DEF RunCallback, TypeOK
<1>17. CASE ResetEvents
  BY <1>0, <1>17, EmptySeq, BoundsAssumption DEF ResetEvents, TypeOK
<1>18. CASE ResetRequests
  BY <1>0, <1>18 DEF ResetRequests, TypeOK
<1>19. CASE ResetNodes
  BY <1>0, <1>19 DEF ResetNodes, TypeOK
<1>20. CASE StopWorker
  BY <1>0, <1>20 DEF StopWorker, TypeOK
<1>21. CASE JoinWorker
  BY <1>0, <1>21 DEF JoinWorker, TypeOK
<1>22. CASE UNCHANGED vars
  BY <1>0, <1>22 DEF vars, TypeOK
<1>23. QED
  BY <1>1, <1>2, <1>3, <1>4, <1>5, <1>6, <1>7, <1>8, <1>9, <1>10, <1>11, <1>12, <1>13,
     <1>14, <1>15, <1>16, <1>17, <1>18, <1>19, <1>20, <1>21, <1>22
     DEF Next, Worker, Main, Script, Reset

-----------------------------------------------------------------------------
(* The control of the worker, ids and resets.                              *)

LEMMA StatusSettled ==
  \A o \in Outcomes : StatusFor[o] \in {"Completed", "Failed", "Cancelled"}
BY DEF Outcomes, StatusFor

\* The event whose callback runs is one of those on their way.
LEMMA FirstEvent ==
  ASSUME TypeOK, EventsOK, RunCallback
  PROVE  Head(batch) \in Events /\ EventOK(Head(batch))
<1>1. 1 \in EventIndices /\ Head(batch) = Undelivered[1]
  BY CallbackTakesFirst DEF EventIndices
<1>2. QED
  BY <1>1, EventTyped DEF EventsOK

LEMMA StepWorker == IInv /\ [Next]_vars => WorkerInv'
<1> SUFFICES ASSUME IInv, [Next]_vars PROVE WorkerInv'
  OBVIOUS
<1>0. TypeOK /\ WorkerInv /\ FreshInv
  BY DEF IInv
<1> USE RequestsAreNumbers DEF requestVars, nodeVars, workerVars, mainVars, history, Transition
<1>1. ASSUME NEW r \in Requests, PickRequest(r) PROVE WorkerInv'
  BY <1>0, <1>1 DEF PickRequest, TypeOK, WorkerInv, FreshInv, NoRequest, NoNode, Present,
     StatusFor
<1>2. CASE CopyRequest
  BY <1>0, <1>2 DEF CopyRequest, TypeOK, WorkerInv, FreshInv, NoRequest, NoNode, Present,
     StatusFor
<1>3. CASE CheckBeforeSend
  BY <1>0, <1>3 DEF CheckBeforeSend, TypeOK, WorkerInv, FreshInv, NoRequest, NoNode, Present,
     StatusFor
<1>4. CASE FailTls
  BY <1>0, <1>4 DEF FailTls, TypeOK, WorkerInv, FreshInv, NoRequest, NoNode, Present, StatusFor
<1>5. CASE DispatchOutgoingRequest
  BY <1>0, <1>5 DEF DispatchOutgoingRequest, TypeOK, WorkerInv, FreshInv, NoRequest, NoNode,
     Present, StatusFor
<1>6. CASE CheckAfterSend
  BY <1>0, <1>6 DEF CheckAfterSend, TypeOK, WorkerInv, FreshInv, NoRequest, NoNode, Present,
     StatusFor
<1>7. CASE StoreJsonNode
  BY <1>0, <1>7 DEF StoreJsonNode, TypeOK, WorkerInv, FreshInv, NoRequest, NoNode, Present,
     StatusFor
<1>8. CASE CompleteRequest
  BY <1>0, <1>8 DEF CompleteRequest, TypeOK, WorkerInv, FreshInv, NoRequest, NoNode, Present,
     StatusFor
<1>9. CASE FailOutgoingRequest
  BY <1>0, <1>9 DEF FailOutgoingRequest, TypeOK, WorkerInv, FreshInv, NoRequest, NoNode,
     Present, StatusFor
<1>10. CASE PushRequestEvent
  BY <1>0, <1>10 DEF PushRequestEvent, TypeOK, WorkerInv, FreshInv, NoRequest, NoNode, Present,
     StatusFor
<1>11. CASE WorkerExit
  BY <1>0, <1>11 DEF WorkerExit, TypeOK, WorkerInv, FreshInv, NoRequest, NoNode, Present,
     StatusFor
<1>12. ASSUME NEW json \in BOOLEAN, QueueOutboundRequest(json) PROVE WorkerInv'
  BY <1>0, <1>12 DEF QueueOutboundRequest, TypeOK, WorkerInv, FreshInv, NoRequest, NoNode,
     Present, StatusFor
<1>13. ASSUME NEW r \in Requests, CancelOutboundRequest(r) PROVE WorkerInv'
  BY <1>0, <1>13, StatusSettled DEF CancelOutboundRequest, TypeOK, WorkerInv, FreshInv,
     NoRequest, NoNode, Present
<1>14. ASSUME NEW n \in NodeIds, ReleaseJsonNode(n) PROVE WorkerInv'
  BY <1>0, <1>14 DEF ReleaseJsonNode, TypeOK, WorkerInv, FreshInv, NoRequest, NoNode, Present,
     StatusFor
<1>15. CASE DrainEvents
  BY <1>0, <1>15 DEF DrainEvents, TypeOK, WorkerInv, FreshInv, NoRequest, NoNode, Present,
     StatusFor
<1>16. CASE RunCallback
  BY <1>0, <1>16 DEF RunCallback, TypeOK, WorkerInv, FreshInv, NoRequest, NoNode, Present,
     StatusFor
<1>17. CASE ResetEvents
  BY <1>0, <1>17 DEF ResetEvents, TypeOK, WorkerInv, FreshInv, NoRequest, NoNode, Present,
     StatusFor
<1>18. CASE ResetRequests
  BY <1>0, <1>18 DEF ResetRequests, TypeOK, WorkerInv, FreshInv, NoRequest, NoNode, Present,
     StatusFor
<1>19. CASE ResetNodes
  BY <1>0, <1>19 DEF ResetNodes, TypeOK, WorkerInv, FreshInv, NoRequest, NoNode, Present,
     StatusFor
<1>20. CASE StopWorker
  BY <1>0, <1>20 DEF StopWorker, TypeOK, WorkerInv, FreshInv, NoRequest, NoNode, Present,
     StatusFor
<1>21. CASE JoinWorker
  BY <1>0, <1>21 DEF JoinWorker, TypeOK, WorkerInv, FreshInv, NoRequest, NoNode, Present,
     StatusFor
<1>22. CASE UNCHANGED vars
  BY <1>0, <1>22 DEF vars, TypeOK, WorkerInv, FreshInv, NoRequest, NoNode, Present, StatusFor
<1>23. QED
  BY <1>1, <1>2, <1>3, <1>4, <1>5, <1>6, <1>7, <1>8, <1>9, <1>10, <1>11, <1>12, <1>13,
     <1>14, <1>15, <1>16, <1>17, <1>18, <1>19, <1>20, <1>21, <1>22
     DEF Next, Worker, Main, Script, Reset

LEMMA StepFresh == IInv /\ [Next]_vars => (FreshInv /\ ResetInv)'
<1> SUFFICES ASSUME IInv, [Next]_vars PROVE (FreshInv /\ ResetInv)'
  OBVIOUS
<1>0. TypeOK /\ WorkerInv /\ FreshInv /\ ResetInv /\ EventsOK
  BY DEF IInv
<1> USE RequestsAreNumbers DEF requestVars, nodeVars, workerVars, mainVars, history, Transition
<1>1. ASSUME NEW r \in Requests, PickRequest(r) PROVE (FreshInv /\ ResetInv)'
  BY <1>0, <1>1 DEF PickRequest, TypeOK, WorkerInv, FreshInv, ResetInv, NoRequest, Present
<1>2. CASE CopyRequest
  BY <1>0, <1>2 DEF CopyRequest, TypeOK, WorkerInv, FreshInv, ResetInv, NoRequest, Present
<1>3. CASE CheckBeforeSend
  BY <1>0, <1>3 DEF CheckBeforeSend, TypeOK, WorkerInv, FreshInv, ResetInv, NoRequest, Present
<1>4. CASE FailTls
  BY <1>0, <1>4 DEF FailTls, TypeOK, WorkerInv, FreshInv, ResetInv, NoRequest, Present
<1>5. CASE DispatchOutgoingRequest
  BY <1>0, <1>5 DEF DispatchOutgoingRequest, TypeOK, WorkerInv, FreshInv, ResetInv, NoRequest,
     Present
<1>6. CASE CheckAfterSend
  BY <1>0, <1>6 DEF CheckAfterSend, TypeOK, WorkerInv, FreshInv, ResetInv, NoRequest, Present
<1>7. CASE StoreJsonNode
  BY <1>0, <1>7 DEF StoreJsonNode, TypeOK, WorkerInv, FreshInv, ResetInv, NoRequest, Present
<1>8. CASE CompleteRequest
  BY <1>0, <1>8 DEF CompleteRequest, TypeOK, WorkerInv, FreshInv, ResetInv, NoRequest, Present
<1>9. CASE FailOutgoingRequest
  BY <1>0, <1>9 DEF FailOutgoingRequest, TypeOK, WorkerInv, FreshInv, ResetInv, NoRequest,
     Present
<1>10. CASE PushRequestEvent
  BY <1>0, <1>10 DEF PushRequestEvent, TypeOK, WorkerInv, FreshInv, ResetInv, NoRequest, Present
<1>11. CASE WorkerExit
  BY <1>0, <1>11 DEF WorkerExit, TypeOK, WorkerInv, FreshInv, ResetInv, NoRequest, Present
<1>12. ASSUME NEW json \in BOOLEAN, QueueOutboundRequest(json) PROVE (FreshInv /\ ResetInv)'
  BY <1>0, <1>12 DEF QueueOutboundRequest, TypeOK, WorkerInv, FreshInv, ResetInv, NoRequest,
     Present
<1>13. ASSUME NEW r \in Requests, CancelOutboundRequest(r) PROVE (FreshInv /\ ResetInv)'
  BY <1>0, <1>13 DEF CancelOutboundRequest, TypeOK, WorkerInv, FreshInv, ResetInv, NoRequest,
     Present
<1>14. ASSUME NEW n \in NodeIds, ReleaseJsonNode(n) PROVE (FreshInv /\ ResetInv)'
  BY <1>0, <1>14 DEF ReleaseJsonNode, TypeOK, WorkerInv, FreshInv, ResetInv, NoRequest, Present
<1>15. CASE DrainEvents
  BY <1>0, <1>15 DEF DrainEvents, TypeOK, WorkerInv, FreshInv, ResetInv, NoRequest, Present
<1>16. CASE RunCallback
  <2>1. Head(batch).id < nextOutgoingRequestId /\ Head(batch).id \in Requests
    BY <1>0, <1>16, FirstEvent DEF EventOK, Events
  <2>2. QED
    BY <1>0, <1>16, <2>1 DEF RunCallback, TypeOK, WorkerInv, FreshInv, ResetInv, NoRequest,
       Present
<1>17. CASE ResetEvents
  BY <1>0, <1>17 DEF ResetEvents, TypeOK, WorkerInv, FreshInv, ResetInv, NoRequest, Present
<1>18. CASE ResetRequests
  BY <1>0, <1>18 DEF ResetRequests, TypeOK, WorkerInv, FreshInv, ResetInv, NoRequest, Present
<1>19. CASE ResetNodes
  BY <1>0, <1>19 DEF ResetNodes, TypeOK, WorkerInv, FreshInv, ResetInv, NoRequest, Present
<1>20. CASE StopWorker
  BY <1>0, <1>20 DEF StopWorker, TypeOK, WorkerInv, FreshInv, ResetInv, NoRequest, Present
<1>21. CASE JoinWorker
  BY <1>0, <1>21 DEF JoinWorker, TypeOK, WorkerInv, FreshInv, ResetInv, NoRequest, Present
<1>22. CASE UNCHANGED vars
  BY <1>0, <1>22 DEF vars, TypeOK, WorkerInv, FreshInv, ResetInv, NoRequest, Present
<1>23. QED
  BY <1>1, <1>2, <1>3, <1>4, <1>5, <1>6, <1>7, <1>8, <1>9, <1>10, <1>11, <1>12, <1>13,
     <1>14, <1>15, <1>16, <1>17, <1>18, <1>19, <1>20, <1>21, <1>22
     DEF Next, Worker, Main, Script, Reset

LEMMA StepRequest == IInv /\ [Next]_vars => RequestInv'
<1> SUFFICES ASSUME IInv, [Next]_vars PROVE RequestInv'
  OBVIOUS
<1>0. TypeOK /\ WorkerInv /\ FreshInv /\ RequestInv /\ EventsOK
  BY DEF IInv
<1> USE RequestsAreNumbers DEF requestVars, nodeVars, workerVars, mainVars, history, Transition
<1>1. ASSUME NEW r \in Requests, PickRequest(r) PROVE RequestInv'
  BY <1>0, <1>1 DEF PickRequest, TypeOK, WorkerInv, FreshInv, RequestInv,
     ToldOutcomesMatch, NoRequest, Present, Outcomes
<1>2. CASE CopyRequest
  BY <1>0, <1>2 DEF CopyRequest, TypeOK, WorkerInv, FreshInv, RequestInv,
     ToldOutcomesMatch, NoRequest, Present, Outcomes
<1>3. CASE CheckBeforeSend
  BY <1>0, <1>3 DEF CheckBeforeSend, TypeOK, WorkerInv, FreshInv, RequestInv,
     ToldOutcomesMatch, NoRequest, Present, Outcomes
<1>4. CASE FailTls
  BY <1>0, <1>4 DEF FailTls, TypeOK, WorkerInv, FreshInv, RequestInv,
     ToldOutcomesMatch, NoRequest, Present, Outcomes
<1>5. CASE DispatchOutgoingRequest
  BY <1>0, <1>5 DEF DispatchOutgoingRequest, TypeOK, WorkerInv, FreshInv, RequestInv,
     ToldOutcomesMatch, NoRequest, Present, Outcomes
<1>6. CASE CheckAfterSend
  BY <1>0, <1>6 DEF CheckAfterSend, TypeOK, WorkerInv, FreshInv, RequestInv,
     ToldOutcomesMatch, NoRequest, Present, Outcomes
<1>7. CASE StoreJsonNode
  BY <1>0, <1>7 DEF StoreJsonNode, TypeOK, WorkerInv, FreshInv, RequestInv,
     ToldOutcomesMatch, NoRequest, Present, Outcomes
<1>8. CASE CompleteRequest
  BY <1>0, <1>8 DEF CompleteRequest, TypeOK, WorkerInv, FreshInv, RequestInv,
     ToldOutcomesMatch, NoRequest, Present, Outcomes
<1>9. CASE FailOutgoingRequest
  BY <1>0, <1>9 DEF FailOutgoingRequest, TypeOK, WorkerInv, FreshInv, RequestInv,
     ToldOutcomesMatch, NoRequest, Present, Outcomes
<1>10. CASE PushRequestEvent
  BY <1>0, <1>10 DEF PushRequestEvent, TypeOK, WorkerInv, FreshInv, RequestInv,
     ToldOutcomesMatch, NoRequest, Present, Outcomes
<1>11. CASE WorkerExit
  BY <1>0, <1>11 DEF WorkerExit, TypeOK, WorkerInv, FreshInv, RequestInv,
     ToldOutcomesMatch, NoRequest, Present, Outcomes
<1>12. ASSUME NEW json \in BOOLEAN, QueueOutboundRequest(json) PROVE RequestInv'
  BY <1>0, <1>12 DEF QueueOutboundRequest, TypeOK, WorkerInv, FreshInv, RequestInv,
     ToldOutcomesMatch, NoRequest, Present, Outcomes
<1>13. ASSUME NEW r \in Requests, CancelOutboundRequest(r) PROVE RequestInv'
  BY <1>0, <1>13, StatusSettled DEF CancelOutboundRequest, TypeOK, WorkerInv, FreshInv,
     RequestInv, ToldOutcomesMatch, NoRequest, Present, Outcomes
<1>14. ASSUME NEW n \in NodeIds, ReleaseJsonNode(n) PROVE RequestInv'
  BY <1>0, <1>14 DEF ReleaseJsonNode, TypeOK, WorkerInv, FreshInv, RequestInv,
     ToldOutcomesMatch, NoRequest, Present, Outcomes
<1>15. CASE DrainEvents
  BY <1>0, <1>15 DEF DrainEvents, TypeOK, WorkerInv, FreshInv, RequestInv,
     ToldOutcomesMatch, NoRequest, Present, Outcomes
<1>16. CASE RunCallback
  <2>1. /\ Head(batch).id \in Requests /\ Head(batch).id # job /\ Head(batch).outcome \in Outcomes
        /\ Present(Head(batch).id) =>
              outgoingRequests[Head(batch).id] = StatusFor[Head(batch).outcome]
    BY <1>0, <1>16, FirstEvent DEF EventOK, Events
  <2>2. QED
    BY <1>0, <1>16, <2>1, StatusSettled DEF RunCallback, TypeOK, WorkerInv, FreshInv, RequestInv,
     ToldOutcomesMatch, NoRequest, Present, Outcomes
<1>17. CASE ResetEvents
  BY <1>0, <1>17 DEF ResetEvents, TypeOK, WorkerInv, FreshInv, RequestInv,
     ToldOutcomesMatch, NoRequest, Present, Outcomes
<1>18. CASE ResetRequests
  BY <1>0, <1>18 DEF ResetRequests, TypeOK, WorkerInv, FreshInv, RequestInv,
     ToldOutcomesMatch, NoRequest, Present, Outcomes
<1>19. CASE ResetNodes
  BY <1>0, <1>19 DEF ResetNodes, TypeOK, WorkerInv, FreshInv, RequestInv,
     ToldOutcomesMatch, NoRequest, Present, Outcomes
<1>20. CASE StopWorker
  BY <1>0, <1>20 DEF StopWorker, TypeOK, WorkerInv, FreshInv, RequestInv,
     ToldOutcomesMatch, NoRequest, Present, Outcomes
<1>21. CASE JoinWorker
  BY <1>0, <1>21 DEF JoinWorker, TypeOK, WorkerInv, FreshInv, RequestInv,
     ToldOutcomesMatch, NoRequest, Present, Outcomes
<1>22. CASE UNCHANGED vars
  BY <1>0, <1>22 DEF vars, TypeOK, WorkerInv, FreshInv, RequestInv,
     ToldOutcomesMatch, NoRequest, Present, Outcomes
<1>23. QED
  BY <1>1, <1>2, <1>3, <1>4, <1>5, <1>6, <1>7, <1>8, <1>9, <1>10, <1>11, <1>12, <1>13,
     <1>14, <1>15, <1>16, <1>17, <1>18, <1>19, <1>20, <1>21, <1>22
     DEF Next, Worker, Main, Script, Reset

-----------------------------------------------------------------------------
(* The events on their way and the nodes they carry.                       *)

\* What holds of an undelivered event goes on to hold until its callback.
LEMMA EventStays ==
  ASSUME IInv, [Next]_vars, NEW e \in Events, EventOK(e),
         RunCallback => /\ e.id # Head(batch).id
                        /\ e.node # NoNode => e.node # Head(batch).node
  PROVE  EventOK(e)'
<1>0. TypeOK /\ WorkerInv /\ FreshInv /\ ResetInv /\ EventOK(e) /\ e \in Events
  BY DEF IInv
<1>b. e.id \in Requests /\ e.node \in NodeIds \cup {NoNode} /\ e.outcome \in Outcomes
  BY <1>0 DEF Events
<1>a. e.id \in Requests /\ e.id \in Nat /\ e.node \in Int /\ e.outcome \in Outcomes
  <2>1. \A x \in NodeIds : x \in Int
    BY DEF NodeIds
  <2>2. e.id \in Nat
    BY <1>b, BoundsAssumption DEF Requests
  <2>3. e.node \in Int
    BY <1>b, <2>1, RequestsAreNumbers
  <2>4. QED
    BY <1>b, <2>2, <2>3
<1> USE RequestsAreNumbers DEF requestVars, nodeVars, workerVars, mainVars, history, Transition
<1>1. ASSUME NEW r \in Requests, PickRequest(r) PROVE EventOK(e)'
  BY <1>0, <1>1, <1>a, StatusSettled DEF PickRequest, TypeOK, WorkerInv, FreshInv, ResetInv,
     EventOK, Events, Present
<1>2. CASE CopyRequest
  BY <1>0, <1>2, <1>a, StatusSettled DEF CopyRequest, TypeOK, WorkerInv, FreshInv, ResetInv,
     EventOK, Events, Present
<1>3. CASE CheckBeforeSend
  BY <1>0, <1>3, <1>a, StatusSettled DEF CheckBeforeSend, TypeOK, WorkerInv, FreshInv, ResetInv,
     EventOK, Events, Present
<1>4. CASE FailTls
  BY <1>0, <1>4, <1>a, StatusSettled DEF FailTls, TypeOK, WorkerInv, FreshInv, ResetInv,
     EventOK, Events, Present
<1>5. CASE DispatchOutgoingRequest
  BY <1>0, <1>5, <1>a, StatusSettled DEF DispatchOutgoingRequest, TypeOK, WorkerInv, FreshInv,
     ResetInv, EventOK, Events, Present
<1>6. CASE CheckAfterSend
  BY <1>0, <1>6, <1>a, StatusSettled DEF CheckAfterSend, TypeOK, WorkerInv, FreshInv, ResetInv,
     EventOK, Events, Present
<1>7. CASE StoreJsonNode
  <2>1. jsonNodes' = jsonNodes \cup {nextJsonNodeId} /\ nodeId' = nextJsonNodeId
        /\ nextJsonNodeId' = nextJsonNodeId + 1
    BY <1>7 DEF StoreJsonNode
  <2>2. nextJsonNodeId \in Nat
    BY <1>0, BoundsAssumption DEF TypeOK
  <2>3. e.node # NoNode => e.node < nextJsonNodeId + 1 /\ e.node # nextJsonNodeId
    BY <1>0, <1>a, <2>2 DEF EventOK
  <2>4. UNCHANGED <<outgoingRequests, nextOutgoingRequestId, told, job, scriptNodes>>
    BY <1>7 DEF StoreJsonNode
  <2>5. QED
    BY <1>0, <2>1, <2>3, <2>4 DEF EventOK, Present
<1>8. CASE CompleteRequest
  BY <1>0, <1>8, <1>a, StatusSettled DEF CompleteRequest, TypeOK, WorkerInv, FreshInv, ResetInv,
     EventOK, Events, Present
<1>9. CASE FailOutgoingRequest
  BY <1>0, <1>9, <1>a, StatusSettled DEF FailOutgoingRequest, TypeOK, WorkerInv, FreshInv,
     ResetInv, EventOK, Events, Present
<1>10. CASE PushRequestEvent
  BY <1>0, <1>10, <1>a, StatusSettled DEF PushRequestEvent, TypeOK, WorkerInv, FreshInv,
     ResetInv, EventOK, Events, Present
<1>11. CASE WorkerExit
  BY <1>0, <1>11, <1>a, StatusSettled DEF WorkerExit, TypeOK, WorkerInv, FreshInv, ResetInv,
     EventOK, Events, Present
<1>12. ASSUME NEW json \in BOOLEAN, QueueOutboundRequest(json) PROVE EventOK(e)'
  <2>1. nextOutgoingRequestId \in Nat /\ nextOutgoingRequestId' = nextOutgoingRequestId + 1
    BY <1>0, <1>12, BoundsAssumption DEF QueueOutboundRequest, TypeOK
  <2>2. e.id # nextOutgoingRequestId /\ e.id < nextOutgoingRequestId'
    BY <1>0, <1>a, <2>1 DEF EventOK
  <2>3. outgoingRequests'[e.id] = outgoingRequests[e.id]
    BY <1>0, <1>12, <1>a, <2>2 DEF QueueOutboundRequest, TypeOK
  <2>4. UNCHANGED <<told, job, scriptNodes, nodeId, jsonNodes, nextJsonNodeId>>
    BY <1>12 DEF QueueOutboundRequest
  <2>5. QED
    BY <1>0, <2>2, <2>3, <2>4 DEF EventOK, Present
<1>13. ASSUME NEW r \in Requests, CancelOutboundRequest(r) PROVE EventOK(e)'
  BY <1>0, <1>13, <1>a, StatusSettled DEF CancelOutboundRequest, TypeOK, WorkerInv, FreshInv,
     ResetInv, EventOK, Events, Present
<1>14. ASSUME NEW n \in NodeIds, ReleaseJsonNode(n) PROVE EventOK(e)'
  BY <1>0, <1>14, <1>a, StatusSettled DEF ReleaseJsonNode, TypeOK, WorkerInv, FreshInv,
     ResetInv, EventOK, Events, Present
<1>15. CASE DrainEvents
  BY <1>0, <1>15, <1>a, StatusSettled DEF DrainEvents, TypeOK, WorkerInv, FreshInv, ResetInv,
     EventOK, Events, Present
<1>16. CASE RunCallback
  BY <1>0, <1>16, <1>a, StatusSettled DEF RunCallback, TypeOK, WorkerInv, FreshInv, ResetInv,
     EventOK, Events, Present
<1>17. CASE ResetEvents
  BY <1>0, <1>17, <1>a, StatusSettled DEF ResetEvents, TypeOK, WorkerInv, FreshInv, ResetInv,
     EventOK, Events, Present
<1>18. CASE ResetRequests
  BY <1>0, <1>18, <1>a, StatusSettled DEF ResetRequests, TypeOK, WorkerInv, FreshInv, ResetInv,
     EventOK, Events, Present
<1>19. CASE ResetNodes
  BY <1>0, <1>19, <1>a, StatusSettled DEF ResetNodes, TypeOK, WorkerInv, FreshInv, ResetInv,
     EventOK, Events, Present
<1>20. CASE StopWorker
  BY <1>0, <1>20, <1>a, StatusSettled DEF StopWorker, TypeOK, WorkerInv, FreshInv, ResetInv,
     EventOK, Events, Present
<1>21. CASE JoinWorker
  BY <1>0, <1>21, <1>a, StatusSettled DEF JoinWorker, TypeOK, WorkerInv, FreshInv, ResetInv,
     EventOK, Events, Present
<1>22. CASE UNCHANGED vars
  BY <1>0, <1>22, <1>a, StatusSettled DEF vars, TypeOK, WorkerInv, FreshInv, ResetInv, EventOK,
     Events, Present
<1>23. QED
  BY <1>1, <1>2, <1>3, <1>4, <1>5, <1>6, <1>7, <1>8, <1>9, <1>10, <1>11, <1>12, <1>13,
     <1>14, <1>15, <1>16, <1>17, <1>18, <1>19, <1>20, <1>21, <1>22
     DEF Next, Worker, Main, Script, Reset

\* The event the worker pushes.
LEMMA NewEventOK ==
  ASSUME IInv, PushRequestEvent, NEW e, e = NewEvent
  PROVE  EventOK(e)'
<1>1. job \in Requests
  BY PushAddsLast DEF IInv
<1>2. TypeOK /\ WorkerInv /\ FreshInv /\ RequestInv /\ NodeInv
  BY DEF IInv
<1>3. e.id = job /\ e.outcome = outcome /\ e.node = nodeId
  BY DEF NewEvent
<1>4. /\ pc = "push" /\ job' = NoRequest /\ nodeId' = NoNode
      /\ UNCHANGED <<outgoingRequests, nextOutgoingRequestId, told, scriptNodes, jsonNodes,
                     nextJsonNodeId>>
  BY DEF PushRequestEvent, Transition, requestVars, nodeVars, history
<1>5. job < nextOutgoingRequestId /\ told[job] = "nothing"
  BY <1>1, <1>2, RequestsAreNumbers DEF FreshInv, RequestInv
<1>6. job # NoRequest
  BY <1>1, RequestsAreNumbers
<1>7. QED
  BY <1>2, <1>3, <1>4, <1>5, <1>6 DEF EventOK, WorkerInv, NodeInv, Present

\* No event on its way is about the worker's request, or carries its node.
LEMMA NewEventDistinct ==
  ASSUME EventsOK, NEW i \in EventIndices
  PROVE  /\ Undelivered[i].id # job
         /\ Undelivered[i].node # NoNode => Undelivered[i].node # nodeId
BY DEF EventsOK, EventOK

\* Only a push, a callback and a reset change the sequence of events.
LEMMA EventsUnlessMoved ==
  ASSUME TypeOK, [Next]_vars, ~PushRequestEvent, ~RunCallback, ~ResetEvents
  PROVE  Undelivered' = Undelivered
<1>1. CASE DrainEvents
  BY <1>1, DrainKeepsEvents
<1>2. CASE ~DrainEvents
  <2>1. UNCHANGED <<batch, pendingRequestEvents>>
    BY <1>2 DEF Next, Worker, Main, Script, Reset, vars, mainVars, PickRequest, CopyRequest,
       CheckBeforeSend, FailTls, DispatchOutgoingRequest, CheckAfterSend, StoreJsonNode,
       CompleteRequest, FailOutgoingRequest, WorkerExit, QueueOutboundRequest,
       CancelOutboundRequest, ReleaseJsonNode, ResetRequests, ResetNodes, StopWorker, JoinWorker
  <2>2. QED
    BY <2>1 DEF Undelivered
<1>3. QED
  BY <1>1, <1>2

LEMMA StepEvents == IInv /\ [Next]_vars => (EventsOK /\ Distinct(Undelivered))'
<1> SUFFICES ASSUME IInv, [Next]_vars PROVE (EventsOK /\ Distinct(Undelivered))'
  OBVIOUS
<1>0. TypeOK /\ WorkerInv /\ EventsOK /\ Distinct(Undelivered)
  BY DEF IInv
<1>a. ASSUME NEW e \in Events, EventOK(e),
             RunCallback => /\ e.id # Head(batch).id
                            /\ e.node # NoNode => e.node # Head(batch).node
      PROVE  EventOK(e)'
  BY <1>a, EventStays
<1>b. ASSUME NEW q, q = Undelivered', \A i \in 1 .. Len(q) : \A e : e = q[i] => EventOK(e)',
             Distinct(q)
      PROVE  (EventsOK /\ Distinct(Undelivered))'
  BY <1>b DEF EventsOK, EventIndices, Distinct, EventOK
<1>c. \A i \in EventIndices : Undelivered[i] \in Events /\ EventOK(Undelivered[i])
  BY <1>0, EventTyped DEF EventsOK
<1>1. CASE PushRequestEvent
  <2>1. /\ Len(Undelivered') = Len(Undelivered) + 1 /\ Len(Undelivered) \in Nat
        /\ Undelivered'[Len(Undelivered) + 1] = NewEvent
        /\ \A i \in EventIndices : Undelivered'[i] = Undelivered[i]
    BY <1>0, <1>1, PushAddsLast
  <2>2. ~RunCallback
    BY <1>1 DEF PushRequestEvent, RunCallback, workerVars, Transition
  <2>3. PICK q : q = Undelivered'
    OBVIOUS
  <2>4. \A i \in 1 .. Len(q) : i \in EventIndices \/ i = Len(Undelivered) + 1
    BY <2>1, <2>3 DEF EventIndices
  <2>5. ASSUME NEW i \in 1 .. Len(q), NEW e, e = q[i] PROVE EventOK(e)'
    <3>1. CASE i \in EventIndices
      BY <1>a, <1>c, <2>1, <2>2, <2>3, <2>5, <3>1
    <3>2. CASE i = Len(Undelivered) + 1
      BY <1>1, <2>1, <2>3, <2>5, <3>2, NewEventOK
    <3>3. QED
      BY <2>4, <3>1, <3>2
  <2>6. Distinct(q)
    <3>1. \A i \in EventIndices :
             /\ q[i].id # NewEvent.id
             /\ q[i].node # NoNode => q[i].node # NewEvent.node
      BY <1>0, <2>1, <2>3, NewEventDistinct DEF NewEvent
    <3>2. \A i, k \in EventIndices : i # k =>
             q[i].id # q[k].id /\ (q[i].node # NoNode => q[i].node # q[k].node)
      BY <1>0, <2>1, <2>3 DEF Distinct, EventIndices
    <3>3. QED
      BY <2>1, <2>3, <2>4, <3>1, <3>2 DEF Distinct
  <2>7. QED
    BY <1>b, <2>3, <2>5, <2>6
<1>2. CASE RunCallback
  <2>1. /\ Head(batch) = Undelivered[1] /\ Len(Undelivered) \in Nat \ {0}
        /\ \A i \in EventIndices' : i + 1 \in EventIndices /\ Undelivered'[i] = Undelivered[i + 1]
    BY <1>0, <1>2, CallbackTakesFirst
  <2>2. PICK q : q = Undelivered'
    OBVIOUS
  <2>3. \A i \in 1 .. Len(q) : i + 1 \in EventIndices /\ q[i] = Undelivered[i + 1]
    BY <2>1, <2>2 DEF EventIndices
  <2>4. \A i \in 1 .. Len(q) : i \in Nat \ {0} /\ i + 1 # 1
    OBVIOUS
  <2>5. 1 \in EventIndices
    BY <2>1 DEF EventIndices
  <2>6. ASSUME NEW i \in 1 .. Len(q), NEW e, e = q[i] PROVE EventOK(e)'
    <3>1. e \in Events /\ EventOK(e)
      BY <1>c, <2>3, <2>6
    <3>2. e.id # Head(batch).id /\ (e.node # NoNode => e.node # Head(batch).node)
      BY <1>0, <2>1, <2>3, <2>4, <2>5, <2>6 DEF Distinct, EventIndices
    <3>3. QED
      BY <1>a, <3>1, <3>2
  <2>7. Distinct(q)
    BY <1>0, <2>3, <2>4 DEF Distinct, EventIndices
  <2>8. QED
    BY <1>b, <2>2, <2>6, <2>7
<1>3. CASE ResetEvents
  <2>1. Undelivered' = <<>>
    BY <1>0, <1>3, ResetDropsEvents
  <2>2. QED
    BY <1>b, <2>1 DEF Distinct
<1>4. CASE ~PushRequestEvent /\ ~RunCallback /\ ~ResetEvents
  <2>1. Undelivered' = Undelivered
    BY <1>0, <1>4, EventsUnlessMoved
  <2>2. \A i \in 1 .. Len(Undelivered) : \A e : e = Undelivered[i] => EventOK(e)'
    BY <1>a, <1>c, <1>4 DEF EventIndices
  <2>3. QED
    BY <1>0, <1>b, <2>1, <2>2
<1>5. QED
  BY <1>1, <1>2, <1>3, <1>4

LEMMA StepNodes == IInv /\ [Next]_vars => NodeInv'
<1> SUFFICES ASSUME IInv, [Next]_vars PROVE NodeInv'
  OBVIOUS
<1>0. TypeOK /\ WorkerInv /\ FreshInv /\ ResetInv /\ NodeInv /\ EventsOK
  BY DEF IInv
<1>a. nextJsonNodeId \in Nat /\ nextOutgoingRequestId \in Nat
  BY <1>0, BoundsAssumption DEF TypeOK
<1>b. \A n \in jsonNodes \cup scriptNodes : n \in Nat
  BY <1>0, RequestsAreNumbers DEF TypeOK
<1> USE RequestsAreNumbers DEF requestVars, nodeVars, workerVars, mainVars, history, Transition
<1>1. ASSUME NEW r \in Requests, PickRequest(r) PROVE NodeInv'
  BY <1>0, <1>1, <1>a, <1>b DEF PickRequest, TypeOK, WorkerInv, FreshInv, NodeInv, NoRequest,
     NoNode, Present
<1>2. CASE CopyRequest
  BY <1>0, <1>2, <1>a, <1>b DEF CopyRequest, TypeOK, WorkerInv, FreshInv, NodeInv, NoRequest,
     NoNode, Present
<1>3. CASE CheckBeforeSend
  BY <1>0, <1>3, <1>a, <1>b DEF CheckBeforeSend, TypeOK, WorkerInv, FreshInv, NodeInv,
     NoRequest, NoNode, Present
<1>4. CASE FailTls
  BY <1>0, <1>4, <1>a, <1>b DEF FailTls, TypeOK, WorkerInv, FreshInv, NodeInv, NoRequest,
     NoNode, Present
<1>5. CASE DispatchOutgoingRequest
  BY <1>0, <1>5, <1>a, <1>b DEF DispatchOutgoingRequest, TypeOK, WorkerInv, FreshInv, NodeInv,
     NoRequest, NoNode, Present
<1>6. CASE CheckAfterSend
  BY <1>0, <1>6, <1>a, <1>b DEF CheckAfterSend, TypeOK, WorkerInv, FreshInv, NodeInv, NoRequest,
     NoNode, Present
<1>7. CASE StoreJsonNode
  BY <1>0, <1>7, <1>a, <1>b DEF StoreJsonNode, TypeOK, WorkerInv, FreshInv, NodeInv, NoRequest,
     NoNode, Present
<1>8. CASE CompleteRequest
  BY <1>0, <1>8, <1>a, <1>b DEF CompleteRequest, TypeOK, WorkerInv, FreshInv, NodeInv,
     NoRequest, NoNode, Present
<1>9. CASE FailOutgoingRequest
  BY <1>0, <1>9, <1>a, <1>b DEF FailOutgoingRequest, TypeOK, WorkerInv, FreshInv, NodeInv,
     NoRequest, NoNode, Present
<1>10. CASE PushRequestEvent
  BY <1>0, <1>10, <1>a, <1>b DEF PushRequestEvent, TypeOK, WorkerInv, FreshInv, NodeInv,
     NoRequest, NoNode, Present
<1>11. CASE WorkerExit
  BY <1>0, <1>11, <1>a, <1>b DEF WorkerExit, TypeOK, WorkerInv, FreshInv, NodeInv, NoRequest,
     NoNode, Present
<1>12. ASSUME NEW json \in BOOLEAN, QueueOutboundRequest(json) PROVE NodeInv'
  BY <1>0, <1>12, <1>a, <1>b DEF QueueOutboundRequest, TypeOK, WorkerInv, FreshInv, NodeInv,
     NoRequest, NoNode, Present
<1>13. ASSUME NEW r \in Requests, CancelOutboundRequest(r) PROVE NodeInv'
  BY <1>0, <1>13, <1>a, <1>b DEF CancelOutboundRequest, TypeOK, WorkerInv, FreshInv, NodeInv,
     NoRequest, NoNode, Present
<1>14. ASSUME NEW n \in NodeIds, ReleaseJsonNode(n) PROVE NodeInv'
  BY <1>0, <1>14, <1>a, <1>b DEF ReleaseJsonNode, TypeOK, WorkerInv, FreshInv, NodeInv,
     NoRequest, NoNode, Present
<1>15. CASE DrainEvents
  BY <1>0, <1>15, <1>a, <1>b DEF DrainEvents, TypeOK, WorkerInv, FreshInv, NodeInv, NoRequest,
     NoNode, Present
<1>16. CASE RunCallback
  <2>1. /\ Head(batch).node # NoNode =>
              Head(batch).node < nextJsonNodeId /\ Head(batch).node # nodeId
    BY <1>0, <1>16, FirstEvent DEF EventOK
  <2>2. QED
    BY <1>0, <1>16, <1>a, <1>b, <2>1 DEF RunCallback, TypeOK, WorkerInv, FreshInv, NodeInv,
       NoRequest, NoNode, Present
<1>17. CASE ResetEvents
  BY <1>0, <1>17, <1>a, <1>b DEF ResetEvents, TypeOK, WorkerInv, FreshInv, NodeInv, NoRequest,
     NoNode, Present
<1>18. CASE ResetRequests
  BY <1>0, <1>18, <1>a, <1>b DEF ResetRequests, TypeOK, WorkerInv, FreshInv, NodeInv, NoRequest,
     NoNode, Present
<1>19. CASE ResetNodes
  BY <1>0, <1>19, <1>a, <1>b DEF ResetNodes, ResetInv, TypeOK, WorkerInv, FreshInv, NodeInv,
     NoRequest, NoNode, Present
<1>20. CASE StopWorker
  BY <1>0, <1>20, <1>a, <1>b DEF StopWorker, TypeOK, WorkerInv, FreshInv, NodeInv, NoRequest,
     NoNode, Present
<1>21. CASE JoinWorker
  BY <1>0, <1>21, <1>a, <1>b DEF JoinWorker, TypeOK, WorkerInv, FreshInv, NodeInv, NoRequest,
     NoNode, Present
<1>22. CASE UNCHANGED vars
  BY <1>0, <1>22, <1>a, <1>b DEF vars, TypeOK, WorkerInv, FreshInv, NodeInv, NoRequest, NoNode,
     Present
<1>23. QED
  BY <1>1, <1>2, <1>3, <1>4, <1>5, <1>6, <1>7, <1>8, <1>9, <1>10, <1>11, <1>12, <1>13,
     <1>14, <1>15, <1>16, <1>17, <1>18, <1>19, <1>20, <1>21, <1>22
     DEF Next, Worker, Main, Script, Reset

\* Only a store uses up a request that has not stored yet.
LEMMA StoredGrows == IInv /\ [Next]_vars /\ ~StoreJsonNode => Stored \subseteq Stored'
<1> SUFFICES ASSUME IInv, ~StoreJsonNode, [Next]_vars PROVE Stored \subseteq Stored'
  OBVIOUS
<1>0. TypeOK /\ WorkerInv /\ ~StoreJsonNode
  BY DEF IInv
<1> USE RequestsAreNumbers DEF requestVars, nodeVars, workerVars, mainVars, history, Transition
<1>1. ASSUME NEW r \in Requests, PickRequest(r) PROVE Stored \subseteq Stored'
  BY <1>0, <1>1 DEF PickRequest, TypeOK, WorkerInv, Stored, Storing, Spent
<1>2. CASE CopyRequest
  BY <1>0, <1>2 DEF CopyRequest, TypeOK, WorkerInv, Stored, Storing, Spent
<1>3. CASE CheckBeforeSend
  BY <1>0, <1>3 DEF CheckBeforeSend, TypeOK, WorkerInv, Stored, Storing, Spent
<1>4. CASE FailTls
  BY <1>0, <1>4 DEF FailTls, TypeOK, WorkerInv, Stored, Storing, Spent
<1>5. CASE DispatchOutgoingRequest
  BY <1>0, <1>5 DEF DispatchOutgoingRequest, TypeOK, WorkerInv, Stored, Storing, Spent
<1>6. CASE CheckAfterSend
  BY <1>0, <1>6 DEF CheckAfterSend, TypeOK, WorkerInv, Stored, Storing, Spent
<1>7. CASE StoreJsonNode
  BY <1>0, <1>7
<1>8. CASE CompleteRequest
  BY <1>0, <1>8 DEF CompleteRequest, TypeOK, WorkerInv, Stored, Storing, Spent
<1>9. CASE FailOutgoingRequest
  BY <1>0, <1>9 DEF FailOutgoingRequest, TypeOK, WorkerInv, Stored, Storing, Spent
<1>10. CASE PushRequestEvent
  BY <1>0, <1>10 DEF PushRequestEvent, TypeOK, WorkerInv, Stored, Storing, Spent
<1>11. CASE WorkerExit
  BY <1>0, <1>11 DEF WorkerExit, TypeOK, WorkerInv, Stored, Storing, Spent
<1>12. ASSUME NEW json \in BOOLEAN, QueueOutboundRequest(json) PROVE Stored \subseteq Stored'
  <2>1. nextOutgoingRequestId \in Nat /\ nextOutgoingRequestId' = nextOutgoingRequestId + 1
    BY <1>0, <1>12, BoundsAssumption DEF QueueOutboundRequest, TypeOK
  <2>2. \A r \in Requests : r \in Nat
    OBVIOUS
  <2>3. \A r \in Requests : r < nextOutgoingRequestId =>
           r < nextOutgoingRequestId' /\ outgoingRequests'[r] = outgoingRequests[r]
    BY <1>0, <1>12, <2>1, <2>2 DEF QueueOutboundRequest, TypeOK
  <2>4. pc' = pc /\ job' = job
    BY <1>12 DEF QueueOutboundRequest
  <2>5. QED
    BY <2>3, <2>4 DEF Stored, Storing, Spent
<1>13. ASSUME NEW r \in Requests, CancelOutboundRequest(r) PROVE Stored \subseteq Stored'
  BY <1>0, <1>13 DEF CancelOutboundRequest, TypeOK, WorkerInv, Stored, Storing, Spent
<1>14. ASSUME NEW n \in NodeIds, ReleaseJsonNode(n) PROVE Stored \subseteq Stored'
  BY <1>0, <1>14 DEF ReleaseJsonNode, TypeOK, WorkerInv, Stored, Storing, Spent
<1>15. CASE DrainEvents
  BY <1>0, <1>15 DEF DrainEvents, TypeOK, WorkerInv, Stored, Storing, Spent
<1>16. CASE RunCallback
  BY <1>0, <1>16 DEF RunCallback, TypeOK, WorkerInv, Stored, Storing, Spent
<1>17. CASE ResetEvents
  BY <1>0, <1>17 DEF ResetEvents, TypeOK, WorkerInv, Stored, Storing, Spent
<1>18. CASE ResetRequests
  BY <1>0, <1>18 DEF ResetRequests, TypeOK, WorkerInv, Stored, Storing, Spent
<1>19. CASE ResetNodes
  BY <1>0, <1>19 DEF ResetNodes, TypeOK, WorkerInv, Stored, Storing, Spent
<1>20. CASE StopWorker
  BY <1>0, <1>20 DEF StopWorker, TypeOK, WorkerInv, Stored, Storing, Spent
<1>21. CASE JoinWorker
  BY <1>0, <1>21 DEF JoinWorker, TypeOK, WorkerInv, Stored, Storing, Spent
<1>22. CASE UNCHANGED vars
  BY <1>0, <1>22 DEF vars, TypeOK, WorkerInv, Stored, Storing, Spent
<1>23. QED
  BY <1>1, <1>2, <1>3, <1>4, <1>5, <1>6, <1>7, <1>8, <1>9, <1>10, <1>11, <1>12, <1>13,
     <1>14, <1>15, <1>16, <1>17, <1>18, <1>19, <1>20, <1>21, <1>22
     DEF Next, Worker, Main, Script, Reset

LEMMA StepCount == IInv /\ [Next]_vars => NodeCount'
<1> SUFFICES ASSUME IInv, [Next]_vars PROVE NodeCount'
  OBVIOUS
<1>0. TypeOK /\ WorkerInv /\ FreshInv /\ NodeCount
  BY DEF IInv
<1>1. nextJsonNodeId \in Nat
  BY <1>0, BoundsAssumption DEF TypeOK
<1>2. CASE StoreJsonNode
  <2>1. nextJsonNodeId + 1 <= Cardinality(Spent) + 1
    BY <1>0, <1>2, StoreHasRequest
  <2>2. Stored' = Spent
    BY <1>2 DEF StoreJsonNode, Transition, requestVars, Stored, Storing, Spent
  <2>3. nextJsonNodeId' = nextJsonNodeId + 1
    BY <1>2 DEF StoreJsonNode
  <2>4. QED
    BY <2>1, <2>2, <2>3 DEF NodeCount
<1>3. CASE ~StoreJsonNode
  <2>1. Stored \in SUBSET Stored'
    BY <1>3, StoredGrows
  <2>2. nextJsonNodeId' = nextJsonNodeId
    BY <1>3 DEF Next, Worker, Main, Script, Reset, vars, nodeVars, PickRequest, CopyRequest,
       CheckBeforeSend, FailTls, DispatchOutgoingRequest, CheckAfterSend, CompleteRequest,
       FailOutgoingRequest, PushRequestEvent, WorkerExit, QueueOutboundRequest,
       CancelOutboundRequest, ReleaseJsonNode, DrainEvents, RunCallback, ResetEvents,
       ResetRequests, ResetNodes, StopWorker, JoinWorker
  <2>3. IsFiniteSet(Stored') /\ Cardinality(Stored') \in Nat
    <3>1. Stored' \in SUBSET Requests
      BY DEF Stored, Spent
    <3>2. IsFiniteSet(Requests)
      BY BoundsAssumption, FS_Interval DEF Requests
    <3>3. QED
      BY <3>1, <3>2, FS_Subset, FS_CardinalityType
  <2>4. Cardinality(Stored) <= Cardinality(Stored')
    BY <2>1, <2>3, FS_Subset
  <2>5. QED
    BY <1>0, <1>1, <2>2, <2>3, <2>4, StoredBounded, BoundsAssumption DEF NodeCount
<1>4. QED
  BY <1>2, <1>3

\* An event stays on its way until its callback has run; no callback is
\* lost but by a reset.
Carried(n) == \E i \in EventIndices : Undelivered[i].node = n
LEMMA EventsArrive ==
  ASSUME IInv, [Next]_vars, ~ResetEvents
  PROVE  /\ \A r \in Requests : HasEvent(r) => HasEvent(r)' \/ told'[r] # "nothing"
         /\ \A n \in NodeIds : Carried(n) => Carried(n)' \/ n \in scriptNodes'
         /\ PushRequestEvent => /\ \A r : r = job => HasEvent(r)'
                                /\ \A n : n = nodeId => Carried(n)'
<1>0. TypeOK /\ WorkerInv /\ EventsOK
  BY DEF IInv
<1>1. CASE PushRequestEvent
  <2>1. /\ Len(Undelivered) \in Nat /\ Len(Undelivered') = Len(Undelivered) + 1
        /\ Undelivered'[Len(Undelivered) + 1] = NewEvent
        /\ \A i \in EventIndices : i \in EventIndices' /\ Undelivered'[i] = Undelivered[i]
    BY <1>0, <1>1, PushAddsLast
  <2>2. Len(Undelivered) + 1 \in EventIndices'
    BY <2>1 DEF EventIndices
  <2>3. NewEvent.id = job /\ NewEvent.node = nodeId
    BY DEF NewEvent
  <2>4. QED
    BY <2>1, <2>2, <2>3 DEF HasEvent, Carried
<1>2. CASE RunCallback
  <2>1. /\ Head(batch) = Undelivered[1] /\ Len(Undelivered) \in Nat \ {0}
        /\ Len(Undelivered') = Len(Undelivered) - 1
        /\ \A i \in EventIndices' : Undelivered'[i] = Undelivered[i + 1]
    BY <1>0, <1>2, CallbackTakesFirst
  <2>2. ASSUME NEW i \in EventIndices, i # 1
        PROVE  \E k \in EventIndices' : Undelivered'[k] = Undelivered[i]
    <3>1. i - 1 \in EventIndices' /\ (i - 1) + 1 = i
      BY <2>1, <2>2 DEF EventIndices
    <3>2. QED
      BY <2>1, <3>1
  <2>3. /\ Head(batch).id \in Requests /\ Head(batch).outcome \in Outcomes
    BY <1>0, <1>2, FirstEvent DEF Events
  <2>4. told'[Head(batch).id] # "nothing"
    BY <1>0, <1>2, <2>3 DEF RunCallback, TypeOK, Outcomes
  <2>5. \A n \in NodeIds : n = Head(batch).node => n \in scriptNodes'
    BY <1>2, RequestsAreNumbers DEF RunCallback
  <2>6. ~PushRequestEvent
    BY <1>2 DEF PushRequestEvent, RunCallback, Transition, workerVars
  <2>7. QED
    BY <2>1, <2>2, <2>4, <2>5, <2>6 DEF HasEvent, Carried
<1>3. CASE ~PushRequestEvent /\ ~RunCallback
  <2>1. Undelivered' = Undelivered
    BY <1>0, <1>3, EventsUnlessMoved
  <2>2. QED
    BY <1>3, <2>1 DEF HasEvent, Carried, EventIndices
<1>4. QED
  BY <1>1, <1>2, <1>3

LEMMA StepSilent == IInv /\ [Next]_vars => NoSilentOutcome'
<1> SUFFICES ASSUME IInv, [Next]_vars PROVE NoSilentOutcome'
  OBVIOUS
<1>0. TypeOK /\ WorkerInv /\ NoSilentOutcome /\ EventsOK
  BY DEF IInv
<1>a. \A r \in Requests : ~ResetEvents /\ HasEvent(r) => HasEvent(r)' \/ told'[r] # "nothing"
  BY EventsArrive
<1>b. \A r \in Requests : ~ResetEvents /\ PushRequestEvent /\ r = job => HasEvent(r)'
  BY EventsArrive
<1>c. ResetEvents => mpc' = "resetRequests"
  BY DEF ResetEvents
<1> USE RequestsAreNumbers DEF requestVars, nodeVars, workerVars, mainVars, history, Transition
<1>1. ASSUME NEW r \in Requests, PickRequest(r) PROVE NoSilentOutcome'
  BY <1>0, <1>1, <1>a, <1>b, <1>c DEF PickRequest, TypeOK, WorkerInv,
     NoSilentOutcome, NoRequest, Outcomes, Present
<1>2. CASE CopyRequest
  BY <1>0, <1>2, <1>a, <1>b, <1>c DEF CopyRequest, TypeOK, WorkerInv,
     NoSilentOutcome, NoRequest, Outcomes, Present
<1>3. CASE CheckBeforeSend
  BY <1>0, <1>3, <1>a, <1>b, <1>c DEF CheckBeforeSend, TypeOK, WorkerInv,
     NoSilentOutcome, NoRequest, Outcomes, Present
<1>4. CASE FailTls
  BY <1>0, <1>4, <1>a, <1>b, <1>c DEF FailTls, TypeOK, WorkerInv,
     NoSilentOutcome, NoRequest, Outcomes, Present
<1>5. CASE DispatchOutgoingRequest
  BY <1>0, <1>5, <1>a, <1>b, <1>c DEF DispatchOutgoingRequest, TypeOK, WorkerInv,
     NoSilentOutcome, NoRequest, Outcomes, Present
<1>6. CASE CheckAfterSend
  BY <1>0, <1>6, <1>a, <1>b, <1>c DEF CheckAfterSend, TypeOK, WorkerInv,
     NoSilentOutcome, NoRequest, Outcomes, Present
<1>7. CASE StoreJsonNode
  BY <1>0, <1>7, <1>a, <1>b, <1>c DEF StoreJsonNode, TypeOK, WorkerInv,
     NoSilentOutcome, NoRequest, Outcomes, Present
<1>8. CASE CompleteRequest
  BY <1>0, <1>8, <1>a, <1>b, <1>c DEF CompleteRequest, TypeOK, WorkerInv,
     NoSilentOutcome, NoRequest, Outcomes, Present
<1>9. CASE FailOutgoingRequest
  BY <1>0, <1>9, <1>a, <1>b, <1>c DEF FailOutgoingRequest, TypeOK, WorkerInv,
     NoSilentOutcome, NoRequest, Outcomes, Present
<1>10. CASE PushRequestEvent
  BY <1>0, <1>10, <1>a, <1>b, <1>c DEF PushRequestEvent, TypeOK, WorkerInv,
     NoSilentOutcome, NoRequest, Outcomes, Present
<1>11. CASE WorkerExit
  BY <1>0, <1>11, <1>a, <1>b, <1>c DEF WorkerExit, TypeOK, WorkerInv,
     NoSilentOutcome, NoRequest, Outcomes, Present
<1>12. ASSUME NEW json \in BOOLEAN, QueueOutboundRequest(json) PROVE NoSilentOutcome'
  <2>1. /\ mpc = "script" /\ nextOutgoingRequestId \in Requests
        /\ outgoingRequests' = [outgoingRequests EXCEPT ![nextOutgoingRequestId] = "Pending"]
        /\ UNCHANGED <<told, pc, job, mpc>>
    BY <1>0, <1>12, BoundsAssumption DEF QueueOutboundRequest, TypeOK, Requests
  <2>2. ~ResetEvents
    BY <1>c, <2>1
  <2>3. \A r \in Requests :
           outgoingRequests'[r] # "Pending" => outgoingRequests'[r] = outgoingRequests[r]
    BY <1>0, <2>1 DEF TypeOK
  <2>4. QED
    BY <1>0, <1>a, <2>1, <2>2, <2>3 DEF NoSilentOutcome
<1>13. ASSUME NEW r \in Requests, CancelOutboundRequest(r) PROVE NoSilentOutcome'
  BY <1>0, <1>13, <1>a, <1>b, <1>c DEF CancelOutboundRequest, TypeOK, WorkerInv,
     NoSilentOutcome, NoRequest, Outcomes, Present
<1>14. ASSUME NEW n \in NodeIds, ReleaseJsonNode(n) PROVE NoSilentOutcome'
  BY <1>0, <1>14, <1>a, <1>b, <1>c DEF ReleaseJsonNode, TypeOK, WorkerInv,
     NoSilentOutcome, NoRequest, Outcomes, Present
<1>15. CASE DrainEvents
  BY <1>0, <1>15, <1>a, <1>b, <1>c DEF DrainEvents, TypeOK, WorkerInv,
     NoSilentOutcome, NoRequest, Outcomes, Present
<1>16. CASE RunCallback
  <2>1. /\ mpc = "script" /\ UNCHANGED <<outgoingRequests, pc, job, mpc>>
        /\ told' = [told EXCEPT ![Head(batch).id] = Head(batch).outcome]
    BY <1>16 DEF RunCallback
  <2>2. ~ResetEvents
    BY <1>c, <2>1
  <2>3. Head(batch).outcome # "nothing"
    BY <1>0, <1>16, FirstEvent DEF Events, Outcomes, IInv
  <2>4. \A r \in Requests : told[r] # "nothing" => told'[r] # "nothing"
    BY <1>0, <2>1, <2>3 DEF TypeOK
  <2>5. QED
    BY <1>0, <1>a, <2>1, <2>2, <2>4 DEF NoSilentOutcome
<1>17. CASE ResetEvents
  BY <1>0, <1>17, <1>a, <1>b, <1>c DEF ResetEvents, TypeOK, WorkerInv,
     NoSilentOutcome, NoRequest, Outcomes, Present
<1>18. CASE ResetRequests
  BY <1>0, <1>18, <1>a, <1>b, <1>c DEF ResetRequests, TypeOK, WorkerInv,
     NoSilentOutcome, NoRequest, Outcomes, Present
<1>19. CASE ResetNodes
  BY <1>0, <1>19, <1>a, <1>b, <1>c DEF ResetNodes, TypeOK, WorkerInv,
     NoSilentOutcome, NoRequest, Outcomes, Present
<1>20. CASE StopWorker
  BY <1>0, <1>20, <1>a, <1>b, <1>c DEF StopWorker, TypeOK, WorkerInv,
     NoSilentOutcome, NoRequest, Outcomes, Present
<1>21. CASE JoinWorker
  BY <1>0, <1>21, <1>a, <1>b, <1>c DEF JoinWorker, TypeOK, WorkerInv,
     NoSilentOutcome, NoRequest, Outcomes, Present
<1>22. CASE UNCHANGED vars
  BY <1>0, <1>22, <1>a, <1>b, <1>c DEF vars, TypeOK, WorkerInv,
     NoSilentOutcome, NoRequest, Outcomes, Present
<1>23. QED
  BY <1>1, <1>2, <1>3, <1>4, <1>5, <1>6, <1>7, <1>8, <1>9, <1>10, <1>11, <1>12, <1>13,
     <1>14, <1>15, <1>16, <1>17, <1>18, <1>19, <1>20, <1>21, <1>22
     DEF Next, Worker, Main, Script, Reset

LEMMA StepOwned == IInv /\ [Next]_vars => NodesOwned'
<1> SUFFICES ASSUME IInv, [Next]_vars PROVE NodesOwned'
  OBVIOUS
<1>0. TypeOK /\ WorkerInv
  BY DEF IInv
<1>a. \A n \in NodeIds : ~ResetEvents /\ Carried(n) => Carried(n)' \/ n \in scriptNodes'
  BY EventsArrive
<1>b. \A n : ~ResetEvents /\ PushRequestEvent /\ n = nodeId => Carried(n)'
  BY EventsArrive
<1>c. ResetEvents => mpc' = "resetRequests"
  BY DEF ResetEvents
<1>d. mpc \notin {"resetRequests", "resetNodes"} =>
         \A n \in jsonNodes : n \in scriptNodes \/ n = nodeId \/ Carried(n)
  BY DEF IInv, NodesOwned, Carried
<1>e. SUFFICES mpc' \notin {"resetRequests", "resetNodes"} =>
         \A n \in jsonNodes' : n \in scriptNodes' \/ n = nodeId' \/ Carried(n)'
  BY DEF NodesOwned, Carried
<1> DEFINE Goal == mpc' \notin {"resetRequests", "resetNodes"} =>
         \A n \in jsonNodes' : n \in scriptNodes' \/ n = nodeId' \/ Carried(n)'
<1> USE RequestsAreNumbers DEF requestVars, nodeVars, workerVars, mainVars, history, Transition
<1>1. ASSUME NEW r \in Requests, PickRequest(r) PROVE Goal
  BY <1>0, <1>1, <1>a, <1>b, <1>c, <1>d DEF PickRequest, TypeOK, WorkerInv
<1>2. CASE CopyRequest
  BY <1>0, <1>2, <1>a, <1>b, <1>c, <1>d DEF CopyRequest, TypeOK, WorkerInv
<1>3. CASE CheckBeforeSend
  BY <1>0, <1>3, <1>a, <1>b, <1>c, <1>d DEF CheckBeforeSend, TypeOK, WorkerInv
<1>4. CASE FailTls
  BY <1>0, <1>4, <1>a, <1>b, <1>c, <1>d DEF FailTls, TypeOK, WorkerInv
<1>5. CASE DispatchOutgoingRequest
  BY <1>0, <1>5, <1>a, <1>b, <1>c, <1>d DEF DispatchOutgoingRequest, TypeOK, WorkerInv
<1>6. CASE CheckAfterSend
  BY <1>0, <1>6, <1>a, <1>b, <1>c, <1>d DEF CheckAfterSend, TypeOK, WorkerInv
<1>7. CASE StoreJsonNode
  BY <1>0, <1>7, <1>a, <1>b, <1>c, <1>d DEF StoreJsonNode, TypeOK, WorkerInv
<1>8. CASE CompleteRequest
  BY <1>0, <1>8, <1>a, <1>b, <1>c, <1>d DEF CompleteRequest, TypeOK, WorkerInv
<1>9. CASE FailOutgoingRequest
  BY <1>0, <1>9, <1>a, <1>b, <1>c, <1>d DEF FailOutgoingRequest, TypeOK, WorkerInv
<1>10. CASE PushRequestEvent
  BY <1>0, <1>10, <1>a, <1>b, <1>c, <1>d DEF PushRequestEvent, TypeOK, WorkerInv
<1>11. CASE WorkerExit
  BY <1>0, <1>11, <1>a, <1>b, <1>c, <1>d DEF WorkerExit, TypeOK, WorkerInv
<1>12. ASSUME NEW json \in BOOLEAN, QueueOutboundRequest(json) PROVE Goal
  BY <1>0, <1>12, <1>a, <1>b, <1>c, <1>d DEF QueueOutboundRequest, TypeOK, WorkerInv
<1>13. ASSUME NEW r \in Requests, CancelOutboundRequest(r) PROVE Goal
  BY <1>0, <1>13, <1>a, <1>b, <1>c, <1>d DEF CancelOutboundRequest, TypeOK, WorkerInv
<1>14. ASSUME NEW n \in NodeIds, ReleaseJsonNode(n) PROVE Goal
  BY <1>0, <1>14, <1>a, <1>b, <1>c, <1>d DEF ReleaseJsonNode, TypeOK, WorkerInv
<1>15. CASE DrainEvents
  BY <1>0, <1>15, <1>a, <1>b, <1>c, <1>d DEF DrainEvents, TypeOK, WorkerInv
<1>16. CASE RunCallback
  BY <1>0, <1>16, <1>a, <1>b, <1>c, <1>d DEF RunCallback, TypeOK, WorkerInv
<1>17. CASE ResetEvents
  BY <1>0, <1>17, <1>a, <1>b, <1>c, <1>d DEF ResetEvents, TypeOK, WorkerInv
<1>18. CASE ResetRequests
  BY <1>0, <1>18, <1>a, <1>b, <1>c, <1>d DEF ResetRequests, TypeOK, WorkerInv
<1>19. CASE ResetNodes
  BY <1>0, <1>19, <1>a, <1>b, <1>c, <1>d DEF ResetNodes, TypeOK, WorkerInv
<1>20. CASE StopWorker
  BY <1>0, <1>20, <1>a, <1>b, <1>c, <1>d DEF StopWorker, TypeOK, WorkerInv
<1>21. CASE JoinWorker
  BY <1>0, <1>21, <1>a, <1>b, <1>c, <1>d DEF JoinWorker, TypeOK, WorkerInv
<1>22. CASE UNCHANGED vars
  BY <1>0, <1>22, <1>a, <1>b, <1>c, <1>d DEF vars, TypeOK, WorkerInv
<1>23. QED
  BY <1>1, <1>2, <1>3, <1>4, <1>5, <1>6, <1>7, <1>8, <1>9, <1>10, <1>11, <1>12, <1>13,
     <1>14, <1>15, <1>16, <1>17, <1>18, <1>19, <1>20, <1>21, <1>22
     DEF Next, Worker, Main, Script, Reset

-----------------------------------------------------------------------------
(* The theorems.                                                           *)

LEMMA StepIInv == IInv /\ [Next]_vars => IInv'
<1> SUFFICES ASSUME IInv, [Next]_vars PROVE IInv'
  OBVIOUS
<1>1. TypeOK' /\ WorkerInv' /\ (FreshInv /\ ResetInv)' /\ RequestInv'
  BY StepType, StepWorker, StepFresh, StepRequest
<1>2. (EventsOK /\ Distinct(Undelivered))' /\ NodeInv' /\ NodeCount'
  BY StepEvents, StepNodes, StepCount
<1>3. NoSilentOutcome' /\ NodesOwned'
  BY StepSilent, StepOwned
<1>4. QED
  BY <1>1, <1>2, <1>3 DEF IInv

\* The invariant holds of every reachable state, whatever the bounds.
THEOREM InvariantHolds == Spec => []IInv
<1>1. IInv /\ [Next]_vars => IInv'
  BY StepIInv
<1>2. QED
  BY InitInv, <1>1, PTL DEF Spec

\* Every variable keeps its type; in particular no more nodes are stored
\* than requests were queued.
THEOREM TypeCorrect == Spec => []TypeOK
<1>1. IInv => TypeOK
  BY DEF IInv
<1>2. QED
  BY InvariantHolds, <1>1, PTL

\* What the status natives say and what the callbacks say agree.
THEOREM StatusAgrees == Spec => []StatusMatchesCallback
<1>1. IInv => StatusMatchesCallback
  <2> SUFFICES ASSUME IInv PROVE StatusMatchesCallback
    OBVIOUS
  <2>1. QueuedOutcomesMatch
    BY DEF IInv, EventsOK, EventOK, QueuedOutcomesMatch
  <2>2. QED
    BY <2>1 DEF IInv, RequestInv, StatusMatchesCallback
<1>2. QED
  BY InvariantHolds, <1>1, PTL

\* The handle of a response node is never lost and never doubled.
THEOREM NodesChangeHands == Spec => []NodeCustody
<1>1. IInv => NodeCustody
  <2> SUFFICES ASSUME IInv PROVE NodeCustody
    OBVIOUS
  <2>1. EventNodesLive
    BY DEF IInv, EventsOK, EventOK, Distinct, EventIndices, EventNodesLive
  <2>2. QED
    BY <2>1 DEF IInv, NodeCustody
<1>2. QED
  BY InvariantHolds, <1>1, PTL

\* A settled request keeps its status; a cancelled one can only be settled
\* by the exchange that had passed its last test of the token.
SettledStep ==
    \A r \in Requests :
        /\ outgoingRequests[r] \in {"Completed", "Failed"} =>
              outgoingRequests'[r] \in {outgoingRequests[r], "absent"}
        /\ outgoingRequests[r] = "Cancelled" /\ outgoingRequests'[r] # "Cancelled" =>
              \/ outgoingRequests'[r] = "absent"
              \/ job = r /\ (pc = "complete" \/ (pc = "fail" /\ outcome = "failed"))

LEMMA StepSettled == IInv /\ [Next]_vars => SettledStep
<1> SUFFICES ASSUME IInv, [Next]_vars PROVE SettledStep
  OBVIOUS
<1>0. TypeOK /\ WorkerInv /\ FreshInv
  BY DEF IInv
<1> USE RequestsAreNumbers DEF requestVars, nodeVars, workerVars, mainVars, history, Transition
<1>1. ASSUME NEW r \in Requests, PickRequest(r) PROVE SettledStep
  BY <1>0, <1>1 DEF PickRequest, TypeOK,
     WorkerInv, FreshInv, SettledStep, NoRequest
<1>2. CASE CopyRequest
  BY <1>0, <1>2 DEF CopyRequest, TypeOK,
     WorkerInv, FreshInv, SettledStep, NoRequest
<1>3. CASE CheckBeforeSend
  BY <1>0, <1>3 DEF CheckBeforeSend, TypeOK,
     WorkerInv, FreshInv, SettledStep, NoRequest
<1>4. CASE FailTls
  BY <1>0, <1>4 DEF FailTls, TypeOK,
     WorkerInv, FreshInv, SettledStep, NoRequest
<1>5. CASE DispatchOutgoingRequest
  BY <1>0, <1>5 DEF DispatchOutgoingRequest, TypeOK,
     WorkerInv, FreshInv, SettledStep, NoRequest
<1>6. CASE CheckAfterSend
  BY <1>0, <1>6 DEF CheckAfterSend, TypeOK,
     WorkerInv, FreshInv, SettledStep, NoRequest
<1>7. CASE StoreJsonNode
  BY <1>0, <1>7 DEF StoreJsonNode, TypeOK,
     WorkerInv, FreshInv, SettledStep, NoRequest
<1>8. CASE CompleteRequest
  BY <1>0, <1>8 DEF CompleteRequest, TypeOK,
     WorkerInv, FreshInv, SettledStep, NoRequest
<1>9. CASE FailOutgoingRequest
  BY <1>0, <1>9 DEF FailOutgoingRequest, TypeOK,
     WorkerInv, FreshInv, SettledStep, NoRequest
<1>10. CASE PushRequestEvent
  BY <1>0, <1>10 DEF PushRequestEvent, TypeOK,
     WorkerInv, FreshInv, SettledStep, NoRequest
<1>11. CASE WorkerExit
  BY <1>0, <1>11 DEF WorkerExit, TypeOK,
     WorkerInv, FreshInv, SettledStep, NoRequest
<1>12. ASSUME NEW json \in BOOLEAN, QueueOutboundRequest(json) PROVE SettledStep
  BY <1>0, <1>12 DEF QueueOutboundRequest, TypeOK,
     WorkerInv, FreshInv, SettledStep, NoRequest
<1>13. ASSUME NEW r \in Requests, CancelOutboundRequest(r) PROVE SettledStep
  BY <1>0, <1>13 DEF CancelOutboundRequest, TypeOK,
     WorkerInv, FreshInv, SettledStep, NoRequest
<1>14. ASSUME NEW n \in NodeIds, ReleaseJsonNode(n) PROVE SettledStep
  BY <1>0, <1>14 DEF ReleaseJsonNode, TypeOK,
     WorkerInv, FreshInv, SettledStep, NoRequest
<1>15. CASE DrainEvents
  BY <1>0, <1>15 DEF DrainEvents, TypeOK,
     WorkerInv, FreshInv, SettledStep, NoRequest
<1>16. CASE RunCallback
  BY <1>0, <1>16 DEF RunCallback, TypeOK,
     WorkerInv, FreshInv, SettledStep, NoRequest
<1>17. CASE ResetEvents
  BY <1>0, <1>17 DEF ResetEvents, TypeOK,
     WorkerInv, FreshInv, SettledStep, NoRequest
<1>18. CASE ResetRequests
  BY <1>0, <1>18 DEF ResetRequests, TypeOK,
     WorkerInv, FreshInv, SettledStep, NoRequest
<1>19. CASE ResetNodes
  BY <1>0, <1>19 DEF ResetNodes, TypeOK,
     WorkerInv, FreshInv, SettledStep, NoRequest
<1>20. CASE StopWorker
  BY <1>0, <1>20 DEF StopWorker, TypeOK,
     WorkerInv, FreshInv, SettledStep, NoRequest
<1>21. CASE JoinWorker
  BY <1>0, <1>21 DEF JoinWorker, TypeOK,
     WorkerInv, FreshInv, SettledStep, NoRequest
<1>22. CASE UNCHANGED vars
  BY <1>0, <1>22 DEF vars, TypeOK,
     WorkerInv, FreshInv, SettledStep, NoRequest
<1>23. QED
  BY <1>1, <1>2, <1>3, <1>4, <1>5, <1>6, <1>7, <1>8, <1>9, <1>10, <1>11, <1>12, <1>13,
     <1>14, <1>15, <1>16, <1>17, <1>18, <1>19, <1>20, <1>21, <1>22
     DEF Next, Worker, Main, Script, Reset

\* Completed and failed are final until a reset; a cancelled request changes
\* only if its exchange had passed the last test of the token.
THEOREM SettledRequestsStay == Spec => SettledStays
<1>1. IInv /\ [Next]_vars => [SettledStep]_vars
  BY StepSettled
<1>2. QED
  BY InvariantHolds, <1>1, PTL DEF Spec, SettledStays, SettledStep

-----------------------------------------------------------------------------
(* The refinement.                                                         *)

\* The abstract state at the beginning, and which abstract step a step is.
LEMMA JobsInit == Init => Jobs!Init
<1> SUFFICES ASSUME Init PROVE Jobs!Init
  OBVIOUS
<1>1. Undelivered = <<>>
  BY EmptySeq, ConcatEmptySeq DEF Init, Undelivered
<1>2. IdsOf(Undelivered) = <<>>
  BY <1>1 DEF IdsOf
<1>3. QED
  BY <1>2, RequestsAreNumbers DEF Init, Jobs!Init

\* The ids of the events, when one is pushed and when one is taken.
LEMMA IdsTyped ==
  ASSUME NEW q \in Seq(Events)
  PROVE  /\ IdsOf(q) \in Seq(Requests) /\ Len(IdsOf(q)) = Len(q) /\ Len(q) \in Nat
         /\ \A i \in 1 .. Len(q) : IdsOf(q)[i] = q[i].id
<1>1. Len(q) \in Nat /\ \A i \in 1 .. Len(q) : q[i] \in Events
  BY ElementOfSeq, LenProperties
<1>2. \A i \in 1 .. Len(q) : q[i].id \in Requests
  BY <1>1 DEF Events
<1>3. QED
  BY <1>1, <1>2 DEF IdsOf

LEMMA IdsOfAppend ==
  ASSUME NEW q \in Seq(Events), NEW e \in Events
  PROVE  IdsOf(Append(q, e)) = Append(IdsOf(q), e.id)
<1>1. Append(q, e) \in Seq(Events) /\ Len(Append(q, e)) = Len(q) + 1
      /\ (\A i \in 1 .. Len(q) : Append(q, e)[i] = q[i]) /\ Append(q, e)[Len(q) + 1] = e
  BY AppendProperties
<1>2. e.id \in Requests
  BY DEF Events
<1>3. /\ IdsOf(q) \in Seq(Requests) /\ Len(IdsOf(q)) = Len(q) /\ Len(q) \in Nat
      /\ \A i \in 1 .. Len(q) : IdsOf(q)[i] = q[i].id
  BY IdsTyped
<1>4. /\ IdsOf(Append(q, e)) \in Seq(Requests) /\ Len(IdsOf(Append(q, e))) = Len(q) + 1
      /\ \A i \in 1 .. Len(q) + 1 : IdsOf(Append(q, e))[i] = Append(q, e)[i].id
  BY <1>1, IdsTyped
<1>5. /\ Append(IdsOf(q), e.id) \in Seq(Requests)
      /\ Len(Append(IdsOf(q), e.id)) = Len(q) + 1
      /\ \A i \in 1 .. Len(q) : Append(IdsOf(q), e.id)[i] = IdsOf(q)[i]
      /\ Append(IdsOf(q), e.id)[Len(q) + 1] = e.id
  BY <1>2, <1>3, AppendProperties
<1>6. \A i \in 1 .. Len(q) + 1 : IdsOf(Append(q, e))[i] = Append(IdsOf(q), e.id)[i]
  BY <1>1, <1>3, <1>4, <1>5
<1>7. QED
  BY <1>4, <1>5, <1>6, SeqEqual

LEMMA IdsOfTail ==
  ASSUME NEW q \in Seq(Events), q # <<>>
  PROVE  /\ IdsOf(Tail(q)) = Tail(IdsOf(q))
         /\ IdsOf(q) # <<>> /\ Head(IdsOf(q)) = q[1].id
<1>1. /\ Tail(q) \in Seq(Events) /\ Len(Tail(q)) = Len(q) - 1
      /\ \A i \in 1 .. Len(Tail(q)) : Tail(q)[i] = q[i + 1]
  BY HeadTailProperties
<1>2. Len(q) \in Nat \ {0}
  BY EmptySeq
<1>3. /\ IdsOf(q) \in Seq(Requests) /\ Len(IdsOf(q)) = Len(q)
      /\ \A i \in 1 .. Len(q) : IdsOf(q)[i] = q[i].id
  BY IdsTyped
<1>4. IdsOf(q) # <<>> /\ Head(IdsOf(q)) = q[1].id
  BY <1>2, <1>3
<1>5. /\ Tail(IdsOf(q)) \in Seq(Requests) /\ Len(Tail(IdsOf(q))) = Len(q) - 1
      /\ \A i \in 1 .. Len(Tail(IdsOf(q))) : Tail(IdsOf(q))[i] = IdsOf(q)[i + 1]
  BY <1>3, <1>4, HeadTailProperties
<1>6. /\ IdsOf(Tail(q)) \in Seq(Requests) /\ Len(IdsOf(Tail(q))) = Len(q) - 1
      /\ \A i \in 1 .. Len(Tail(q)) : IdsOf(Tail(q))[i] = Tail(q)[i].id
  BY <1>1, IdsTyped
<1>7. \A i \in 1 .. Len(Tail(q)) : IdsOf(Tail(q))[i] = Tail(IdsOf(q))[i]
  BY <1>1, <1>2, <1>3, <1>5, <1>6
<1>8. QED
  BY <1>1, <1>4, <1>5, <1>6, <1>7, SeqEqual

\* Names for the abstract state.
Submitted == 0 .. nextOutgoingRequestId - 1
Waiting   == {r \in Requests : outgoingRequests[r] = "Pending"}
Running   == {job} \ {NoRequest}
Finished  == IdsOf(Undelivered)
Reported  == {r \in Requests : told[r] # "nothing"}
Bar       == <<Submitted, Waiting, Running, Finished, Reported>>
JobStep   == [Jobs!Next]_(Jobs!vars)

LEMMA StutterOrJobs ==
  /\ UNCHANGED Bar => JobStep
  /\ \A j \in Requests :
        \/ /\ j \notin Submitted /\ Submitted' = Submitted \cup {j}
           /\ Waiting' = Waiting \cup {j} /\ UNCHANGED <<Running, Finished, Reported>>
        \/ /\ j \in Waiting /\ Waiting' = Waiting \ {j}
           /\ UNCHANGED <<Submitted, Running, Finished, Reported>>
        \/ /\ j \in Waiting /\ Running = {} /\ Waiting' = Waiting \ {j} /\ Running' = {j}
           /\ UNCHANGED <<Submitted, Finished, Reported>>
        \/ /\ j \in Running /\ Running' = {} /\ Finished' = Append(Finished, j)
           /\ UNCHANGED <<Submitted, Waiting, Reported>>
        \/ /\ j \in Running /\ Running' = {}
           /\ UNCHANGED <<Submitted, Waiting, Finished, Reported>>
        => JobStep
  /\ \/ /\ Finished # <<>> /\ Reported' = Reported \cup {Head(Finished)}
        /\ Finished' = Tail(Finished) /\ UNCHANGED <<Submitted, Waiting, Running>>
     \/ Finished' = <<>> /\ UNCHANGED <<Submitted, Waiting, Running, Reported>>
     \/ Waiting' = {} /\ UNCHANGED <<Submitted, Running, Finished, Reported>>
     => JobStep
BY DEF JobStep, Bar, Submitted, Waiting, Running, Finished, Reported, Jobs!Next, Jobs!vars,
   Jobs!Submit, Jobs!Withdraw, Jobs!Take, Jobs!Finish, Jobs!Report, Jobs!Abandon,
   Jobs!ForgetFinished, Jobs!ForgetWaiting

LEMMA JobsStep == IInv /\ [Next]_vars => JobStep
<1> SUFFICES ASSUME IInv, [Next]_vars PROVE JobStep
  OBVIOUS
<1>0. TypeOK /\ WorkerInv /\ FreshInv /\ RequestInv /\ EventsOK
  BY DEF IInv
<1> USE RequestsAreNumbers DEF requestVars, nodeVars, workerVars, mainVars, history, Transition
<1>1. ASSUME NEW r \in Requests, PickRequest(r) PROVE JobStep
  <2>1. r \in Waiting /\ Waiting' = Waiting \ {r}
    BY <1>0, <1>1 DEF PickRequest, TypeOK, Waiting
  <2>2. Running = {} /\ Running' = {r}
    BY <1>0, <1>1 DEF PickRequest, WorkerInv, Running
  <2>3. UNCHANGED <<Submitted, Reported>>
    BY <1>1 DEF PickRequest, Submitted, Reported
  <2>4. Undelivered' = Undelivered
    BY <1>1 DEF PickRequest, Undelivered
  <2>5. QED
    BY <2>1, <2>2, <2>3, <2>4, StutterOrJobs DEF Finished
<1>2. CASE CopyRequest
  <2>1. UNCHANGED <<Submitted, Waiting, Reported, Finished>>
    BY <1>2 DEF CopyRequest, Submitted, Waiting, Reported, Finished, Undelivered
  <2>2. job \in Requests /\ job \in Running
    BY <1>0, <1>2 DEF CopyRequest, TypeOK, WorkerInv, Running
  <2>3. UNCHANGED Running \/ Running' = {}
    BY <1>2 DEF CopyRequest, Running
  <2>4. QED
    BY <2>1, <2>2, <2>3, StutterOrJobs DEF Bar
<1>3. CASE CheckBeforeSend \/ FailTls \/ DispatchOutgoingRequest \/ CheckAfterSend
           \/ StoreJsonNode \/ WorkerExit
  BY <1>3, StutterOrJobs DEF CheckBeforeSend, FailTls, DispatchOutgoingRequest, CheckAfterSend,
     StoreJsonNode, WorkerExit, Bar, Submitted, Waiting, Running, Reported, Finished, Undelivered
<1>4. CASE CompleteRequest
  <2>1. Waiting' = Waiting
    BY <1>0, <1>4 DEF CompleteRequest, TypeOK, WorkerInv, Waiting
  <2>2. QED
    BY <1>4, <2>1, StutterOrJobs DEF CompleteRequest, Bar, Submitted, Running, Reported,
       Finished, Undelivered
<1>5. CASE FailOutgoingRequest
  <2>1. Waiting' = Waiting
    BY <1>0, <1>5 DEF FailOutgoingRequest, TypeOK, WorkerInv, Waiting
  <2>2. job \in Requests /\ job \in Running
    BY <1>0, <1>5 DEF FailOutgoingRequest, TypeOK, WorkerInv, Running
  <2>3. UNCHANGED Running \/ Running' = {}
    BY <1>5 DEF FailOutgoingRequest, Running
  <2>4. UNCHANGED <<Submitted, Reported, Finished>>
    BY <1>5 DEF FailOutgoingRequest, Submitted, Reported, Finished, Undelivered
  <2>5. QED
    BY <2>1, <2>2, <2>3, <2>4, StutterOrJobs DEF Bar
<1>6. CASE PushRequestEvent
  <2>1. job \in Requests /\ NewEvent \in Events /\ Undelivered' = Append(Undelivered, NewEvent)
    BY <1>0, <1>6, PushAddsLast
  <2>2. Finished' = Append(Finished, job)
    BY <1>0, <2>1, UndeliveredTyped, IdsOfAppend DEF Finished, NewEvent
  <2>3. job \in Running /\ Running' = {}
    BY <1>6, <2>1 DEF PushRequestEvent, Running
  <2>4. UNCHANGED <<Submitted, Waiting, Reported>>
    BY <1>6 DEF PushRequestEvent, Submitted, Waiting, Reported
  <2>5. QED
    BY <2>1, <2>2, <2>3, <2>4, StutterOrJobs
<1>7. ASSUME NEW json \in BOOLEAN, QueueOutboundRequest(json) PROVE JobStep
  <2>1. nextOutgoingRequestId \in Requests /\ nextOutgoingRequestId' = nextOutgoingRequestId + 1
    BY <1>0, <1>7, BoundsAssumption DEF QueueOutboundRequest, TypeOK, Requests
  <2>2. nextOutgoingRequestId \in Nat
    BY <2>1
  <2>3. /\ nextOutgoingRequestId \notin Submitted
        /\ Submitted' = Submitted \cup {nextOutgoingRequestId}
    <3>1. PICK n \in Nat : n = nextOutgoingRequestId
      BY <2>2
    <3>2. 0 .. (n + 1) - 1 = (0 .. n - 1) \cup {n} /\ n \notin 0 .. n - 1
      OBVIOUS
    <3>3. Submitted' = 0 .. (n + 1) - 1
      BY <2>1, <3>1 DEF Submitted
    <3>4. QED
      BY <3>1, <3>2, <3>3 DEF Submitted
  <2>4. Waiting' = Waiting \cup {nextOutgoingRequestId}
    BY <1>0, <1>7, <2>1 DEF QueueOutboundRequest, TypeOK, Waiting
  <2>5. UNCHANGED <<Running, Reported, Finished>>
    BY <1>7 DEF QueueOutboundRequest, Running, Reported, Finished, Undelivered
  <2>6. QED
    BY <2>1, <2>3, <2>4, <2>5, StutterOrJobs
<1>8. ASSUME NEW r \in Requests, CancelOutboundRequest(r) PROVE JobStep
  <2>1. UNCHANGED <<Submitted, Running, Reported, Finished>>
    BY <1>8 DEF CancelOutboundRequest, Submitted, Running, Reported, Finished, Undelivered
  <2>2. Waiting' = Waiting \ {r}
    BY <1>0, <1>8 DEF CancelOutboundRequest, TypeOK, Waiting
  <2>3. CASE r \in Waiting
    BY <2>1, <2>2, <2>3, StutterOrJobs
  <2>4. CASE r \notin Waiting
    BY <2>1, <2>2, <2>4, StutterOrJobs DEF Bar
  <2>5. QED
    BY <2>3, <2>4
<1>9. CASE RunCallback
  <2>1. /\ Undelivered # <<>> /\ Head(batch) = Undelivered[1] /\ Undelivered' = Tail(Undelivered)
    BY <1>0, <1>9, CallbackTakesFirst
  <2>2. Finished # <<>> /\ Head(Finished) = Head(batch).id /\ Finished' = Tail(Finished)
    BY <1>0, <2>1, UndeliveredTyped, IdsOfTail DEF Finished
  <2>3. Head(batch).id \in Requests /\ Head(batch).outcome # "nothing"
    BY <1>0, <1>9, FirstEvent DEF Events, Outcomes
  <2>4. Reported' = Reported \cup {Head(batch).id}
    BY <1>0, <1>9, <2>3 DEF RunCallback, TypeOK, Reported
  <2>5. UNCHANGED <<Submitted, Waiting, Running>>
    BY <1>9 DEF RunCallback, Submitted, Waiting, Running
  <2>6. QED
    BY <2>2, <2>4, <2>5, StutterOrJobs
<1>10. CASE ResetEvents
  <2>1. Finished' = <<>>
    BY <1>0, <1>10, ResetDropsEvents DEF Finished, IdsOf
  <2>2. UNCHANGED <<Submitted, Waiting, Running, Reported>>
    BY <1>10 DEF ResetEvents, Submitted, Waiting, Running, Reported
  <2>3. QED
    BY <2>1, <2>2, StutterOrJobs
<1>11. CASE ResetRequests
  <2>1. Waiting' = {}
    BY <1>11 DEF ResetRequests, Waiting
  <2>2. UNCHANGED <<Submitted, Running, Finished, Reported>>
    BY <1>11 DEF ResetRequests, Submitted, Running, Finished, Undelivered, Reported
  <2>3. QED
    BY <2>1, <2>2, StutterOrJobs
<1>12. CASE DrainEvents
  <2>1. Finished' = Finished
    BY <1>0, <1>12, DrainKeepsEvents DEF Finished
  <2>2. QED
    BY <1>12, <2>1, StutterOrJobs DEF DrainEvents, Bar, Submitted, Waiting, Running, Reported
<1>13. ASSUME NEW n \in NodeIds, ReleaseJsonNode(n) PROVE JobStep
  BY <1>13, StutterOrJobs DEF ReleaseJsonNode, Bar, Submitted, Waiting, Running, Reported,
     Finished, Undelivered
<1>14. CASE ResetNodes \/ StopWorker \/ JoinWorker \/ UNCHANGED vars
  BY <1>14, StutterOrJobs DEF ResetNodes, StopWorker, JoinWorker, vars, Bar, Submitted, Waiting,
     Running, Reported, Finished, Undelivered
<1>15. QED
  BY <1>1, <1>2, <1>3, <1>4, <1>5, <1>6, <1>7, <1>8, <1>9, <1>10, <1>11, <1>12, <1>13, <1>14
     DEF Next, Worker, Main, Script, Reset

\* The requests are jobs: taken at most once, one at a time, reported at
\* most once and in the order in which they finished.
THEOREM RequestsAreJobs == Spec => ImplementsJobLifecycle
<1>1. IInv /\ [Next]_vars => [Jobs!Next]_(Jobs!vars)
  BY JobsStep DEF JobStep
<1>2. QED
  BY JobsInit, InvariantHolds, <1>1, PTL DEF Spec, ImplementsJobLifecycle, Jobs!Spec
=============================================================================
