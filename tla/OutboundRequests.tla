-------------------------- MODULE OutboundRequests --------------------------
(***************************************************************************)
(* Outbound HTTP requests (REST_Request, REST_RequestJSON).                *)
(*                                                                         *)
(* The script queues requests on the main thread.  One background thread,  *)
(* RequestWorker, takes a pending one, sends it, and pushes one event with *)
(* the outcome, which the main thread's timer drains into a callback.  The *)
(* script may cancel a request at any time, and the component's reset()    *)
(* (a change of gamemode) clears events, requests and JSON nodes one lock  *)
(* after the other while the worker runs.  A JSON response is parsed by    *)
(* the worker into a node of the shared store; its handle travels with the *)
(* event, and the script releases it.                                      *)
(*                                                                         *)
(* One action is one critical section, or one stretch of a thread's code   *)
(* without any.  The failures are told apart only as far as the code acts  *)
(* on them: "cancelled" or "failed".                                       *)
(***************************************************************************)
EXTENDS Integers, Sequences

CONSTANTS
    MaxRequests,    \* bound: requests queued
    MaxResets       \* bound: changes of gamemode

ASSUME BoundsAssumption == MaxRequests \in Nat /\ MaxResets \in Nat

VARIABLES
    outgoingRequests,       \* status of each request in the map, or "absent"
    cancelToken,            \* requests whose cancelToken is set
    expectJson,             \* requests queued with expectJson
    nextOutgoingRequestId,
    pendingRequestEvents,
    jsonNodes,              \* handles in the JSON node store
    nextJsonNodeId,
    pc,                     \* program counter of RequestWorker
    job,                    \* the request it works on
    outcome,                \* the outcome it is about to record and report
    nodeId,                 \* the node its event will carry
    requestWorkerRunning,
    batch,                  \* DrainEvents' local vector, callbacks to run
    mpc,                    \* program counter of the main thread
    resets,                 \* number of resets (bounds the model)
    told,                   \* history: the outcome each request's callback had
    scriptNodes             \* history: nodes callbacks handed to the script

requestVars == <<outgoingRequests, cancelToken, expectJson, nextOutgoingRequestId>>
nodeVars    == <<jsonNodes, nextJsonNodeId>>
workerVars  == <<pc, job, outcome, nodeId>>
mainVars    == <<requestWorkerRunning, batch, mpc, resets>>
history     == <<told, scriptNodes>>
vars == <<requestVars, pendingRequestEvents, nodeVars, workerVars, mainVars, history>>

Requests  == 0 .. MaxRequests - 1
NoRequest == -1
NoNode    == -1
Statuses  == {"Pending", "Requesting", "Completed", "Failed", "Cancelled"}
Outcomes  == {"completed", "failed", "cancelled"}
NodeIds   == 1 .. MaxRequests       \* a request stores at most one node
Events    == [id : Requests, outcome : Outcomes, node : NodeIds \cup {NoNode}]

Present(r) == outgoingRequests[r] # "absent"

\* IsCancelledRequest: a request that is no longer in the map counts as
\* cancelled.
IsCancelledRequest(r) ==
    \/ ~Present(r)
    \/ outgoingRequests[r] = "Cancelled"
    \/ r \in cancelToken

Transition(from, to) == pc = from /\ pc' = to

Init ==
    /\ outgoingRequests = [r \in Requests |-> "absent"]
    /\ cancelToken = {} /\ expectJson = {}
    /\ nextOutgoingRequestId = 0
    /\ pendingRequestEvents = <<>>
    /\ jsonNodes = {} /\ nextJsonNodeId = 1
    /\ pc = "loop" /\ job = NoRequest
    /\ outcome = "completed" /\ nodeId = NoNode
    /\ requestWorkerRunning = TRUE
    /\ batch = <<>> /\ mpc = "script" /\ resets = 0
    /\ told = [r \in Requests |-> "nothing"] /\ scriptNodes = {}

-----------------------------------------------------------------------------
(* RequestWorker and ProcessOutgoingRequest.                               *)

\* Mutant: the picked request is not marked.
PickRequestUnmarked(r) ==
    /\ requestWorkerRunning
    /\ outgoingRequests[r] = "Pending"
    /\ Transition("loop", "copy")
    /\ job' = r
    /\ UNCHANGED <<requestVars, pendingRequestEvents, nodeVars, outcome, nodeId, mainVars, history>>

\* The scan of the unordered map may meet any pending request first.
PickRequest(r) ==
    /\ requestWorkerRunning
    /\ outgoingRequests[r] = "Pending"
    /\ Transition("loop", "copy")
    /\ outgoingRequests' = [outgoingRequests EXCEPT ![r] = "Requesting"]
    /\ job' = r
    /\ UNCHANGED <<cancelToken, expectJson, nextOutgoingRequestId, pendingRequestEvents,
                   nodeVars, outcome, nodeId, mainVars, history>>

\* `request = it->second`, or the silent return when a reset has erased it.
CopyRequest ==
    /\ pc = "copy"
    /\ IF Present(job) THEN pc' = "check" /\ UNCHANGED job
                       ELSE pc' = "loop" /\ job' = NoRequest
    /\ nodeId' = NoNode
    /\ UNCHANGED <<requestVars, pendingRequestEvents, nodeVars, outcome, mainVars, history>>

\* Mutant: a cancelled request is dropped without a word.
CheckBeforeSendSilent ==
    /\ pc = "check"
    /\ IF IsCancelledRequest(job) THEN pc' = "loop" /\ job' = NoRequest
                                  ELSE pc' = "send" /\ UNCHANGED job
    /\ UNCHANGED <<requestVars, pendingRequestEvents, nodeVars, outcome, nodeId, mainVars, history>>

\* The URL and the scheme were already accepted by QueueOutboundRequest.
CheckBeforeSend ==
    /\ pc = "check"
    /\ IF IsCancelledRequest(job) THEN pc' = "fail" /\ outcome' = "cancelled"
                                  ELSE pc' = "send" /\ UNCHANGED outcome
    /\ UNCHANGED <<requestVars, pendingRequestEvents, nodeVars, job, nodeId, mainVars, history>>

\* The TLS client cannot be set up, or TLS is not in the build.
FailTls ==
    /\ Transition("send", "fail")
    /\ outcome' = "failed"
    /\ UNCHANGED <<requestVars, pendingRequestEvents, nodeVars, job, nodeId, mainVars, history>>

\* DispatchOutgoingRequest: the exchange yields a response or an error.
DispatchOutgoingRequest ==
    /\ Transition("send", "recheck")
    /\ outcome' \in {"completed", "failed"}
    /\ UNCHANGED <<requestVars, pendingRequestEvents, nodeVars, job, nodeId, mainVars, history>>

\* The second IsCancelledRequest, then the choices that touch nothing
\* shared: a transport error, or a body that is not JSON, is a failure.
CheckAfterSend ==
    /\ pc = "recheck"
    /\ \/ /\ IsCancelledRequest(job)
          /\ pc' = "fail" /\ outcome' = "cancelled"
       \/ /\ ~IsCancelledRequest(job)
          /\ \/ outcome = "failed" \/ job \in expectJson
          /\ pc' = "fail" /\ outcome' = "failed"
       \/ /\ ~IsCancelledRequest(job) /\ outcome = "completed"
          /\ pc' = IF job \in expectJson THEN "store" ELSE "complete"
          /\ UNCHANGED outcome
    /\ UNCHANGED <<requestVars, pendingRequestEvents, nodeVars, job, nodeId, mainVars, history>>

StoreJsonNode ==
    /\ Transition("store", "complete")
    /\ jsonNodes' = jsonNodes \cup {nextJsonNodeId}
    /\ nodeId' = nextJsonNodeId
    /\ nextJsonNodeId' = nextJsonNodeId + 1
    /\ UNCHANGED <<requestVars, pendingRequestEvents, job, outcome, mainVars, history>>

\* Mutant: one more test of the token, which returns and forgets the node.
CompleteRequestUnlessCancelled ==
    /\ pc = "complete"
    /\ IF IsCancelledRequest(job) THEN pc' = "loop" /\ job' = NoRequest
                                  ELSE pc' = "push" /\ UNCHANGED job
    /\ outgoingRequests' = IF IsCancelledRequest(job) THEN outgoingRequests
                           ELSE [outgoingRequests EXCEPT ![job] = "Completed"]
    /\ UNCHANGED <<cancelToken, expectJson, nextOutgoingRequestId, pendingRequestEvents,
                   nodeVars, outcome, nodeId, mainVars, history>>

\* The status is overwritten whatever it is by now, if the entry is there.
CompleteRequest ==
    /\ Transition("complete", "push")
    /\ outgoingRequests' = [outgoingRequests EXCEPT
                              ![job] = IF @ = "absent" THEN @ ELSE "Completed"]
    /\ UNCHANGED <<cancelToken, expectJson, nextOutgoingRequestId, pendingRequestEvents,
                   nodeVars, job, outcome, nodeId, mainVars, history>>

\* FailOutgoingRequest up to the unlock; without an entry it returns.
FailOutgoingRequest ==
    /\ pc = "fail"
    /\ IF Present(job) THEN pc' = "push" /\ UNCHANGED job
                       ELSE pc' = "loop" /\ job' = NoRequest
    /\ outgoingRequests' = [outgoingRequests EXCEPT
                              ![job] = IF @ = "absent" THEN @
                                       ELSE IF outcome = "cancelled" THEN "Cancelled"
                                       ELSE "Failed"]
    /\ UNCHANGED <<cancelToken, expectJson, nextOutgoingRequestId, pendingRequestEvents,
                   nodeVars, outcome, nodeId, mainVars, history>>

PushRequestEvent ==
    /\ Transition("push", "loop")
    /\ pendingRequestEvents' =
          Append(pendingRequestEvents, [id |-> job, outcome |-> outcome, node |-> nodeId])
    /\ job' = NoRequest /\ nodeId' = NoNode
    /\ UNCHANGED <<requestVars, nodeVars, outcome, mainVars, history>>

\* `while (requestWorkerRunning)` ends.
WorkerExit ==
    /\ ~requestWorkerRunning
    /\ Transition("loop", "exited")
    /\ UNCHANGED <<requestVars, pendingRequestEvents, nodeVars, job, outcome, nodeId,
                   mainVars, history>>

-----------------------------------------------------------------------------
(* The main thread: natives, DrainEvents, reset and the destructor.        *)

\* A call that returns -1 changes nothing and is not a step.
QueueOutboundRequest(json) ==
    /\ mpc = "script" /\ nextOutgoingRequestId < MaxRequests
    /\ outgoingRequests' = [outgoingRequests EXCEPT ![nextOutgoingRequestId] = "Pending"]
    /\ expectJson' = IF json THEN expectJson \cup {nextOutgoingRequestId} ELSE expectJson
    /\ nextOutgoingRequestId' = nextOutgoingRequestId + 1
    /\ UNCHANGED <<cancelToken, pendingRequestEvents, nodeVars, workerVars, mainVars, history>>

\* Mutant: a settled request can be cancelled.
CancelOutboundRequestSettled(r) ==
    /\ mpc = "script"
    /\ Present(r)
    /\ outgoingRequests' = [outgoingRequests EXCEPT ![r] = "Cancelled"]
    /\ cancelToken' = cancelToken \cup {r}
    /\ UNCHANGED <<expectJson, nextOutgoingRequestId, pendingRequestEvents, nodeVars,
                   workerVars, mainVars, history>>

\* The calls that return true; the others change nothing.
CancelOutboundRequest(r) ==
    /\ mpc = "script"
    /\ outgoingRequests[r] \in {"Pending", "Requesting"}
    /\ outgoingRequests' = [outgoingRequests EXCEPT ![r] = "Cancelled"]
    /\ cancelToken' = cancelToken \cup {r}
    /\ UNCHANGED <<expectJson, nextOutgoingRequestId, pendingRequestEvents, nodeVars,
                   workerVars, mainVars, history>>

\* The swap under requestEventMutex.
DrainEvents ==
    /\ mpc = "script" /\ batch = <<>> /\ pendingRequestEvents # <<>>
    /\ batch' = pendingRequestEvents
    /\ pendingRequestEvents' = <<>>
    /\ UNCHANGED <<requestVars, nodeVars, workerVars, requestWorkerRunning, mpc, resets,
                   history>>

\* CallPawnEvent for the next event; what the callback does are the steps
\* the script takes before the next one.
RunCallback ==
    /\ mpc = "script" /\ batch # <<>>
    /\ told' = [told EXCEPT ![Head(batch).id] = Head(batch).outcome]
    /\ scriptNodes' = scriptNodes \cup ({Head(batch).node} \ {NoNode})
    /\ batch' = Tail(batch)
    /\ UNCHANGED <<requestVars, pendingRequestEvents, nodeVars, workerVars,
                   requestWorkerRunning, mpc, resets>>

\* REST_JsonCleanup of a handle a callback was given.
ReleaseJsonNode(n) ==
    /\ mpc = "script" /\ n \in scriptNodes \cap jsonNodes
    /\ jsonNodes' = jsonNodes \ {n}
    /\ UNCHANGED <<requestVars, pendingRequestEvents, nextJsonNodeId, workerVars,
                   mainVars, history>>

\* reset(), one lock at a time; it runs between two drains.
ResetEvents ==
    /\ mpc = "script" /\ batch = <<>> /\ resets < MaxResets
    /\ mpc' = "resetRequests" /\ resets' = resets + 1
    /\ pendingRequestEvents' = <<>>
    /\ UNCHANGED <<requestVars, nodeVars, workerVars, requestWorkerRunning, batch, history>>

ResetRequests ==
    /\ mpc = "resetRequests" /\ mpc' = "resetNodes"
    /\ outgoingRequests' = [r \in Requests |-> "absent"]
    /\ UNCHANGED <<cancelToken, expectJson, nextOutgoingRequestId, pendingRequestEvents,
                   nodeVars, workerVars, requestWorkerRunning, batch, resets, history>>

ResetNodes ==
    /\ mpc = "resetNodes" /\ mpc' = "script"
    /\ jsonNodes' = {}
    /\ UNCHANGED <<requestVars, pendingRequestEvents, nextJsonNodeId, workerVars,
                   requestWorkerRunning, batch, resets, history>>

\* The destructor: the flag, then the join.
StopWorker ==
    /\ mpc = "script" /\ batch = <<>>
    /\ mpc' = "join" /\ requestWorkerRunning' = FALSE
    /\ UNCHANGED <<requestVars, pendingRequestEvents, nodeVars, workerVars, batch, resets,
                   history>>

JoinWorker ==
    /\ mpc = "join" /\ pc = "exited"
    /\ mpc' = "gone"
    /\ UNCHANGED <<requestVars, pendingRequestEvents, nodeVars, workerVars,
                   requestWorkerRunning, batch, resets, history>>

-----------------------------------------------------------------------------
Worker ==
    \/ \E r \in Requests : PickRequest(r)
    \/ CopyRequest
    \/ CheckBeforeSend
    \/ FailTls
    \/ DispatchOutgoingRequest
    \/ CheckAfterSend
    \/ StoreJsonNode
    \/ CompleteRequest
    \/ FailOutgoingRequest
    \/ PushRequestEvent
    \/ WorkerExit

Reset == ResetEvents \/ ResetRequests \/ ResetNodes

Script ==
    \/ \E json \in BOOLEAN : QueueOutboundRequest(json)
    \/ \E r \in Requests : CancelOutboundRequest(r)
    \/ \E n \in NodeIds : ReleaseJsonNode(n)

Main == Script \/ DrainEvents \/ RunCallback \/ Reset \/ StopWorker \/ JoinWorker

Next == Worker \/ Main

Spec == Init /\ [][Next]_vars

(***************************************************************************)
(* The worker is scheduled and an exchange ends (30 s timeouts), the timer *)
(* keeps draining, and a reset or a destructor that has begun goes on.     *)
(* Which of several pending requests is picked is not fair.                *)
(***************************************************************************)
Fairness ==
    /\ WF_vars(Worker)
    /\ WF_vars(DrainEvents) /\ WF_vars(RunCallback)
    /\ WF_vars(ResetRequests) /\ WF_vars(ResetNodes) /\ WF_vars(JoinWorker)

FairSpec == Spec /\ Fairness

-----------------------------------------------------------------------------
(* Properties.                                                             *)

\* The values the request map, the event queue, the node store and the two
\* threads of the outbound request code may take.
TypeOK ==
    /\ outgoingRequests \in [Requests -> Statuses \cup {"absent"}]
    /\ cancelToken \subseteq Requests /\ expectJson \subseteq Requests
    /\ nextOutgoingRequestId \in 0 .. MaxRequests
    /\ pendingRequestEvents \in Seq(Events) /\ batch \in Seq(Events)
    /\ jsonNodes \subseteq NodeIds /\ nextJsonNodeId \in 1 .. MaxRequests + 1
    /\ pc \in {"loop", "copy", "check", "send", "recheck", "store", "complete",
               "fail", "push", "exited"}
    /\ job \in Requests \cup {NoRequest}
    /\ outcome \in Outcomes /\ nodeId \in NodeIds \cup {NoNode}
    /\ requestWorkerRunning \in BOOLEAN
    /\ mpc \in {"script", "resetRequests", "resetNodes", "join", "gone"}
    /\ resets \in 0 .. MaxResets
    /\ told \in [Requests -> Outcomes \cup {"nothing"}]
    /\ scriptNodes \subseteq NodeIds

Undelivered  == batch \o pendingRequestEvents
EventIndices == 1 .. Len(Undelivered)
HasEvent(r)  == \E i \in EventIndices : Undelivered[i].id = r
StatusFor == [completed |-> "Completed", failed |-> "Failed", cancelled |-> "Cancelled"]

\* What the status natives say and what the callbacks say agree, however
\* cancel, worker and drain interleave: an outcome on its way or delivered
\* is the status of its request while the map has it, and a request that
\* the natives call completed or failed has had its callback or will have
\* it (a reset clears the events before the statuses).
QueuedOutcomesMatch ==
    \A i \in EventIndices :
        Present(Undelivered[i].id) =>
            outgoingRequests[Undelivered[i].id] = StatusFor[Undelivered[i].outcome]
ToldOutcomesMatch ==
    \A r \in Requests :
        Present(r) /\ told[r] # "nothing" => outgoingRequests[r] = StatusFor[told[r]]
NoSilentOutcome ==
    \A r \in Requests :
        outgoingRequests[r] \in {"Completed", "Failed"} /\ mpc # "resetRequests" =>
            \/ told[r] # "nothing" \/ HasEvent(r)
            \/ pc = "push" /\ job = r
StatusMatchesCallback == QueuedOutcomesMatch /\ ToldOutcomesMatch /\ NoSilentOutcome

\* The handle of a response node changes hands and is never lost or doubled.
\* In an undelivered event it is live (unless a reset erased the request)
\* and in no other event and no callback; and a node in the store is the
\* worker's, travels in an event, or was handed to the script.  A reset
\* drops events before the nodes they carry, and has repaired that when it
\* ends.
EventNodesLive ==
    \A i \in EventIndices :
        LET n == Undelivered[i].node IN
        n # NoNode =>
            /\ n \notin scriptNodes
            /\ \A k \in EventIndices : Undelivered[k].node = n => k = i
            /\ n \in jsonNodes \/ ~Present(Undelivered[i].id)
NodesOwned ==
    mpc \notin {"resetRequests", "resetNodes"} =>
        jsonNodes \subseteq
            scriptNodes \cup {nodeId} \cup {Undelivered[i].node : i \in EventIndices}
NodeCustody == EventNodesLive /\ NodesOwned

\* Once completed or failed, a request keeps that status until a reset
\* erases it; once cancelled, only the exchange that had passed its last
\* test of the token can still change it.
SettledStays ==
    [][\A r \in Requests :
          /\ outgoingRequests[r] \in {"Completed", "Failed"} =>
                outgoingRequests'[r] \in {outgoingRequests[r], "absent"}
          /\ outgoingRequests[r] = "Cancelled" /\ outgoingRequests'[r] # "Cancelled" =>
                \/ outgoingRequests'[r] = "absent"
                \/ job = r /\ (pc = "complete" \/ (pc = "fail" /\ outcome = "failed"))
      ]_vars

\* The promise to the script, refined: waiting, running and unreported jobs
\* are the pending entries, the worker's job and the events on their way.
IdsOf(events) == [i \in 1 .. Len(events) |-> events[i].id]
Jobs == INSTANCE JobLifecycle WITH
    Jobs      <- Requests,
    submitted <- 0 .. nextOutgoingRequestId - 1,
    waiting   <- {r \in Requests : outgoingRequests[r] = "Pending"},
    running   <- {job} \ {NoRequest},
    finished  <- IdsOf(Undelivered),
    reported  <- {r \in Requests : told[r] # "nothing"}
ImplementsJobLifecycle == Jobs!Spec

\* A queued request that is not cancelled is sent and its callback runs, and
\* one that is cancelled after the worker has taken it still gets its
\* callback, unless a reset erases it or the component is destroyed.
Ended(r) == told[r] # "nothing" \/ ~Present(r) \/ ~requestWorkerRunning
RequestsReport ==
    \A r \in Requests :
        /\ (outgoingRequests[r] = "Pending") ~> (Ended(r) \/ r \in cancelToken)
        /\ (job = r) ~> Ended(r)
=============================================================================
