-------------------------- MODULE OutgoingUploads --------------------------
(***************************************************************************)
(* Outgoing file uploads (FILE_Upload, FILE_UploadWithClient).             *)
(*                                                                         *)
(* The same shape as the outbound requests, one thread (UploadWorker), one *)
(* map, one event vector, but an upload reports its progress on the way:   *)
(* Started, for a multipart upload 50 %, 100 %, and then Completed or      *)
(* Failed.  The token of a cancelled upload is also read in the middle of  *)
(* the transfer, and failures are recorded differently: a failure that is  *)
(* not the cancellation overwrites a status of Cancelled, and an outcome   *)
(* is reported even when a reset has erased the upload.                    *)
(*                                                                         *)
(* One action is one critical section, or one stretch of a thread's code   *)
(* without any.  An event is told apart by its type and, for Progress, by  *)
(* the percentage.                                                         *)
(***************************************************************************)
EXTENDS Integers, Sequences

CONSTANTS
    MaxUploads,     \* bound: uploads queued
    MaxResets       \* bound: changes of gamemode

ASSUME BoundsAssumption == MaxUploads \in Nat /\ MaxResets \in Nat

VARIABLES
    outgoingUploads,        \* status of each upload in the map, or "absent"
    progressPct,            \* of each upload, as REST_GetUploadProgress reads it
    cancelToken,            \* uploads whose cancelToken is set
    rawMode,                \* uploads queued with UploadMode::Raw
    nextOutgoingId,
    pendingOutgoingEvents,
    pc,                     \* program counter of UploadWorker
    job,                    \* the upload it works on
    result,                 \* httplib's Result of the transfer
    outcome,                \* the outcome it is about to report
    uploadWorkerRunning,
    batch,                  \* DrainEvents' local vector, callbacks to run
    mpc,                    \* program counter of the main thread
    resets,                 \* number of resets (bounds the model)
    heard                   \* history: the callbacks each upload has had

uploadVars == <<outgoingUploads, progressPct, cancelToken, rawMode, nextOutgoingId>>
workerVars == <<pc, job, result, outcome>>
mainVars   == <<uploadWorkerRunning, batch, mpc, resets>>
vars == <<uploadVars, pendingOutgoingEvents, workerVars, mainVars, heard>>

Uploads  == 0 .. MaxUploads - 1
NoUpload == -1
Statuses == {"Pending", "Uploading", "Completed", "Failed", "Cancelled"}
Outcomes == {"Completed", "Failed", "Cancelled"}    \* Cancelled is sent as a Failed
                                                    \* event with error CANCELLED
Results  == {"success", "httpError", "none"}
Kinds    == {"Started", "Progress50", "Progress100"} \cup Outcomes
Events   == [id : Uploads, kind : Kinds]

Present(u) == outgoingUploads[u] # "absent"

\* IsCancelled: an upload that is no longer in the map counts as cancelled.
IsCancelled(u) ==
    \/ ~Present(u)
    \/ outgoingUploads[u] = "Cancelled"
    \/ u \in cancelToken

Transition(from, to) == pc = from /\ pc' = to

\* PushOutgoingEvent of an event of the worker's upload.
Push(kind) == pendingOutgoingEvents' = Append(pendingOutgoingEvents, [id |-> job, kind |-> kind])

\* An assignment to a field of the worker's upload, if the map still has it.
SetStatus(status) ==
    outgoingUploads' = [outgoingUploads EXCEPT ![job] = IF @ = "absent" THEN @ ELSE status]
SetProgress(pct) ==
    progressPct' = IF Present(job) THEN [progressPct EXCEPT ![job] = pct] ELSE progressPct

Init ==
    /\ outgoingUploads = [u \in Uploads |-> "absent"]
    /\ progressPct = [u \in Uploads |-> 0]
    /\ cancelToken = {} /\ rawMode = {}
    /\ nextOutgoingId = 0
    /\ pendingOutgoingEvents = <<>>
    /\ pc = "loop" /\ job = NoUpload
    /\ result = "none" /\ outcome = "Failed"
    /\ uploadWorkerRunning = TRUE
    /\ batch = <<>> /\ mpc = "script" /\ resets = 0
    /\ heard = [u \in Uploads |-> <<>>]

-----------------------------------------------------------------------------
(* UploadWorker and ProcessOutgoingUpload.                                 *)

\* Mutant: the picked upload is not marked.
PickUploadUnmarked(u) ==
    /\ uploadWorkerRunning
    /\ outgoingUploads[u] = "Pending"
    /\ Transition("loop", "copy")
    /\ job' = u
    /\ UNCHANGED <<uploadVars, pendingOutgoingEvents, result, outcome, mainVars, heard>>

\* The scan of the unordered map may meet any pending upload first.
PickUpload(u) ==
    /\ uploadWorkerRunning
    /\ outgoingUploads[u] = "Pending"
    /\ Transition("loop", "copy")
    /\ outgoingUploads' = [outgoingUploads EXCEPT ![u] = "Uploading"]
    /\ job' = u
    /\ UNCHANGED <<progressPct, cancelToken, rawMode, nextOutgoingId, pendingOutgoingEvents,
                   result, outcome, mainVars, heard>>

\* `upload = it->second`, or the silent return when a reset has erased it.
CopyUpload ==
    /\ pc = "copy"
    /\ IF Present(job) THEN pc' = "start" /\ UNCHANGED job
                       ELSE pc' = "loop" /\ job' = NoUpload
    /\ UNCHANGED <<uploadVars, pendingOutgoingEvents, result, outcome, mainVars, heard>>

PushStarted ==
    /\ Transition("start", "prepare")
    /\ Push("Started")
    /\ UNCHANGED <<uploadVars, job, result, outcome, mainVars, heard>>

\* Mutant: the early return forgets FailOutgoingUpload.
FailPreparationSilent ==
    /\ Transition("prepare", "loop")
    /\ job' = NoUpload
    /\ UNCHANGED <<uploadVars, pendingOutgoingEvents, result, outcome, mainVars, heard>>

\* The URL, the scheme, the file (it may have changed since it was queued)
\* or the TLS client is refused.  The token is not looked at here.
FailPreparation ==
    /\ Transition("prepare", "fail")
    /\ UNCHANGED <<uploadVars, pendingOutgoingEvents, job, result, outcome, mainVars, heard>>

\* UploadRaw or UploadMultipart opens the file; if it cannot, the result is
\* an error without any transfer.
OpenFile ==
    /\ pc = "prepare"
    /\ pc' \in {"check", IF job \in rawMode THEN "post" ELSE "half"}
    /\ result' = "none"
    /\ UNCHANGED <<uploadVars, pendingOutgoingEvents, job, outcome, mainVars, heard>>

\* UpdateOutgoingProgress before a multipart transfer: the field, the event.
SetHalf ==
    /\ Transition("half", "pushHalf")
    /\ SetProgress(50)
    /\ UNCHANGED <<outgoingUploads, cancelToken, rawMode, nextOutgoingId,
                   pendingOutgoingEvents, job, result, outcome, mainVars, heard>>

PushHalf ==
    /\ Transition("pushHalf", "token")
    /\ Push("Progress50")
    /\ UNCHANGED <<uploadVars, job, result, outcome, mainVars, heard>>

\* The multipart path reads the token once before it posts.
ReadToken ==
    /\ pc = "token"
    /\ pc' = IF job \in cancelToken THEN "check" ELSE "post"
    /\ UNCHANGED <<uploadVars, pendingOutgoingEvents, job, result, outcome, mainVars, heard>>

\* client.Post: a 2xx response, another one, or an error.  (The raw path's
\* content provider makes it an error when it sees the token.)
Post ==
    /\ Transition("post", "posted")
    /\ result' \in Results
    /\ UNCHANGED <<uploadVars, pendingOutgoingEvents, job, outcome, mainVars, heard>>

\* After the transfer the token is read again.  A raw upload reports 100 %
\* only if there was a response, a multipart one in any case.
ReportTransfer ==
    /\ pc = "posted"
    /\ pc' = IF job \in cancelToken \/ (job \in rawMode /\ result = "none")
              THEN "check" ELSE "full"
    /\ UNCHANGED <<uploadVars, pendingOutgoingEvents, job, result, outcome, mainVars, heard>>

SetFull ==
    /\ Transition("full", "pushFull")
    /\ SetProgress(100)
    /\ UNCHANGED <<outgoingUploads, cancelToken, rawMode, nextOutgoingId,
                   pendingOutgoingEvents, job, result, outcome, mainVars, heard>>

PushFull ==
    /\ Transition("pushFull", "check")
    /\ Push("Progress100")
    /\ UNCHANGED <<uploadVars, job, result, outcome, mainVars, heard>>

\* IsCancelled after the transfer, then the choice between response and error.
CheckAfterTransfer ==
    /\ pc = "check"
    /\ pc' = IF IsCancelled(job) THEN "cancelled"
             ELSE IF result = "none" THEN "fail" ELSE "settle"
    /\ UNCHANGED <<uploadVars, pendingOutgoingEvents, job, result, outcome, mainVars, heard>>

SettleCancelled ==
    /\ Transition("cancelled", "push")
    /\ SetStatus("Cancelled")
    /\ outcome' = "Cancelled"
    /\ UNCHANGED <<progressPct, cancelToken, rawMode, nextOutgoingId, pendingOutgoingEvents,
                   job, result, mainVars, heard>>

\* A response, 2xx or not: the fields, whatever the status is by now.
SettleResponse ==
    /\ Transition("settle", "push")
    /\ outcome' = IF result = "success" THEN "Completed" ELSE "Failed"
    /\ SetStatus(outcome')
    /\ SetProgress(100)
    /\ UNCHANGED <<cancelToken, rawMode, nextOutgoingId, pendingOutgoingEvents, job,
                   result, mainVars, heard>>

\* FailOutgoingUpload up to the unlock.
FailOutgoingUpload ==
    /\ Transition("fail", "push")
    /\ SetStatus("Failed")
    /\ outcome' = "Failed"
    /\ UNCHANGED <<progressPct, cancelToken, rawMode, nextOutgoingId, pendingOutgoingEvents,
                   job, result, mainVars, heard>>

\* Mutant: the cancelled branch does not return.
PushOutcomeFallsThrough ==
    /\ pc = "push"
    /\ pc' = IF outcome = "Cancelled" /\ result # "none" THEN "settle" ELSE "loop"
    /\ Push(outcome)
    /\ job' = IF pc' = "loop" THEN NoUpload ELSE job
    /\ UNCHANGED <<uploadVars, result, outcome, mainVars, heard>>

PushOutcome ==
    /\ Transition("push", "loop")
    /\ Push(outcome)
    /\ job' = NoUpload /\ result' = "none" /\ outcome' = "Failed"
    /\ UNCHANGED <<uploadVars, mainVars, heard>>

\* `while (uploadWorkerRunning)` ends.
WorkerExit ==
    /\ ~uploadWorkerRunning
    /\ Transition("loop", "exited")
    /\ UNCHANGED <<uploadVars, pendingOutgoingEvents, job, result, outcome, mainVars, heard>>

-----------------------------------------------------------------------------
(* The main thread: natives, DrainEvents, reset and the destructor.        *)

\* A call that returns -1 changes nothing and is not a step.
QueueUpload(raw) ==
    /\ mpc = "script" /\ nextOutgoingId < MaxUploads
    /\ outgoingUploads' = [outgoingUploads EXCEPT ![nextOutgoingId] = "Pending"]
    /\ rawMode' = IF raw THEN rawMode \cup {nextOutgoingId} ELSE rawMode
    /\ nextOutgoingId' = nextOutgoingId + 1
    /\ UNCHANGED <<progressPct, cancelToken, pendingOutgoingEvents, workerVars, mainVars, heard>>

\* Mutant: a settled upload can be cancelled.
CancelUploadSettled(u) ==
    /\ mpc = "script"
    /\ Present(u)
    /\ outgoingUploads' = [outgoingUploads EXCEPT ![u] = "Cancelled"]
    /\ cancelToken' = cancelToken \cup {u}
    /\ UNCHANGED <<progressPct, rawMode, nextOutgoingId, pendingOutgoingEvents, workerVars,
                   mainVars, heard>>

\* The calls that return true; the others change nothing.
CancelUpload(u) ==
    /\ mpc = "script"
    /\ outgoingUploads[u] \in {"Pending", "Uploading"}
    /\ outgoingUploads' = [outgoingUploads EXCEPT ![u] = "Cancelled"]
    /\ cancelToken' = cancelToken \cup {u}
    /\ UNCHANGED <<progressPct, rawMode, nextOutgoingId, pendingOutgoingEvents, workerVars,
                   mainVars, heard>>

\* The swap under outgoingEventMutex.
DrainEvents ==
    /\ mpc = "script" /\ batch = <<>> /\ pendingOutgoingEvents # <<>>
    /\ batch' = pendingOutgoingEvents
    /\ pendingOutgoingEvents' = <<>>
    /\ UNCHANGED <<uploadVars, workerVars, uploadWorkerRunning, mpc, resets, heard>>

\* CallPawnEvent for the next event; what the callback does are the steps
\* the script takes before the next one.
RunCallback ==
    /\ mpc = "script" /\ batch # <<>>
    /\ heard' = [heard EXCEPT ![Head(batch).id] = Append(@, Head(batch))]
    /\ batch' = Tail(batch)
    /\ UNCHANGED <<uploadVars, pendingOutgoingEvents, workerVars, uploadWorkerRunning, mpc,
                   resets>>

\* reset(), one lock at a time; it runs between two drains.
ResetEvents ==
    /\ mpc = "script" /\ batch = <<>> /\ resets < MaxResets
    /\ mpc' = "resetUploads" /\ resets' = resets + 1
    /\ pendingOutgoingEvents' = <<>>
    /\ UNCHANGED <<uploadVars, workerVars, uploadWorkerRunning, batch, heard>>

ResetUploads ==
    /\ mpc = "resetUploads" /\ mpc' = "script"
    /\ outgoingUploads' = [u \in Uploads |-> "absent"]
    /\ UNCHANGED <<progressPct, cancelToken, rawMode, nextOutgoingId, pendingOutgoingEvents,
                   workerVars, uploadWorkerRunning, batch, resets, heard>>

\* The destructor: the flag, then the join.
StopWorker ==
    /\ mpc = "script" /\ batch = <<>>
    /\ mpc' = "join" /\ uploadWorkerRunning' = FALSE
    /\ UNCHANGED <<uploadVars, pendingOutgoingEvents, workerVars, batch, resets, heard>>

JoinWorker ==
    /\ mpc = "join" /\ pc = "exited"
    /\ mpc' = "gone"
    /\ UNCHANGED <<uploadVars, pendingOutgoingEvents, workerVars, uploadWorkerRunning, batch,
                   resets, heard>>

-----------------------------------------------------------------------------
Worker ==
    \/ \E u \in Uploads : PickUpload(u)
    \/ CopyUpload
    \/ PushStarted
    \/ FailPreparation
    \/ OpenFile
    \/ SetHalf
    \/ PushHalf
    \/ ReadToken
    \/ Post
    \/ ReportTransfer
    \/ SetFull
    \/ PushFull
    \/ CheckAfterTransfer
    \/ SettleCancelled
    \/ SettleResponse
    \/ FailOutgoingUpload
    \/ PushOutcome
    \/ WorkerExit

Script ==
    \/ \E raw \in BOOLEAN : QueueUpload(raw)
    \/ \E u \in Uploads : CancelUpload(u)

Main ==
    \/ Script
    \/ DrainEvents
    \/ RunCallback
    \/ ResetEvents
    \/ ResetUploads
    \/ StopWorker
    \/ JoinWorker

Next == Worker \/ Main

Spec == Init /\ [][Next]_vars

(***************************************************************************)
(* The worker is scheduled and a transfer ends (30 s timeouts), the timer  *)
(* keeps draining, and a reset or a destructor that has begun goes on.     *)
(***************************************************************************)
Fairness ==
    /\ WF_vars(Worker)
    /\ WF_vars(DrainEvents) /\ WF_vars(RunCallback)
    /\ WF_vars(ResetUploads) /\ WF_vars(JoinWorker)

FairSpec == Spec /\ Fairness

-----------------------------------------------------------------------------
(* Properties.                                                             *)

\* The values the upload map, the event queue and the two threads of the
\* outgoing upload code may take.
TypeOK ==
    /\ outgoingUploads \in [Uploads -> Statuses \cup {"absent"}]
    /\ progressPct \in [Uploads -> {0, 50, 100}]
    /\ cancelToken \subseteq Uploads /\ rawMode \subseteq Uploads
    /\ nextOutgoingId \in 0 .. MaxUploads
    /\ pendingOutgoingEvents \in Seq(Events) /\ batch \in Seq(Events)
    /\ pc \in {"loop", "copy", "start", "prepare", "half", "pushHalf", "token", "post",
               "posted", "full", "pushFull", "check", "cancelled", "settle", "fail",
               "push", "exited"}
    /\ job \in Uploads \cup {NoUpload}
    /\ result \in Results /\ outcome \in Outcomes
    /\ uploadWorkerRunning \in BOOLEAN
    /\ mpc \in {"script", "resetUploads", "join", "gone"}
    /\ resets \in 0 .. MaxResets
    /\ heard \in [Uploads -> Seq(Events)]

Undelivered  == batch \o pendingOutgoingEvents
EventIndices == 1 .. Len(Undelivered)

\* What the script has heard of an upload, and the events on their way, those
\* of other uploads among them.
Story(u) == heard[u] \o Undelivered
Chapters(u) == {i \in 1 .. Len(Story(u)) : Story(u)[i].id = u}

Rank == [Started |-> 1, Progress50 |-> 2, Progress100 |-> 3,
         Completed |-> 4, Failed |-> 4, Cancelled |-> 4]

\* The callbacks of an upload come in order, each at most once: Started,
\* rising progress, one outcome and then nothing.  Only a reset can cut the
\* beginning off.
StoryInOrder ==
    \A u \in Uploads :
        /\ \A i, k \in Chapters(u) : i < k => Rank[Story(u)[i].kind] < Rank[Story(u)[k].kind]
        /\ Present(u) /\ mpc # "resetUploads" /\ Chapters(u) # {} =>
              \E i \in Chapters(u) : Story(u)[i].kind = "Started"

\* What the status natives say and what the callbacks say agree: an upload
\* still in the map whose outcome is queued or heard has that status.
StatusMatchesCallback ==
    \A u \in Uploads : \A i \in Chapters(u) :
        Present(u) /\ Story(u)[i].kind \in Outcomes => outgoingUploads[u] = Story(u)[i].kind

\* The promise to the script, refined as for the outbound requests: the
\* events that carry an outcome are the reports, the others stutter.
OutcomesOf(events) ==
    LET upTo[n \in 0 .. Len(events)] ==
            IF n = 0 THEN <<>>
            ELSE IF events[n].kind \in Outcomes THEN Append(upTo[n - 1], events[n].id)
            ELSE upTo[n - 1]
    IN  upTo[Len(events)]
Reported(u) == \E i \in 1 .. Len(heard[u]) : heard[u][i].kind \in Outcomes
Jobs == INSTANCE JobLifecycle WITH
    Jobs      <- Uploads,
    submitted <- 0 .. nextOutgoingId - 1,
    waiting   <- {u \in Uploads : outgoingUploads[u] = "Pending"},
    running   <- {job} \ {NoUpload},
    finished  <- OutcomesOf(Undelivered),
    reported  <- {u \in Uploads : Reported(u)}
ImplementsJobLifecycle == Jobs!Spec

\* A queued upload that is not cancelled is sent and its outcome is heard,
\* unless a reset erases it or the component is destroyed.
QueuedUploadsReport ==
    \A u \in Uploads :
        (outgoingUploads[u] = "Pending") ~>
            \/ Reported(u) \/ u \in cancelToken
            \/ ~Present(u) \/ ~uploadWorkerRunning

=============================================================================
