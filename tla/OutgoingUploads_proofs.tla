------------------------ MODULE OutgoingUploads_proofs ------------------------
(***************************************************************************)
(* Proofs about OutgoingUploads for any number of uploads and resets: an   *)
(* inductive invariant IInv, and what the script hears of an upload.       *)
(***************************************************************************)
EXTENDS OutgoingUploads, SequenceTheorems, WellFoundedInduction, TLAPS

\* Where the worker is.
WorkerInv ==
    /\ pc \in {"loop", "exited"} <=> job = NoUpload
    /\ job # NoUpload /\ pc # "push" =>
          outgoingUploads[job] \in {"absent", "Uploading", "Cancelled"}
    /\ pc = "push" /\ Present(job) => outgoingUploads[job] = outcome

FreshInv ==
    /\ \A u \in Uploads : u >= nextOutgoingId => outgoingUploads[u] = "absent"
    /\ job < nextOutgoingId

\* An event that was heard or is on its way.
Heard(e) == \E i \in 1 .. Len(heard[e.id]) : heard[e.id][i] = e
OnWay(e) == \E i \in EventIndices : Undelivered[i] = e
Told(e)  == Heard(e) \/ OnWay(e)
Started(u) == [id |-> u, kind |-> "Started"]

\* The rank of what the worker pushes next: it is above everything told of
\* its upload.
NextRank ==
    IF pc \in {"copy", "start"} THEN 1
    ELSE IF pc \in {"prepare", "half", "pushHalf"} THEN 2
    ELSE IF pc \in {"token", "post", "posted", "full", "pushFull"} THEN 3 ELSE 4

\* Nothing is told of an upload that was not picked; of the one being worked
\* on, what comes before the next event; and an outcome is the status.
ToldOf(e) ==
    /\ e.id < nextOutgoingId /\ outgoingUploads[e.id] # "Pending"
    /\ job = e.id => Rank[e.kind] < NextRank
    /\ Present(e.id) /\ e.kind \in Outcomes => outgoingUploads[e.id] = e.kind
ToldInv == \A e \in Events : Told(e) => ToldOf(e)

\* Unless a reset cuts it off, the beginning was told.
StartedInv ==
    mpc # "resetUploads" =>
        /\ \A e \in Events : Present(e.id) /\ Told(e) => Told(Started(e.id))
        /\ job # NoUpload /\ pc \notin {"copy", "start"} /\ Present(job) => Told(Started(job))

\* Ranks rise along what was heard, from there to what is on its way, and
\* along that.
Before(e, f) == Rank[e.kind] < Rank[f.kind]
HeardInOrder ==
    \A u \in Uploads :
        /\ \A i \in 1 .. Len(heard[u]) : heard[u][i].id = u
        /\ \A i, k \in 1 .. Len(heard[u]) : i < k => Before(heard[u][i], heard[u][k])
WayAfterHeard ==
    \A k \in EventIndices :
        \A i \in 1 .. Len(heard[Undelivered[k].id]) :
            Before(heard[Undelivered[k].id][i], Undelivered[k])
WayInOrder ==
    \A i, k \in EventIndices :
        i < k /\ Undelivered[i].id = Undelivered[k].id => Before(Undelivered[i], Undelivered[k])
OrderInv == HeardInOrder /\ WayAfterHeard /\ WayInOrder

IInv == TypeOK /\ WorkerInv /\ FreshInv /\ ToldInv /\ StartedInv /\ OrderInv

-----------------------------------------------------------------------------
(* The events on their way, as one sequence.                               *)

LEMMA UploadsAreNumbers == Uploads \in SUBSET Nat /\ NoUpload \notin Uploads /\ NoUpload \in Int
BY BoundsAssumption DEF Uploads, NoUpload

LEMMA Ranks ==
  /\ \A k \in Kinds : Rank[k] \in 1 .. 4
  /\ Rank["Started"] = 1 /\ Rank["Progress50"] = 2 /\ Rank["Progress100"] = 3
  /\ \A k \in Outcomes : Rank[k] = 4 /\ k \in Kinds
BY DEF Rank, Kinds, Outcomes

LEMMA EventParts ==
  /\ \A e \in Events : e.id \in Uploads /\ e.kind \in Kinds
  /\ \A u \in Uploads : \A k \in Kinds : [id |-> u, kind |-> k] \in Events
BY DEF Events

LEMMA UndeliveredTyped == TypeOK => Undelivered \in Seq(Events)
BY ConcatProperties DEF TypeOK, Undelivered

LEMMA EventTyped ==
  ASSUME TypeOK, NEW i \in EventIndices
  PROVE  Undelivered[i] \in Events /\ Undelivered[i].id \in Uploads
BY UndeliveredTyped, ElementOfSeq, EventParts DEF EventIndices

LEMMA HeardTyped ==
  ASSUME TypeOK, NEW u \in Uploads
  PROVE  /\ heard[u] \in Seq(Events) /\ Len(heard[u]) \in Nat
         /\ \A i \in 1 .. Len(heard[u]) : heard[u][i] \in Events
BY ElementOfSeq, LenProperties DEF TypeOK

\* The steps that leave alone what the script has heard or will hear.
EventsQuiet == UNCHANGED <<heard, batch, pendingOutgoingEvents>>

\* The worker is about to push an event of this kind.
Pushes(k) ==
    \/ pc = "start" /\ k = "Started"
    \/ pc = "pushHalf" /\ k = "Progress50"
    \/ pc = "pushFull" /\ k = "Progress100"
    \/ pc = "push" /\ k = outcome
Pushing(k) == k \in Kinds /\ Pushes(k) /\ Push(k) /\ UNCHANGED <<heard, batch, uploadVars, mpc>>

LEMMA PushesPush ==
  ASSUME TypeOK, PushStarted \/ PushHalf \/ PushFull \/ PushOutcome
  PROVE  \E k \in Kinds : Pushing(k)
<1> USE DEF mainVars, Transition, Pushing, Pushes, Kinds
<1>1. CASE PushStarted
  BY <1>1 DEF PushStarted
<1>2. CASE PushHalf
  BY <1>2 DEF PushHalf
<1>3. CASE PushFull
  BY <1>3 DEF PushFull
<1>4. CASE PushOutcome
  BY <1>4 DEF PushOutcome, TypeOK
<1>5. QED
  BY <1>1, <1>2, <1>3, <1>4

LEMMA EventSteps ==
  ASSUME TypeOK, [Next]_vars
  PROVE  \/ EventsQuiet
         \/ \E k \in Kinds : Pushing(k) /\ (PushStarted \/ PushHalf \/ PushFull \/ PushOutcome)
         \/ DrainEvents \/ RunCallback \/ ResetEvents
<1> USE DEF EventsQuiet, mainVars, workerVars
<1>1. CASE PushStarted \/ PushHalf \/ PushFull \/ PushOutcome
  BY <1>1, PushesPush
<1>2. CASE \/ \E u \in Uploads : PickUpload(u)
           \/ CopyUpload \/ FailPreparation \/ OpenFile \/ SetHalf \/ ReadToken \/ Post
  BY <1>2 DEF PickUpload, CopyUpload, FailPreparation, OpenFile, SetHalf, ReadToken, Post
<1>3. CASE ReportTransfer \/ SetFull \/ CheckAfterTransfer \/ SettleCancelled
           \/ SettleResponse \/ FailOutgoingUpload \/ WorkerExit
  BY <1>3 DEF ReportTransfer, SetFull, CheckAfterTransfer, SettleCancelled, SettleResponse,
     FailOutgoingUpload, WorkerExit
<1>4. CASE Script
  BY <1>4 DEF Script, QueueUpload, CancelUpload
<1>5. CASE ResetUploads \/ StopWorker \/ JoinWorker
  BY <1>5 DEF ResetUploads, StopWorker, JoinWorker
<1>6. CASE UNCHANGED vars
  BY <1>6 DEF vars
<1>7. QED
  BY <1>1, <1>2, <1>3, <1>4, <1>5, <1>6 DEF Next, Worker, Main

LEMMA QuietKeepsEvents ==
  ASSUME EventsQuiet PROVE Undelivered' = Undelivered /\ EventIndices' = EventIndices
BY DEF EventsQuiet, Undelivered, EventIndices

LEMMA DrainKeepsEvents ==
  ASSUME TypeOK, DrainEvents
  PROVE  Undelivered' = Undelivered /\ EventIndices' = EventIndices
<1>1. batch = <<>> /\ batch' = pendingOutgoingEvents /\ pendingOutgoingEvents' = <<>>
  BY DEF DrainEvents
<1>2. pendingOutgoingEvents \in Seq(Events)
  BY DEF TypeOK
<1>3. QED
  BY <1>1, <1>2, ConcatEmptySeq DEF Undelivered, EventIndices

LEMMA ResetDropsEvents ==
  ASSUME TypeOK, ResetEvents
  PROVE  Undelivered' = <<>> /\ EventIndices' = {}
<1>1. batch' = <<>> /\ pendingOutgoingEvents' = <<>>
  BY DEF ResetEvents
<1>2. Undelivered' = <<>>
  BY <1>1, EmptySeq, ConcatEmptySeq DEF Undelivered
<1>3. QED
  BY <1>2 DEF EventIndices

\* The callback takes the first event.
LEMMA CallbackTakesFirst ==
  ASSUME TypeOK, RunCallback
  PROVE  /\ 1 \in EventIndices /\ Head(batch) = Undelivered[1] /\ Head(batch) \in Events
         /\ \A i \in EventIndices' : i + 1 \in EventIndices /\ Undelivered'[i] = Undelivered[i + 1]
         /\ \A i \in EventIndices : i # 1 => i - 1 \in EventIndices'
<1>1. /\ batch # <<>> /\ batch' = Tail(batch)
      /\ pendingOutgoingEvents' = pendingOutgoingEvents
  BY DEF RunCallback
<1>2. batch \in Seq(Events) /\ pendingOutgoingEvents \in Seq(Events)
  BY DEF TypeOK
<1>3. /\ Head(batch) \in Events
      /\ Tail(batch) \in Seq(Events) /\ Len(Tail(batch)) = Len(batch) - 1
      /\ \A i \in 1 .. Len(Tail(batch)) : Tail(batch)[i] = batch[i + 1]
  BY <1>1, <1>2, HeadTailProperties
<1>4. Len(batch) \in Nat \ {0} /\ Len(pendingOutgoingEvents) \in Nat
  BY <1>1, <1>2, EmptySeq, LenProperties
<1>5. /\ Len(Undelivered) = Len(batch) + Len(pendingOutgoingEvents)
      /\ \A i \in 1 .. (Len(batch) + Len(pendingOutgoingEvents)) : Undelivered[i] =
            IF i <= Len(batch) THEN batch[i] ELSE pendingOutgoingEvents[i - Len(batch)]
  BY <1>2, ConcatProperties DEF Undelivered
<1>6. /\ Len(Undelivered') = (Len(batch) - 1) + Len(pendingOutgoingEvents)
      /\ \A i \in 1 .. ((Len(batch) - 1) + Len(pendingOutgoingEvents)) : Undelivered'[i] =
            IF i <= Len(batch) - 1 THEN batch'[i]
            ELSE pendingOutgoingEvents[i - (Len(batch) - 1)]
  BY <1>1, <1>2, <1>3, ConcatProperties DEF Undelivered
<1>7. 1 \in EventIndices /\ Head(batch) = Undelivered[1]
  BY <1>1, <1>2, <1>4, <1>5 DEF EventIndices
<1>8. Len(Undelivered') = Len(Undelivered) - 1 /\ Len(Undelivered) \in Nat \ {0}
  BY <1>4, <1>5, <1>6
<1>9. ASSUME NEW i \in EventIndices'
      PROVE  i + 1 \in EventIndices /\ Undelivered'[i] = Undelivered[i + 1]
  <2>1. i \in 1 .. (Len(Undelivered) - 1)
    BY <1>8, <1>9 DEF EventIndices
  <2>2. CASE i <= Len(batch) - 1
    BY <1>1, <1>3, <1>4, <1>5, <1>6, <2>1, <2>2 DEF EventIndices
  <2>3. CASE ~(i <= Len(batch) - 1)
    <3>1. i - (Len(batch) - 1) = (i + 1) - Len(batch)
      BY <1>4, <2>1
    <3>2. Undelivered'[i] = pendingOutgoingEvents[i - (Len(batch) - 1)]
      BY <1>4, <1>5, <1>6, <2>1, <2>3
    <3>3. /\ i + 1 \in EventIndices
          /\ Undelivered[i + 1] = pendingOutgoingEvents[(i + 1) - Len(batch)]
      BY <1>4, <1>5, <2>1, <2>3 DEF EventIndices
    <3>4. QED
      BY <3>1, <3>2, <3>3
  <2>4. QED
    BY <2>2, <2>3
<1>10. \A i \in EventIndices : i # 1 => i - 1 \in EventIndices'
  BY <1>8 DEF EventIndices
<1>11. QED
  BY <1>3, <1>7, <1>9, <1>10

LEMMA PushAppends ==
  ASSUME TypeOK, job \in Uploads, NEW k \in Kinds, Pushing(k)
  PROVE  Undelivered' = Append(Undelivered, [id |-> job, kind |-> k])
<1>1. PICK e \in Events : e = [id |-> job, kind |-> k]
  BY EventParts
<1>2. pendingOutgoingEvents' = Append(pendingOutgoingEvents, e) /\ batch' = batch
  BY <1>1 DEF Pushing, Push
<1>3. batch \in Seq(Events) /\ pendingOutgoingEvents \in Seq(Events)
  BY DEF TypeOK
<1>4. Append(pendingOutgoingEvents, e) = pendingOutgoingEvents \o <<e>>
  BY <1>3, AppendIsConcat
<1>5. Undelivered' = Undelivered \o <<e>>
  BY <1>2, <1>3, <1>4, ConcatAssociative DEF Undelivered
<1>6. Undelivered \in Seq(Events)
  BY UndeliveredTyped
<1>7. QED
  BY <1>1, <1>5, <1>6, AppendIsConcat

\* A pushed event is the last one.
LEMMA PushAddsLast ==
  ASSUME TypeOK, job \in Uploads, NEW k \in Kinds, Pushing(k)
  PROVE  /\ pendingOutgoingEvents' \in Seq(Events)
         /\ \E n \in EventIndices' :
               /\ EventIndices = EventIndices' \ {n}
               /\ Undelivered'[n] = [id |-> job, kind |-> k]
               /\ \A i \in EventIndices : i < n /\ Undelivered'[i] = Undelivered[i]
<1>1. PICK e \in Events : e = [id |-> job, kind |-> k]
  BY EventParts
<1>2. pendingOutgoingEvents' = Append(pendingOutgoingEvents, e)
  BY <1>1 DEF Pushing, Push
<1>3. pendingOutgoingEvents \in Seq(Events)
  BY DEF TypeOK
<1>6. Undelivered \in Seq(Events) /\ Len(Undelivered) \in Nat
  BY UndeliveredTyped, LenProperties
<1>7. Undelivered' = Append(Undelivered, e)
  BY <1>1, PushAppends
<1>8. /\ Len(Undelivered') = Len(Undelivered) + 1
      /\ \A i \in 1 .. Len(Undelivered) : Undelivered'[i] = Undelivered[i]
      /\ Undelivered'[Len(Undelivered) + 1] = e
  BY <1>6, <1>7, AppendProperties
<1>9. PICK n \in Nat : n = Len(Undelivered) + 1
  BY <1>6
<1>10. /\ n \in EventIndices' /\ EventIndices = EventIndices' \ {n} /\ Undelivered'[n] = e
       /\ \A i \in EventIndices : i < n /\ Undelivered'[i] = Undelivered[i]
  BY <1>6, <1>8, <1>9 DEF EventIndices
<1>11. pendingOutgoingEvents' \in Seq(Events)
  BY <1>2, <1>3, AppendProperties
<1>12. QED
  BY <1>1, <1>10, <1>11

\* A callback appends its event to what the script has heard of the upload.
LEMMA CallbackTells ==
  ASSUME TypeOK, RunCallback
  PROVE  LET e == Undelivered[1]
             n == Len(heard[e.id]) + 1
         IN  /\ e \in Events /\ e.id \in Uploads
             /\ \A u \in Uploads : u # e.id => heard'[u] = heard[u]
             /\ n \in Nat /\ 1 .. Len(heard'[e.id]) = 1 .. n /\ heard'[e.id][n] = e
             /\ \A i \in 1 .. n : i # n => i < n /\ i \in 1 .. Len(heard[e.id])
                                           /\ heard'[e.id][i] = heard[e.id][i]
<1> DEFINE e == Undelivered[1]
<1>1. e \in Events /\ e = Head(batch) /\ e.id \in Uploads
  BY CallbackTakesFirst, EventParts
<1>2. heard[e.id] \in Seq(Events) /\ Len(heard[e.id]) \in Nat
  BY <1>1, HeardTyped
<1>3. heard' = [heard EXCEPT ![e.id] = Append(heard[e.id], e)]
  BY <1>1 DEF RunCallback
<1>4. heard'[e.id] = Append(heard[e.id], e) /\ \A u \in Uploads : u # e.id => heard'[u] = heard[u]
  BY <1>1, <1>3 DEF TypeOK
<1> HIDE DEF e
<1>5. /\ Len(heard'[e.id]) = Len(heard[e.id]) + 1
      /\ \A i \in 1 .. Len(heard[e.id]) : heard'[e.id][i] = heard[e.id][i]
      /\ heard'[e.id][Len(heard[e.id]) + 1] = e
  BY <1>1, <1>2, <1>4, AppendProperties
<1>6. QED
  BY <1>1, <1>2, <1>4, <1>5 DEF e

-----------------------------------------------------------------------------
(* Types, the worker, and the ids not given out.                           *)

LEMMA InitInv == Init => IInv
<1> SUFFICES ASSUME Init PROVE IInv
  OBVIOUS
<1> USE BoundsAssumption, UploadsAreNumbers DEF Init
<1>1. TypeOK
  BY EmptySeq DEF TypeOK, Results, Outcomes, NoUpload
<1>2. Undelivered = <<>> /\ EventIndices = {}
  BY EmptySeq, ConcatEmptySeq DEF Undelivered, EventIndices
<1>3. \A u \in Uploads : 1 .. Len(heard[u]) = {}
  BY EmptySeq
<1>4. WorkerInv /\ FreshInv
  BY DEF WorkerInv, FreshInv, Uploads, NoUpload
<1>5. \A e \in Events : ~Told(e)
  BY <1>2, <1>3, EventParts DEF Told, Heard, OnWay
<1>6. ToldInv /\ StartedInv
  BY <1>5 DEF ToldInv, StartedInv
<1>7. OrderInv
  BY <1>2, <1>3 DEF OrderInv, HeardInOrder, WayAfterHeard, WayInOrder
<1>8. QED
  BY <1>1, <1>4, <1>6, <1>7 DEF IInv

\* The worker has an upload whenever it is not between two.
LEMMA WorkerHasJob ==
  ASSUME TypeOK, WorkerInv, pc \notin {"loop", "exited"} PROVE job \in Uploads
BY DEF TypeOK, WorkerInv

LEMMA PushedType ==
  ASSUME TypeOK, WorkerInv, NEW k \in Kinds, Pushing(k)
  PROVE  pendingOutgoingEvents' \in Seq(Events) /\ job \in Uploads
<1>1. job \in Uploads
  BY WorkerHasJob DEF Pushing, Pushes
<1>2. QED
  BY <1>1, PushAddsLast

LEMMA StepType == IInv /\ [Next]_vars => TypeOK'
<1> SUFFICES ASSUME IInv, [Next]_vars PROVE TypeOK'
  OBVIOUS
<1>1. TypeOK /\ WorkerInv
  BY DEF IInv
<1> USE <1>1 DEF Transition, uploadVars, workerVars, mainVars
<1>2. ASSUME NEW u \in Uploads, PickUpload(u) PROVE TypeOK'
  BY <1>2 DEF PickUpload, TypeOK, Statuses
<1>3. CASE CopyUpload \/ FailPreparation \/ ReadToken
  BY <1>3 DEF CopyUpload, FailPreparation, ReadToken, TypeOK
<1>4. CASE ReportTransfer \/ CheckAfterTransfer \/ WorkerExit
  BY <1>4 DEF ReportTransfer, CheckAfterTransfer, WorkerExit, TypeOK
<1>5. CASE OpenFile \/ Post
  BY <1>5 DEF OpenFile, Post, TypeOK, Results
<1>6. CASE SetHalf \/ SetFull
  <2>1. PICK pct \in {50, 100} : SetProgress(pct)
    BY <1>6 DEF SetHalf, SetFull
  <2>2. progressPct \in [Uploads -> {0, 50, 100}]
    BY DEF TypeOK
  <2>3. progressPct' \in [Uploads -> {0, 50, 100}]
    BY <2>1, <2>2 DEF SetProgress
  <2>4. QED
    BY <1>6, <2>3 DEF SetHalf, SetFull, TypeOK
<1>7. CASE SettleCancelled \/ FailOutgoingUpload
  <2>1. outgoingUploads' \in [Uploads -> Statuses \cup {"absent"}]
    BY <1>7 DEF SettleCancelled, FailOutgoingUpload, SetStatus, TypeOK, Statuses
  <2>2. QED
    BY <1>7, <2>1 DEF SettleCancelled, FailOutgoingUpload, TypeOK, Outcomes
<1>8. CASE SettleResponse
  <2>1. PICK o \in {"Completed", "Failed"} : o = outcome'
    BY <1>8 DEF SettleResponse
  <2>2. QED
    BY <1>8, <2>1 DEF SettleResponse, SetStatus, SetProgress, TypeOK, Statuses, Outcomes
<1>9. ASSUME NEW k \in Kinds, Pushing(k), PushStarted \/ PushHalf \/ PushFull \/ PushOutcome
      PROVE  TypeOK'
  <2>1. pendingOutgoingEvents' \in Seq(Events)
    BY <1>9, PushedType
  <2>2. CASE PushStarted
    BY <2>1, <2>2, <1>9 DEF PushStarted, TypeOK
  <2>3. CASE PushHalf
    BY <2>1, <2>3, <1>9 DEF PushHalf, TypeOK
  <2>4. CASE PushFull
    BY <2>1, <2>4, <1>9 DEF PushFull, TypeOK
  <2>5. CASE PushOutcome
    BY <2>1, <2>5, <1>9 DEF PushOutcome, TypeOK, Results, Outcomes
  <2>6. QED
    BY <1>9, <2>2, <2>3, <2>4, <2>5
<1>10. ASSUME NEW raw \in BOOLEAN, QueueUpload(raw) PROVE TypeOK'
  <2>1. nextOutgoingId \in Uploads /\ nextOutgoingId + 1 \in 0 .. MaxUploads
    BY <1>10, BoundsAssumption DEF QueueUpload, TypeOK, Uploads
  <2>2. QED
    BY <1>10, <2>1 DEF QueueUpload, TypeOK, Statuses
<1>11. ASSUME NEW u \in Uploads, CancelUpload(u) PROVE TypeOK'
  BY <1>11 DEF CancelUpload, TypeOK, Statuses
<1>12. CASE DrainEvents
  BY <1>12, EmptySeq DEF DrainEvents, TypeOK
<1>13. CASE RunCallback
  <2>1. batch' = Tail(batch) /\ batch # <<>>
    BY <1>13 DEF RunCallback
  <2>2. batch' \in Seq(Events) /\ Head(batch) \in Events
    BY <2>1, HeadTailProperties DEF TypeOK
  <2>3. heard' \in [Uploads -> Seq(Events)]
    BY <1>13, <2>2, EventParts, AppendProperties DEF RunCallback, TypeOK
  <2>4. QED
    BY <1>13, <2>2, <2>3 DEF RunCallback, TypeOK
<1>14. CASE ResetEvents
  <2>1. resets + 1 \in 0 .. MaxResets
    BY <1>14, BoundsAssumption DEF ResetEvents, TypeOK
  <2>2. pendingOutgoingEvents' \in Seq(Events)
    BY <1>14, EmptySeq DEF ResetEvents
  <2>3. QED
    BY <1>14, <2>1, <2>2 DEF ResetEvents, TypeOK
<1>15. CASE ResetUploads \/ StopWorker \/ JoinWorker
  <2>1. outgoingUploads' \in [Uploads -> Statuses \cup {"absent"}]
    BY <1>15 DEF ResetUploads, StopWorker, JoinWorker, TypeOK
  <2>2. mpc' \in {"script", "join", "gone"} /\ uploadWorkerRunning' \in BOOLEAN
    BY <1>15 DEF ResetUploads, StopWorker, JoinWorker, TypeOK
  <2>3. QED
    BY <1>15, <2>1, <2>2 DEF ResetUploads, StopWorker, JoinWorker, TypeOK
<1>16. CASE UNCHANGED vars
  BY <1>16 DEF vars, TypeOK
<1>17. CASE PushStarted \/ PushHalf \/ PushFull \/ PushOutcome
  BY <1>9, <1>17, PushesPush
<1>18. QED
  BY <1>2, <1>3, <1>4, <1>5, <1>6, <1>7, <1>8, <1>10, <1>11, <1>12, <1>13, <1>14, <1>15,
     <1>16, <1>17 DEF Next, Worker, Script, Main

\* The status of an upload from one step to the next.
StatusSteps(u) ==
    \/ outgoingUploads'[u] = outgoingUploads[u]
    \/ PickUpload(u) /\ outgoingUploads'[u] = "Uploading"
    \/ CancelUpload(u) /\ outgoingUploads'[u] = "Cancelled"
    \/ /\ \E raw \in BOOLEAN : QueueUpload(raw)
       /\ u = nextOutgoingId /\ outgoingUploads'[u] = "Pending"
    \/ ResetUploads /\ outgoingUploads'[u] = "absent"
    \/ /\ SettleCancelled \/ SettleResponse \/ FailOutgoingUpload
       /\ u = job /\ outgoingUploads[u] # "absent" /\ outgoingUploads'[u] = outcome'

LEMMA StatusChanges ==
  ASSUME TypeOK, WorkerInv, [Next]_vars, NEW u \in Uploads PROVE StatusSteps(u)
<1> USE UploadsAreNumbers DEF TypeOK, uploadVars, StatusSteps, Transition
<1>1. CASE \E v \in Uploads : PickUpload(v)
  BY <1>1 DEF PickUpload
<1>2. CASE CopyUpload \/ PushStarted \/ FailPreparation \/ OpenFile \/ SetHalf \/ PushHalf
           \/ ReadToken \/ Post \/ ReportTransfer \/ SetFull \/ PushFull \/ CheckAfterTransfer
           \/ PushOutcome \/ WorkerExit
  BY <1>2 DEF CopyUpload, PushStarted, FailPreparation, OpenFile, SetHalf, PushHalf, ReadToken,
     Post, ReportTransfer, SetFull, PushFull, CheckAfterTransfer, PushOutcome, WorkerExit
<1>3. CASE SettleCancelled
  <2>1. job \in Uploads
    BY <1>3, WorkerHasJob DEF SettleCancelled
  <2>2. QED
    BY <1>3, <2>1 DEF SettleCancelled, SetStatus
<1>4. CASE SettleResponse
  <2>1. job \in Uploads
    BY <1>4, WorkerHasJob DEF SettleResponse
  <2>2. PICK o : o = outcome'
    OBVIOUS
  <2>3. outgoingUploads' =
          [outgoingUploads EXCEPT ![job] = IF @ = "absent" THEN @ ELSE o]
    BY <1>4, <2>2 DEF SettleResponse, SetStatus
  <2>4. QED
    BY <1>4, <2>1, <2>2, <2>3
<1>5. CASE FailOutgoingUpload
  <2>1. job \in Uploads
    BY <1>5, WorkerHasJob DEF FailOutgoingUpload
  <2>2. QED
    BY <1>5, <2>1 DEF FailOutgoingUpload, SetStatus
<1>6. ASSUME NEW raw \in BOOLEAN, QueueUpload(raw) PROVE StatusSteps(u)
  <2>1. nextOutgoingId \in Uploads
    BY <1>6, BoundsAssumption DEF QueueUpload, Uploads
  <2>2. QED
    BY <1>6, <2>1 DEF QueueUpload
<1>7. CASE \E v \in Uploads : CancelUpload(v)
  BY <1>7 DEF CancelUpload
<1>8. CASE DrainEvents \/ RunCallback \/ ResetEvents \/ StopWorker \/ JoinWorker
  BY <1>8 DEF DrainEvents, RunCallback, ResetEvents, StopWorker, JoinWorker
<1>9. CASE ResetUploads
  BY <1>9 DEF ResetUploads
<1>10. CASE UNCHANGED vars
  BY <1>10 DEF vars
<1>11. QED
  BY <1>1, <1>2, <1>3, <1>4, <1>5, <1>6, <1>7, <1>8, <1>9, <1>10 DEF Next, Worker, Script, Main

LEMMA StepWorker == IInv /\ [Next]_vars => WorkerInv'
<1> SUFFICES ASSUME IInv, [Next]_vars PROVE WorkerInv'
  OBVIOUS
<1>1. TypeOK /\ WorkerInv /\ FreshInv
  BY DEF IInv
<1> USE <1>1, UploadsAreNumbers DEF WorkerInv, Transition, uploadVars, Present
<1>2. ASSUME NEW u \in Uploads, PickUpload(u) PROVE WorkerInv'
  BY <1>2 DEF PickUpload, TypeOK
<1>3. CASE CopyUpload \/ PushStarted \/ FailPreparation \/ OpenFile \/ PushHalf \/ ReadToken
           \/ Post
  BY <1>3 DEF CopyUpload, PushStarted, FailPreparation, OpenFile, PushHalf, ReadToken, Post
<1>4. CASE SetHalf \/ ReportTransfer \/ SetFull \/ PushFull \/ CheckAfterTransfer \/ PushOutcome
           \/ WorkerExit
  BY <1>4 DEF SetHalf, ReportTransfer, SetFull, PushFull, CheckAfterTransfer, PushOutcome,
     WorkerExit
<1>5. CASE SettleCancelled \/ SettleResponse \/ FailOutgoingUpload
  <2>1. pc' = "push" /\ job' = job /\ job \in Uploads /\ pc \notin {"loop", "exited"}
    BY <1>5, WorkerHasJob DEF SettleCancelled, SettleResponse, FailOutgoingUpload
  <2>2. PICK o : o = outcome'
    OBVIOUS
  <2>3. outgoingUploads' =
          [outgoingUploads EXCEPT ![job] = IF @ = "absent" THEN @ ELSE o]
    BY <1>5, <2>2 DEF SettleCancelled, SettleResponse, FailOutgoingUpload, SetStatus
  <2>4. outgoingUploads'[job] # "absent" => outgoingUploads'[job] = o
    BY <2>1, <2>3 DEF TypeOK
  <2>5. QED
    BY <2>1, <2>2, <2>4
<1>6. ASSUME Main PROVE WorkerInv'
  <2>1. UNCHANGED <<pc, job, outcome>>
    BY <1>6 DEF Main, Script, QueueUpload, CancelUpload, DrainEvents, RunCallback, ResetEvents,
       ResetUploads, StopWorker, JoinWorker, workerVars
  <2>2. CASE job = NoUpload
    BY <2>1, <2>2
  <2>3. CASE job # NoUpload
    <3>1. job \in Uploads /\ job # nextOutgoingId
      BY <2>3 DEF TypeOK, FreshInv
    <3>2. \/ outgoingUploads'[job] = outgoingUploads[job]
          \/ CancelUpload(job) /\ outgoingUploads'[job] = "Cancelled"
          \/ outgoingUploads'[job] = "absent"
      <4>1. /\ \A u \in Uploads : ~PickUpload(u)
            /\ ~(SettleCancelled \/ SettleResponse \/ FailOutgoingUpload)
        BY <2>1 DEF PickUpload, SettleCancelled, SettleResponse, FailOutgoingUpload
      <4>2. StatusSteps(job)
        BY <1>6, <3>1, StatusChanges
      <4>3. QED
        BY <3>1, <4>1, <4>2 DEF StatusSteps
    <3>3. CASE outgoingUploads'[job] = outgoingUploads[job]
      BY <2>1, <3>3
    <3>4. CASE CancelUpload(job) /\ outgoingUploads'[job] = "Cancelled"
      <4>1. pc # "push"
        BY <3>1, <3>4 DEF CancelUpload, TypeOK, Outcomes
      <4>2. QED
        BY <2>1, <2>3, <3>4, <4>1
    <3>5. CASE outgoingUploads'[job] = "absent"
      BY <2>1, <2>3, <3>5
    <3>6. QED
      BY <3>2, <3>3, <3>4, <3>5
  <2>4. QED
    BY <2>2, <2>3
<1>7. CASE UNCHANGED vars
  BY <1>7 DEF vars, workerVars
<1>8. QED
  BY <1>2, <1>3, <1>4, <1>5, <1>6, <1>7 DEF Next, Worker

\* The ids that were given out only grow, and only here.
LEMMA IdsGrow ==
  ASSUME TypeOK, [Next]_vars
  PROVE  /\ nextOutgoingId \in Nat /\ nextOutgoingId' \in Nat
         /\ nextOutgoingId' = nextOutgoingId \/ \E raw \in BOOLEAN : QueueUpload(raw)
         /\ (\E raw \in BOOLEAN : QueueUpload(raw)) => nextOutgoingId' = nextOutgoingId + 1
         /\ nextOutgoingId <= nextOutgoingId'
<1>1. nextOutgoingId \in Nat
  BY BoundsAssumption DEF TypeOK
<1>2. nextOutgoingId' = nextOutgoingId \/ \E raw \in BOOLEAN : QueueUpload(raw)
  <2> USE DEF uploadVars
  <2>1. CASE UNCHANGED vars
    BY <2>1 DEF vars
  <2>2. CASE Main
    BY <2>2 DEF Main, Script, CancelUpload, DrainEvents, RunCallback, ResetEvents, ResetUploads,
       StopWorker, JoinWorker
  <2>3. CASE Worker
    BY <2>3 DEF Worker, PickUpload, CopyUpload, PushStarted, FailPreparation, OpenFile, SetHalf,
       PushHalf, ReadToken, Post, ReportTransfer, SetFull, PushFull, CheckAfterTransfer,
       SettleCancelled, SettleResponse, FailOutgoingUpload, PushOutcome, WorkerExit
  <2>4. QED
    BY <2>1, <2>2, <2>3 DEF Next
<1>3. (\E raw \in BOOLEAN : QueueUpload(raw)) => nextOutgoingId' = nextOutgoingId + 1
  BY DEF QueueUpload
<1>4. QED
  BY <1>1, <1>2, <1>3

\* The worker's upload is one it had or one it picks.
LEMMA JobSteps ==
  ASSUME [Next]_vars
  PROVE  job' = job \/ job' = NoUpload \/ \E u \in Uploads : job' = u /\ PickUpload(u)
<1> USE DEF workerVars
<1>1. CASE UNCHANGED vars
  BY <1>1 DEF vars
<1>2. CASE Main
  BY <1>2 DEF Main, Script, QueueUpload, CancelUpload, DrainEvents, RunCallback, ResetEvents,
     ResetUploads, StopWorker, JoinWorker
<1>3. CASE Worker
  BY <1>3 DEF Worker, PickUpload, CopyUpload, PushStarted, FailPreparation, OpenFile, SetHalf,
     PushHalf, ReadToken, Post, ReportTransfer, SetFull, PushFull, CheckAfterTransfer,
     SettleCancelled, SettleResponse, FailOutgoingUpload, PushOutcome, WorkerExit
<1>4. QED
  BY <1>1, <1>2, <1>3 DEF Next

LEMMA StepFresh == IInv /\ [Next]_vars => FreshInv'
<1> SUFFICES ASSUME IInv, [Next]_vars PROVE FreshInv'
  OBVIOUS
<1>1. TypeOK /\ WorkerInv /\ FreshInv
  BY DEF IInv
<1>2. PICK n \in Nat : n = nextOutgoingId
  BY <1>1, IdsGrow
<1>3. PICK m \in Nat : m = nextOutgoingId' /\ n <= m
  BY <1>1, <1>2, IdsGrow
<1>4. ASSUME NEW u \in Uploads, u >= m PROVE outgoingUploads'[u] = "absent"
  <2>1. u \in Nat /\ outgoingUploads[u] = "absent"
    BY <1>1, <1>2, <1>3, <1>4, UploadsAreNumbers DEF FreshInv
  <2>2. CASE \E raw \in BOOLEAN : QueueUpload(raw)
    <3>1. u # nextOutgoingId
      BY <1>1, <1>2, <1>3, <1>4, <2>1, <2>2, IdsGrow
    <3>2. QED
      BY <1>1, <2>1, <2>2, <3>1 DEF QueueUpload, TypeOK
  <2>3. CASE ~\E raw \in BOOLEAN : QueueUpload(raw)
    <3>1. StatusSteps(u)
      BY <1>1, StatusChanges
    <3>2. QED
      BY <2>1, <2>3, <3>1 DEF StatusSteps, PickUpload, CancelUpload
  <2>4. QED
    BY <2>2, <2>3
<1>5. job' < m
  <2>1. CASE job' = job
    <3>1. job \in Int
      BY <1>1, UploadsAreNumbers DEF TypeOK
    <3>2. QED
      BY <1>1, <1>2, <1>3, <2>1, <3>1 DEF FreshInv
  <2>2. CASE job' = NoUpload
    BY <1>3, <2>2 DEF NoUpload
  <2>3. ASSUME NEW u \in Uploads, job' = u, PickUpload(u) PROVE job' < m
    <3>1. u \in Nat /\ outgoingUploads[u] # "absent"
      BY <2>3, UploadsAreNumbers DEF PickUpload
    <3>2. u < n
      BY <1>1, <1>2, <3>1 DEF FreshInv
    <3>3. QED
      BY <1>3, <2>3, <3>1, <3>2
  <2>4. QED
    BY <2>1, <2>2, <2>3, JobSteps
<1>6. QED
  BY <1>3, <1>4, <1>5 DEF FreshInv

-----------------------------------------------------------------------------
(* What was told of an upload.                                             *)

LEMMA CallbackKeepsTold ==
  ASSUME TypeOK, RunCallback, NEW e \in Events
  PROVE  Told(e)' <=> Told(e)
<1>1. PICK f : f = Undelivered[1]
  OBVIOUS
<1>2. PICK n \in Nat :
        /\ n = Len(heard[f.id]) + 1 /\ 1 .. Len(heard'[f.id]) = 1 .. n /\ heard'[f.id][n] = f
        /\ \A i \in 1 .. n : i # n => i < n /\ i \in 1 .. Len(heard[f.id])
                                      /\ heard'[f.id][i] = heard[f.id][i]
  BY <1>1, CallbackTells
<1>3. f.id \in Uploads /\ \A u \in Uploads : u # f.id => heard'[u] = heard[u]
  BY <1>1, CallbackTells
<1>4. /\ 1 \in EventIndices
      /\ \A i \in EventIndices' : i + 1 \in EventIndices /\ Undelivered'[i] = Undelivered[i + 1]
      /\ \A i \in EventIndices : i # 1 => i - 1 \in EventIndices'
  BY CallbackTakesFirst
<1>5. e.id \in Uploads
  BY EventParts
<1>6. ASSUME Told(e)' PROVE Told(e)
  <2>1. CASE OnWay(e)'
    BY <1>4, <2>1 DEF OnWay, Told
  <2>2. CASE Heard(e)'
    <3>1. PICK i \in 1 .. Len(heard'[e.id]) : heard'[e.id][i] = e
      BY <2>2 DEF Heard
    <3>2. CASE e.id # f.id
      BY <1>3, <1>5, <3>1, <3>2 DEF Heard, Told
    <3>3. CASE e.id = f.id /\ i = n
      BY <1>1, <1>2, <1>4, <3>1, <3>3 DEF OnWay, Told
    <3>4. CASE e.id = f.id /\ i # n
      BY <1>2, <3>1, <3>4 DEF Heard, Told
    <3>5. QED
      BY <3>2, <3>3, <3>4
  <2>3. QED
    BY <1>6, <2>1, <2>2 DEF Told
<1>7. ASSUME Told(e) PROVE Told(e)'
  <2>1. CASE Heard(e)
    <3>1. PICK i \in 1 .. Len(heard[e.id]) : heard[e.id][i] = e
      BY <2>1 DEF Heard
    <3>2. CASE e.id # f.id
      BY <1>3, <1>5, <3>1, <3>2 DEF Heard, Told
    <3>3. CASE e.id = f.id
      <4>1. i \in 1 .. n /\ i # n
        BY <1>2, <3>1, <3>3
      <4>2. i \in 1 .. Len(heard'[e.id]) /\ heard'[e.id][i] = e
        BY <1>2, <3>1, <3>3, <4>1
      <4>3. QED
        BY <4>2 DEF Heard, Told
    <3>4. QED
      BY <3>2, <3>3
  <2>2. CASE OnWay(e)
    <3>1. PICK i \in EventIndices : Undelivered[i] = e
      BY <2>2 DEF OnWay
    <3>2. CASE i = 1
      <4>1. n \in 1 .. Len(heard'[e.id]) /\ heard'[e.id][n] = e
        BY <1>1, <1>2, <3>1, <3>2
      <4>2. QED
        BY <4>1 DEF Heard, Told
    <3>3. CASE i # 1
      <4>1. i - 1 \in EventIndices' /\ (i - 1) + 1 = i
        BY <1>4, <3>3 DEF EventIndices
      <4>2. Undelivered'[i - 1] = e
        BY <1>4, <3>1, <4>1
      <4>3. QED
        BY <4>1, <4>2 DEF OnWay, Told
    <3>4. QED
      BY <3>2, <3>3
  <2>3. QED
    BY <1>7, <2>1, <2>2 DEF Told
<1>8. QED
  BY <1>6, <1>7

\* A push tells its event, and the rest stays told.
LEMMA PushTells ==
  ASSUME TypeOK, WorkerInv, NEW k \in Kinds, Pushing(k), NEW e \in Events
  PROVE  /\ job \in Uploads /\ heard' = heard
         /\ Told(e)' <=> Told(e) \/ e = [id |-> job, kind |-> k]
<1>1. job \in Uploads /\ heard' = heard
  BY WorkerHasJob DEF Pushing, Pushes
<1>2. PICK n \in EventIndices' :
        /\ EventIndices = EventIndices' \ {n} /\ Undelivered'[n] = [id |-> job, kind |-> k]
        /\ \A i \in EventIndices : i < n /\ Undelivered'[i] = Undelivered[i]
  BY <1>1, PushAddsLast
<1>3. OnWay(e)' <=> OnWay(e) \/ e = [id |-> job, kind |-> k]
  BY <1>2 DEF OnWay
<1>4. QED
  BY <1>1, <1>3 DEF Told, Heard

LEMMA ToldSteps ==
  ASSUME TypeOK, WorkerInv, [Next]_vars, NEW e \in Events
  PROVE  /\ Told(e)' => \/ Told(e)
                        \/ \E k \in Kinds : /\ Pushing(k) /\ e = [id |-> job, kind |-> k]
                                            /\ PushStarted \/ PushHalf \/ PushFull \/ PushOutcome
         /\ Told(e) /\ ~ResetEvents => Told(e)'
<1>1. CASE EventsQuiet \/ DrainEvents
  <2>1. Undelivered' = Undelivered /\ EventIndices' = EventIndices /\ heard' = heard
    BY <1>1, QuietKeepsEvents, DrainKeepsEvents DEF EventsQuiet, DrainEvents
  <2>2. QED
    BY <2>1 DEF Told, Heard, OnWay
<1>2. ASSUME NEW k \in Kinds, Pushing(k), PushStarted \/ PushHalf \/ PushFull \/ PushOutcome
      PROVE  /\ Told(e)' => Told(e) \/ e = [id |-> job, kind |-> k]
             /\ Told(e) => Told(e)'
  BY <1>2, PushTells
<1>3. CASE RunCallback
  BY <1>3, CallbackKeepsTold
<1>4. CASE ResetEvents
  <2>1. EventIndices' = {} /\ heard' = heard
    BY <1>4, ResetDropsEvents DEF ResetEvents
  <2>2. QED
    BY <1>4, <2>1 DEF Told, Heard, OnWay
<1>5. QED
  BY <1>1, <1>2, <1>3, <1>4, EventSteps

\* The rank of the next event does not fall while an upload is worked on.
LEMMA NextRankRises ==
  ASSUME TypeOK, [Next]_vars, job' = job, job # NoUpload, WorkerInv
  PROVE  NextRank \in 1 .. 4 /\ NextRank' \in 1 .. 4 /\ NextRank <= NextRank'
<1> USE DEF NextRank, Transition
<1>1. CASE UNCHANGED vars
  BY <1>1 DEF vars, workerVars
<1>2. CASE Main
  BY <1>2 DEF Main, Script, QueueUpload, CancelUpload, DrainEvents, RunCallback, ResetEvents,
     ResetUploads, StopWorker, JoinWorker, workerVars
<1>3. CASE (\E u \in Uploads : PickUpload(u)) \/ PushOutcome \/ WorkerExit
  BY <1>3 DEF PickUpload, PushOutcome, WorkerExit, WorkerInv
<1>4. CASE CopyUpload \/ PushStarted \/ FailPreparation \/ OpenFile
  BY <1>4 DEF CopyUpload, PushStarted, FailPreparation, OpenFile
<1>5. CASE SetHalf \/ PushHalf \/ ReadToken \/ Post \/ ReportTransfer
  BY <1>5 DEF SetHalf, PushHalf, ReadToken, Post, ReportTransfer
<1>6. CASE SetFull \/ PushFull \/ CheckAfterTransfer
  BY <1>6 DEF SetFull, PushFull, CheckAfterTransfer
<1>7. CASE SettleCancelled \/ SettleResponse \/ FailOutgoingUpload
  BY <1>7 DEF SettleCancelled, SettleResponse, FailOutgoingUpload
<1>8. QED
  BY <1>1, <1>2, <1>3, <1>4, <1>5, <1>6, <1>7 DEF Next, Worker

LEMMA StepTold == IInv /\ [Next]_vars => ToldInv'
<1> SUFFICES ASSUME IInv, [Next]_vars, NEW e \in Events, Told(e)' PROVE ToldOf(e)'
  BY DEF ToldInv
<1>1. TypeOK /\ WorkerInv /\ FreshInv /\ ToldInv
  BY DEF IInv
<1>2. e.id \in Uploads /\ e.kind \in Kinds /\ e.id \in Nat /\ Rank[e.kind] \in 1 .. 4
  BY EventParts, UploadsAreNumbers, Ranks
<1>3. PICK n \in Nat : n = nextOutgoingId
  BY <1>1, IdsGrow
<1>4. PICK m \in Nat : m = nextOutgoingId' /\ n <= m
  BY <1>1, <1>3, IdsGrow
<1>5. CASE Told(e)
  <2>1. ToldOf(e)
    BY <1>1, <1>5 DEF ToldInv
  <2>2. e.id < n /\ e.id # nextOutgoingId /\ outgoingUploads[e.id] # "Pending"
    BY <1>2, <1>3, <2>1 DEF ToldOf
  <2>3. e.id < m
    BY <1>2, <1>4, <2>2
  <2>4. StatusSteps(e.id)
    BY <1>1, <1>2, StatusChanges
  <2>5. outgoingUploads'[e.id] # "Pending"
    <3>1. outcome' # "Pending"
      <4>1. TypeOK'
        BY StepType
      <4>2. QED
        BY <4>1 DEF TypeOK, Outcomes
    <3>2. QED
      BY <2>2, <2>4, <3>1 DEF StatusSteps
  <2>6. ASSUME job' = e.id PROVE Rank[e.kind] < NextRank'
    <3>1. job' = job /\ job # NoUpload
      BY <1>2, <2>2, <2>6, JobSteps, UploadsAreNumbers DEF PickUpload
    <3>2. Rank[e.kind] < NextRank
      BY <2>1, <2>6, <3>1 DEF ToldOf
    <3>3. QED
      BY <1>1, <1>2, <3>1, <3>2, NextRankRises
  <2>7. ASSUME outgoingUploads'[e.id] # "absent", e.kind \in Outcomes
        PROVE  outgoingUploads'[e.id] = e.kind
    <3>1. Rank[e.kind] = 4
      BY <2>7, Ranks
    <3>2. ~((SettleCancelled \/ SettleResponse \/ FailOutgoingUpload) /\ e.id = job)
      BY <2>1, <3>1 DEF SettleCancelled, SettleResponse, FailOutgoingUpload, Transition, ToldOf,
         NextRank
    <3>3. ~CancelUpload(e.id) \/ outgoingUploads[e.id] # e.kind
      BY <2>7 DEF CancelUpload, Outcomes
    <3>4. outgoingUploads[e.id] # "absent" => outgoingUploads[e.id] = e.kind
      BY <2>1, <2>7 DEF ToldOf, Present
    <3>5. CASE outgoingUploads'[e.id] = outgoingUploads[e.id]
      BY <2>7, <3>4, <3>5
    <3>6. CASE outgoingUploads'[e.id] # outgoingUploads[e.id]
      BY <2>2, <2>4, <2>7, <3>2, <3>3, <3>4, <3>6 DEF StatusSteps, PickUpload, CancelUpload
    <3>7. QED
      BY <3>5, <3>6
  <2>8. QED
    BY <1>4, <2>3, <2>5, <2>6, <2>7 DEF ToldOf, Present
<1>6. ASSUME NEW k \in Kinds, Pushing(k), e = [id |-> job, kind |-> k],
             PushStarted \/ PushHalf \/ PushFull \/ PushOutcome
      PROVE  ToldOf(e)'
  <2>1. e.id = job /\ e.kind = k /\ job \in Uploads
    BY <1>1, <1>6, PushTells
  <2>2. /\ outgoingUploads' = outgoingUploads /\ m = n
    BY <1>3, <1>4, <1>6 DEF Pushing, uploadVars
  <2>3. e.id < m
    BY <1>1, <1>3, <2>1, <2>2 DEF FreshInv
  <2>4. outgoingUploads[job] # "Pending"
    <3>1. pc = "push" => outcome # "Pending"
      BY <1>1 DEF TypeOK, Outcomes
    <3>2. QED
      BY <1>1, <2>1, <3>1, UploadsAreNumbers DEF WorkerInv, Present
  <2>5. job' = job => Rank[k] < NextRank'
    <3>1. CASE PushStarted
      BY <1>6, <3>1, Ranks DEF PushStarted, Transition, Pushing, Pushes, NextRank
    <3>2. CASE PushHalf
      BY <1>6, <3>2, Ranks DEF PushHalf, Transition, Pushing, Pushes, NextRank
    <3>3. CASE PushFull
      BY <1>6, <3>3, Ranks DEF PushFull, Transition, Pushing, Pushes, NextRank
    <3>4. CASE PushOutcome
      BY <2>1, <3>4, UploadsAreNumbers DEF PushOutcome
    <3>5. QED
      BY <1>6, <3>1, <3>2, <3>3, <3>4
  <2>6. outgoingUploads[job] # "absent" /\ k \in Outcomes => outgoingUploads[job] = k
    <3>1. k \in Outcomes => pc = "push" /\ k = outcome
      BY <1>6 DEF Pushing, Pushes, Outcomes
    <3>2. QED
      BY <1>1, <3>1 DEF WorkerInv, Present
  <2>7. job' = job \/ job' # e.id
    BY <2>1
  <2>8. QED
    BY <1>4, <2>1, <2>2, <2>3, <2>4, <2>5, <2>6, <2>7 DEF ToldOf, Present
<1>7. QED
  BY <1>1, <1>5, <1>6, ToldSteps

\* The beginning stays told, and an upload that appears has nothing told yet.
LEMMA StepStarted == IInv /\ [Next]_vars => StartedInv'
<1> SUFFICES ASSUME IInv, [Next]_vars, mpc' # "resetUploads" PROVE StartedInv'
  BY DEF StartedInv
<1>1. TypeOK /\ WorkerInv /\ FreshInv /\ ToldInv /\ StartedInv
  BY DEF IInv
<1>2. CASE ResetUploads
  <2>1. \A u \in Uploads : outgoingUploads'[u] = "absent"
    BY <1>2 DEF ResetUploads
  <2>2. job' = NoUpload \/ job' \in Uploads
    BY <1>1, <1>2 DEF ResetUploads, workerVars, TypeOK
  <2>3. QED
    BY <2>1, <2>2, EventParts DEF StartedInv, Present
<1>3. CASE ~ResetUploads
  <2>1. ~ResetEvents /\ mpc # "resetUploads"
    <3>1. mpc = "resetUploads" => ResetUploads \/ mpc' = mpc
      <4>1. CASE Worker \/ UNCHANGED vars
        BY <4>1 DEF Worker, PickUpload, CopyUpload, PushStarted, FailPreparation, OpenFile,
           SetHalf, PushHalf, ReadToken, Post, ReportTransfer, SetFull, PushFull,
           CheckAfterTransfer, SettleCancelled, SettleResponse, FailOutgoingUpload,
           PushOutcome, WorkerExit, vars, mainVars
      <4>2. CASE Main
        BY <4>2 DEF Main, Script, QueueUpload, CancelUpload, DrainEvents, RunCallback,
           ResetEvents, StopWorker, JoinWorker
      <4>3. QED
        BY <4>1, <4>2 DEF Next
    <3>2. QED
      BY <1>3, <3>1 DEF ResetEvents
  <2>2. \A u \in Uploads : Started(u) \in Events
    BY EventParts DEF Started, Kinds
  <2>3. \A u \in Uploads : Told(Started(u)) => Told(Started(u))'
    BY <1>1, <2>1, <2>2, ToldSteps
  <2>4. \A u \in Uploads : outgoingUploads'[u] # "absent" /\ u < nextOutgoingId =>
          outgoingUploads[u] # "absent"
    <3>1. ASSUME NEW u \in Uploads, outgoingUploads'[u] # "absent", u < nextOutgoingId
          PROVE  outgoingUploads[u] # "absent"
      <4>1. StatusSteps(u)
        BY <1>1, StatusChanges
      <4>2. u # nextOutgoingId
        BY <1>1, <3>1, IdsGrow, UploadsAreNumbers
      <4>3. QED
        BY <3>1, <4>1, <4>2 DEF StatusSteps, PickUpload, CancelUpload
    <3>2. QED
      BY <3>1
  <2>5. job # NoUpload /\ pc \notin {"copy", "start"} /\ Present(job) => Told(Started(job))
    BY <1>1, <2>1 DEF StartedInv
  <2>6. ASSUME NEW e \in Events, outgoingUploads'[e.id] # "absent", Told(e)'
        PROVE  Told(Started(e.id))'
    <3>1. e.id \in Uploads
      BY EventParts
    <3>2. CASE Told(e)
      <4>1. e.id < nextOutgoingId
        BY <1>1, <3>2 DEF ToldInv, ToldOf
      <4>2. Told(Started(e.id))
        BY <1>1, <2>1, <2>4, <2>6, <3>1, <3>2, <4>1 DEF StartedInv, Present
      <4>3. QED
        BY <2>3, <3>1, <4>2
    <3>3. ASSUME NEW k \in Kinds, Pushing(k), e = [id |-> job, kind |-> k]
          PROVE  Told(Started(e.id))'
      <4>1. e.id = job /\ job \in Uploads /\ outgoingUploads' = outgoingUploads
        BY <1>1, <3>3, PushTells DEF Pushing, uploadVars
      <4>2. CASE k = "Started"
        <5>1. e = Started(job)
          BY <3>3, <4>2 DEF Started
        <5>2. QED
          BY <2>6, <4>1, <5>1
      <4>3. CASE k # "Started"
        <5>1. pc \notin {"copy", "start"}
          BY <3>3, <4>3 DEF Pushing, Pushes
        <5>2. Told(Started(job))
          BY <2>5, <2>6, <4>1, <5>1, UploadsAreNumbers DEF Present
        <5>3. QED
          BY <2>3, <4>1, <5>2
      <4>4. QED
        BY <4>2, <4>3
    <3>4. QED
      BY <1>1, <2>6, <3>2, <3>3, ToldSteps
  <2>7. ASSUME job' # NoUpload, pc' \notin {"copy", "start"}, outgoingUploads'[job'] # "absent"
        PROVE  \E u \in Uploads : u = job' /\ Told(Started(u))'
    <3>1. job' = job /\ job \in Uploads
      <4>1. ~\E u \in Uploads : PickUpload(u)
        BY <2>7 DEF PickUpload, Transition
      <4>2. QED
        BY <1>1, <2>7, <4>1, JobSteps DEF TypeOK
    <3>2. CASE PushStarted
      <4>1. PICK k \in Kinds : Pushing(k) /\ k = "Started"
        BY <1>1, <3>2, PushesPush DEF Pushing, Pushes, PushStarted, Transition
      <4>2. Told(Started(job))'
        <5>1. PICK u \in Uploads : u = job
          BY <3>1
        <5>2. Started(u) \in Events /\ Started(u) = [id |-> job, kind |-> k]
          BY <2>2, <4>1, <5>1 DEF Started
        <5>3. Told(Started(u))'
          BY <1>1, <4>1, <5>2, PushTells
        <5>4. QED
          BY <3>1, <5>1, <5>3
      <4>3. QED
        BY <3>1, <4>2
    <3>3. CASE ~PushStarted
      <4>1. pc \notin {"copy", "start", "loop", "exited"}
        <5>1. pc \notin {"loop", "exited"}
          BY <1>1, <3>1, UploadsAreNumbers DEF WorkerInv
        <5>2. CASE pc = "copy"
          BY <2>7, <5>2 DEF Next, Worker, Main, PickUpload, CopyUpload, PushStarted,
             FailPreparation, OpenFile, SetHalf, PushHalf, ReadToken, Post, ReportTransfer,
             SetFull, PushFull, CheckAfterTransfer, SettleCancelled, SettleResponse,
             FailOutgoingUpload, PushOutcome, WorkerExit, Transition, Script, QueueUpload,
             CancelUpload, DrainEvents, RunCallback, ResetEvents, ResetUploads, StopWorker,
             JoinWorker, workerVars, vars
        <5>3. CASE pc = "start"
          BY <2>7, <3>3, <5>3 DEF Next, Worker, Main, PickUpload, CopyUpload,
             FailPreparation, OpenFile, SetHalf, PushHalf, ReadToken, Post, ReportTransfer,
             SetFull, PushFull, CheckAfterTransfer, SettleCancelled, SettleResponse,
             FailOutgoingUpload, PushOutcome, WorkerExit, Transition, Script, QueueUpload,
             CancelUpload, DrainEvents, RunCallback, ResetEvents, ResetUploads, StopWorker,
             JoinWorker, workerVars, vars
        <5>4. QED
          BY <5>1, <5>2, <5>3
      <4>2. outgoingUploads[job] # "absent"
        BY <1>1, <2>4, <2>7, <3>1 DEF FreshInv
      <4>3. Told(Started(job))
        BY <2>5, <2>7, <3>1, <4>1, <4>2 DEF Present
      <4>4. PICK u \in Uploads : u = job
        BY <3>1
      <4>5. Told(Started(u))'
        BY <2>3, <4>3, <4>4
      <4>6. QED
        BY <3>1, <4>4, <4>5
    <3>4. QED
      BY <3>2, <3>3
  <2>8. QED
    BY <2>6, <2>7 DEF StartedInv, Present
<1>4. QED
  BY <1>2, <1>3

-----------------------------------------------------------------------------
(* The ranks along a story.                                                *)

\* What was heard of an upload is about it.
LEMMA PushKeepsOrder ==
  ASSUME TypeOK, WorkerInv, ToldInv, OrderInv, NEW k \in Kinds, Pushing(k)
  PROVE  OrderInv'
<1>1. PICK e \in Events : e = [id |-> job, kind |-> k] /\ e.id = job /\ e.kind = k
  BY WorkerHasJob, EventParts DEF Pushing, Pushes
<1>2. job \in Uploads /\ heard' = heard
  BY PushTells
<1>3. PICK n \in EventIndices' :
        /\ EventIndices = EventIndices' \ {n} /\ Undelivered'[n] = e
        /\ \A i \in EventIndices : i < n /\ Undelivered'[i] = Undelivered[i]
  BY <1>1, <1>2, PushAddsLast
<1>4. EventIndices' \subseteq Int
  BY DEF EventIndices
<1>5. NextRank = Rank[k]
  BY Ranks DEF Pushing, Pushes, NextRank, TypeOK
<1>6. \A f \in Events : Told(f) /\ f.id = job => Before(f, e)
  BY <1>1, <1>5 DEF ToldInv, ToldOf, Before
<1>7. HeardInOrder'
  BY <1>2 DEF OrderInv, HeardInOrder, Before
<1>8. ASSUME NEW j \in EventIndices', NEW i \in 1 .. Len(heard[Undelivered'[j].id])
      PROVE  Before(heard[Undelivered'[j].id][i], Undelivered'[j])
  <2>1. CASE j = n
    <3>1. Undelivered'[j] = e /\ i \in 1 .. Len(heard[job])
      BY <1>1, <1>3, <1>8, <2>1
    <3>2. heard[job][i] \in Events /\ heard[job][i].id = job
      BY <1>2, <3>1, HeardTyped DEF OrderInv, HeardInOrder
    <3>3. Told(heard[job][i])
      BY <3>1, <3>2 DEF Told, Heard
    <3>4. QED
      BY <1>1, <1>6, <3>1, <3>2, <3>3
  <2>2. CASE j # n
    BY <1>3, <1>8, <2>2 DEF OrderInv, WayAfterHeard
  <2>3. QED
    BY <2>1, <2>2
<1>9. ASSUME NEW i \in EventIndices', NEW j \in EventIndices',
             i < j, Undelivered'[i].id = Undelivered'[j].id
      PROVE  Before(Undelivered'[i], Undelivered'[j])
  <2>1. i \in EventIndices /\ Undelivered'[i] = Undelivered[i]
    BY <1>3, <1>4, <1>9
  <2>2. CASE j = n
    <3>1. Undelivered[i] \in Events /\ Undelivered[i].id = job /\ Told(Undelivered[i])
      BY <1>1, <1>3, <1>9, <2>1, <2>2, EventTyped DEF Told, OnWay
    <3>2. QED
      BY <1>3, <1>6, <2>1, <2>2, <3>1
  <2>3. CASE j # n
    BY <1>3, <1>9, <2>1, <2>3 DEF OrderInv, WayInOrder
  <2>4. QED
    BY <2>2, <2>3
<1>10. WayAfterHeard'
  BY <1>2, <1>8 DEF WayAfterHeard, Before
<1>11. WayInOrder'
  BY <1>9 DEF WayInOrder, Before
<1>12. QED
  BY <1>7, <1>10, <1>11 DEF OrderInv

\* The callback moves the boundary between what was heard and what is to come.
LEMMA CallbackKeepsOrder ==
  ASSUME TypeOK, OrderInv, RunCallback
  PROVE  OrderInv'
<1>1. PICK e : e = Undelivered[1]
  OBVIOUS
<1>2. /\ e.id \in Uploads /\ 1 \in EventIndices /\ EventIndices \subseteq Nat
      /\ EventIndices' \subseteq Nat
      /\ \A i \in EventIndices' : i + 1 \in EventIndices /\ Undelivered'[i] = Undelivered[i + 1]
  BY <1>1, CallbackTakesFirst, CallbackTells DEF EventIndices
<1>3. PICK n \in Nat :
        /\ n = Len(heard[e.id]) + 1 /\ 1 .. Len(heard'[e.id]) = 1 .. n /\ heard'[e.id][n] = e
        /\ \A i \in 1 .. n : i # n => i < n /\ i \in 1 .. Len(heard[e.id])
                                      /\ heard'[e.id][i] = heard[e.id][i]
  BY <1>1, CallbackTells
<1>4. \A u \in Uploads : u # e.id => heard'[u] = heard[u]
  BY <1>1, CallbackTells
<1>5. ASSUME NEW u \in Uploads, NEW i \in 1 .. Len(heard'[u])
      PROVE  heard'[u][i].id = u
  <2>1. CASE u # e.id
    BY <1>4, <1>5, <2>1 DEF OrderInv, HeardInOrder
  <2>2. CASE u = e.id /\ i = n
    BY <1>3, <2>2
  <2>3. CASE u = e.id /\ i # n
    <3>1. i \in 1 .. Len(heard[u]) /\ heard'[u][i] = heard[u][i]
      BY <1>3, <1>5, <2>3
    <3>2. QED
      BY <3>1 DEF OrderInv, HeardInOrder
  <2>4. QED
    BY <2>1, <2>2, <2>3
<1>6. ASSUME NEW u \in Uploads, NEW i \in 1 .. Len(heard'[u]), NEW k \in 1 .. Len(heard'[u]),
             i < k
      PROVE  Before(heard'[u][i], heard'[u][k])
  <2>1. CASE u # e.id
    BY <1>4, <1>6, <2>1 DEF OrderInv, HeardInOrder
  <2>2. CASE u = e.id
    <3>1. i \in 1 .. n /\ k \in 1 .. n /\ i # n
      BY <1>3, <1>6, <2>2
    <3>2. i \in 1 .. Len(heard[u]) /\ heard'[u][i] = heard[u][i]
      BY <1>3, <2>2, <3>1
    <3>3. CASE k = n
      BY <1>1, <1>2, <1>3, <2>2, <3>2, <3>3 DEF OrderInv, WayAfterHeard
    <3>4. CASE k # n
      <4>1. k \in 1 .. Len(heard[u]) /\ heard'[u][k] = heard[u][k]
        BY <1>3, <2>2, <3>1, <3>4
      <4>2. QED
        BY <1>6, <3>2, <4>1 DEF OrderInv, HeardInOrder
    <3>5. QED
      BY <3>3, <3>4
  <2>3. QED
    BY <2>1, <2>2
<1>7. ASSUME NEW k \in EventIndices', NEW i \in 1 .. Len(heard'[Undelivered'[k].id])
      PROVE  Before(heard'[Undelivered'[k].id][i], Undelivered'[k])
  <2>1. PICK u : u = Undelivered'[k].id
    OBVIOUS
  <2>2. /\ k + 1 \in EventIndices /\ Undelivered'[k] = Undelivered[k + 1]
        /\ u = Undelivered[k + 1].id
    BY <1>2, <2>1
  <2>3. u \in Uploads /\ i \in 1 .. Len(heard'[u])
    BY <1>7, <2>1, <2>2, EventTyped
  <2>4. CASE u # e.id
    BY <1>4, <2>1, <2>2, <2>3, <2>4 DEF OrderInv, WayAfterHeard
  <2>5. CASE u = e.id /\ i # n
    <3>1. i \in 1 .. Len(heard[u]) /\ heard'[u][i] = heard[u][i]
      BY <1>3, <2>3, <2>5
    <3>2. QED
      BY <2>1, <2>2, <3>1 DEF OrderInv, WayAfterHeard
  <2>6. CASE u = e.id /\ i = n
    <3>1. heard'[u][i] = Undelivered[1] /\ Undelivered[1].id = Undelivered[k + 1].id
      BY <1>1, <1>3, <2>2, <2>6
    <3>2. 1 < k + 1
      <4>1. k \in Nat /\ k # 0
        BY <1>7 DEF EventIndices
      <4>2. QED
        BY <4>1
    <3>3. Before(Undelivered[1], Undelivered[k + 1])
      BY <1>2, <2>2, <3>1, <3>2 DEF OrderInv, WayInOrder
    <3>4. QED
      BY <2>1, <2>2, <3>1, <3>3
  <2>7. QED
    BY <2>4, <2>5, <2>6
<1>8. ASSUME NEW i \in EventIndices', NEW k \in EventIndices',
             i < k, Undelivered'[i].id = Undelivered'[k].id
      PROVE  Before(Undelivered'[i], Undelivered'[k])
  <2>1. /\ i + 1 \in EventIndices /\ Undelivered'[i] = Undelivered[i + 1]
        /\ k + 1 \in EventIndices /\ Undelivered'[k] = Undelivered[k + 1]
    BY <1>2
  <2>2. i + 1 < k + 1
    <3>1. i \in Nat /\ k \in Nat /\ i < k
      BY <1>2, <1>8
    <3>2. QED
      BY <3>1
  <2>3. QED
    BY <1>8, <2>1, <2>2 DEF OrderInv, WayInOrder
<1>9. HeardInOrder'
  BY <1>5, <1>6 DEF HeardInOrder, Before
<1>10. WayAfterHeard'
  BY <1>7 DEF WayAfterHeard, Before
<1>11. WayInOrder'
  BY <1>8 DEF WayInOrder, Before
<1>12. QED
  BY <1>9, <1>10, <1>11 DEF OrderInv

LEMMA StepOrder == IInv /\ [Next]_vars => OrderInv'
<1> SUFFICES ASSUME IInv, [Next]_vars PROVE OrderInv'
  OBVIOUS
<1>1. TypeOK /\ WorkerInv /\ ToldInv /\ OrderInv
  BY DEF IInv
<1>2. CASE EventsQuiet \/ DrainEvents
  <2>1. Undelivered' = Undelivered /\ EventIndices' = EventIndices /\ heard' = heard
    BY <1>1, <1>2, QuietKeepsEvents, DrainKeepsEvents DEF EventsQuiet, DrainEvents
  <2>2. QED
    BY <1>1, <2>1 DEF OrderInv, HeardInOrder, WayAfterHeard, WayInOrder, Before
<1>3. ASSUME NEW k \in Kinds, Pushing(k) PROVE OrderInv'
  BY <1>1, <1>3, PushKeepsOrder
<1>4. CASE RunCallback
  BY <1>1, <1>4, CallbackKeepsOrder
<1>5. CASE ResetEvents
  <2>1. EventIndices' = {} /\ heard' = heard
    BY <1>1, <1>5, ResetDropsEvents DEF ResetEvents
  <2>2. QED
    BY <1>1, <2>1 DEF OrderInv, HeardInOrder, WayAfterHeard, WayInOrder, Before
<1>6. QED
  BY <1>1, <1>2, <1>3, <1>4, <1>5, EventSteps

-----------------------------------------------------------------------------
(* The theorems.                                                           *)

\* The invariant holds of every reachable state, whatever the bounds.
THEOREM InvariantHolds == Spec => []IInv
<1>1. IInv /\ [Next]_vars => IInv'
  BY StepType, StepWorker, StepFresh, StepTold, StepStarted, StepOrder DEF IInv
<1>2. QED
  BY InitInv, <1>1, PTL DEF Spec

\* The upload map, the queue and the two threads keep their types.
THEOREM TypeCorrect == Spec => []TypeOK
<1>1. IInv => TypeOK
  BY DEF IInv
<1>2. QED
  BY InvariantHolds, <1>1, PTL

\* Where an event of a story comes from, and that all of them are in it.
LEMMA StoryParts ==
  ASSUME TypeOK, OrderInv, NEW u \in Uploads
  PROVE  \E n \in Nat :
           /\ 1 .. n = 1 .. Len(heard[u])
           /\ \A i \in Chapters(u) :
                 /\ i \in Nat /\ Story(u)[i].id = u
                 /\ \/ i \in 1 .. n /\ Story(u)[i] = heard[u][i]
                    \/ i > n /\ i - n \in EventIndices /\ Story(u)[i] = Undelivered[i - n]
           /\ \A i \in 1 .. n : i \in Chapters(u) /\ Story(u)[i] = heard[u][i]
           /\ \A i \in EventIndices : Undelivered[i].id = u =>
                 i + n \in Chapters(u) /\ Story(u)[i + n] = Undelivered[i]
<1>1. heard[u] \in Seq(Events) /\ Undelivered \in Seq(Events)
  BY HeardTyped, UndeliveredTyped
<1>2. PICK n \in Nat : n = Len(heard[u])
  BY <1>1, LenProperties
<1>3. PICK m \in Nat : m = Len(Undelivered)
  BY <1>1, LenProperties
<1>4. /\ Len(Story(u)) = n + m
      /\ \A i \in 1 .. (n + m) : Story(u)[i] =
            IF i <= n THEN heard[u][i] ELSE Undelivered[i - n]
  BY <1>1, <1>2, <1>3, ConcatProperties DEF Story
<1>5. ASSUME NEW i \in Chapters(u)
      PROVE  /\ i \in Nat /\ Story(u)[i].id = u
             /\ \/ i \in 1 .. n /\ Story(u)[i] = heard[u][i]
                \/ i > n /\ i - n \in EventIndices /\ Story(u)[i] = Undelivered[i - n]
  BY <1>3, <1>4 DEF Chapters, EventIndices
<1>6. ASSUME NEW i \in 1 .. n PROVE i \in Chapters(u) /\ Story(u)[i] = heard[u][i]
  <2>1. heard[u][i].id = u
    BY <1>2, <1>6 DEF OrderInv, HeardInOrder
  <2>2. QED
    BY <1>4, <1>6, <2>1 DEF Chapters
<1>7. ASSUME NEW i \in EventIndices, Undelivered[i].id = u
      PROVE  i + n \in Chapters(u) /\ Story(u)[i + n] = Undelivered[i]
  <2>1. i \in 1 .. m
    BY <1>3, <1>7 DEF EventIndices
  <2>2. PICK j \in 1 .. (n + m) : j = i + n /\ ~(j <= n) /\ j - n = i
    BY <2>1
  <2>3. Story(u)[j] = Undelivered[i]
    BY <1>4, <2>2
  <2>4. QED
    BY <1>4, <1>7, <2>2, <2>3 DEF Chapters
<1>8. QED
  BY <1>2, <1>5, <1>6, <1>7

\* An event is told exactly when it is in the story of its upload.
LEMMA StoryTold ==
  ASSUME TypeOK, OrderInv, NEW u \in Uploads
  PROVE  /\ \A i \in Chapters(u) :
               Story(u)[i] \in Events /\ Story(u)[i].id = u /\ Told(Story(u)[i])
         /\ \A e \in Events : e.id = u /\ Told(e) => \E i \in Chapters(u) : Story(u)[i] = e
<1>1. PICK n \in Nat :
           /\ 1 .. n = 1 .. Len(heard[u])
           /\ \A i \in Chapters(u) :
                 /\ i \in Nat /\ Story(u)[i].id = u
                 /\ \/ i \in 1 .. n /\ Story(u)[i] = heard[u][i]
                    \/ i > n /\ i - n \in EventIndices /\ Story(u)[i] = Undelivered[i - n]
           /\ \A i \in 1 .. n : i \in Chapters(u) /\ Story(u)[i] = heard[u][i]
           /\ \A i \in EventIndices : Undelivered[i].id = u =>
                 i + n \in Chapters(u) /\ Story(u)[i + n] = Undelivered[i]
  BY StoryParts
<1>2. ASSUME NEW i \in Chapters(u)
      PROVE  Story(u)[i] \in Events /\ Story(u)[i].id = u /\ Told(Story(u)[i])
  <2>1. CASE i \in 1 .. n /\ Story(u)[i] = heard[u][i]
    BY <1>1, <1>2, <2>1, HeardTyped DEF Told, Heard
  <2>2. CASE i > n /\ i - n \in EventIndices /\ Story(u)[i] = Undelivered[i - n]
    BY <1>1, <1>2, <2>2, EventTyped DEF Told, OnWay
  <2>3. QED
    BY <1>1, <1>2, <2>1, <2>2
<1>3. ASSUME NEW e \in Events, e.id = u, Told(e) PROVE \E i \in Chapters(u) : Story(u)[i] = e
  BY <1>1, <1>3 DEF Told, Heard, OnWay
<1>4. QED
  BY <1>2, <1>3

\* The callbacks of an upload come in order, each at most once, and begin
\* with Started unless a reset cut that off.
THEOREM StoriesInOrder == Spec => []StoryInOrder
<1>1. ASSUME IInv, NEW u \in Uploads, NEW i \in Chapters(u), NEW k \in Chapters(u), i < k
      PROVE  Before(Story(u)[i], Story(u)[k])
  <2>1. TypeOK /\ OrderInv
    BY <1>1 DEF IInv
  <2>2. PICK n \in Nat :
          /\ 1 .. n = 1 .. Len(heard[u])
          /\ \A j \in {i, k} :
                /\ j \in Nat /\ Story(u)[j].id = u
                /\ \/ j \in 1 .. n /\ Story(u)[j] = heard[u][j]
                   \/ j > n /\ j - n \in EventIndices /\ Story(u)[j] = Undelivered[j - n]
    BY <2>1, StoryParts
  <2>3. CASE k \in 1 .. n /\ Story(u)[k] = heard[u][k]
    <3>1. i \in 1 .. n /\ Story(u)[i] = heard[u][i]
      <4>1. i \in Nat /\ k \in Nat
        BY <2>2
      <4>2. i < k
        BY <1>1
      <4>3. k <= n
        BY <2>3
      <4>4. ~(i > n)
        BY <4>1, <4>2, <4>3
      <4>5. QED
        BY <2>2, <4>4
    <3>2. QED
      BY <1>1, <2>1, <2>2, <2>3, <3>1 DEF OrderInv, HeardInOrder
  <2>4. CASE /\ k > n /\ k - n \in EventIndices /\ Story(u)[k] = Undelivered[k - n]
             /\ i \in 1 .. n /\ Story(u)[i] = heard[u][i]
    <3>1. Undelivered[k - n].id = u
      BY <2>2, <2>4
    <3>2. QED
      BY <2>1, <2>2, <2>4, <3>1 DEF OrderInv, WayAfterHeard
  <2>5. CASE /\ k - n \in EventIndices /\ Story(u)[k] = Undelivered[k - n]
             /\ i - n \in EventIndices /\ Story(u)[i] = Undelivered[i - n]
    <3>1. i - n < k - n
      BY <1>1, <2>2
    <3>2. Undelivered[i - n].id = u /\ Undelivered[k - n].id = u
      BY <2>2, <2>5
    <3>3. QED
      BY <2>1, <2>5, <3>1, <3>2 DEF OrderInv, WayInOrder
  <2>6. QED
    BY <2>2, <2>3, <2>4, <2>5
<1>2. ASSUME IInv, NEW u \in Uploads, Present(u), mpc # "resetUploads", NEW i \in Chapters(u)
      PROVE  \E k \in Chapters(u) : Story(u)[k].kind = "Started"
  <2>1. TypeOK /\ OrderInv /\ StartedInv
    BY <1>2 DEF IInv
  <2>2. Story(u)[i] \in Events /\ Story(u)[i].id = u /\ Told(Story(u)[i])
    BY <2>1, StoryTold
  <2>3. Told(Started(u))
    BY <1>2, <2>1, <2>2 DEF StartedInv
  <2>4. Started(u) \in Events /\ Started(u).id = u /\ Started(u).kind = "Started"
    BY EventParts DEF Started, Kinds
  <2>5. QED
    BY <2>1, <2>3, <2>4, StoryTold
<1>3. IInv => StoryInOrder
  BY <1>1, <1>2 DEF StoryInOrder, Before
<1>4. QED
  BY InvariantHolds, <1>3, PTL

\* The status natives and the callbacks agree on the outcome.
THEOREM StatusAgrees == Spec => []StatusMatchesCallback
<1>1. ASSUME IInv, NEW u \in Uploads, NEW i \in Chapters(u), Present(u),
             Story(u)[i].kind \in Outcomes
      PROVE  outgoingUploads[u] = Story(u)[i].kind
  <2>1. TypeOK /\ OrderInv /\ ToldInv
    BY <1>1 DEF IInv
  <2>2. Story(u)[i] \in Events /\ Story(u)[i].id = u /\ Told(Story(u)[i])
    BY <2>1, StoryTold
  <2>3. QED
    BY <1>1, <2>1, <2>2 DEF ToldInv, ToldOf
<1>2. IInv => StatusMatchesCallback
  BY <1>1 DEF StatusMatchesCallback
<1>3. QED
  BY InvariantHolds, <1>2, PTL

-----------------------------------------------------------------------------
(* The uploads are jobs: the events that carry an outcome, in order.       *)

\* Induction: a set of numbers with each of which it has a smaller one is empty.
LEMMA NoLeast ==
  ASSUME NEW T \in SUBSET Nat, \A n \in T : n # 0 /\ n - 1 \in T
  PROVE  T = {}
<1> DEFINE R == OpToRel(<, Nat)
<1>1. T # {} => \E x \in T : \A y \in T : ~ (<<y, x>> \in R)
  BY NatLessThanWellFounded, WFMin
<1>2. \A x, y \in Nat : <<y, x>> \in R <=> y < x
  BY DEF OpToRel
<1> HIDE DEF R
<1>3. \A n \in T : n - 1 \in T /\ n - 1 < n
  OBVIOUS
<1>4. QED
  BY <1>1, <1>2, <1>3

\* One step of OutcomesOf, and its steps up to the event n.
Collect(q, f, n) ==
    IF n = 0 THEN <<>>
    ELSE IF q[n].kind \in Outcomes THEN Append(f[n - 1], q[n].id) ELSE f[n - 1]
Collects(q, f, n) == f = [k \in 0 .. n |-> Collect(q, f, k)]

LEMMA CollectsStep ==
  ASSUME NEW q, NEW f, NEW n \in Nat, Collects(q, f, n)
  PROVE  /\ f[0] = <<>>
         /\ \A k \in 1 .. n : f[k] = IF q[k].kind \in Outcomes
                                     THEN Append(f[k - 1], q[k].id) ELSE f[k - 1]
<1>1. \A k \in 0 .. n : f[k] = Collect(q, f, k)
  BY DEF Collects
<1>2. QED
  BY <1>1 DEF Collect

LEMMA CollectsExists ==
  ASSUME NEW q, NEW m \in Nat
  PROVE  \E f : Collects(q, f, m)
<1> DEFINE T == {n \in Nat : ~ \E f : Collects(q, f, n)}
<1>1. 0 \notin T
  <2> DEFINE f == [k \in 0 .. 0 |-> <<>>]
  <2>1. f = [k \in 0 .. 0 |-> Collect(q, f, k)]
    BY DEF Collect
  <2>2. QED
    BY <2>1 DEF Collects
<1>2. ASSUME NEW n \in T, n - 1 \notin T PROVE FALSE
  <2>1. n # 0 /\ n - 1 \in Nat
    BY <1>1, <1>2
  <2>2. PICK f : Collects(q, f, n - 1)
    BY <1>2, <2>1
  <2>3. \A k \in 0 .. n - 1 : f[k] = Collect(q, f, k)
    BY <2>2 DEF Collects
  <2> DEFINE g == [k \in 0 .. n |-> IF k = n THEN Collect(q, f, n) ELSE f[k]]
  <2>4. \A k \in 0 .. n - 1 : g[k] = f[k]
    BY <2>1
  <2>5. ASSUME NEW k \in 0 .. n PROVE Collect(q, g, k) = Collect(q, f, k)
    <3>1. k # 0 => k - 1 \in 0 .. n - 1
      BY <2>1
    <3>2. k # 0 => g[k - 1] = f[k - 1]
      BY <2>4, <3>1
    <3> HIDE DEF g
    <3>3. QED
      BY <3>2 DEF Collect
  <2>6. \A k \in 0 .. n : g[k] = Collect(q, f, k)
    BY <2>1, <2>3
  <2>7. g = [k \in 0 .. n |-> g[k]]
    OBVIOUS
  <2> HIDE DEF g
  <2>8. g = [k \in 0 .. n |-> Collect(q, g, k)]
    BY <2>5, <2>6, <2>7
  <2>9. QED
    BY <2>8 DEF Collects
<1>3. T = {}
  <2> HIDE DEF T
  <2>1. T \in SUBSET Nat
    BY DEF T
  <2>2. \A n \in T : n # 0 /\ n - 1 \in T
    BY <1>1, <1>2
  <2>3. QED
    BY <2>1, <2>2, NoLeast
<1>4. QED
  BY <1>3

\* Queues that start alike are collected alike.
LEMMA CollectsAgree ==
  ASSUME NEW q, NEW r, NEW f, NEW g, NEW n \in Nat, NEW m \in Nat, n <= m,
         Collects(q, f, n), Collects(r, g, m), \A k \in 1 .. n : q[k] = r[k]
  PROVE  \A k \in 0 .. n : f[k] = g[k]
<1> DEFINE T == {k \in 0 .. n : f[k] # g[k]}
<1>1. f[0] = g[0]
  BY CollectsStep
<1>2. ASSUME NEW k \in 1 .. n, f[k - 1] = g[k - 1] PROVE f[k] = g[k]
  <2>1. /\ f[k] = IF q[k].kind \in Outcomes THEN Append(f[k - 1], q[k].id) ELSE f[k - 1]
        /\ q[k] = r[k]
    BY CollectsStep
  <2>2. k \in 1 .. m
    OBVIOUS
  <2>3. g[k] = IF r[k].kind \in Outcomes THEN Append(g[k - 1], r[k].id) ELSE g[k - 1]
    BY <2>2, CollectsStep
  <2>4. QED
    BY <1>2, <2>1, <2>3
<1>3. T \in SUBSET Nat
  OBVIOUS
<1>4. \A k \in T : k # 0 /\ k - 1 \in T
  BY <1>1, <1>2
<1> HIDE DEF T
<1>5. T = {}
  BY <1>3, <1>4, NoLeast
<1>6. QED
  BY <1>5 DEF T

LEMMA OutcomesCollected ==
  ASSUME NEW q \in Seq(Events)
  PROVE  \E f : Collects(q, f, Len(q)) /\ OutcomesOf(q) = f[Len(q)]
<1>1. Len(q) \in Nat
  BY LenProperties
<1>2. \E f : Collects(q, f, Len(q))
  BY <1>1, CollectsExists
<1>3. Collects(q, CHOOSE f : Collects(q, f, Len(q)), Len(q))
  BY <1>2
<1>4. OutcomesOf(q) = (CHOOSE f : Collects(q, f, Len(q)))[Len(q)]
  BY DEF OutcomesOf, Collects, Collect
<1>5. QED
  BY <1>3, <1>4

LEMMA NoOutcomes == OutcomesOf(<<>>) = <<>>
<1>1. <<>> \in Seq(Events) /\ Len(<<>>) = 0
  BY EmptySeq
<1>2. PICK f : Collects(<<>>, f, 0) /\ OutcomesOf(<<>>) = f[0]
  BY <1>1, OutcomesCollected
<1>3. QED
  BY <1>2, CollectsStep

LEMMA OutcomesOfAppend ==
  ASSUME NEW q \in Seq(Events), NEW e \in Events
  PROVE  OutcomesOf(Append(q, e)) =
           IF e.kind \in Outcomes THEN Append(OutcomesOf(q), e.id) ELSE OutcomesOf(q)
<1>1. /\ Append(q, e) \in Seq(Events) /\ Len(Append(q, e)) = Len(q) + 1
      /\ (\A i \in 1 .. Len(q) : Append(q, e)[i] = q[i]) /\ Append(q, e)[Len(q) + 1] = e
  BY AppendProperties
<1>2. PICK n \in Nat : n = Len(q)
  BY LenProperties
<1>3. PICK r : r = Append(q, e)
  OBVIOUS
<1>4. PICK f : Collects(q, f, n) /\ OutcomesOf(q) = f[n]
  BY <1>2, OutcomesCollected
<1>5. PICK g : Collects(r, g, n + 1) /\ OutcomesOf(r) = g[n + 1]
  BY <1>1, <1>2, <1>3, OutcomesCollected
<1>6. n + 1 \in Nat /\ n <= n + 1 /\ \A k \in 1 .. n : q[k] = r[k]
  BY <1>1, <1>2, <1>3
<1>7. f[n] = g[n]
  BY <1>4, <1>5, <1>6, CollectsAgree
<1>8. n + 1 \in 1 .. n + 1 /\ (n + 1) - 1 = n /\ r[n + 1] = e
  BY <1>1, <1>2, <1>3
<1>9. g[n + 1] = IF r[n + 1].kind \in Outcomes THEN Append(g[n], r[n + 1].id) ELSE g[n]
  <2>1. \A k \in 1 .. n + 1 : g[k] = IF r[k].kind \in Outcomes
                                     THEN Append(g[k - 1], r[k].id) ELSE g[k - 1]
    BY <1>5, <1>6, CollectsStep
  <2>2. g[n + 1] = IF r[n + 1].kind \in Outcomes
                   THEN Append(g[(n + 1) - 1], r[n + 1].id) ELSE g[(n + 1) - 1]
    BY <1>8, <2>1
  <2>3. QED
    BY <1>8, <2>2
<1>10. QED
  BY <1>3, <1>4, <1>5, <1>7, <1>8, <1>9

\* The outcomes of the events after the first one.
LEMMA OutcomesOfTail ==
  ASSUME NEW q \in Seq(Events), q # <<>>
  PROVE  IF q[1].kind \in Outcomes
         THEN /\ OutcomesOf(q) # <<>> /\ Head(OutcomesOf(q)) = q[1].id
              /\ OutcomesOf(Tail(q)) = Tail(OutcomesOf(q))
         ELSE OutcomesOf(Tail(q)) = OutcomesOf(q)
<1>1. /\ Tail(q) \in Seq(Events) /\ Len(Tail(q)) = Len(q) - 1
      /\ \A i \in 1 .. Len(Tail(q)) : Tail(q)[i] = q[i + 1]
  BY HeadTailProperties
<1>2. PICK n \in Nat : Len(q) = n + 1
  <2>1. Len(q) \in Nat \ {0}
    BY EmptySeq, LenProperties
  <2>2. Len(q) - 1 \in Nat /\ Len(q) = (Len(q) - 1) + 1
    BY <2>1
  <2>3. QED
    BY <2>2
<1>3. PICK r : r = Tail(q)
  OBVIOUS
<1>4. r \in Seq(Events) /\ Len(r) = n /\ \A i \in 1 .. n : r[i] = q[i + 1]
  BY <1>1, <1>2, <1>3
<1>5. PICK f : Collects(q, f, n + 1) /\ OutcomesOf(q) = f[n + 1]
  BY <1>2, OutcomesCollected
<1>6. PICK g : Collects(r, g, n) /\ OutcomesOf(r) = g[n]
  BY <1>4, OutcomesCollected
<1>7. /\ f[0] = <<>> /\ g[0] = <<>>
      /\ \A k \in 1 .. n + 1 : f[k] = IF q[k].kind \in Outcomes
                                      THEN Append(f[k - 1], q[k].id) ELSE f[k - 1]
      /\ \A k \in 1 .. n : g[k] = IF r[k].kind \in Outcomes
                                  THEN Append(g[k - 1], r[k].id) ELSE g[k - 1]
  BY <1>5, <1>6, CollectsStep
<1>8. \A i \in 1 .. n + 1 : q[i] \in Events /\ q[i].id \in Uploads
  BY <1>2, ElementOfSeq, EventParts
<1> DEFINE Shifted(k) ==
             /\ g[k] \in Seq(Uploads) /\ f[k + 1] \in Seq(Uploads)
             /\ IF q[1].kind \in Outcomes
                THEN f[k + 1] # <<>> /\ Head(f[k + 1]) = q[1].id /\ g[k] = Tail(f[k + 1])
                ELSE g[k] = f[k + 1]
           T == {k \in 0 .. n : ~Shifted(k)}
<1>9. Shifted(0)
  <2>1. f[1] = IF q[1].kind \in Outcomes THEN Append(<<>>, q[1].id) ELSE <<>>
    <3>1. 1 \in 1 .. n + 1 /\ 1 - 1 = 0
      OBVIOUS
    <3>2. f[1] = IF q[1].kind \in Outcomes THEN Append(f[1 - 1], q[1].id) ELSE f[1 - 1]
      BY <1>7, <3>1
    <3>3. QED
      BY <1>7, <3>1, <3>2
  <2>2. PICK u \in Uploads : u = q[1].id
    BY <1>8
  <2>3. <<>> \in Seq(Uploads)
    BY EmptySeq
  <2>4. /\ Append(<<>>, u) \in Seq(Uploads) /\ Append(<<>>, u) # <<>>
        /\ Head(Append(<<>>, u)) = u /\ Tail(Append(<<>>, u)) = <<>>
    BY <2>3, AppendProperties, HeadTailAppend
  <2>5. CASE q[1].kind \in Outcomes
    <3>1. f[0 + 1] = Append(<<>>, u) /\ g[0] = <<>>
      BY <1>7, <2>1, <2>2, <2>5
    <3>2. QED
      BY <2>2, <2>3, <2>4, <2>5, <3>1
  <2>6. CASE q[1].kind \notin Outcomes
    <3>1. f[0 + 1] = <<>> /\ g[0] = <<>>
      BY <1>7, <2>1, <2>6
    <3>2. QED
      BY <2>3, <2>6, <3>1
  <2>7. QED
    BY <2>5, <2>6
<1>10. ASSUME NEW k \in 1 .. n, Shifted(k - 1) PROVE Shifted(k)
  <2>1. /\ f[k + 1] = IF q[k + 1].kind \in Outcomes THEN Append(f[k], q[k + 1].id) ELSE f[k]
        /\ g[k] = IF q[k + 1].kind \in Outcomes
                  THEN Append(g[k - 1], q[k + 1].id) ELSE g[k - 1]
    <3>1. k + 1 \in 1 .. n + 1 /\ (k + 1) - 1 = k /\ r[k] = q[k + 1]
      BY <1>4
    <3>2. QED
      BY <1>7, <3>1
  <2>2. (k - 1) + 1 = k
    OBVIOUS
  <2>3. /\ g[k - 1] \in Seq(Uploads) /\ f[k] \in Seq(Uploads)
        /\ IF q[1].kind \in Outcomes
           THEN f[k] # <<>> /\ Head(f[k]) = q[1].id /\ g[k - 1] = Tail(f[k])
           ELSE g[k - 1] = f[k]
    BY <1>10, <2>2
  <2>4. PICK u \in Uploads : u = q[k + 1].id
    <3>1. k + 1 \in 1 .. n + 1
      OBVIOUS
    <3>2. QED
      BY <1>8, <3>1
  <2>5. \A s \in Seq(Uploads) :
          /\ Append(s, u) \in Seq(Uploads) /\ Append(s, u) # <<>>
          /\ s # <<>> => Head(Append(s, u)) = Head(s) /\ Tail(Append(s, u)) = Append(Tail(s), u)
    BY AppendProperties, HeadTailAppend
  <2>6. CASE q[k + 1].kind \in Outcomes
    <3>1. f[k + 1] = Append(f[k], u) /\ g[k] = Append(g[k - 1], u)
      BY <2>1, <2>4, <2>6
    <3>2. /\ f[k + 1] \in Seq(Uploads) /\ f[k + 1] # <<>> /\ g[k] \in Seq(Uploads)
          /\ f[k] # <<>> => /\ Head(f[k + 1]) = Head(f[k])
                            /\ Tail(f[k + 1]) = Append(Tail(f[k]), u)
      BY <2>3, <2>5, <3>1
    <3>3. QED
      BY <2>3, <3>1, <3>2
  <2>7. CASE q[k + 1].kind \notin Outcomes
    BY <2>1, <2>3, <2>7
  <2>8. QED
    BY <2>6, <2>7
<1>11. T \in SUBSET Nat /\ \A k \in T : k # 0 /\ k - 1 \in T
  <2> HIDE DEF Shifted
  <2>1. \A k \in T : k \in 0 .. n /\ ~Shifted(k)
    OBVIOUS
  <2>2. \A k \in T : k # 0 /\ ~Shifted(k - 1) /\ k - 1 \in 0 .. n
    BY <1>9, <1>10, <2>1
  <2>3. QED
    BY <2>2
<1> HIDE DEF T, Shifted
<1>12. T = {}
  BY <1>11, NoLeast
<1>13. Shifted(n)
  BY <1>12 DEF T
<1>14. QED
  BY <1>3, <1>5, <1>6, <1>13 DEF Shifted

LEMMA CallbackDropsFirst ==
  ASSUME TypeOK, TypeOK', RunCallback
  PROVE  Undelivered # <<>> /\ Undelivered' = Tail(Undelivered)
<1>1. Undelivered \in Seq(Events) /\ Undelivered' \in Seq(Events)
  BY ConcatProperties DEF TypeOK, Undelivered
<1>2. /\ 1 \in EventIndices
      /\ \A i \in EventIndices' : i + 1 \in EventIndices /\ Undelivered'[i] = Undelivered[i + 1]
      /\ \A i \in EventIndices : i # 1 => i - 1 \in EventIndices'
  BY CallbackTakesFirst
<1>3. PICK q \in Seq(Events) : q = Undelivered
  BY <1>1
<1>4. PICK r \in Seq(Events) : r = Undelivered'
  BY <1>1
<1>5. /\ Len(q) \in Nat /\ Len(r) \in Nat
      /\ EventIndices = 1 .. Len(q) /\ EventIndices' = 1 .. Len(r)
  BY <1>3, <1>4, LenProperties DEF EventIndices
<1>6. Len(r) = Len(q) - 1 /\ q # <<>>
  <2>1. Len(q) >= 1 /\ q # <<>>
    BY <1>2, <1>5, EmptySeq
  <2>2. Len(r) # 0 => Len(r) + 1 <= Len(q)
    BY <1>2, <1>5
  <2>3. Len(q) # 1 => Len(q) - 1 <= Len(r)
    BY <1>2, <1>5, <2>1
  <2>4. Len(q) \in Nat /\ Len(r) \in Nat
    BY <1>5
  <2>5. Len(r) = Len(q) - 1
    <3>1. CASE Len(q) = 1
      BY <2>2, <2>4, <3>1
    <3>2. CASE Len(q) # 1
      BY <2>1, <2>2, <2>3, <2>4, <3>2
    <3>3. QED
      BY <3>1, <3>2
  <2>6. QED
    BY <2>1, <2>5
<1>7. /\ Tail(q) \in Seq(Events) /\ Len(Tail(q)) = Len(q) - 1
      /\ \A i \in 1 .. Len(Tail(q)) : Tail(q)[i] = q[i + 1]
  BY <1>6, HeadTailProperties
<1>8. \A i \in 1 .. Len(r) : r[i] = q[i + 1]
  BY <1>2, <1>3, <1>4, <1>5
<1>9. r = Tail(q)
  BY <1>6, <1>7, <1>8, SeqEqual
<1>10. QED
  BY <1>3, <1>4, <1>6, <1>9

\* Names for the abstract state.
Submitted == 0 .. nextOutgoingId - 1
Waiting   == {u \in Uploads : outgoingUploads[u] = "Pending"}
Running   == {job} \ {NoUpload}
Finished  == OutcomesOf(Undelivered)
Heards    == {u \in Uploads : Reported(u)}
Bar       == <<Submitted, Waiting, Running, Finished, Heards>>
JobStep   == [Jobs!Next]_(Jobs!vars)

LEMMA StutterOrJobs ==
  /\ UNCHANGED Bar => JobStep
  /\ \A j \in Uploads :
        \/ /\ j \notin Submitted /\ Submitted' = Submitted \cup {j}
           /\ Waiting' = Waiting \cup {j} /\ UNCHANGED <<Running, Finished, Heards>>
        \/ /\ j \in Waiting /\ Waiting' = Waiting \ {j}
           /\ UNCHANGED <<Submitted, Running, Finished, Heards>>
        \/ /\ j \in Waiting /\ Running = {} /\ Waiting' = Waiting \ {j} /\ Running' = {j}
           /\ UNCHANGED <<Submitted, Finished, Heards>>
        \/ /\ j \in Running /\ Running' = {} /\ Finished' = Append(Finished, j)
           /\ UNCHANGED <<Submitted, Waiting, Heards>>
        \/ /\ j \in Running /\ Running' = {}
           /\ UNCHANGED <<Submitted, Waiting, Finished, Heards>>
        => JobStep
  /\ \/ /\ Finished # <<>> /\ Heards' = Heards \cup {Head(Finished)}
        /\ Finished' = Tail(Finished) /\ UNCHANGED <<Submitted, Waiting, Running>>
     \/ Finished' = <<>> /\ UNCHANGED <<Submitted, Waiting, Running, Heards>>
     \/ Waiting' = {} /\ UNCHANGED <<Submitted, Running, Finished, Heards>>
     => JobStep
BY DEF JobStep, Bar, Submitted, Waiting, Running, Finished, Heards, Jobs!Next, Jobs!vars,
   Jobs!Submit, Jobs!Withdraw, Jobs!Take, Jobs!Finish, Jobs!Report, Jobs!Abandon,
   Jobs!ForgetFinished, Jobs!ForgetWaiting

LEMMA JobsInit == Init => Jobs!Init
<1> SUFFICES ASSUME Init PROVE Jobs!Init
  OBVIOUS
<1>1. OutcomesOf(Undelivered) = <<>>
  BY EmptySeq, ConcatEmptySeq, NoOutcomes DEF Init, Undelivered
<1>2. \A u \in Uploads : ~Reported(u)
  BY EmptySeq DEF Init, Reported
<1>3. 0 .. nextOutgoingId - 1 = {}
  BY DEF Init
<1>4. QED
  BY <1>1, <1>2, <1>3, UploadsAreNumbers DEF Init, Jobs!Init

\* What waits changes only when an upload is queued, picked, cancelled or forgotten.
LEMMA WaitingStays ==
  ASSUME IInv, [Next]_vars, \A u \in Uploads : ~PickUpload(u) /\ ~CancelUpload(u),
         \A raw \in BOOLEAN : ~QueueUpload(raw), ~ResetUploads
  PROVE  Waiting' = Waiting
<1>1. TypeOK /\ WorkerInv /\ TypeOK'
  BY StepType DEF IInv
<1>2. ASSUME NEW u \in Uploads
      PROVE  outgoingUploads'[u] = "Pending" <=> outgoingUploads[u] = "Pending"
  <2>1. StatusSteps(u)
    BY <1>1, StatusChanges
  <2>2. CASE outgoingUploads'[u] = outgoingUploads[u]
    BY <2>2
  <2>3. CASE /\ SettleCancelled \/ SettleResponse \/ FailOutgoingUpload
             /\ u = job /\ outgoingUploads[u] # "absent" /\ outgoingUploads'[u] = outcome'
    <3>1. pc \in {"cancelled", "settle", "fail"}
      BY <2>3 DEF SettleCancelled, SettleResponse, FailOutgoingUpload, Transition
    <3>2. outgoingUploads[u] \in {"Uploading", "Cancelled"}
      BY <1>1, <2>3, <3>1, UploadsAreNumbers DEF WorkerInv
    <3>3. outcome' # "Pending"
      BY <1>1 DEF TypeOK, Outcomes
    <3>4. QED
      BY <2>3, <3>2, <3>3
  <2>4. QED
    BY <2>1, <2>2, <2>3 DEF StatusSteps
<1>3. QED
  BY <1>2 DEF Waiting

\* An event that carries an outcome reports its upload.
LEMMA CallbackReports ==
  ASSUME TypeOK, RunCallback
  PROVE  Heards' = IF Undelivered[1].kind \in Outcomes
                   THEN Heards \cup {Undelivered[1].id} ELSE Heards
<1>0. PICK e : e = Undelivered[1]
  OBVIOUS
<1>1. PICK n \in Nat : n = Len(heard[e.id]) + 1
  BY <1>0, CallbackTells
<1>2. /\ e.id \in Uploads /\ \A u \in Uploads : u # e.id => heard'[u] = heard[u]
      /\ 1 .. Len(heard'[e.id]) = 1 .. n /\ heard'[e.id][n] = e
      /\ \A i \in 1 .. n : i # n => i \in 1 .. Len(heard[e.id])
                                    /\ heard'[e.id][i] = heard[e.id][i]
  BY <1>0, <1>1, CallbackTells
<1>3. Len(heard[e.id]) \in Nat
  BY <1>2, HeardTyped
<1>4. \A u \in Uploads : u # e.id => (Reported(u)' <=> Reported(u))
  BY <1>2 DEF Reported
<1>5. Reported(e.id)' <=> Reported(e.id) \/ e.kind \in Outcomes
  <2>1. 1 .. n = 1 .. Len(heard[e.id]) \cup {n} /\ n \notin 1 .. Len(heard[e.id])
    BY <1>1, <1>3
  <2>2. \A i \in 1 .. Len(heard[e.id]) : heard'[e.id][i] = heard[e.id][i]
    BY <1>2, <2>1
  <2>3. QED
    BY <1>2, <2>1, <2>2 DEF Reported
<1>6. \A u \in Uploads : Reported(u)' <=> Reported(u) \/ (u = e.id /\ e.kind \in Outcomes)
  BY <1>4, <1>5
<1>7. QED
  BY <1>0, <1>2, <1>6 DEF Heards

LEMMA JobsStep == IInv /\ [Next]_vars => JobStep
<1> SUFFICES ASSUME IInv, [Next]_vars PROVE JobStep
  OBVIOUS
<1>0. TypeOK /\ WorkerInv /\ FreshInv /\ TypeOK'
  BY StepType DEF IInv
<1> USE UploadsAreNumbers DEF uploadVars, workerVars, mainVars, Transition
<1>1. ASSUME NEW u \in Uploads, PickUpload(u) PROVE JobStep
  <2>1. u \in Waiting /\ Waiting' = Waiting \ {u}
    BY <1>0, <1>1 DEF PickUpload, TypeOK, Waiting
  <2>2. Running = {} /\ Running' = {u}
    BY <1>0, <1>1 DEF PickUpload, WorkerInv, Running
  <2>3. UNCHANGED <<Submitted, Heards>>
    BY <1>1 DEF PickUpload, Submitted, Heards, Reported
  <2>4. Undelivered' = Undelivered
    BY <1>1 DEF PickUpload, Undelivered
  <2>5. QED
    BY <2>1, <2>2, <2>3, <2>4, StutterOrJobs DEF Finished
<1>2. CASE CopyUpload
  <2>1. UNCHANGED <<Submitted, Waiting, Heards, Finished>>
    BY <1>2 DEF CopyUpload, Submitted, Waiting, Heards, Reported, Finished, Undelivered
  <2>2. job \in Uploads /\ job \in Running
    BY <1>0, <1>2 DEF CopyUpload, TypeOK, WorkerInv, Running
  <2>3. UNCHANGED Running \/ Running' = {}
    BY <1>2 DEF CopyUpload, Running
  <2>4. QED
    BY <2>1, <2>2, <2>3, StutterOrJobs DEF Bar
<1>3. CASE FailPreparation \/ OpenFile \/ SetHalf \/ ReadToken \/ Post \/ ReportTransfer
           \/ SetFull \/ CheckAfterTransfer \/ WorkerExit
  BY <1>3, StutterOrJobs DEF FailPreparation, OpenFile, SetHalf, ReadToken, Post, ReportTransfer,
     SetFull, CheckAfterTransfer, WorkerExit, Bar, Submitted, Waiting, Running, Heards, Reported,
     Finished, Undelivered
<1>4. CASE SettleCancelled \/ SettleResponse \/ FailOutgoingUpload
  <2>1. Waiting' = Waiting
    <3>1. /\ \A u \in Uploads : ~PickUpload(u) /\ ~CancelUpload(u)
          /\ \A raw \in BOOLEAN : ~QueueUpload(raw)
          /\ ~ResetUploads
      BY <1>4 DEF PickUpload, CancelUpload, QueueUpload, ResetUploads, SettleCancelled,
         SettleResponse, FailOutgoingUpload
    <3>2. QED
      BY <3>1, WaitingStays
  <2>2. UNCHANGED <<Submitted, Running, Heards, Finished>>
    BY <1>4 DEF SettleCancelled, SettleResponse, FailOutgoingUpload, Submitted, Running, Heards,
       Reported, Finished, Undelivered
  <2>3. QED
    BY <2>1, <2>2, StutterOrJobs DEF Bar
<1>5. CASE PushStarted \/ PushHalf \/ PushFull \/ PushOutcome
  <2>1. PICK k \in Kinds : Pushing(k)
    BY <1>0, <1>5, PushesPush
  <2>2. job \in Uploads /\ [id |-> job, kind |-> k] \in Events
    BY <1>0, <2>1, PushedType, EventParts
  <2>3. Undelivered' = Append(Undelivered, [id |-> job, kind |-> k])
    BY <1>0, <2>1, <2>2, PushAppends
  <2>4. Finished' = IF k \in Outcomes THEN Append(Finished, job) ELSE Finished
    BY <1>0, <2>2, <2>3, UndeliveredTyped, OutcomesOfAppend DEF Finished
  <2>5. UNCHANGED <<Submitted, Waiting, Heards>>
    BY <2>1 DEF Pushing, Submitted, Waiting, Heards, Reported
  <2>6. CASE PushOutcome
    <3>1. k \in Outcomes
      BY <1>0, <2>1, <2>6 DEF Pushing, Pushes, PushOutcome, TypeOK
    <3>2. job \in Running /\ Running' = {}
      BY <2>2, <2>6 DEF PushOutcome, Running
    <3>3. QED
      BY <2>2, <2>4, <2>5, <3>1, <3>2, StutterOrJobs
  <2>7. CASE PushStarted \/ PushHalf \/ PushFull
    <3>1. k \notin Outcomes
      BY <2>1, <2>7 DEF Pushing, Pushes, PushStarted, PushHalf, PushFull, Outcomes
    <3>2. Running' = Running
      BY <2>7 DEF PushStarted, PushHalf, PushFull, Running
    <3>3. QED
      BY <2>4, <2>5, <3>1, <3>2, StutterOrJobs DEF Bar
  <2>8. QED
    BY <1>5, <2>6, <2>7
<1>6. ASSUME NEW raw \in BOOLEAN, QueueUpload(raw) PROVE JobStep
  <2>1. nextOutgoingId \in Uploads /\ nextOutgoingId' = nextOutgoingId + 1
    BY <1>0, <1>6, BoundsAssumption DEF QueueUpload, TypeOK, Uploads
  <2>2. nextOutgoingId \in Nat
    BY <2>1
  <2>3. /\ nextOutgoingId \notin Submitted
        /\ Submitted' = Submitted \cup {nextOutgoingId}
    <3>1. PICK n \in Nat : n = nextOutgoingId
      BY <2>2
    <3>2. 0 .. (n + 1) - 1 = (0 .. n - 1) \cup {n} /\ n \notin 0 .. n - 1
      OBVIOUS
    <3>3. Submitted' = 0 .. (n + 1) - 1
      BY <2>1, <3>1 DEF Submitted
    <3>4. QED
      BY <3>1, <3>2, <3>3 DEF Submitted
  <2>4. Waiting' = Waiting \cup {nextOutgoingId}
    BY <1>0, <1>6, <2>1 DEF QueueUpload, TypeOK, Waiting
  <2>5. UNCHANGED <<Running, Heards, Finished>>
    BY <1>6 DEF QueueUpload, Running, Heards, Reported, Finished, Undelivered
  <2>6. QED
    BY <2>1, <2>3, <2>4, <2>5, StutterOrJobs
<1>7. ASSUME NEW u \in Uploads, CancelUpload(u) PROVE JobStep
  <2>1. UNCHANGED <<Submitted, Running, Heards, Finished>>
    BY <1>7 DEF CancelUpload, Submitted, Running, Heards, Reported, Finished, Undelivered
  <2>2. Waiting' = Waiting \ {u}
    BY <1>0, <1>7 DEF CancelUpload, TypeOK, Waiting
  <2>3. CASE u \in Waiting
    BY <2>1, <2>2, <2>3, StutterOrJobs
  <2>4. CASE u \notin Waiting
    BY <2>1, <2>2, <2>4, StutterOrJobs DEF Bar
  <2>5. QED
    BY <2>3, <2>4
<1>8. CASE RunCallback
  <2>1. Undelivered # <<>> /\ Undelivered' = Tail(Undelivered) /\ Undelivered \in Seq(Events)
    BY <1>0, <1>8, CallbackDropsFirst, UndeliveredTyped
  <2>2. UNCHANGED <<Submitted, Waiting, Running>>
    BY <1>8 DEF RunCallback, Submitted, Waiting, Running
  <2>3. CASE Undelivered[1].kind \in Outcomes
    <3>1. /\ Finished # <<>> /\ Head(Finished) = Undelivered[1].id
          /\ Finished' = Tail(Finished)
      BY <2>1, <2>3, OutcomesOfTail DEF Finished
    <3>2. Heards' = Heards \cup {Head(Finished)}
      BY <1>0, <1>8, <2>3, <3>1, CallbackReports
    <3>3. QED
      BY <2>2, <3>1, <3>2, StutterOrJobs
  <2>4. CASE Undelivered[1].kind \notin Outcomes
    <3>1. Finished' = Finished
      BY <2>1, <2>4, OutcomesOfTail DEF Finished
    <3>2. Heards' = Heards
      BY <1>0, <1>8, <2>4, CallbackReports
    <3>3. QED
      BY <2>2, <3>1, <3>2, StutterOrJobs DEF Bar
  <2>5. QED
    BY <2>3, <2>4
<1>9. CASE ResetEvents
  <2>1. Finished' = <<>>
    BY <1>0, <1>9, ResetDropsEvents, NoOutcomes DEF Finished
  <2>2. UNCHANGED <<Submitted, Waiting, Running, Heards>>
    BY <1>9 DEF ResetEvents, Submitted, Waiting, Running, Heards, Reported
  <2>3. QED
    BY <2>1, <2>2, StutterOrJobs
<1>10. CASE ResetUploads
  <2>1. Waiting' = {}
    BY <1>10 DEF ResetUploads, Waiting
  <2>2. UNCHANGED <<Submitted, Running, Finished, Heards>>
    BY <1>10 DEF ResetUploads, Submitted, Running, Finished, Undelivered, Heards, Reported
  <2>3. QED
    BY <2>1, <2>2, StutterOrJobs
<1>11. CASE DrainEvents
  <2>1. Finished' = Finished
    BY <1>0, <1>11, DrainKeepsEvents DEF Finished
  <2>2. QED
    BY <1>11, <2>1, StutterOrJobs DEF DrainEvents, Bar, Submitted, Waiting, Running, Heards,
       Reported
<1>12. CASE StopWorker \/ JoinWorker \/ UNCHANGED vars
  BY <1>12, StutterOrJobs DEF StopWorker, JoinWorker, vars, Bar, Submitted, Waiting,
     Running, Heards, Reported, Finished, Undelivered
<1>13. QED
  BY <1>1, <1>2, <1>3, <1>4, <1>5, <1>6, <1>7, <1>8, <1>9, <1>10, <1>11, <1>12
     DEF Next, Worker, Main, Script

\* The uploads are jobs: taken at most once, one at a time, their outcomes reported
\* in the order in which they finished, with the progress in between a stutter.
THEOREM UploadsAreJobs == Spec => ImplementsJobLifecycle
<1>1. IInv /\ [Next]_vars => [Jobs!Next]_(Jobs!vars)
  BY JobsStep DEF JobStep
<1>2. QED
  BY JobsInit, InvariantHolds, <1>1, PTL DEF Spec, ImplementsJobLifecycle, Jobs!Spec
=============================================================================
