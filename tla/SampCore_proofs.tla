--------------------------- MODULE SampCore_proofs ---------------------------
(***************************************************************************)
(* Proofs about SampCore for any scripts, queues, threads and bounds: type *)
(* correctness, and an inductive invariant IInv from which it follows that *)
(* every script hears its events once and in order.                        *)
(***************************************************************************)
EXTENDS SampCore, FiniteSetTheorems, SequenceTheorems, TLAPS

-----------------------------------------------------------------------------
(* The inductive invariant.                                                *)

\* A garbled event waits in the queue of the API calls.
QueueOf(e) == IF kind[e] = "garbled" THEN ApiQueue ELSE kind[e]
Ascending(s) == \A i, k \in DOMAIN s : i < k => s[i] < s[k]
Distinct(s)  == \A i, k \in DOMAIN s : s[i] = s[k] => i = k
Known        == 1 .. nextEvent - 1

\* The scripts are listed once each; a tick has a snapshot with somebody in
\* it, and events in hand only while it calls.
TickShape ==
    /\ Distinct(amxList) /\ Distinct(snapshot)
    /\ phase # "call" => batch = <<>>
    /\ phase # "idle" => snapshot # <<>>
    /\ phase = "call" => turn \in 1 .. Len(snapshot) + 1

\* An event in a queue, in the batch or with a script was pushed, and is
\* where its kind says.
AtHome ==
    /\ \A e \in Known : kind[e] # "none"
    /\ \A q \in QueueSet : \A i \in DOMAIN pending[q] :
          pending[q][i] \in Known /\ QueueOf(pending[q][i]) = q
    /\ \A i \in DOMAIN batch : batch[i] \in Known /\ QueueOf(batch[i]) = Queues[queue]
    /\ \A s \in Scripts : \A i \in DOMAIN heard[s] :
          heard[s][i] \in Known /\ kind[heard[s][i]] \in Hears[s]

\* The queues and the batch keep the order of the pushes, and what was
\* taken is older than what waits.
QueuesInOrder ==
    /\ \A q \in QueueSet : Ascending(pending[q])
    /\ Ascending(batch)
    /\ \A i \in DOMAIN batch : \A k \in DOMAIN pending[Queues[queue]] :
          batch[i] < pending[Queues[queue]][k]

\* What a script has heard is older than what waits in the same queue, and
\* than the batch, except for the event whose turn it has had already.
Had(s) == \E j \in DOMAIN snapshot : j < turn /\ snapshot[j] = s
HeardBefore ==
    \A s \in Scripts : \A i \in DOMAIN heard[s] :
        LET h == heard[s][i] IN
        /\ \A k \in DOMAIN pending[QueueOf(h)] : h < pending[QueueOf(h)][k]
        /\ QueueOf(h) = Queues[queue] =>
              \A k \in DOMAIN batch : h < batch[k] \/ (k = 1 /\ h = batch[1] /\ Had(s))

\* A script has done with an event that it heard, has no public for, or
\* may miss.
DoneWith(s, e) == e \in Range(heard[s]) \/ kind[e] \notin Hears[s] \/ <<s, e>> \in excused

\* The batch is for the scripts of the snapshot, and those that are gone
\* may miss it; those before `turn` have done with its head.
BatchAudience ==
    /\ \A i \in DOMAIN batch :
          /\ audience[batch[i]] = Range(snapshot)
          /\ \A s \in Range(snapshot) \ Loaded : <<s, batch[i]>> \in excused
    /\ batch # <<>> =>
          \A j \in DOMAIN snapshot : j < turn => DoneWith(snapshot[j], batch[1])

\* An event that no longer waits had an audience, which has done with it.
Settled ==
    \A e \in Known :
        ~Waiting(e) => audience[e] # {} /\ \A s \in audience[e] : DoneWith(s, e)

IInv ==
    /\ TypeOK /\ TickShape /\ AtHome /\ QueuesInOrder /\ HeardBefore
    /\ BatchAudience /\ Settled /\ \A s \in Scripts : InOrder(s)

-----------------------------------------------------------------------------
(* Sequences.                                                              *)

\* Without one element, the others are still there, once each.
LEMMA DropOne ==
  ASSUME NEW S, NEW s \in Seq(S), NEW n \in DOMAIN s
  PROVE  /\ RemoveAt(s, n) \in Seq(S)
         /\ Distinct(s) => /\ Distinct(RemoveAt(s, n))
                           /\ Range(RemoveAt(s, n)) = Range(s) \ {s[n]}
<1> DEFINE r == RemoveAt(s, n)
<1>1. n \in 1 .. Len(s) /\ Len(s) \in Nat
  OBVIOUS
<1>2. /\ r \in Seq(S) /\ Len(r) = Len(s) - 1
      /\ \A k \in 1 .. Len(r) : r[k] = s[IF k < n THEN k ELSE k + 1]
  <2>1. /\ SubSeq(s, 1, n - 1) \in Seq(S) /\ Len(SubSeq(s, 1, n - 1)) = n - 1
        /\ \A k \in 1 .. n - 1 : SubSeq(s, 1, n - 1)[k] = s[k]
    BY <1>1
  <2>2. /\ SubSeq(s, n + 1, Len(s)) \in Seq(S) /\ Len(SubSeq(s, n + 1, Len(s))) = Len(s) - n
        /\ \A k \in 1 .. Len(s) - n : SubSeq(s, n + 1, Len(s))[k] = s[k + n]
    BY <1>1
  <2> DEFINE a == SubSeq(s, 1, n - 1)
             b == SubSeq(s, n + 1, Len(s))
  <2>3. r = a \o b
    BY DEF RemoveAt
  <2>4. a \in Seq(S) /\ Len(a) = n - 1 /\ b \in Seq(S) /\ Len(b) = Len(s) - n
    BY <2>1, <2>2
  <2> HIDE DEF a, b, r
  <2>5. /\ a \o b \in Seq(S) /\ Len(a \o b) = Len(a) + Len(b)
        /\ \A k \in 1 .. Len(a) + Len(b) :
              (a \o b)[k] = IF k <= Len(a) THEN a[k] ELSE b[k - Len(a)]
    BY <2>4, ConcatProperties
  <2>6. r \in Seq(S) /\ Len(r) = Len(s) - 1
    BY <1>1, <2>4, <2>5, <2>3
  <2>7. ASSUME NEW k \in 1 .. Len(r) PROVE r[k] = s[IF k < n THEN k ELSE k + 1]
    <3>1. CASE k < n
      <4>1. r[k] = a[k] /\ k \in 1 .. n - 1
        BY <1>1, <2>4, <2>5, <2>3, <2>6, <3>1
      <4>2. a[k] = s[k]
        BY <2>1, <4>1 DEF a
      <4>3. QED
        BY <3>1, <4>1, <4>2
    <3>2. CASE k >= n
      <4>1. r[k] = b[k - (n - 1)]
        BY <1>1, <2>4, <2>5, <2>3, <2>6, <3>2
      <4>2. k - (n - 1) \in 1 .. Len(s) - n
        BY <1>1, <2>6, <3>2
      <4>3. b[k - (n - 1)] = s[(k - (n - 1)) + n]
        BY <2>2, <4>2 DEF b
      <4>4. QED
        BY <1>1, <3>2, <4>1, <4>3
    <3>3. QED
      BY <1>1, <3>1, <3>2
  <2>8. QED
    BY <2>6, <2>7
<1> HIDE DEF r
<1>3. ASSUME Distinct(s) PROVE Distinct(r)
  <2>1. DOMAIN r = 1 .. Len(r) /\ DOMAIN s = 1 .. Len(s)
    BY <1>2
  <2>2. ASSUME NEW i \in 1 .. Len(r), NEW k \in 1 .. Len(r), r[i] = r[k] PROVE i = k
    BY <1>1, <1>2, <1>3, <2>1, <2>2 DEF Distinct
  <2>3. QED
    BY <2>1, <2>2 DEF Distinct
<1>4. ASSUME Distinct(s) PROVE Range(r) = Range(s) \ {s[n]}
  <2>1. \A x \in Range(r) : x \in Range(s) /\ x # s[n]
    BY <1>1, <1>2, <1>4 DEF Distinct, Range
  <2>2. ASSUME NEW x \in Range(s) \ {s[n]} PROVE x \in Range(r)
    <3>1. PICK k \in 1 .. Len(s) : s[k] = x /\ k # n
      BY DEF Range
    <3>2. CASE k < n
      BY <1>1, <1>2, <3>1, <3>2 DEF Range
    <3>3. CASE k > n
      <4>1. k - 1 \in 1 .. Len(r) /\ r[k - 1] = x
        BY <1>1, <1>2, <3>1, <3>3
      <4>2. QED
        BY <1>2, <4>1 DEF Range
    <3>4. QED
      BY <1>1, <3>1, <3>2, <3>3
  <2>3. QED
    BY <2>1, <2>2
<1>5. QED
  BY <1>2, <1>3, <1>4 DEF r

-----------------------------------------------------------------------------
(* Type correctness.                                                       *)

\* The queues there are.
LEMMA QueueTypes ==
    /\ Queues \in Seq(QueueSet) /\ 1 \in DOMAIN Queues /\ ApiQueue \in QueueSet
    /\ \A n \in DOMAIN Queues : Queues[n] \in QueueSet
    /\ DOMAIN Queues = 1 .. Len(Queues) /\ Len(Queues) \in Nat
<1>1. /\ Queues \in Seq(QueueSet) /\ 1 \in DOMAIN Queues
      /\ DOMAIN Queues = 1 .. Len(Queues) /\ Len(Queues) \in Nat
  BY QueuesAssumption
<1>2. \A n \in DOMAIN Queues : Queues[n] \in QueueSet
  BY DEF QueueSet, Range
<1>3. QED
  BY <1>1, <1>2, QueuesAssumption

\* What a push does to the queue, the kinds and the count.
LEMMA PushType ==
  ASSUME TypeOK, NEW q \in QueueSet, NEW what \in QueueSet \cup {"garbled"}, Push(q, what)
  PROVE  /\ pending' \in [QueueSet -> Seq(Events)] /\ nextEvent' \in 1 .. MaxEvents + 1
         /\ kind' \in [Events -> QueueSet \cup {"none", "garbled"}]
<1>1. nextEvent \in Events /\ pending[q] \in Seq(Events)
  BY DEF TypeOK, Push
<1>2. Append(pending[q], nextEvent) \in Seq(Events)
  BY <1>1
<1>3. pending' \in [QueueSet -> Seq(Events)]
  BY <1>2 DEF TypeOK, Push
<1>4. nextEvent' \in 1 .. MaxEvents + 1
  BY <1>1, BoundsAssumption DEF Push, Events
<1>5. kind' \in [Events -> QueueSet \cup {"none", "garbled"}]
  BY DEF TypeOK, Push
<1>6. QED
  BY <1>3, <1>4, <1>5

\* Every value keeps its type.
LEMMA TypeStep == TypeOK /\ [Next]_vars => TypeOK'
<1> SUFFICES ASSUME TypeOK, [Next]_vars PROVE TypeOK'
  OBVIOUS
<1> USE DEF tickVars, routeVars, threadVars, historyVars
<1>1. CASE Initialize
  BY <1>1, BoundsAssumption DEF TypeOK, Initialize
<1>2. CASE Shutdown
  BY <1>2 DEF TypeOK, Shutdown
<1>3. ASSUME NEW s \in Scripts, AmxLoad(s) PROVE TypeOK'
  <2>1. amxList' \in Seq(Scripts) /\ loads' \in 0 .. MaxLoads
    BY <1>3, BoundsAssumption DEF TypeOK, AmxLoad
  <2>2. QED
    BY <1>3, <2>1 DEF TypeOK, AmxLoad
<1>4. ASSUME NEW s \in Scripts, AmxUnload(s) PROVE TypeOK'
  <2>1. amxList' \in Seq(Scripts)
    BY <1>4, DropOne DEF TypeOK, AmxUnload
  <2>2. excused' \subseteq Scripts \X Events
    BY <1>4 DEF TypeOK, AmxUnload, Range
  <2>3. QED
    BY <1>4, <2>1, <2>2 DEF TypeOK, AmxUnload
<1>5. CASE RegisterApiRoute
  <2>1. apiRoutes' \subseteq RouteIds /\ nextApiRouteId' \in 1 .. MaxRoutes + 1
    BY <1>5, BoundsAssumption DEF TypeOK, RegisterApiRoute, RouteIds
  <2>2. QED
    BY <1>5, <2>1 DEF TypeOK, RegisterApiRoute
<1>6. ASSUME NEW id \in RouteIds, RemoveApiRoute(id) PROVE TypeOK'
  BY <1>6 DEF TypeOK, RemoveApiRoute
<1>7. ASSUME NEW t \in Threads, Handler(t) PROVE TypeOK'
  <2>1. CASE MatchApiRoute(t)
    <3>1. route' \in [Threads -> RouteIds \cup {NoRoute}]
      BY <2>1 DEF TypeOK, MatchApiRoute
    <3>2. QED
      BY <2>1, <3>1 DEF TypeOK, MatchApiRoute
  <2>2. CASE CheckApiAuth(t)
    BY <2>2 DEF TypeOK, CheckApiAuth
  <2>3. CASE HandleApiRequest(t)
    <3>1. /\ pending' \in [QueueSet -> Seq(Events)] /\ nextEvent' \in 1 .. MaxEvents + 1
          /\ kind' \in [Events -> QueueSet \cup {"none", "garbled"}]
      BY <2>3, QueueTypes, PushType DEF HandleApiRequest
    <3>2. QED
      BY <2>3, <3>1 DEF TypeOK, HandleApiRequest
  <2>4. CASE HandlerReturns(t)
    BY <2>4 DEF TypeOK, HandlerReturns
  <2>5. QED
    BY <1>7, <2>1, <2>2, <2>3, <2>4 DEF Handler
<1>8. ASSUME NEW q \in QueueSet, WorkerPush(q) PROVE TypeOK'
  <2>1. /\ pending' \in [QueueSet -> Seq(Events)] /\ nextEvent' \in 1 .. MaxEvents + 1
        /\ kind' \in [Events -> QueueSet \cup {"none", "garbled"}]
    BY <1>8, PushType DEF WorkerPush
  <2>2. QED
    BY <1>8, <2>1 DEF TypeOK, WorkerPush
<1>9. CASE BeginDrain
  BY <1>9, QueueTypes DEF TypeOK, BeginDrain, BeginWith
<1>10. CASE TakeEvents
  <2>1. Queues[queue] \in QueueSet
    BY QueueTypes DEF TypeOK
  <2>2. batch' \in Seq(Events) /\ pending' \in [QueueSet -> Seq(Events)]
    BY <1>10, <2>1 DEF TypeOK, TakeEvents
  <2>3. Range(snapshot) \subseteq Scripts /\ Range(batch') \subseteq Events
    BY <2>2 DEF TypeOK, Range
  <2>4. /\ audience' \in [Events -> SUBSET Scripts]
        /\ excused' \subseteq Scripts \X Events
    BY <1>10, <2>3 DEF TypeOK, TakeEvents
  <2>5. QED
    BY <1>10, <2>2, <2>4 DEF TypeOK, TakeEvents
<1>11. CASE CallScript
  <2>1. heard' \in [Scripts -> Seq(Events)]
    <3>1. snapshot[turn] \in Scripts /\ Head(batch) \in Events
      BY <1>11 DEF TypeOK, CallScript
    <3>2. Append(heard[snapshot[turn]], Head(batch)) \in Seq(Events)
      BY <3>1 DEF TypeOK
    <3>3. QED
      BY <1>11, <3>1, <3>2 DEF TypeOK, CallScript
  <2>2. QED
    BY <1>11, <2>1 DEF TypeOK, CallScript
<1>12. CASE NextEvent
  BY <1>12 DEF TypeOK, NextEvent
<1>13. CASE NextQueue
  <2>1. queue' \in DOMAIN Queues
    <3>1. queue \in 1 .. Len(Queues) /\ Len(Queues) \in Nat
      BY QueueTypes DEF TypeOK
    <3>2. CASE queue < Len(Queues)
      BY <1>13, <3>1, <3>2, QueueTypes DEF NextQueue, NextOf
    <3>3. CASE ~(queue < Len(Queues))
      BY <1>13, <3>3, QueueTypes DEF NextQueue, NextOf
    <3>4. QED
      BY <3>2, <3>3
  <2>2. phase' \in {"idle", "take", "call"} /\ snapshot' \in Seq(Scripts)
    <3>1. <<>> \in Seq(Scripts) /\ snapshot \in Seq(Scripts)
      BY DEF TypeOK
    <3>2. /\ phase' = "take" \/ phase' = "idle"
          /\ snapshot' = snapshot \/ snapshot' = <<>>
      BY <1>13, Zenon DEF NextQueue, NextOf
    <3>3. QED
      BY <3>1, <3>2
  <2>3. QED
    BY <1>13, <2>1, <2>2 DEF TypeOK, NextQueue, NextOf
<1>14. CASE UNCHANGED vars
  BY <1>14 DEF TypeOK, vars
<1>15. QED
  BY <1>1, <1>2, <1>3, <1>4, <1>5, <1>6, <1>7, <1>8, <1>9, <1>10, <1>11, <1>12, <1>13, <1>14
     DEF Next, DrainAllEvents

\* So is every value at the start.
LEMMA InitType == Init => TypeOK
<1> SUFFICES ASSUME Init PROVE TypeOK
  OBVIOUS
<1>0. initialized \in BOOLEAN
  BY Zenon DEF Init
<1>1. amxList \in Seq(Scripts)
  BY DEF Init
<1>2. pending \in [QueueSet -> Seq(Events)]
  <2>1. <<>> \in Seq(Events)
    OBVIOUS
  <2>2. QED
    BY <2>1 DEF Init
<1>3. /\ phase \in {"idle", "take", "call"} /\ snapshot \in Seq(Scripts)
      /\ queue \in DOMAIN Queues /\ batch \in Seq(Events) /\ turn \in Nat
  BY QueueTypes DEF Init
<1>4. nextEvent \in 1 .. MaxEvents + 1
  BY BoundsAssumption DEF Init
<1>5. /\ apiRoutes \subseteq RouteIds /\ nextApiRouteId \in 1 .. MaxRoutes + 1
      /\ loads \in 0 .. MaxLoads
  BY BoundsAssumption DEF Init
<1>6. /\ pc \in [Threads -> {"idle", "auth", "queue", "wait"}]
      /\ route \in [Threads -> RouteIds \cup {NoRoute}]
      /\ kind \in [Events -> QueueSet \cup {"none", "garbled"}]
  BY DEF Init
<1>7. /\ heard \in [Scripts -> Seq(Events)] /\ audience \in [Events -> SUBSET Scripts]
      /\ excused \subseteq Scripts \X Events
  BY DEF Init
<1>8. QED
  BY <1>0, <1>1, <1>2, <1>3, <1>4, <1>5, <1>6, <1>7 DEF TypeOK

\* The scripts, the queues, the tick and the handlers keep to their values.
THEOREM TypeCorrect == Spec => []TypeOK
BY InitType, TypeStep, PTL DEF Spec

-----------------------------------------------------------------------------
(* The steps.                                                              *)

\* The invariant holds at the start.
LEMMA InitInv == Init => IInv
<1> SUFFICES ASSUME Init PROVE IInv
  OBVIOUS
<1>1. TypeOK
  BY InitType
<1>2. TickShape /\ BatchAudience
  BY DEF Init, TickShape, BatchAudience, Distinct
<1>3. Known = {} /\ \A q \in QueueSet : pending[q] = <<>>
  BY DEF Init, Known
<1>4. AtHome /\ QueuesInOrder /\ Settled
  BY <1>3, QueueTypes DEF Init, AtHome, QueuesInOrder, Ascending, Settled
<1>5. HeardBefore /\ \A s \in Scripts : InOrder(s)
  BY DEF Init, HeardBefore, InOrder
<1>6. QED
  BY <1>1, <1>2, <1>4, <1>5 DEF IInv

\* What the invariant is about, but for the scripts that are loaded.
eventVars == <<pending, nextEvent, phase, snapshot, queue, batch, turn, kind, heard, audience>>

\* A step that touches none of it.
LEMMA QuietStep ==
  ASSUME IInv, TypeOK', UNCHANGED <<amxList, excused, eventVars>>
  PROVE  IInv'
<1> USE DEF eventVars
<1>1. TickShape' /\ AtHome' /\ QueuesInOrder'
  BY DEF IInv, TickShape, Distinct, AtHome, Known, QueueOf, QueuesInOrder, Ascending
<1>2. HeardBefore' /\ (\A s \in Scripts : InOrder(s))'
  BY DEF IInv, HeardBefore, QueueOf, Had, InOrder
<1>3. BatchAudience' /\ Settled'
  BY DEF IInv, BatchAudience, Settled, DoneWith, Waiting, Known, Loaded
<1>4. QED
  BY <1>1, <1>2, <1>3 DEF IInv

\* A script comes or goes: who is gone may miss the events in hand.
LEMMA ScriptStep ==
  ASSUME IInv, TypeOK', UNCHANGED eventVars, Distinct(amxList)', excused \subseteq excused',
         \A s \in Loaded \ Loaded' : \A i \in DOMAIN batch : <<s, batch[i]>> \in excused'
  PROVE  IInv'
<1> USE DEF eventVars
<1>1. TickShape' /\ AtHome' /\ QueuesInOrder'
  BY DEF IInv, TickShape, Distinct, AtHome, Known, QueueOf, QueuesInOrder, Ascending
<1>2. HeardBefore' /\ (\A s \in Scripts : InOrder(s))'
  BY DEF IInv, HeardBefore, QueueOf, Had, InOrder
<1>3. \A s, e : DoneWith(s, e) => DoneWith(s, e)'
  BY DEF DoneWith
<1>4. BatchAudience'
  <2>1. ASSUME NEW i \in DOMAIN batch, NEW s \in Range(snapshot) \ Loaded'
        PROVE  <<s, batch[i]>> \in excused'
    <3>1. CASE s \in Loaded
      BY <3>1
    <3>2. CASE s \notin Loaded
      BY <3>2 DEF IInv, BatchAudience
    <3>3. QED
      BY <3>1, <3>2
  <2>2. QED
    BY <1>3, <2>1 DEF IInv, BatchAudience
<1>5. Settled'
  BY <1>3 DEF IInv, Settled, Waiting, Known
<1>6. QED
  BY <1>1, <1>2, <1>4, <1>5 DEF IInv

\* A script is loaded.
LEMMA LoadStep ==
  ASSUME IInv, TypeOK', NEW s \in Scripts, AmxLoad(s)
  PROVE  IInv'
<1>1. amxList \in Seq(Scripts) /\ amxList' = Append(amxList, s) /\ s \notin Range(amxList)
  BY DEF IInv, TypeOK, AmxLoad, Loaded
<1>2. /\ Len(amxList') = Len(amxList) + 1 /\ DOMAIN amxList' = 1 .. Len(amxList) + 1
      /\ \A i \in 1 .. Len(amxList) : amxList'[i] = amxList[i] /\ amxList'[i] # s
      /\ amxList'[Len(amxList) + 1] = s
  BY <1>1 DEF Range
<1>3. Distinct(amxList)'
  <2>1. Distinct(amxList) /\ DOMAIN amxList = 1 .. Len(amxList) /\ Len(amxList) \in Nat
    BY <1>1 DEF IInv, TickShape
  <2>2. QED
    BY <1>2, <2>1 DEF Distinct
<1>4. Loaded \subseteq Loaded'
  BY <1>1, <1>2 DEF Loaded, Range
<1>5. UNCHANGED <<eventVars, excused>>
  BY DEF AmxLoad, eventVars, tickVars, historyVars
<1>6. QED
  BY <1>3, <1>4, <1>5, ScriptStep

\* A script is unloaded: its entry leaves the list.
LEMMA UnloadStep ==
  ASSUME IInv, TypeOK', NEW s \in Scripts, AmxUnload(s)
  PROVE  IInv'
<1>1. PICK n \in DOMAIN amxList : amxList[n] = s /\ amxList' = RemoveAt(amxList, n)
  BY DEF AmxUnload
<1>2. amxList \in Seq(Scripts) /\ Distinct(amxList)
  BY DEF IInv, TypeOK, TickShape
<1>3. Distinct(RemoveAt(amxList, n)) /\ Range(RemoveAt(amxList, n)) = Range(amxList) \ {s}
  BY <1>1, <1>2, DropOne
<1>4. Distinct(amxList)' /\ Loaded' = Loaded \ {s}
  BY <1>1, <1>3 DEF Loaded, Distinct
<1>5. \A i \in DOMAIN batch : <<s, batch[i]>> \in excused'
  BY DEF AmxUnload, Range
<1>6. UNCHANGED eventVars /\ excused \subseteq excused'
  BY DEF AmxUnload, eventVars, tickVars
<1>7. QED
  BY <1>4, <1>5, <1>6, ScriptStep

\* A push adds the newest event to the end of its queue.
LEMMA PushStep ==
  ASSUME IInv, TypeOK', NEW q \in QueueSet, NEW what, Push(q, what),
         what = q \/ (q = ApiQueue /\ what = "garbled"),
         UNCHANGED <<amxList, phase, snapshot, queue, batch, turn, heard, audience, excused>>
  PROVE  IInv'
<1> DEFINE NewQueueOf(e) == IF kind'[e] = "garbled" THEN ApiQueue ELSE kind'[e]
<1>0. PICK n : n = nextEvent
  OBVIOUS
<1>1. /\ n \in Events /\ n \in Nat /\ nextEvent' = n + 1
      /\ n \notin Known /\ Known' = Known \cup {n} /\ \A e \in Known : e < n
      /\ Known \subseteq Events
  BY <1>0, BoundsAssumption DEF Push, Known, Events
<1>2. /\ \A e \in Known : kind'[e] = kind[e] /\ NewQueueOf(e) = QueueOf(e)
      /\ kind'[n] = what /\ NewQueueOf(n) = q /\ what # "none"
  <2>1. kind' = [kind EXCEPT ![n] = what] /\ kind \in [Events -> QueueSet \cup {"none", "garbled"}]
    BY <1>0 DEF Push, IInv, TypeOK
  <2>2. /\ \A e \in Known : kind'[e] = kind[e]
        /\ kind'[n] = what
    BY <1>1, <2>1
  <2>3. what # "none" /\ q # "garbled"
    BY QueuesAssumption
  <2>4. QED
    BY <2>2, <2>3 DEF QueueOf
<1>3. /\ DOMAIN pending[q] = 1 .. Len(pending[q]) /\ Len(pending[q]) \in Nat
      /\ DOMAIN pending'[q] = 1 .. Len(pending[q]) + 1
      /\ \A i \in DOMAIN pending[q] : pending'[q][i] = pending[q][i]
      /\ pending'[q][Len(pending[q]) + 1] = n
  <2>1. pending'[q] = Append(pending[q], n) /\ pending[q] \in Seq(Events)
    BY <1>0 DEF Push, IInv, TypeOK
  <2>2. QED
    BY <1>1, <2>1
<1>4. \A p \in QueueSet : p # q => pending'[p] = pending[p]
  BY DEF Push, IInv, TypeOK
<1>5. \A p \in QueueSet : \A i \in DOMAIN pending'[p] :
         \/ i \in DOMAIN pending[p] /\ pending'[p][i] = pending[p][i]
         \/ p = q /\ i = Len(pending[q]) + 1 /\ pending'[p][i] = n
  BY <1>3, <1>4
<1>6. TickShape'
  BY DEF IInv, TickShape, Distinct
<1>7. AtHome'
  <2>1. \A e \in Known' : kind'[e] # "none"
    BY <1>1, <1>2 DEF IInv, AtHome
  <2>2. ASSUME NEW p \in QueueSet, NEW i \in DOMAIN pending'[p]
        PROVE  pending'[p][i] \in Known' /\ NewQueueOf(pending'[p][i]) = p
    <3>1. CASE i \in DOMAIN pending[p] /\ pending'[p][i] = pending[p][i]
      <4>1. pending[p][i] \in Known /\ QueueOf(pending[p][i]) = p
        BY <3>1 DEF IInv, AtHome
      <4>2. QED
        BY <1>1, <1>2, <3>1, <4>1
    <3>2. CASE p = q /\ pending'[p][i] = n
      BY <1>1, <1>2, <3>2
    <3>3. QED
      BY <1>5, <3>1, <3>2
  <2>3. \A i \in DOMAIN batch : batch[i] \in Known' /\ NewQueueOf(batch[i]) = Queues[queue]
    BY <1>1, <1>2 DEF IInv, AtHome
  <2>4. \A s \in Scripts : \A i \in DOMAIN heard[s] :
           heard[s][i] \in Known' /\ kind'[heard[s][i]] \in Hears[s]
    BY <1>1, <1>2 DEF IInv, AtHome
  <2>5. QED
    BY <2>1, <2>2, <2>3, <2>4 DEF AtHome, QueueOf
<1>8. QueuesInOrder'
  <2>1. ASSUME NEW p \in QueueSet PROVE Ascending(pending'[p])
    <3>1. CASE p = q
      <4>1. \A i \in DOMAIN pending[q] : pending[q][i] < n
        BY <1>1 DEF IInv, AtHome
      <4>2. Ascending(pending[q])
        BY DEF IInv, QueuesInOrder
      <4>3. QED
        BY <1>3, <3>1, <4>1, <4>2 DEF Ascending
    <3>2. CASE p # q
      BY <1>4, <3>2 DEF IInv, QueuesInOrder
    <3>3. QED
      BY <3>1, <3>2
  <2>2. Queues[queue] \in QueueSet
    BY QueueTypes DEF IInv, TypeOK
  <2>3. ASSUME NEW i \in DOMAIN batch, NEW k \in DOMAIN pending'[Queues[queue]]
        PROVE  batch[i] < pending'[Queues[queue]][k]
    <3>1. batch[i] < n
      BY <1>1 DEF IInv, AtHome
    <3>2. QED
      BY <1>5, <2>2, <3>1 DEF IInv, QueuesInOrder
  <2>4. Ascending(batch)'
    BY DEF IInv, QueuesInOrder, Ascending
  <2>5. QED
    BY <2>1, <2>3, <2>4 DEF QueuesInOrder, Ascending
<1>9. HeardBefore'
  <2>1. ASSUME NEW s \in Scripts, NEW i \in DOMAIN heard[s], NEW h, h = heard[s][i]
        PROVE  /\ \A k \in DOMAIN pending'[NewQueueOf(h)] : h < pending'[NewQueueOf(h)][k]
               /\ NewQueueOf(h) = Queues[queue] =>
                     \A k \in DOMAIN batch : h < batch[k] \/ (k = 1 /\ h = batch[1] /\ Had(s)')
    <3>1. /\ h \in Known /\ h < n /\ NewQueueOf(h) = QueueOf(h) /\ QueueOf(h) \in QueueSet
      <4>1. h \in Known /\ kind[h] \in Hears[s]
        BY <2>1 DEF IInv, AtHome
      <4>2. kind[h] \in QueueSet
        BY <4>1, HearsAssumption
      <4>3. QED
        BY <1>1, <1>2, <4>1, <4>2, QueuesAssumption DEF QueueOf
    <3>2. /\ \A k \in DOMAIN pending[QueueOf(h)] : h < pending[QueueOf(h)][k]
          /\ QueueOf(h) = Queues[queue] =>
                \A k \in DOMAIN batch : h < batch[k] \/ (k = 1 /\ h = batch[1] /\ Had(s))
      BY <2>1 DEF IInv, HeardBefore
    <3>3. Had(s)' = Had(s)
      BY DEF Had
    <3>4. QED
      BY <1>5, <3>1, <3>2, <3>3
  <2>2. QED
    BY <2>1 DEF HeardBefore, QueueOf
<1>10. \A s \in Scripts : \A e \in Known : DoneWith(s, e) => DoneWith(s, e)'
  BY <1>2 DEF DoneWith
<1>11. BatchAudience'
  <2>1. batch # <<>> => \A j \in DOMAIN snapshot : j < turn => DoneWith(snapshot[j], batch[1])'
    <3>1. batch # <<>> => batch[1] \in Known
      BY DEF IInv, TypeOK, AtHome
    <3>2. \A j \in DOMAIN snapshot : snapshot[j] \in Scripts
      BY DEF IInv, TypeOK
    <3>3. QED
      BY <1>10, <3>1, <3>2 DEF IInv, BatchAudience
  <2>2. QED
    BY <2>1 DEF IInv, BatchAudience, Loaded, DoneWith
<1>12. Settled'
  <2>1. ASSUME NEW e \in Known', ~Waiting(e)'
        PROVE  audience[e] # {} /\ \A s \in audience[e] : DoneWith(s, e)'
    <3>1. e # n
      <4>1. n \in Range(pending'[q])
        BY <1>3 DEF Range
      <4>2. QED
        BY <2>1, <4>1 DEF Waiting
    <3>2. e \in Known
      BY <1>1, <3>1
    <3>3. ~Waiting(e)
      <4>1. ASSUME NEW p \in QueueSet, e \in Range(pending[p]) PROVE e \in Range(pending'[p])
        BY <1>3, <1>4, <4>1 DEF Range
      <4>2. QED
        BY <2>1, <4>1 DEF Waiting
    <3>4. audience[e] # {} /\ \A s \in audience[e] : DoneWith(s, e) /\ s \in Scripts
      BY <1>1, <3>2, <3>3 DEF IInv, Settled, TypeOK
    <3>5. QED
      BY <1>10, <3>2, <3>4
  <2>2. QED
    BY <2>1 DEF Settled
<1>13. ASSUME NEW s \in Scripts PROVE InOrder(s)'
  <2>1. \A i \in DOMAIN heard[s] : kind'[heard[s][i]] = kind[heard[s][i]]
    BY <1>2 DEF IInv, AtHome
  <2>2. QED
    BY <2>1 DEF IInv, InOrder
<1>14. QED
  BY <1>6, <1>7, <1>8, <1>9, <1>11, <1>12, <1>13 DEF IInv

\* A tick begins with the scripts that are loaded.
LEMMA BeginStep ==
  ASSUME IInv, TypeOK', BeginDrain
  PROVE  IInv'
<1>1. /\ batch = <<>> /\ phase' = "take" /\ snapshot' = amxList /\ amxList # <<>> /\ queue' = 1
      /\ UNCHANGED <<amxList, pending, nextEvent, batch, kind, heard, audience, excused>>
  BY DEF IInv, TickShape, BeginDrain, BeginWith, historyVars
<1>2. TickShape'
  BY <1>1 DEF IInv, TickShape, Distinct
<1>3. AtHome' /\ QueuesInOrder'
  BY <1>1 DEF IInv, AtHome, Known, QueueOf, QueuesInOrder, Ascending
<1>4. HeardBefore' /\ (\A s \in Scripts : InOrder(s))'
  BY <1>1 DEF IInv, HeardBefore, QueueOf, InOrder
<1>5. BatchAudience' /\ Settled'
  BY <1>1 DEF IInv, BatchAudience, Settled, DoneWith, Waiting, Known
<1>6. QED
  BY <1>2, <1>3, <1>4, <1>5 DEF IInv

\* The batch is what waited in the queue, for the scripts of the snapshot.
LEMMA TakeStep ==
  ASSUME IInv, TypeOK', TakeEvents
  PROVE  IInv'
<1>1. PICK q \in QueueSet : q = Queues[queue]
  BY QueueTypes DEF IInv, TypeOK
<1>2. /\ batch = <<>> /\ phase' = "call" /\ turn' = 1 /\ batch' = pending[q]
      /\ pending'[q] = <<>> /\ \A p \in QueueSet : p # q => pending'[p] = pending[p]
      /\ UNCHANGED <<amxList, nextEvent, snapshot, queue, kind, heard>>
  BY <1>1 DEF IInv, TickShape, TypeOK, TakeEvents
<1>3. /\ \A e \in Events : audience'[e] =
             IF e \in Range(batch') THEN Range(snapshot) ELSE audience[e]
      /\ excused \subseteq excused'
      /\ \A s \in Range(snapshot) \ Loaded : \A e \in Range(batch') : <<s, e>> \in excused'
  BY DEF TakeEvents
<1>4. Known \subseteq Events /\ Known' = Known
  BY <1>2, BoundsAssumption DEF IInv, TypeOK, Known, Events
<1>5. TickShape'
  BY <1>2 DEF IInv, TickShape, TakeEvents, Distinct, TypeOK
<1>6. AtHome'
  BY <1>1, <1>2, <1>4 DEF IInv, AtHome, QueueOf
<1>7. QueuesInOrder'
  <2>1. Ascending(batch)'
    BY <1>2 DEF IInv, QueuesInOrder, Ascending
  <2>2. \A p \in QueueSet : Ascending(pending'[p])
    BY <1>2 DEF IInv, QueuesInOrder, Ascending
  <2>3. QED
    BY <1>1, <1>2, <2>1, <2>2 DEF QueuesInOrder, Ascending
<1>8. HeardBefore'
  <2>1. ASSUME NEW s \in Scripts, NEW i \in DOMAIN heard[s]
        PROVE  /\ \A k \in DOMAIN pending'[QueueOf(heard[s][i])] :
                     heard[s][i] < pending'[QueueOf(heard[s][i])][k]
               /\ QueueOf(heard[s][i]) = q => \A k \in DOMAIN batch' : heard[s][i] < batch'[k]
    <3>1. QueueOf(heard[s][i]) \in QueueSet
      <4>1. kind[heard[s][i]] \in QueueSet
        BY HearsAssumption DEF IInv, AtHome
      <4>2. QED
        BY <4>1, QueuesAssumption DEF QueueOf
    <3>2. \A k \in DOMAIN pending[QueueOf(heard[s][i])] :
             heard[s][i] < pending[QueueOf(heard[s][i])][k]
      BY DEF IInv, HeardBefore
    <3>3. QED
      BY <1>2, <3>1, <3>2
  <2>2. QED
    BY <1>1, <1>2, <2>1 DEF HeardBefore, QueueOf
<1>9. BatchAudience'
  <2>1. \A i \in DOMAIN batch' : batch'[i] \in Range(batch') /\ batch'[i] \in Events
    BY <1>2 DEF Range, IInv, TypeOK
  <2>2. QED
    BY <1>2, <1>3, <2>1 DEF BatchAudience, Loaded, IInv, TypeOK
<1>10. Settled'
  <2>1. ASSUME NEW e \in Known, ~Waiting(e)'
        PROVE  audience'[e] # {} /\ \A s \in audience'[e] : DoneWith(s, e)'
    <3>1. e \notin Range(batch') /\ ~Waiting(e)
      BY <1>2, <2>1 DEF Waiting, Range
    <3>2. audience'[e] = audience[e]
      BY <1>3, <1>4, <3>1
    <3>3. \A s \in audience[e] : DoneWith(s, e) => DoneWith(s, e)'
      BY <1>2, <1>3 DEF DoneWith
    <3>4. QED
      BY <3>1, <3>2, <3>3 DEF IInv, Settled
  <2>2. QED
    BY <1>4, <2>1 DEF Settled
<1>11. (\A s \in Scripts : InOrder(s))'
  BY <1>2 DEF IInv, InOrder
<1>12. QED
  BY <1>5, <1>6, <1>7, <1>8, <1>9, <1>10, <1>11 DEF IInv

\* A script has its turn with the head of the batch, and hears it if it has
\* the public: nothing it has heard from that queue is as young.
LEMMA CallStep ==
  ASSUME IInv, TypeOK', CallScript
  PROVE  IInv'
<1>1. PICK s \in Scripts, e \in Known :
         s = snapshot[turn] /\ e = batch[1] /\ e = Head(batch) /\ 1 \in DOMAIN batch
      /\ QueueOf(e) = Queues[queue]
  BY DEF IInv, TypeOK, AtHome, CallScript
<1>2. /\ turn \in DOMAIN snapshot /\ turn \in Nat /\ turn' = turn + 1 /\ phase = "call"
      /\ DOMAIN snapshot = 1 .. Len(snapshot) /\ Len(snapshot) \in Nat
      /\ UNCHANGED <<amxList, pending, nextEvent, phase, snapshot, queue, batch, kind, audience,
                     excused>>
  BY DEF IInv, TypeOK, CallScript
<1>3. Known' = Known /\ Known \subseteq Nat
  BY <1>2 DEF Known
<1>4. \/ /\ kind[e] \in Hears[s]
         /\ heard' = [heard EXCEPT ![s] = Append(@, e)]
      \/ /\ kind[e] \notin Hears[s] \/ s \notin Loaded
         /\ heard' = heard
  BY <1>1 DEF CallScript
<1>5. /\ heard \in [Scripts -> Seq(Events)]
      /\ DOMAIN heard[s] = 1 .. Len(heard[s]) /\ Len(heard[s]) \in Nat
  BY DEF IInv, TypeOK
<1>6. \/ heard' = heard
      \/ /\ \A r \in Scripts : r # s => heard'[r] = heard[r]
         /\ DOMAIN heard'[s] = 1 .. Len(heard[s]) + 1
         /\ \A i \in DOMAIN heard[s] : heard'[s][i] = heard[s][i]
         /\ heard'[s][Len(heard[s]) + 1] = e /\ kind[e] \in Hears[s]
  <2>1. CASE heard' = [heard EXCEPT ![s] = Append(@, e)] /\ kind[e] \in Hears[s]
    <3>1. heard[s] \in Seq(Events) /\ heard'[s] = Append(heard[s], e)
      BY <1>5, <2>1
    <3>2. /\ DOMAIN heard'[s] = 1 .. Len(heard[s]) + 1
          /\ \A i \in DOMAIN heard[s] : heard'[s][i] = heard[s][i]
          /\ heard'[s][Len(heard[s]) + 1] = e
      BY <3>1
    <3>3. QED
      BY <1>5, <2>1, <3>2
  <2>2. QED
    BY <1>4, <2>1
<1>7. /\ \A r \in Scripts : DOMAIN heard[r] \subseteq DOMAIN heard'[r]
      /\ \A r \in Scripts : \A i \in DOMAIN heard[r] : heard'[r][i] = heard[r][i]
      /\ \A r \in Scripts : \A i \in DOMAIN heard'[r] :
            \/ i \in DOMAIN heard[r] /\ heard'[r][i] = heard[r][i]
            \/ /\ r = s /\ i = Len(heard[s]) + 1 /\ heard'[r][i] = e
               /\ kind[e] \in Hears[s]
  <2>1. CASE heard' = heard
    BY <2>1
  <2>2. CASE heard' # heard
    <3>1. ASSUME NEW r \in Scripts, r # s PROVE heard'[r] = heard[r]
      BY <1>6, <2>2, <3>1
    <3>2. DOMAIN heard[s] \subseteq DOMAIN heard'[s]
      BY <1>5, <1>6, <2>2
    <3>3. \A i \in DOMAIN heard'[s] : i \in DOMAIN heard[s] \/ i = Len(heard[s]) + 1
      BY <1>5, <1>6, <2>2
    <3>4. QED
      BY <1>6, <2>2, <3>1, <3>2, <3>3
  <2>3. QED
    BY <2>1, <2>2
<1>8. TickShape'
  BY <1>2 DEF IInv, TickShape, Distinct
<1>9. AtHome'
  <2>1. \A r \in Scripts : \A i \in DOMAIN heard'[r] :
           heard'[r][i] \in Known /\ kind[heard'[r][i]] \in Hears[r]
    BY <1>7 DEF IInv, AtHome
  <2>2. QED
    BY <1>2, <1>3, <2>1 DEF IInv, AtHome, QueueOf
<1>10. QueuesInOrder'
  BY <1>2 DEF IInv, QueuesInOrder, Ascending
<1>11. /\ Had(s)' /\ ~Had(s) /\ \A r \in Scripts : Had(r) => Had(r)'
  BY <1>1, <1>2 DEF Had, IInv, TickShape, Distinct
<1>12. HeardBefore'
  <2>1. ASSUME NEW r \in Scripts, NEW i \in DOMAIN heard'[r], NEW h, h = heard'[r][i]
        PROVE  /\ \A k \in DOMAIN pending[QueueOf(h)] : h < pending[QueueOf(h)][k]
               /\ QueueOf(h) = Queues[queue] =>
                     \A k \in DOMAIN batch : h < batch[k] \/ (k = 1 /\ h = batch[1] /\ Had(r)')
    <3>1. CASE i \in DOMAIN heard[r] /\ h = heard[r][i]
      BY <1>11, <3>1 DEF IInv, HeardBefore
    <3>2. CASE r = s /\ h = e
      <4>1. \A k \in DOMAIN pending[Queues[queue]] : e < pending[Queues[queue]][k]
        BY <1>1 DEF IInv, QueuesInOrder
      <4>2. \A k \in DOMAIN batch : k # 1 => e < batch[k]
        <5>1. DOMAIN batch = 1 .. Len(batch) /\ Len(batch) \in Nat /\ Ascending(batch)
          BY DEF IInv, TypeOK, QueuesInOrder
        <5>2. QED
          BY <1>1, <5>1 DEF Ascending
      <4>3. QED
        BY <1>1, <1>11, <3>2, <4>1, <4>2
    <3>3. QED
      BY <1>7, <2>1, <3>1, <3>2
  <2>2. QED
    <3>1. \A r \in Scripts : \A i \in DOMAIN heard'[r] :
             /\ \A k \in DOMAIN pending[QueueOf(heard'[r][i])] :
                   heard'[r][i] < pending[QueueOf(heard'[r][i])][k]
             /\ QueueOf(heard'[r][i]) = Queues[queue] =>
                   \A k \in DOMAIN batch :
                      heard'[r][i] < batch[k] \/ (k = 1 /\ heard'[r][i] = batch[1] /\ Had(r)')
      BY <2>1
    <3>2. QED
      BY <1>2, <3>1 DEF HeardBefore, QueueOf
<1>13. \A r \in Scripts : \A f : DoneWith(r, f) => DoneWith(r, f)'
  BY <1>2, <1>7 DEF DoneWith, Range
<1>14. DoneWith(s, e)'
  <2>1. CASE kind[e] \in Hears[s] /\ heard' = [heard EXCEPT ![s] = Append(@, e)]
    <3>1. heard'[s] = Append(heard[s], e) /\ heard[s] \in Seq(Events)
      BY <1>5, <2>1
    <3>2. heard'[s][Len(heard[s]) + 1] = e /\ Len(heard[s]) + 1 \in DOMAIN heard'[s]
      BY <3>1
    <3>3. QED
      BY <3>2 DEF DoneWith, Range
  <2>2. CASE kind[e] \notin Hears[s]
    BY <1>2, <2>2 DEF DoneWith
  <2>3. CASE s \notin Loaded
    <3>1. s \in Range(snapshot)
      BY <1>1, <1>2 DEF Range
    <3>2. <<s, e>> \in excused
      BY <1>1, <2>3, <3>1 DEF IInv, BatchAudience
    <3>3. QED
      BY <1>2, <3>2 DEF DoneWith
  <2>4. QED
    BY <1>4, <2>1, <2>2, <2>3
<1>15. BatchAudience'
  <2>1. ASSUME NEW j \in DOMAIN snapshot, j < turn + 1 PROVE DoneWith(snapshot[j], e)'
    <3>1. PICK r \in Scripts : r = snapshot[j]
      BY DEF IInv, TypeOK
    <3>2. CASE j = turn
      <4>1. r = s
        BY <1>1, <3>1, <3>2
      <4>2. DoneWith(r, e)'
        BY <1>14, <4>1
      <4>3. QED
        BY <1>2, <3>1, <4>2 DEF DoneWith
    <3>3. CASE j < turn
      <4>1. DoneWith(r, e)
        BY <1>1, <3>1, <3>3 DEF IInv, BatchAudience
      <4>2. DoneWith(r, e)'
        BY <1>13, <4>1
      <4>3. QED
        BY <1>2, <3>1, <4>2 DEF DoneWith
    <3>4. QED
      BY <1>2, <2>1, <3>2, <3>3
  <2>2. QED
    BY <1>1, <1>2, <2>1 DEF IInv, BatchAudience, Loaded, DoneWith
<1>16. Settled'
  <2>1. \A f \in Known : audience[f] \subseteq Scripts
    BY BoundsAssumption DEF IInv, TypeOK, Known, Events
  <2>2. QED
    BY <1>2, <1>3, <1>13, <2>1 DEF IInv, Settled, Waiting
<1>17. ASSUME NEW r \in Scripts PROVE InOrder(r)'
  <2>1. ASSUME NEW i \in DOMAIN heard'[r], NEW k \in DOMAIN heard'[r],
               i < k, kind[heard'[r][i]] = kind[heard'[r][k]]
        PROVE  heard'[r][i] < heard'[r][k]
    <3>1. CASE i \in DOMAIN heard[r] /\ k \in DOMAIN heard[r]
      BY <1>7, <2>1, <3>1 DEF IInv, InOrder
    <3>2. CASE r = s /\ k = Len(heard[s]) + 1 /\ heard'[r][k] = e
      <4>1. i \in DOMAIN heard[s] /\ heard'[r][i] = heard[s][i]
        BY <1>5, <1>7, <2>1, <3>2
      <4>2. QueueOf(heard[s][i]) = Queues[queue]
        BY <1>1, <2>1, <3>2, <4>1 DEF QueueOf
      <4>3. heard[s][i] < batch[1] \/ Had(s)
        BY <1>1, <4>1, <4>2 DEF IInv, HeardBefore
      <4>4. QED
        BY <1>1, <1>11, <3>2, <4>1, <4>3
    <3>3. QED
      BY <1>5, <1>7, <2>1, <3>1, <3>2
  <2>2. QED
    BY <1>2, <2>1 DEF InOrder
<1>18. QED
  BY <1>8, <1>9, <1>10, <1>12, <1>15, <1>16, <1>17 DEF IInv

\* When every script of the snapshot has had its turn, all are done with the
\* head of the batch.
LEMMA NextEventStep ==
  ASSUME IInv, TypeOK', NextEvent
  PROVE  IInv'
<1>1. /\ phase = "call" /\ batch # <<>> /\ turn \notin DOMAIN snapshot
      /\ batch' = Tail(batch) /\ turn' = 1
      /\ UNCHANGED <<amxList, pending, nextEvent, phase, snapshot, queue, kind, heard, audience,
                     excused>>
  BY DEF NextEvent, historyVars
<1>2. /\ batch \in Seq(Events) /\ DOMAIN batch = 1 .. Len(batch) /\ 1 \in DOMAIN batch
      /\ DOMAIN batch' = 1 .. Len(batch) - 1
      /\ \A i \in DOMAIN batch' : batch'[i] = batch[i + 1] /\ i + 1 \in DOMAIN batch /\ i + 1 # 1
      /\ Len(batch) \in Nat
  <2>1. batch \in Seq(Events) /\ batch # <<>> /\ batch' = Tail(batch)
    BY <1>1 DEF IInv, TypeOK
  <2>2. /\ Len(batch) \in Nat /\ Len(batch) >= 1
        /\ DOMAIN batch = 1 .. Len(batch) /\ DOMAIN batch' = 1 .. Len(batch) - 1
    BY <2>1
  <2>3. ASSUME NEW i \in DOMAIN batch' PROVE batch'[i] = batch[i + 1] /\ i + 1 \in DOMAIN batch
    BY <2>1, <2>2
  <2>4. QED
    BY <2>1, <2>2, <2>3
<1>3. /\ snapshot # <<>> /\ \A j \in DOMAIN snapshot : j < turn
  BY <1>1 DEF IInv, TickShape, TypeOK
<1>4. TickShape'
  BY <1>1 DEF IInv, TickShape, Distinct, TypeOK
<1>5. AtHome'
  BY <1>1, <1>2 DEF IInv, AtHome, Known, QueueOf
<1>6. QueuesInOrder'
  <2>1. Ascending(batch)'
    BY <1>2 DEF IInv, QueuesInOrder, Ascending
  <2>2. QED
    BY <1>1, <1>2, <2>1 DEF IInv, QueuesInOrder, Ascending
<1>7. HeardBefore' /\ (\A s \in Scripts : InOrder(s))'
  <2>1. ASSUME NEW s \in Scripts, NEW i \in DOMAIN heard[s], QueueOf(heard[s][i]) = Queues[queue],
               NEW k \in DOMAIN batch'
        PROVE  heard[s][i] < batch'[k]
    <3>1. k + 1 \in DOMAIN batch /\ k + 1 # 1 /\ batch'[k] = batch[k + 1]
      BY <1>2
    <3>2. QED
      BY <2>1, <3>1 DEF IInv, HeardBefore
  <2>2. HeardBefore'
    BY <1>1, <2>1 DEF IInv, HeardBefore, QueueOf
  <2>3. (\A s \in Scripts : InOrder(s))'
    BY <1>1 DEF IInv, InOrder
  <2>4. QED
    BY <2>2, <2>3
<1>8. BatchAudience'
  BY <1>1, <1>2 DEF IInv, BatchAudience, Loaded, TypeOK
<1>9. Settled'
  <2>1. ASSUME NEW e \in Known, ~Waiting(e)'
        PROVE  audience[e] # {} /\ \A s \in audience[e] : DoneWith(s, e)
    <3>1. CASE e = batch[1]
      <4>1. audience[e] = Range(snapshot) /\ Range(snapshot) # {}
        <5>1. audience[e] = Range(snapshot)
          BY <1>2, <3>1 DEF IInv, BatchAudience
        <5>2. 1 \in DOMAIN snapshot
          BY <1>3 DEF IInv, TypeOK
        <5>3. QED
          BY <5>1, <5>2 DEF Range
      <4>2. \A s \in Range(snapshot) : DoneWith(s, e)
        BY <1>1, <1>3, <3>1 DEF IInv, BatchAudience, Range
      <4>3. QED
        BY <4>1, <4>2
    <3>2. CASE e # batch[1]
      <4>1. e \notin Range(batch)
        <5>1. ASSUME NEW i \in DOMAIN batch, batch[i] = e PROVE FALSE
          <6>1. i - 1 \in DOMAIN batch' /\ batch'[i - 1] = e
            BY <1>2, <3>2, <5>1
          <6>2. QED
            BY <2>1, <6>1 DEF Waiting, Range
        <5>2. QED
          BY <5>1 DEF Range
      <4>2. ~Waiting(e)
        BY <1>1, <2>1, <4>1 DEF Waiting
      <4>3. QED
        BY <4>2 DEF IInv, Settled
    <3>3. QED
      BY <3>1, <3>2
  <2>2. QED
    BY <1>1, <2>1 DEF Settled, DoneWith, Known
<1>10. QED
  BY <1>4, <1>5, <1>6, <1>7, <1>8, <1>9 DEF IInv

\* The next queue, or the end of the tick, when the batch is empty.
LEMMA NextQueueStep ==
  ASSUME IInv, TypeOK', NextQueue
  PROVE  IInv'
<1>1. /\ phase = "call" /\ batch = <<>> /\ phase' \in {"take", "idle"}
      /\ \/ phase' = "take" /\ snapshot' = snapshot
         \/ phase' = "idle" /\ snapshot' = <<>>
      /\ UNCHANGED <<amxList, pending, nextEvent, batch, turn, kind, heard, audience, excused>>
  BY Zenon DEF NextQueue, NextOf, historyVars
<1>2. TickShape'
  BY <1>1 DEF IInv, TickShape, Distinct
<1>3. AtHome' /\ QueuesInOrder'
  BY <1>1 DEF IInv, AtHome, Known, QueueOf, QueuesInOrder, Ascending
<1>4. HeardBefore' /\ (\A s \in Scripts : InOrder(s))'
  BY <1>1 DEF IInv, HeardBefore, QueueOf, InOrder
<1>5. BatchAudience' /\ Settled'
  BY <1>1 DEF IInv, BatchAudience, Settled, DoneWith, Waiting, Known
<1>6. QED
  BY <1>2, <1>3, <1>4, <1>5 DEF IInv

\* Every step keeps the invariant.
LEMMA InvStep == IInv /\ [Next]_vars => IInv'
<1> SUFFICES ASSUME IInv, [Next]_vars PROVE IInv'
  OBVIOUS
<1>0. TypeOK'
  BY TypeStep DEF IInv
<1> USE DEF eventVars, tickVars, historyVars
<1>1. CASE Initialize
  BY <1>0, <1>1, QuietStep DEF Initialize
<1>2. CASE Shutdown
  BY <1>0, <1>2, QuietStep DEF Shutdown
<1>3. ASSUME NEW s \in Scripts, AmxLoad(s) PROVE IInv'
  BY <1>0, <1>3, LoadStep
<1>4. ASSUME NEW s \in Scripts, AmxUnload(s) PROVE IInv'
  BY <1>0, <1>4, UnloadStep
<1>5. CASE RegisterApiRoute
  BY <1>0, <1>5, QuietStep DEF RegisterApiRoute
<1>6. ASSUME NEW id \in RouteIds, RemoveApiRoute(id) PROVE IInv'
  BY <1>0, <1>6, QuietStep DEF RemoveApiRoute
<1>7. ASSUME NEW t \in Threads, Handler(t) PROVE IInv'
  <2>1. CASE MatchApiRoute(t)
    BY <1>0, <2>1, QuietStep DEF MatchApiRoute
  <2>2. CASE CheckApiAuth(t)
    BY <1>0, <2>2, QuietStep DEF CheckApiAuth
  <2>3. CASE HandleApiRequest(t)
    <3>1. PICK what : /\ Push(ApiQueue, what)
                      /\ what = ApiQueue \/ what = "garbled"
      BY <2>3 DEF HandleApiRequest
    <3>2. ApiQueue \in QueueSet
      BY QueueTypes
    <3>3. UNCHANGED <<amxList, phase, snapshot, queue, batch, turn, heard, audience, excused>>
      BY <2>3 DEF HandleApiRequest
    <3>4. QED
      BY <1>0, <3>1, <3>2, <3>3, PushStep
  <2>4. CASE HandlerReturns(t)
    BY <1>0, <2>4, QuietStep DEF HandlerReturns
  <2>5. QED
    BY <1>7, <2>1, <2>2, <2>3, <2>4 DEF Handler
<1>8. ASSUME NEW q \in QueueSet, WorkerPush(q) PROVE IInv'
  <2>1. /\ Push(q, q)
        /\ UNCHANGED <<amxList, phase, snapshot, queue, batch, turn, heard, audience, excused>>
    BY <1>8 DEF WorkerPush
  <2>2. QED
    BY <1>0, <2>1, PushStep
<1>9. CASE BeginDrain
  BY <1>0, <1>9, BeginStep
<1>10. CASE TakeEvents
  BY <1>0, <1>10, TakeStep
<1>11. CASE CallScript
  BY <1>0, <1>11, CallStep
<1>12. CASE NextEvent
  BY <1>0, <1>12, NextEventStep
<1>13. CASE NextQueue
  BY <1>0, <1>13, NextQueueStep
<1>14. CASE UNCHANGED vars
  BY <1>0, <1>14, QuietStep DEF vars
<1>15. QED
  BY <1>1, <1>2, <1>3, <1>4, <1>5, <1>6, <1>7, <1>8, <1>9, <1>10, <1>11, <1>12, <1>13, <1>14
     DEF Next, DrainAllEvents

\* The invariant holds in every state.
THEOREM Invariant == Spec => []IInv
BY InitInv, InvStep, PTL DEF Spec

\* What is heard in order is heard at one place only.
LEMMA HeardOnce ==
  ASSUME TypeOK, NEW s \in Scripts, InOrder(s), NEW e \in Range(heard[s])
  PROVE  Times(s, e) = 1
<1>1. PICK k \in DOMAIN heard[s] : heard[s][k] = e
  BY DEF Range
<1>2. /\ DOMAIN heard[s] = 1 .. Len(heard[s]) /\ Len(heard[s]) \in Nat
      /\ \A i \in DOMAIN heard[s] : heard[s][i] \in Nat
  <2>1. heard[s] \in Seq(Events)
    BY DEF TypeOK
  <2>2. \A i \in DOMAIN heard[s] : heard[s][i] \in Events
    BY <2>1
  <2>3. Events \subseteq Nat
    BY DEF Events
  <2>4. \A i \in DOMAIN heard[s] : heard[s][i] \in Nat
    BY <2>2, <2>3
  <2>5. DOMAIN heard[s] = 1 .. Len(heard[s]) /\ Len(heard[s]) \in Nat
    BY <2>1
  <2>6. QED
    BY <2>4, <2>5
<1>3. ASSUME NEW i \in DOMAIN heard[s], heard[s][i] = e PROVE i = k
  BY <1>1, <1>2, <1>3 DEF InOrder
<1>4. {i \in DOMAIN heard[s] : heard[s][i] = e} = {k}
  BY <1>1, <1>3
<1>5. QED
  BY <1>4, FS_Singleton DEF Times

\* The routes registered, and those the handlers point to, have old ids.
RouteInv ==
    /\ TypeOK /\ LostByRemoval
    /\ \A id \in apiRoutes : id < nextApiRouteId
    /\ \A t \in Threads : pc[t] \in {"auth", "queue"} =>
          route[t] \in RouteIds /\ route[t] < nextApiRouteId

LEMMA RouteStep == RouteInv /\ [Next]_vars => RouteInv'
<1> SUFFICES ASSUME RouteInv, [Next]_vars PROVE RouteInv'
  OBVIOUS
<1>0. TypeOK /\ TypeOK'
  BY TypeStep DEF RouteInv
<1>1. nextApiRouteId \in Nat /\ RouteIds \subseteq Nat
  BY <1>0, BoundsAssumption DEF TypeOK, RouteIds
<1> USE <1>0, <1>1 DEF RouteInv, LostByRemoval
<1>2. CASE UNCHANGED <<kind, routeVars, threadVars>>
  <2>1. /\ kind' = kind /\ apiRoutes' = apiRoutes /\ nextApiRouteId' = nextApiRouteId
        /\ pc' = pc /\ route' = route
    BY <1>2 DEF routeVars, threadVars
  <2>2. QED
    BY <2>1
<1>3. CASE RegisterApiRoute
  <2>1. /\ apiRoutes' = apiRoutes \cup {nextApiRouteId}
        /\ nextApiRouteId' = nextApiRouteId + 1
        /\ kind' = kind /\ pc' = pc /\ route' = route
    BY <1>3 DEF RegisterApiRoute, threadVars, historyVars
  <2>2. \A id \in RouteIds : id < nextApiRouteId => id < nextApiRouteId' /\ id # nextApiRouteId
    BY <2>1
  <2>3. \A id \in apiRoutes' : id < nextApiRouteId'
    BY <2>1, <2>2 DEF TypeOK
  <2>4. QED
    BY <2>1, <2>2, <2>3
<1>4. ASSUME NEW id \in RouteIds, RemoveApiRoute(id) PROVE RouteInv'
  BY <1>4 DEF RemoveApiRoute, threadVars, historyVars
<1>5. ASSUME NEW t \in Threads, MatchApiRoute(t) PROVE RouteInv'
  <2>1. /\ \E id \in apiRoutes : route' = [route EXCEPT ![t] = id]
        /\ pc' = [pc EXCEPT ![t] = "auth"] /\ UNCHANGED <<kind, apiRoutes, nextApiRouteId>>
    BY <1>5 DEF MatchApiRoute, routeVars, historyVars
  <2>2. QED
    BY <2>1 DEF TypeOK
<1>6. ASSUME NEW t \in Threads, CheckApiAuth(t) PROVE RouteInv'
  <2>1. /\ pc[t] = "auth" /\ UNCHANGED <<kind, apiRoutes, nextApiRouteId>>
        /\ \/ pc' = [pc EXCEPT ![t] = "queue"] /\ route' = [route EXCEPT ![t] = route[t]]
           \/ pc' = [pc EXCEPT ![t] = "idle"] /\ route' = [route EXCEPT ![t] = NoRoute]
    BY <1>6 DEF CheckApiAuth, routeVars, historyVars
  <2>2. QED
    BY <2>1 DEF TypeOK
<1>7. ASSUME NEW t \in Threads, HandleApiRequest(t) PROVE RouteInv'
  <2>1. /\ pc[t] = "queue" /\ UNCHANGED <<apiRoutes, nextApiRouteId>>
        /\ pc' = [pc EXCEPT ![t] = "wait"] /\ route' = [route EXCEPT ![t] = NoRoute]
        /\ \E what \in {ApiQueue, "garbled"} :
              /\ kind' = [kind EXCEPT ![nextEvent] = what]
              /\ what = "garbled" => route[t] \notin apiRoutes
    BY <1>7, QueueTypes, QueuesAssumption DEF HandleApiRequest, Push, routeVars
  <2>2. route[t] \in RouteIds /\ route[t] < nextApiRouteId
    BY <2>1
  <2>3. LostByRemoval'
    BY <2>1, <2>2, QueueTypes, QueuesAssumption DEF TypeOK
  <2>4. QED
    BY <2>1, <2>3 DEF TypeOK
<1>8. ASSUME NEW t \in Threads, HandlerReturns(t) PROVE RouteInv'
  BY <1>8 DEF HandlerReturns, TypeOK, routeVars, historyVars
<1>9. ASSUME NEW q \in QueueSet, WorkerPush(q) PROVE RouteInv'
  BY <1>9, QueuesAssumption DEF WorkerPush, Push, TypeOK, routeVars, threadVars
<1>10. CASE \/ Initialize \/ Shutdown
            \/ \E s \in Scripts : AmxLoad(s) \/ AmxUnload(s)
            \/ DrainAllEvents \/ UNCHANGED vars
  <2>1. UNCHANGED <<kind, routeVars, threadVars>>
    BY <1>10 DEF Initialize, Shutdown, AmxLoad, AmxUnload, DrainAllEvents, BeginDrain, BeginWith,
       TakeEvents, CallScript, NextEvent, NextQueue, NextOf, vars, historyVars
  <2>2. QED
    BY <1>2, <2>1
<1>11. QED
  BY <1>3, <1>4, <1>5, <1>6, <1>7, <1>8, <1>9, <1>10 DEF Next, Handler

\* An event is without a callback only after a route was removed.
LEMMA LossesByRemoval == Spec => []LostByRemoval
<1>1. Init => RouteInv
  BY InitType DEF Init, RouteInv, LostByRemoval
<1>2. RouteInv => LostByRemoval
  BY DEF RouteInv
<1>3. QED
  BY <1>1, <1>2, RouteStep, PTL DEF Spec

\* Every script of its tick that has the public hears an event exactly once,
\* unless a callback unloaded it in between, and the events of one queue in
\* the order of their push; no event is taken without a script to hear it,
\* and none is without a callback unless a route was removed.
\* So whatever the pool threads and the workers push while DrainAllEvents
\* runs, and whatever scripts the callbacks load and unload.
THEOREM EventsHeardOnceInOrder == Spec => []HeardOnceInOrder
<1>1. IInv /\ LostByRemoval => HeardOnceInOrder
  <2> SUFFICES ASSUME IInv, LostByRemoval PROVE HeardOnceInOrder
    OBVIOUS
  <2>1. ASSUME NEW e \in Known, ~Waiting(e)
        PROVE  /\ audience[e] # {}
               /\ \A s \in audience[e] :
                     Times(s, e) = 1 \/ kind[e] \notin Hears[s] \/ <<s, e>> \in excused
    <3>1. audience[e] # {} /\ \A s \in audience[e] : DoneWith(s, e)
      BY <2>1 DEF IInv, Settled
    <3>2. audience[e] \subseteq Scripts
      BY BoundsAssumption DEF IInv, TypeOK, Known, Events
    <3>3. QED
      BY <3>1, <3>2, HeardOnce DEF IInv, DoneWith
  <2>2. NobodyMisses
    BY <2>1 DEF NobodyMisses, Known
  <2>3. QED
    BY <2>2 DEF IInv, HeardOnceInOrder
<1>2. QED
  BY <1>1, Invariant, LossesByRemoval, PTL
=============================================================================
