------------------------- MODULE ApiRequests_proofs -------------------------
(***************************************************************************)
(* Proofs about ApiRequests for any set of pool threads and any bounds:    *)
(* type correctness, and an inductive invariant IInv from which the        *)
(* safety properties of the module follow.                                 *)
(***************************************************************************)
EXTENDS ApiRequests, TLAPS

-----------------------------------------------------------------------------
(* Type correctness.                                                       *)

\* TypeOK is inductive once a waiting handler and a Respond in progress are
\* known to have a request.
HasRequest ==
    /\ \A w \in Workers : pc[w] \notin {"idle", "match", "send", "write"} => serving[w] # NoRequest
    /\ mpc \in Responding => call # NoRequest
TypeInv == TypeOK /\ HasRequest

LEMMA InitType == Init => TypeInv
<1> SUFFICES ASSUME Init PROVE TypeInv
  OBVIOUS
<1> USE ConstantsAssumption DEF Init
<1>1. TypeOK
  <2>1. /\ pc \in [Workers -> HandlerPCs]
        /\ serving \in [Workers -> Requests \cup {NoRequest}]
        /\ httpRes \in [Requests -> Workers \cup {NoWorker}]
    BY DEF HandlerPCs
  <2>2. res \in [Workers -> Response]
    BY DEF FreshResponse, Response, Writers
  <2>3. /\ starts \in 0 .. MaxStarts /\ backlog \in 0 .. MaxBacklog
        /\ nextRequestId \in 0 .. MaxRequests
    OBVIOUS
  <2>4. pendingApiEvents \in Seq(Requests) /\ batch \in Seq(Requests)
    OBVIOUS
  <2>5. mpc \in MainPCs
    BY DEF MainPCs
  <2>6. QED
    BY <2>1, <2>2, <2>3, <2>4, <2>5, Zenon DEF TypeOK
<1>2. HasRequest
  BY DEF HasRequest, Responding
<1>3. QED
  BY <1>1, <1>2 DEF TypeInv

\* Everything a handler or a Respond writes into a Response keeps its type.
LEMMA WriterTypes ==
    /\ Requests \subseteq Writers /\ FreshResponse \in Response
    /\ {Blank, Gateway, NoRoute, NoAuth, Default404} \subseteq Writers
BY DEF Writers, Response, FreshResponse

LEMMA WritePart ==
  ASSUME NEW q \in Response, NEW x \in Writers
  PROVE  /\ [q EXCEPT !.header = x] \in Response
         /\ [q EXCEPT !.status = x] \in Response
         /\ [q EXCEPT !.body = x] \in Response
BY DEF Response

LEMMA WriteResponse ==
  ASSUME NEW f \in [Workers -> Response], NEW w, NEW x \in Writers
  PROVE  /\ [f EXCEPT ![w].header = x] \in [Workers -> Response]
         /\ [f EXCEPT ![w].status = x] \in [Workers -> Response]
         /\ [f EXCEPT ![w].body = x] \in [Workers -> Response]
BY WritePart

LEMMA StepType == TypeInv /\ [Next]_vars => TypeInv'
<1> SUFFICES ASSUME TypeInv, [Next]_vars PROVE TypeInv'
  OBVIOUS
<1> USE ConstantsAssumption DEF TypeInv, TypeOK, HasRequest, vars, serverVars, handlerVars,
    contextVars, eventVars, scriptVars, history, HandlerPCs, MainPCs, Responding, Requests,
    NoRequest
<1>1. ASSUME NEW w \in Workers, TakeJob(w) PROVE TypeInv'
  <2>1. res' \in [Workers -> Response]
    BY <1>1, WriterTypes DEF TakeJob
  <2>2. QED
    BY <1>1, <2>1 DEF TakeJob, Transition
<1>2. ASSUME NEW w \in Workers, NEW error \in {NoRoute, NoAuth}, RejectRequest(w, error) PROVE TypeInv'
  <2>1. res' = [res EXCEPT ![w] = [header |-> res[w].header, status |-> error, body |-> error]]
    BY <1>2 DEF RejectRequest
  <2>2. [header |-> res[w].header, status |-> error, body |-> error] \in Response
    BY WriterTypes DEF Response
  <2>3. res' \in [Workers -> Response]
    BY <2>1, <2>2
  <2>4. QED
    BY <1>2, <2>3 DEF RejectRequest, Transition
<1>3. ASSUME NEW w \in Workers, RegisterContext(w) PROVE TypeInv'
  BY <1>3 DEF RegisterContext, Transition
<1>4. ASSUME NEW w \in Workers, QueueEvent(w) PROVE TypeInv'
  <2>1. serving[w] \in Requests
    BY <1>4 DEF QueueEvent, Transition
  <2>2. pendingApiEvents' \in Seq(Requests)
    BY <1>4, <2>1 DEF QueueEvent
  <2>3. QED
    BY <1>4, <2>2 DEF QueueEvent, Transition
<1>5. ASSUME NEW w \in Workers, PollResponded(w) PROVE TypeInv'
  BY <1>5 DEF PollResponded
<1>6. ASSUME NEW w \in Workers, DeadlinePasses(w) PROVE TypeInv'
  BY <1>6 DEF DeadlinePasses
<1>7. ASSUME NEW w \in Workers, WakeUp(w) PROVE TypeInv'
  BY <1>7 DEF WakeUp
<1>8. ASSUME NEW w \in Workers, WriteTimeoutStatus(w) PROVE TypeInv'
  <2>1. res' \in [Workers -> Response]
    BY <1>8, WriteResponse, WriterTypes DEF WriteTimeoutStatus
  <2>2. QED
    BY <1>8, <2>1 DEF WriteTimeoutStatus, Transition
<1>9. ASSUME NEW w \in Workers, WriteTimeoutBody(w) PROVE TypeInv'
  <2>1. res' \in [Workers -> Response]
    BY <1>9, WriteResponse, WriterTypes DEF WriteTimeoutBody
  <2>2. QED
    BY <1>9, <2>1 DEF WriteTimeoutBody, Transition
<1>10. ASSUME NEW w \in Workers, EraseContext(w) PROVE TypeInv'
  BY <1>10 DEF EraseContext, Transition
<1>e. ASSUME NEW w \in Workers, RunErrorHandler(w) PROVE TypeInv'
  <2>1. res' \in [Workers -> Response]
    BY <1>e, WriteResponse, WriterTypes DEF RunErrorHandler
  <2>2. QED
    BY <1>e, <2>1 DEF RunErrorHandler, Transition
<1>11. ASSUME NEW w \in Workers, SendReply(w) PROVE TypeInv'
  <2>1. res' \in [Workers -> Response]
    BY <1>11, WriterTypes DEF SendReply
  <2>2. answered' \subseteq Requests
    BY <1>11 DEF SendReply
  <2>3. /\ pc' \in [Workers -> HandlerPCs] /\ serving' \in [Workers -> Requests \cup {NoRequest}]
        /\ expired' \subseteq Workers
    BY <1>11 DEF SendReply, Transition
  <2>4. HasRequest'
    BY <1>11 DEF SendReply, Transition
  <2>5. QED
    BY <1>11, <2>1, <2>2, <2>3, <2>4 DEF SendReply
<1>12. ASSUME ListenInternal PROVE TypeInv'
  BY <1>12 DEF ListenInternal
<1>13. ASSUME Accept PROVE TypeInv'
  BY <1>13 DEF Accept
<1>14. ASSUME ListenerExit PROVE TypeInv'
  BY <1>14 DEF ListenerExit
<1>15. ASSUME StartHttpServer PROVE TypeInv'
  BY <1>15 DEF StartHttpServer
<1>16. ASSUME StopHttpServer PROVE TypeInv'
  BY <1>16 DEF StopHttpServer
<1>17. ASSUME JoinListener PROVE TypeInv'
  BY <1>17 DEF JoinListener
<1>18. ASSUME DrainApiEvents PROVE TypeInv'
  BY <1>18 DEF DrainApiEvents
<1>19. ASSUME RunCallback PROVE TypeInv'
  <2>1. Tail(batch) \in Seq(Requests) /\ Head(batch) \in Requests
    BY <1>19 DEF RunCallback
  <2>2. QED
    BY <1>19, <2>1 DEF RunCallback
<1>20. ASSUME NEW r \in Requests, SetResponseHeader(r) PROVE TypeInv'
  BY <1>20 DEF SetResponseHeader
<1>21. ASSUME NEW r \in Requests, NEW is404 \in BOOLEAN, Respond(r, is404) PROVE TypeInv'
  BY <1>21 DEF Respond
<1>22. ASSUME RespondHeader PROVE TypeInv'
  <2>1. res' \in [Workers -> Response]
    BY <1>22, WriteResponse, WriterTypes DEF RespondHeader
  <2>2. QED
    BY <1>22, <2>1 DEF RespondHeader
<1>23. ASSUME RespondStatus PROVE TypeInv'
  <2>1. res' \in [Workers -> Response]
    BY <1>23, WriteResponse, WriterTypes DEF RespondStatus
  <2>2. QED
    BY <1>23, <2>1 DEF RespondStatus
<1>24. ASSUME RespondBody PROVE TypeInv'
  <2>1. res' \in [Workers -> Response]
    BY <1>24, WriteResponse, WriterTypes DEF RespondBody
  <2>2. QED
    BY <1>24, <2>1 DEF RespondBody
<1>25. ASSUME RespondStore PROVE TypeInv'
  BY <1>25 DEF RespondStore
<1>26. CASE UNCHANGED vars
  BY <1>26
<1>27. QED
  BY <1>1, <1>2, <1>3, <1>4, <1>5, <1>6, <1>7, <1>8, <1>9, <1>10, <1>11, <1>12, <1>13, <1>14, <1>15, <1>16, <1>17, <1>18, <1>19, <1>20, <1>21, <1>22, <1>23, <1>24, <1>25, <1>26, <1>e
     DEF Next, Handler, Listener, Main, RespondStep

\* Every variable keeps its type, however many threads, requests and starts
\* there are.
THEOREM TypeCorrect == Spec => []TypeOK
<1>1. Spec => []TypeInv
  BY InitType, StepType, PTL DEF Spec
<1>2. TypeInv => TypeOK
  BY DEF TypeInv
<1>3. QED
  BY <1>1, <1>2, PTL


-----------------------------------------------------------------------------
(* The inductive invariant.                                                *)

\* A pool thread and the request it serves point at each other.
HandlerInv ==
    /\ \A w \in Workers :
          /\ pc[w] \in {"idle", "match"} => serving[w] = NoRequest
          /\ pc[w] \notin {"idle", "match", "send", "write"} => serving[w] \in activeRequests
          /\ serving[w] # NoRequest =>
                /\ serving[w] < nextRequestId /\ httpRes[serving[w]] = w
                /\ serving[w] \notin answered
    /\ \A r \in Requests :
          /\ r \in activeRequests =>
                /\ httpRes[r] \in Workers /\ serving[httpRes[r]] = r
                /\ pc[httpRes[r]] \notin {"idle", "match", "send", "write"}
          /\ r < nextRequestId =>
                r \in answered \/ serving[httpRes[r]] = r
          /\ r \in answered => r < nextRequestId
          /\ r < nextRequestId => httpRes[r] \in Workers

\* Pool threads run only while the listener does.
ServerInv ==
    /\ isRunning <=> listener # "none"
    /\ listener # "listening" => backlog = 0 /\ \A w \in Workers : pc[w] = "idle"
    /\ listener = "exited" => mpc = "join"
    /\ listener \notin {"none", "exited"} /\ ~sockOpen => mpc = "join"
    /\ mpc = "join" => isRunning

\* The queue of events holds requests that have a context, once each.
EventInv ==
    /\ EventOnce
    /\ \A w \in Workers : pc[w] = "enqueue" => serving[w] \notin QueuedRequests \cup called
    /\ \A r \in QueuedRequests \cup called : r < nextRequestId

\* What the timeout branch and the script have done to a request.
ScriptInv ==
    /\ mpc \in Responding <=> call # NoRequest
    /\ call # NoRequest =>
          /\ call < nextRequestId /\ call \notin responded
          /\ \/ call \in timedOut
             \/ /\ serving[httpRes[call]] = call
                /\ pc[httpRes[call]] \in {"enqueue", "poll", "sleep"}
    /\ \A r \in timedOut \cup responded \cup headers : r < nextRequestId
    /\ \A w \in Workers :
          /\ pc[w] \in {"enqueue", "poll", "sleep"} => serving[w] \notin timedOut
          /\ pc[w] \in {"late", "lateBody"} => serving[w] \in timedOut
          /\ pc[w] \in {"erase", "send", "write"} =>
                serving[w] \in timedOut \cup responded \cup {NoRequest}

\* How far the script's Respond has got with the answer of request r.
Answer(r, n) ==
    [header |-> IF n > 0 /\ r \in headers THEN r ELSE Blank,
     status |-> IF n > 1 THEN r ELSE Blank,
     body   |-> IF n > 2 THEN r ELSE Blank]
Written(r) ==
    IF r \in responded THEN 3
    ELSE IF call # r THEN 0
    ELSE CASE mpc = "header" -> 0
           [] mpc = "status" -> 1
           [] mpc = "body"   -> 2
           [] OTHER          -> 3

\* What a handler leaves in its Response for the error handler to look at.
Unwritten(r) ==
    IF r = NoRequest THEN {WithStatus(Blank, NoRoute, FALSE), WithStatus(Blank, NoAuth, FALSE)}
    ELSE IF r \in timedOut THEN {WithStatus(Blank, Gateway, FALSE)}
    ELSE {WithStatus(IF r \in headers THEN r ELSE Blank, r, FALSE)}

\* The Response of a thread that never served a contested request.
CleanThread(w) ==
    /\ pc[w] = "match" => res[w] = FreshResponse
    /\ pc[w] \in {"enqueue", "poll", "sleep"} =>
          res[w] = Answer(serving[w], Written(serving[w]))
    /\ pc[w] = "late" => res[w] = FreshResponse
    /\ pc[w] = "lateBody" => res[w] = [FreshResponse EXCEPT !.status = Gateway]
    /\ pc[w] \in {"erase", "send"} => res[w] \in Unwritten(serving[w])
    /\ pc[w] = "write" => res[w] \in IntendedResponses(serving[w])
CleanInv == \A w \in Workers : SpoiltThread(w) \/ CleanThread(w)

IInv == TypeInv /\ HandlerInv /\ ServerInv /\ EventInv /\ ScriptInv /\ CleanInv

-----------------------------------------------------------------------------
(* The invariant is inductive: one lemma for each of its parts.            *)

LEMMA InitIInv == Init => IInv
<1> SUFFICES ASSUME Init PROVE IInv
  OBVIOUS
<1>1. TypeInv
  BY InitType
<1> USE ConstantsAssumption DEF Init, NoRequest
<1>2. HandlerInv
  BY DEF HandlerInv, Requests
<1>3. ServerInv
  BY DEF ServerInv
<1>4. EventInv
  <2>1. Len(Queued) = 0
    BY DEF Queued
  <2>2. QED
    BY <2>1 DEF EventInv, EventOnce, NoDuplicate, QueuedRequests, WaitingHandlers
<1>5. ScriptInv
  BY DEF ScriptInv, Responding
<1>6. CleanInv
  BY DEF CleanInv, CleanThread
<1>7. QED
  BY <1>1, <1>2, <1>3, <1>4, <1>5, <1>6 DEF IInv

LEMMA StepHandler == TypeInv /\ HandlerInv /\ [Next]_vars => HandlerInv'
<1> SUFFICES ASSUME TypeInv, HandlerInv, [Next]_vars PROVE HandlerInv'
  OBVIOUS
<1> USE ConstantsAssumption DEF TypeInv, TypeOK, HandlerInv, vars, serverVars, handlerVars, contextVars, eventVars, scriptVars, history, HandlerPCs, Requests, NoRequest
<1>1. ASSUME NEW w \in Workers, TakeJob(w) PROVE HandlerInv'
  BY <1>1 DEF TakeJob, Transition
<1>2. ASSUME NEW w \in Workers, NEW error \in {NoRoute, NoAuth}, RejectRequest(w, error) PROVE HandlerInv'
  BY <1>2 DEF RejectRequest, Transition
<1>3. ASSUME NEW w \in Workers, RegisterContext(w) PROVE HandlerInv'
  BY <1>3 DEF RegisterContext, Transition
<1>4. ASSUME NEW w \in Workers, QueueEvent(w) PROVE HandlerInv'
  BY <1>4 DEF QueueEvent, Transition
<1>5. ASSUME NEW w \in Workers, PollResponded(w) PROVE HandlerInv'
  BY <1>5 DEF PollResponded
<1>6. ASSUME NEW w \in Workers, DeadlinePasses(w) PROVE HandlerInv'
  BY <1>6 DEF DeadlinePasses
<1>7. ASSUME NEW w \in Workers, WakeUp(w) PROVE HandlerInv'
  BY <1>7 DEF WakeUp
<1>8. ASSUME NEW w \in Workers, WriteTimeoutStatus(w) PROVE HandlerInv'
  BY <1>8 DEF WriteTimeoutStatus, Transition
<1>9. ASSUME NEW w \in Workers, WriteTimeoutBody(w) PROVE HandlerInv'
  BY <1>9 DEF WriteTimeoutBody, Transition
<1>10. ASSUME NEW w \in Workers, EraseContext(w) PROVE HandlerInv'
  BY <1>10 DEF EraseContext, Transition
<1>e. ASSUME NEW w \in Workers, RunErrorHandler(w) PROVE HandlerInv'
  BY <1>e DEF RunErrorHandler, Transition
<1>11. ASSUME NEW w \in Workers, SendReply(w) PROVE HandlerInv'
  BY <1>11 DEF SendReply, Transition
<1>12. ASSUME ListenInternal PROVE HandlerInv'
  BY <1>12 DEF ListenInternal
<1>13. ASSUME Accept PROVE HandlerInv'
  BY <1>13 DEF Accept
<1>14. ASSUME ListenerExit PROVE HandlerInv'
  BY <1>14 DEF ListenerExit
<1>15. ASSUME StartHttpServer PROVE HandlerInv'
  BY <1>15 DEF StartHttpServer
<1>16. ASSUME StopHttpServer PROVE HandlerInv'
  BY <1>16 DEF StopHttpServer
<1>17. ASSUME JoinListener PROVE HandlerInv'
  BY <1>17 DEF JoinListener
<1>18. ASSUME DrainApiEvents PROVE HandlerInv'
  BY <1>18 DEF DrainApiEvents
<1>19. ASSUME RunCallback PROVE HandlerInv'
  BY <1>19 DEF RunCallback
<1>20. ASSUME NEW r \in Requests, SetResponseHeader(r) PROVE HandlerInv'
  BY <1>20 DEF SetResponseHeader
<1>21. ASSUME NEW r \in Requests, NEW is404 \in BOOLEAN, Respond(r, is404) PROVE HandlerInv'
  BY <1>21 DEF Respond
<1>22. ASSUME RespondHeader PROVE HandlerInv'
  BY <1>22 DEF RespondHeader
<1>23. ASSUME RespondStatus PROVE HandlerInv'
  BY <1>23 DEF RespondStatus
<1>24. ASSUME RespondBody PROVE HandlerInv'
  BY <1>24 DEF RespondBody
<1>25. ASSUME RespondStore PROVE HandlerInv'
  BY <1>25 DEF RespondStore
<1>26. CASE UNCHANGED vars
  BY <1>26
<1> HIDE DEF TypeInv, TypeOK, HandlerInv, vars
<1>27. QED
  BY <1>1, <1>2, <1>3, <1>4, <1>5, <1>6, <1>7, <1>8, <1>9, <1>10, <1>11, <1>12, <1>13, <1>14, <1>15, <1>16, <1>17, <1>18, <1>19, <1>20, <1>21, <1>22, <1>23, <1>24, <1>25, <1>26, <1>e
     DEF Next, Handler, Listener, Main, RespondStep

LEMMA StepServer == TypeInv /\ ServerInv /\ [Next]_vars => ServerInv'
<1> SUFFICES ASSUME TypeInv, ServerInv, [Next]_vars PROVE ServerInv'
  OBVIOUS
<1> USE ConstantsAssumption DEF TypeInv, TypeOK, ServerInv, vars, serverVars, handlerVars, contextVars, eventVars, scriptVars, history, HandlerPCs
<1>1. ASSUME NEW w \in Workers, TakeJob(w) PROVE ServerInv'
  BY <1>1 DEF TakeJob, Transition
<1>2. ASSUME NEW w \in Workers, NEW error \in {NoRoute, NoAuth}, RejectRequest(w, error) PROVE ServerInv'
  BY <1>2 DEF RejectRequest, Transition
<1>3. ASSUME NEW w \in Workers, RegisterContext(w) PROVE ServerInv'
  BY <1>3 DEF RegisterContext, Transition
<1>4. ASSUME NEW w \in Workers, QueueEvent(w) PROVE ServerInv'
  BY <1>4 DEF QueueEvent, Transition
<1>5. ASSUME NEW w \in Workers, PollResponded(w) PROVE ServerInv'
  BY <1>5 DEF PollResponded
<1>6. ASSUME NEW w \in Workers, DeadlinePasses(w) PROVE ServerInv'
  BY <1>6 DEF DeadlinePasses
<1>7. ASSUME NEW w \in Workers, WakeUp(w) PROVE ServerInv'
  BY <1>7 DEF WakeUp
<1>8. ASSUME NEW w \in Workers, WriteTimeoutStatus(w) PROVE ServerInv'
  BY <1>8 DEF WriteTimeoutStatus, Transition
<1>9. ASSUME NEW w \in Workers, WriteTimeoutBody(w) PROVE ServerInv'
  BY <1>9 DEF WriteTimeoutBody, Transition
<1>10. ASSUME NEW w \in Workers, EraseContext(w) PROVE ServerInv'
  BY <1>10 DEF EraseContext, Transition
<1>e. ASSUME NEW w \in Workers, RunErrorHandler(w) PROVE ServerInv'
  BY <1>e DEF RunErrorHandler, Transition
<1>11. ASSUME NEW w \in Workers, SendReply(w) PROVE ServerInv'
  BY <1>11 DEF SendReply, Transition
<1>12. ASSUME ListenInternal PROVE ServerInv'
  BY <1>12 DEF ListenInternal
<1>13. ASSUME Accept PROVE ServerInv'
  BY <1>13 DEF Accept
<1>14. ASSUME ListenerExit PROVE ServerInv'
  BY <1>14 DEF ListenerExit
<1>15. ASSUME StartHttpServer PROVE ServerInv'
  BY <1>15 DEF StartHttpServer
<1>16. ASSUME StopHttpServer PROVE ServerInv'
  BY <1>16 DEF StopHttpServer
<1>17. ASSUME JoinListener PROVE ServerInv'
  BY <1>17 DEF JoinListener
<1>18. ASSUME DrainApiEvents PROVE ServerInv'
  BY <1>18 DEF DrainApiEvents
<1>19. ASSUME RunCallback PROVE ServerInv'
  BY <1>19 DEF RunCallback
<1>20. ASSUME NEW r \in Requests, SetResponseHeader(r) PROVE ServerInv'
  BY <1>20 DEF SetResponseHeader
<1>21. ASSUME NEW r \in Requests, NEW is404 \in BOOLEAN, Respond(r, is404) PROVE ServerInv'
  BY <1>21 DEF Respond
<1>22. ASSUME RespondHeader PROVE ServerInv'
  BY <1>22 DEF RespondHeader
<1>23. ASSUME RespondStatus PROVE ServerInv'
  BY <1>23 DEF RespondStatus
<1>24. ASSUME RespondBody PROVE ServerInv'
  BY <1>24 DEF RespondBody
<1>25. ASSUME RespondStore PROVE ServerInv'
  BY <1>25 DEF RespondStore
<1>26. CASE UNCHANGED vars
  BY <1>26
<1>27. QED
  BY <1>1, <1>2, <1>3, <1>4, <1>5, <1>6, <1>7, <1>8, <1>9, <1>10, <1>11, <1>12, <1>13, <1>14, <1>15, <1>16, <1>17, <1>18, <1>19, <1>20, <1>21, <1>22, <1>23, <1>24, <1>25, <1>26, <1>e
     DEF Next, Handler, Listener, Main, RespondStep

LEMMA StepScript == TypeInv /\ HandlerInv /\ ScriptInv /\ [Next]_vars => ScriptInv'
<1> SUFFICES ASSUME TypeInv, HandlerInv, ScriptInv, [Next]_vars PROVE ScriptInv'
  OBVIOUS
<1> USE ConstantsAssumption DEF TypeInv, TypeOK, HandlerInv, ScriptInv, vars, serverVars, handlerVars, contextVars, eventVars, scriptVars, history,
    HandlerPCs, MainPCs, Responding, Requests, NoRequest
<1>1. ASSUME NEW w \in Workers, TakeJob(w) PROVE ScriptInv'
  BY <1>1 DEF TakeJob, Transition
<1>2. ASSUME NEW w \in Workers, NEW error \in {NoRoute, NoAuth}, RejectRequest(w, error) PROVE ScriptInv'
  BY <1>2 DEF RejectRequest, Transition
<1>3. ASSUME NEW w \in Workers, RegisterContext(w) PROVE ScriptInv'
  BY <1>3 DEF RegisterContext, Transition
<1>4. ASSUME NEW w \in Workers, QueueEvent(w) PROVE ScriptInv'
  BY <1>4 DEF QueueEvent, Transition
<1>5. ASSUME NEW w \in Workers, PollResponded(w) PROVE ScriptInv'
  BY <1>5 DEF PollResponded
<1>6. ASSUME NEW w \in Workers, DeadlinePasses(w) PROVE ScriptInv'
  BY <1>6 DEF DeadlinePasses
<1>7. ASSUME NEW w \in Workers, WakeUp(w) PROVE ScriptInv'
  BY <1>7 DEF WakeUp
<1>8. ASSUME NEW w \in Workers, WriteTimeoutStatus(w) PROVE ScriptInv'
  BY <1>8 DEF WriteTimeoutStatus, Transition
<1>9. ASSUME NEW w \in Workers, WriteTimeoutBody(w) PROVE ScriptInv'
  BY <1>9 DEF WriteTimeoutBody, Transition
<1>10. ASSUME NEW w \in Workers, EraseContext(w) PROVE ScriptInv'
  BY <1>10 DEF EraseContext, Transition
<1>e. ASSUME NEW w \in Workers, RunErrorHandler(w) PROVE ScriptInv'
  BY <1>e DEF RunErrorHandler, Transition
<1>11. ASSUME NEW w \in Workers, SendReply(w) PROVE ScriptInv'
  BY <1>11 DEF SendReply, Transition
<1>12. ASSUME ListenInternal PROVE ScriptInv'
  BY <1>12 DEF ListenInternal
<1>13. ASSUME Accept PROVE ScriptInv'
  BY <1>13 DEF Accept
<1>14. ASSUME ListenerExit PROVE ScriptInv'
  BY <1>14 DEF ListenerExit
<1>15. ASSUME StartHttpServer PROVE ScriptInv'
  BY <1>15 DEF StartHttpServer
<1>16. ASSUME StopHttpServer PROVE ScriptInv'
  BY <1>16 DEF StopHttpServer
<1>17. ASSUME JoinListener PROVE ScriptInv'
  BY <1>17 DEF JoinListener
<1>18. ASSUME DrainApiEvents PROVE ScriptInv'
  BY <1>18 DEF DrainApiEvents
<1>19. ASSUME RunCallback PROVE ScriptInv'
  BY <1>19 DEF RunCallback
<1>20. ASSUME NEW r \in Requests, SetResponseHeader(r) PROVE ScriptInv'
  <2>1. /\ r \in activeRequests /\ headers' = headers \cup {r}
        /\ UNCHANGED <<nextRequestId, pc, serving, httpRes, responded, mpc, call, timedOut>>
    BY <1>20 DEF SetResponseHeader
  <2>2. r < nextRequestId
    BY <2>1
  <2>3. \A q \in timedOut' \cup responded' \cup headers' : q < nextRequestId'
    BY <2>1, <2>2
  <2>4. QED
    BY <2>1, <2>3
<1>21. ASSUME NEW r \in Requests, NEW is404 \in BOOLEAN, Respond(r, is404) PROVE ScriptInv'
  BY <1>21 DEF Respond
<1>22. ASSUME RespondHeader PROVE ScriptInv'
  BY <1>22 DEF RespondHeader
<1>23. ASSUME RespondStatus PROVE ScriptInv'
  BY <1>23 DEF RespondStatus
<1>24. ASSUME RespondBody PROVE ScriptInv'
  BY <1>24 DEF RespondBody
<1>25. ASSUME RespondStore PROVE ScriptInv'
  BY <1>25 DEF RespondStore
<1>26. CASE UNCHANGED vars
  BY <1>26, SMTT(30)
<1> HIDE DEF TypeInv, TypeOK, HandlerInv, ScriptInv, vars
<1>27. QED
  BY <1>1, <1>2, <1>3, <1>4, <1>5, <1>6, <1>7, <1>8, <1>9, <1>10, <1>11, <1>12, <1>13, <1>14, <1>15, <1>16, <1>17, <1>18, <1>19, <1>20, <1>21, <1>22, <1>23, <1>24, <1>25, <1>26, <1>e
     DEF Next, Handler, Listener, Main, RespondStep

\* The queue of events, the batch being drained followed by the pending ones,
\* grows at its end, shrinks at its head and is not disturbed by a drain.
LEMMA QueueTyped == TypeInv => Queued \in Seq(Requests)
  BY DEF TypeInv, TypeOK, Queued

LEMMA QueuedSubset == TypeInv => QueuedRequests \subseteq Requests
  BY QueueTyped DEF QueuedRequests

LEMMA QueueAppend ==
  ASSUME TypeInv, NoDuplicate, NEW w \in Workers, QueueEvent(w),
         serving[w] \notin QueuedRequests
  PROVE  QueuedRequests' = QueuedRequests \cup {serving[w]} /\ NoDuplicate'
<1>1. serving[w] \in Requests
  BY DEF TypeInv, TypeOK, HasRequest, QueueEvent, Transition
<1>2. pendingApiEvents' = Append(pendingApiEvents, serving[w]) /\ batch' = batch
  BY DEF QueueEvent
<1>3. /\ Len(Queued') = Len(Queued) + 1 /\ Len(Queued) \in Nat
      /\ Queued'[Len(Queued) + 1] = serving[w]
      /\ \A i \in 1 .. Len(Queued) : Queued'[i] = Queued[i]
  BY <1>1, <1>2 DEF TypeInv, TypeOK, Queued
<1>4. QueuedRequests' = QueuedRequests \cup {serving[w]}
  <2>1. ASSUME NEW r \in QueuedRequests' PROVE r \in QueuedRequests \cup {serving[w]}
    BY <1>3, <2>1 DEF QueuedRequests
  <2>2. ASSUME NEW r \in QueuedRequests PROVE r \in QueuedRequests'
    <3>1. PICK i \in 1 .. Len(Queued) : Queued[i] = r
      BY <2>2 DEF QueuedRequests
    <3>2. i \in 1 .. Len(Queued') /\ Queued'[i] = r
      BY <1>3, <3>1
    <3>3. QED
      BY <3>2 DEF QueuedRequests
  <2>3. serving[w] \in QueuedRequests'
    <3>1. Len(Queued) + 1 \in 1 .. Len(Queued')
      BY <1>3
    <3>2. QED
      BY <1>3, <3>1 DEF QueuedRequests
  <2>4. QED
    BY <2>1, <2>2, <2>3
<1>5. NoDuplicate'
  BY <1>3 DEF NoDuplicate, QueuedRequests
<1>6. QED
  BY <1>4, <1>5

LEMMA QueueTail ==
  ASSUME TypeInv, NoDuplicate, RunCallback
  PROVE  /\ Head(batch) \in QueuedRequests
         /\ QueuedRequests' = QueuedRequests \ {Head(batch)}
         /\ NoDuplicate'
<1>1. /\ batch \in Seq(Requests) /\ batch # <<>> /\ batch' = Tail(batch)
      /\ pendingApiEvents \in Seq(Requests) /\ pendingApiEvents' = pendingApiEvents
  BY DEF RunCallback, TypeInv, TypeOK
<1>2. /\ Tail(batch) \in Seq(Requests) /\ Len(Tail(batch)) = Len(batch) - 1
      /\ Len(batch) \in Nat \ {0} /\ Head(batch) = batch[1]
      /\ \A i \in 1 .. Len(batch) - 1 : Tail(batch)[i] = batch[i + 1]
  BY <1>1
<1>3. /\ Len(Queued) \in Nat \ {0} /\ Len(Queued') = Len(Queued) - 1
      /\ Head(batch) = Queued[1]
      /\ \A i \in 1 .. Len(Queued) - 1 : Queued'[i] = Queued[i + 1]
  BY <1>1, <1>2 DEF Queued
<1>4. Head(batch) \in QueuedRequests
  BY <1>3 DEF QueuedRequests
<1>5. ASSUME NEW r \in QueuedRequests' PROVE r \in QueuedRequests /\ r # Head(batch)
  <2>1. PICK i \in 1 .. Len(Queued) - 1 : Queued'[i] = r
    BY <1>3, <1>5 DEF QueuedRequests
  <2>2. /\ i + 1 \in 1 .. Len(Queued) /\ 1 \in 1 .. Len(Queued) /\ i + 1 # 1
        /\ Queued[i + 1] = r
    BY <1>3, <2>1
  <2>3. QED
    BY <1>3, <2>2 DEF QueuedRequests, NoDuplicate
<1>6. ASSUME NEW r \in QueuedRequests, r # Head(batch) PROVE r \in QueuedRequests'
  <2>1. PICK i \in 1 .. Len(Queued) : Queued[i] = r
    BY <1>6 DEF QueuedRequests
  <2>2. i - 1 \in 1 .. Len(Queued') /\ Queued'[i - 1] = r
    BY <1>3, <1>6, <2>1
  <2>3. QED
    BY <2>2 DEF QueuedRequests
<1>7. NoDuplicate'
  BY <1>3 DEF NoDuplicate
<1>8. QED
  BY <1>4, <1>5, <1>6, <1>7

\* A drain moves the pending events to the batch without disturbing the queue,
\* and no other step touches them.
LEMMA QueueFrame ==
  ASSUME TypeInv, DrainApiEvents \/ UNCHANGED eventVars
  PROVE  /\ QueuedRequests' = QueuedRequests
         /\ NoDuplicate <=> NoDuplicate'
         /\ called' = called
<1>1. Queued' = Queued /\ called' = called
  <2>1. CASE DrainApiEvents
    <3>1. Queued' = pendingApiEvents \o <<>> /\ Queued = <<>> \o pendingApiEvents
      BY <2>1 DEF DrainApiEvents, Queued
    <3>2. QED
      BY <2>1, <3>1 DEF TypeInv, TypeOK, DrainApiEvents
  <2>2. CASE UNCHANGED eventVars
    BY <2>2 DEF eventVars, Queued
  <2>3. QED
    BY <2>1, <2>2
<1>2. QED
  BY <1>1 DEF QueuedRequests, NoDuplicate

\* What a step that leaves the queue alone must respect: no thread starts to
\* wait without having queued, and a thread about to queue has a new request.
LEMMA EventFrame ==
  ASSUME TypeInv, EventInv, DrainApiEvents \/ UNCHANGED eventVars,
         nextRequestId' \in Nat, nextRequestId <= nextRequestId',
         \A v \in Workers : pc'[v] \notin {"idle", "match", "send", "write", "enqueue"} =>
            /\ pc[v] \notin {"idle", "match", "send", "write", "enqueue"}
            /\ serving'[v] = serving[v],
         \A v \in Workers : pc'[v] = "enqueue" =>
            \/ pc[v] = "enqueue" /\ serving'[v] = serving[v]
            \/ serving'[v] \in Requests /\ serving'[v] >= nextRequestId
  PROVE  EventInv'
<1> USE DEF TypeInv, TypeOK, EventInv, EventOnce, WaitingHandlers, HandlerPCs, Requests
<1>1. QueuedRequests' = QueuedRequests /\ NoDuplicate' /\ called' = called
  BY QueueFrame
<1>2. QueuedRequests \subseteq Requests
  BY QueuedSubset
<1>3. \A v \in Workers : pc'[v] = "enqueue" => serving'[v] \notin QueuedRequests \cup called
  BY <1>2
<1>4. \A r \in QueuedRequests \cup called : r < nextRequestId'
  BY <1>2
<1>5. \A v \in Workers :
         pc'[v] \in HandlerPCs \ {"idle", "match", "send", "write", "enqueue"} =>
            serving'[v] \in called \cup QueuedRequests
  OBVIOUS
<1>6. QED
  BY <1>1, <1>3, <1>4, <1>5

\* A step that touches neither the events nor the handlers' positions.
LEMMA EventStutter ==
  ASSUME EventInv, UNCHANGED <<eventVars, pc, serving, nextRequestId>>
  PROVE  EventInv'
<1>1. /\ QueuedRequests' = QueuedRequests /\ WaitingHandlers' = WaitingHandlers
      /\ NoDuplicate' = NoDuplicate /\ called' = called
  BY DEF WaitingHandlers, NoDuplicate, QueuedRequests, Queued, eventVars
<1>2. QED
  BY <1>1 DEF EventInv, EventOnce

LEMMA StepEvent == TypeInv /\ HandlerInv /\ EventInv /\ [Next]_vars => EventInv'
<1> SUFFICES ASSUME TypeInv, HandlerInv, EventInv, [Next]_vars PROVE EventInv'
  OBVIOUS
<1>1. ASSUME ListenInternal PROVE EventInv'
  BY <1>1, EventStutter DEF ListenInternal, handlerVars, contextVars
<1>2. ASSUME Accept PROVE EventInv'
  BY <1>2, EventStutter DEF Accept, handlerVars, contextVars
<1>3. ASSUME ListenerExit PROVE EventInv'
  BY <1>3, EventStutter DEF ListenerExit, handlerVars, contextVars
<1>4. ASSUME StartHttpServer PROVE EventInv'
  BY <1>4, EventStutter DEF StartHttpServer, handlerVars, contextVars
<1>5. ASSUME StopHttpServer PROVE EventInv'
  BY <1>5, EventStutter DEF StopHttpServer, handlerVars, contextVars
<1>6. ASSUME JoinListener PROVE EventInv'
  BY <1>6, EventStutter DEF JoinListener, handlerVars, contextVars
<1>7. ASSUME NEW r \in Requests, SetResponseHeader(r) PROVE EventInv'
  BY <1>7, EventStutter DEF SetResponseHeader, handlerVars, contextVars
<1>8. ASSUME NEW r \in Requests, NEW is404 \in BOOLEAN, Respond(r, is404) PROVE EventInv'
  BY <1>8, EventStutter DEF Respond, handlerVars, contextVars
<1>9. ASSUME RespondHeader PROVE EventInv'
  BY <1>9, EventStutter DEF RespondHeader, handlerVars, contextVars
<1>10. ASSUME RespondStatus PROVE EventInv'
  BY <1>10, EventStutter DEF RespondStatus, handlerVars, contextVars
<1>11. ASSUME RespondBody PROVE EventInv'
  BY <1>11, EventStutter DEF RespondBody, handlerVars, contextVars
<1>12. ASSUME RespondStore PROVE EventInv'
  BY <1>12, EventStutter DEF RespondStore, handlerVars, contextVars
<1>13. CASE UNCHANGED vars
  BY <1>13, EventStutter DEF vars, handlerVars, contextVars, eventVars
<1> USE ConstantsAssumption, StepType DEF TypeInv, TypeOK, HandlerPCs, Requests, NoRequest
<1>14. ASSUME NEW w \in Workers, TakeJob(w) PROVE EventInv'
  <2>1. UNCHANGED eventVars
    BY <1>14 DEF TakeJob
  <2>2. QED
    BY <1>14, <2>1, EventFrame DEF TakeJob, Transition, handlerVars, contextVars
<1>15. ASSUME NEW w \in Workers, NEW error \in {NoRoute, NoAuth}, RejectRequest(w, error) PROVE EventInv'
  <2>1. UNCHANGED eventVars
    BY <1>15 DEF RejectRequest
  <2>2. QED
    BY <1>15, <2>1, EventFrame, SMTT(30) DEF RejectRequest, Transition, handlerVars, contextVars
<1>16. ASSUME NEW w \in Workers, RegisterContext(w) PROVE EventInv'
  <2>1. UNCHANGED eventVars
    BY <1>16 DEF RegisterContext
  <2>2. QED
    BY <1>16, <2>1, EventFrame, SMTT(30) DEF RegisterContext, Transition, handlerVars, contextVars
<1>17. ASSUME NEW w \in Workers, QueueEvent(w) PROVE EventInv'
  <2>1. /\ serving[w] \notin QueuedRequests \cup called /\ NoDuplicate
        /\ serving[w] < nextRequestId
    BY <1>17 DEF QueueEvent, Transition, HandlerInv, EventInv, EventOnce
  <2>2. QueuedRequests' = QueuedRequests \cup {serving[w]} /\ NoDuplicate'
    BY <1>17, <2>1, QueueAppend
  <2>3. /\ called' = called /\ serving' = serving /\ nextRequestId' = nextRequestId
        /\ pc' = [pc EXCEPT ![w] = "poll"]
    BY <1>17 DEF QueueEvent, Transition, handlerVars, contextVars
  <2>4. \A v \in Workers : v # w /\ serving[v] # NoRequest => serving[v] # serving[w]
    BY <1>17 DEF HandlerInv, QueueEvent, Transition
  <2>5. EventOnce'
    BY <2>1, <2>2, <2>3, SMTT(30) DEF EventInv, EventOnce, WaitingHandlers
  <2>6. QED
    BY <2>1, <2>2, <2>3, <2>4, <2>5, SMTT(30) DEF EventInv, HasRequest
<1>18. ASSUME NEW w \in Workers, PollResponded(w) PROVE EventInv'
  <2>1. UNCHANGED eventVars
    BY <1>18 DEF PollResponded
  <2>2. QED
    BY <1>18, <2>1, EventFrame DEF PollResponded, handlerVars, contextVars
<1>19. ASSUME NEW w \in Workers, DeadlinePasses(w) PROVE EventInv'
  <2>1. UNCHANGED eventVars
    BY <1>19 DEF DeadlinePasses
  <2>2. QED
    BY <1>19, <2>1, EventFrame DEF DeadlinePasses, handlerVars, contextVars
<1>20. ASSUME NEW w \in Workers, WakeUp(w) PROVE EventInv'
  <2>1. UNCHANGED eventVars
    BY <1>20 DEF WakeUp
  <2>2. /\ pc[w] = "sleep" /\ serving' = serving /\ nextRequestId' = nextRequestId
        /\ \A v \in Workers : pc'[v] = IF v # w THEN pc[v]
                                      ELSE IF w \in expired THEN "late" ELSE "poll"
    BY <1>20 DEF WakeUp, handlerVars, contextVars
  <2>3. \A v \in Workers : pc'[v] # "enqueue" \/ pc[v] = "enqueue"
    BY <2>2
  <2>4. \A v \in Workers : pc'[v] \notin {"idle", "match", "send", "write", "enqueue"} =>
           pc[v] \notin {"idle", "match", "send", "write", "enqueue"}
    BY <2>2
  <2>5. nextRequestId \in Nat /\ nextRequestId <= nextRequestId' /\ nextRequestId' \in Nat
    BY <2>2
  <2>6. QED
    BY <2>1, <2>2, <2>3, <2>4, <2>5, EventFrame
<1>21. ASSUME NEW w \in Workers, WriteTimeoutStatus(w) PROVE EventInv'
  <2>1. UNCHANGED eventVars
    BY <1>21 DEF WriteTimeoutStatus
  <2>2. /\ pc[w] = "late" /\ pc' = [pc EXCEPT ![w] = "lateBody"]
        /\ serving' = serving
        /\ nextRequestId' = nextRequestId
    BY <1>21 DEF WriteTimeoutStatus, Transition, handlerVars, contextVars
  <2>3. QED
    BY <2>1, <2>2, EventFrame, SMTT(40)
<1>22. ASSUME NEW w \in Workers, WriteTimeoutBody(w) PROVE EventInv'
  <2>1. UNCHANGED eventVars
    BY <1>22 DEF WriteTimeoutBody
  <2>2. /\ pc[w] = "lateBody" /\ pc' = [pc EXCEPT ![w] = "erase"]
        /\ serving' = serving
        /\ nextRequestId' = nextRequestId
    BY <1>22 DEF WriteTimeoutBody, Transition, handlerVars, contextVars
  <2>3. QED
    BY <2>1, <2>2, EventFrame, SMTT(40)
<1>23. ASSUME NEW w \in Workers, EraseContext(w) PROVE EventInv'
  <2>1. UNCHANGED eventVars
    BY <1>23 DEF EraseContext
  <2>2. QED
    BY <1>23, <2>1, EventFrame DEF EraseContext, Transition, handlerVars, contextVars
<1>e. ASSUME NEW w \in Workers, RunErrorHandler(w) PROVE EventInv'
  <2>1. UNCHANGED eventVars
    BY <1>e DEF RunErrorHandler
  <2>2. /\ pc[w] = "send" /\ pc' = [pc EXCEPT ![w] = "write"] /\ serving' = serving
        /\ nextRequestId' = nextRequestId
    BY <1>e DEF RunErrorHandler, Transition, contextVars
  <2>3. QED
    BY <2>1, <2>2, EventFrame, SMTT(40)
<1>24. ASSUME NEW w \in Workers, SendReply(w) PROVE EventInv'
  <2>1. UNCHANGED eventVars
    BY <1>24 DEF SendReply
  <2>2. /\ pc[w] = "write" /\ pc' = [pc EXCEPT ![w] = "idle"]
        /\ serving' = [serving EXCEPT ![w] = NoRequest]
        /\ nextRequestId' = nextRequestId
    BY <1>24 DEF SendReply, Transition, handlerVars, contextVars
  <2>3. QED
    BY <2>1, <2>2, EventFrame, SMTT(40)
<1>25. ASSUME DrainApiEvents PROVE EventInv'
  BY <1>25, EventFrame DEF DrainApiEvents, handlerVars, contextVars
<1>26. ASSUME RunCallback PROVE EventInv'
  <2>1. NoDuplicate
    BY DEF EventInv, EventOnce
  <2>2. QED
    BY <1>26, <2>1, QueueTail DEF EventInv, EventOnce, WaitingHandlers, RunCallback, handlerVars, contextVars
<1>27. QED
  BY <1>1, <1>2, <1>3, <1>4, <1>5, <1>6, <1>7, <1>8, <1>9, <1>10, <1>11, <1>12, <1>13, <1>14, <1>15, <1>16, <1>17, <1>18, <1>19, <1>20, <1>21, <1>22, <1>23, <1>24, <1>25, <1>26, <1>e
     DEF Next, Handler, Listener, Main, RespondStep

\* Once contested, a request stays contested and so does its thread.
LEMMA SpoiltStays ==
  ASSUME TypeInv, HandlerInv, ScriptInv, [Next]_vars, NEW v \in Workers, SpoiltThread(v)
  PROVE  SpoiltThread(v)'
<1>1. PICK q \in Requests : httpRes[q] = v /\ Contested(q)
  BY DEF SpoiltThread
<1>2. q < nextRequestId /\ q \in timedOut /\ (q \in responded \/ call = q) /\ q # NoRequest
  BY <1>1 DEF Contested, ScriptInv, Requests, NoRequest
<1> DEFINE Kept == /\ q \in timedOut' /\ (q \in responded' \/ call' = q)
                   /\ httpRes'[q] = v
<1> SUFFICES Kept
  BY DEF SpoiltThread, Contested
<1> USE <1>1, <1>2 DEF TypeInv, TypeOK, ScriptInv, handlerVars, contextVars, scriptVars,
    history, vars, Responding, NoRequest, Requests
<1>3. ASSUME NEW w \in Workers, TakeJob(w) PROVE Kept
  BY <1>3 DEF TakeJob, Transition
<1>4. ASSUME NEW w \in Workers, NEW error \in {NoRoute, NoAuth}, RejectRequest(w, error) PROVE Kept
  BY <1>4 DEF RejectRequest, Transition
<1>5. ASSUME NEW w \in Workers, RegisterContext(w) PROVE Kept
  BY <1>5 DEF RegisterContext, Transition
<1>6. ASSUME NEW w \in Workers, QueueEvent(w) PROVE Kept
  BY <1>6 DEF QueueEvent, Transition
<1>7. ASSUME NEW w \in Workers, PollResponded(w) PROVE Kept
  BY <1>7 DEF PollResponded
<1>8. ASSUME NEW w \in Workers, DeadlinePasses(w) PROVE Kept
  BY <1>8 DEF DeadlinePasses
<1>9. ASSUME NEW w \in Workers, WakeUp(w) PROVE Kept
  BY <1>9 DEF WakeUp
<1>10. ASSUME NEW w \in Workers, WriteTimeoutStatus(w) PROVE Kept
  BY <1>10 DEF WriteTimeoutStatus, Transition
<1>11. ASSUME NEW w \in Workers, WriteTimeoutBody(w) PROVE Kept
  BY <1>11 DEF WriteTimeoutBody, Transition
<1>12. ASSUME NEW w \in Workers, EraseContext(w) PROVE Kept
  BY <1>12 DEF EraseContext, Transition
<1>e. ASSUME NEW w \in Workers, RunErrorHandler(w) PROVE Kept
  BY <1>e DEF RunErrorHandler, Transition
<1>13. ASSUME NEW w \in Workers, SendReply(w) PROVE Kept
  BY <1>13 DEF SendReply, Transition
<1>14. ASSUME ListenInternal PROVE Kept
  BY <1>14 DEF ListenInternal
<1>15. ASSUME Accept PROVE Kept
  BY <1>15 DEF Accept
<1>16. ASSUME ListenerExit PROVE Kept
  BY <1>16 DEF ListenerExit
<1>17. ASSUME StartHttpServer PROVE Kept
  BY <1>17 DEF StartHttpServer
<1>18. ASSUME StopHttpServer PROVE Kept
  BY <1>18 DEF StopHttpServer
<1>19. ASSUME JoinListener PROVE Kept
  BY <1>19 DEF JoinListener
<1>20. ASSUME DrainApiEvents PROVE Kept
  BY <1>20 DEF DrainApiEvents
<1>21. ASSUME RunCallback PROVE Kept
  BY <1>21 DEF RunCallback
<1>22. ASSUME NEW r \in Requests, SetResponseHeader(r) PROVE Kept
  BY <1>22 DEF SetResponseHeader
<1>23. ASSUME NEW r \in Requests, NEW is404 \in BOOLEAN, Respond(r, is404) PROVE Kept
  BY <1>23 DEF Respond
<1>24. ASSUME RespondHeader PROVE Kept
  BY <1>24 DEF RespondHeader
<1>25. ASSUME RespondStatus PROVE Kept
  BY <1>25 DEF RespondStatus
<1>26. ASSUME RespondBody PROVE Kept
  BY <1>26 DEF RespondBody
<1>27. ASSUME RespondStore PROVE Kept
  BY <1>27 DEF RespondStore
<1>28. CASE UNCHANGED vars
  BY <1>28
<1>29. QED
  BY <1>3, <1>4, <1>5, <1>6, <1>7, <1>8, <1>9, <1>10, <1>11, <1>12, <1>13, <1>14, <1>15, <1>16, <1>17, <1>18, <1>19, <1>20, <1>21, <1>22, <1>23, <1>24, <1>25, <1>26, <1>27, <1>28, <1>e
     DEF Next, Handler, Listener, Main, RespondStep

LEMMA PatchRecord ==
  ASSUME NEW q, NEW h, NEW s, NEW b, NEW x, q = [header |-> h, status |-> s, body |-> b]
  PROVE  /\ [q EXCEPT !.header = x] = [header |-> x, status |-> s, body |-> b]
         /\ [q EXCEPT !.status = x] = [header |-> h, status |-> x, body |-> b]
         /\ [q EXCEPT !.body = x]   = [header |-> h, status |-> s, body |-> x]
OBVIOUS

\* An uncontested Respond writes to the thread that still waits for it, and
\* to no other.
LEMMA RespondMeets ==
  ASSUME TypeInv, HandlerInv, ScriptInv, NEW v \in Workers, mpc \in Responding,
         \A q \in Requests : httpRes[q] = v => ~Contested(q)
  PROVE  /\ call \in Requests /\ call \notin responded /\ httpRes[call] \in Workers
         /\ httpRes[call] = v => serving[v] = call /\ pc[v] \in {"enqueue", "poll", "sleep"}
         /\ httpRes[call] # v => serving[v] # call
<1>1. call \in Requests /\ call # NoRequest /\ call < nextRequestId /\ call \notin responded
  BY DEF TypeInv, TypeOK, HasRequest, ScriptInv
<1>2. httpRes[call] = v => call \notin timedOut
  BY <1>1 DEF Contested
<1>3. QED
  BY <1>1, <1>2 DEF HandlerInv, ScriptInv

\* A step of Respond that adds its part to the answer of the thread waiting
\* for it, and leaves the other threads' Responses alone.
LEMMA AnswerGrows ==
  ASSUME NEW v \in Workers, CleanThread(v), call \notin responded,
         UNCHANGED <<pc, serving, headers, responded, notFound, timedOut, call>>,
         \/ res'[v] = res[v] /\ serving[v] # call
         \/ /\ serving[v] = call /\ pc[v] \in {"enqueue", "poll", "sleep"}
            /\ res'[v] = Answer(call, Written(call))'
  PROVE  CleanThread(v)'
<1>1. CASE res'[v] = res[v] /\ serving[v] # call
  BY <1>1 DEF CleanThread, Answer, Written, Unwritten, IntendedResponses
<1>2. CASE /\ serving[v] = call /\ pc[v] \in {"enqueue", "poll", "sleep"}
           /\ res'[v] = Answer(call, Written(call))'
  BY <1>2 DEF CleanThread
<1>3. QED
  BY <1>1, <1>2

\* The error handler makes of what a handler left what the client should get.
LEMMA ErrorHandlerFinishes ==
  ASSUME TypeInv, NEW r \in Requests \cup {NoRequest}, NEW q \in Unwritten(r)
  PROVE  (IF q.status \in notFound \cup {NoRoute} THEN [q EXCEPT !.body = Default404] ELSE q)
            \in IntendedResponses(r)
<1>1. \A n \in notFound : n \in Nat
  BY DEF TypeInv, TypeOK, Requests
<1>2. /\ Gateway \notin notFound \cup {NoRoute} /\ NoAuth \notin notFound \cup {NoRoute}
      /\ r \in Requests => r # NoRoute /\ r # NoRequest
  BY <1>1 DEF Gateway, NoAuth, NoRoute, Requests, NoRequest
<1>3. CASE r = NoRequest
  <2>1. CASE q = WithStatus(Blank, NoRoute, FALSE)
    BY <1>3, <2>1 DEF WithStatus, IntendedResponses
  <2>2. CASE q = WithStatus(Blank, NoAuth, FALSE)
    BY <1>2, <1>3, <2>2 DEF WithStatus, IntendedResponses
  <2>3. QED
    BY <1>3, <2>1, <2>2 DEF Unwritten
<1>4. CASE r # NoRequest /\ r \in timedOut
  BY <1>2, <1>4 DEF Unwritten, WithStatus, IntendedResponses
<1>5. CASE r # NoRequest /\ r \notin timedOut
  <2>1. q = WithStatus(IF r \in headers THEN r ELSE Blank, r, FALSE)
    BY <1>5 DEF Unwritten
  <2>2. q.status = r /\ (q.status \in notFound \cup {NoRoute} <=> r \in notFound)
    BY <1>2, <1>5, <2>1 DEF WithStatus
  <2>3. QED
    BY <1>5, <2>1, <2>2 DEF WithStatus, IntendedResponses
<1>6. QED
  BY <1>3, <1>4, <1>5

LEMMA StepClean ==
  TypeInv /\ HandlerInv /\ ScriptInv /\ CleanInv /\ [Next]_vars => CleanInv'
<1> SUFFICES ASSUME TypeInv, HandlerInv, ScriptInv, CleanInv, [Next]_vars,
                    NEW v \in Workers, ~SpoiltThread(v)'
             PROVE  CleanThread(v)'
  BY DEF CleanInv
<1> DEFINE r0 == serving[v]
<1>a. CleanThread(v) /\ ~SpoiltThread(v)
  BY SpoiltStays DEF CleanInv
<1>b. \A q \in Requests : httpRes[q] = v => ~Contested(q)
  BY <1>a DEF SpoiltThread
<1>c. \A q \in Requests : httpRes'[q] = v => ~Contested(q)'
  BY DEF SpoiltThread
<1>d. res \in [Workers -> Response]
  BY DEF TypeInv, TypeOK
<1>22. ASSUME RespondHeader PROVE CleanThread(v)'
  <2>1. /\ mpc = "header" /\ mpc' = "status"
        /\ UNCHANGED <<pc, serving, headers, responded, notFound, timedOut, call>>
        /\ res' = IF call \in headers THEN [res EXCEPT ![httpRes[call]].header = call] ELSE res
    BY <1>22 DEF RespondHeader, handlerVars, history
  <2>2. /\ call \in Requests /\ call \notin responded /\ httpRes[call] \in Workers
        /\ httpRes[call] = v => serving[v] = call /\ pc[v] \in {"enqueue", "poll", "sleep"}
        /\ httpRes[call] # v => serving[v] # call
    BY <1>b, <2>1, RespondMeets DEF Responding
  <2>3. CASE httpRes[call] # v
    <3>1. res'[v] = res[v]
      BY <2>1, <2>2, <2>3, <1>d
    <3>2. QED
      BY <1>a, <2>1, <2>2, <2>3, <3>1, AnswerGrows
  <2>4. CASE httpRes[call] = v
    <3>1. res[v] = [header |-> Blank, status |-> Blank, body |-> Blank]
      BY <1>a, <2>1, <2>2, <2>4 DEF CleanThread, Answer, Written
    <3>2. res'[v] = IF call \in headers THEN [res[v] EXCEPT !.header = call] ELSE res[v]
      BY <2>1, <2>4, <1>d
    <3>3. res'[v] = [header |-> IF call \in headers THEN call ELSE Blank, status |-> Blank, body |-> Blank]
      BY <3>1, <3>2, PatchRecord
    <3>4. res'[v] = Answer(call, Written(call))'
      BY <2>1, <2>2, <3>3 DEF Answer, Written
    <3>5. QED
      BY <1>a, <2>1, <2>2, <2>4, <3>4, AnswerGrows
  <2>5. QED
    BY <2>3, <2>4
<1>23. ASSUME RespondStatus PROVE CleanThread(v)'
  <2>1. /\ mpc = "status" /\ mpc' = "body"
        /\ UNCHANGED <<pc, serving, headers, responded, notFound, timedOut, call>>
        /\ res' = [res EXCEPT ![httpRes[call]].status = call]
    BY <1>23 DEF RespondStatus, handlerVars, history
  <2>2. /\ call \in Requests /\ call \notin responded /\ httpRes[call] \in Workers
        /\ httpRes[call] = v => serving[v] = call /\ pc[v] \in {"enqueue", "poll", "sleep"}
        /\ httpRes[call] # v => serving[v] # call
    BY <1>b, <2>1, RespondMeets DEF Responding
  <2>3. CASE httpRes[call] # v
    <3>1. res'[v] = res[v]
      BY <2>1, <2>2, <2>3, <1>d
    <3>2. QED
      BY <1>a, <2>1, <2>2, <2>3, <3>1, AnswerGrows
  <2>4. CASE httpRes[call] = v
    <3>1. res[v] = [header |-> IF call \in headers THEN call ELSE Blank, status |-> Blank, body |-> Blank]
      BY <1>a, <2>1, <2>2, <2>4 DEF CleanThread, Answer, Written
    <3>2. res'[v] = [res[v] EXCEPT !.status = call]
      BY <2>1, <2>4, <1>d
    <3>3. res'[v] = [header |-> IF call \in headers THEN call ELSE Blank, status |-> call, body |-> Blank]
      BY <3>1, <3>2, PatchRecord
    <3>4. res'[v] = Answer(call, Written(call))'
      BY <2>1, <2>2, <3>3 DEF Answer, Written
    <3>5. QED
      BY <1>a, <2>1, <2>2, <2>4, <3>4, AnswerGrows
  <2>5. QED
    BY <2>3, <2>4
<1>24. ASSUME RespondBody PROVE CleanThread(v)'
  <2>1. /\ mpc = "body" /\ mpc' = "store"
        /\ UNCHANGED <<pc, serving, headers, responded, notFound, timedOut, call>>
        /\ res' = [res EXCEPT ![httpRes[call]].body = call]
    BY <1>24 DEF RespondBody, handlerVars, history
  <2>2. /\ call \in Requests /\ call \notin responded /\ httpRes[call] \in Workers
        /\ httpRes[call] = v => serving[v] = call /\ pc[v] \in {"enqueue", "poll", "sleep"}
        /\ httpRes[call] # v => serving[v] # call
    BY <1>b, <2>1, RespondMeets DEF Responding
  <2>3. CASE httpRes[call] # v
    <3>1. res'[v] = res[v]
      BY <2>1, <2>2, <2>3, <1>d
    <3>2. QED
      BY <1>a, <2>1, <2>2, <2>3, <3>1, AnswerGrows
  <2>4. CASE httpRes[call] = v
    <3>1. res[v] = [header |-> IF call \in headers THEN call ELSE Blank, status |-> call, body |-> Blank]
      BY <1>a, <2>1, <2>2, <2>4 DEF CleanThread, Answer, Written
    <3>2. res'[v] = [res[v] EXCEPT !.body = call]
      BY <2>1, <2>4, <1>d
    <3>3. res'[v] = [header |-> IF call \in headers THEN call ELSE Blank, status |-> call, body |-> call]
      BY <3>1, <3>2, PatchRecord
    <3>4. res'[v] = Answer(call, Written(call))'
      BY <2>1, <2>2, <3>3 DEF Answer, Written
    <3>5. QED
      BY <1>a, <2>1, <2>2, <2>4, <3>4, AnswerGrows
  <2>5. QED
    BY <2>3, <2>4
<1>25. ASSUME RespondStore PROVE CleanThread(v)'
  <2>1. /\ mpc = "store" /\ mpc' = "script" /\ call' = NoRequest
        /\ responded' = responded \cup {call}
        /\ UNCHANGED <<pc, serving, headers, notFound, timedOut, res>>
    BY <1>25 DEF RespondStore, handlerVars, history
  <2>2. call \in Requests /\ call \notin responded
    BY <1>b, <2>1, RespondMeets DEF Responding
  <2>3. ASSUME pc[v] \in {"enqueue", "poll", "sleep"}
        PROVE  Written(serving[v])' = Written(serving[v])
    <3>1. serving[v] # NoRequest
      BY <2>3 DEF TypeInv, HasRequest
    <3>2. QED
      BY <2>1, <2>2, <3>1 DEF Written
  <2>4. CASE pc[v] \in {"enqueue", "poll", "sleep"}
    <3>1. (res[v] = Answer(serving[v], Written(serving[v])))'
      BY <1>a, <2>1, <2>3, <2>4 DEF CleanThread, Answer
    <3>2. QED
      BY <2>1, <2>4, <3>1 DEF CleanThread
  <2>5. CASE pc[v] \notin {"enqueue", "poll", "sleep"}
    <3>1. /\ pc[v] \in {"erase", "send"} => res[v] \in Unwritten(serving[v])
          /\ pc[v] = "write" => res[v] \in IntendedResponses(serving[v])
      BY <1>a DEF CleanThread
    <3>2. /\ Unwritten(serving[v])' = Unwritten(serving[v])
          /\ IntendedResponses(serving[v])' = IntendedResponses(serving[v])
      BY <2>1 DEF Unwritten, IntendedResponses
    <3>3. QED
      BY <1>a, <2>1, <2>5, <3>1, <3>2 DEF CleanThread
  <2>6. QED
    BY <2>4, <2>5
<1>e. ASSUME NEW w \in Workers, RunErrorHandler(w) PROVE CleanThread(v)'
  <2>1. /\ pc[w] = "send" /\ serving' = serving
        /\ pc' \in [Workers -> HandlerPCs] /\ pc'[w] = "write"
        /\ \A u \in Workers : u # w => pc'[u] = pc[u] /\ res'[u] = res[u]
        /\ res'[w] = IF res[w].status \in notFound \cup {NoRoute}
                     THEN [res[w] EXCEPT !.body = Default404] ELSE res[w]
        /\ UNCHANGED <<responded, headers, notFound, timedOut, call, mpc>>
    BY <1>e, <1>d, StepType DEF RunErrorHandler, Transition, scriptVars, history, TypeInv, TypeOK
  <2>2. \A r : /\ Unwritten(r)' = Unwritten(r)
               /\ IntendedResponses(r)' = IntendedResponses(r)
               /\ Answer(r, Written(r))' = Answer(r, Written(r))
    BY <2>1 DEF Unwritten, IntendedResponses, Answer, Written
  <2>3. CASE v = w
    <3>1. res[w] \in Unwritten(serving[w]) /\ serving[w] \in Requests \cup {NoRequest}
      BY <1>a, <2>1, <2>3 DEF CleanThread, TypeInv, TypeOK
    <3>2. res'[w] \in IntendedResponses(serving[w])
      BY <2>1, <3>1, ErrorHandlerFinishes
    <3>3. QED
      BY <2>1, <2>2, <2>3, <3>2 DEF CleanThread
  <2>4. CASE v # w
    BY <1>a, <2>1, <2>2, <2>4 DEF CleanThread
  <2>5. QED
    BY <2>3, <2>4
<1>26. CASE UNCHANGED vars
  BY <1>a, <1>26 DEF CleanThread, Answer, Written, Unwritten, IntendedResponses, vars, handlerVars,
     contextVars, scriptVars, history
<1> USE <1>a, <1>b, <1>c, ConstantsAssumption DEF TypeInv, TypeOK, HandlerInv, ScriptInv, CleanThread,
    Contested, Answer, Written, Unwritten, IntendedResponses, WithStatus, FreshResponse, Response,
    Writers, Blank, Gateway, NoRoute, NoAuth, Default404, NoRequest, Requests, HandlerPCs, MainPCs, Responding,
    handlerVars, contextVars, scriptVars, history, vars
<1>1. ASSUME NEW w \in Workers, TakeJob(w) PROVE CleanThread(v)'
  BY <1>1 DEF TakeJob, Transition
<1>2. ASSUME NEW w \in Workers, NEW error \in {NoRoute, NoAuth}, RejectRequest(w, error) PROVE CleanThread(v)'
  <2>1. /\ pc[w] = "match" /\ pc' = [pc EXCEPT ![w] = "send"] /\ serving' = serving
        /\ res' = [res EXCEPT ![w] = [header |-> @.header, status |-> error, body |-> error]]
        /\ UNCHANGED <<responded, headers, notFound, timedOut, call, mpc>>
    BY <1>2 DEF RejectRequest, Transition
  <2>2. CASE v = w
    <3>1. res[w] = FreshResponse /\ serving[w] = NoRequest
      BY <2>1, <2>2
    <3>2. res'[v] = [header |-> res[w].header, status |-> error, body |-> error]
      BY <2>1, <2>2
    <3>3. res'[v] = [header |-> Blank, status |-> error, body |-> error]
      BY <3>1, <3>2
    <3>4. QED
      BY <2>1, <2>2, <3>1, <3>3
  <2>3. CASE v # w
    BY <2>1, <2>3
  <2>4. QED
    BY <2>2, <2>3
<1>3. ASSUME NEW w \in Workers, RegisterContext(w) PROVE CleanThread(v)'
  BY <1>3 DEF RegisterContext, Transition
<1>4. ASSUME NEW w \in Workers, QueueEvent(w) PROVE CleanThread(v)'
  BY <1>4 DEF QueueEvent, Transition
<1>5. ASSUME NEW w \in Workers, PollResponded(w) PROVE CleanThread(v)'
  BY <1>5 DEF PollResponded
<1>6. ASSUME NEW w \in Workers, DeadlinePasses(w) PROVE CleanThread(v)'
  BY <1>6 DEF DeadlinePasses
<1>7. ASSUME NEW w \in Workers, WakeUp(w) PROVE CleanThread(v)'
  BY <1>7 DEF WakeUp
<1>8. ASSUME NEW w \in Workers, WriteTimeoutStatus(w) PROVE CleanThread(v)'
  <2>1. /\ pc[w] = "late" /\ pc' = [pc EXCEPT ![w] = "lateBody"] /\ serving' = serving
        /\ res' = [res EXCEPT ![w] = [@ EXCEPT !.status = Gateway]]
        /\ UNCHANGED <<responded, headers, notFound, timedOut, call, mpc>>
    BY <1>8 DEF WriteTimeoutStatus, Transition
  <2>2. CASE v = w
    <3>1. res[w] = FreshResponse
      BY <2>1, <2>2
    <3>2. res'[v] = [res[w] EXCEPT !.status = Gateway]
      BY <2>1, <2>2
    <3>3. res'[v] = [header |-> Blank, status |-> Gateway, body |-> Blank]
      BY <3>1, <3>2
    <3>4. QED
      BY <2>1, <2>2, <3>1, <3>3
  <2>3. CASE v # w
    BY <2>1, <2>3
  <2>4. QED
    BY <2>2, <2>3
<1>9. ASSUME NEW w \in Workers, WriteTimeoutBody(w) PROVE CleanThread(v)'
  <2>1. /\ pc[w] = "lateBody" /\ pc' = [pc EXCEPT ![w] = "erase"] /\ serving' = serving
        /\ res' = [res EXCEPT ![w] = [@ EXCEPT !.body = Gateway]]
        /\ UNCHANGED <<responded, headers, notFound, timedOut, call, mpc>>
    BY <1>9 DEF WriteTimeoutBody, Transition
  <2>2. CASE v = w
    <3>1. res[w] = [header |-> Blank, status |-> Gateway, body |-> Blank] /\ serving[w] \in timedOut /\ serving[w] # NoRequest
      BY <2>1, <2>2
    <3>2. res'[v] = [res[w] EXCEPT !.body = Gateway]
      BY <2>1, <2>2
    <3>3. res'[v] = [header |-> Blank, status |-> Gateway, body |-> Gateway]
      BY <3>1, <3>2
    <3>4. QED
      BY <2>1, <2>2, <3>1, <3>3
  <2>3. CASE v # w
    BY <2>1, <2>3
  <2>4. QED
    BY <2>2, <2>3
<1>10. ASSUME NEW w \in Workers, EraseContext(w) PROVE CleanThread(v)'
  BY <1>10 DEF EraseContext, Transition
<1>11. ASSUME NEW w \in Workers, SendReply(w) PROVE CleanThread(v)'
  BY <1>11 DEF SendReply, Transition
<1>12. ASSUME ListenInternal PROVE CleanThread(v)'
  BY <1>12 DEF ListenInternal
<1>13. ASSUME Accept PROVE CleanThread(v)'
  BY <1>13 DEF Accept
<1>14. ASSUME ListenerExit PROVE CleanThread(v)'
  BY <1>14 DEF ListenerExit
<1>15. ASSUME StartHttpServer PROVE CleanThread(v)'
  BY <1>15 DEF StartHttpServer
<1>16. ASSUME StopHttpServer PROVE CleanThread(v)'
  BY <1>16 DEF StopHttpServer
<1>17. ASSUME JoinListener PROVE CleanThread(v)'
  BY <1>17 DEF JoinListener
<1>18. ASSUME DrainApiEvents PROVE CleanThread(v)'
  BY <1>18 DEF DrainApiEvents
<1>19. ASSUME RunCallback PROVE CleanThread(v)'
  BY <1>19 DEF RunCallback
<1>20. ASSUME NEW r \in Requests, SetResponseHeader(r) PROVE CleanThread(v)'
  BY <1>20 DEF SetResponseHeader
<1>21. ASSUME NEW r \in Requests, NEW is404 \in BOOLEAN, Respond(r, is404) PROVE CleanThread(v)'
  BY <1>21 DEF Respond
<1> HIDE DEF TypeInv, TypeOK, HandlerInv, ScriptInv, CleanThread, Contested, Unwritten, IntendedResponses, vars,
    NoRoute, NoAuth, Requests
<1>27. QED
  BY <1>1, <1>2, <1>3, <1>4, <1>5, <1>6, <1>7, <1>8, <1>9, <1>10, <1>11, <1>12, <1>13, <1>14, <1>15, <1>16, <1>17, <1>18, <1>19, <1>20, <1>21, <1>22, <1>23, <1>24, <1>25, <1>26, <1>e
     DEF Next, Handler, Listener, Main, RespondStep

-----------------------------------------------------------------------------
(* The safety properties.                                                  *)

LEMMA Inductive == Spec => []IInv
<1>1. IInv /\ [Next]_vars => IInv'
  BY StepType, StepHandler, StepServer, StepScript, StepEvent, StepClean DEF IInv
<1>2. QED
  BY InitIInv, <1>1, PTL DEF Spec

\* activeRequests always holds exactly the contexts whose handler is between
\* the insertion and the erase of HandleApiRequest.
THEOREM ActiveMatches == Spec => []ActiveMatchesHandlers
<1>1. ASSUME IInv PROVE ActiveMatchesHandlers
  <2> USE <1>1 DEF IInv, TypeInv, TypeOK, HandlerInv, WaitingHandlers, HandlerPCs
  <2>1. ASSUME NEW r \in activeRequests PROVE \E w \in WaitingHandlers : serving[w] = r
    <3>1. r \in Requests /\ httpRes[r] \in Workers
      OBVIOUS
    <3>2. httpRes[r] \in WaitingHandlers /\ serving[httpRes[r]] = r
      BY <3>1
    <3>3. QED
      BY <3>2
  <2>2. ASSUME NEW w \in WaitingHandlers PROVE serving[w] \in activeRequests
    OBVIOUS
  <2>3. QED
    BY <2>1, <2>2 DEF ActiveMatchesHandlers
<1>2. QED
  BY Inductive, <1>1, PTL

\* A request that got an id is handled by one pool thread or has had its one
\* reply, however many threads race for ids.
THEOREM AnswersAreUnique == Spec => []AnsweredOnce
<1>1. ASSUME IInv PROVE AnsweredOnce
  <2> USE <1>1 DEF IInv, TypeInv, TypeOK, HandlerInv, Requests, NoRequest
  <2>1. \A v, w \in Workers : serving[v] = serving[w] => v = w \/ serving[v] = NoRequest
    OBVIOUS
  <2>2. \A r \in Requests :
           (r < nextRequestId) <=> r \in answered \/ \E w \in Workers : serving[w] = r
    <3>1. ASSUME NEW r \in Requests, r < nextRequestId
          PROVE  r \in answered \/ \E w \in Workers : serving[w] = r
      BY <3>1
    <3>2. ASSUME NEW r \in Requests, NEW w \in Workers, serving[w] = r
          PROVE  r < nextRequestId
      BY <3>2
    <3>3. QED
      BY <3>1, <3>2
  <2>3. \A w \in Workers : serving[w] \notin answered
    <3>1. -1 \notin answered
      OBVIOUS
    <3>2. QED
      BY <3>1
  <2>4. QED
    BY <2>1, <2>2, <2>3 DEF AnsweredOnce
<1>2. QED
  BY Inductive, <1>1, PTL

\* No event of a request is lost, duplicated or delivered twice on its way
\* from the pool threads to the script.
THEOREM EventsAreUnique == Spec => []EventOnce
<1>1. IInv => EventOnce
  BY DEF IInv, EventInv
<1>2. QED
  BY Inductive, <1>1, PTL

\* When REST_Stop has returned nothing of the server is left running.
THEOREM StopLeavesNothing == Spec => []StopQuiesces
<1>1. ASSUME IInv PROVE StopQuiesces
  <2>1. ASSUME ~isRunning PROVE backlog = 0 /\ \A w \in Workers : pc[w] = "idle"
    BY <1>1, <2>1 DEF IInv, ServerInv
  <2>2. ASSUME ~isRunning PROVE activeRequests = {}
    BY <1>1, <2>1, <2>2 DEF IInv, HandlerInv, TypeInv, TypeOK
  <2>3. QED
    BY <2>1, <2>2 DEF StopQuiesces
<1>2. QED
  BY Inductive, <1>1, PTL

\* On a thread that never served a contested request every client is sent one
\* writer's whole answer to its own request, although the script writes the
\* Response without a lock.
THEOREM RepliesAreClean == Spec => []CleanReplies
<1>1. IInv => CleanReplies
  BY DEF IInv, CleanInv, CleanThread, CleanReplies
<1>2. QED
  BY Inductive, <1>1, PTL

=============================================================================
