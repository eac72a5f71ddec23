---------------------------- MODULE ApiRequests ----------------------------
(***************************************************************************)
(* Inbound API requests of the embedded HTTP server.                       *)
(*                                                                         *)
(* A pool thread runs HandleApiRequest: it registers a RequestContext,     *)
(* queues an event for the script and polls the context's `responded` flag *)
(* until the script has answered or 30 seconds have passed.  The script    *)
(* runs on the main thread: a timer drains the events into callbacks, and  *)
(* a callback (or any later script code) calls Respond, which writes       *)
(* through the raw pointer the context holds to the pool thread's httplib  *)
(* Response.  REST_Stop, called on the same main thread, joins the         *)
(* listener thread, which joins the pool.                                  *)
(*                                                                         *)
(* The Response lives on the stack of the pool thread that serves the      *)
(* request, in a frame the same thread reuses for its next request.  A     *)
(* write through the pointer of a request whose handler has returned is    *)
(* undefined behaviour; the outcome modelled is the one such a build       *)
(* produces: the write lands in the Response of whatever request that      *)
(* thread is serving by then.                                              *)
(***************************************************************************)
EXTENDS Integers, Sequences

CONSTANTS
    Workers,        \* threads of the httplib pool
    NoWorker,       \* stands for a null httpRes pointer
    MaxRequests,    \* bound: requests that get a context
    MaxBacklog,     \* bound: connections accepted and not yet picked up
    MaxStarts       \* bound: successful calls of REST_Start

ASSUME ConstantsAssumption ==
    /\ NoWorker \notin Workers
    /\ MaxRequests \in Nat
    /\ MaxBacklog \in Nat
    /\ MaxStarts \in Nat

VARIABLES
    isRunning,          \* the component believes the server is up
    listener,           \* the thread that runs listen_after_bind
    sockOpen,           \* svr_sock_ # INVALID_SOCKET
    starts,             \* number of successful starts (bounds the model)
    backlog,            \* jobs queued in the pool
    pc,                 \* program counter of each pool thread
    serving,            \* the request each pool thread handles
    expired,            \* pool threads whose 30 seconds have passed
    res,                \* the Response in each pool thread's frame
    nextRequestId,
    httpRes,            \* RequestContext::httpRes of each request
    headers,            \* requests whose context holds a response header
    responded,          \* requests whose context has responded = true
    notFound,           \* requests the script answers with status 404
    activeRequests,
    pendingApiEvents,
    batch,              \* DrainApiEvents' local vector, callbacks to run
    mpc,                \* program counter of the main thread
    call,               \* the request a Respond in progress answers
    called,             \* history: requests whose callback has run
    timedOut,           \* history: requests answered by the 504 branch
    answered            \* history: requests whose client got its reply

serverVars  == <<isRunning, listener, sockOpen, starts, backlog>>
handlerVars == <<pc, serving, expired>>
contextVars == <<nextRequestId, httpRes, activeRequests>>
eventVars   == <<pendingApiEvents, batch, called>>
scriptVars  == <<headers, responded, notFound, mpc, call>>
history     == <<timedOut, answered>>
vars == <<serverVars, handlerVars, res, contextVars, eventVars, scriptVars, history>>

Requests == 0 .. MaxRequests - 1
NoRequest == -1

(***************************************************************************)
(* Each part of a Response names who wrote it: a request, whose answer by  *)
(* the script it is, or one of these.                                      *)
(***************************************************************************)
Blank   == -1       \* httplib's fresh Response
Gateway == -2       \* the 504 written by the waiting handler
NoRoute == -3       \* the 404 written before a context exists
NoAuth  == -4       \* the 401 written before a context exists
Default404 == -5    \* the body the server's error handler writes
Writers == Requests \cup {Blank, Gateway, NoRoute, NoAuth, Default404}
Response == [header : Writers, status : Writers, body : Writers]
FreshResponse == [header |-> Blank, status |-> Blank, body |-> Blank]

HandlerPCs == {"idle", "match", "enqueue", "poll", "sleep",
               "late", "lateBody", "erase", "send", "write"}
Responding == {"header", "status", "body", "store"}
MainPCs    == {"script", "join"} \cup Responding

Transition(w, from, to) ==
    /\ pc[w] = from
    /\ pc' = [pc EXCEPT ![w] = to]

Init ==
    /\ isRunning = FALSE /\ listener = "none" /\ sockOpen = FALSE
    /\ starts = 0 /\ backlog = 0
    /\ pc = [w \in Workers |-> "idle"]
    /\ serving = [w \in Workers |-> NoRequest]
    /\ expired = {}
    /\ res = [w \in Workers |-> FreshResponse]
    /\ nextRequestId = 0
    /\ httpRes = [r \in Requests |-> NoWorker]
    /\ headers = {} /\ responded = {} /\ notFound = {} /\ activeRequests = {}
    /\ pendingApiEvents = <<>> /\ batch = <<>>
    /\ mpc = "script" /\ call = NoRequest
    /\ called = {} /\ timedOut = {} /\ answered = {}

-----------------------------------------------------------------------------
(* The server's life: REST_Start and REST_Stop on the main thread, and the *)
(* listener thread.                                                        *)

\* StartHttpServer; a failed bind changes nothing and is not a step.
StartHttpServer ==
    /\ mpc = "script" /\ ~isRunning
    /\ starts < MaxStarts
    /\ isRunning' = TRUE /\ listener' = "spawned" /\ sockOpen' = TRUE
    /\ starts' = starts + 1
    /\ UNCHANGED <<backlog, handlerVars, res, contextVars, eventVars, scriptVars, history>>

\* listen_internal sets is_running_ on the listener thread, some time after
\* StartHttpServer has returned.
ListenInternal ==
    /\ listener = "spawned"
    /\ listener' = "listening"
    /\ UNCHANGED <<isRunning, sockOpen, starts, backlog, handlerVars, res,
                   contextVars, eventVars, scriptVars, history>>

Accept ==
    /\ listener = "listening" /\ sockOpen
    /\ backlog < MaxBacklog
    /\ backlog' = backlog + 1
    /\ UNCHANGED <<isRunning, listener, sockOpen, starts, handlerVars, res,
                   contextVars, eventVars, scriptVars, history>>

\* Server::stop does nothing unless is_running_ is already set; either way
\* StopHttpServer goes on to join the listener thread.
StopHttpServer ==
    /\ mpc = "script" /\ isRunning
    /\ sockOpen' = IF listener = "listening" THEN FALSE ELSE sockOpen
    /\ mpc' = "join"
    /\ UNCHANGED <<isRunning, listener, starts, backlog, handlerVars, res, contextVars,
                   eventVars, headers, responded, notFound, call, history>>

\* The accept loop has seen the closed socket and ThreadPool::shutdown has
\* run the queued jobs and joined every pool thread.
ListenerExit ==
    /\ listener = "listening" /\ ~sockOpen
    /\ backlog = 0 /\ \A w \in Workers : pc[w] = "idle"
    /\ listener' = "exited"
    /\ UNCHANGED <<isRunning, sockOpen, starts, backlog, handlerVars, res,
                   contextVars, eventVars, scriptVars, history>>

\* Mutant: the listener thread is detached instead of joined.
JoinListenerDetached ==
    /\ mpc = "join" /\ mpc' = "script"
    /\ isRunning' = FALSE
    /\ UNCHANGED <<listener, sockOpen, starts, backlog, handlerVars, res, contextVars,
                   eventVars, headers, responded, notFound, call, history>>

JoinListener ==
    /\ mpc = "join" /\ listener = "exited"
    /\ isRunning' = FALSE /\ listener' = "none"
    /\ mpc' = "script"
    /\ UNCHANGED <<sockOpen, starts, backlog, handlerVars, res, contextVars,
                   eventVars, headers, responded, notFound, call, history>>

-----------------------------------------------------------------------------
(* HandleApiRequest on pool thread w.                                      *)

\* Mutant: the pool thread does not look at the queue again after a wake-up.
TakeJobSpurious(w) ==
    /\ Transition(w, "idle", "match")
    /\ backlog' = backlog - 1
    /\ res' = [res EXCEPT ![w] = FreshResponse]
    /\ UNCHANGED <<isRunning, listener, sockOpen, starts, serving, expired,
                   contextVars, eventVars, scriptVars, history>>

\* process_request: a job is taken and a fresh Response built in the frame.
TakeJob(w) ==
    /\ backlog > 0
    /\ Transition(w, "idle", "match")
    /\ backlog' = backlog - 1
    /\ res' = [res EXCEPT ![w] = FreshResponse]
    /\ UNCHANGED <<isRunning, listener, sockOpen, starts, serving, expired,
                   contextVars, eventVars, scriptVars, history>>

\* No route matches (404) or CheckApiAuth refuses (401): no context is made.
RejectRequest(w, error) ==
    /\ Transition(w, "match", "send")
    /\ res' = [res EXCEPT ![w] = [header |-> @.header, status |-> error, body |-> error]]
    /\ UNCHANGED <<serverVars, serving, expired, contextVars, eventVars, scriptVars, history>>

\* Mutant: the counter is read and not advanced.
RegisterContextSameId(w) ==
    /\ nextRequestId < MaxRequests
    /\ Transition(w, "match", "enqueue")
    /\ serving' = [serving EXCEPT ![w] = nextRequestId]
    /\ httpRes' = [httpRes EXCEPT ![nextRequestId] = w]
    /\ activeRequests' = activeRequests \cup {nextRequestId}
    /\ UNCHANGED <<nextRequestId, serverVars, expired, res, eventVars, scriptVars, history>>

\* CreateRequestContext, then the insertion under requestsMutex.
RegisterContext(w) ==
    /\ nextRequestId < MaxRequests
    /\ Transition(w, "match", "enqueue")
    /\ serving' = [serving EXCEPT ![w] = nextRequestId]
    /\ httpRes' = [httpRes EXCEPT ![nextRequestId] = w]
    /\ activeRequests' = activeRequests \cup {nextRequestId}
    /\ nextRequestId' = nextRequestId + 1
    /\ UNCHANGED <<serverVars, expired, res, eventVars, scriptVars, history>>

QueueEvent(w) ==
    /\ Transition(w, "enqueue", "poll")
    /\ pendingApiEvents' = Append(pendingApiEvents, serving[w])
    /\ UNCHANGED <<serverVars, serving, expired, res, contextVars, batch, called,
                   scriptVars, history>>

PollResponded(w) ==
    /\ pc[w] = "poll"
    /\ pc' = [pc EXCEPT ![w] = IF serving[w] \in responded THEN "erase" ELSE "sleep"]
    /\ UNCHANGED <<serverVars, serving, expired, res, contextVars, eventVars, scriptVars, history>>

\* The deadline of the wait passes; no clock is modelled.
DeadlinePasses(w) ==
    /\ pc[w] \in {"poll", "sleep"} /\ w \notin expired
    /\ expired' = expired \cup {w}
    /\ UNCHANGED <<serverVars, pc, serving, res, contextVars, eventVars, scriptVars, history>>

\* Mutant: the loop has no deadline.
WakeUpForever(w) ==
    /\ Transition(w, "sleep", "poll")
    /\ UNCHANGED <<serverVars, serving, expired, res, contextVars, eventVars, scriptVars, history>>

\* After the 10 ms sleep the elapsed time is tested, and the flag only if
\* the deadline has not passed.
WakeUp(w) ==
    /\ pc[w] = "sleep"
    /\ pc' = [pc EXCEPT ![w] = IF w \in expired THEN "late" ELSE "poll"]
    /\ timedOut' = IF w \in expired THEN timedOut \cup {serving[w]} ELSE timedOut
    /\ UNCHANGED <<serverVars, serving, expired, res, contextVars, eventVars, scriptVars, answered>>

WriteTimeoutStatus(w) ==
    /\ Transition(w, "late", "lateBody")
    /\ res' = [res EXCEPT ![w].status = Gateway]
    /\ UNCHANGED <<serverVars, serving, expired, contextVars, eventVars, scriptVars, history>>

\* Mutant: `return` instead of `break`, the context stays in the map.
WriteTimeoutBodyReturns(w) ==
    /\ Transition(w, "lateBody", "send")
    /\ res' = [res EXCEPT ![w].body = Gateway]
    /\ UNCHANGED <<serverVars, serving, expired, contextVars, eventVars, scriptVars, history>>

WriteTimeoutBody(w) ==
    /\ Transition(w, "lateBody", "erase")
    /\ res' = [res EXCEPT ![w].body = Gateway]
    /\ UNCHANGED <<serverVars, serving, expired, contextVars, eventVars, scriptVars, history>>

EraseContext(w) ==
    /\ Transition(w, "erase", "send")
    /\ activeRequests' = activeRequests \ {serving[w]}
    /\ UNCHANGED <<serverVars, serving, expired, res, nextRequestId, httpRes,
                   eventVars, scriptVars, history>>

\* The handler has returned.  write_response_core first runs the server's
\* error handler, which replaces the body of every 404, the script's included.
RunErrorHandler(w) ==
    /\ Transition(w, "send", "write")
    /\ res' = IF res[w].status \in notFound \cup {NoRoute}
              THEN [res EXCEPT ![w].body = Default404] ELSE res
    /\ UNCHANGED <<serverVars, serving, expired, contextVars, eventVars, scriptVars, history>>

\* Then it writes the Response to the client and destroys it.
SendReply(w) ==
    /\ Transition(w, "write", "idle")
    /\ answered' = answered \cup ({serving[w]} \ {NoRequest})
    /\ res' = [res EXCEPT ![w] = FreshResponse]
    /\ serving' = [serving EXCEPT ![w] = NoRequest]
    /\ expired' = expired \ {w}
    /\ UNCHANGED <<serverVars, contextVars, eventVars, scriptVars, timedOut>>

-----------------------------------------------------------------------------
(* The main thread: DrainApiEvents and the script's natives.               *)

\* Mutant: the vector is copied instead of swapped.
DrainApiEventsCopied ==
    /\ mpc = "script" /\ batch = <<>> /\ pendingApiEvents # <<>>
    /\ batch' = pendingApiEvents
    /\ UNCHANGED <<serverVars, handlerVars, res, contextVars, pendingApiEvents, called,
                   scriptVars, history>>

\* The swap under apiEventMutex.
DrainApiEvents ==
    /\ mpc = "script" /\ batch = <<>> /\ pendingApiEvents # <<>>
    /\ batch' = pendingApiEvents
    /\ pendingApiEvents' = <<>>
    /\ UNCHANGED <<serverVars, handlerVars, res, contextVars, called, scriptVars, history>>

\* Mutant: the loop over the events ends after the first.
RunCallbackOnce ==
    /\ mpc = "script" /\ batch # <<>>
    /\ called' = called \cup {Head(batch)}
    /\ batch' = <<>>
    /\ UNCHANGED <<serverVars, handlerVars, res, contextVars, pendingApiEvents,
                   scriptVars, history>>

\* CallPawnEvent for the next event; what the callback does are the steps
\* the script takes before the next one.
RunCallback ==
    /\ mpc = "script" /\ batch # <<>>
    /\ called' = called \cup {Head(batch)}
    /\ batch' = Tail(batch)
    /\ UNCHANGED <<serverVars, handlerVars, res, contextVars, pendingApiEvents,
                   scriptVars, history>>

SetResponseHeader(r) ==
    /\ mpc = "script" /\ r \in activeRequests \ responded
    /\ headers' = headers \cup {r}
    /\ UNCHANGED <<serverVars, handlerVars, res, contextVars, eventVars,
                   responded, notFound, mpc, call, history>>

\* Respond: the look-up under requestsMutex and the test of `responded`
\* (which only this thread sets).  The lock is not held afterwards.  A call
\* that returns false changes nothing and is not a step.
Respond(r, is404) ==
    /\ mpc = "script" /\ r \in activeRequests \ responded
    /\ mpc' = "header" /\ call' = r
    /\ notFound' = IF is404 THEN notFound \cup {r} ELSE notFound
    /\ UNCHANGED <<serverVars, handlerVars, res, contextVars, eventVars,
                   headers, responded, history>>

RespondHeader ==
    /\ mpc = "header" /\ mpc' = "status"
    /\ res' = IF call \in headers THEN [res EXCEPT ![httpRes[call]].header = call] ELSE res
    /\ UNCHANGED <<serverVars, handlerVars, contextVars, eventVars,
                   headers, responded, notFound, call, history>>

\* Mutant: the flag is set before the body is written.
RespondStatusStores ==
    /\ mpc = "status" /\ mpc' = "body"
    /\ res' = [res EXCEPT ![httpRes[call]].status = call]
    /\ responded' = responded \cup {call}
    /\ UNCHANGED <<serverVars, handlerVars, contextVars, eventVars, headers, notFound, call,
                   history>>

RespondStatus ==
    /\ mpc = "status" /\ mpc' = "body"
    /\ res' = [res EXCEPT ![httpRes[call]].status = call]
    /\ UNCHANGED <<serverVars, handlerVars, contextVars, eventVars,
                   headers, responded, notFound, call, history>>

RespondBody ==
    /\ mpc = "body" /\ mpc' = "store"
    /\ res' = [res EXCEPT ![httpRes[call]].body = call]
    /\ UNCHANGED <<serverVars, handlerVars, contextVars, eventVars,
                   headers, responded, notFound, call, history>>

\* responded.store(true), and Respond returns true.
RespondStore ==
    /\ mpc = "store" /\ mpc' = "script"
    /\ responded' = responded \cup {call}
    /\ call' = NoRequest
    /\ UNCHANGED <<serverVars, handlerVars, res, contextVars, eventVars, headers, notFound,
                   history>>

-----------------------------------------------------------------------------
Handler(w) ==
    \/ TakeJob(w)
    \/ \E error \in {NoRoute, NoAuth} : RejectRequest(w, error)
    \/ RegisterContext(w)
    \/ QueueEvent(w)
    \/ PollResponded(w)
    \/ DeadlinePasses(w)
    \/ WakeUp(w)
    \/ WriteTimeoutStatus(w)
    \/ WriteTimeoutBody(w)
    \/ EraseContext(w)
    \/ RunErrorHandler(w)
    \/ SendReply(w)

Listener == ListenInternal \/ Accept \/ ListenerExit

RespondStep == RespondHeader \/ RespondStatus \/ RespondBody \/ RespondStore

Main ==
    \/ StartHttpServer
    \/ StopHttpServer
    \/ JoinListener
    \/ DrainApiEvents
    \/ RunCallback
    \/ \E r \in Requests :
          SetResponseHeader(r) \/ \E is404 \in BOOLEAN : Respond(r, is404)
    \/ RespondStep

Next == (\E w \in Workers : Handler(w)) \/ Listener \/ Main

Spec == Init /\ [][Next]_vars

(***************************************************************************)
(* Threads are scheduled, time passes, the timer keeps draining and a      *)
(* native that has begun goes on.  Clients need not connect and the script *)
(* need not start, stop or respond.                                        *)
(***************************************************************************)
Fairness ==
    /\ \A w \in Workers :
          /\ WF_vars(TakeJob(w)) /\ WF_vars(pc[w] = "match" /\ Handler(w))
          /\ WF_vars(QueueEvent(w)) /\ WF_vars(PollResponded(w))
          /\ WF_vars(DeadlinePasses(w)) /\ WF_vars(WakeUp(w))
          /\ WF_vars(WriteTimeoutStatus(w)) /\ WF_vars(WriteTimeoutBody(w))
          /\ WF_vars(EraseContext(w)) /\ WF_vars(RunErrorHandler(w)) /\ WF_vars(SendReply(w))
    /\ WF_vars(ListenInternal) /\ WF_vars(ListenerExit)
    /\ WF_vars(JoinListener) /\ WF_vars(DrainApiEvents) /\ WF_vars(RunCallback)
    /\ WF_vars(RespondStep)

FairSpec == Spec /\ Fairness

-----------------------------------------------------------------------------
(* Properties.                                                             *)

\* The values each variable of HandleApiRequest, Respond and the server's
\* start and stop may take.
TypeOK ==
    /\ isRunning \in BOOLEAN /\ sockOpen \in BOOLEAN
    /\ listener \in {"none", "spawned", "listening", "exited"}
    /\ starts \in 0 .. MaxStarts /\ backlog \in 0 .. MaxBacklog
    /\ pc \in [Workers -> HandlerPCs]
    /\ serving \in [Workers -> Requests \cup {NoRequest}]
    /\ expired \subseteq Workers
    /\ res \in [Workers -> Response]
    /\ nextRequestId \in 0 .. MaxRequests
    /\ httpRes \in [Requests -> Workers \cup {NoWorker}]
    /\ headers \subseteq Requests /\ responded \subseteq Requests
    /\ notFound \subseteq Requests
    /\ activeRequests \subseteq Requests
    /\ pendingApiEvents \in Seq(Requests) /\ batch \in Seq(Requests)
    /\ mpc \in MainPCs /\ call \in Requests \cup {NoRequest}
    /\ called \subseteq Requests /\ timedOut \subseteq Requests
    /\ answered \subseteq Requests

\* activeRequests holds a context exactly while a pool thread is between the
\* insertion and the erase of HandleApiRequest: no path, the timeout one
\* included, leaks an entry or erases one early.
WaitingHandlers == {w \in Workers : pc[w] \in HandlerPCs \ {"idle", "match", "send", "write"}}
ActiveMatchesHandlers ==
    activeRequests = {serving[w] : w \in WaitingHandlers}

\* Every request that got an id is being handled by one pool thread or has
\* had one reply, never both and never two: ids are unique over threads.
AnsweredOnce ==
    /\ \A v, w \in Workers : serving[v] = serving[w] => v = w \/ serving[v] = NoRequest
    /\ \A r \in Requests :
          (r < nextRequestId) <=> \/ r \in answered
                                 \/ \E w \in Workers : serving[w] = r
    /\ \A w \in Workers : serving[w] \notin answered

\* The event of a request reaches the script exactly once: while its
\* handler waits it is queued, in the batch being drained, or delivered,
\* and it is never in two of these or twice in one.
Queued == batch \o pendingApiEvents
QueuedRequests == {Queued[i] : i \in 1 .. Len(Queued)}
NoDuplicate == \A i, j \in 1 .. Len(Queued) : Queued[i] = Queued[j] => i = j
EventOnce ==
    /\ NoDuplicate
    /\ called \cap QueuedRequests = {}
    /\ \A w \in WaitingHandlers :
          pc[w] # "enqueue" => serving[w] \in called \cup QueuedRequests

\* When REST_Stop has returned no handler is still running, no accepted
\* connection is unserved and no context is left behind.
StopQuiesces ==
    ~isRunning => /\ \A w \in Workers : pc[w] = "idle"
                  /\ backlog = 0
                  /\ activeRequests = {}

(***************************************************************************)
(* A request is contested when the 504 branch took it and the script's     *)
(* Respond found it still unanswered: both then write the same Response,   *)
(* without a lock.                                                         *)
(***************************************************************************)
Contested(r) == r \in timedOut /\ (r \in responded \/ call = r)
SpoiltThread(w) == \E r \in Requests : httpRes[r] = w /\ Contested(r)

\* What a client should be sent: the script's whole answer, or the whole of
\* one of the handler's own errors; a 404 of either has the error handler's
\* body, so that the body a script gives its own 404 reaches nobody.
WithStatus(header, s, is404) ==
    [header |-> header, status |-> s, body |-> IF is404 THEN Default404 ELSE s]
IntendedResponses(r) ==
    IF r = NoRequest THEN {WithStatus(Blank, NoRoute, TRUE), WithStatus(Blank, NoAuth, FALSE)}
    ELSE IF r \in timedOut THEN {WithStatus(Blank, Gateway, FALSE)}
    ELSE {WithStatus(IF r \in headers THEN r ELSE Blank, r, r \in notFound)}

\* A Response torn between two writers, or with another request's answer or
\* body, goes out only if its thread had served a contested request: without
\* a Respond that meets the 30 s deadline every client is sent one whole
\* answer, to its own request, and with a 404 the body of the error handler.
CleanReplies ==
    \A w \in Workers :
        pc[w] = "write" /\ ~SpoiltThread(w) => res[w] \in IntendedResponses(serving[w])

\* Every handler returns, whatever the script does: if it never answers,
\* the deadline ends the wait.  And a REST_Stop that closed the socket
\* returns although the main thread it blocks is the one that would answer
\* the requests it waits for.
HandlersReturn == \A w \in Workers : (pc[w] # "idle") ~> (pc[w] = "idle")
StopReturns    == (mpc = "join" /\ ~sockOpen) ~> (mpc = "script")
HandlersAndStopReturn == HandlersReturn /\ StopReturns

\* The main thread is in a join nothing will end: Server::stop came before
\* the listener had started.
Hung == mpc = "join" /\ sockOpen /\ listener = "listening"

\* The event of every request that was queued reaches the script, unless
\* the main thread hangs in REST_Stop.
CallbackRuns ==
    \A r \in Requests : (r \in QueuedRequests) ~> (r \in called \/ Hung)

\* PawnREST.inc:131, "Stop the running server. Returns true if stopped
\* successfully.": a call of REST_Stop returns.
StopAlwaysReturns == (mpc = "join") ~> (mpc = "script")
=============================================================================
