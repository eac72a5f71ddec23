------------------------------ MODULE SampCore ------------------------------
(***************************************************************************)
(* What the SA-MP plugin does its own way around the shared core: scripts  *)
(* are AMX machines that come and go, every event is called in all of      *)
(* them, nothing is reset between gamemodes, and a pool thread keeps a     *)
(* pointer to the API route it has matched instead of a copy.              *)
(*                                                                         *)
(* The main thread runs ProcessTick, in which DrainAllEvents takes one     *)
(* vector of events after the other and executes the callbacks; a callback *)
(* may register and remove routes and have the server load or unload       *)
(* another script.  Pool threads and workers push events meanwhile.        *)
(***************************************************************************)
EXTENDS Naturals, Sequences, FiniteSets, SequencesExt

CONSTANTS
    Scripts,      \* AMX machines
    Queues,       \* the vectors of events in the order of the drain
    ApiQueue,     \* the one for API calls, the first
    Hears,        \* the queues for whose events a script has a public
    Threads,      \* pool threads
    MaxEvents,    \* bound: events ever pushed
    MaxRoutes,    \* bound: API routes ever registered
    MaxLoads      \* bound: loads of scripts and of the plugin

Events   == 1 .. MaxEvents
RouteIds == 1 .. MaxRoutes
QueueSet == Range(Queues)
NoRoute  == 0

ASSUME QueuesAssumption ==
    /\ Queues \in Seq(QueueSet) \ {<<>>} /\ ApiQueue = Queues[1]
    /\ Len(Queues) = Cardinality(QueueSet)
    /\ {"none", "garbled"} \cap QueueSet = {}      \* what `kind` has besides queues
ASSUME HearsAssumption  == Hears \in [Scripts -> SUBSET QueueSet]
ASSUME BoundsAssumption == MaxEvents \in Nat /\ MaxRoutes \in Nat /\ MaxLoads \in Nat

VARIABLES
    initialized,    \* g_Initialized
    amxList,        \* g_AmxList, the loaded scripts
    pending,        \* events by queue, in the order of their push
    nextEvent,
    \* the tick under way
    phase,          \* "idle", "take" or "call"
    snapshot,       \* GetLoadedAMXSnapshot, taken once for the tick
    queue,          \* index of the queue being drained
    batch,          \* the events taken from it that are not yet called
    turn,           \* the next script of the snapshot
    \* API routes and the handlers that hold a pointer to one
    apiRoutes,      \* the ids in the map
    nextApiRouteId,
    pc, route,
    loads,
    \* history
    kind,           \* by event: its queue, or "garbled" for one without a callback
    heard,          \* what each script has heard, in order
    audience,       \* by event: the scripts of the tick it was taken in
    excused         \* scripts that a callback unloaded, and the events they may miss

tickVars    == <<phase, snapshot, queue, batch, turn>>
routeVars   == <<apiRoutes, nextApiRouteId>>
threadVars  == <<pc, route>>
historyVars == <<kind, heard, audience, excused>>
vars == <<initialized, amxList, pending, nextEvent, tickVars, routeVars, threadVars, loads,
          historyVars>>

Init ==
    /\ initialized = FALSE /\ amxList = <<>>
    /\ pending = [q \in QueueSet |-> <<>>] /\ nextEvent = 1
    /\ phase = "idle" /\ snapshot = <<>> /\ queue = 1 /\ batch = <<>> /\ turn = 1
    /\ apiRoutes = {} /\ nextApiRouteId = 1
    /\ pc = [t \in Threads |-> "idle"] /\ route = [t \in Threads |-> NoRoute]
    /\ loads = 0 /\ kind = [e \in Events |-> "none"]
    /\ heard = [s \in Scripts |-> <<>>] /\ audience = [e \in Events |-> {}]
    /\ excused = {}

Loaded == Range(amxList)

-----------------------------------------------------------------------------
(* The plugin and the scripts.                                             *)

\* Load: the workers start.  Events of an earlier life are still there.
Initialize ==
    /\ ~initialized /\ loads < MaxLoads
    /\ initialized' = TRUE /\ loads' = loads + 1
    /\ UNCHANGED <<amxList, pending, nextEvent, tickVars, routeVars, threadVars, historyVars>>

\* Unload: the server is stopped and every thread joined.  A handler that
\* waits for an answer of the script sits out its deadline.
Shutdown ==
    /\ initialized /\ phase = "idle" /\ amxList = <<>>
    /\ \A t \in Threads : pc[t] = "idle"
    /\ initialized' = FALSE
    /\ UNCHANGED <<amxList, pending, nextEvent, tickVars, routeVars, threadVars, loads,
                   historyVars>>

\* The server loads a script between ticks, or a callback has it do so.
MainRuns == initialized /\ phase \in {"idle", "call"}
AmxLoad(s) ==
    /\ MainRuns /\ s \notin Loaded /\ loads < MaxLoads
    /\ amxList' = Append(amxList, s) /\ loads' = loads + 1
    /\ UNCHANGED <<initialized, pending, nextEvent, tickVars, routeVars, threadVars,
                   historyVars>>

AmxUnload(s) ==
    /\ MainRuns
    /\ \E i \in DOMAIN amxList : amxList[i] = s /\ amxList' = RemoveAt(amxList, i)
    /\ excused' = excused \cup ({s} \X Range(batch))
    /\ UNCHANGED <<initialized, pending, nextEvent, tickVars, routeVars, threadVars, loads,
                   kind, heard, audience>>

-----------------------------------------------------------------------------
(* API routes, and a request for one.                                      *)

RegisterApiRoute ==
    /\ MainRuns /\ Loaded # {} /\ nextApiRouteId \in RouteIds
    /\ apiRoutes' = apiRoutes \cup {nextApiRouteId} /\ nextApiRouteId' = nextApiRouteId + 1
    /\ UNCHANGED <<initialized, amxList, pending, nextEvent, tickVars, threadVars, loads,
                   historyVars>>

\* The node of the map is freed; pointers to it dangle.
RemoveApiRoute(id) ==
    /\ MainRuns /\ Loaded # {} /\ id \in apiRoutes
    /\ apiRoutes' = apiRoutes \ {id}
    /\ UNCHANGED <<initialized, amxList, pending, nextEvent, tickVars, nextApiRouteId,
                   threadVars, loads, historyVars>>

\* MatchApiRoute gives a pointer, which outlives the lock.
MatchApiRoute(t) ==
    /\ initialized /\ pc[t] = "idle" /\ nextEvent \in Events
    /\ \E id \in apiRoutes : route' = [route EXCEPT ![t] = id]
    /\ pc' = [pc EXCEPT ![t] = "auth"]
    /\ UNCHANGED <<initialized, amxList, pending, nextEvent, tickVars, routeVars, loads,
                   historyVars>>

\* The keys are read through the pointer: a freed route may say anything.
CheckApiAuth(t) ==
    /\ pc[t] = "auth"
    /\ \E granted \in BOOLEAN :
          /\ pc' = [pc EXCEPT ![t] = IF granted THEN "queue" ELSE "idle"]
          /\ route' = [route EXCEPT ![t] = IF granted THEN @ ELSE NoRoute]
    /\ UNCHANGED <<initialized, amxList, pending, nextEvent, tickVars, routeVars, loads,
                   historyVars>>

Push(q, what) ==
    /\ nextEvent \in Events
    /\ pending' = [pending EXCEPT ![q] = Append(@, nextEvent)]
    /\ kind' = [kind EXCEPT ![nextEvent] = what]
    /\ nextEvent' = nextEvent + 1

\* So is the name of the callback, for the event.  A name that is garbage
\* is the public of no script; memory that another route has taken over
\* gives that one's name, which the first disjunct stands for: the queue of
\* an event is followed here, not which of the publics it is for.
HandleApiRequest(t) ==
    /\ pc[t] = "queue"
    /\ \/ Push(ApiQueue, ApiQueue)
       \/ route[t] \notin apiRoutes /\ Push(ApiQueue, "garbled")
    /\ pc' = [pc EXCEPT ![t] = "wait"]
    /\ route' = [route EXCEPT ![t] = NoRoute]
    /\ UNCHANGED <<initialized, amxList, tickVars, routeVars, loads, heard, audience,
                   excused>>

\* The answer of a script, or the deadline.
HandlerReturns(t) ==
    /\ pc[t] = "wait"
    /\ pc' = [pc EXCEPT ![t] = "idle"]
    /\ UNCHANGED <<initialized, amxList, pending, nextEvent, tickVars, routeVars, route, loads,
                   historyVars>>

\* Uploads, requests and WebSockets push from their own threads.
WorkerPush(q) ==
    /\ initialized /\ q # ApiQueue /\ Push(q, q)
    /\ UNCHANGED <<initialized, amxList, tickVars, routeVars, threadVars, loads, heard,
                   audience, excused>>

-----------------------------------------------------------------------------
(* ProcessTick.                                                            *)

BeginWith(scripts) ==
    /\ initialized /\ phase = "idle"
    /\ phase' = "take" /\ snapshot' = scripts /\ queue' = 1
    /\ UNCHANGED <<initialized, amxList, pending, nextEvent, batch, turn, routeVars, threadVars,
                   loads, historyVars>>

\* Mutant: the events are taken although no script is loaded.
DrainsUnheard == BeginWith(amxList)

\* The scripts are listed once; without one, nothing is taken.
BeginDrain == amxList # <<>> /\ BeginWith(amxList)

\* Drain...Raw of the next queue.
TakeEvents ==
    /\ phase = "take" /\ phase' = "call" /\ turn' = 1
    /\ batch' = pending[Queues[queue]]
    /\ pending' = [pending EXCEPT ![Queues[queue]] = <<>>]
    /\ audience' = [e \in Events |-> IF e \in Range(batch') THEN Range(snapshot) ELSE audience[e]]
    /\ excused' = excused \cup ((Range(snapshot) \ Loaded) \X Range(batch'))
    /\ UNCHANGED <<initialized, amxList, nextEvent, snapshot, queue, routeVars, threadVars, loads,
                   kind, heard>>

\* amx_FindPublic and amx_Exec, in the order of the snapshot.  Who was
\* unloaded meanwhile is called all the same: short of a crash, the machine
\* may still run its code, or have none.
CallScript ==
    /\ phase = "call" /\ batch # <<>> /\ turn \in DOMAIN snapshot
    /\ LET s == snapshot[turn] IN
       \/ /\ kind[Head(batch)] \in Hears[s]
          /\ heard' = [heard EXCEPT ![s] = Append(@, Head(batch))]
       \/ /\ kind[Head(batch)] \notin Hears[s] \/ s \notin Loaded
          /\ UNCHANGED heard
    /\ turn' = turn + 1
    /\ UNCHANGED <<initialized, amxList, pending, nextEvent, phase, snapshot, queue, batch,
                   routeVars, threadVars, loads, kind, audience, excused>>

NextEvent ==
    /\ phase = "call" /\ batch # <<>> /\ turn \notin DOMAIN snapshot
    /\ batch' = Tail(batch) /\ turn' = 1
    /\ UNCHANGED <<initialized, amxList, pending, nextEvent, phase, snapshot, queue, routeVars,
                   threadVars, loads, historyVars>>

NextOf(last) ==
    /\ phase = "call" /\ batch = <<>>
    /\ IF queue < last
       THEN phase' = "take" /\ queue' = queue + 1 /\ UNCHANGED snapshot
       ELSE phase' = "idle" /\ queue' = 1 /\ snapshot' = <<>>
    /\ UNCHANGED <<initialized, amxList, pending, nextEvent, batch, turn, routeVars, threadVars,
                   loads, historyVars>>

\* Mutant: the last queue is left out.
SkipsLast == NextOf(Len(Queues) - 1)

NextQueue == NextOf(Len(Queues))

DrainAllEvents == BeginDrain \/ TakeEvents \/ CallScript \/ NextEvent \/ NextQueue

Handler(t) == MatchApiRoute(t) \/ CheckApiAuth(t) \/ HandleApiRequest(t) \/ HandlerReturns(t)

Next ==
    \/ Initialize \/ Shutdown
    \/ \E s \in Scripts : AmxLoad(s) \/ AmxUnload(s)
    \/ RegisterApiRoute \/ \E id \in RouteIds : RemoveApiRoute(id)
    \/ \E t \in Threads : Handler(t)
    \/ \E q \in QueueSet : WorkerPush(q)
    \/ DrainAllEvents

\* The server calls ProcessTick for ever, and a callback returns.
Fairness == WF_vars(DrainAllEvents)
Spec == Init /\ [][Next]_vars /\ Fairness

-----------------------------------------------------------------------------
(* Properties.                                                             *)

\* The values the scripts, the queues, the tick and the handlers may take.
TypeOK ==
    /\ initialized \in BOOLEAN /\ amxList \in Seq(Scripts)
    /\ pending \in [QueueSet -> Seq(Events)] /\ nextEvent \in 1 .. MaxEvents + 1
    /\ phase \in {"idle", "take", "call"} /\ snapshot \in Seq(Scripts)
    /\ queue \in DOMAIN Queues /\ batch \in Seq(Events) /\ turn \in Nat
    /\ apiRoutes \subseteq RouteIds /\ nextApiRouteId \in 1 .. MaxRoutes + 1
    /\ pc \in [Threads -> {"idle", "auth", "queue", "wait"}]
    /\ route \in [Threads -> RouteIds \cup {NoRoute}] /\ loads \in 0 .. MaxLoads
    /\ kind \in [Events -> QueueSet \cup {"none", "garbled"}]
    /\ heard \in [Scripts -> Seq(Events)] /\ audience \in [Events -> SUBSET Scripts]
    /\ excused \subseteq Scripts \X Events

\* Nobody misses an event or hears it twice: one whose turn is over was
\* heard once by every script of its tick that has the public, save those a
\* callback unloaded; and it had a script to hear it: what is pushed while
\* none is loaded waits for the next.
Waiting(e)  == e \in Range(batch) \/ \E q \in QueueSet : e \in Range(pending[q])
Times(s, e) == Cardinality({i \in DOMAIN heard[s] : heard[s][i] = e})
NobodyMisses ==
    \A e \in 1 .. nextEvent - 1 :
        ~Waiting(e) =>
            /\ audience[e] # {}
            /\ \A s \in audience[e] :
                  Times(s, e) = 1 \/ kind[e] \notin Hears[s] \/ <<s, e>> \in excused

\* And in the order in which the events of one queue were pushed, across
\* ticks, reloads of the script and of the plugin.
InOrder(s) ==
    \A i, k \in DOMAIN heard[s] :
        i < k /\ kind[heard[s][i]] = kind[heard[s][k]] => heard[s][i] < heard[s][k]
\* Nor does an event lose the name of its callback but after a removal.
LostByRemoval ==
    \A e \in Events : kind[e] = "garbled" =>
        \E id \in RouteIds : id < nextApiRouteId /\ id \notin apiRoutes
HeardOnceInOrder == NobodyMisses /\ LostByRemoval /\ \A s \in Scripts : InOrder(s)

\* While scripts are loaded no queue keeps its events for ever.
EventsAreTaken ==
    \A q \in QueueSet :
        pending[q] # <<>> ~> (pending[q] = <<>> \/ amxList = <<>> \/ ~initialized)
=============================================================================
