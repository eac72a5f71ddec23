# PawnREST in TLA+

PawnREST is an open.mp / SA-MP plugin that gives a Pawn script an HTTP server,
an HTTP client, file uploads both ways and WebSocket clients. The script is
single-threaded; everything that can block runs on other threads and comes back
to the script as an event. This directory models that machinery, checks it with
TLC and proves its safety with TLAPS.

## Inventory

Sources are under `src/src/pawnrest/`; `component.inl` (open.mp) is the
reference. Threads: the main/script thread (natives, and a timer that calls
`DrainEvents`), the httplib listener with its pool, one upload worker, one
request worker and one read thread per WebSocket.

| Component | State | Operations | Hard because |
|---|---|---|---|
| Inbound API requests | `activeRequests`, `pendingApiEvents`, `nextRequestId`, a `Response` on each pool thread's stack | `HandleApiRequest`, `DrainApiEvents`, `Respond`, `SetResponseHeader` | a 30 s deadline races the script's answer, written through a raw pointer |
| Server lifecycle | `isRunning`, `httpThread`, httplib's `svr_sock_`, `is_running_` | `StartHttpServer`, `StopHttpServer`, listener | stop joins, on the thread that would answer, a pool that waits for answers |
| Outbound requests | `outgoingRequests`, `pendingRequestEvents`, `cancelToken` | queue, cancel, `RequestWorker`, drain, `reset` | cancel, completion and reset interleave lock by lock |
| Outgoing uploads | `outgoingUploads`, `pendingOutgoingEvents` | queue, cancel, `UploadWorker`, drain, `reset` | progress, outcome and cancellation are recorded in several places |
| WebSocket clients | `webSocketConnections`, `stopToken`, `closeStatus`, `disconnectEmitted` | connect, close, read loop, drain, `reset`, destructor | both ends may finish the connection at once; threads are joined |
| JSON node store | `jsonNodes`, `nextJsonNodeId`, the trees of nodes | `StoreJsonNode`, release, constructors, setters, getters, `JsonObject`, `JsonArray`, `JsonAppend` | handles owned by hand; aliases; builders that fail half way; workers store nodes between the steps of a native |
| JSON text | none | `ParseNode`, `StringifyNode`, `FindKey`, the getters of a request's body | two readers of one format that have to agree |
| Incoming uploads | temp files, `pendingEvents` | raw and multipart handlers, `ResolveDestPath`, `ValidateUpload` | failure half way, two uploads of one name |
| File routes, API routes, keys | `routes`, `apiRoutes`, httplib's handler tables | register, remove, keys, permissions, `MatchApiRoute`, list, download, delete | handlers outlive their route; the first match wins; pool threads read while the script writes |
| Helpers | none | `SanitizeFilename`, `ParseUrl`, `ClassifyClientError`, ... | boundaries of text functions |
| SA-MP build (`core_samp.inl`, `entry_samp.cpp`) | the same, `g_AmxList` | the same; `AmxLoad`, `AmxUnload`, `DrainAllEvents` over all scripts, no `reset` | near copy that has drifted; scripts come and go in callbacks |

How they interact: pool threads and workers push to one mutex-protected vector
per component; `DrainEvents` swaps each vector out and runs the callbacks; the
natives called in callbacks change the maps the other threads read, one lock at
a time. `reset()` (a change of gamemode) clears vectors and maps one after the
other while the workers run. What makes each component correct: events reach
the script exactly once and in order, status natives and callbacks agree, ids
are unique, no thread outlives its owner, every job is reported, no node handle
dangles or leaks, and every blocking call returns.

`PROJECT.json` lists the hazards behind this at their lines.

## Modules

* **ApiRequests** - inbound requests and the server's life. One action per
  critical section or per unsynchronised write of `HandleApiRequest` and
  `Respond`, the listener thread, start and stop. A `Response` is a record of
  who wrote each of its parts, so a torn or foreign answer is visible. The
  Response lives on the pool thread's stack: a write through the pointer of a
  request whose handler has returned (undefined behaviour) lands in whatever
  that thread serves by then. The server's error handler, which gives every 404
  its own body, is a step between the handler's return and the write to the
  client (`RunErrorHandler`).
* **MCApiRequests** - thread symmetry for the safety run.
* **ApiRequests_proofs** - the theorems, see below.
* **JobLifecycle** - the abstract promise of both background workers: taken at
  most once, one at a time, reported at most once, in the order of finishing.
* **OutboundRequests**, **OutgoingUploads** - the two workers with their
  cancel, drain, reset and destructor. Each implements JobLifecycle under a
  refinement mapping at its end (`ImplementsJobLifecycle`): waiting jobs are
  the pending entries of the map, the running job is the worker's, finished
  ones are the events on their way. The outbound module also follows the
  custody of JSON response nodes.
* **OutboundRequests_proofs**, **OutgoingUploads_proofs** - theorems about them,
  see below.
* **IncomingUploads** - the two handlers of an uploaded file over one route: the
  checks before the body, the body chunk by chunk, every exit after it, and the
  directory it is stored in, which other uploads, the DELETE handler and the
  natives change in between. `temps` is the temp directory, `files` the
  destination: the file name as sent, its variants `_1`, `_2` and `.corrupt`.
  A file is who wrote it. `rename` is one step; the copy that replaces it when
  it fails is two, and `linked` says whether what is being written is still the
  file under that name. The raw and multipart handlers share their tail, so one
  action stands for both; the codes and steps that differ follow `multipart`.
  Once a route is removed its endpoint answers 404 until the server restarts,
  also when it is registered again: the first handler for a path wins and keeps
  the old id. So `NoRoute` is final in the model.
* **MCIncomingUploads** - the configurations and requests of its runs.
* **IncomingUploads_proofs** - theorems about what it leaves on the disk and what
  client and script hear of it.
* **WebSocketClient** - connect, read loop, the three ways a connection ends,
  cleanup and joins, reset and destructor. `Story` is what the script has heard
  of a socket followed by the events on their way.
* **WebSocketClient_proofs** - theorems about it, see below.
* **Routing** - who answers a request: the maps the natives change under a
  mutex, httplib's handler tables (`handlers`, rebuilt by a start and otherwise
  only appended to, one entry at a time: `todo`), and the pool threads that
  search them, look the route up again, copy it and decide with the copy.
  `granted` and `kept` are history: the routes that granted the request at one
  time, or all the while, it was served.
* **MCRouting** - paths, patterns and requests of its runs.
* **Routing_proofs** - theorems about it, see below.
* **JsonNodes** - the store. A node is an address of a heap; `Clone`, the
  linking into objects and arrays, and every native that makes, copies, reads
  or releases nodes. The natives that loop (the builders and `JsonAppend`) run
  one argument or child at a time, since a worker may store a parsed answer in
  between. `origin` is history: the root a node was made for.
* **JsonText** - the recursive descent that builds nodes, the walk that only
  skips, and the getters built on either, over sequences of symbols. `Value` is
  the reference grammar, stated by splitting a text. What the code does by
  recursion and loops is a recursive function over the positions of a text.
* **JsonPrinter** - the printer of trees. Its recursion is over the tree, in
  recursive operators, and only model-checked.
* **Json_proofs** - theorems about JsonNodes and JsonText, see below.
* **MCJson** - small trees and calls for the one, documents and their edits for
  the other; the two share a run and no state.
* **SampCore** - what the SA-MP plugin does its own way around the shared core:
  loads and unloads of scripts, the drain that takes one vector after the other
  and calls every script of a list taken once, and the pool thread that holds a
  pointer into the map of API routes.
* **MCSampCore** - the scripts and queues of its run.
* **SampCore_proofs** - theorems about it, see below.

Definitions whose comment starts with "Mutant:" are deliberate bugs next to the
action they replace; no specification uses them. They serve to show that each
property can fail.

### What the actions abstract

TLS, URLs, bodies and files are choices among the outcomes the code
distinguishes, and outside Routing so are route matching and keys. In Routing a
path is an endpoint and one of the suffixes the handlers' patterns tell apart,
and `Covers` says which paths an API pattern matches. Freed memory is never seen
again: addresses of JSON nodes are not reused, and what no handle leads to has
been freed. A call that the code refuses without changing
anything is no step. Clocks are not modelled: a deadline may pass at any time
(`DeadlinePasses`). A keep-alive connection is one job per request. The script
is any sequence of native calls between callbacks, on the main thread. Callbacks
of one drain run in sequence, with script steps between them; `reset` and the
destructor run between drains.

## Runs

`CHECK_DEADLOCK FALSE` everywhere: once the bounds are used up, or the component
is destroyed, the system may really stop.

| Run | Configuration | Shows |
|---|---|---|
| `api_safety` | 2 threads (symmetric), 2 requests, 1 start | contexts, ids, events, replies and stop are consistent in every interleaving; what is sent is one whole answer, and a 404 has the error handler's body (8.2 M states) |
| `api_liveness` | 1 thread, 2 requests, 2 starts | handlers return, stop returns once it closed the socket, events are delivered; also across a restart |
| `api_stop_hang` | 1 thread, 1 request | violated: REST_Stop before the listener runs never returns |
| `requests` | 2 requests, 1 reset | status history, node custody, JobLifecycle, what a settled request may still become, reporting |
| `uploads` | 2 uploads, 1 reset | callback order, agreement with the status natives, JobLifecycle, reporting (1.15 M states) |
| `incoming` | 2 uploads, one of any of 11 kinds, 2 route configurations, 1 native or DELETE | one outcome per upload, the same for client and script; no temp file left; the directory holds accepted files only and keeps finished ones; outcomes are heard (0.5 M states) |
| `incoming_truncated` | the same, no natives | violated: a body that broke off is stored and reported as completed |
| `websocket` | 1 socket, 2 messages, 1 reset | the end is reported once and last, a failure is told as one, threads are owned, nodes kept, closes and reports get done |
| `routing` | 1 thread, 2 file routes of one endpoint, 2 API routes, 2 starts, 1 change of settings, 7 requests | what is done was granted at one time during the request; what a route grants all the while is refused for one of the known reasons only (3.5 M states) |
| `routing_again` | 1 thread, 2 file routes of one endpoint, 1 start | violated: an endpoint registered again answers 404 |
| `json` | 5 nodes, 3 handles, 7 builder calls, 4 parsed trees; 7 nodes for two parsed trees; 4029 bodies | nodes form a forest, copies are separate, builders and `JsonAppend` settle their arguments; the parser accepts exactly the grammar, reads what the printer writes, and agrees with the getters that only walk (0.1 M states) |
| `samp` | 2 scripts, 2 queues, 1 pool thread, 3 events, 1 route, 3 loads | every script of a tick hears each of its events once and in order; an event loses its callback only after a removal; events are taken (0.7 M states) |

Each component has a `TypeOK`; TLC checks it in `api_safety`, and those of all
other modules but the JSON texts, which have no state of their own, are proved.

Why the bounds are enough: every hazard listed needs at most two requests (one
contested, one that reuses the thread) and two threads (two takers of an id);
the workers are single threads whose jobs meet only through the map and the
event vector, for which two jobs and one reset give every order; sockets share
nothing but the event vector, the node counter and the main thread, and each
has its own read thread, so one socket with two messages covers the races
between a read thread and the main thread; the proofs are for any number. Two
uploads and
one file that was there before give every conflict of names, and two variants
are never used up by two uploads (nor are the 9999 of the code, after which it
appends a time stamp). Bodies of up to three chunks lie on both sides of the
limits of the route (1 or 3) and of httplib (2, in the code 100 MB). The second
upload is a plain one, so that it is the partner in every race and the first
one goes through every path. A second reset is left to the proofs; three
incoming uploads at once are not checked. Pool threads in Routing only read what
the main thread writes and share nothing, so one of them against the main thread
is every race; two routes of one endpoint are a route and the one that follows
it, and the API patterns cover a path of their own and one of the file route.
A heap of 5 nodes is a parsed tree of three with two nodes around it, or two
small trees and the copy of one in the other; 7 nodes are two parsed trees, one
of them an object with a key twice, and what it takes to merge them. The proofs
do without the bound. The bodies are seven
documents (a key twice, nesting, escapes, white space, the empty key) and
everything one edit makes of them, or two edits with
brackets, commas and quotes of a short array: broken texts on which
two readers could part. Two scripts, of which one lacks a public, and two queues
give every order of taking, calling and unloading. The restart of the server is in the liveness run
and in the proofs, which hold for all bounds.

Fairness: threads are scheduled (weak fairness of each thread's steps), an
exchange or read of a closed socket ends because httplib has timeouts, the
server's timer keeps draining (in SA-MP, `ProcessTick`), and a call that has begun goes on. A client that
falls silent in the middle of a body is cut off by httplib's read timeout. Clients,
peers and the script need not do anything. Which of several pending requests a
worker picks is not fair, since the map it scans is unordered; with finitely
many ids a queued one is reached all the same.

### Divergences found

1. `REST_Stop` directly after `REST_Start` can hang the game server: httplib's
   `stop()` does nothing before the listener thread has set `is_running_`, and
   the join then waits for ever.
2. A body that broke off is stored as far as it came: the handlers of an upload
   do not look at what `content_reader` returns, and the script is told that the
   upload is complete, unless the client gave a checksum. A route may allow
   more than httplib's 100 MB; of such a body the beginning is stored and
   reported as completed to the script while the client gets 413.
3. An endpoint whose route was removed and registered again answers 404 until
   the server is restarted: the handlers of the removed route stay in httplib,
   come first, and no longer find their id.

Seen in the models, without a run of their own:

* A `Respond` that meets the 30 s deadline returns true and is not what the
  client gets: status, headers and body may come from both writers, and a late
  write may reach the thread's next request. `CleanReplies` shows that without
  such a meeting every reply that leaves the error handler is whole and its own.
* The error handler replaces the body of every 404, so the example of the
  README (`RespondError(requestId, 404, "Player not found")`) sends
  `{"error":"endpoint not found"}`. `CleanReplies` states it the way the code
  has it: a 404 has that body, never the script's.
* A cancel that returned true can still be followed by a Completed callback.
  `SettledStays` bounds the damage to the job that was past its last test.
* A WebSocket closed by its peer with 1000 is reported with 1006 and the error
  WEBSOCKET, since the read loop treats a Close like a failed read unless this
  side asked for it; `wiki/WebSocket-Guide.md:78-79` has 1000 for a normal close
  and an error code only for a transport or parser error.
  `FailuresToldAsSuch` therefore claims one direction only: a failure is never
  told as a normal end, nor a close of the main thread as a failure.
* `GET <endpoint>/files/<name>/info`, which `PawnREST.inc` documents, is
  answered by the download handler, whose pattern is registered first and
  matches it too (`HandleFileInfo` is never reached). An API route whose pattern
  matches a path of a file route takes it, or loses it, by order of
  registration; `RefusalsExplained` lists these cases and shows that there are
  no others.
* A route registered while the server runs appends to vectors that pool threads
  search without a lock. The model lets a search see any prefix; the memory
  errors of such a race are outside it.
* The printer writes a control character without a short escape as `\u0001`,
  and the parser reads that as the letters `u0001` (the exception in
  `RoundTrip`).
* A builder that fails releases the arguments before the one it failed at and
  keeps those behind it, which the script cannot name; with an odd number of
  arguments `JsonObject` keeps them all (`BuilderSettles` says what is released).
* In the SA-MP plugin nothing is reset between gamemodes, a JSON node of a
  completed request is handed under one handle to every script, and
  `MatchApiRoute` returns a pointer that is used after the lock is gone: an event
  may carry the callback of a route that has been removed (the event is then
  "garbled" in SampCore, and nobody hears it). `LostByRemoval`, a part of
  `HeardOnceInOrder`, says that this happens only after a removal. Memory that a
  later route has taken over could name that route's callback; the model does
  not tell this case from the two it has.

Met on the way, and visible in the model without a run of their own: two uploads
of one name that choose their path before either is moved get the same one, and
one file is lost although both are reported as completed, in the modes
`CONFLICT_RENAME` and `CONFLICT_REJECT` too (`KeepsFinishedFiles` states what is
left of the promise); a second form field "file" always fails the upload and
leaves its temp file; a corrupt file that cannot be moved stays in the temp
directory, unmentioned; a DELETE removes whatever is under the name by then, a
file stored since its check included; and an outcome pushed in the middle of a
`reset` reaches the next gamemode. These are excused in the properties, each by
a condition their comments name, because the code does them.

## Proofs

Eight modules hold theorems. `ApiRequests_proofs` proves, for any set of threads
and all bounds, `Spec => []P` for every invariant of the safety run:

| Theorem | Property |
|---|---|
| `TypeCorrect` | `TypeOK` |
| `ActiveMatches` | `ActiveMatchesHandlers` |
| `AnswersAreUnique` | `AnsweredOnce` |
| `EventsAreUnique` | `EventOnce` |
| `StopLeavesNothing` | `StopQuiesces` |
| `RepliesAreClean` | `CleanReplies` |

The only assumption is `ConstantsAssumption` (naturals, and a null pointer that
is no thread). None of the properties is inductive, so the proofs go through

    IInv == TypeInv /\ HandlerInv /\ ServerInv /\ EventInv /\ ScriptInv /\ CleanInv

* `TypeInv`: types, and that a waiting handler and a Respond have a request;
* `HandlerInv`: a thread and its request point at each other, which makes ids
  unique and the erase exact;
* `ServerInv`: what the listener's state says of the socket, the backlog and
  the threads;
* `EventInv`: ids in the queue are older than the counter, a thread about to
  queue has one that was never queued;
* `ScriptInv`: a Respond in progress belongs to a waiting handler, or to a
  request that timed out;
* `CleanInv`: on a thread never touched by a contested request the Response is
  exactly what has been written so far (`Answer(r, n)` after n of the three
  writes of Respond).

One lemma per part proves that a step preserves it, one step per action.

`Json_proofs` proves, for any parsed trees, builder calls, keys, scalars and
bounds, and for any text, key and path:

| Theorem | Property |
|---|---|
| `TypeIsCorrect` | `TypeOK` |
| `NodesFormAForest` | `Forest` |
| `CopiesShareNothing` | `CopiesAreSeparate` |
| `BuildersSettle` | `BuilderSettles` (an action property) |
| `AppendsMerge` | `AppendMerges` (an action property) |
| `ReadersAlwaysAgree` | `ReadersAgree` |
| `ParserIsGrammar` | `AcceptsExactlyValues` |

The first five use the assumptions of JsonNodes: the calls are lists of arguments
(`CallsAssumption`), the bounds are naturals (`BoundsAssumption`), and a parsed
text is a tree numbered from its root (`TreesAssumption`, which is what the
recursive descent builds). Their invariant is

    IInv == HeapInv /\ StoreInv /\ CallInv

* `HeapInv`: types, a child lies between its parent and `nextAddress`
  (`Nested`), has one parent (`OneParent`) and its parent's origin (`Separate`);
* `StoreInv`: a handle leads to an address in use. `Forest` alone is not
  inductive: a handle to an address not yet in use could be linked;
* `CallInv`: a looping native works below a root of its own, and the handles it
  was given are older than the one it was given out, so releasing the arguments
  never releases the result; the two of an append stay known while it runs.

The heart is `CloneHeap`: since `Place` numbers the copies in the order of the
originals (`PlaceInBlock`, `PlaceKeepsOrder`, `PlaceIsInjective`), a cloned
forest is a forest in a block of its own to whose root nothing leads
(`Unused`), which is what `LinkHeap` needs to hang it below an older node.
`LeastOf`, the least element of a set of naturals, makes `PositionOf` an index.
Then one lemma per kind of native, and `NextKeepsIInv` over the disjuncts.

`AppendMerges` compares the values of nodes, which `ValueAt` builds by recursion
over the heap. Induction over data is out of the prover's reach, but `Nested` bounds
the recursion: `ValuesExist` descends from the last address to the first by the
least element of a set of naturals, and `SameValues` takes the last node at which
two heaps would differ. Hence a copy has the value of its original (`CopyValues`)
and linking a node changes no value of a node that does not lead to it
(`FrameValues`). The invariant of the loop is

    AppendInv == call.op = "append" => AppendOK(heap, root, left, right, at - 1)

`AppendOK`: nothing leads to the new node yet (`Unused`; a child linked to it would
else change other values), and its members are those of the left node merged with
the first `at - 1` of the right one (`Merged`): for an array the elements in order,
for an object under each key the last of those copied, else the first of the left,
since parsed objects may have a key twice. `MergeBegins` and `MergeGoesOn` are about
such sequences of members alone, `AppendBegins` and `AppendLinks` about the heap,
and `ParseKeepsAppend` about a worker that stores a tree in between. It needs
`FreshHandles`: handles not given out yet lead nowhere, so what the worker stores
takes neither argument's place. A node may be appended to itself.

The last two are about no run of the program but about every text. They assume
only that bodies are sequences of symbols, none of which is `"end"`, the value that
`At` gives beyond a text (`BodiesAssumption`), and that paths are sequences of
keys and indexes (`PathsAssumption`). The argument, section by section:

* *Recursions exist.* A recursive function is a CHOOSE, so it has to be shown that
  there is one. What a reader gives at a position follows from what it gives further
  on (`LooksAhead`): a solution on the last positions extends to one more
  (`SkipIs`, `ReadIs`, `Descending`). With it comes that a reader that succeeds
  has moved on (`Ahead`, `IsParsed`), which is also why the loops of the code end.
* *The walk ends where the parser ends.* By `Backwards`, an induction from the end of
  the text to its start: where two readers agree behind a position they agree at it.
* *Cuts.* `FindNestedKey` copies the value it finds and searches the copy. What is read
  inside a text and ends by b is read the same in the text cut off at b (`IsCut`,
  `SameCut`): one lemma per reader, again from the end backwards. A number is the
  one value whose end the next symbol decides.
* *Getters.* A search from one member on finds the first member of the node that has
  the key (`Finds`), the loop of `ArrayLength` counts the elements, and skipping i
  items leads to element i (`ElementIs`).
* *Paths.* After each segment the copied text stands for the node below
  (`StandsFor`): both are nothing, or the text is read as the node. The empty text of a
  failed step and NoNode stay what they are.
* *The grammar exists.* What it says of an interval of the text depends on the
  intervals inside it (`LooksInside`), so a table that is right for short intervals
  can be made right for longer ones (`Widening`, `GrammarIs`).
* *What is read is in the grammar.* Where the parser reads a value from i up to q, the
  symbols from i to q - 1, with any white space around them, are a value (`SoundAt`), again
  from the end backwards; the name of a member, a string, a number and a word have
  lemmas of their own. A text that is accepted is read from 1 to its end
  (`AcceptedIsValue`).
* *What is in the grammar is read.* By the length of the interval (`TakesAll`): if the
  grammar has a value from i to j and no digit follows, the parser stops behind its
  solid part, and it reads items up to the bracket that follows them. It is told by a
  colon, a comma or a bracket where an item ends, so it finds the split the grammar
  only says exists (`ElementsTaken`, `MembersTaken`, `ValueIsAccepted`).

`OutboundRequests_proofs` proves, for any numbers of requests and resets:

| Theorem | Property |
|---|---|
| `TypeCorrect` | `TypeOK` |
| `StatusAgrees` | `StatusMatchesCallback` |
| `NodesChangeHands` | `NodeCustody` |
| `SettledRequestsStay` | `SettledStays` (an action property) |
| `RequestsAreJobs` | `ImplementsJobLifecycle` (the refinement) |

The only assumption is `BoundsAssumption` (naturals). The properties speak of
the map, the events on their way and the callbacks, but what keeps them true is
where the worker stands between its locks, so the invariant `IInv` adds

* `WorkerInv`: the outcome the worker has decided at each point, and the status
  its request may have there: a cancel may have changed it, a reset erased it;
* `FreshInv`: an id not given out has no entry and no callback;
* `RequestInv`: a pending request, and the one being worked on, were not
  reported;
* `EventsOK`, `Distinct`: each undelivered event is about a request of its own,
  not yet reported and no longer with the worker, agrees with its status, and
  carries a node that nobody else holds;
* `NodeInv`, `NodeCount`: handles are older than the counter, and each request
  stores at most one node, which is why the nodes never run out.

For the refinement each action that touches a job (queue, cancel, pick, a copy
or a failure that finds the request gone, push, callback, the locks of a reset) is shown to be
the abstract step of that name or a stutter, and the others to stutter.
`EventsOK` is what it needs at a callback, that the first event is a job not yet
reported, and `RequestInv` at a pick. JobLifecycle has no liveness; `RequestsReport`
is checked by TLC.

`OutgoingUploads_proofs` proves, for any numbers of uploads and resets:

| Theorem | Property |
|---|---|
| `TypeCorrect` | `TypeOK` |
| `StoriesInOrder` | `StoryInOrder` |
| `StatusAgrees` | `StatusMatchesCallback` |
| `UploadsAreJobs` | `ImplementsJobLifecycle` (the refinement) |

The only assumption is `BoundsAssumption`. The invariant relates where the worker
stands to what the script was or will be told:

* `WorkerInv`, `FreshInv`: the upload the worker has, the status it may have at
  each point, and ids not given out;
* `ToldInv`: of the upload being worked on only events below the next one
  (`NextRank`, from the worker's place) were told, and an outcome that was told
  is the status of an upload still in the map. This is what makes a second
  outcome, or progress after one, impossible;
* `StartedInv`: past its first push an upload still in the map has its Started
  event on the way or heard. It is suspended between the two locks of a reset,
  which empties the queue before the map;
* `OrderInv`: ranks rise in what was heard, across to what is on its way, and
  along that: the property, cut where a callback moves an event across.

The refinement is the same as that of the requests but for one thing: the queue
also holds progress, and the finished jobs are what `OutcomesOf` selects from it.
It is a recursive function over the length of a queue, of which three things are
proved by induction (`NoLeast`: a set of naturals that has a smaller number with
each of its own is empty): there is such a function (`CollectsExists`), an event
behind the others adds its id or nothing (`OutcomesOfAppend`), and one taken from
the front is the first id or none (`OutcomesOfTail`). Then a push of progress, or
its callback, is a stutter of JobLifecycle (`PushAppends`, `CallbackDropsFirst`),
and a push of an outcome is a job that finishes. That an outcome is reported once
follows from `OrderInv`.

`WebSocketClient_proofs` proves, for any numbers of sockets, messages and resets
(the run has one socket):

| Theorem | Property |
|---|---|
| `TypeCorrect` | `TypeOK` |
| `ReadersAreOwned` | `ReadersOwned` |
| `NodesChangeHands` | `NodeCustody` |
| `EndsComeLast` | `DisconnectIsLast` |
| `FailuresAreToldAsSuch` | `FailuresToldAsSuch` |

The only assumption is again `BoundsAssumption`. Here many threads share the main
thread, the event vector and the node counter. Beside the properties the
invariant `IInv` says

* `FreshInv`: ids not given out have left no trace;
* `MainInv`: a socket the main thread is closing is in `mainClosed`, and what it
  will go on with after a join;
* `CauseInv`, `ReportsJustified`: who may have set a socket's token, what its
  read thread has found out at each point (`causes` is the history of what
  happened on each socket), and that the reports on their way and heard say so;
* `FlagInv`: a report exists only where `disconnectEmitted` was taken, and whoever
  took it has pushed the report or is about to, one of the two threads and not
  both; a read thread that reported has returned;
* `OrderInv`: after a report come only messages, of a socket the main thread
  closed, cut like that of the uploads;
* `NodeInv`, `NodeCount`: a handle has one holder (read thread, event or script),
  and each message stores at most one node.

`IncomingUploads_proofs` proves, for any finite set of uploads, any requests and
configurations, any numbers of natives and DELETEs (the run has two uploads):

| Theorem | Property |
|---|---|
| `TempsAreRemoved` | `NoTempLeft` |
| `StoredFilesAreAccepted` | `StoredIsAccepted` |
| `FinishedFilesStay` | `KeepsFinishedFiles` (an action property) |
| `TypeCorrect` | `TypeOK` |
| `OneOutcomeEach` | `OneOutcome` |
| `AnswerIsOutcome` | `AnswerMatchesOutcome` |

The only assumption is `UploadsAssumption`: the types of the constants, writers
that are not uploads, and no more uploads than variants of a name. The last is the
bound under which `ResolveDestPath` cannot run out of names: a variant that is
taken was chosen by another upload (`VariantInv`), so that by counting
(`SomeVariantIsFree`, with the pigeonhole principle) one is free. The invariant
`IInv` says what a handler knows at each place and relates the handlers to the
directory they share:

* `JobInv`: a handler that has chosen a path is past all the checks (`Sound`),
  and keeps what it checked;
* `TempInv`: a temp file belongs to a handler that will still remove it, or to
  one of the two kinds that lose it;
* `FileInv`: the writer of an ordinary file is storing it there, or has;
* `LinkInv`: a copy that goes to the file still under its name finds there itself,
  another such copy, or a mixture, so its end replaces no finished file;
* `RivalInv`: all that are not over are rivals of an upload that has chosen its
  path, and what stands at a path that was found free came from one of them.

The steps of a handler fall into those before it has a path (`EarlyStep`: no
ordinary file changes), the choice, and those after it (`LateStep`: only the file
at the path changes); the main thread only takes files away (`MainStep`).

What the script hears has an invariant of its own, `EInv`: `IInv`, the types of
the events, and the two properties, which together are inductive. An upload's
events are the positions of the queue that carry its name (`Pending`), so what a
push or a callback does to one upload is told by what it does to positions. A step
of a handler has one of four shapes: it changes no event (`Quiet`), queues one of
progress before any outcome (`Progresses`), queues the outcome as it returns
(`Reports`), or returns early without one; each of the many exits is shown to have
one of them (`Tells`), with the answer that fits. The main thread takes the first
event to the script or clears the queue.

`Routing_proofs` proves, for any endpoints, patterns, keys, requests and pool
threads, any numbers of routes, starts and changes of settings (the run has one
thread and two routes of each kind):

| Theorem | Property |
|---|---|
| `TypeCorrect` | `TypeOK` |
| `OnlyGrantedIsDone` | `DoneWasGranted` |
| `RefusalHasReason` | `RefusalsExplained` |

The assumptions are that API routes have a method of httplib's and a pattern
(`CoversAssumption`), that a request has a method, a path of an endpoint and a
suffix, and a key or none (`RequestsAssumption`), and naturals (`BoundsAssumption`).
`DoneWasGranted` needs to know where the copy came from on which a handler decides;
`RefusalsExplained` needs the converse, that a search which finds nothing means that
no route granted the request all the while. So the invariant `IInv` ties the
tables to the maps:

* `RoutesFit`: ids are below their counters, so a new route is nobody's old id;
* `TablesFit`: a handler names the endpoint of its route, or one that has lost a
  route since the start (`retired`);
* `TablesComplete`: while the server runs, each registered route has its handlers
  in the tables or in `todo`. A start puts them there in the order of the maps'
  iteration, which is any order: `Orders` and the lemmas on a new table;
* `ThreadInv`: `granted` has every route that grants the request now, `kept` only
  such (`HistoryFits`); the copy says what the route said when it was taken
  (`CopyTaken`); which handler was found (`HandlerFound`), and what a scan of the
  API routes that is under way has passed over (`ScanFits`).

The steps are split into natives, the entry of a handler into a table, start,
stop and the steps of one thread; what a native does to each thread is one lemma
(history follows the maps), and `FirstMatchIs` says of a search that it finds an
entry that matches, or there is none.

`SampCore_proofs` proves, for any scripts, publics, queues, threads and bounds:

| Theorem | Property |
|---|---|
| `TypeCorrect` | `TypeOK` |
| `EventsHeardOnceInOrder` | `HeardOnceInOrder` |

The assumptions say that the queues are listed once each, that of the API calls
first, and that none is named like the two marks the model adds to them
(`QueuesAssumption`), and what a script hears (`HearsAssumption`,
`BoundsAssumption`). The invariant `IInv` follows
an event from the push to its last script:

* `TickShape`: no script is listed twice, also not after an unload in the middle of
  the list, and events are in hand only while the drain calls;
* `AtHome`: an event is in the queue of its kind, in the batch of that queue, or
  with a script that hears that kind;
* `QueuesInOrder`, `HeardBefore`: queues and batch rise, what was taken is older
  than what waits, and what a script heard is older than both, except for the event
  being called when its turn has passed (`Had`). The exception is what rules out
  that a script hears an event twice;
* `BatchAudience`: the batch is for the scripts of the snapshot, those that left
  are excused, and those before `turn` have done with its head;
* `Settled`: an event that no longer waits had an audience and everybody in it has
  heard it, has no public for it, or is excused. A callback that unloads a script
  moves it to the excused ones in the same step.

Beside it `RouteInv` says that the routes registered, and those that pool threads
point to, have old ids, so that an id which is gone is one that was removed; that
gives `LostByRemoval`.

Only model-checked are

* liveness (`HandlersAndStopReturn`, `CallbackRuns`, `RequestsReport`,
  `QueuedUploadsReport`, `UploadsReported`, `EndIsHeard`, `CallsReturn`,
  `EventsAreTaken`), which needs fairness and ENABLED;
* `RoundTrip`: the printer's recursion is over trees, in recursive operators, about
  which the prover cannot reason.

Some definitions of the models have the form they have so that they can be reasoned
about: an unload removes an element (`RemoveAt`) instead of selecting the others, an
upload's outcomes are positions of the queue or a recursive function of its length
instead of a selection, the readers of JSON are functions of positions instead of
recursive operators, and the order in which a start iterates over a map is drawn
for each table.

## Not modelled

* The natives that only convert arguments and call the component
  (`entry_natives.inl`, `entry_samp.cpp`): the calls are the actions.
* The rest of `core_samp.inl`, which repeats `component.inl` line by line; what
  differs is SampCore or named above. Differences without state: no `try` around
  the regular expressions of routes, port 80 as the default of `wss`, an upload
  validated once more at its header, the clock of the uptime; and the clean-up
  of a closed WebSocket is not called from the drain, so its entry stays.
* Upload clients and their headers, which only supply constants of a request.
* The sweep of old temp files at start, `HandleFileInfo` (never reached) and the
  natives that count and name the files of a route: they read the disk.
* The text helpers (`SanitizeFilename`, `ParseUrl`, `ClassifyClientError`), the
  formatting and rounding of numbers in JSON, fractions and exponents.
* CRC-32, TLS, file contents and httplib beyond the server loop and the search
  for a handler are taken as given; so a flush that fails at close, which the
  upload handlers do not notice, is not seen. Tearing of strings under data
  races (`closeReason`) and of vectors is not modelled; racing status fields
  are, as separate reads and writes.

## Plan

Done: ApiRequests with its proofs; JobLifecycle, OutboundRequests and
OutgoingUploads; IncomingUploads; WebSocketClient; Routing; JsonNodes with its
proofs; JsonText, JsonPrinter and the proofs about parser and getters; SampCore; the proofs of
OutboundRequests, OutgoingUploads, WebSocketClient, IncomingUploads, Routing and
SampCore.

1. The lock order of all operations that hold two mutexes (`/stats`, the set-up
   of the API handlers): in the models an action is a whole critical section.
2. *Helpers* as pure operators against reference definitions.
