------------------------------- MODULE Routing -------------------------------
(***************************************************************************)
(* Who answers a request.  A route lives in two places: the maps `routes`  *)
(* and `apiRoutes`, which the natives of the script change under a mutex,  *)
(* and httplib's handler tables, which only grow while the server runs and *)
(* are searched for the first match.  A handler keeps the id or nothing of *)
(* its route and looks it up again on every call.                          *)
(*                                                                         *)
(* The main thread runs the natives; each pool thread serves one request   *)
(* at a time: it finds a handler, takes a copy of the route under the      *)
(* lock, and decides with that copy.  What an upload does to the directory *)
(* is in IncomingUploads, the life of an API call after it was matched in  *)
(* ApiRequests.                                                            *)
(***************************************************************************)
EXTENDS Naturals, Sequences, FiniteSets

CONSTANTS
    Threads,        \* the threads of httplib's pool
    Endpoints,      \* endpoints of file routes
    ApiEndpoints,   \* endpoint patterns of API routes
    Covers,         \* the paths each API pattern matches
    ApiRoutes,      \* the API routes the script may register: method and pattern
    BuiltIns,       \* the paths of /health and /stats
    Keys,           \* authorization keys
    NoKey,          \* a request without a key
    Requests,       \* the requests clients may send
    MaxRoutes,      \* bound: file routes ever registered
    MaxApiRoutes,   \* bound: API routes ever registered
    MaxStarts,      \* bound: starts of the server
    MaxSettings     \* bound: calls that change a registered route's settings

\* A path is an endpoint and what follows it: nothing, "/files", a file in
\* it, or the "/info" of that file.
Subs       == {"upload", "files", "file", "info"}
Methods    == {"GET", "HEAD", "POST", "DELETE"}
Operations == {"list", "download", "info", "delete"}
RouteIds   == 1 .. MaxRoutes
ApiIds     == 1 .. MaxApiRoutes
NoId       == 0

ASSUME CoversAssumption ==
    DOMAIN Covers = ApiEndpoints /\ ApiRoutes \subseteq Methods \X ApiEndpoints
ASSUME RequestsAssumption ==
    \A r \in Requests :
        /\ r.method \in Methods /\ r.key \in Keys \cup {NoKey}
        /\ r.path = <<r.path[1], r.path[2]>> /\ r.path[2] \in Subs
ASSUME BoundsAssumption ==
    /\ MaxRoutes \in Nat /\ MaxApiRoutes \in Nat
    /\ MaxStarts \in Nat /\ MaxSettings \in Nat

VARIABLES
    \* the maps, owned by the component
    routes,         \* file routes by id; `registered` is presence in the map
    apiRoutes,      \* API routes by id, likewise
    nextRouteId,
    nextApiRouteId,
    \* httplib's tables
    isRunning,
    readers,        \* POST handlers that read the body themselves
    handlers,       \* the other handlers, by table
    \* the main thread
    todo,           \* handlers a registration has still to add
    starts, settings,
    \* the pool threads
    pc, request,
    handler,        \* the handler found
    copy, apiCopy,  \* the copy of the route taken under the lock
    answer,         \* what the client gets
    via,            \* the id of the route that decided the answer
    \* history, for the properties
    granted,        \* routes that granted the request at some time since it came
    kept,           \* routes that have done so ever since it came
    retired         \* endpoints that lost a route since the server started

routeVars   == <<routes, nextRouteId>>
apiVars     == <<apiRoutes, nextApiRouteId>>
serverVars  == <<isRunning, readers, handlers, todo, starts>>
threadVars  == <<pc, request, handler, copy, apiCopy, answer, via>>
historyVars == <<granted, kept, retired>>
vars == <<routeVars, apiVars, serverVars, settings, threadVars, historyVars>>

UploadRoute == [registered : BOOLEAN, endpoint : Endpoints \cup {"none"},
                allow : SUBSET Operations, keys : SUBSET Keys]
APIRoute    == [registered : BOOLEAN, method : Methods,
                endpoint : ApiEndpoints \cup {"none"}, keys : SUBSET Keys]
NoUploadRoute == [registered |-> FALSE, endpoint |-> "none", allow |-> {}, keys |-> {}]
NoAPIRoute    == [registered |-> FALSE, method |-> "GET", endpoint |-> "none", keys |-> {}]

Kinds    == {"upload", "list", "download", "info", "delete", "api", "builtin", "none"}
Handlers == [kind : Kinds, id : Nat, endpoint : Endpoints \cup ApiEndpoints \cup {"none"}]
NoHandler == [kind |-> "none", id |-> NoId, endpoint |-> "none"]
NoRequest == [method |-> "GET", path |-> <<"none", "upload">>, key |-> NoKey]
Tables   == {"get", "post", "delete"}
Answers  == {"pending", "no handler", "route not found", "endpoint not found", "forbidden",
             "unauthorized", "served", "failed", "callback", "built in", "empty"}

-----------------------------------------------------------------------------
(* The handlers a route needs and the requests they match.                 *)

TableOf(method) ==
    CASE method \in {"GET", "HEAD"} -> "get" [] method = "POST" -> "post"
      [] method = "DELETE" -> "delete"

Handler(kind, id, endpoint) == [kind |-> kind, id |-> id, endpoint |-> endpoint]

\* The pattern of the download, "/files/(.+)", also matches the path of the
\* information about a file.
Matches(h, path) ==
    CASE h.kind = "upload"   -> path = <<h.endpoint, "upload">>
      [] h.kind = "list"     -> path = <<h.endpoint, "files">>
      [] h.kind = "download" -> path \in {<<h.endpoint, "file">>, <<h.endpoint, "info">>}
      [] h.kind = "info"     -> path = <<h.endpoint, "info">>
      [] h.kind = "delete"   -> path \in {<<h.endpoint, "file">>, <<h.endpoint, "info">>}
      [] h.kind = "api"      -> path \in Covers[h.endpoint]
      [] h.kind = "builtin"  -> path \in BuiltIns

MatchingIn(table, path) == {i \in 1 .. Len(table) : Matches(table[i], path)}

\* The first handler of a table that matches.
FirstMatch(table, path) ==
    LET ms == MatchingIn(table, path) IN
    IF ms = {} THEN NoHandler
    ELSE table[CHOOSE i \in ms : \A k \in ms : i <= k]

\* What RegisterRoute adds for a file route: the upload, then the
\* operations on its files, in this order.
UploadHandler(id, endpoint) == [in |-> "readers", h |-> Handler("upload", id, endpoint)]
RegisterFileOpsForRoute(id, endpoint) ==
    << [in |-> "get",    h |-> Handler("list", id, endpoint)],
       [in |-> "get",    h |-> Handler("download", id, endpoint)],
       [in |-> "get",    h |-> Handler("info", id, endpoint)],
       [in |-> "delete", h |-> Handler("delete", id, endpoint)] >>
ApiHandler(route) == [in |-> TableOf(route.method), h |-> Handler("api", NoId, route.endpoint)]

-----------------------------------------------------------------------------
(* What a route grants a request.                                          *)

\* CheckFileRouteAuth and CheckApiAuth: a route without keys is open.
KeyFits(keys, key) == keys = {} \/ key \in keys

\* The operation on a file route that a request asks for.
Asks(r) ==
    CASE r.method = "POST" /\ r.path[2] = "upload"            -> "upload"
      [] r.method \in {"GET", "HEAD"} /\ r.path[2] = "files"  -> "list"
      [] r.method \in {"GET", "HEAD"} /\ r.path[2] = "file"   -> "download"
      [] r.method \in {"GET", "HEAD"} /\ r.path[2] = "info"   -> "info"
      [] r.method = "DELETE" /\ r.path[2] \in {"file", "info"} -> "delete"
      [] OTHER                                                -> "nothing"

FileGrants(route, r) ==
    /\ route.registered /\ route.endpoint = r.path[1]
    /\ Asks(r) \in {"upload"} \cup route.allow
    /\ KeyFits(route.keys, r.key)
ApiMatches(route, method, path) ==
    route.registered /\ route.method = method /\ path \in Covers[route.endpoint]
ApiGrants(route, r) ==
    /\ \/ ApiMatches(route, r.method, r.path)
       \/ r.method = "HEAD" /\ ApiMatches(route, "GET", r.path)
    /\ KeyFits(route.keys, r.key)

Entitled(files, apis, r) ==
    {<<"file", i>> : i \in {j \in RouteIds : FileGrants(files[j], r)}}
    \cup {<<"api", i>> : i \in {j \in ApiIds : ApiGrants(apis[j], r)}}

\* The maps as they become, seen by every request that is being served.
\* While a registration adds handlers, nothing is promised.
Waiting(t) == pc[t] \notin {"idle", "done"}
Observe ==
    /\ granted' = [t \in Threads |->
          IF Waiting(t) THEN granted[t] \cup Entitled(routes', apiRoutes', request[t])
                        ELSE granted[t]]
    /\ kept' = [t \in Threads |->
          IF ~Waiting(t) THEN kept[t]
          ELSE IF todo' # <<>> THEN {}
          ELSE kept[t] \cap Entitled(routes', apiRoutes', request[t])]

Init ==
    /\ routes = [i \in RouteIds |-> NoUploadRoute] /\ nextRouteId = 1
    /\ apiRoutes = [i \in ApiIds |-> NoAPIRoute] /\ nextApiRouteId = 1
    /\ isRunning = FALSE /\ readers = <<>> /\ handlers = [k \in Tables |-> <<>>]
    /\ todo = <<>> /\ starts = 0 /\ settings = 0
    /\ pc = [t \in Threads |-> "idle"] /\ request = [t \in Threads |-> NoRequest]
    /\ handler = [t \in Threads |-> NoHandler]
    /\ copy = [t \in Threads |-> NoUploadRoute] /\ apiCopy = [t \in Threads |-> NoAPIRoute]
    /\ answer = [t \in Threads |-> "pending"] /\ via = [t \in Threads |-> NoId]
    /\ granted = [t \in Threads |-> {}] /\ kept = [t \in Threads |-> {}]
    /\ retired = {}

-----------------------------------------------------------------------------
(* The main thread.  A native runs to its end before the next begins.      *)

RegisterWith(endpoint, added) ==
    /\ todo = <<>> /\ nextRouteId \in RouteIds
    /\ routes' = [routes EXCEPT ![nextRouteId] =
          [registered |-> TRUE, endpoint |-> endpoint, allow |-> {}, keys |-> {}]]
    /\ nextRouteId' = nextRouteId + 1
    /\ todo' = IF isRunning THEN added ELSE <<>>
    /\ UNCHANGED <<apiVars, isRunning, readers, handlers, starts, settings, threadVars,
                   retired>>
    /\ Observe

\* Mutant: a route registered while the server runs gets the upload handler
\* only, the operations on its files come with the next start.
RegistersUploadOnly(endpoint) ==
    RegisterWith(endpoint, <<UploadHandler(nextRouteId, endpoint)>>)

\* The map first, the handlers after it and without the lock.
RegisterRoute(endpoint) ==
    RegisterWith(endpoint, <<UploadHandler(nextRouteId, endpoint)>>
                              \o RegisterFileOpsForRoute(nextRouteId, endpoint))

RegisterApiRoute(method, endpoint) ==
    /\ todo = <<>> /\ nextApiRouteId \in ApiIds
    /\ LET route == [registered |-> TRUE, method |-> method, endpoint |-> endpoint,
                     keys |-> {}] IN
       /\ apiRoutes' = [apiRoutes EXCEPT ![nextApiRouteId] = route]
       /\ todo' = IF isRunning THEN <<ApiHandler(route)>> ELSE <<>>
    /\ nextApiRouteId' = nextApiRouteId + 1
    /\ UNCHANGED <<routeVars, isRunning, readers, handlers, starts, settings, threadVars,
                   retired>>
    /\ Observe

\* One push to a table that the pool threads search without a lock.
AddHandler ==
    /\ todo # <<>>
    /\ LET new == Head(todo) IN
       IF new.in = "readers"
       THEN readers' = Append(readers, new.h) /\ UNCHANGED handlers
       ELSE handlers' = [handlers EXCEPT ![new.in] = Append(@, new.h)] /\ UNCHANGED readers
    /\ todo' = Tail(todo)
    /\ UNCHANGED <<routeVars, apiVars, isRunning, starts, settings, threadVars, retired>>
    /\ Observe

\* The handlers stay.
RemoveRoute(id) ==
    /\ todo = <<>> /\ routes[id].registered
    /\ routes' = [routes EXCEPT ![id] = NoUploadRoute]
    /\ retired' = retired \cup {routes[id].endpoint}
    /\ UNCHANGED <<nextRouteId, apiVars, serverVars, settings, threadVars>>
    /\ Observe

RemoveApiRoute(id) ==
    /\ todo = <<>> /\ apiRoutes[id].registered
    /\ apiRoutes' = [apiRoutes EXCEPT ![id] = NoAPIRoute]
    /\ UNCHANGED <<routeVars, nextApiRouteId, serverVars, settings, threadVars, retired>>
    /\ Observe

ChangeRoute(id, route) ==
    /\ todo = <<>> /\ settings < MaxSettings
    /\ routes[id].registered /\ routes' = [routes EXCEPT ![id] = route]
    /\ settings' = settings + 1
    /\ UNCHANGED <<nextRouteId, apiVars, serverVars, threadVars, retired>>
    /\ Observe
SetAllow(id, operation) ==
    \/ ChangeRoute(id, [routes[id] EXCEPT !.allow = @ \cup {operation}])
    \/ ChangeRoute(id, [routes[id] EXCEPT !.allow = @ \ {operation}])
AddKeyToRoute(id, key) ==
    ChangeRoute(id, [routes[id] EXCEPT !.keys = @ \cup {key}])
RemoveKeyFromRoute(id, key) ==
    ChangeRoute(id, [routes[id] EXCEPT !.keys = @ \ {key}])

SetApiRouteAuth(id, key) ==
    /\ todo = <<>> /\ settings < MaxSettings
    /\ apiRoutes[id].registered
    /\ apiRoutes' = [apiRoutes EXCEPT ![id].keys = @ \cup {key}]
    /\ settings' = settings + 1
    /\ UNCHANGED <<routeVars, nextApiRouteId, serverVars, threadVars, retired>>
    /\ Observe

\* A change of gamemode drops the file routes.  The API routes, the handlers
\* and the server stay.
Reset ==
    /\ todo = <<>> /\ settings < MaxSettings
    /\ routes' = [i \in RouteIds |-> NoUploadRoute]
    /\ retired' = retired \cup
          {routes[i].endpoint : i \in {j \in RouteIds : routes[j].registered}}
    /\ settings' = settings + 1
    /\ UNCHANGED <<nextRouteId, apiVars, serverVars, threadVars>>
    /\ Observe

\* The maps are unordered: any order of their ids.
Orders(ids) ==
    {f \in [1 .. Cardinality(ids) -> ids] : \A i \in ids : \E k \in DOMAIN f : f[k] = i}
FileIds == {i \in RouteIds : routes[i].registered}
CallIds(table) ==
    {i \in ApiIds : apiRoutes[i].registered /\ TableOf(apiRoutes[i].method) = table}

\* The handlers of one table for its registered API routes, in an order.
SetupApiHandlers(order) == [k \in DOMAIN order |-> ApiHandler(apiRoutes[order[k]]).h]

\* The operations of the registered file routes, in an order.
SetupFileRouteHandlers(order, table) ==
    IF table = "post" THEN <<>>
    ELSE LET n == IF table = "get" THEN 3 ELSE 1 IN
         [k \in 1 .. n * Len(order) |->
            LET id == order[((k - 1) \div n) + 1] IN
            IF table = "delete" THEN RegisterFileOpsForRoute(id, routes[id].endpoint)[4].h
            ELSE RegisterFileOpsForRoute(id, routes[id].endpoint)[((k - 1) % n) + 1].h]

BuiltInHandlers == [k \in 1 .. 1 |-> Handler("builtin", NoId, "none")]

\* A new server: uploads, API routes, the built-in endpoints, file
\* operations.  When the port is taken, nothing is kept of it.
StartHttpServer ==
    /\ todo = <<>> /\ ~isRunning /\ starts < MaxStarts
    /\ \E order \in Orders(FileIds), gets \in Orders(CallIds("get")),
          posts \in Orders(CallIds("post")), deletes \in Orders(CallIds("delete")) :
          /\ readers' = [k \in DOMAIN order |->
                Handler("upload", order[k], routes[order[k]].endpoint)]
          /\ handlers' = [k \in Tables |->
                SetupApiHandlers([get |-> gets, post |-> posts, delete |-> deletes][k])
                    \o (IF k = "get" THEN BuiltInHandlers ELSE <<>>)
                    \o SetupFileRouteHandlers(order, k)]
    /\ isRunning' = TRUE /\ starts' = starts + 1 /\ retired' = {}
    /\ UNCHANGED <<routeVars, apiVars, todo, settings, threadVars, granted, kept>>

\* It joins the pool, which lets the requests in progress end.
StopHttpServer ==
    /\ todo = <<>> /\ isRunning /\ \A t \in Threads : pc[t] = "idle"
    /\ isRunning' = FALSE /\ readers' = <<>> /\ handlers' = [k \in Tables |-> <<>>]
    /\ UNCHANGED <<routeVars, apiVars, todo, starts, settings, threadVars, historyVars>>

-----------------------------------------------------------------------------
(* A pool thread serves a request.                                         *)

ScriptIdle == UNCHANGED <<routeVars, apiVars, serverVars, settings, retired>>

Arrive(t, r) ==
    /\ isRunning /\ pc[t] = "idle"
    /\ pc' = [pc EXCEPT ![t] = "dispatch"] /\ request' = [request EXCEPT ![t] = r]
    /\ granted' = [granted EXCEPT ![t] = Entitled(routes, apiRoutes, r)]
    /\ kept' = [kept EXCEPT ![t] = IF todo = <<>> THEN Entitled(routes, apiRoutes, r) ELSE {}]
    /\ ScriptIdle /\ UNCHANGED <<handler, copy, apiCopy, answer, via>>

Answer(t, what, id) ==
    /\ answer' = [answer EXCEPT ![t] = what] /\ via' = [via EXCEPT ![t] = id]
    /\ pc' = [pc EXCEPT ![t] = "done"]

\* The handler that httplib finds: for a POST one that reads the body comes
\* first.  A search that overlaps with AddHandler reads a vector that is
\* being moved: short of a crash, it may miss what is there.
Found(r) ==
    LET reader == IF r.method = "POST" THEN FirstMatch(readers, r.path) ELSE NoHandler
        plain  == FirstMatch(handlers[TableOf(r.method)], r.path)
    IN  (IF reader # NoHandler THEN {reader} ELSE {plain})
        \cup (IF todo # <<>> THEN {NoHandler, plain} ELSE {})

Dispatch(t) ==
    /\ pc[t] = "dispatch"
    /\ \E h \in Found(request[t]) :
          /\ handler' = [handler EXCEPT ![t] = h]
          /\ CASE h = NoHandler -> Answer(t, "no handler", NoId)
               [] h.kind = "builtin" -> Answer(t, "built in", NoId)
               [] h.kind = "download" /\ request[t].path[2] = "info" ->
                     Answer(t, "empty", h.id)
               [] h.kind = "api" ->
                     pc' = [pc EXCEPT ![t] = "match"] /\ UNCHANGED <<answer, via>>
               [] OTHER ->
                     pc' = [pc EXCEPT ![t] = "lookup"] /\ UNCHANGED <<answer, via>>
    /\ ScriptIdle /\ UNCHANGED <<request, copy, apiCopy, granted, kept>>

\* The id that the handler keeps is looked up again, and the route copied.
LookUp(t) ==
    /\ pc[t] = "lookup"
    /\ copy' = [copy EXCEPT ![t] = routes[handler[t].id]]
    /\ IF routes[handler[t].id].registered
       THEN pc' = [pc EXCEPT ![t] = "serve"] /\ UNCHANGED <<answer, via>>
       ELSE Answer(t, "route not found", handler[t].id)
    /\ ScriptIdle /\ UNCHANGED <<request, handler, apiCopy, granted, kept>>

CheckFileRouteAuth(t) == KeyFits(copy[t].keys, request[t].key)

\* What follows needs the copy only; the file may be missing.
ServeFile(t, kind, allowed) ==
    /\ pc[t] = "serve" /\ handler[t].kind = kind
    /\ \/ ~allowed /\ Answer(t, "forbidden", handler[t].id)
       \/ allowed /\ ~CheckFileRouteAuth(t) /\ Answer(t, "unauthorized", handler[t].id)
       \/ /\ allowed /\ CheckFileRouteAuth(t)
          /\ \E outcome \in {"served", "failed"} : Answer(t, outcome, handler[t].id)
    /\ ScriptIdle /\ UNCHANGED <<request, handler, copy, apiCopy, granted, kept>>

\* Mutant: the listing is allowed by the permission to download.
ListsIfDownloadable(t) == ServeFile(t, "list", {"list", "download"} \cap copy[t].allow # {})

HandleFileList(t)     == ServeFile(t, "list", "list" \in copy[t].allow)
HandleFileDownload(t) == ServeFile(t, "download", "download" \in copy[t].allow)
HandleFileDelete(t)   == ServeFile(t, "delete", "delete" \in copy[t].allow)
HandleUpload(t)       == ServeFile(t, "upload", TRUE)

\* One scan of the API routes under their lock, for one method; which of
\* several matches it meets first is open.
ScanFinds(t, method) ==
    {i \in ApiIds : ApiMatches(apiRoutes[i], method, request[t].path)}
MatchApiRoute(t, from, method, otherwise) ==
    /\ pc[t] = from
    /\ LET found == ScanFinds(t, method) IN
       \/ \E i \in found :
             /\ apiCopy' = [apiCopy EXCEPT ![t] = apiRoutes[i]]
             /\ via' = [via EXCEPT ![t] = i] /\ pc' = [pc EXCEPT ![t] = "auth"]
             /\ UNCHANGED answer
       \/ /\ found = {} /\ UNCHANGED apiCopy
          /\ IF otherwise = "done"
             THEN Answer(t, "endpoint not found", NoId)
             ELSE pc' = [pc EXCEPT ![t] = otherwise] /\ UNCHANGED <<answer, via>>
    /\ ScriptIdle /\ UNCHANGED <<request, handler, copy, granted, kept>>

\* HandleApiRequest as far as the route decides: a HEAD without a route of
\* its own is given to a GET route, found by a second scan.
HandleApiRequest(t) ==
    \/ MatchApiRoute(t, "match", request[t].method,
                     IF request[t].method = "HEAD" THEN "matchGet" ELSE "done")
    \/ MatchApiRoute(t, "matchGet", "GET", "done")

CheckApiAuth(t) ==
    /\ pc[t] = "auth"
    /\ IF KeyFits(apiCopy[t].keys, request[t].key)
       THEN Answer(t, "callback", via[t]) ELSE Answer(t, "unauthorized", via[t])
    /\ ScriptIdle /\ UNCHANGED <<request, handler, copy, apiCopy, granted, kept>>

\* The answer is sent and the thread takes the next connection.
Finish(t) ==
    /\ pc[t] = "done"
    /\ pc' = [pc EXCEPT ![t] = "idle"] /\ request' = [request EXCEPT ![t] = NoRequest]
    /\ handler' = [handler EXCEPT ![t] = NoHandler]
    /\ copy' = [copy EXCEPT ![t] = NoUploadRoute] /\ apiCopy' = [apiCopy EXCEPT ![t] = NoAPIRoute]
    /\ answer' = [answer EXCEPT ![t] = "pending"] /\ via' = [via EXCEPT ![t] = NoId]
    /\ granted' = [granted EXCEPT ![t] = {}] /\ kept' = [kept EXCEPT ![t] = {}]
    /\ ScriptIdle

Script ==
    \/ \E e \in Endpoints : RegisterRoute(e)
    \/ \E a \in ApiRoutes : RegisterApiRoute(a[1], a[2])
    \/ AddHandler
    \/ \E i \in RouteIds : RemoveRoute(i)
    \/ \E i \in ApiIds : RemoveApiRoute(i)
    \/ \E i \in RouteIds, o \in Operations : SetAllow(i, o)
    \/ \E i \in RouteIds, k \in Keys : AddKeyToRoute(i, k) \/ RemoveKeyFromRoute(i, k)
    \/ \E i \in ApiIds, k \in Keys : SetApiRouteAuth(i, k)
    \/ Reset
    \/ StartHttpServer \/ StopHttpServer

Serve(t) ==
    \/ \E r \in Requests : Arrive(t, r)
    \/ Dispatch(t) \/ LookUp(t)
    \/ HandleUpload(t) \/ HandleFileList(t) \/ HandleFileDownload(t) \/ HandleFileDelete(t)
    \/ HandleApiRequest(t) \/ CheckApiAuth(t)
    \/ Finish(t)

Next == Script \/ \E t \in Threads : Serve(t)
Spec == Init /\ [][Next]_vars

-----------------------------------------------------------------------------
(* Properties.                                                             *)

\* The values the maps, the handler tables and the threads may take.
TypeOK ==
    /\ routes \in [RouteIds -> UploadRoute] /\ nextRouteId \in 1 .. MaxRoutes + 1
    /\ apiRoutes \in [ApiIds -> APIRoute] /\ nextApiRouteId \in 1 .. MaxApiRoutes + 1
    /\ isRunning \in BOOLEAN
    /\ readers \in Seq(Handlers) /\ handlers \in [Tables -> Seq(Handlers)]
    /\ todo \in Seq([in : Tables \cup {"readers"}, h : Handlers])
    /\ starts \in 0 .. MaxStarts /\ settings \in 0 .. MaxSettings
    /\ pc \in [Threads -> {"idle", "dispatch", "lookup", "serve", "match", "matchGet",
                           "auth", "done"}]
    /\ request \in [Threads -> Requests \cup {NoRequest}]
    /\ handler \in [Threads -> Handlers]
    /\ copy \in [Threads -> UploadRoute] /\ apiCopy \in [Threads -> APIRoute]
    /\ answer \in [Threads -> Answers] /\ via \in [Threads -> Nat]
    /\ granted \in [Threads -> SUBSET ({"file", "api"} \X Nat)]
    /\ kept \in [Threads -> SUBSET ({"file", "api"} \X Nat)]
    /\ retired \subseteq Endpoints \cup {"none"}

\* What is done for a client was granted to it: an upload, a listing, a
\* download or a deletion that a route performed, and a callback, come from
\* a route that, at one time while the request was served, was registered
\* for this path and method, allowed the operation and took the key.  The
\* script may remove the route, its keys and its permissions in between.
Did(t) == <<IF answer[t] = "callback" THEN "api" ELSE "file", via[t]>>
DoneWasGranted ==
    \A t \in Threads :
        answer[t] \in {"served", "failed", "callback"} => Did(t) \in granted[t]

\* A request that a route grants all the while it is served, and that no
\* registration overlaps with, is refused only when something else sits on
\* its path.  A file request: an API route that matches the path as well,
\* or another route of the same endpoint, whose handlers were there before;
\* and when that one is not found, the endpoint has lost a route since the
\* server started.  An API request: a file route, or another API route with
\* other keys that the scan met first.
Refused(t)    == answer[t] \in {"no handler", "route not found", "endpoint not found",
                                "forbidden", "unauthorized"}
ApiOnPath(path)  == \E e \in ApiEndpoints : path \in Covers[e]
FileOnPath(path) == path[1] \in Endpoints
RefusalsExplained ==
    \A t \in Threads :
        Refused(t) =>
            /\ \A i \in RouteIds : <<"file", i>> \in kept[t] =>
                  \/ ApiOnPath(request[t].path)
                  \/ /\ via[t] \notin {i, NoId}
                     /\ answer[t] = "route not found" => request[t].path[1] \in retired
            /\ \A i \in ApiIds : <<"api", i>> \in kept[t] =>
                  \/ FileOnPath(request[t].path)
                  \/ answer[t] = "unauthorized" /\ via[t] # i

\* PawnREST.inc:148, a registered route is served: a request that a file
\* route grants all the while is not refused.
GrantedIsServed ==
    \A t \in Threads : Refused(t) => \A i \in RouteIds : <<"file", i>> \notin kept[t]
=============================================================================
