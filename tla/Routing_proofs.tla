--------------------------- MODULE Routing_proofs ---------------------------
(***************************************************************************)
(* Proofs about Routing for any routes, patterns, keys, requests, threads  *)
(* and bounds: type correctness, and an inductive invariant IInv from      *)
(* which it follows that what is done for a client was granted to it, and  *)
(* that a refusal has one of the known reasons.                            *)
(***************************************************************************)
EXTENDS Routing, FiniteSetTheorems, SequenceTheorems, WellFoundedInduction, TLAPS

-----------------------------------------------------------------------------
(* The inductive invariant: the maps and the tables.                       *)

FileKinds == {"upload", "list", "download", "info", "delete"}
HomeOf(kind) ==
    IF kind = "upload" THEN "readers" ELSE IF kind = "delete" THEN "delete" ELSE "get"

\* Ids are given out in order and never again.
RoutesFit ==
    /\ \A i \in RouteIds :
          routes[i].registered => i < nextRouteId /\ routes[i].endpoint \in Endpoints
    /\ \A i \in ApiIds :
          apiRoutes[i].registered => i < nextApiRouteId /\ apiRoutes[i].endpoint \in ApiEndpoints

\* A handler of a file route names the endpoint of its route, or one that
\* has lost a route since the server started.
HandlerFits(where, h) ==
    \/ /\ h.kind \in FileKinds /\ where = HomeOf(h.kind)
       /\ h.id \in RouteIds /\ h.id < nextRouteId /\ h.endpoint \in Endpoints
       /\ IF routes[h.id].registered THEN routes[h.id].endpoint = h.endpoint
                                     ELSE h.endpoint \in retired
    \/ h.kind = "api" /\ where \in Tables /\ h.endpoint \in ApiEndpoints
    \/ h.kind = "builtin" /\ where = "get"
TablesFit ==
    /\ \A k \in DOMAIN readers : HandlerFits("readers", readers[k])
    /\ \A where \in Tables : \A k \in DOMAIN handlers[where] :
          HandlerFits(where, handlers[where][k])
    /\ \A k \in DOMAIN todo : HandlerFits(todo[k].in, todo[k].h)
    /\ ~isRunning => todo = <<>> /\ readers = <<>> /\ \A where \in Tables : handlers[where] = <<>>

\* While the server runs, a registered route has its handlers, except for
\* those that its registration has still to add.
InPlace(where, kind, endpoint) ==
    \/ \E k \in DOMAIN todo :
          todo[k].in = where /\ todo[k].h.kind = kind /\ todo[k].h.endpoint = endpoint
    \/ where = "readers" /\ \E k \in DOMAIN readers :
          readers[k].kind = kind /\ readers[k].endpoint = endpoint
    \/ where \in Tables /\ \E k \in DOMAIN handlers[where] :
          handlers[where][k].kind = kind /\ handlers[where][k].endpoint = endpoint
TablesComplete ==
    isRunning =>
       /\ \A i \in RouteIds : routes[i].registered =>
             \A kind \in FileKinds : InPlace(HomeOf(kind), kind, routes[i].endpoint)
       /\ \A i \in ApiIds : apiRoutes[i].registered =>
             InPlace(TableOf(apiRoutes[i].method), "api", apiRoutes[i].endpoint)

-----------------------------------------------------------------------------
(* The inductive invariant: a thread and its request.                      *)

\* The history follows the maps while the request is served.
HistoryFits(t) ==
    Waiting(t) =>
       /\ Entitled(routes, apiRoutes, request[t]) \subseteq granted[t]
       /\ kept[t] \subseteq Entitled(routes, apiRoutes, request[t])
       /\ kept[t] # {} => todo = <<>>

\* The handler of a file route is the one for what the request asks.
HandlerFound(t) ==
    pc[t] \in {"lookup", "serve"} =>
       /\ handler[t].kind \in FileKinds /\ HandlerFits(HomeOf(handler[t].kind), handler[t])
       /\ handler[t].kind = Asks(request[t]) /\ handler[t].endpoint = request[t].path[1]

\* The copy says what the route said: what it grants was granted, and a
\* route that has granted the request ever since did so when it was copied.
CopyTaken(t) ==
    pc[t] = "serve" =>
       /\ copy[t].registered /\ copy[t].endpoint = handler[t].endpoint
       /\ FileGrants(copy[t], request[t]) => <<"file", handler[t].id>> \in granted[t]
       /\ <<"file", handler[t].id>> \in kept[t] => FileGrants(copy[t], request[t])

\* A scan is for an API pattern on the path; the second one comes when no
\* route has the method HEAD.
ScanFits(t) ==
    /\ pc[t] \in {"match", "matchGet", "auth"} => ApiOnPath(request[t].path)
    /\ pc[t] = "matchGet" =>
          /\ request[t].method = "HEAD"
          /\ \A i \in ApiIds : <<"api", i>> \in kept[t] => apiRoutes[i].method # "HEAD"
    /\ pc[t] = "auth" =>
          LET fits == KeyFits(apiCopy[t].keys, request[t].key) IN
          /\ via[t] \in ApiIds
          /\ fits => <<"api", via[t]>> \in granted[t]
          /\ <<"api", via[t]>> \in kept[t] => fits

\* What the properties say of one thread.
Granted(t) == answer[t] \in {"served", "failed", "callback"} => Did(t) \in granted[t]
Explained(t) ==
    Refused(t) =>
       /\ \A i \in RouteIds : <<"file", i>> \in kept[t] =>
             \/ ApiOnPath(request[t].path)
             \/ /\ via[t] \notin {i, NoId}
                /\ answer[t] = "route not found" => request[t].path[1] \in retired
       /\ \A i \in ApiIds : <<"api", i>> \in kept[t] =>
             \/ FileOnPath(request[t].path)
             \/ answer[t] = "unauthorized" /\ via[t] # i

ThreadInv(t) ==
    /\ pc[t] # "idle" => isRunning /\ request[t] \in Requests
    /\ pc[t] # "done" => answer[t] = "pending"
    /\ HistoryFits(t) /\ HandlerFound(t) /\ CopyTaken(t) /\ ScanFits(t)
    /\ Granted(t) /\ Explained(t)

IInv ==
    /\ TypeOK /\ RoutesFit /\ TablesFit /\ TablesComplete
    /\ \A t \in Threads : ThreadInv(t)

-----------------------------------------------------------------------------
(* Operators.                                                              *)

Marks == {"file", "api"} \X Nat
Entry == [in : Tables \cup {"readers"}, h : Handlers]

\* A set of natural numbers that is not empty has a least one.
LEMMA LeastOf ==
  ASSUME NEW T \in SUBSET Nat, T # {}
  PROVE  \E n \in T : \A k \in T : n <= k
<1> DEFINE R == OpToRel(<, Nat)
<1>1. \A m, n \in Nat : <<m, n>> \in R <=> m < n
  BY DEF OpToRel
<1>2. \E n \in T : \A k \in T : ~(<<k, n>> \in R)
  BY NatLessThanWellFounded, WFMin
<1> HIDE DEF R
<1>3. PICK n \in T : \A k \in T : ~(<<k, n>> \in R)
  BY <1>2
<1>4. \A k \in T : k \in Nat /\ n \in Nat /\ ~(k < n)
  BY <1>1, <1>3
<1>5. \A k \in T : n <= k
  BY <1>4
<1>6. QED
  BY <1>5

\* The search gives an element of the table that matches, if there is one.
LEMMA FirstMatchIs ==
  ASSUME NEW S, NEW table \in Seq(S), NEW path
  PROVE  \/ FirstMatch(table, path) = NoHandler /\ MatchingIn(table, path) = {}
         \/ \E i \in DOMAIN table :
               FirstMatch(table, path) = table[i] /\ Matches(table[i], path)
<1> DEFINE ms == MatchingIn(table, path)
<1>1. ms \in SUBSET Nat
  BY DEF MatchingIn
<1>2. CASE ms = {}
  BY <1>2 DEF FirstMatch
<1>3. CASE ms # {}
  <2> DEFINE n == CHOOSE i \in ms : \A k \in ms : i <= k
  <2>1. \E i \in ms : \A k \in ms : i <= k
    BY <1>1, <1>3, LeastOf
  <2>2. n \in ms
    BY <2>1
  <2>3. FirstMatch(table, path) = table[n]
    BY <1>3 DEF FirstMatch
  <2> HIDE DEF n
  <2>4. n \in DOMAIN table /\ Matches(table[n], path)
    BY <2>2 DEF MatchingIn
  <2>5. QED
    BY <2>3, <2>4
<1>4. QED
  BY <1>2, <1>3

\* GET and HEAD share a table.
LEMMA TableOfMethod ==
    /\ TableOf("GET") = "get" /\ TableOf("HEAD") = "get"
    /\ TableOf("POST") = "post" /\ TableOf("DELETE") = "delete"
    /\ \A method \in Methods : TableOf(method) \in Tables
BY DEF TableOf, Methods, Tables

\* What Handler builds is a handler.
LEMMA HandlerType ==
  ASSUME NEW kind \in Kinds, NEW id \in Nat,
         NEW endpoint \in Endpoints \cup ApiEndpoints \cup {"none"}
  PROVE  Handler(kind, id, endpoint) \in Handlers
BY DEF Handler, Handlers

\* The five entries of a file route, by kind.
LEMMA FileEntries ==
  ASSUME NEW id \in RouteIds, NEW endpoint \in Endpoints
  PROVE  LET added == <<UploadHandler(id, endpoint)>> \o RegisterFileOpsForRoute(id, endpoint) IN
         /\ added \in Seq(Entry) /\ DOMAIN added = 1 .. 5
         /\ added[1] = [in |-> "readers", h |-> Handler("upload", id, endpoint)]
         /\ added[2] = [in |-> "get", h |-> Handler("list", id, endpoint)]
         /\ added[3] = [in |-> "get", h |-> Handler("download", id, endpoint)]
         /\ added[4] = [in |-> "get", h |-> Handler("info", id, endpoint)]
         /\ added[5] = [in |-> "delete", h |-> Handler("delete", id, endpoint)]
<1>1. /\ id \in Nat /\ endpoint \in Endpoints \cup ApiEndpoints \cup {"none"}
      /\ {"upload", "list", "download", "info", "delete"} \subseteq Kinds
  BY DEF RouteIds, Kinds
<1> DEFINE En(where, kind) == [in |-> where, h |-> Handler(kind, id, endpoint)]
<1>2. /\ En("readers", "upload") \in Entry /\ En("get", "list") \in Entry
      /\ En("get", "download") \in Entry /\ En("get", "info") \in Entry
      /\ En("delete", "delete") \in Entry
  BY <1>1, HandlerType DEF Entry, Tables
<1>3. /\ UploadHandler(id, endpoint) = En("readers", "upload")
      /\ RegisterFileOpsForRoute(id, endpoint) =
            <<En("get", "list"), En("get", "download"), En("get", "info"), En("delete", "delete")>>
  BY DEF UploadHandler, RegisterFileOpsForRoute
<1> HIDE DEF En
<1>4. \A a, b, c, d, e \in Entry :
         LET s == <<a>> \o <<b, c, d, e>> IN
         /\ s \in Seq(Entry) /\ DOMAIN s = 1 .. 5
         /\ s[1] = a /\ s[2] = b /\ s[3] = c /\ s[4] = d /\ s[5] = e
  OBVIOUS
<1>5. QED
  BY <1>2, <1>3, <1>4 DEF En

\* The one entry of an API route.
LEMMA ApiEntry ==
  ASSUME NEW method \in Methods, NEW endpoint \in ApiEndpoints, NEW keys, NEW reg
  PROVE  LET route == [registered |-> reg, method |-> method, endpoint |-> endpoint,
                       keys |-> keys] IN
         /\ ApiHandler(route) = [in |-> TableOf(method), h |-> Handler("api", NoId, endpoint)]
         /\ ApiHandler(route) \in Entry
<1>1. Handler("api", NoId, endpoint) \in Handlers
  BY HandlerType DEF Kinds, NoId
<1>2. QED
  BY <1>1, TableOfMethod DEF ApiHandler, Entry

\* What an order is: a list of the ids, each of them somewhere.
LEMMA OrderIs ==
  ASSUME NEW n \in Nat, NEW ids \in SUBSET (1 .. n), NEW order \in Orders(ids)
  PROVE  /\ order \in Seq(ids) /\ Len(order) \in Nat /\ DOMAIN order = 1 .. Len(order)
         /\ \A i \in ids : \E k \in DOMAIN order : order[k] = i
<1>1. IsFiniteSet(ids)
  <2>1. IsFiniteSet(1 .. n)
    BY FS_Interval
  <2>2. QED
    BY <2>1, FS_Subset
<1>2. Cardinality(ids) \in Nat
  BY <1>1, FS_CardinalityType
<1>3. order \in [1 .. Cardinality(ids) -> ids]
  BY DEF Orders
<1>4. order \in Seq(ids)
  BY <1>2, <1>3
<1>5. QED
  BY <1>3, <1>4 DEF Orders

\* Entitled gives marks.
LEMMA EntitledType ==
  ASSUME NEW files, NEW apis, NEW r
  PROVE  Entitled(files, apis, r) \subseteq Marks
BY DEF Entitled, Marks, RouteIds, ApiIds

\* The history after a native.
LEMMA ObserveType ==
  ASSUME TypeOK, Observe
  PROVE  granted' \in [Threads -> SUBSET Marks] /\ kept' \in [Threads -> SUBSET Marks]
<1>1. \A t \in Threads : granted[t] \subseteq Marks /\ kept[t] \subseteq Marks
  BY DEF TypeOK, Marks
<1>2. \A t \in Threads : Entitled(routes', apiRoutes', request[t]) \subseteq Marks
  BY EntitledType
<1>3. QED
  BY <1>1, <1>2 DEF Observe

\* A file route with other permissions or other keys is a file route.
LEMMA RouteEdits ==
  ASSUME NEW r \in UploadRoute
  PROVE  /\ \A x \in SUBSET Operations : [r EXCEPT !.allow = x] \in UploadRoute
         /\ \A x \in SUBSET Keys : [r EXCEPT !.keys = x] \in UploadRoute
<1>1. \A A, B, C, D : \A q \in [registered : A, endpoint : B, allow : C, keys : D] :
         /\ \A x \in C : [q EXCEPT !.allow = x] \in [registered : A, endpoint : B, allow : C, keys : D]
         /\ \A x \in D : [q EXCEPT !.keys = x] \in [registered : A, endpoint : B, allow : C, keys : D]
  OBVIOUS
<1>2. QED
  BY <1>1 DEF UploadRoute

\* So is an API route with other keys.
LEMMA ApiEdits ==
  ASSUME NEW r \in APIRoute
  PROVE  \A x \in SUBSET Keys : [r EXCEPT !.keys = x] \in APIRoute
<1>1. \A A, B, C, D : \A q \in [registered : A, method : B, endpoint : C, keys : D] :
         \A x \in D : [q EXCEPT !.keys = x] \in [registered : A, method : B, endpoint : C, keys : D]
  OBVIOUS
<1>2. QED
  BY <1>1 DEF APIRoute

\* The absent route and the absent handler have their types.
LEMMA NoRoutesType ==
    /\ NoUploadRoute \in UploadRoute /\ NoAPIRoute \in APIRoute /\ NoHandler \in Handlers
BY DEF NoUploadRoute, UploadRoute, NoAPIRoute, APIRoute, NoHandler, Handlers, Methods, Kinds, NoId

-----------------------------------------------------------------------------
(* Type correctness.                                                       *)

\* The initial state has the types.
LEMMA InitType == Init => TypeOK
<1> SUFFICES ASSUME Init PROVE TypeOK
  OBVIOUS
<1>1. /\ routes \in [RouteIds -> UploadRoute] /\ nextRouteId \in 1 .. MaxRoutes + 1
      /\ apiRoutes \in [ApiIds -> APIRoute] /\ nextApiRouteId \in 1 .. MaxApiRoutes + 1
  BY NoRoutesType, BoundsAssumption DEF Init
<1>2. isRunning \in BOOLEAN
  BY Zenon DEF Init
<1>3. /\ readers \in Seq(Handlers)
      /\ todo \in Seq([in : Tables \cup {"readers"}, h : Handlers])
      /\ starts \in 0 .. MaxStarts /\ settings \in 0 .. MaxSettings
  BY BoundsAssumption DEF Init
<1>4. handlers \in [Tables -> Seq(Handlers)]
  <2>1. <<>> \in Seq(Handlers)
    OBVIOUS
  <2>2. QED
    BY <2>1 DEF Init
<1>5. /\ pc \in [Threads -> {"idle", "dispatch", "lookup", "serve", "match", "matchGet",
                             "auth", "done"}]
      /\ request \in [Threads -> Requests \cup {NoRequest}]
      /\ answer \in [Threads -> Answers] /\ via \in [Threads -> Nat]
  BY DEF Init, Answers, NoId
<1>6. /\ handler \in [Threads -> Handlers] /\ copy \in [Threads -> UploadRoute]
      /\ apiCopy \in [Threads -> APIRoute]
  BY NoRoutesType DEF Init
<1>7. /\ granted \in [Threads -> SUBSET ({"file", "api"} \X Nat)]
      /\ kept \in [Threads -> SUBSET ({"file", "api"} \X Nat)]
      /\ retired \subseteq Endpoints \cup {"none"}
  BY DEF Init
<1>8. QED
  BY <1>1, <1>2, <1>3, <1>4, <1>5, <1>6, <1>7 DEF TypeOK

\* The parts of TypeOK that the natives and the threads change.
MapTypes ==
    /\ routes \in [RouteIds -> UploadRoute] /\ nextRouteId \in 1 .. MaxRoutes + 1
    /\ apiRoutes \in [ApiIds -> APIRoute] /\ nextApiRouteId \in 1 .. MaxApiRoutes + 1
    /\ settings \in 0 .. MaxSettings /\ retired \subseteq Endpoints \cup {"none"}
ServerTypes ==
    /\ isRunning \in BOOLEAN /\ readers \in Seq(Handlers)
    /\ handlers \in [Tables -> Seq(Handlers)] /\ todo \in Seq(Entry)
    /\ starts \in 0 .. MaxStarts
ThreadTypes ==
    /\ pc \in [Threads -> {"idle", "dispatch", "lookup", "serve", "match", "matchGet",
                           "auth", "done"}]
    /\ request \in [Threads -> Requests \cup {NoRequest}]
    /\ handler \in [Threads -> Handlers]
    /\ copy \in [Threads -> UploadRoute] /\ apiCopy \in [Threads -> APIRoute]
    /\ answer \in [Threads -> Answers] /\ via \in [Threads -> Nat]
HistoryTypes ==
    granted \in [Threads -> SUBSET Marks] /\ kept \in [Threads -> SUBSET Marks]

\* TypeOK in parts, now and in the next state.
LEMMA TypeParts == TypeOK <=> MapTypes /\ ServerTypes /\ ThreadTypes /\ HistoryTypes
BY DEF TypeOK, MapTypes, ServerTypes, ThreadTypes, HistoryTypes, Marks, Entry

\* The same for the next state.
LEMMA TypePartsNext ==
    TypeOK' <=> MapTypes' /\ ServerTypes' /\ ThreadTypes' /\ HistoryTypes'
BY DEF TypeOK, MapTypes, ServerTypes, ThreadTypes, HistoryTypes, Marks, Entry

\* What is in a concatenation of three.
LEMMA ThreeParts ==
  ASSUME NEW S, NEW a \in Seq(S), NEW b \in Seq(S), NEW c \in Seq(S)
  PROVE  /\ a \o b \o c \in Seq(S)
         /\ Range(a \o b \o c) = Range(a) \cup Range(b) \cup Range(c)
<1>1. a \o b \in Seq(S) /\ Range(a \o b) = Range(a) \cup Range(b)
  BY ConcatProperties, RangeConcatenation
<1>2. PICK ab : ab = a \o b
  OBVIOUS
<1>3. ab \o c \in Seq(S) /\ Range(ab \o c) = Range(ab) \cup Range(c)
  <2>1. ab \in Seq(S)
    BY <1>1, <1>2
  <2>2. ab \o c \in Seq(S)
    BY <2>1, ConcatProperties
  <2>3. Range(ab \o c) = Range(ab) \cup Range(c)
    BY <2>1, RangeConcatenation
  <2>4. QED
    BY <2>2, <2>3
<1>4. QED
  BY <1>1, <1>2, <1>3

\* The API handlers of a new table: one for each of its routes.
LEMMA SetupApiIs ==
  ASSUME TypeOK, NEW where \in Tables, NEW order \in Orders(CallIds(where))
  PROVE  LET s == SetupApiHandlers(order) IN
         /\ s \in Seq(Handlers)
         /\ \A k \in DOMAIN s : s[k].kind = "api" /\ \E i \in CallIds(where) :
               s[k].endpoint = apiRoutes[i].endpoint
         /\ \A i \in CallIds(where) : \E k \in DOMAIN s :
               s[k].kind = "api" /\ s[k].endpoint = apiRoutes[i].endpoint
<1>1. CallIds(where) \in SUBSET (1 .. MaxApiRoutes)
  BY DEF CallIds, ApiIds
<1>2. /\ order \in Seq(CallIds(where)) /\ Len(order) \in Nat /\ DOMAIN order = 1 .. Len(order)
      /\ \A i \in CallIds(where) : \E k \in DOMAIN order : order[k] = i
  BY <1>1, BoundsAssumption, OrderIs
<1>3. /\ \A k \in DOMAIN order : order[k] \in CallIds(where)
      /\ \A i \in CallIds(where) : i \in ApiIds
  BY <1>1, <1>2 DEF ApiIds
<1>4. ASSUME NEW i \in ApiIds
      PROVE  ApiHandler(apiRoutes[i]).h = Handler("api", NoId, apiRoutes[i].endpoint)
  BY DEF ApiHandler
<1>5. ASSUME NEW i \in ApiIds
      PROVE  Handler("api", NoId, apiRoutes[i].endpoint) \in Handlers
  <2>1. apiRoutes[i].endpoint \in Endpoints \cup ApiEndpoints \cup {"none"}
    BY DEF TypeOK, APIRoute
  <2>2. QED
    BY <2>1, HandlerType DEF Kinds, NoId
<1> DEFINE s == SetupApiHandlers(order)
<1>6. /\ DOMAIN s = 1 .. Len(order)
      /\ \A k \in DOMAIN s : s[k] = Handler("api", NoId, apiRoutes[order[k]].endpoint)
  BY <1>2, <1>3, <1>4 DEF SetupApiHandlers
<1> HIDE DEF s
<1>7. s \in Seq(Handlers)
  <2>1. s \in [1 .. Len(order) -> Handlers]
    <3>1. s = [k \in DOMAIN order |-> ApiHandler(apiRoutes[order[k]]).h]
      BY DEF s, SetupApiHandlers
    <3>2. \A k \in 1 .. Len(order) : s[k] \in Handlers
      BY <1>2, <1>3, <1>5, <1>6
    <3>3. QED
      BY <1>2, <3>1, <3>2
  <2>2. QED
    BY <1>2, <2>1
<1>8. \A k \in DOMAIN s : s[k].kind = "api" /\ s[k].endpoint = apiRoutes[order[k]].endpoint
  BY <1>6 DEF Handler
<1>9. QED
  BY <1>2, <1>3, <1>6, <1>7, <1>8 DEF s

\* The handlers for the files of the routes in a new table.
LEMMA SetupFileIs ==
  ASSUME TypeOK, NEW where \in Tables, NEW order \in Orders(FileIds)
  PROVE  LET s == SetupFileRouteHandlers(order, where) IN
         /\ s \in Seq(Handlers)
         /\ \A k \in DOMAIN s : \E i \in FileIds :
               /\ s[k].kind \in FileKinds /\ HomeOf(s[k].kind) = where
               /\ s[k].id = i /\ s[k].endpoint = routes[i].endpoint
         /\ \A i \in FileIds, kind \in FileKinds : HomeOf(kind) = where =>
               \E k \in DOMAIN s : s[k].kind = kind /\ s[k].endpoint = routes[i].endpoint
<1>1. FileIds \in SUBSET (1 .. MaxRoutes)
  BY DEF FileIds, RouteIds
<1>2. /\ order \in Seq(FileIds) /\ Len(order) \in Nat /\ DOMAIN order = 1 .. Len(order)
      /\ \A i \in FileIds : \E k \in DOMAIN order : order[k] = i
  BY <1>1, BoundsAssumption, OrderIs
<1>3. /\ \A k \in DOMAIN order : order[k] \in FileIds
      /\ \A i \in FileIds : i \in RouteIds
  BY <1>1, <1>2 DEF RouteIds
<1> DEFINE H(kind, i) == Handler(kind, i, routes[i].endpoint)
           s == SetupFileRouteHandlers(order, where)
<1>4. ASSUME NEW i \in RouteIds, NEW kind \in FileKinds PROVE H(kind, i) \in Handlers
  <2>1. routes[i].endpoint \in Endpoints \cup ApiEndpoints \cup {"none"} /\ i \in Nat
    <3>1. routes[i] \in UploadRoute
      BY DEF TypeOK
    <3>2. QED
      BY <3>1 DEF UploadRoute, RouteIds
  <2>2. QED
    BY <2>1, HandlerType DEF FileKinds, Kinds
<1>5. \A i, kind : /\ H(kind, i).kind = kind /\ H(kind, i).id = i
                   /\ H(kind, i).endpoint = routes[i].endpoint
  BY DEF Handler
<1>6. \A i : /\ RegisterFileOpsForRoute(i, routes[i].endpoint)[1].h = H("list", i)
             /\ RegisterFileOpsForRoute(i, routes[i].endpoint)[2].h = H("download", i)
             /\ RegisterFileOpsForRoute(i, routes[i].endpoint)[3].h = H("info", i)
             /\ RegisterFileOpsForRoute(i, routes[i].endpoint)[4].h = H("delete", i)
  BY DEF RegisterFileOpsForRoute
<1> HIDE DEF H
<1>7. CASE where = "post"
  <2>1. s = <<>>
    BY <1>7 DEF SetupFileRouteHandlers
  <2>2. \A kind \in FileKinds : HomeOf(kind) # where
    BY <1>7 DEF FileKinds, HomeOf
  <2>3. QED
    BY <2>1, <2>2
<1>8. CASE where = "delete"
  <2>1. s = [k \in 1 .. 1 * Len(order) |->
               RegisterFileOpsForRoute(order[((k - 1) \div 1) + 1],
                                       routes[order[((k - 1) \div 1) + 1]].endpoint)[4].h]
    BY <1>8 DEF SetupFileRouteHandlers
  <2>2. 1 * Len(order) = Len(order) /\ \A k \in 1 .. Len(order) : ((k - 1) \div 1) + 1 = k
    <3>1. Len(order) \in Nat
      BY <1>2
    <3>2. \A n \in Nat : 1 * n = n
      OBVIOUS
    <3>3. \A k \in Nat : ((k - 1) \div 1) + 1 = k
      OBVIOUS
    <3>4. QED
      BY <3>1, <3>2, <3>3
  <2>3. s = [k \in 1 .. Len(order) |-> H("delete", order[k])]
    BY <1>6, <2>1, <2>2
  <2> HIDE DEF s
  <2>4. s \in [1 .. Len(order) -> Handlers]
    BY <1>2, <1>3, <1>4, <2>3 DEF FileKinds
  <2>5. s \in Seq(Handlers) /\ DOMAIN s = 1 .. Len(order)
    BY <1>2, <2>4
  <2>6. \A k \in DOMAIN s : /\ s[k].kind = "delete" /\ s[k].id = order[k]
                            /\ s[k].endpoint = routes[order[k]].endpoint
    BY <1>5, <2>3
  <2>7. \A kind \in FileKinds : HomeOf(kind) = where <=> kind = "delete"
    BY <1>8 DEF FileKinds, HomeOf
  <2>8. \A k \in DOMAIN s : \E i \in FileIds :
               /\ s[k].kind \in FileKinds /\ HomeOf(s[k].kind) = where
               /\ s[k].id = i /\ s[k].endpoint = routes[i].endpoint
    BY <1>2, <1>3, <2>5, <2>6, <2>7 DEF FileKinds
  <2>9. \A i \in FileIds : \E k \in DOMAIN s : s[k].kind = "delete" /\ s[k].endpoint = routes[i].endpoint
    BY <1>2, <2>5, <2>6
  <2>10. QED
    BY <2>5, <2>7, <2>8, <2>9 DEF s
<1>9. CASE where = "get"
  <2> DEFINE Row(k) == ((k - 1) \div 3) + 1
             Col(k) == ((k - 1) % 3) + 1
             KindAt(c) == IF c = 1 THEN "list" ELSE IF c = 2 THEN "download" ELSE "info"
  <2>1. s = [k \in 1 .. 3 * Len(order) |->
               RegisterFileOpsForRoute(order[Row(k)], routes[order[Row(k)]].endpoint)[Col(k)].h]
    BY <1>9 DEF SetupFileRouteHandlers
  <2>2. \A k \in 1 .. 3 * Len(order) : Row(k) \in 1 .. Len(order) /\ Col(k) \in {1, 2, 3}
    BY <1>2
  <2>3. \A m \in 1 .. Len(order), c \in {1, 2, 3} :
           /\ 3 * (m - 1) + c \in 1 .. 3 * Len(order)
           /\ Row(3 * (m - 1) + c) = m /\ Col(3 * (m - 1) + c) = c
    BY <1>2
  <2> HIDE DEF Row, Col
  <2>4. s = [k \in 1 .. 3 * Len(order) |-> H(KindAt(Col(k)), order[Row(k)])]
    BY <1>6, <2>1, <2>2
  <2> HIDE DEF s
  <2>5. \A c : KindAt(c) \in FileKinds /\ HomeOf(KindAt(c)) = where
    BY <1>9 DEF FileKinds, HomeOf
  <2>6. \A kind \in FileKinds : HomeOf(kind) = where => \E c \in {1, 2, 3} : kind = KindAt(c)
    BY <1>9 DEF FileKinds, HomeOf
  <2> HIDE DEF KindAt
  <2>7. \A k \in 1 .. 3 * Len(order) : order[Row(k)] \in FileIds
    BY <1>2, <1>3, <2>2
  <2>8. s \in [1 .. 3 * Len(order) -> Handlers]
    BY <1>3, <1>4, <2>4, <2>5, <2>7
  <2>9. s \in Seq(Handlers) /\ DOMAIN s = 1 .. 3 * Len(order)
    <3>1. 3 * Len(order) \in Nat
      BY <1>2
    <3>2. QED
      BY <2>8, <3>1
  <2>10. \A k \in DOMAIN s : /\ s[k].kind = KindAt(Col(k)) /\ s[k].id = order[Row(k)]
                             /\ s[k].endpoint = routes[order[Row(k)]].endpoint
    BY <1>5, <2>4, <2>9
  <2>11. \A k \in DOMAIN s : \E i \in FileIds :
               /\ s[k].kind \in FileKinds /\ HomeOf(s[k].kind) = where
               /\ s[k].id = i /\ s[k].endpoint = routes[i].endpoint
    BY <2>5, <2>7, <2>9, <2>10
  <2>12. ASSUME NEW i \in FileIds, NEW kind \in FileKinds, HomeOf(kind) = where
         PROVE  \E k \in DOMAIN s : s[k].kind = kind /\ s[k].endpoint = routes[i].endpoint
    <3>1. PICK c \in {1, 2, 3} : kind = KindAt(c)
      BY <2>6, <2>12
    <3>2. PICK m \in 1 .. Len(order) : order[m] = i
      BY <1>2
    <3>3. PICK k \in DOMAIN s : Row(k) = m /\ Col(k) = c
      BY <2>3, <2>9
    <3>4. QED
      BY <2>10, <3>1, <3>2, <3>3
  <2>13. QED
    BY <2>9, <2>11, <2>12 DEF s
<1>10. QED
  BY <1>7, <1>8, <1>9 DEF Tables

\* The upload handlers of a new server.
LEMMA SetupReadersIs ==
  ASSUME TypeOK, NEW order \in Orders(FileIds)
  PROVE  LET s == [k \in DOMAIN order |->
                      Handler("upload", order[k], routes[order[k]].endpoint)] IN
         /\ s \in Seq(Handlers)
         /\ \A k \in DOMAIN s : \E i \in FileIds :
               s[k].kind = "upload" /\ s[k].id = i /\ s[k].endpoint = routes[i].endpoint
         /\ \A i \in FileIds : \E k \in DOMAIN s :
               s[k].kind = "upload" /\ s[k].endpoint = routes[i].endpoint
<1>1. FileIds \in SUBSET (1 .. MaxRoutes)
  BY DEF FileIds, RouteIds
<1>2. /\ order \in Seq(FileIds) /\ Len(order) \in Nat /\ DOMAIN order = 1 .. Len(order)
      /\ \A i \in FileIds : \E k \in DOMAIN order : order[k] = i
  BY <1>1, BoundsAssumption, OrderIs
<1>3. /\ \A k \in DOMAIN order : order[k] \in FileIds
      /\ \A i \in FileIds : i \in RouteIds
  BY <1>1, <1>2 DEF RouteIds
<1> DEFINE s == [k \in DOMAIN order |-> Handler("upload", order[k], routes[order[k]].endpoint)]
<1>4. ASSUME NEW i \in RouteIds PROVE Handler("upload", i, routes[i].endpoint) \in Handlers
  <2>1. routes[i] \in UploadRoute
    BY DEF TypeOK
  <2>2. routes[i].endpoint \in Endpoints \cup ApiEndpoints \cup {"none"} /\ i \in Nat
    BY <2>1 DEF UploadRoute, RouteIds
  <2>3. QED
    BY <2>2, HandlerType DEF Kinds
<1>5. s \in [1 .. Len(order) -> Handlers]
  BY <1>2, <1>3, <1>4
<1>6. \A k \in DOMAIN s : /\ s[k].kind = "upload" /\ s[k].id = order[k]
                          /\ s[k].endpoint = routes[order[k]].endpoint
  BY DEF Handler
<1>7. DOMAIN s = DOMAIN order
  OBVIOUS
<1> HIDE DEF s
<1>8. s \in Seq(Handlers)
  BY <1>2, <1>5
<1>9. QED
  BY <1>2, <1>3, <1>6, <1>7, <1>8 DEF s

\* A new table: the API routes, the built-in handlers, the files.
LEMMA SetupTableIs ==
  ASSUME TypeOK, NEW order \in Orders(FileIds), NEW gets \in Orders(CallIds("get")),
         NEW posts \in Orders(CallIds("post")), NEW deletes \in Orders(CallIds("delete")),
         NEW where \in Tables
  PROVE  LET s == SetupApiHandlers([get |-> gets, post |-> posts, delete |-> deletes][where])
                     \o (IF where = "get" THEN BuiltInHandlers ELSE <<>>)
                     \o SetupFileRouteHandlers(order, where) IN
         /\ s \in Seq(Handlers)
         /\ \A h \in Range(s) :
               \/ h.kind = "api" /\ \E i \in CallIds(where) : h.endpoint = apiRoutes[i].endpoint
               \/ h.kind = "builtin" /\ where = "get"
               \/ \E i \in FileIds :
                     /\ h.kind \in FileKinds /\ HomeOf(h.kind) = where
                     /\ h.id = i /\ h.endpoint = routes[i].endpoint
         /\ \A i \in CallIds(where) : \E h \in Range(s) :
               h.kind = "api" /\ h.endpoint = apiRoutes[i].endpoint
         /\ \A i \in FileIds, kind \in FileKinds : HomeOf(kind) = where =>
               \E h \in Range(s) : h.kind = kind /\ h.endpoint = routes[i].endpoint
<1> DEFINE apis  == [get |-> gets, post |-> posts, delete |-> deletes][where]
           a     == SetupApiHandlers(apis)
           b     == IF where = "get" THEN BuiltInHandlers ELSE <<>>
           c     == SetupFileRouteHandlers(order, where)
           s     == a \o b \o c
<1>1. apis \in Orders(CallIds(where))
  BY DEF Tables
<1> HIDE DEF apis
<1>2. /\ a \in Seq(Handlers)
      /\ \A h \in Range(a) : h.kind = "api" /\ \E i \in CallIds(where) :
            h.endpoint = apiRoutes[i].endpoint
      /\ \A i \in CallIds(where) : \E h \in Range(a) :
            h.kind = "api" /\ h.endpoint = apiRoutes[i].endpoint
  BY <1>1, SetupApiIs DEF Range
<1>3. b \in Seq(Handlers) /\ \A h \in Range(b) : h.kind = "builtin" /\ where = "get"
  <2>1. Handler("builtin", NoId, "none") \in Handlers
    BY HandlerType DEF Kinds, NoId
  <2>2. Handler("builtin", NoId, "none").kind = "builtin"
    BY DEF Handler
  <2>3. BuiltInHandlers \in [1 .. 1 -> Handlers]
    BY <2>1 DEF BuiltInHandlers
  <2>4. BuiltInHandlers \in Seq(Handlers)
    <3>1. \A n \in Nat : [1 .. n -> Handlers] \subseteq Seq(Handlers)
      OBVIOUS
    <3>2. QED
      BY <2>3, <3>1
  <2>5. QED
    BY <2>2, <2>4 DEF BuiltInHandlers, Range
<1>4. /\ c \in Seq(Handlers)
      /\ \A h \in Range(c) : \E i \in FileIds :
            /\ h.kind \in FileKinds /\ HomeOf(h.kind) = where
            /\ h.id = i /\ h.endpoint = routes[i].endpoint
      /\ \A i \in FileIds, kind \in FileKinds : HomeOf(kind) = where =>
            \E h \in Range(c) : h.kind = kind /\ h.endpoint = routes[i].endpoint
  BY SetupFileIs DEF Range
<1> HIDE DEF a, b, c
<1>5. s \in Seq(Handlers) /\ Range(s) = Range(a) \cup Range(b) \cup Range(c)
  BY <1>2, <1>3, <1>4, ThreeParts
<1> HIDE DEF s
<1>6. /\ s \in Seq(Handlers)
      /\ \A h \in Range(s) :
            \/ h.kind = "api" /\ \E i \in CallIds(where) : h.endpoint = apiRoutes[i].endpoint
            \/ h.kind = "builtin" /\ where = "get"
            \/ \E i \in FileIds :
                  /\ h.kind \in FileKinds /\ HomeOf(h.kind) = where
                  /\ h.id = i /\ h.endpoint = routes[i].endpoint
  BY <1>2, <1>3, <1>4, <1>5
<1>7. \A i \in CallIds(where) : \E h \in Range(s) :
         h.kind = "api" /\ h.endpoint = apiRoutes[i].endpoint
  BY <1>2, <1>5
<1>8. \A i \in FileIds, kind \in FileKinds : HomeOf(kind) = where =>
         \E h \in Range(s) : h.kind = kind /\ h.endpoint = routes[i].endpoint
  BY <1>4, <1>5
<1>9. QED
  BY <1>6, <1>7, <1>8 DEF s, a, b, c, apis

\* The natives, the start and the stop keep the types.
LEMMA ScriptType ==
  ASSUME TypeOK, Script
  PROVE  TypeOK'
<1> USE DEF routeVars, apiVars, serverVars, threadVars, historyVars
<1>0. MapTypes /\ ServerTypes /\ ThreadTypes /\ HistoryTypes
  BY TypeParts
<1>1. ASSUME NEW e \in Endpoints, RegisterRoute(e) PROVE TypeOK'
  <2>1. nextRouteId \in RouteIds /\ nextRouteId' \in 1 .. MaxRoutes + 1
    BY <1>1, BoundsAssumption DEF RegisterRoute, RegisterWith, RouteIds
  <2>2. [registered |-> TRUE, endpoint |-> e, allow |-> {}, keys |-> {}] \in UploadRoute
    BY DEF UploadRoute
  <2>3. MapTypes'
    BY <1>0, <1>1, <2>1, <2>2 DEF RegisterRoute, RegisterWith, MapTypes
  <2>4. todo' \in Seq(Entry)
    <3>1. <<UploadHandler(nextRouteId, e)>> \o RegisterFileOpsForRoute(nextRouteId, e) \in Seq(Entry)
      BY <2>1, FileEntries
    <3>2. QED
      BY <1>1, <3>1 DEF RegisterRoute, RegisterWith
  <2>5. ServerTypes'
    BY <1>0, <1>1, <2>4 DEF RegisterRoute, RegisterWith, ServerTypes
  <2>6. ThreadTypes' /\ HistoryTypes'
    BY <1>0, <1>1, ObserveType DEF RegisterRoute, RegisterWith, ThreadTypes, HistoryTypes
  <2>7. QED
    BY <2>3, <2>5, <2>6, TypePartsNext
<1>2. ASSUME NEW a \in ApiRoutes, RegisterApiRoute(a[1], a[2]) PROVE TypeOK'
  <2>1. nextApiRouteId \in ApiIds /\ nextApiRouteId' \in 1 .. MaxApiRoutes + 1
    BY <1>2, BoundsAssumption DEF RegisterApiRoute, ApiIds
  <2>2. a[1] \in Methods /\ a[2] \in ApiEndpoints
    BY CoversAssumption
  <2> DEFINE route == [registered |-> TRUE, method |-> a[1], endpoint |-> a[2], keys |-> {}]
  <2>3. route \in APIRoute
    BY <2>2 DEF APIRoute
  <2>4. ApiHandler(route) \in Entry
    BY <2>2, ApiEntry
  <2>5. /\ apiRoutes' = [apiRoutes EXCEPT ![nextApiRouteId] = route]
        /\ todo' = IF isRunning THEN <<ApiHandler(route)>> ELSE <<>>
    BY <1>2 DEF RegisterApiRoute
  <2> HIDE DEF route
  <2>6. MapTypes'
    BY <1>0, <1>2, <2>1, <2>3, <2>5 DEF RegisterApiRoute, MapTypes
  <2>7. ServerTypes'
    BY <1>0, <1>2, <2>4, <2>5 DEF RegisterApiRoute, ServerTypes
  <2>8. ThreadTypes' /\ HistoryTypes'
    BY <1>0, <1>2, ObserveType DEF RegisterApiRoute, ThreadTypes, HistoryTypes
  <2>9. QED
    BY <2>6, <2>7, <2>8, TypePartsNext
<1>3. CASE AddHandler
  <2>1. todo # <<>> /\ Head(todo).in \in Tables \cup {"readers"} /\ Head(todo).h \in Handlers
    <3>1. todo # <<>> /\ todo \in Seq(Entry)
      BY <1>0, <1>3 DEF AddHandler, ServerTypes
    <3>2. Head(todo) \in Entry
      BY <3>1
    <3>3. QED
      BY <3>1, <3>2 DEF Entry
  <2>2. readers' \in Seq(Handlers) /\ handlers' \in [Tables -> Seq(Handlers)]
    <3>1. CASE Head(todo).in = "readers"
      <4>1. readers \in Seq(Handlers) /\ readers' = Append(readers, Head(todo).h)
        BY <1>0, <1>3, <3>1 DEF AddHandler, ServerTypes
      <4>2. readers' \in Seq(Handlers)
        BY <2>1, <4>1
      <4>3. QED
        BY <1>0, <1>3, <3>1, <4>2 DEF AddHandler, ServerTypes
    <3>2. CASE Head(todo).in # "readers"
      <4>1. Head(todo).in \in Tables
        BY <2>1, <3>2
      <4>2. Append(handlers[Head(todo).in], Head(todo).h) \in Seq(Handlers)
        BY <1>0, <2>1, <4>1 DEF ServerTypes
      <4>3. QED
        BY <1>0, <1>3, <3>2, <4>1, <4>2 DEF AddHandler, ServerTypes
    <3>3. QED
      BY <3>1, <3>2
  <2>3. todo' \in Seq(Entry)
    BY <1>0, <1>3 DEF AddHandler, ServerTypes
  <2>4. MapTypes' /\ ServerTypes'
    BY <1>0, <1>3, <2>2, <2>3 DEF AddHandler, MapTypes, ServerTypes
  <2>5. ThreadTypes' /\ HistoryTypes'
    BY <1>0, <1>3, ObserveType DEF AddHandler, ThreadTypes, HistoryTypes
  <2>6. QED
    BY <2>4, <2>5, TypePartsNext
<1>4. ASSUME NEW i \in RouteIds, RemoveRoute(i) PROVE TypeOK'
  <2>1. routes[i].endpoint \in Endpoints \cup {"none"}
    BY <1>0 DEF MapTypes, UploadRoute
  <2>2. MapTypes' /\ ServerTypes'
    BY <1>0, <1>4, <2>1, NoRoutesType DEF RemoveRoute, MapTypes, ServerTypes
  <2>3. ThreadTypes' /\ HistoryTypes'
    BY <1>0, <1>4, ObserveType DEF RemoveRoute, ThreadTypes, HistoryTypes
  <2>4. QED
    BY <2>2, <2>3, TypePartsNext
<1>5. ASSUME NEW i \in ApiIds, RemoveApiRoute(i) PROVE TypeOK'
  <2>1. MapTypes' /\ ServerTypes'
    BY <1>0, <1>5, NoRoutesType DEF RemoveApiRoute, MapTypes, ServerTypes
  <2>2. ThreadTypes' /\ HistoryTypes'
    BY <1>0, <1>5, ObserveType DEF RemoveApiRoute, ThreadTypes, HistoryTypes
  <2>3. QED
    BY <2>1, <2>2, TypePartsNext
<1>6. ASSUME NEW i \in RouteIds, NEW r \in UploadRoute, ChangeRoute(i, r) PROVE TypeOK'
  <2>1. settings' \in 0 .. MaxSettings
    BY <1>0, <1>6, BoundsAssumption DEF ChangeRoute, MapTypes
  <2>2. MapTypes' /\ ServerTypes'
    BY <1>0, <1>6, <2>1 DEF ChangeRoute, MapTypes, ServerTypes
  <2>3. ThreadTypes' /\ HistoryTypes'
    BY <1>0, <1>6, ObserveType DEF ChangeRoute, ThreadTypes, HistoryTypes
  <2>4. QED
    BY <2>2, <2>3, TypePartsNext
<1>7. ASSUME NEW i \in RouteIds, NEW o \in Operations, SetAllow(i, o) PROVE TypeOK'
  <2>1. routes[i] \in UploadRoute /\ routes[i].allow \in SUBSET Operations
    BY <1>0 DEF MapTypes, UploadRoute
  <2>2. /\ [routes[i] EXCEPT !.allow = @ \cup {o}] \in UploadRoute
        /\ [routes[i] EXCEPT !.allow = @ \ {o}] \in UploadRoute
    BY <2>1, RouteEdits
  <2>3. QED
    BY <1>6, <1>7, <2>2 DEF SetAllow
<1>8. ASSUME NEW i \in RouteIds, NEW k \in Keys, AddKeyToRoute(i, k) \/ RemoveKeyFromRoute(i, k)
      PROVE  TypeOK'
  <2>1. routes[i] \in UploadRoute /\ routes[i].keys \in SUBSET Keys
    BY <1>0 DEF MapTypes, UploadRoute
  <2>2. /\ [routes[i] EXCEPT !.keys = @ \cup {k}] \in UploadRoute
        /\ [routes[i] EXCEPT !.keys = @ \ {k}] \in UploadRoute
    BY <2>1, RouteEdits
  <2>3. QED
    BY <1>6, <1>8, <2>2 DEF AddKeyToRoute, RemoveKeyFromRoute
<1>9. ASSUME NEW i \in ApiIds, NEW k \in Keys, SetApiRouteAuth(i, k) PROVE TypeOK'
  <2>1. apiRoutes[i] \in APIRoute /\ apiRoutes[i].keys \in SUBSET Keys
    BY <1>0 DEF MapTypes, APIRoute
  <2>2. [apiRoutes[i] EXCEPT !.keys = @ \cup {k}] \in APIRoute
    BY <2>1, ApiEdits
  <2>3. apiRoutes' \in [ApiIds -> APIRoute] /\ settings' \in 0 .. MaxSettings
    BY <1>0, <1>9, <2>2, BoundsAssumption DEF SetApiRouteAuth, MapTypes
  <2>4. MapTypes' /\ ServerTypes'
    BY <1>0, <1>9, <2>3 DEF SetApiRouteAuth, MapTypes, ServerTypes
  <2>5. ThreadTypes' /\ HistoryTypes'
    BY <1>0, <1>9, ObserveType DEF SetApiRouteAuth, ThreadTypes, HistoryTypes
  <2>6. QED
    BY <2>4, <2>5, TypePartsNext
<1>10. CASE Reset
  <2>1. \A i \in RouteIds : routes[i].endpoint \in Endpoints \cup {"none"}
    BY <1>0 DEF MapTypes, UploadRoute
  <2>2. settings' \in 0 .. MaxSettings
    BY <1>0, <1>10, BoundsAssumption DEF Reset, MapTypes
  <2>3. MapTypes' /\ ServerTypes'
    BY <1>0, <1>10, <2>1, <2>2, NoRoutesType DEF Reset, MapTypes, ServerTypes
  <2>4. ThreadTypes' /\ HistoryTypes'
    BY <1>0, <1>10, ObserveType DEF Reset, ThreadTypes, HistoryTypes
  <2>5. QED
    BY <2>3, <2>4, TypePartsNext
<1>11. CASE StopHttpServer
  <2>1. ServerTypes'
    <3>1. <<>> \in Seq(Handlers)
      OBVIOUS
    <3>2. QED
      BY <1>0, <1>11, <3>1 DEF StopHttpServer, ServerTypes
  <2>2. MapTypes' /\ ThreadTypes' /\ HistoryTypes'
    BY <1>0, <1>11 DEF StopHttpServer, MapTypes, ThreadTypes, HistoryTypes
  <2>3. QED
    BY <2>1, <2>2, TypePartsNext
<1>12. CASE StartHttpServer
  <2>1. PICK order \in Orders(FileIds), gets \in Orders(CallIds("get")),
             posts \in Orders(CallIds("post")), deletes \in Orders(CallIds("delete")) :
          /\ readers' = [k \in DOMAIN order |->
                Handler("upload", order[k], routes[order[k]].endpoint)]
          /\ handlers' = [k \in Tables |->
                SetupApiHandlers([get |-> gets, post |-> posts, delete |-> deletes][k])
                    \o (IF k = "get" THEN BuiltInHandlers ELSE <<>>)
                    \o SetupFileRouteHandlers(order, k)]
    BY <1>12 DEF StartHttpServer
  <2>2. readers' \in Seq(Handlers)
    BY <2>1, SetupReadersIs
  <2>3. handlers' \in [Tables -> Seq(Handlers)]
    BY <2>1, SetupTableIs
  <2>4. starts' \in 0 .. MaxStarts
    BY <1>0, <1>12, BoundsAssumption DEF StartHttpServer, ServerTypes
  <2>5. MapTypes' /\ ServerTypes'
    BY <1>0, <1>12, <2>2, <2>3, <2>4 DEF StartHttpServer, MapTypes, ServerTypes
  <2>6. ThreadTypes' /\ HistoryTypes'
    BY <1>0, <1>12 DEF StartHttpServer, ThreadTypes, HistoryTypes
  <2>7. QED
    BY <2>5, <2>6, TypePartsNext
<1>13. QED
  BY <1>1, <1>2, <1>3, <1>4, <1>5, <1>7, <1>8, <1>9, <1>10, <1>11, <1>12 DEF Script

\* So does a step of a pool thread.
LEMMA AnswerType ==
  ASSUME ThreadTypes, NEW t \in Threads, NEW what \in Answers, NEW id \in Nat, Answer(t, what, id)
  PROVE  /\ pc' \in [Threads -> {"idle", "dispatch", "lookup", "serve", "match", "matchGet",
                                 "auth", "done"}]
         /\ answer' \in [Threads -> Answers] /\ via' \in [Threads -> Nat]
BY DEF ThreadTypes, Answer

\* What the search finds is a handler.
LEMMA FoundType ==
  ASSUME TypeOK, NEW r, r.method \in Methods, NEW h \in Found(r)
  PROVE  h \in Handlers
<1>1. readers \in Seq(Handlers) /\ handlers[TableOf(r.method)] \in Seq(Handlers)
  BY TableOfMethod DEF TypeOK
<1>2. \A table \in Seq(Handlers) : FirstMatch(table, r.path) \in Handlers
  BY FirstMatchIs, NoRoutesType
<1>3. /\ FirstMatch(readers, r.path) \in Handlers
      /\ FirstMatch(handlers[TableOf(r.method)], r.path) \in Handlers
  BY <1>1, <1>2
<1>4. QED
  BY <1>3, NoRoutesType DEF Found

\* The thread's step keeps the types, if the id it looks up is one.
LEMMA ServeType ==
  ASSUME TypeOK, NEW t \in Threads, Serve(t),
         pc[t] = "lookup" => handler[t].id \in RouteIds
  PROVE  TypeOK'
<1> USE DEF routeVars, apiVars, serverVars
<1>0. MapTypes /\ ServerTypes /\ ThreadTypes /\ HistoryTypes
  BY TypeParts
<1>1. ASSUME ScriptIdle PROVE MapTypes' /\ ServerTypes'
  BY <1>0, <1>1 DEF ScriptIdle, MapTypes, ServerTypes
<1>2. ASSUME UNCHANGED <<granted, kept>> PROVE HistoryTypes'
  BY <1>0, <1>2 DEF HistoryTypes
<1>3. NoId \in Nat /\ handler[t].id \in Nat /\ via[t] \in Nat
  BY <1>0 DEF NoId, ThreadTypes, Handlers
<1>4. ASSUME NEW r \in Requests, Arrive(t, r) PROVE TypeOK'
  <2>1. Entitled(routes, apiRoutes, r) \subseteq Marks
    BY EntitledType
  <2>2. HistoryTypes'
    BY <1>0, <1>4, <2>1 DEF Arrive, HistoryTypes
  <2>3. ThreadTypes'
    BY <1>0, <1>4 DEF Arrive, ThreadTypes
  <2>4. QED
    BY <1>1, <1>4, <2>2, <2>3, TypePartsNext DEF Arrive
<1>5. CASE Dispatch(t)
  <2>1. PICK h \in Found(request[t]) :
          /\ handler' = [handler EXCEPT ![t] = h]
          /\ \/ Answer(t, "no handler", NoId) \/ Answer(t, "built in", NoId)
             \/ Answer(t, "empty", h.id)
             \/ pc' = [pc EXCEPT ![t] = "match"] /\ UNCHANGED <<answer, via>>
             \/ pc' = [pc EXCEPT ![t] = "lookup"] /\ UNCHANGED <<answer, via>>
    BY <1>5 DEF Dispatch
  <2>2. request[t].method \in Methods
    BY <1>0, RequestsAssumption DEF ThreadTypes, NoRequest, Methods
  <2>3. h \in Handlers /\ h.id \in Nat
    <3>1. h \in Handlers
      BY <2>1, <2>2, FoundType
    <3>2. QED
      BY <3>1 DEF Handlers
  <2>4. /\ pc' \in [Threads -> {"idle", "dispatch", "lookup", "serve", "match", "matchGet",
                                 "auth", "done"}]
        /\ answer' \in [Threads -> Answers] /\ via' \in [Threads -> Nat]
    <3>1. {"no handler", "built in", "empty"} \subseteq Answers
      BY DEF Answers
    <3>2. CASE Answer(t, "no handler", NoId) \/ Answer(t, "built in", NoId)
                  \/ Answer(t, "empty", h.id)
      BY <1>0, <1>3, <2>3, <3>1, <3>2, AnswerType
    <3>3. CASE UNCHANGED <<answer, via>>
      BY <1>0, <2>1, <3>3 DEF ThreadTypes, Answer
    <3>4. QED
      BY <2>1, <3>2, <3>3
  <2>5. ThreadTypes'
    BY <1>0, <1>5, <2>1, <2>3, <2>4 DEF Dispatch, ThreadTypes
  <2>6. QED
    BY <1>1, <1>2, <1>5, <2>5, TypePartsNext DEF Dispatch
<1>6. CASE LookUp(t)
  <2>1. routes[handler[t].id] \in UploadRoute
    BY <1>0, <1>6 DEF LookUp, MapTypes
  <2>2. "route not found" \in Answers
    BY DEF Answers
  <2>3. /\ pc' \in [Threads -> {"idle", "dispatch", "lookup", "serve", "match", "matchGet",
                                 "auth", "done"}]
        /\ answer' \in [Threads -> Answers] /\ via' \in [Threads -> Nat]
    <3>1. CASE routes[handler[t].id].registered
      BY <1>0, <1>6, <3>1 DEF LookUp, ThreadTypes
    <3>2. CASE ~routes[handler[t].id].registered
      BY <1>0, <1>3, <1>6, <2>2, <3>2, AnswerType DEF LookUp
    <3>3. QED
      BY <3>1, <3>2
  <2>4. ThreadTypes'
    BY <1>0, <1>6, <2>1, <2>3 DEF LookUp, ThreadTypes
  <2>5. QED
    BY <1>1, <1>2, <1>6, <2>4, TypePartsNext DEF LookUp
<1>7. ASSUME NEW kind, NEW allowed, ServeFile(t, kind, allowed) PROVE TypeOK'
  <2>1. \E what \in {"forbidden", "unauthorized", "served", "failed"} :
           Answer(t, what, handler[t].id)
    BY <1>7 DEF ServeFile
  <2>2. {"forbidden", "unauthorized", "served", "failed"} \subseteq Answers
    BY DEF Answers
  <2>3. /\ pc' \in [Threads -> {"idle", "dispatch", "lookup", "serve", "match", "matchGet",
                                 "auth", "done"}]
        /\ answer' \in [Threads -> Answers] /\ via' \in [Threads -> Nat]
    BY <1>0, <1>3, <2>1, <2>2, AnswerType
  <2>4. ThreadTypes'
    BY <1>0, <1>7, <2>3 DEF ServeFile, ThreadTypes
  <2>5. QED
    BY <1>1, <1>2, <1>7, <2>4, TypePartsNext DEF ServeFile
<1>8. ASSUME NEW from, NEW method, NEW otherwise \in {"matchGet", "done"},
             MatchApiRoute(t, from, method, otherwise)
      PROVE  TypeOK'
  <2>1. \/ \E i \in ApiIds :
              /\ apiCopy' = [apiCopy EXCEPT ![t] = apiRoutes[i]]
              /\ via' = [via EXCEPT ![t] = i] /\ pc' = [pc EXCEPT ![t] = "auth"]
              /\ UNCHANGED answer
        \/ UNCHANGED apiCopy /\ Answer(t, "endpoint not found", NoId)
        \/ UNCHANGED <<apiCopy, answer, via>> /\ pc' = [pc EXCEPT ![t] = "matchGet"]
    BY <1>8 DEF MatchApiRoute, ScanFinds
  <2>2. "endpoint not found" \in Answers
    BY DEF Answers
  <2>3. /\ pc' \in [Threads -> {"idle", "dispatch", "lookup", "serve", "match", "matchGet",
                                 "auth", "done"}]
        /\ answer' \in [Threads -> Answers] /\ via' \in [Threads -> Nat]
        /\ apiCopy' \in [Threads -> APIRoute]
    <3>1. ASSUME NEW i \in ApiIds, apiCopy' = [apiCopy EXCEPT ![t] = apiRoutes[i]],
                 via' = [via EXCEPT ![t] = i], pc' = [pc EXCEPT ![t] = "auth"], UNCHANGED answer
          PROVE  /\ pc' \in [Threads -> {"idle", "dispatch", "lookup", "serve", "match",
                                         "matchGet", "auth", "done"}]
                 /\ answer' \in [Threads -> Answers] /\ via' \in [Threads -> Nat]
                 /\ apiCopy' \in [Threads -> APIRoute]
      <4>1. apiRoutes[i] \in APIRoute /\ i \in Nat
        BY <1>0 DEF MapTypes, ApiIds
      <4>2. apiCopy' \in [Threads -> APIRoute] /\ via' \in [Threads -> Nat]
        BY <1>0, <3>1, <4>1 DEF ThreadTypes
      <4>3. QED
        BY <1>0, <3>1, <4>2 DEF ThreadTypes
    <3>2. CASE UNCHANGED apiCopy /\ Answer(t, "endpoint not found", NoId)
      BY <1>0, <1>3, <2>2, <3>2, AnswerType DEF ThreadTypes
    <3>3. CASE UNCHANGED <<apiCopy, answer, via>> /\ pc' = [pc EXCEPT ![t] = "matchGet"]
      BY <1>0, <3>3 DEF ThreadTypes
    <3>4. QED
      BY <2>1, <3>1, <3>2, <3>3
  <2>4. ThreadTypes'
    BY <1>0, <1>8, <2>3 DEF MatchApiRoute, ThreadTypes
  <2>5. QED
    BY <1>1, <1>2, <1>8, <2>4, TypePartsNext DEF MatchApiRoute
<1>9. CASE CheckApiAuth(t)
  <2>1. \E what \in {"callback", "unauthorized"} : Answer(t, what, via[t])
    BY <1>9 DEF CheckApiAuth
  <2>2. {"callback", "unauthorized"} \subseteq Answers
    BY DEF Answers
  <2>3. /\ pc' \in [Threads -> {"idle", "dispatch", "lookup", "serve", "match", "matchGet",
                                 "auth", "done"}]
        /\ answer' \in [Threads -> Answers] /\ via' \in [Threads -> Nat]
    BY <1>0, <1>3, <2>1, <2>2, AnswerType
  <2>4. ThreadTypes'
    BY <1>0, <1>9, <2>3 DEF CheckApiAuth, ThreadTypes
  <2>5. QED
    BY <1>1, <1>2, <1>9, <2>4, TypePartsNext DEF CheckApiAuth
<1>10. CASE Finish(t)
  <2>1. "pending" \in Answers
    BY DEF Answers
  <2>2. ThreadTypes'
    BY <1>0, <1>3, <1>10, <2>1, NoRoutesType DEF Finish, ThreadTypes
  <2>3. HistoryTypes'
    BY <1>0, <1>10 DEF Finish, HistoryTypes
  <2>4. QED
    BY <1>1, <1>10, <2>2, <2>3, TypePartsNext DEF Finish
<1>11. CASE HandleApiRequest(t)
  BY <1>8, <1>11 DEF HandleApiRequest
<1>12. QED
  BY <1>4, <1>5, <1>6, <1>7, <1>9, <1>10, <1>11
     DEF Serve, HandleUpload, HandleFileList, HandleFileDownload, HandleFileDelete

-----------------------------------------------------------------------------
(* The maps and the tables.                                                *)

MapInv == RoutesFit /\ TablesFit /\ TablesComplete

\* The handlers of a registered route, or of one that is gone, still fit.
FitsStay ==
    \A where \in Tables \cup {"readers"}, h \in Handlers :
        HandlerFits(where, h) => HandlerFits(where, h)'

\* A route keeps its method and its endpoint as long as it is registered.
RoutesStay ==
    /\ \A i \in RouteIds : routes'[i].registered =>
          routes[i].registered /\ routes'[i].endpoint = routes[i].endpoint
    /\ \A i \in ApiIds : apiRoutes'[i].registered =>
          /\ apiRoutes[i].registered /\ apiRoutes'[i].endpoint = apiRoutes[i].endpoint
          /\ apiRoutes'[i].method = apiRoutes[i].method

\* What is in a table or waits for it is a handler.
LEMMA TableTypes ==
  ASSUME TypeOK
  PROVE  /\ \A k \in DOMAIN readers : readers[k] \in Handlers
         /\ \A where \in Tables : \A k \in DOMAIN handlers[where] : handlers[where][k] \in Handlers
         /\ \A k \in DOMAIN todo : todo[k].in \in Tables \cup {"readers"} /\ todo[k].h \in Handlers
<1>1. /\ readers \in Seq(Handlers) /\ handlers \in [Tables -> Seq(Handlers)]
      /\ todo \in Seq(Entry)
  BY DEF TypeOK, Entry
<1>2. \A k \in DOMAIN todo : todo[k] \in Entry
  BY <1>1
<1>3. QED
  BY <1>1, <1>2 DEF Entry

\* A native that removes routes or changes their settings.
LEMMA RemovalStep ==
  ASSUME TypeOK, MapInv, UNCHANGED <<nextRouteId, nextApiRouteId, serverVars>>,
         RoutesStay, retired \subseteq retired',
         \A i \in RouteIds :
            routes[i].registered /\ ~routes'[i].registered => routes[i].endpoint \in retired'
  PROVE  MapInv' /\ FitsStay
<1> USE DEF serverVars
<1>1. FitsStay
  <2>1. ASSUME NEW where, NEW h, HandlerFits(where, h) PROVE HandlerFits(where, h)'
    <3>1. CASE /\ h.kind \in FileKinds /\ where = HomeOf(h.kind)
               /\ h.id \in RouteIds /\ h.id < nextRouteId /\ h.endpoint \in Endpoints
               /\ IF routes[h.id].registered THEN routes[h.id].endpoint = h.endpoint
                                             ELSE h.endpoint \in retired
      BY <3>1 DEF HandlerFits, RoutesStay
    <3>2. QED
      BY <2>1, <3>1 DEF HandlerFits
  <2>2. QED
    BY <2>1 DEF FitsStay
<1>2. RoutesFit'
  BY DEF MapInv, RoutesFit, RoutesStay
<1>3. TablesFit'
  <2>1. \A k \in DOMAIN readers : HandlerFits("readers", readers[k])'
    BY <1>1, TableTypes DEF FitsStay, MapInv, TablesFit
  <2>2. \A where \in Tables : \A k \in DOMAIN handlers[where] :
           HandlerFits(where, handlers[where][k])'
    BY <1>1, TableTypes DEF FitsStay, MapInv, TablesFit
  <2>3. \A k \in DOMAIN todo : HandlerFits(todo[k].in, todo[k].h)'
    BY <1>1, TableTypes DEF FitsStay, MapInv, TablesFit
  <2>4. QED
    BY <2>1, <2>2, <2>3 DEF MapInv, TablesFit
<1>4. TablesComplete'
  <2>1. \A where, kind, endpoint :
           InPlace(where, kind, endpoint) => InPlace(where, kind, endpoint)'
    BY DEF InPlace
  <2>2. QED
    BY <2>1 DEF MapInv, TablesComplete, RoutesStay
<1>5. QED
  BY <1>1, <1>2, <1>3, <1>4 DEF MapInv

\* A native that registers a file route: the id is new, so nothing that is
\* in a table refers to it yet.
LEMMA RegisterRouteStep ==
  ASSUME TypeOK, MapInv, NEW e \in Endpoints, RegisterRoute(e)
  PROVE  MapInv' /\ FitsStay
<1> USE DEF apiVars
<1> DEFINE id == nextRouteId
<1>0. PICK added : added = <<UploadHandler(id, e)>> \o RegisterFileOpsForRoute(id, e)
  OBVIOUS
<1>1. /\ todo = <<>> /\ id \in RouteIds /\ id' = id + 1
      /\ routes' = [routes EXCEPT ![id] =
            [registered |-> TRUE, endpoint |-> e, allow |-> {}, keys |-> {}]]
      /\ todo' = IF isRunning THEN added ELSE <<>>
      /\ UNCHANGED <<apiRoutes, nextApiRouteId, isRunning, readers, handlers, retired>>
  BY <1>0 DEF RegisterRoute, RegisterWith
<1>2. PICK new : new = nextRouteId
  OBVIOUS
<1>3. /\ new \in RouteIds /\ new \in Nat /\ nextRouteId' = new + 1
      /\ routes'[new].registered /\ routes'[new].endpoint = e
      /\ \A i \in RouteIds : i # new => routes'[i] = routes[i]
  BY <1>1, <1>2 DEF TypeOK, RouteIds
<1>4. /\ DOMAIN added = 1 .. 5
      /\ added[1] = [in |-> "readers", h |-> Handler("upload", new, e)]
      /\ added[2] = [in |-> "get", h |-> Handler("list", new, e)]
      /\ added[3] = [in |-> "get", h |-> Handler("download", new, e)]
      /\ added[4] = [in |-> "get", h |-> Handler("info", new, e)]
      /\ added[5] = [in |-> "delete", h |-> Handler("delete", new, e)]
  BY <1>0, <1>2, <1>3, FileEntries
<1>5. FitsStay
  <2>1. ASSUME NEW where, NEW h, HandlerFits(where, h) PROVE HandlerFits(where, h)'
    <3>1. CASE /\ h.kind \in FileKinds /\ where = HomeOf(h.kind)
               /\ h.id \in RouteIds /\ h.id < nextRouteId /\ h.endpoint \in Endpoints
               /\ IF routes[h.id].registered THEN routes[h.id].endpoint = h.endpoint
                                             ELSE h.endpoint \in retired
      <4>1. h.id # new /\ h.id < new + 1
        BY <1>2, <1>3, <3>1 DEF RouteIds
      <4>2. QED
        BY <1>1, <1>3, <3>1, <4>1 DEF HandlerFits
    <3>2. QED
      BY <2>1, <3>1 DEF HandlerFits
  <2>2. QED
    BY <2>1 DEF FitsStay
<1>6. RoutesFit'
  <2>1. \A i \in RouteIds : i < new => i < new + 1
    BY <1>3 DEF RouteIds
  <2>2. new < new + 1
    BY <1>3
  <2>3. QED
    BY <1>1, <1>2, <1>3, <2>1, <2>2 DEF MapInv, RoutesFit
<1>7. \A k \in 1 .. 5 :
         /\ added[k].h.kind \in FileKinds /\ added[k].in = HomeOf(added[k].h.kind)
         /\ added[k].h.id = new /\ added[k].h.endpoint = e
  BY <1>4 DEF Handler, FileKinds, HomeOf
<1>8. TablesFit'
  <2>1. new < new + 1
    BY <1>3
  <2>2. ASSUME NEW where, NEW h, h.kind \in FileKinds, where = HomeOf(h.kind),
               h.id = new, h.endpoint = e
        PROVE  HandlerFits(where, h)'
    BY <1>3, <2>1, <2>2 DEF HandlerFits
  <2>3. \A k \in DOMAIN added : HandlerFits(added[k].in, added[k].h)'
    BY <1>4, <1>7, <2>2
  <2>4. QED
    BY <1>1, <1>5, <2>3, TableTypes DEF FitsStay, MapInv, TablesFit
<1>9. TablesComplete'
  <2>1. \A where, kind, endpoint :
           InPlace(where, kind, endpoint) => InPlace(where, kind, endpoint)'
    BY <1>1 DEF InPlace
  <2>2. ASSUME isRunning, NEW kind \in FileKinds PROVE InPlace(HomeOf(kind), kind, e)'
    <3>1. todo' = added
      BY <1>1, <2>2
    <3>2. \E k \in 1 .. 5 : /\ added[k].h.kind = kind /\ added[k].in = HomeOf(kind)
                            /\ added[k].h.endpoint = e
      BY <1>4, <1>7 DEF FileKinds, Handler
    <3>3. QED
      BY <1>4, <3>1, <3>2 DEF InPlace
  <2>3. ASSUME isRunning', NEW i \in RouteIds, routes'[i].registered, NEW kind \in FileKinds
        PROVE  InPlace(HomeOf(kind), kind, routes[i].endpoint)'
    <3>1. CASE i = new
      <4>1. e = routes'[i].endpoint
        BY <1>3, <3>1
      <4>2. QED
        BY <1>1, <2>2, <2>3, <4>1
    <3>2. CASE i # new
      <4>1. InPlace(HomeOf(kind), kind, routes[i].endpoint)
        BY <1>1, <1>3, <2>3, <3>2 DEF MapInv, TablesComplete
      <4>2. PICK endpoint : endpoint = routes[i].endpoint
        OBVIOUS
      <4>3. endpoint = routes'[i].endpoint
        BY <1>3, <3>2, <4>2
      <4>4. QED
        BY <2>1, <4>1, <4>2, <4>3
    <3>3. QED
      BY <3>1, <3>2
  <2>4. QED
    BY <1>1, <2>1, <2>3 DEF MapInv, TablesComplete
<1>10. QED
  BY <1>5, <1>6, <1>8, <1>9 DEF MapInv

\* A native that registers an API route.
LEMMA RegisterApiRouteStep ==
  ASSUME TypeOK, MapInv, NEW method \in Methods, NEW e \in ApiEndpoints,
         RegisterApiRoute(method, e)
  PROVE  MapInv' /\ FitsStay
<1> USE DEF routeVars
<1> DEFINE route == [registered |-> TRUE, method |-> method, endpoint |-> e, keys |-> {}]
<1>1. /\ todo = <<>> /\ nextApiRouteId \in ApiIds /\ nextApiRouteId' = nextApiRouteId + 1
      /\ apiRoutes' = [apiRoutes EXCEPT ![nextApiRouteId] = route]
      /\ todo' = IF isRunning THEN <<ApiHandler(route)>> ELSE <<>>
      /\ UNCHANGED <<routes, nextRouteId, isRunning, readers, handlers, retired>>
  BY DEF RegisterApiRoute
<1>2. PICK new : new = nextApiRouteId
  OBVIOUS
<1>3. /\ new \in ApiIds /\ new \in Nat /\ nextApiRouteId' = new + 1
      /\ apiRoutes'[new].registered /\ apiRoutes'[new].endpoint = e
      /\ apiRoutes'[new].method = method
      /\ \A i \in ApiIds : i # new => apiRoutes'[i] = apiRoutes[i]
  BY <1>1, <1>2 DEF TypeOK, ApiIds
<1>4. ApiHandler(route) = [in |-> TableOf(method), h |-> Handler("api", NoId, e)]
  BY ApiEntry
<1>5. /\ ApiHandler(route).in = TableOf(method) /\ ApiHandler(route).h.kind = "api"
      /\ ApiHandler(route).h.endpoint = e /\ TableOf(method) \in Tables
  BY <1>4, TableOfMethod DEF Handler
<1> HIDE DEF route
<1>6. FitsStay
  BY <1>1 DEF FitsStay, HandlerFits
<1>7. RoutesFit'
  <2>1. \A i \in ApiIds : i < new => i < new + 1
    BY <1>3 DEF ApiIds
  <2>2. new < new + 1
    BY <1>3
  <2>3. QED
    BY <1>1, <1>2, <1>3, <2>1, <2>2 DEF MapInv, RoutesFit
<1>8. TablesFit'
  <2>1. ASSUME NEW k \in DOMAIN todo' PROVE HandlerFits(todo[k].in, todo[k].h)'
    BY <1>1, <1>5, <2>1 DEF HandlerFits
  <2>2. QED
    BY <1>1, <1>6, <2>1, TableTypes DEF FitsStay, MapInv, TablesFit
<1>9. TablesComplete'
  <2>1. \A where, kind, endpoint :
           InPlace(where, kind, endpoint) => InPlace(where, kind, endpoint)'
    BY <1>1 DEF InPlace
  <2>2. isRunning => InPlace(TableOf(method), "api", e)'
    BY <1>1, <1>5 DEF InPlace
  <2>3. ASSUME isRunning', NEW i \in ApiIds, apiRoutes'[i].registered
        PROVE  InPlace(TableOf(apiRoutes[i].method), "api", apiRoutes[i].endpoint)'
    <3>1. CASE i = new
      BY <1>1, <1>3, <2>2, <2>3, <3>1
    <3>2. CASE i # new
      <4>1. InPlace(TableOf(apiRoutes[i].method), "api", apiRoutes[i].endpoint)
        BY <1>1, <1>3, <2>3, <3>2 DEF MapInv, TablesComplete
      <4>2. PICK where, endpoint : /\ where = TableOf(apiRoutes[i].method)
                                   /\ endpoint = apiRoutes[i].endpoint
        OBVIOUS
      <4>3. InPlace(where, "api", endpoint)'
        BY <2>1, <4>1, <4>2
      <4>4. where = TableOf(apiRoutes[i].method)' /\ endpoint = apiRoutes[i].endpoint'
        BY <1>3, <3>2, <4>2 DEF TableOf
      <4>5. QED
        BY <4>3, <4>4
    <3>3. QED
      BY <3>1, <3>2
  <2>4. QED
    BY <1>1, <2>1, <2>3 DEF MapInv, TablesComplete
<1>10. QED
  BY <1>6, <1>7, <1>8, <1>9 DEF MapInv

\* The next handler of a registration goes to its table.
LEMMA AddHandlerStep ==
  ASSUME TypeOK, MapInv, AddHandler
  PROVE  MapInv' /\ FitsStay
<1> USE DEF routeVars, apiVars
<1>1. /\ todo # <<>> /\ todo \in Seq(Entry) /\ readers \in Seq(Handlers)
      /\ \A where \in Tables : handlers[where] \in Seq(Handlers)
      /\ isRunning /\ isRunning' /\ todo' = Tail(todo)
      /\ UNCHANGED <<routes, nextRouteId, apiRoutes, nextApiRouteId, retired>>
  BY DEF AddHandler, TypeOK, Entry, MapInv, TablesFit
<1>2. PICK new : new = Head(todo)
  OBVIOUS
<1>3. new \in Entry /\ new = todo[1] /\ 1 \in DOMAIN todo
  BY <1>1, <1>2
<1>4. /\ new.in \in Tables \cup {"readers"} /\ new.h \in Handlers
      /\ HandlerFits(new.in, new.h)
  BY <1>3 DEF Entry, MapInv, TablesFit
<1>5. /\ \A k \in DOMAIN todo' : k + 1 \in DOMAIN todo /\ todo'[k] = todo[k + 1]
      /\ \A k \in DOMAIN todo : k # 1 => k - 1 \in DOMAIN todo' /\ todo'[k - 1] = todo[k]
  <2>1. ASSUME NEW S, NEW s \in Seq(S), s # <<>>
        PROVE  /\ \A k \in DOMAIN Tail(s) : k + 1 \in DOMAIN s /\ Tail(s)[k] = s[k + 1]
               /\ \A k \in DOMAIN s : k # 1 => k - 1 \in DOMAIN Tail(s) /\ Tail(s)[k - 1] = s[k]
    OBVIOUS
  <2>2. QED
    BY <1>1, <2>1
<1>6. FitsStay
  BY <1>1 DEF FitsStay, HandlerFits
<1>7. ASSUME NEW S, NEW s \in Seq(S), NEW h \in S
      PROVE  /\ \A k \in DOMAIN Append(s, h) :
                   (k \in DOMAIN s /\ Append(s, h)[k] = s[k]) \/ Append(s, h)[k] = h
             /\ \A k \in DOMAIN s : k \in DOMAIN Append(s, h) /\ Append(s, h)[k] = s[k]
             /\ Len(s) + 1 \in DOMAIN Append(s, h) /\ Append(s, h)[Len(s) + 1] = h
  OBVIOUS
<1>8. /\ new.in = "readers" => readers' = Append(readers, new.h) /\ handlers' = handlers
      /\ new.in # "readers" =>
            /\ readers' = readers /\ new.in \in Tables
            /\ handlers'[new.in] = Append(handlers[new.in], new.h)
            /\ \A where \in Tables : where # new.in => handlers'[where] = handlers[where]
  BY <1>2, <1>4 DEF AddHandler, TypeOK
<1>9. /\ \A k \in DOMAIN readers' :
            \/ k \in DOMAIN readers /\ readers'[k] = readers[k]
            \/ new.in = "readers" /\ readers'[k] = new.h
      /\ \A k \in DOMAIN readers : k \in DOMAIN readers' /\ readers'[k] = readers[k]
      /\ new.in = "readers" => \E k \in DOMAIN readers' : readers'[k] = new.h
  <2>1. CASE new.in = "readers"
    <3>1. readers' = Append(readers, new.h)
      BY <1>8, <2>1
    <3>2. /\ \A k \in DOMAIN readers' :
                (k \in DOMAIN readers /\ readers'[k] = readers[k]) \/ readers'[k] = new.h
          /\ \A k \in DOMAIN readers : k \in DOMAIN readers' /\ readers'[k] = readers[k]
          /\ \E k \in DOMAIN readers' : readers'[k] = new.h
      BY ONLY <1>1, <1>4, <1>7, <3>1
    <3>3. QED
      BY <2>1, <3>2
  <2>2. CASE new.in # "readers"
    BY <1>8, <2>2
  <2>3. QED
    BY <2>1, <2>2
<1>10. ASSUME NEW where \in Tables
       PROVE  /\ \A k \in DOMAIN handlers'[where] :
                    \/ k \in DOMAIN handlers[where] /\ handlers'[where][k] = handlers[where][k]
                    \/ new.in = where /\ handlers'[where][k] = new.h
              /\ \A k \in DOMAIN handlers[where] :
                    k \in DOMAIN handlers'[where] /\ handlers'[where][k] = handlers[where][k]
              /\ new.in = where => \E k \in DOMAIN handlers'[where] : handlers'[where][k] = new.h
  <2>1. where # "readers"
    BY DEF Tables
  <2>2. CASE new.in = where
    <3>1. handlers'[where] = Append(handlers[where], new.h) /\ handlers[where] \in Seq(Handlers)
      BY <1>1, <1>8, <2>1, <2>2
    <3>2. /\ \A k \in DOMAIN handlers'[where] :
                \/ k \in DOMAIN handlers[where] /\ handlers'[where][k] = handlers[where][k]
                \/ handlers'[where][k] = new.h
          /\ \A k \in DOMAIN handlers[where] :
                k \in DOMAIN handlers'[where] /\ handlers'[where][k] = handlers[where][k]
          /\ \E k \in DOMAIN handlers'[where] : handlers'[where][k] = new.h
      BY ONLY <1>4, <1>7, <3>1
    <3>3. QED
      BY <2>2, <3>2
  <2>3. CASE new.in # where
    BY <1>8, <2>3
  <2>4. QED
    BY <2>2, <2>3
<1>11. RoutesFit'
  BY <1>1 DEF MapInv, RoutesFit
<1>12. TablesFit'
  <2>1. HandlerFits(new.in, new.h)'
    BY <1>4, <1>6 DEF FitsStay
  <2>2. \A k \in DOMAIN readers' : HandlerFits("readers", readers[k])'
    BY <1>6, <1>9, <2>1, TableTypes DEF FitsStay, MapInv, TablesFit
  <2>3. \A where \in Tables : \A k \in DOMAIN handlers'[where] :
           HandlerFits(where, handlers[where][k])'
    BY <1>6, <1>10, <2>1, TableTypes DEF FitsStay, MapInv, TablesFit
  <2>4. \A k \in DOMAIN todo' : HandlerFits(todo[k].in, todo[k].h)'
    BY <1>5, <1>6, TableTypes DEF FitsStay, MapInv, TablesFit
  <2>5. QED
    BY <1>1, <2>2, <2>3, <2>4 DEF TablesFit
<1>13. TablesComplete'
  <2>1. ASSUME NEW where, NEW kind, NEW endpoint, InPlace(where, kind, endpoint)
        PROVE  InPlace(where, kind, endpoint)'
    <3>1. ASSUME NEW k \in DOMAIN todo, todo[k].in = where, todo[k].h.kind = kind,
                 todo[k].h.endpoint = endpoint
          PROVE  InPlace(where, kind, endpoint)'
      <4>1. CASE k = 1
        BY <1>3, <1>4, <1>9, <1>10, <3>1, <4>1 DEF InPlace
      <4>2. CASE k # 1
        BY <1>5, <3>1, <4>2 DEF InPlace
      <4>3. QED
        BY <4>1, <4>2
    <3>2. QED
      BY <1>9, <1>10, <2>1, <3>1 DEF InPlace
  <2>2. QED
    BY <1>1, <2>1 DEF MapInv, TablesComplete
<1>14. QED
  BY <1>6, <1>11, <1>12, <1>13 DEF MapInv

\* A new server has the handlers of all registered routes.
LEMMA StartStep ==
  ASSUME TypeOK, MapInv, StartHttpServer
  PROVE  MapInv'
<1> USE DEF routeVars, apiVars
<1>1. PICK order \in Orders(FileIds), gets \in Orders(CallIds("get")),
           posts \in Orders(CallIds("post")), deletes \in Orders(CallIds("delete")) :
          /\ readers' = [k \in DOMAIN order |->
                Handler("upload", order[k], routes[order[k]].endpoint)]
          /\ handlers' = [k \in Tables |->
                SetupApiHandlers([get |-> gets, post |-> posts, delete |-> deletes][k])
                    \o (IF k = "get" THEN BuiltInHandlers ELSE <<>>)
                    \o SetupFileRouteHandlers(order, k)]
  BY DEF StartHttpServer
<1>2. /\ todo = <<>> /\ todo' = <<>> /\ isRunning' /\ retired' = {}
      /\ UNCHANGED <<routes, nextRouteId, apiRoutes, nextApiRouteId>>
  BY DEF StartHttpServer
<1>3. /\ \A k \in DOMAIN readers' : \E i \in FileIds :
            readers'[k].kind = "upload" /\ readers'[k].id = i
            /\ readers'[k].endpoint = routes[i].endpoint
      /\ \A i \in FileIds : \E k \in DOMAIN readers' :
            readers'[k].kind = "upload" /\ readers'[k].endpoint = routes[i].endpoint
  BY <1>1, SetupReadersIs
<1>4. ASSUME NEW where \in Tables
      PROVE  /\ \A k \in DOMAIN handlers'[where] :
                   LET h == handlers'[where][k] IN
                   \/ h.kind = "api" /\ \E i \in CallIds(where) :
                         h.endpoint = apiRoutes[i].endpoint
                   \/ h.kind = "builtin" /\ where = "get"
                   \/ \E i \in FileIds :
                         /\ h.kind \in FileKinds /\ HomeOf(h.kind) = where
                         /\ h.id = i /\ h.endpoint = routes[i].endpoint
             /\ \A i \in CallIds(where) : \E k \in DOMAIN handlers'[where] :
                   /\ handlers'[where][k].kind = "api"
                   /\ handlers'[where][k].endpoint = apiRoutes[i].endpoint
             /\ \A i \in FileIds, kind \in FileKinds : HomeOf(kind) = where =>
                   \E k \in DOMAIN handlers'[where] :
                      /\ handlers'[where][k].kind = kind
                      /\ handlers'[where][k].endpoint = routes[i].endpoint
  <2> DEFINE s == SetupApiHandlers([get |-> gets, post |-> posts, delete |-> deletes][where])
                     \o (IF where = "get" THEN BuiltInHandlers ELSE <<>>)
                     \o SetupFileRouteHandlers(order, where)
  <2>1. handlers'[where] = s
    BY <1>1
  <2>2. /\ \A h \in Range(s) :
               \/ h.kind = "api" /\ \E i \in CallIds(where) : h.endpoint = apiRoutes[i].endpoint
               \/ h.kind = "builtin" /\ where = "get"
               \/ \E i \in FileIds :
                     /\ h.kind \in FileKinds /\ HomeOf(h.kind) = where
                     /\ h.id = i /\ h.endpoint = routes[i].endpoint
        /\ \A i \in CallIds(where) : \E h \in Range(s) :
               h.kind = "api" /\ h.endpoint = apiRoutes[i].endpoint
        /\ \A i \in FileIds, kind \in FileKinds : HomeOf(kind) = where =>
               \E h \in Range(s) : h.kind = kind /\ h.endpoint = routes[i].endpoint
    BY SetupTableIs
  <2> HIDE DEF s
  <2>3. \A h : h \in Range(s) <=> \E k \in DOMAIN handlers'[where] : h = handlers'[where][k]
    BY <2>1 DEF Range
  <2>4. QED
    BY <2>2, <2>3
<1>5. /\ \A i \in FileIds : i \in RouteIds /\ i < nextRouteId /\ routes[i].registered
                            /\ routes[i].endpoint \in Endpoints
      /\ \A where \in Tables : \A i \in CallIds(where) : apiRoutes[i].endpoint \in ApiEndpoints
      /\ \A i \in RouteIds : routes[i].registered => i \in FileIds
      /\ \A i \in ApiIds : apiRoutes[i].registered => i \in CallIds(TableOf(apiRoutes[i].method))
  BY DEF MapInv, RoutesFit, FileIds, CallIds
<1>6. RoutesFit'
  BY <1>2 DEF MapInv, RoutesFit
<1>7. ASSUME NEW where, NEW h, NEW i \in FileIds, h.kind \in FileKinds, where = HomeOf(h.kind),
             h.id = i, h.endpoint = routes[i].endpoint
      PROVE  HandlerFits(where, h)'
  BY <1>2, <1>5, <1>7 DEF HandlerFits
<1>8. TablesFit'
  <2>1. \A k \in DOMAIN readers' : HandlerFits("readers", readers[k])'
    BY <1>3, <1>7 DEF FileKinds, HomeOf
  <2>2. ASSUME NEW where \in Tables, NEW k \in DOMAIN handlers'[where]
        PROVE  HandlerFits(where, handlers[where][k])'
    <3>1. PICK h : h = handlers'[where][k]
      OBVIOUS
    <3>2. \/ h.kind = "api" /\ \E i \in CallIds(where) : h.endpoint = apiRoutes[i].endpoint
          \/ h.kind = "builtin" /\ where = "get"
          \/ \E i \in FileIds : /\ h.kind \in FileKinds /\ HomeOf(h.kind) = where
                                /\ h.id = i /\ h.endpoint = routes[i].endpoint
      BY <1>4, <3>1
    <3>3. CASE h.kind = "api" /\ \E i \in CallIds(where) : h.endpoint = apiRoutes[i].endpoint
      BY <1>5, <3>1, <3>3 DEF HandlerFits
    <3>4. CASE h.kind = "builtin" /\ where = "get"
      BY <3>1, <3>4 DEF HandlerFits
    <3>5. CASE \E i \in FileIds : /\ h.kind \in FileKinds /\ HomeOf(h.kind) = where
                                  /\ h.id = i /\ h.endpoint = routes[i].endpoint
      BY <1>7, <3>1, <3>5
    <3>6. QED
      BY <3>2, <3>3, <3>4, <3>5
  <2>3. QED
    BY <1>2, <2>1, <2>2 DEF TablesFit
<1>9. TablesComplete'
  <2>1. ASSUME NEW i \in FileIds, NEW kind \in FileKinds
        PROVE  InPlace(HomeOf(kind), kind, routes[i].endpoint)'
    <3>1. PICK endpoint : endpoint = routes[i].endpoint
      OBVIOUS
    <3>2. CASE kind = "upload"
      BY <1>2, <1>3, <3>1, <3>2 DEF InPlace, HomeOf
    <3>3. CASE kind # "upload"
      <4>1. HomeOf(kind) \in Tables
        BY <3>3 DEF HomeOf, Tables
      <4>2. QED
        BY <1>2, <1>4, <3>1, <4>1 DEF InPlace
    <3>4. QED
      BY <3>2, <3>3
  <2>2. ASSUME NEW i \in ApiIds, apiRoutes[i].registered
        PROVE  InPlace(TableOf(apiRoutes[i].method), "api", apiRoutes[i].endpoint)'
    <3>1. PICK endpoint, where : /\ endpoint = apiRoutes[i].endpoint
                                 /\ where = TableOf(apiRoutes[i].method)
      OBVIOUS
    <3>2. apiRoutes[i].method \in Methods /\ where \in Tables /\ i \in CallIds(where)
      BY <1>5, <2>2, <3>1, TableOfMethod DEF TypeOK, APIRoute
    <3>3. InPlace(where, "api", endpoint)'
      BY <1>4, <3>1, <3>2 DEF InPlace
    <3>4. endpoint = apiRoutes[i].endpoint' /\ where = TableOf(apiRoutes[i].method)'
      BY <1>2, <3>1 DEF TableOf
    <3>5. QED
      BY <3>3, <3>4
  <2>3. QED
    BY <1>2, <1>5, <2>1, <2>2 DEF TablesComplete
<1>10. QED
  BY <1>6, <1>8, <1>9 DEF MapInv

\* A stopped server has no handlers.
LEMMA StopStep ==
  ASSUME TypeOK, MapInv, StopHttpServer
  PROVE  MapInv'
<1> USE DEF routeVars, apiVars, historyVars
<1>1. /\ todo = <<>> /\ todo' = <<>> /\ ~isRunning' /\ readers' = <<>>
      /\ handlers' = [k \in Tables |-> <<>>]
      /\ UNCHANGED <<routes, nextRouteId, apiRoutes, nextApiRouteId>>
  BY DEF StopHttpServer
<1>2. RoutesFit' /\ TablesFit' /\ TablesComplete'
  BY <1>1 DEF MapInv, RoutesFit, TablesFit, TablesComplete
<1>3. QED
  BY <1>2 DEF MapInv

-----------------------------------------------------------------------------
(* The threads while a native runs.                                        *)

\* What it means to be entitled.
LEMMA EntitledIs ==
  ASSUME NEW files, NEW apis, NEW r, NEW i
  PROVE  /\ <<"file", i>> \in Entitled(files, apis, r) <=>
               i \in RouteIds /\ FileGrants(files[i], r)
         /\ <<"api", i>> \in Entitled(files, apis, r) <=>
               i \in ApiIds /\ ApiGrants(apis[i], r)
BY DEF Entitled

\* An API route that is registered before and after keeps its method.
MethodsStay ==
    \A i \in ApiIds : apiRoutes[i].registered /\ apiRoutes'[i].registered =>
                         apiRoutes'[i].method = apiRoutes[i].method

\* A native keeps what is known of each thread.
LEMMA ScriptThreads ==
  ASSUME TypeOK, UNCHANGED threadVars, Observe, isRunning' = isRunning,
         retired \subseteq retired', FitsStay, MethodsStay,
         NEW t \in Threads, ThreadInv(t)
  PROVE  ThreadInv(t)'
<1> USE DEF threadVars
<1>1. UNCHANGED <<pc, request, handler, copy, apiCopy, answer, via>>
  OBVIOUS
<1>2. /\ granted[t] \subseteq granted'[t] /\ kept'[t] \subseteq kept[t]
      /\ Waiting(t) =>
            /\ Entitled(routes', apiRoutes', request[t]) \subseteq granted'[t]
            /\ kept'[t] \subseteq Entitled(routes', apiRoutes', request[t])
            /\ kept'[t] # {} => todo' = <<>>
  BY DEF Observe, TypeOK
<1>3. HistoryFits(t)'
  BY <1>1, <1>2 DEF HistoryFits, Waiting
<1>4. HandlerFound(t)'
  <2>1. CASE pc[t] \in {"lookup", "serve"}
    <3>1. PICK h, where : h = handler[t] /\ where = HomeOf(h.kind)
      OBVIOUS
    <3>2. /\ h \in Handlers /\ HandlerFits(where, h) /\ where \in Tables \cup {"readers"}
          /\ h.kind \in FileKinds /\ h.kind = Asks(request[t]) /\ h.endpoint = request[t].path[1]
      BY <2>1, <3>1 DEF ThreadInv, HandlerFound, TypeOK, HomeOf, Tables
    <3>3. HandlerFits(where, h)'
      BY <3>2 DEF FitsStay
    <3>4. h = handler'[t] /\ where = HomeOf(handler'[t].kind)
      BY <1>1, <3>1
    <3>5. QED
      BY <1>1, <3>2, <3>3, <3>4 DEF HandlerFound
  <2>2. CASE pc[t] \notin {"lookup", "serve"}
    BY <1>1, <2>2 DEF HandlerFound
  <2>3. QED
    BY <2>1, <2>2
<1>5. CopyTaken(t)'
  BY <1>1, <1>2 DEF ThreadInv, CopyTaken
<1>6. ScanFits(t)'
  <2>1. ASSUME pc[t] = "matchGet", NEW i \in ApiIds, <<"api", i>> \in kept'[t]
        PROVE  apiRoutes'[i].method # "HEAD"
    <3>1. /\ <<"api", i>> \in kept[t] /\ <<"api", i>> \in Entitled(routes, apiRoutes, request[t])
          /\ <<"api", i>> \in Entitled(routes', apiRoutes', request[t])
      BY <1>2, <2>1 DEF ThreadInv, HistoryFits, Waiting
    <3>2. ApiGrants(apiRoutes[i], request[t]) /\ ApiGrants(apiRoutes'[i], request[t])
      BY <3>1, EntitledIs, Zenon
    <3>3. apiRoutes[i].registered /\ apiRoutes'[i].registered
      BY <3>2 DEF ApiGrants, ApiMatches
    <3>4. QED
      BY <2>1, <3>1, <3>3 DEF MethodsStay, ThreadInv, ScanFits
  <2>2. QED
    BY <1>1, <1>2, <2>1 DEF ThreadInv, ScanFits
<1>7. Granted(t)'
  BY <1>1, <1>2 DEF ThreadInv, Granted, Did
<1>8. Explained(t)'
  BY <1>1, <1>2 DEF ThreadInv, Explained, Refused
<1>9. QED
  BY <1>1, <1>3, <1>4, <1>5, <1>6, <1>7, <1>8 DEF ThreadInv

\* A step of another thread, or one that leaves a thread and the maps alone.
LEMMA SameThread ==
  ASSUME ScriptIdle, NEW t \in Threads, ThreadInv(t),
         pc'[t] = pc[t], request'[t] = request[t], handler'[t] = handler[t],
         copy'[t] = copy[t], apiCopy'[t] = apiCopy[t], answer'[t] = answer[t], via'[t] = via[t],
         granted'[t] = granted[t], kept'[t] = kept[t]
  PROVE  ThreadInv(t)'
<1>1. UNCHANGED <<routes, nextRouteId, apiRoutes, nextApiRouteId, isRunning, readers, handlers,
                  todo, retired>>
  BY DEF ScriptIdle, routeVars, apiVars, serverVars
<1>2. HistoryFits(t)'
  BY <1>1 DEF ThreadInv, HistoryFits, Waiting
<1>3. HandlerFound(t)'
  BY <1>1 DEF ThreadInv, HandlerFound, HandlerFits
<1>4. CopyTaken(t)' /\ ScanFits(t)'
  BY <1>1 DEF ThreadInv, CopyTaken, ScanFits
<1>5. Granted(t)' /\ Explained(t)'
  BY <1>1 DEF ThreadInv, Granted, Did, Explained, Refused
<1>6. QED
  BY <1>1, <1>2, <1>3, <1>4, <1>5 DEF ThreadInv

\* The maps stay when a thread serves its request.
LEMMA MapsIdle ==
  ASSUME ScriptIdle, MapInv
  PROVE  MapInv'
<1>1. UNCHANGED <<routes, nextRouteId, apiRoutes, nextApiRouteId, isRunning, readers, handlers,
                  todo, retired>>
  BY DEF ScriptIdle, routeVars, apiVars, serverVars
<1>2. RoutesFit'
  BY <1>1 DEF MapInv, RoutesFit
<1>3. TablesFit'
  BY <1>1 DEF MapInv, TablesFit, HandlerFits
<1>4. TablesComplete'
  BY <1>1 DEF MapInv, TablesComplete, InPlace
<1>5. QED
  BY <1>2, <1>3, <1>4 DEF MapInv

-----------------------------------------------------------------------------
(* A thread and its request.                                               *)

Refusals == {"no handler", "route not found", "endpoint not found", "forbidden", "unauthorized"}

\* An answer ends the service.  What has to be shown is that it was
\* granted, or that the refusal has a reason.
LEMMA Answered ==
  ASSUME TypeOK, NEW t \in Threads, ThreadInv(t), pc[t] # "idle",
         ScriptIdle, UNCHANGED <<request, granted, kept>>,
         NEW what, NEW id, Answer(t, what, id),
         what \in {"served", "failed"} => <<"file", id>> \in granted[t],
         what = "callback" => <<"api", id>> \in granted[t],
         what \in Refusals =>
            /\ \A i \in RouteIds : <<"file", i>> \in kept[t] =>
                  \/ ApiOnPath(request[t].path)
                  \/ /\ id \notin {i, NoId}
                     /\ what = "route not found" => request[t].path[1] \in retired
            /\ \A i \in ApiIds : <<"api", i>> \in kept[t] =>
                  \/ FileOnPath(request[t].path)
                  \/ what = "unauthorized" /\ id # i
  PROVE  ThreadInv(t)'
<1>1. isRunning' = isRunning /\ retired' = retired
  BY DEF ScriptIdle, serverVars
<1>2. pc'[t] = "done" /\ answer'[t] = what /\ via'[t] = id
  BY DEF Answer, TypeOK
<1>3. HistoryFits(t)' /\ HandlerFound(t)' /\ CopyTaken(t)' /\ ScanFits(t)'
  BY <1>2 DEF HistoryFits, Waiting, HandlerFound, CopyTaken, ScanFits
<1>4. Granted(t)'
  BY <1>2 DEF Granted, Did
<1>5. Explained(t)'
  BY <1>1, <1>2 DEF Explained, Refused, Refusals
<1>6. QED
  BY <1>1, <1>2, <1>3, <1>4, <1>5 DEF ThreadInv

\* A step that does not answer yet.
LEMMA StillServed ==
  ASSUME TypeOK, NEW t \in Threads, ThreadInv(t), Waiting(t), ScriptIdle,
         UNCHANGED <<request, granted, kept, answer>>, Waiting(t)',
         HandlerFound(t)', CopyTaken(t)', ScanFits(t)'
  PROVE  ThreadInv(t)'
<1>1. UNCHANGED <<routes, apiRoutes, todo, isRunning, retired>>
  BY DEF ScriptIdle, routeVars, apiVars, serverVars
<1>2. pc[t] # "idle" /\ answer[t] = "pending" /\ answer'[t] = "pending"
  BY DEF ThreadInv, Waiting
<1>3. HistoryFits(t)'
  BY <1>1 DEF ThreadInv, HistoryFits
<1>4. Granted(t)' /\ Explained(t)'
  BY <1>2 DEF Granted, Explained, Refused
<1>5. QED
  BY <1>1, <1>2, <1>3, <1>4 DEF ThreadInv

\* A request arrives.
LEMMA ArriveStep ==
  ASSUME TypeOK, NEW t \in Threads, ThreadInv(t), NEW r \in Requests, Arrive(t, r)
  PROVE  ThreadInv(t)'
<1>1. /\ pc[t] = "idle" /\ isRunning /\ UNCHANGED <<routes, apiRoutes, todo, isRunning>>
      /\ pc'[t] = "dispatch" /\ request'[t] = r /\ answer'[t] = answer[t]
      /\ granted'[t] = Entitled(routes, apiRoutes, r)
      /\ kept'[t] = IF todo = <<>> THEN Entitled(routes, apiRoutes, r) ELSE {}
  BY DEF Arrive, ScriptIdle, routeVars, apiVars, serverVars, TypeOK
<1>2. answer'[t] = "pending"
  BY <1>1 DEF ThreadInv
<1>3. HistoryFits(t)'
  BY <1>1 DEF HistoryFits
<1>4. HandlerFound(t)' /\ CopyTaken(t)' /\ ScanFits(t)' /\ Granted(t)' /\ Explained(t)'
  BY <1>1, <1>2 DEF HandlerFound, CopyTaken, ScanFits, Granted, Explained, Refused
<1>5. QED
  BY <1>1, <1>2, <1>3, <1>4 DEF ThreadInv

\* The handler that the search finds fits the table it is in and matches
\* the path.
LEMMA FoundFits ==
  ASSUME TypeOK, MapInv, NEW r \in Requests, NEW h \in Found(r), h # NoHandler
  PROVE  \E where \in {"readers", TableOf(r.method)} :
            /\ HandlerFits(where, h) /\ Matches(h, r.path)
            /\ where = "readers" => r.method = "POST"
<1>1. TableOf(r.method) \in Tables
  BY TableOfMethod, RequestsAssumption
<1>2. readers \in Seq(Handlers) /\ handlers[TableOf(r.method)] \in Seq(Handlers)
  BY <1>1 DEF TypeOK
<1>3. \/ r.method = "POST" /\ h = FirstMatch(readers, r.path)
      \/ h = FirstMatch(handlers[TableOf(r.method)], r.path)
  BY DEF Found
<1>4. CASE r.method = "POST" /\ h = FirstMatch(readers, r.path)
  <2>1. PICK i \in DOMAIN readers : h = readers[i] /\ Matches(h, r.path)
    BY <1>2, <1>4, FirstMatchIs
  <2>2. HandlerFits("readers", h)
    BY <2>1 DEF MapInv, TablesFit
  <2>3. QED
    BY <1>4, <2>1, <2>2
<1>5. CASE h = FirstMatch(handlers[TableOf(r.method)], r.path)
  <2>1. PICK i \in DOMAIN handlers[TableOf(r.method)] :
           h = handlers[TableOf(r.method)][i] /\ Matches(h, r.path)
    BY <1>2, <1>5, FirstMatchIs
  <2>2. HandlerFits(TableOf(r.method), h) /\ TableOf(r.method) # "readers"
    BY <1>1, <2>1 DEF MapInv, TablesFit, Tables
  <2>3. QED
    BY <2>1, <2>2
<1>6. QED
  BY <1>3, <1>4, <1>5

\* A handler on the path in the table that is searched: something is found.
LEMMA SomethingFound ==
  ASSUME TypeOK, MapInv, NEW r \in Requests, todo = <<>>, isRunning,
         NEW where, NEW kind, NEW endpoint, InPlace(where, kind, endpoint),
         (where = "readers" /\ r.method = "POST") \/ where = TableOf(r.method),
         Matches([kind |-> kind, id |-> NoId, endpoint |-> endpoint], r.path)
  PROVE  NoHandler \notin Found(r)
<1>1. TableOf(r.method) \in Tables
  BY TableOfMethod, RequestsAssumption
<1>2. readers \in Seq(Handlers) /\ handlers[TableOf(r.method)] \in Seq(Handlers)
  BY <1>1 DEF TypeOK
<1>3. \A h : h.kind = kind /\ h.endpoint = endpoint => Matches(h, r.path)
  BY DEF Matches
<1>4. ASSUME NEW table \in Seq(Handlers), NEW k \in DOMAIN table,
             table[k].kind = kind, table[k].endpoint = endpoint, NEW at \in Tables \cup {"readers"},
             \A j \in DOMAIN table : HandlerFits(at, table[j])
      PROVE  FirstMatch(table, r.path) # NoHandler
  <2>1. k \in MatchingIn(table, r.path)
    BY <1>3, <1>4 DEF MatchingIn
  <2>2. PICK i \in DOMAIN table : FirstMatch(table, r.path) = table[i]
    BY <2>1, FirstMatchIs
  <2>3. table[i].kind # "none"
    BY <1>4 DEF HandlerFits, FileKinds
  <2>4. QED
    BY <2>2, <2>3 DEF NoHandler
<1>5. CASE where = "readers" /\ r.method = "POST"
  <2>1. PICK k \in DOMAIN readers : readers[k].kind = kind /\ readers[k].endpoint = endpoint
    BY <1>5 DEF InPlace, Tables
  <2>2. FirstMatch(readers, r.path) # NoHandler
    BY <1>2, <1>4, <2>1 DEF MapInv, TablesFit
  <2>3. QED
    BY <1>5, <2>2 DEF Found
<1>6. CASE where = TableOf(r.method)
  <2>1. where # "readers"
    BY <1>1, <1>6 DEF Tables
  <2>2. PICK k \in DOMAIN handlers[where] :
           handlers[where][k].kind = kind /\ handlers[where][k].endpoint = endpoint
    BY <2>1 DEF InPlace
  <2>3. FirstMatch(handlers[where], r.path) # NoHandler
    BY <1>1, <1>2, <1>4, <1>6, <2>2 DEF MapInv, TablesFit
  <2>4. QED
    BY <1>6, <2>3 DEF Found
<1>7. QED
  BY <1>5, <1>6

\* A route that grants a request and has its handlers in place is found, or
\* another one is.
LEMMA GrantedIsFound ==
  ASSUME TypeOK, MapInv, NEW r \in Requests, todo = <<>>, isRunning,
         Entitled(routes, apiRoutes, r) # {}
  PROVE  NoHandler \notin Found(r)
<1>1. /\ r.method \in Methods /\ r.path = <<r.path[1], r.path[2]>> /\ r.path[2] \in Subs
  BY RequestsAssumption
<1>2. ASSUME NEW i \in RouteIds, FileGrants(routes[i], r) PROVE NoHandler \notin Found(r)
  <2>1. /\ routes[i].registered /\ routes[i].endpoint = r.path[1]
        /\ Asks(r) \in {"upload"} \cup routes[i].allow
    BY <1>2 DEF FileGrants
  <2>2. routes[i].allow \subseteq Operations
    BY DEF TypeOK, UploadRoute
  <2>3. Asks(r) \in FileKinds
    BY <2>1, <2>2 DEF Operations, FileKinds
  <2>4. InPlace(HomeOf(Asks(r)), Asks(r), r.path[1])
    BY <2>1, <2>3 DEF MapInv, TablesComplete
  <2>5. /\ \/ HomeOf(Asks(r)) = "readers" /\ r.method = "POST"
           \/ HomeOf(Asks(r)) = TableOf(r.method)
        /\ Matches([kind |-> Asks(r), id |-> NoId, endpoint |-> r.path[1]], r.path)
    <3>1. \/ Asks(r) = "upload" /\ r.method = "POST" /\ r.path[2] = "upload"
          \/ Asks(r) = "list" /\ TableOf(r.method) = "get" /\ r.path[2] = "files"
          \/ Asks(r) = "download" /\ TableOf(r.method) = "get" /\ r.path[2] = "file"
          \/ Asks(r) = "info" /\ TableOf(r.method) = "get" /\ r.path[2] = "info"
          \/ Asks(r) = "delete" /\ TableOf(r.method) = "delete" /\ r.path[2] \in {"file", "info"}
      BY <2>3, TableOfMethod DEF Asks, FileKinds
    <3>2. QED
      BY <1>1, <3>1 DEF HomeOf, Matches
  <2>6. QED
    BY <2>4, <2>5, SomethingFound
<1>3. ASSUME NEW i \in ApiIds, ApiGrants(apiRoutes[i], r) PROVE NoHandler \notin Found(r)
  <2>1. /\ apiRoutes[i].registered /\ r.path \in Covers[apiRoutes[i].endpoint]
        /\ TableOf(apiRoutes[i].method) = TableOf(r.method)
    BY <1>3, TableOfMethod DEF ApiGrants, ApiMatches
  <2>2. InPlace(TableOf(r.method), "api", apiRoutes[i].endpoint)
    BY <2>1 DEF MapInv, TablesComplete
  <2>3. Matches([kind |-> "api", id |-> NoId, endpoint |-> apiRoutes[i].endpoint], r.path)
    BY <2>1 DEF Matches
  <2>4. QED
    BY <2>2, <2>3, SomethingFound
<1>4. QED
  BY <1>2, <1>3 DEF Entitled

\* The search for a handler.  When it finds none, no route has granted the
\* request ever since it came.
LEMMA DispatchStep ==
  ASSUME TypeOK, MapInv, NEW t \in Threads, ThreadInv(t), Dispatch(t)
  PROVE  ThreadInv(t)'
<1> DEFINE r == request[t]
<1>1. /\ pc[t] = "dispatch" /\ isRunning /\ r \in Requests /\ ScriptIdle
      /\ UNCHANGED <<request, granted, kept, copy, apiCopy>>
  BY DEF Dispatch, ThreadInv
<1>2. PICK h \in Found(r) :
          /\ handler' = [handler EXCEPT ![t] = h]
          /\ CASE h = NoHandler -> Answer(t, "no handler", NoId)
               [] h.kind = "builtin" -> Answer(t, "built in", NoId)
               [] h.kind = "download" /\ r.path[2] = "info" -> Answer(t, "empty", h.id)
               [] h.kind = "api" ->
                     pc' = [pc EXCEPT ![t] = "match"] /\ UNCHANGED <<answer, via>>
               [] OTHER ->
                     pc' = [pc EXCEPT ![t] = "lookup"] /\ UNCHANGED <<answer, via>>
  BY DEF Dispatch
<1>3. /\ r.method \in Methods /\ r.path = <<r.path[1], r.path[2]>> /\ r.path[2] \in Subs
  BY <1>1, RequestsAssumption
<1>4. NoHandler.kind = "none"
  BY DEF NoHandler
<1>5. CASE h = NoHandler
  <2>1. Answer(t, "no handler", NoId)
    BY <1>2, <1>4, <1>5
  <2>2. kept[t] = {}
    <3>1. ASSUME kept[t] # {} PROVE FALSE
      <4>1. todo = <<>> /\ Entitled(routes, apiRoutes, r) # {}
        BY <1>1, <3>1 DEF ThreadInv, HistoryFits, Waiting
      <4>2. NoHandler \notin Found(r)
        BY <1>1, <4>1, GrantedIsFound
      <4>3. QED
        BY <1>5, <4>2
    <3>2. QED
      BY <3>1
  <2>3. QED
    BY <1>1, <2>1, <2>2, Answered
<1> DEFINE toLookUp == /\ pc' = [pc EXCEPT ![t] = "lookup"] /\ UNCHANGED <<answer, via>>
                       /\ h.kind \notin {"builtin", "api"}
                       /\ ~(h.kind = "download" /\ r.path[2] = "info")
<1>6. CASE h # NoHandler
  <2>1. PICK where \in {"readers", TableOf(r.method)} :
            /\ HandlerFits(where, h) /\ Matches(h, r.path)
            /\ where = "readers" => r.method = "POST"
    BY <1>1, <1>6, FoundFits
  <2>2. \/ Answer(t, "built in", NoId)
        \/ Answer(t, "empty", h.id)
        \/ /\ h.kind = "api" /\ pc' = [pc EXCEPT ![t] = "match"] /\ UNCHANGED <<answer, via>>
        \/ toLookUp
    BY <1>2, <1>6
  <2>3. CASE Answer(t, "built in", NoId)
    BY <1>1, <2>3, Answered DEF Refusals
  <2>4. CASE Answer(t, "empty", h.id)
    BY <1>1, <2>4, Answered DEF Refusals
  <2>5. CASE h.kind = "api" /\ pc' = [pc EXCEPT ![t] = "match"] /\ UNCHANGED <<answer, via>>
    <3>1. pc'[t] = "match"
      BY <2>5 DEF TypeOK
    <3>2. h.endpoint \in ApiEndpoints /\ r.path \in Covers[h.endpoint]
      BY <2>1, <2>5 DEF HandlerFits, Matches, FileKinds
    <3>3. HandlerFound(t)' /\ CopyTaken(t)' /\ ScanFits(t)'
      BY <1>1, <3>1, <3>2 DEF HandlerFound, CopyTaken, ScanFits, ApiOnPath
    <3>4. Waiting(t) /\ Waiting(t)' /\ UNCHANGED answer
      BY <1>1, <2>5, <3>1 DEF Waiting
    <3>5. QED
      BY <1>1, <3>3, <3>4, StillServed
  <2>6. CASE toLookUp
    <3>1. pc'[t] = "lookup" /\ handler'[t] = h
      BY <1>2, <2>6 DEF TypeOK
    <3>2. h.kind \in FileKinds /\ where = HomeOf(h.kind)
      BY <2>1, <2>6 DEF HandlerFits
    <3>3. h.kind = Asks(r) /\ h.endpoint = r.path[1]
      <4>1. /\ where = "readers" => r.method = "POST"
            /\ where = "get" => r.method \in {"GET", "HEAD"}
            /\ where = "delete" => r.method = "DELETE"
        BY <1>3, <2>1, TableOfMethod DEF Methods
      <4>2. CASE h.kind = "upload"
        <5>1. r.method = "POST" /\ r.path = <<h.endpoint, "upload">>
          BY <2>1, <3>2, <4>1, <4>2 DEF HomeOf, Matches
        <5>2. QED
          BY <4>2, <5>1 DEF Asks
      <4>3. CASE h.kind = "list"
        <5>1. r.method \in {"GET", "HEAD"} /\ r.path = <<h.endpoint, "files">>
          BY <2>1, <3>2, <4>1, <4>3 DEF HomeOf, Matches
        <5>2. QED
          BY <4>3, <5>1 DEF Asks
      <4>4. CASE h.kind = "download"
        <5>1. r.method \in {"GET", "HEAD"} /\ r.path = <<h.endpoint, "file">>
          BY <2>1, <2>6, <3>2, <4>1, <4>4 DEF HomeOf, Matches
        <5>2. QED
          BY <4>4, <5>1 DEF Asks
      <4>5. CASE h.kind = "info"
        <5>1. r.method \in {"GET", "HEAD"} /\ r.path = <<h.endpoint, "info">>
          BY <2>1, <3>2, <4>1, <4>5 DEF HomeOf, Matches
        <5>2. QED
          BY <4>5, <5>1 DEF Asks
      <4>6. CASE h.kind = "delete"
        <5>1. /\ r.method = "DELETE"
              /\ r.path \in {<<h.endpoint, "file">>, <<h.endpoint, "info">>}
          BY <2>1, <3>2, <4>1, <4>6 DEF HomeOf, Matches
        <5>2. QED
          BY <4>6, <5>1 DEF Asks
      <4>7. QED
        BY <3>2, <4>2, <4>3, <4>4, <4>5, <4>6 DEF FileKinds
    <3>4. HandlerFound(t)'
      <4>1. HandlerFits(where, h)'
        BY <1>1, <2>1 DEF HandlerFits, ScriptIdle, routeVars, apiVars, serverVars
      <4>2. where = HomeOf(handler'[t].kind) /\ h = handler'[t]
        BY <3>1, <3>2
      <4>3. QED
        BY <1>1, <3>1, <3>2, <3>3, <4>1, <4>2 DEF HandlerFound
    <3>5. CopyTaken(t)' /\ ScanFits(t)'
      BY <3>1 DEF CopyTaken, ScanFits
    <3>6. Waiting(t) /\ Waiting(t)' /\ UNCHANGED answer
      BY <1>1, <2>6, <3>1 DEF Waiting
    <3>7. QED
      BY <1>1, <3>4, <3>5, <3>6, StillServed
  <2>7. QED
    BY <2>2, <2>3, <2>4, <2>5, <2>6
<1>7. QED
  BY <1>5, <1>6

\* The route is looked up again and copied.
LEMMA LookUpStep ==
  ASSUME TypeOK, NEW t \in Threads, ThreadInv(t), LookUp(t)
  PROVE  ThreadInv(t)'
<1> DEFINE r  == request[t]
           id == handler[t].id
<1>1. /\ pc[t] = "lookup" /\ ScriptIdle /\ UNCHANGED <<request, handler, apiCopy, granted, kept>>
      /\ copy' = [copy EXCEPT ![t] = routes[id]]
  BY DEF LookUp
<1>2. /\ id \in RouteIds /\ handler[t].endpoint \in Endpoints
      /\ handler[t].endpoint = r.path[1]
      /\ IF routes[id].registered THEN routes[id].endpoint = handler[t].endpoint
                                  ELSE handler[t].endpoint \in retired
  BY <1>1 DEF ThreadInv, HandlerFound, HandlerFits, FileKinds
<1>3. /\ Entitled(routes, apiRoutes, r) \subseteq granted[t]
      /\ kept[t] \subseteq Entitled(routes, apiRoutes, r)
  BY <1>1 DEF ThreadInv, HistoryFits, Waiting
<1>4. CASE routes[id].registered
  <2>1. pc'[t] = "serve" /\ copy'[t] = routes[id] /\ UNCHANGED answer
    BY <1>1, <1>4 DEF LookUp, TypeOK
  <2>2. /\ FileGrants(routes[id], r) => <<"file", id>> \in granted[t]
        /\ <<"file", id>> \in kept[t] => FileGrants(routes[id], r)
    <3>1. /\ <<"file", id>> \in Entitled(routes, apiRoutes, r) <=> FileGrants(routes[id], r)
      BY <1>2, EntitledIs, Zenon
    <3>2. QED
      BY <1>3, <3>1
  <2>3. CopyTaken(t)'
    <3>1. request'[t] = r /\ handler'[t] = handler[t] /\ granted' = granted /\ kept' = kept
      BY <1>1
    <3>2. QED
      BY <1>2, <1>4, <2>1, <2>2, <3>1 DEF CopyTaken
  <2>4. HandlerFound(t)'
    BY <1>1, <2>1
       DEF ThreadInv, HandlerFound, HandlerFits, ScriptIdle, routeVars, apiVars, serverVars
  <2>5. ScanFits(t)' /\ Waiting(t) /\ Waiting(t)'
    BY <1>1, <2>1 DEF ScanFits, Waiting
  <2>6. QED
    BY <1>1, <2>1, <2>3, <2>4, <2>5, StillServed
<1>5. CASE ~routes[id].registered
  <2>1. Answer(t, "route not found", id)
    BY <1>1, <1>5 DEF LookUp
  <2>2. ASSUME NEW i \in RouteIds, <<"file", i>> \in kept[t]
        PROVE  id \notin {i, NoId} /\ r.path[1] \in retired
    <3>1. <<"file", i>> \in Entitled(routes, apiRoutes, r)
      BY <1>3, <2>2
    <3>2. FileGrants(routes[i], r)
      BY <3>1, EntitledIs, Zenon
    <3>3. routes[i].registered
      BY <3>2 DEF FileGrants
    <3>4. QED
      BY <1>2, <1>5, <3>3 DEF RouteIds, NoId
  <2>3. FileOnPath(r.path)
    BY <1>2 DEF FileOnPath
  <2>4. QED
    BY <1>1, <2>1, <2>2, <2>3, Answered
<1>6. QED
  BY <1>4, <1>5

\* The answer of an operation on files follows from the copy of the route.
LEMMA ServeFileStep ==
  ASSUME TypeOK, NEW t \in Threads, ThreadInv(t), NEW kind \in FileKinds, NEW allowed,
         allowed <=> kind \in {"upload"} \cup copy[t].allow, ServeFile(t, kind, allowed)
  PROVE  ThreadInv(t)'
<1> DEFINE r  == request[t]
           id == handler[t].id
<1>1. /\ pc[t] = "serve" /\ handler[t].kind = kind
      /\ ScriptIdle /\ UNCHANGED <<request, handler, copy, apiCopy, granted, kept>>
      /\ \/ ~allowed /\ Answer(t, "forbidden", id)
         \/ allowed /\ ~KeyFits(copy[t].keys, r.key) /\ Answer(t, "unauthorized", id)
         \/ /\ allowed /\ KeyFits(copy[t].keys, r.key)
            /\ \E outcome \in {"served", "failed"} : Answer(t, outcome, id)
  BY DEF ServeFile, CheckFileRouteAuth
<1>2. /\ id \in RouteIds /\ handler[t].endpoint \in Endpoints
      /\ handler[t].endpoint = r.path[1] /\ kind = Asks(r)
  BY <1>1 DEF ThreadInv, HandlerFound, HandlerFits, FileKinds
<1>3. /\ copy[t].registered /\ copy[t].endpoint = r.path[1]
      /\ FileGrants(copy[t], r) => <<"file", id>> \in granted[t]
      /\ <<"file", id>> \in kept[t] => FileGrants(copy[t], r)
  BY <1>1, <1>2 DEF ThreadInv, CopyTaken
<1>4. FileGrants(copy[t], r) <=> allowed /\ KeyFits(copy[t].keys, r.key)
  BY <1>2, <1>3 DEF FileGrants
<1>5. FileOnPath(r.path) /\ id # NoId
  BY <1>2 DEF FileOnPath, RouteIds, NoId
<1>6. ASSUME NEW outcome \in {"served", "failed"}, Answer(t, outcome, id), FileGrants(copy[t], r)
      PROVE  ThreadInv(t)'
  <2>1. outcome \notin Refusals /\ outcome # "callback"
    BY DEF Refusals
  <2>2. QED
    BY <1>1, <1>3, <1>6, <2>1, Answered
<1>7. ASSUME NEW refusal \in {"forbidden", "unauthorized"}, Answer(t, refusal, id),
             ~FileGrants(copy[t], r)
      PROVE  ThreadInv(t)'
  <2>1. \A i \in RouteIds : <<"file", i>> \in kept[t] => id # i
    BY <1>3, <1>7
  <2>2. QED
    BY <1>1, <1>5, <1>7, <2>1, Answered
<1>8. QED
  BY <1>1, <1>4, <1>6, <1>7

\* A scan of the API routes.
LEMMA MatchStep ==
  ASSUME TypeOK, NEW t \in Threads, ThreadInv(t), HandleApiRequest(t)
  PROVE  ThreadInv(t)'
<1> DEFINE r == request[t]
<1>1. PICK from, method, otherwise :
         /\ MatchApiRoute(t, from, method, otherwise)
         /\ \/ /\ from = "match" /\ method = r.method
               /\ otherwise = IF r.method = "HEAD" THEN "matchGet" ELSE "done"
            \/ from = "matchGet" /\ method = "GET" /\ otherwise = "done"
  BY DEF HandleApiRequest
<1>2. /\ pc[t] = from /\ from \in {"match", "matchGet"} /\ ScriptIdle
      /\ UNCHANGED <<request, handler, copy, granted, kept>>
      /\ \/ \E i \in ScanFinds(t, method) :
               /\ apiCopy' = [apiCopy EXCEPT ![t] = apiRoutes[i]]
               /\ via' = [via EXCEPT ![t] = i] /\ pc' = [pc EXCEPT ![t] = "auth"]
               /\ UNCHANGED answer
         \/ /\ ScanFinds(t, method) = {} /\ UNCHANGED apiCopy
            /\ IF otherwise = "done"
               THEN Answer(t, "endpoint not found", NoId)
               ELSE pc' = [pc EXCEPT ![t] = otherwise] /\ UNCHANGED <<answer, via>>
  BY <1>1 DEF MatchApiRoute
<1>3. ApiOnPath(r.path)
  BY <1>2 DEF ThreadInv, ScanFits
<1>4. /\ Entitled(routes, apiRoutes, r) \subseteq granted[t]
      /\ kept[t] \subseteq Entitled(routes, apiRoutes, r)
  BY <1>2 DEF ThreadInv, HistoryFits, Waiting
<1>5. ASSUME NEW i \in ApiIds, <<"api", i>> \in kept[t] PROVE ApiGrants(apiRoutes[i], r)
  <2>1. <<"api", i>> \in Entitled(routes, apiRoutes, r)
    BY <1>4, <1>5
  <2>2. QED
    BY <2>1, EntitledIs, Zenon
<1>6. /\ method = r.method \/ (method = "GET" /\ r.method = "HEAD")
      /\ from = "matchGet" => r.method = "HEAD" /\ method = "GET"
  BY <1>1, <1>2 DEF ThreadInv, ScanFits
<1>7. ASSUME NEW i \in ScanFinds(t, method), apiCopy' = [apiCopy EXCEPT ![t] = apiRoutes[i]],
             via' = [via EXCEPT ![t] = i], pc' = [pc EXCEPT ![t] = "auth"], UNCHANGED answer
      PROVE  ThreadInv(t)'
  <2>1. i \in ApiIds /\ ApiMatches(apiRoutes[i], method, r.path)
    BY DEF ScanFinds
  <2>2. pc'[t] = "auth" /\ via'[t] = i /\ apiCopy'[t] = apiRoutes[i]
    BY <1>7 DEF TypeOK
  <2>3. KeyFits(apiRoutes[i].keys, r.key) => <<"api", i>> \in granted[t]
    <3>1. KeyFits(apiRoutes[i].keys, r.key) => ApiGrants(apiRoutes[i], r)
      BY <1>6, <2>1 DEF ApiGrants
    <3>2. ApiGrants(apiRoutes[i], r) => <<"api", i>> \in Entitled(routes, apiRoutes, r)
      BY <2>1, EntitledIs, Zenon
    <3>3. QED
      BY <1>4, <3>1, <3>2
  <2>4. <<"api", i>> \in kept[t] => KeyFits(apiRoutes[i].keys, r.key)
    BY <1>5, <2>1 DEF ApiGrants
  <2>5. ScanFits(t)'
    BY <1>2, <1>3, <2>1, <2>2, <2>3, <2>4 DEF ScanFits
  <2>6. HandlerFound(t)' /\ CopyTaken(t)' /\ Waiting(t) /\ Waiting(t)'
    BY <1>2, <2>2 DEF HandlerFound, CopyTaken, Waiting
  <2>7. QED
    BY <1>2, <1>7, <2>5, <2>6, StillServed
<1>8. ASSUME ScanFinds(t, method) = {}, NEW i \in ApiIds, <<"api", i>> \in kept[t]
      PROVE  method = "HEAD" /\ r.method = "HEAD" /\ apiRoutes[i].method # "HEAD"
  <2>1. ~ApiMatches(apiRoutes[i], method, r.path)
    BY <1>8 DEF ScanFinds
  <2>2. \/ ApiMatches(apiRoutes[i], r.method, r.path)
        \/ r.method = "HEAD" /\ ApiMatches(apiRoutes[i], "GET", r.path)
    BY <1>5, <1>8 DEF ApiGrants
  <2>3. from = "matchGet" => apiRoutes[i].method # "HEAD"
    BY <1>2, <1>8 DEF ThreadInv, ScanFits
  <2>4. QED
    BY <1>1, <1>6, <2>1, <2>2, <2>3 DEF ApiMatches
<1>9. CASE ScanFinds(t, method) = {} /\ otherwise = "done" /\ Answer(t, "endpoint not found", NoId)
  <2>1. method # "HEAD"
    BY <1>1, <1>9
  <2>2. \A i \in ApiIds : <<"api", i>> \notin kept[t]
    BY <1>8, <1>9, <2>1
  <2>3. QED
    BY <1>2, <1>3, <1>9, <2>2, Answered
<1>10. CASE /\ ScanFinds(t, method) = {} /\ otherwise # "done"
            /\ pc' = [pc EXCEPT ![t] = otherwise] /\ UNCHANGED <<answer, via>>
  <2>1. otherwise = "matchGet" /\ r.method = "HEAD"
    BY <1>1, <1>10
  <2>2. pc'[t] = "matchGet"
    BY <1>10, <2>1 DEF TypeOK
  <2>3. \A i \in ApiIds : <<"api", i>> \in kept[t] => apiRoutes[i].method # "HEAD"
    BY <1>8, <1>10
  <2>4. ScanFits(t)'
    BY <1>2, <1>3, <2>1, <2>2, <2>3 DEF ScanFits, ScriptIdle, apiVars
  <2>5. HandlerFound(t)' /\ CopyTaken(t)' /\ Waiting(t) /\ Waiting(t)'
    BY <1>2, <2>2 DEF HandlerFound, CopyTaken, Waiting
  <2>6. QED
    BY <1>2, <1>10, <2>4, <2>5, StillServed
<1>11. QED
  BY <1>2, <1>7, <1>9, <1>10

\* The key is compared with the copy of the API route.
LEMMA AuthStep ==
  ASSUME TypeOK, NEW t \in Threads, ThreadInv(t), CheckApiAuth(t)
  PROVE  ThreadInv(t)'
<1> DEFINE fits == KeyFits(apiCopy[t].keys, request[t].key)
<1>1. /\ pc[t] = "auth" /\ ScanFits(t) /\ ScriptIdle
      /\ UNCHANGED <<request, handler, copy, apiCopy, granted, kept>>
  BY DEF CheckApiAuth, ThreadInv
<1>2. /\ ApiOnPath(request[t].path)
      /\ fits => <<"api", via[t]>> \in granted[t]
      /\ <<"api", via[t]>> \in kept[t] => fits
  BY <1>1 DEF ScanFits
<1>3. CASE fits
  <2>1. Answer(t, "callback", via[t])
    BY <1>3 DEF CheckApiAuth
  <2>2. QED
    BY <1>1, <1>2, <1>3, <2>1, Answered DEF Refusals
<1>4. CASE ~fits
  <2>1. Answer(t, "unauthorized", via[t])
    BY <1>4 DEF CheckApiAuth
  <2>2. \A i \in ApiIds : <<"api", i>> \in kept[t] => via[t] # i
    BY <1>2, <1>4
  <2>3. QED
    BY <1>1, <1>2, <2>1, <2>2, Answered
<1>5. QED
  BY <1>3, <1>4

\* The thread is free again.
LEMMA FinishStep ==
  ASSUME TypeOK, NEW t \in Threads, Finish(t)
  PROVE  ThreadInv(t)'
<1>1. /\ pc'[t] = "idle" /\ answer'[t] = "pending"
  BY DEF Finish, TypeOK
<1>2. QED
  BY <1>1 DEF ThreadInv, HistoryFits, Waiting, HandlerFound, CopyTaken, ScanFits,
              Granted, Explained, Refused

\* The step of a thread keeps the invariant of each thread.
LEMMA ServeThreads ==
  ASSUME TypeOK, MapInv, \A u \in Threads : ThreadInv(u), NEW t \in Threads, Serve(t)
  PROVE  ScriptIdle /\ \A u \in Threads : ThreadInv(u)'
<1>1. ScriptIdle
  BY DEF Serve, Arrive, Dispatch, LookUp, HandleUpload, HandleFileList, HandleFileDownload,
         HandleFileDelete, ServeFile, HandleApiRequest, MatchApiRoute, CheckApiAuth, Finish
<1>2. ThreadInv(t)'
  <2>1. CASE \E r \in Requests : Arrive(t, r)
    BY <2>1, ArriveStep
  <2>2. CASE Dispatch(t)
    BY <2>2, DispatchStep
  <2>3. CASE LookUp(t)
    BY <2>3, LookUpStep
  <2>4. CASE HandleUpload(t)
    BY <2>4, ServeFileStep DEF HandleUpload, FileKinds
  <2>5. CASE HandleFileList(t)
    BY <2>5, ServeFileStep DEF HandleFileList, FileKinds
  <2>6. CASE HandleFileDownload(t)
    BY <2>6, ServeFileStep DEF HandleFileDownload, FileKinds
  <2>7. CASE HandleFileDelete(t)
    BY <2>7, ServeFileStep DEF HandleFileDelete, FileKinds
  <2>8. CASE HandleApiRequest(t)
    BY <2>8, MatchStep
  <2>9. CASE CheckApiAuth(t)
    BY <2>9, AuthStep
  <2>10. CASE Finish(t)
    BY <2>10, FinishStep
  <2>11. QED
    BY <2>1, <2>2, <2>3, <2>4, <2>5, <2>6, <2>7, <2>8, <2>9, <2>10 DEF Serve
<1>3. ASSUME NEW u \in Threads, u # t PROVE ThreadInv(u)'
  <2>1. /\ pc'[u] = pc[u] /\ request'[u] = request[u] /\ handler'[u] = handler[u]
        /\ copy'[u] = copy[u] /\ apiCopy'[u] = apiCopy[u] /\ answer'[u] = answer[u]
        /\ via'[u] = via[u] /\ granted'[u] = granted[u] /\ kept'[u] = kept[u]
    <3>1. CASE \E r \in Requests : Arrive(t, r)
      BY <1>3, <3>1 DEF Arrive, TypeOK
    <3>2. CASE Dispatch(t)
      <4>1. /\ UNCHANGED <<request, copy, apiCopy, granted, kept>>
            /\ \E h : handler' = [handler EXCEPT ![t] = h]
            /\ \/ \E what, id : Answer(t, what, id)
               \/ pc' = [pc EXCEPT ![t] = "match"] /\ UNCHANGED <<answer, via>>
               \/ pc' = [pc EXCEPT ![t] = "lookup"] /\ UNCHANGED <<answer, via>>
        BY <3>2 DEF Dispatch
      <4>2. QED
        BY <1>3, <4>1 DEF Answer, TypeOK
    <3>3. CASE LookUp(t)
      BY <1>3, <3>3 DEF LookUp, Answer, TypeOK
    <3>4. ASSUME NEW kind, NEW allowed, ServeFile(t, kind, allowed)
          PROVE  /\ pc'[u] = pc[u] /\ request'[u] = request[u] /\ handler'[u] = handler[u]
                 /\ copy'[u] = copy[u] /\ apiCopy'[u] = apiCopy[u] /\ answer'[u] = answer[u]
                 /\ via'[u] = via[u] /\ granted'[u] = granted[u] /\ kept'[u] = kept[u]
      BY <1>3, <3>4 DEF ServeFile, Answer, TypeOK
    <3>5. CASE HandleApiRequest(t)
      BY <1>3, <3>5 DEF HandleApiRequest, MatchApiRoute, Answer, TypeOK
    <3>6. CASE CheckApiAuth(t)
      BY <1>3, <3>6 DEF CheckApiAuth, Answer, TypeOK
    <3>7. CASE Finish(t)
      BY <1>3, <3>7 DEF Finish, TypeOK
    <3>8. QED
      BY <3>1, <3>2, <3>3, <3>4, <3>5, <3>6, <3>7
         DEF Serve, HandleUpload, HandleFileList, HandleFileDownload, HandleFileDelete
  <2>2. QED
    BY <1>1, <2>1, SameThread
<1>4. QED
  BY <1>1, <1>2, <1>3

\* An idle thread has nothing to show.
LEMMA IdleThread ==
  ASSUME NEW t \in Threads, pc'[t] = "idle", answer'[t] = "pending"
  PROVE  ThreadInv(t)'
BY DEF ThreadInv, HistoryFits, Waiting, HandlerFound, CopyTaken, ScanFits, Granted,
       Explained, Refused

\* A native keeps the maps and the threads in order.
LEMMA ScriptStep ==
  ASSUME TypeOK, MapInv, \A t \in Threads : ThreadInv(t), Script
  PROVE  MapInv' /\ \A t \in Threads : ThreadInv(t)'
<1> USE DEF routeVars, apiVars, serverVars, historyVars
<1> DEFINE Goal == MapInv' /\ \A t \in Threads : ThreadInv(t)'
<1>1. ASSUME UNCHANGED threadVars, Observe, isRunning' = isRunning, retired \subseteq retired',
             MapInv', FitsStay, MethodsStay
      PROVE  Goal
  BY <1>1, ScriptThreads
<1> HIDE DEF Goal
<1>2. \A i \in RouteIds : routes[i] \in UploadRoute
  BY DEF TypeOK
<1>3. ASSUME NEW e \in Endpoints, RegisterRoute(e) PROVE Goal
  <2>1. MapInv' /\ FitsStay
    BY <1>3, RegisterRouteStep
  <2>2. UNCHANGED threadVars /\ Observe /\ isRunning' = isRunning /\ retired' = retired
        /\ MethodsStay
    BY <1>3 DEF RegisterRoute, RegisterWith, MethodsStay
  <2>3. QED
    BY <1>1, <2>1, <2>2
<1>4. ASSUME NEW a \in ApiRoutes, RegisterApiRoute(a[1], a[2]) PROVE Goal
  <2>1. a[1] \in Methods /\ a[2] \in ApiEndpoints
    BY CoversAssumption
  <2>2. MapInv' /\ FitsStay
    BY <1>4, <2>1, RegisterApiRouteStep
  <2>3. UNCHANGED threadVars /\ Observe /\ isRunning' = isRunning /\ retired' = retired
    BY <1>4 DEF RegisterApiRoute
  <2>4. MethodsStay
    <3>1. ~apiRoutes[nextApiRouteId].registered
      BY <1>4 DEF RegisterApiRoute, MapInv, RoutesFit, TypeOK
    <3>2. \A i \in ApiIds : i # nextApiRouteId => apiRoutes'[i] = apiRoutes[i]
      BY <1>4 DEF RegisterApiRoute, TypeOK
    <3>3. QED
      BY <3>1, <3>2 DEF MethodsStay
  <2>5. QED
    BY <1>1, <2>2, <2>3, <2>4
<1>5. CASE AddHandler
  <2>1. MapInv' /\ FitsStay
    BY <1>5, AddHandlerStep
  <2>2. UNCHANGED threadVars /\ Observe /\ isRunning' = isRunning /\ retired' = retired
        /\ MethodsStay
    BY <1>5 DEF AddHandler, MethodsStay
  <2>3. retired \subseteq retired'
    BY <2>2
  <2>4. QED
    BY <1>1, <2>1, <2>2, <2>3, Zenon DEF Goal
<1>6. ASSUME NEW i \in RouteIds, RemoveRoute(i) PROVE Goal
  <2>1. /\ UNCHANGED <<nextRouteId, nextApiRouteId, serverVars>> /\ retired \subseteq retired'
        /\ UNCHANGED threadVars /\ Observe /\ apiRoutes' = apiRoutes
        /\ retired' = retired \cup {routes[i].endpoint}
    BY <1>6 DEF RemoveRoute
  <2>2. /\ ~routes'[i].registered /\ \A j \in RouteIds : j # i => routes'[j] = routes[j]
    BY <1>6 DEF RemoveRoute, TypeOK, NoUploadRoute
  <2>3. MapInv' /\ FitsStay
    <3>1. RoutesStay
      BY <2>1, <2>2 DEF RoutesStay
    <3>2. \A j \in RouteIds : routes[j].registered /\ ~routes'[j].registered =>
             routes[j].endpoint \in retired'
      BY <2>1, <2>2
    <3>3. QED
      BY <2>1, <3>1, <3>2, RemovalStep
  <2>4. MethodsStay
    BY <2>1 DEF MethodsStay
  <2>5. QED
    BY <1>1, <2>1, <2>3, <2>4
<1>7. ASSUME NEW i \in ApiIds, RemoveApiRoute(i) PROVE Goal
  <2>1. /\ UNCHANGED <<nextRouteId, nextApiRouteId, serverVars>> /\ retired' = retired
        /\ UNCHANGED threadVars /\ Observe /\ routes' = routes
    BY <1>7 DEF RemoveApiRoute
  <2>2. ~apiRoutes'[i].registered /\ \A j \in ApiIds : j # i => apiRoutes'[j] = apiRoutes[j]
    BY <1>7 DEF RemoveApiRoute, TypeOK, NoAPIRoute
  <2>3. RoutesStay /\ MethodsStay
    BY <2>1, <2>2 DEF RoutesStay, MethodsStay
  <2>4. MapInv' /\ FitsStay
    BY <2>1, <2>3, RemovalStep
  <2>5. QED
    BY <1>1, <2>1, <2>3, <2>4
<1>8. ASSUME NEW i \in RouteIds, NEW r, r.registered = routes[i].registered,
             r.endpoint = routes[i].endpoint, ChangeRoute(i, r)
      PROVE  Goal
  <2>1. /\ UNCHANGED <<nextRouteId, nextApiRouteId, serverVars>> /\ retired' = retired
        /\ UNCHANGED threadVars /\ Observe /\ apiRoutes' = apiRoutes
    BY <1>8 DEF ChangeRoute
  <2>2. routes'[i] = r /\ \A j \in RouteIds : j # i => routes'[j] = routes[j]
    BY <1>8 DEF ChangeRoute, TypeOK
  <2>3. \A j \in RouteIds : /\ routes'[j].registered = routes[j].registered
                            /\ routes'[j].endpoint = routes[j].endpoint
    BY <1>8, <2>2
  <2>4. RoutesStay /\ MethodsStay
    BY <2>1, <2>3 DEF RoutesStay, MethodsStay
  <2>5. MapInv' /\ FitsStay
    BY <2>1, <2>3, <2>4, RemovalStep
  <2>6. QED
    BY <1>1, <2>1, <2>4, <2>5
<1>9. ASSUME NEW i \in RouteIds, NEW x
      PROVE  /\ [routes[i] EXCEPT !.allow = x].registered = routes[i].registered
             /\ [routes[i] EXCEPT !.allow = x].endpoint = routes[i].endpoint
             /\ [routes[i] EXCEPT !.keys = x].registered = routes[i].registered
             /\ [routes[i] EXCEPT !.keys = x].endpoint = routes[i].endpoint
  BY <1>2 DEF UploadRoute
<1>10. ASSUME NEW i \in RouteIds, NEW o \in Operations, SetAllow(i, o) PROVE Goal
  BY <1>8, <1>9, <1>10 DEF SetAllow
<1>11. ASSUME NEW i \in RouteIds, NEW k \in Keys, AddKeyToRoute(i, k) \/ RemoveKeyFromRoute(i, k)
       PROVE  Goal
  BY <1>8, <1>9, <1>11 DEF AddKeyToRoute, RemoveKeyFromRoute
<1>12. ASSUME NEW i \in ApiIds, NEW k \in Keys, SetApiRouteAuth(i, k) PROVE Goal
  <2>1. /\ UNCHANGED <<nextRouteId, nextApiRouteId, serverVars>> /\ retired' = retired
        /\ UNCHANGED threadVars /\ Observe /\ routes' = routes
    BY <1>12 DEF SetApiRouteAuth
  <2>2. /\ apiRoutes'[i] = [apiRoutes[i] EXCEPT !.keys = @ \cup {k}]
        /\ \A j \in ApiIds : j # i => apiRoutes'[j] = apiRoutes[j]
    BY <1>12 DEF SetApiRouteAuth, TypeOK
  <2>3. apiRoutes[i] \in APIRoute
    BY DEF TypeOK
  <2>4. /\ apiRoutes'[i].registered = apiRoutes[i].registered
        /\ apiRoutes'[i].method = apiRoutes[i].method
        /\ apiRoutes'[i].endpoint = apiRoutes[i].endpoint
    BY <2>2, <2>3 DEF APIRoute
  <2>5. RoutesStay /\ MethodsStay
    BY <2>1, <2>2, <2>4 DEF RoutesStay, MethodsStay
  <2>6. MapInv' /\ FitsStay
    BY <2>1, <2>5, RemovalStep
  <2>7. QED
    BY <1>1, <2>1, <2>5, <2>6
<1>13. CASE Reset
  <2>1. /\ UNCHANGED <<nextRouteId, nextApiRouteId, serverVars>> /\ retired \subseteq retired'
        /\ UNCHANGED threadVars /\ Observe /\ apiRoutes' = apiRoutes
        /\ \A i \in RouteIds : ~routes'[i].registered
        /\ \A i \in RouteIds : routes[i].registered => routes[i].endpoint \in retired'
    BY <1>13 DEF Reset, NoUploadRoute
  <2>2. RoutesStay /\ MethodsStay
    BY <2>1 DEF RoutesStay, MethodsStay
  <2>3. MapInv' /\ FitsStay
    BY <2>1, <2>2, RemovalStep
  <2>4. isRunning' = isRunning
    BY <2>1
  <2>5. QED
    BY <1>1, <2>1, <2>2, <2>3, <2>4, Zenon DEF Goal
<1>14. CASE StartHttpServer
  <2>1. MapInv'
    BY <1>14, StartStep
  <2>2. \A t \in Threads : pc'[t] = "idle" /\ answer'[t] = "pending"
    BY <1>14 DEF StartHttpServer, threadVars, ThreadInv
  <2>3. QED
    BY <2>1, <2>2, IdleThread DEF Goal
<1>15. CASE StopHttpServer
  <2>1. MapInv'
    BY <1>15, StopStep
  <2>2. \A t \in Threads : pc'[t] = "idle" /\ answer'[t] = "pending"
    BY <1>15 DEF StopHttpServer, threadVars, ThreadInv
  <2>3. QED
    BY <2>1, <2>2, IdleThread DEF Goal
<1>16. QED
  BY <1>3, <1>4, <1>5, <1>6, <1>7, <1>10, <1>11, <1>12, <1>13, <1>14, <1>15 DEF Script, Goal

-----------------------------------------------------------------------------
(* The theorems.                                                           *)

\* At the beginning there are no routes and no requests.
LEMMA InitInv == Init => IInv
<1> SUFFICES ASSUME Init PROVE IInv
  OBVIOUS
<1>1. TypeOK
  BY InitType
<1>2. RoutesFit
  BY DEF Init, RoutesFit, NoUploadRoute, NoAPIRoute
<1>3. TablesFit /\ TablesComplete
  BY DEF Init, TablesFit, TablesComplete
<1>4. ASSUME NEW t \in Threads PROVE ThreadInv(t)
  <2>1. pc[t] = "idle" /\ answer[t] = "pending"
    BY DEF Init
  <2>2. QED
    BY <2>1 DEF ThreadInv, HistoryFits, Waiting, HandlerFound, CopyTaken, ScanFits, Granted,
                Explained, Refused
<1>5. QED
  BY <1>1, <1>2, <1>3, <1>4 DEF IInv

\* Every step keeps the invariant.
LEMMA InvStep == IInv /\ [Next]_vars => IInv'
<1> SUFFICES ASSUME IInv, [Next]_vars PROVE IInv'
  OBVIOUS
<1>1. TypeOK /\ MapInv /\ \A t \in Threads : ThreadInv(t)
  BY DEF IInv, MapInv
<1>2. CASE Script
  <2>1. TypeOK' /\ MapInv' /\ \A t \in Threads : ThreadInv(t)'
    BY <1>1, <1>2, ScriptType, ScriptStep
  <2>2. QED
    BY <2>1 DEF IInv, MapInv
<1>3. ASSUME NEW t \in Threads, Serve(t) PROVE IInv'
  <2>1. pc[t] = "lookup" => handler[t].id \in RouteIds
    BY <1>1 DEF ThreadInv, HandlerFound, HandlerFits, FileKinds
  <2>2. TypeOK'
    BY <1>1, <1>3, <2>1, ServeType
  <2>3. ScriptIdle /\ \A u \in Threads : ThreadInv(u)'
    BY <1>1, <1>3, ServeThreads
  <2>4. MapInv'
    BY <1>1, <2>3, MapsIdle
  <2>5. QED
    BY <2>2, <2>3, <2>4 DEF IInv, MapInv
<1>4. CASE UNCHANGED vars
  <2>1. TypeOK'
    BY <1>1, <1>4 DEF TypeOK, vars, routeVars, apiVars, serverVars, threadVars, historyVars
  <2>2. ScriptIdle
    BY <1>4 DEF vars, ScriptIdle, historyVars
  <2>3. MapInv'
    BY <1>1, <2>2, MapsIdle
  <2>4. \A t \in Threads : ThreadInv(t)'
    BY <1>1, <1>4, <2>2, SameThread DEF vars, threadVars, historyVars
  <2>5. QED
    BY <2>1, <2>3, <2>4 DEF IInv, MapInv
<1>5. QED
  BY <1>2, <1>3, <1>4 DEF Next

\* The maps, the tables and the threads keep to their types, whatever the
\* script registers, removes and changes while requests are served.
THEOREM TypeCorrect == Spec => []TypeOK
<1>1. IInv => TypeOK
  BY DEF IInv
<1>2. QED
  BY InitInv, InvStep, <1>1, PTL DEF Spec

\* The inductive invariant: a registered route has its handlers while the
\* server runs, a handler names the endpoint of its route or of one that is
\* gone, and each thread's copy says what the route said when it was taken.
THEOREM Invariant == Spec => []IInv
BY InitInv, InvStep, PTL DEF Spec

\* What HandleUpload, the operations on files and a callback of an API route
\* do for a client was granted to it: at one time while the request was
\* served, the route that did it was registered for the path and method,
\* allowed the operation and took the key.
THEOREM OnlyGrantedIsDone == Spec => []DoneWasGranted
<1>1. IInv => DoneWasGranted
  BY DEF IInv, ThreadInv, Granted, DoneWasGranted
<1>2. QED
  BY InitInv, InvStep, <1>1, PTL DEF Spec

\* A request that a route grants all the while it is served is refused only
\* because something else sits on its path, or because its endpoint has lost
\* a route whose handlers are still found first.
THEOREM RefusalHasReason == Spec => []RefusalsExplained
<1>1. IInv => RefusalsExplained
  BY DEF IInv, ThreadInv, Explained, RefusalsExplained
<1>2. QED
  BY InitInv, InvStep, <1>1, PTL DEF Spec
=============================================================================
