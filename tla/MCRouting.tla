------------------------------ MODULE MCRouting ------------------------------
(* The paths, patterns and requests of the runs of Routing. *)
EXTENDS Routing

\* The paths of one file route, one path of the script's own and a built-in
\* one.  The pattern "inMaps" is "/maps/{name}", which the list of the
\* files of the route matches too.
MCCovers    == [players |-> {<<"players", "upload">>}, inMaps |-> {<<"maps", "files">>}]
MCApiRoutes == {<<"GET", "players">>, <<"GET", "inMaps">>}
MCBuiltIns  == {<<"health", "upload">>}
MCNoCovers  == [e \in {} |-> {}]

Ask(method, endpoint, sub, key) == [method |-> method, path |-> <<endpoint, sub>>, key |-> key]
MCRequests ==
    { Ask("POST", "maps", "upload", NoKey),
      Ask("GET", "maps", "files", "key"), Ask("GET", "maps", "file", NoKey),
      Ask("GET", "maps", "info", NoKey),  Ask("DELETE", "maps", "file", NoKey),
      Ask("HEAD", "players", "upload", "key"), Ask("GET", "health", "upload", NoKey) }
MCUploads == {Ask("POST", "maps", "upload", NoKey)}
=============================================================================
