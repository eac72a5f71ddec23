----------------------------- MODULE MCSampCore -----------------------------
(* Two scripts, the second of which has no public for the calls of the API. *)
EXTENDS SampCore

MCQueues == <<"api", "requests">>
MCHears  == [s \in Scripts |-> IF s = "gamemode" THEN {"api", "requests"} ELSE {"requests"}]
=============================================================================
