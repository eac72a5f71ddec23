------------------------ MODULE MCIncomingUploads ------------------------
(* Instances of IncomingUploads for TLC. *)
EXTENDS IncomingUploads

Config == [authorizedKeys |-> FALSE, requireCrc32 |-> FALSE, maxSizeBytes |-> 3,
           onConflict |-> "Rename", onCorrupt |-> "Keep"]

\* Above and below httplib's own limit; the natives turn one into the others.
MCConfigs ==
    {Config,
     [Config EXCEPT !.authorizedKeys = TRUE, !.requireCrc32 = TRUE, !.maxSizeBytes = 1,
                    !.onConflict = "Overwrite", !.onCorrupt = "Quarantine"]}

POST == [multipart |-> FALSE, authorized |-> TRUE, crc |-> "right", name |-> "allowed",
         parts |-> 0, announced |-> FALSE, size |-> 1]

\* One upload takes any of the paths through the handlers ...
AnyPOST ==
    {POST,
     [POST EXCEPT !.crc = "wrong"],
     [POST EXCEPT !.crc = "zero", !.size = 2, !.announced = TRUE],
     [POST EXCEPT !.name = "barred", !.announced = TRUE],
     [POST EXCEPT !.name = "barred"],
     [POST EXCEPT !.name = "barred", !.announced = TRUE, !.size = 0],
     [POST EXCEPT !.name = "invalid"],
     [POST EXCEPT !.multipart = TRUE, !.parts = 1, !.size = 3, !.crc = "absent"],
     [POST EXCEPT !.multipart = TRUE, !.parts = 2],
     [POST EXCEPT !.multipart = TRUE, !.parts = 1, !.name = "invalid"],
     [POST EXCEPT !.multipart = TRUE]}

\* ... while another is stored beside it, unless the route has keys.
PlainPOST == {[POST EXCEPT !.authorized = FALSE]}

CONSTANTS u1, u2
MCRequests == [u \in Uploads |-> IF u = u1 THEN AnyPOST ELSE PlainPOST]

=============================================================================
