-------------------------- MODULE IncomingUploads --------------------------
(***************************************************************************)
(* Files received over an upload route (FILE_RegisterRoute).               *)
(*                                                                         *)
(* Each POST is handled by a pool thread of httplib, in                    *)
(* HandleUploadStreaming and then HandleUploadRaw or HandleUploadMultipart:*)
(* the body is streamed to a temp file, checked, and moved under a name    *)
(* that ResolveDestPath found free.  The outcome goes to the script as an  *)
(* UploadEvent and to the client as the answer.  Between two steps of one  *)
(* upload other uploads, the DELETE handler of the route and the natives   *)
(* work on the same directory.                                             *)
(*                                                                         *)
(* One route and one file name are modelled: two names meet only through   *)
(* the variants _1, _2 of one.  A body is a number of chunks, a chunk      *)
(* being a tenth of the announced size or more, so that each is a progress *)
(* event.  A POST is named after the uploadId it gets; a file is told      *)
(* apart by who wrote it.                                                  *)
(***************************************************************************)
EXTENDS Integers, Sequences, FiniteSetsExt

CONSTANTS
    Uploads,        \* POSTs to the route (bounds the model)
    Configs,        \* configurations the route may be given
    Requests,       \* Requests[u]: what the client of u may send
    PayloadMax,     \* httplib's limit on a body, whatever the route allows
    MaxVariants,    \* bound: the variants _1, _2, ... (9999 in the code)
    MaxNatives      \* bound: calls of natives and DELETE requests

ConflictModes  == {"Overwrite", "Rename", "Reject"}
CorruptActions == {"Delete", "Quarantine", "Keep"}

UploadRoute == [authorizedKeys : BOOLEAN,   \* has keys at all
                requireCrc32 : BOOLEAN, maxSizeBytes : Nat,
                onConflict : ConflictModes, onCorrupt : CorruptActions]

Request == [multipart : BOOLEAN,
            authorized : BOOLEAN,           \* names a key of the route
            crc : {"absent", "zero", "right", "wrong"},     \* X-File-CRC32
            name : {"invalid", "barred", "allowed"},        \* barred by its extension
            parts : 0 .. 2,                 \* fields "file" of a multipart body
            announced : BOOLEAN,            \* Content-Length is given
            size : Nat]

ASSUME UploadsAssumption ==
    /\ Configs \subseteq UploadRoute
    /\ Requests \in [Uploads -> SUBSET Request]
    /\ {PayloadMax, MaxVariants, MaxNatives} \subseteq Nat
    /\ Uploads \cap {"nobody", "operator", "torn"} = {}
    /\ IsFiniteSet(Uploads) /\ Cardinality(Uploads) <= MaxVariants

VARIABLES
    route,          \* routes[routeId], or NoRoute once it is erased
    job,            \* the handler of each upload, its locals
    temps,          \* uploads whose temp file is on the disk
    files,          \* who wrote each file of the destination directory
    linked,         \* uploads whose copy goes to the file still under its name
    pendingEvents,
    deleting,       \* the path the DELETE handler has found to exist
    natives,        \* natives and DELETEs so far (bounds the model)
    heard,          \* history: the kinds of callback each upload has had
    cleared,        \* history: uploads whose outcome reset() dropped
    rivals          \* history: uploads not over when this one chose its path

jobVars  == <<job, temps, rivals>>
diskVars == <<files, linked>>
mainVars == <<route, deleting, natives>>
toldVars == <<heard, cleared>>
vars == <<jobVars, diskVars, pendingEvents, mainVars, toldVars>>

NoRoute == [authorizedKeys |-> FALSE]
NoRequest == [multipart |-> FALSE]
Kept  == -1                     \* the path <name>.corrupt
NoPath == -2
Names == 0 .. MaxVariants       \* the name as sent, and its variants
Paths == Names \cup {Kept}
NoFile == "nobody"
Errors == {"none", "early", "name", "io", "large", "write", "invalid", "crc", "conflict", "move"}
Terminal == {"Completed", "Failed"}

Idle == [pc |-> "idle", req |-> NoRequest, cfg |-> NoRoute, received |-> 0,
         named |-> FALSE, reopened |-> FALSE, cut |-> "no", error |-> "none",
         dest |-> NoPath, answer |-> 0]

\* The directory holds a file of that name; DeleteRouteFile may empty it.
Init ==
    /\ route \in Configs
    /\ job = [u \in Uploads |-> Idle]
    /\ temps = {} /\ linked = {}
    /\ files = [p \in Paths |-> IF p = 0 THEN "operator" ELSE NoFile]
    /\ pendingEvents = <<>>
    /\ deleting = NoPath
    /\ natives = 0
    /\ heard = [u \in Uploads |-> {}]
    /\ cleared = {}
    /\ rivals = [u \in Uploads |-> {}]

----------------------------------------------------------------------------
(* Helpers of the handlers *)

\* ValidateUpload
Valid(cfg, req, bytes) == req.name # "barred" /\ bytes <= cfg.maxSizeBytes

PushEvent(u, kind) == pendingEvents' = Append(pendingEvents, [upload |-> u, kind |-> kind])

\* httplib replaces the answer of a handler whose body was over the limit.
Answer(u, code) == IF job[u].cut = "tooLarge" THEN 413 ELSE code

\* tempPath names no file after a second field "file": the stream is still
\* open on the first one's.
RemoveTemp(u) == temps' = IF job[u].reopened THEN temps ELSE temps \ {u}

\* The error exits: an answer, a Failed event.
Fail(u, error, code) ==
    /\ job' = [job EXCEPT ![u].pc = "done", ![u].error = error,
                          ![u].answer = Answer(u, code)]
    /\ PushEvent(u, "Failed")
    /\ UNCHANGED <<rivals, mainVars, toldVars>>

\* The early returns push no event.
ReturnEarly(u, code) ==
    /\ job' = [job EXCEPT ![u].pc = "done", ![u].error = "early",
                          ![u].answer = Answer(u, code)]
    /\ UNCHANGED <<temps, rivals, diskVars, pendingEvents, mainVars, toldVars>>

\* rename() and remove() give a path another file: copies to the old one go on unseen.
SetFile(p, file) ==
    /\ files' = [files EXCEPT ![p] = file]
    /\ linked' = {v \in linked : job[v].dest # p}

----------------------------------------------------------------------------
(* HandleUploadStreaming, up to the body *)

\* What the checks before the body answer, 200 to go on.
GateAnswer(cfg, req) ==
    IF cfg = NoRoute                                        THEN 404
    ELSE IF cfg.authorizedKeys /\ ~req.authorized           THEN 401
    ELSE IF cfg.requireCrc32 /\ req.crc = "absent"          THEN 400
    ELSE IF req.multipart                                   THEN 200
    ELSE IF req.name = "invalid"                            THEN 400
    ELSE IF req.announced /\ req.size > 0 /\ ~Valid(cfg, req, req.size)
                                                            THEN 422
    ELSE 200

\* The configuration is copied under routesMutex and stays the upload's own.
\* A raw upload opens its temp file before it reads.
HandleUploadStreaming(u, req) ==
    LET code == GateAnswer(route, req) IN
    /\ job[u].pc = "idle"
    /\ \E opened \in BOOLEAN :
          LET answer == IF code = 200 /\ ~req.multipart /\ ~opened THEN 500 ELSE code IN
          /\ job' = [job EXCEPT ![u] =
                       [Idle EXCEPT !.pc = IF answer = 200 THEN "receiving" ELSE "done",
                                    !.error = IF answer = 200 THEN "none" ELSE "early",
                                    !.answer = IF answer = 200 THEN 0 ELSE answer,
                                    !.req = req, !.cfg = route,
                                    !.named = ~req.multipart]]
          /\ temps' = IF answer = 200 /\ ~req.multipart THEN temps \cup {u} ELSE temps
    /\ UNCHANGED <<rivals, diskVars, pendingEvents, mainVars, toldVars>>

----------------------------------------------------------------------------
(* The body, as httplib hands it to the receivers *)

Receiving(u) == job[u].pc = "receiving" /\ job[u].error = "none"

\* The header of a field "file".
FilePart(u) ==
    /\ Receiving(u) /\ job[u].req.multipart /\ job[u].req.parts > 0 /\ ~job[u].named
    /\ IF job[u].req.name = "invalid"
       THEN job' = [job EXCEPT ![u].error = "name"] /\ UNCHANGED temps
       ELSE \E opened \in BOOLEAN :
              /\ job' = [job EXCEPT ![u].named = TRUE,
                                    ![u].error = IF opened THEN "none" ELSE "io"]
              /\ temps' = IF opened THEN temps \cup {u} ELSE temps
    /\ UNCHANGED <<rivals, diskVars, pendingEvents, mainVars, toldVars>>

\* Another one: the checksum starts again, tempPath is a new name, but opening
\* a stream that is open fails and leaves it open on the first file.
SecondFilePart(u) ==
    /\ Receiving(u) /\ job[u].req.multipart /\ job[u].req.parts = 2
    /\ job[u].named /\ ~job[u].reopened /\ job[u].received = job[u].req.size
    /\ job' = [job EXCEPT ![u].reopened = TRUE]
    /\ UNCHANGED <<temps, rivals, diskVars, pendingEvents, mainVars, toldVars>>

ReceiveChunk(u) ==
    LET j == job[u] IN
    /\ Receiving(u) /\ j.named
    /\ j.reopened \/ (j.received < j.req.size /\ j.received < PayloadMax)
    /\ \E written \in BOOLEAN :
          LET error == IF j.received + 1 > j.cfg.maxSizeBytes THEN "large"
                       ELSE IF j.reopened \/ ~written         THEN "write"
                       ELSE "none" IN
          IF error = "none"
          THEN /\ job' = [job EXCEPT ![u].received = @ + 1]
               /\ IF j.req.announced THEN PushEvent(u, "Progress") ELSE UNCHANGED pendingEvents
          ELSE job' = [job EXCEPT ![u].error = error] /\ UNCHANGED pendingEvents
    /\ UNCHANGED <<temps, rivals, diskVars, mainVars, toldVars>>

\* content_reader returns: the body is over, a receiver refused it, the
\* connection broke or timed out, or the body is over httplib's limit.  Nobody
\* looks at its result, nor at what close() could not flush.
BodyEnds(u) ==
    LET j == job[u]
        whole == IF j.req.multipart /\ j.req.parts = 0 THEN TRUE
                 ELSE /\ j.received = j.req.size /\ j.named
                      /\ j.req.multipart /\ j.req.parts = 2 => j.reopened
        cuts == IF j.error # "none" THEN {"no"}
                ELSE {"lost"} \cup (IF whole THEN {"no"} ELSE {})
                     \cup (IF j.req.size > PayloadMax /\ (j.received = PayloadMax \/ ~j.named)
                           THEN {"tooLarge"} ELSE {})
    IN
    /\ j.pc = "receiving"
    /\ \E cut \in cuts : job' = [job EXCEPT ![u].pc = "received", ![u].cut = cut]
    /\ UNCHANGED <<temps, rivals, diskVars, pendingEvents, mainVars, toldVars>>

----------------------------------------------------------------------------
(* After the body *)

ErrorCode == [name |-> 400, io |-> 500, write |-> 500, large |-> 422]

\* Mutant: the error exit does not return.
RejectErrorFallsThrough(u) ==
    /\ job[u].pc = "received" /\ job[u].error # "none"
    /\ job' = [job EXCEPT ![u].error = "none"]
    /\ PushEvent(u, "Failed")
    /\ RemoveTemp(u)
    /\ UNCHANGED <<rivals, diskVars, mainVars, toldVars>>

\* Mutant: the error exit forgets the event.
RejectErrorSilent(u) ==
    /\ job[u].pc = "received" /\ job[u].error # "none"
    /\ job' = [job EXCEPT ![u].pc = "done", ![u].answer = ErrorCode[job[u].error]]
    /\ RemoveTemp(u)
    /\ UNCHANGED <<rivals, diskVars, pendingEvents, mainVars, toldVars>>

RejectError(u) ==
    /\ job[u].pc = "received" /\ job[u].error # "none"
    /\ Fail(u, job[u].error, ErrorCode[job[u].error])
    /\ RemoveTemp(u)
    /\ UNCHANGED diskVars

NoFileField(u) ==
    /\ job[u].pc = "received" /\ job[u].error = "none" /\ ~job[u].named
    /\ ReturnEarly(u, 400)

HasFile(u) == job[u].pc = "received" /\ job[u].error = "none" /\ job[u].named
\* Mutant: only the announced size is validated.
PassesValidationBefore(u) == job[u].req.announced \/ job[u].received <= job[u].cfg.maxSizeBytes

PassesValidation(u) == Valid(job[u].cfg, job[u].req, job[u].received)

RejectInvalid(u) ==
    /\ HasFile(u) /\ ~PassesValidation(u)
    /\ Fail(u, "invalid", 422)
    /\ RemoveTemp(u)
    /\ UNCHANGED diskVars

\* expectedCrc is 0 for no header and for a header of 0: no check.
CrcMatches(u) ==
    CASE job[u].req.crc \in {"absent", "zero"} -> TRUE
      [] job[u].req.crc = "wrong" -> FALSE
      [] job[u].req.crc = "right" -> job[u].received = job[u].req.size /\ ~job[u].reopened

\* Mutant: a corrupt file is deleted and reported as completed, not matched.
RejectCorruptCompletes(u) ==
    /\ HasFile(u) /\ PassesValidation(u) /\ ~CrcMatches(u)
    /\ job' = [job EXCEPT ![u].pc = "done", ![u].error = "crc", ![u].answer = Answer(u, 422)]
    /\ PushEvent(u, "Completed")
    /\ RemoveTemp(u)
    /\ UNCHANGED <<rivals, diskVars, mainVars, toldVars>>

\* The results of the renames are not looked at.
RejectCorrupt(u) ==
    /\ HasFile(u) /\ PassesValidation(u) /\ ~CrcMatches(u)
    /\ Fail(u, "crc", 422)
    /\ \/ job[u].cfg.onCorrupt = "Delete" /\ RemoveTemp(u) /\ UNCHANGED diskVars
       \/ /\ job[u].cfg.onCorrupt = "Quarantine" /\ ~job[u].reopened
          /\ temps' = temps \ {u}
          /\ UNCHANGED diskVars
       \/ /\ job[u].cfg.onCorrupt = "Keep" /\ ~job[u].reopened
          /\ temps' = temps \ {u}
          /\ SetFile(Kept, u)
       \/ /\ job[u].cfg.onCorrupt # "Delete"        \* the rename fails
          /\ UNCHANGED <<temps, diskVars>>

Free(p) == files[p] = NoFile
FreeVariants == {i \in 1 .. MaxVariants : Free(i)}

\* Mutant: the variant is not looked for.
ResolveDestPathFirst(mode) ==
    IF Free(0) \/ mode = "Overwrite" THEN 0
    ELSE IF mode = "Reject"          THEN NoPath
    ELSE 1

\* Where the file will go, NoPath for a conflict.
ResolveDestPath(mode) ==
    IF Free(0) \/ mode = "Overwrite" THEN 0
    ELSE IF mode = "Reject"          THEN NoPath
    ELSE Min(FreeVariants)

ChoosePath(u) ==
    LET path == ResolveDestPath(job[u].cfg.onConflict) IN
    /\ HasFile(u) /\ PassesValidation(u) /\ CrcMatches(u)
    /\ path # NoPath
    /\ job' = [job EXCEPT ![u].pc = "move", ![u].dest = path]
    /\ rivals' = [rivals EXCEPT ![u] = {v \in Uploads : job[v].pc # "done"}]
    /\ UNCHANGED <<temps, diskVars, pendingEvents, mainVars, toldVars>>

\* Mutant: the temp file stays.
RejectConflictKeepsTemp(u) ==
    /\ HasFile(u) /\ PassesValidation(u) /\ CrcMatches(u)
    /\ ResolveDestPath(job[u].cfg.onConflict) = NoPath
    /\ Fail(u, "conflict", 409)
    /\ UNCHANGED <<temps, diskVars>>

RejectConflict(u) ==
    /\ HasFile(u) /\ PassesValidation(u) /\ CrcMatches(u)
    /\ ResolveDestPath(job[u].cfg.onConflict) = NoPath
    /\ Fail(u, "conflict", 409)
    /\ RemoveTemp(u)
    /\ UNCHANGED diskVars

\* rename() replaces what the path names, in one step.
RenameFile(u) ==
    /\ job[u].pc = "move" /\ ~job[u].reopened
    /\ SetFile(job[u].dest, u)
    /\ temps' = temps \ {u}
    /\ job' = [job EXCEPT ![u].pc = "publish"]
    /\ UNCHANGED <<rivals, pendingEvents, mainVars, toldVars>>

\* It fails across file systems, or (Windows) on an existing file: CopyFile
\* truncates the destination ...
CopyFile(u) ==
    /\ job[u].pc = "move" /\ ~job[u].reopened
    /\ files' = [files EXCEPT ![job[u].dest] = u]
    /\ linked' = linked \cup {u}
    /\ job' = [job EXCEPT ![u].pc = "copy"]
    /\ UNCHANGED <<temps, rivals, pendingEvents, mainVars, toldVars>>

\* ... and fills it, which says nothing of what its close() could not flush.
\* Two copies into one file leave a mixture.
WriteCopy(u) ==
    LET mixed == \E v \in linked \ {u} : job[v].dest = job[u].dest IN
    /\ files' = IF u \in linked
                THEN [files EXCEPT ![job[u].dest] = IF mixed THEN "torn" ELSE u]
                ELSE files
    /\ linked' = linked \ {u}

CopyEnds(u) ==
    /\ job[u].pc = "copy" /\ job[u].received > 0    \* << of an empty file sets failbit
    /\ WriteCopy(u)
    /\ temps' = temps \ {u}
    /\ job' = [job EXCEPT ![u].pc = "publish"]
    /\ UNCHANGED <<rivals, pendingEvents, mainVars, toldVars>>

\* The copy fails, at its opening (there is no source after a second field
\* "file") or halfway, and leaves the destination as it is.
MoveError(u) ==
    /\ \/ job[u].pc = "move" /\ UNCHANGED diskVars
       \/ job[u].pc = "copy" /\ WriteCopy(u)
    /\ Fail(u, "move", 500)
    /\ RemoveTemp(u)

Complete(u) ==
    /\ job[u].pc = "publish"
    /\ PushEvent(u, "Completed")
    /\ job' = [job EXCEPT ![u].pc = "done", ![u].answer = Answer(u, 200)]
    /\ UNCHANGED <<temps, rivals, diskVars, mainVars, toldVars>>

----------------------------------------------------------------------------
(* The main thread, and the DELETE handler of the route *)

Native == natives < MaxNatives /\ natives' = natives + 1

\* A setter changes one field of a route that is there.
SetField(cfg) ==
    /\ Native
    /\ route # NoRoute /\ route # cfg
    /\ route' = cfg
    /\ UNCHANGED <<jobVars, diskVars, pendingEvents, deleting, toldVars>>
SetConflictMode  == \E m \in ConflictModes  : SetField([route EXCEPT !.onConflict = m])
SetCorruptAction == \E a \in CorruptActions : SetField([route EXCEPT !.onCorrupt = a])
SetRequireCRC32  == \E b \in BOOLEAN : SetField([route EXCEPT !.requireCrc32 = b])
AddKeyToRoute    == SetField([route EXCEPT !.authorizedKeys = TRUE])
RemoveKeyFromRoute == SetField([route EXCEPT !.authorizedKeys = FALSE])

\* The endpoint's handler keeps the erased id: it answers 404 from now on, also
\* after the endpoint is registered again (the new handler comes second).
RemoveRoute == SetField(NoRoute)

DeleteRouteFile(p) ==
    /\ Native
    /\ route # NoRoute /\ ~Free(p)
    /\ SetFile(p, NoFile)
    /\ UNCHANGED <<jobVars, pendingEvents, route, deleting, toldVars>>

\* HandleFileDelete, if the route permits it to this client, checks that the file
\* exists and then removes what is there.
HandleFileDelete(p) ==
    /\ Native
    /\ route # NoRoute
    /\ deleting = NoPath /\ ~Free(p)
    /\ deleting' = p
    /\ UNCHANGED <<jobVars, diskVars, pendingEvents, route, toldVars>>
RemoveFile ==
    /\ deleting # NoPath
    /\ SetFile(deleting, NoFile)
    /\ deleting' = NoPath
    /\ UNCHANGED <<jobVars, pendingEvents, route, natives, toldVars>>

\* The events of an upload that wait for the drain, and its outcomes there.
Pending(u) == {i \in DOMAIN pendingEvents : pendingEvents[i].upload = u}
Outcomes(u) == {i \in Pending(u) : pendingEvents[i].kind \in Terminal}

\* A change of gamemode.
Reset ==
    /\ Native
    /\ route' = NoRoute
    /\ pendingEvents' = <<>>
    /\ cleared' = cleared \cup {u \in Uploads : Outcomes(u) # {}}
    /\ UNCHANGED <<jobVars, diskVars, deleting, heard>>

\* The whole batch: its callbacks and the handlers do not touch the same state
\* but through the natives, which run between two drains as well.
DrainEvents ==
    /\ pendingEvents # <<>>
    /\ pendingEvents' = <<>>
    /\ heard' = [u \in Uploads |-> heard[u] \cup {pendingEvents[i].kind : i \in Pending(u)}]
    /\ UNCHANGED <<jobVars, diskVars, mainVars, cleared>>

----------------------------------------------------------------------------
\* Everything a pool thread does once it has the request.
UploadStep(u) ==
    \/ FilePart(u) \/ SecondFilePart(u) \/ ReceiveChunk(u) \/ BodyEnds(u)
    \/ RejectError(u) \/ NoFileField(u) \/ RejectInvalid(u) \/ RejectCorrupt(u)
    \/ ChoosePath(u) \/ RejectConflict(u)
    \/ RenameFile(u) \/ CopyFile(u) \/ CopyEnds(u) \/ MoveError(u) \/ Complete(u)

Natives ==
    \/ SetConflictMode \/ SetCorruptAction \/ SetRequireCRC32
    \/ AddKeyToRoute \/ RemoveKeyFromRoute \/ RemoveRoute \/ Reset
    \/ \E p \in Paths : DeleteRouteFile(p) \/ HandleFileDelete(p)

Next ==
    \/ \E u \in Uploads : \E req \in Requests[u] : HandleUploadStreaming(u, req)
    \/ \E u \in Uploads : UploadStep(u)
    \/ Natives \/ RemoveFile \/ DrainEvents

Spec == Init /\ [][Next]_vars

\* Pool threads and the drain timer run; httplib's read timeout ends a silent body.
FairSpec == Spec /\ WF_vars(DrainEvents) /\ \A u \in Uploads : WF_vars(UploadStep(u))

----------------------------------------------------------------------------
Writers  == Uploads \cup {"nobody", "operator", "torn"}
Kinds    == Terminal \cup {"Progress"}
Jobs     == [pc : {"idle", "receiving", "received", "move", "copy", "publish", "done"},
             req : Request \cup {NoRequest}, cfg : UploadRoute \cup {NoRoute},
             received : 0 .. PayloadMax,
             named : BOOLEAN, reopened : BOOLEAN, cut : {"no", "lost", "tooLarge"},
             error : Errors, dest : Names \cup {NoPath},
             answer : {0, 200, 400, 401, 404, 409, 413, 422, 500}]

\* Type invariant.
TypeOK ==
    /\ route \in UploadRoute \cup {NoRoute}
    /\ job \in [Uploads -> Jobs]
    /\ temps \subseteq Uploads
    /\ files \in [Paths -> Writers]
    /\ linked \subseteq Uploads
    /\ pendingEvents \in Seq([upload : Uploads, kind : Kinds])
    /\ deleting \in Paths \cup {NoPath}
    /\ natives \in 0 .. MaxNatives
    /\ heard \in [Uploads -> SUBSET Kinds]
    /\ cleared \subseteq Uploads
    /\ rivals \in [Uploads -> SUBSET Uploads]

\* The outcomes the script has been told of, or will be at the next drain.
Told(u) == (heard[u] \cap Terminal) \cup {pendingEvents[i].kind : i \in Outcomes(u)}

\* Whatever fails on the way, an upload that got as far as its body has exactly
\* one outcome, queued when its handler ends, and nothing comes after it: the
\* script is not told of progress after the end, of two ends, or of none.  Only
\* the early returns are silent.  (HandleUploadRaw, HandleUploadMultipart)
OneOutcome ==
    \A u \in Uploads :
        /\ \A i \in Outcomes(u), k \in Pending(u) : k <= i
        /\ heard[u] \cap Terminal # {} \/ u \in cleared => Pending(u) = {}
        /\ (Told(u) # {} \/ u \in cleared)
              <=> (job[u].pc = "done" /\ job[u].error # "early")

\* The client and the script are told the same: 200 goes with a Completed and
\* nothing else does, except that httplib turns it into 413 when the body was
\* over its own limit and the handler stored what came before.
AnswerMatchesOutcome ==
    \A u \in Uploads \ cleared :
        job[u].pc = "done" =>
            LET completed == "Completed" \in Told(u) IN
            /\ job[u].answer = 200 <=> completed /\ job[u].cut # "tooLarge"
            /\ completed => job[u].answer \in {200, 413}

\* An upload that is over has left no temp file behind, on any of its exits,
\* but for the two ways the code loses one: a second field "file", and a corrupt
\* file that could not be moved away.
NoTempLeft ==
    \A u \in temps :
        job[u].pc = "done" =>
            \/ job[u].reopened
            \/ job[u].error = "crc" /\ job[u].cfg.onCorrupt # "Delete"

\* A file found under an ordinary name of the directory passed all the checks of
\* the upload that wrote it: the upload did not fail (or failed in the middle of
\* copying it there), the configuration it started with allows it, and if its
\* checksum was announced all of it had arrived.
StoredIsAccepted ==
    \A p \in Names : files[p] \in Uploads =>
        LET j == job[files[p]] IN
        /\ j.error \in {"none", "move"}
        /\ Valid(j.cfg, j.req, j.received)
        /\ j.req.crc \in {"right", "wrong"} => j.req.crc = "right" /\ j.received = j.req.size

\* CONFLICT_RENAME and CONFLICT_REJECT protect the files that were there: an
\* upload in these modes replaces neither the operator's file nor that of an
\* upload that was over when it chose its path.  (Files of uploads still
\* running then are not protected: ResolveDestPath and rename are two steps.)
KeepsFinishedFiles ==
    [][\A p \in Names :
         LET old == files[p]  new == files'[p] IN
         new \in Uploads /\ old \in Uploads \cup {"operator"} /\ new # old =>
            job[new].cfg.onConflict = "Overwrite" \/ old \in rivals[new]]_vars

\* Once the body of an upload is being read, the script hears of its end, unless
\* a change of gamemode drops the event or the body had no field "file".
UploadsReported ==
    \A u \in Uploads :
        job[u].pc = "receiving" ~>
            \/ heard[u] \cap Terminal # {}
            \/ u \in cleared
            \/ job[u].error = "early"

\* PawnREST.inc: OnIncomingUploadCompleted is "called when an incoming upload is
\* successfully received and saved": all the client's file had arrived.
CompletedIsWhole ==
    \A u \in Uploads : "Completed" \in heard[u] => job[u].received = job[u].req.size

=============================================================================
