------------------------ MODULE IncomingUploads_proofs ------------------------
(***************************************************************************)
(* Proofs about IncomingUploads for any number of uploads, any requests,   *)
(* configurations and bounds: an inductive invariant IInv of the directory *)
(* and the temp files, and the properties that follow from it.             *)
(***************************************************************************)
EXTENDS IncomingUploads, FiniteSetTheorems, TLAPS

\* The types of everything but the events and callbacks.
FileTypes ==
    /\ route \in UploadRoute \cup {NoRoute}
    /\ job \in [Uploads -> Jobs]
    /\ temps \subseteq Uploads
    /\ files \in [Paths -> Writers]
    /\ linked \subseteq Uploads
    /\ deleting \in Paths \cup {NoPath}
    /\ rivals \in [Uploads -> SUBSET Uploads]

\* What a handler has found out by the time it is at each place.
Moving(j) == j.pc \in {"move", "copy", "publish"}
Sound(j)  ==
    /\ Valid(j.cfg, j.req, j.received)
    /\ j.req.crc \in {"right", "wrong"} => j.req.crc = "right" /\ j.received = j.req.size
JobOK(j) ==
    /\ j.pc \in {"idle", "receiving", "received"} => j.dest = NoPath
    /\ j.pc \in {"receiving", "received"} =>
          j.cfg # NoRoute /\ j.error \in {"none", "name", "io", "large", "write"}
    /\ Moving(j) => j.dest \in Names /\ j.error = "none" /\ Sound(j) /\ j.cfg # NoRoute
JobInv == \A u \in Uploads : JobOK(job[u])

\* The temp files and the handlers that answer for them.
TempOK(j) ==
    /\ j.pc \notin {"idle", "publish"}
    /\ j.pc \in {"receiving", "received"} => j.named
    /\ j.pc = "done" => j.reopened \/ (j.error = "crc" /\ j.cfg.onCorrupt # "Delete")
TempInv == \A u \in temps : TempOK(job[u])

\* Who wrote a file under an ordinary name is storing it, or has.
FileOK(j, p) ==
    /\ j.pc \in {"copy", "publish", "done"} /\ j.dest = p
    /\ j.error \in {"none", "move"} /\ Sound(j)
FileInv == \A p \in Names : files[p] \in Uploads => FileOK(job[files[p]], p)

\* A variant of the name is taken only by an upload that chose it.
VariantInv == \A p \in Names \ {0} : files[p] # NoFile => \E u \in Uploads : job[u].dest = p

\* A copy that goes to the file still under its name finds itself there, or
\* another such copy, or their mixture.
LinkOK(u) ==
    /\ job[u].pc = "copy"
    /\ LET w == files[job[u].dest] IN
       w = "torn" \/ (w \in linked /\ job[w].dest = job[u].dest)
LinkInv == \A u \in linked : LinkOK(u)

\* The path an upload chose was free; who wrote there since was not over then.
RivalOK(u) ==
    /\ Moving(job[u]) => \A v \in Uploads : job[v].pc # "done" => v \in rivals[u]
    /\ job[u].pc = "move" /\ job[u].cfg.onConflict # "Overwrite" =>
          LET w == files[job[u].dest] IN w \in Uploads \cup {"operator"} => w \in rivals[u]
RivalInv == \A u \in Uploads : RivalOK(u)

IInv ==
    /\ FileTypes /\ JobInv /\ TempInv /\ FileInv /\ VariantInv /\ LinkInv /\ RivalInv

-----------------------------------------------------------------------------
(* Paths and the helpers of the handlers.                                  *)

LEMMA NamesArePaths ==
  /\ Names \subseteq Paths /\ 0 \in Names /\ 1 .. MaxVariants \subseteq Names
  /\ Kept \in Paths /\ Kept \notin Names /\ NoPath \notin Paths /\ Names \subseteq Nat
BY UploadsAssumption DEF Names, Paths, Kept, NoPath

LEMMA WritersDiffer ==
  /\ Uploads \subseteq Writers /\ "torn" \in Writers /\ NoFile \in Writers
  /\ NoFile \notin Uploads \cup {"operator"} /\ "torn" \notin Uploads \cup {"operator"}
  /\ "operator" \notin Uploads
BY UploadsAssumption DEF Writers, NoFile

LEMMA JobFields ==
  ASSUME NEW j \in Jobs
  PROVE  /\ j.req \in Request \cup {NoRequest} /\ j.cfg \in UploadRoute \cup {NoRoute}
         /\ j.received \in 0 .. PayloadMax /\ j.received \in Nat /\ j.named \in BOOLEAN
         /\ j.reopened \in BOOLEAN /\ j.dest \in Names \cup {NoPath} /\ j.error \in Errors
BY DEF Jobs

LEMMA LeastOf ==
  ASSUME NEW T \in SUBSET Nat, T # {}
  PROVE  Min(T) \in T
<1> DEFINE R == OpToRel(<, Nat)
<1>1. \E x \in T : \A y \in T : ~ (<<y, x>> \in R)
  BY NatLessThanWellFounded, WFMin
<1>2. \A x, y \in Nat : <<y, x>> \in R <=> y < x
  BY DEF OpToRel
<1> HIDE DEF R
<1>3. PICK x \in T : \A y \in T : ~ (<<y, x>> \in R)
  BY <1>1
<1>4. \A y \in T : y \in Nat /\ x \in Nat /\ ~(y < x)
  BY <1>2, <1>3
<1>5. \A y \in T : x <= y
  BY <1>4
<1>6. Min(T) = CHOOSE i \in T : \A k \in T : i <= k
  BY DEF Min
<1>7. QED
  BY <1>5, <1>6

\* Each variant that is taken was chosen by another upload, and an upload
\* that looks for one has not chosen yet: one variant is free.
LEMMA SomeVariantIsFree ==
  ASSUME FileTypes, VariantInv, NEW u \in Uploads, job[u].dest = NoPath
  PROVE  FreeVariants # {}
<1> DEFINE V == 1 .. MaxVariants
           others == Uploads \ {u}
<1>1. SUFFICES ASSUME FreeVariants = {} PROVE FALSE
  OBVIOUS
<1>2. \A i \in V : \E v \in others : job[v].dest = i
  <2> SUFFICES ASSUME NEW i \in V PROVE \E v \in others : job[v].dest = i
    OBVIOUS
  <2>1. files[i] # NoFile /\ i \in Names \ {0} /\ i # NoPath
    BY <1>1, NamesArePaths, UploadsAssumption DEF FreeVariants, Free, NoPath
  <2>2. QED
    BY <2>1 DEF VariantInv
<1> DEFINE chooser == [i \in V |-> CHOOSE v \in others : job[v].dest = i]
<1>3. chooser \in [V -> others] /\ \A i \in V : job[chooser[i]].dest = i
  BY <1>2
<1>4. MaxVariants \in Nat /\ IsFiniteSet(V) /\ Cardinality(V) = MaxVariants
  BY UploadsAssumption, FS_Interval
<1>5. IsFiniteSet(others) /\ Cardinality(others) = Cardinality(Uploads) - 1
  BY UploadsAssumption, FS_RemoveElement
<1>6. Cardinality(Uploads) \in Nat /\ Cardinality(Uploads) <= MaxVariants
  BY UploadsAssumption, FS_CardinalityType
<1>7. Cardinality(others) < Cardinality(V)
  BY <1>4, <1>5, <1>6
<1> HIDE DEF chooser, V, others
<1>8. \E i, k \in V : i # k /\ chooser[i] = chooser[k]
  BY <1>3, <1>4, <1>5, <1>7, FS_PigeonHole
<1>9. QED
  BY <1>3, <1>8

\* ResolveDestPath finds a conflict or a path, and a path that is free unless
\* the route overwrites.
LEMMA ResolvedPath ==
  ASSUME FileTypes, VariantInv, NEW u \in Uploads, job[u].dest = NoPath,
         NEW mode, ResolveDestPath(mode) # NoPath
  PROVE  /\ ResolveDestPath(mode) \in Names
         /\ mode # "Overwrite" => files[ResolveDestPath(mode)] = NoFile
<1>1. CASE Free(0) \/ mode = "Overwrite"
  BY <1>1, NamesArePaths DEF ResolveDestPath, Free
<1>2. CASE ~Free(0) /\ mode # "Overwrite" /\ mode # "Reject"
  <2>1. FreeVariants \in SUBSET Nat /\ FreeVariants \subseteq Names
    BY NamesArePaths DEF FreeVariants
  <2>2. Min(FreeVariants) \in FreeVariants
    BY <2>1, SomeVariantIsFree, LeastOf
  <2>3. ResolveDestPath(mode) = Min(FreeVariants)
    BY <1>2 DEF ResolveDestPath
  <2>4. QED
    BY <2>1, <2>2, <2>3 DEF FreeVariants, Free
<1>3. QED
  BY <1>1, <1>2 DEF ResolveDestPath

-----------------------------------------------------------------------------
(* The steps of a handler.                                                 *)

OthersKeep(u) == \A v \in Uploads \ {u} : job[v]' = job[v]

\* A handler that has not chosen a path goes on or ends.  The file of a
\* corrupt upload under its own name, .corrupt, is of no interest.
EarlyStep(u) ==
    /\ job[u].pc \in {"idle", "receiving", "received"} /\ job[u].dest = NoPath
    /\ job[u].pc' \in {"receiving", "received", "done"} /\ job[u].dest' = NoPath
    /\ \A p \in Names : files[p]' = files[p]
    /\ UNCHANGED <<linked, rivals>>

\* What a step gives its own job and temp file.
OwnStep(u) ==
    /\ job' \in [Uploads -> Jobs] /\ OthersKeep(u) /\ JobOK(job[u])'
    /\ temps' \subseteq temps \cup {u} /\ (u \in temps' => TempOK(job[u])')
    /\ files' \in [Paths -> Writers]
    /\ UNCHANGED mainVars

\* The job of an upload that was answered before its body, or goes on (200).
Opened(req, answer) ==
    [Idle EXCEPT !.pc = IF answer = 200 THEN "receiving" ELSE "done",
                 !.error = IF answer = 200 THEN "none" ELSE "early",
                 !.answer = IF answer = 200 THEN 0 ELSE answer,
                 !.req = req, !.cfg = route, !.named = ~req.multipart]

\* The sets of a job's fields, by name, for the provers to leave folded.
Places == {"idle", "receiving", "received", "move", "copy", "publish", "done"}
Cuts   == {"no", "lost", "tooLarge"}
Codes  == {0, 200, 400, 401, 404, 409, 413, 422, 500}
Shape  == [pc : Places, req : Request \cup {NoRequest}, cfg : UploadRoute \cup {NoRoute},
           received : 0 .. PayloadMax, named : BOOLEAN, reopened : BOOLEAN, cut : Cuts,
           error : Errors, dest : Names \cup {NoPath}, answer : Codes]

LEMMA JobsShape == Jobs = Shape
BY DEF Jobs, Shape, Places, Cuts, Codes

LEMMA IdleTyped == Idle \in Jobs
BY UploadsAssumption DEF Idle, Jobs, Errors

LEMMA OpenedTyped ==
  ASSUME FileTypes, NEW req \in Request, NEW answer \in {200, 400, 401, 404, 422, 500}
  PROVE  LET j == Opened(req, answer) IN
         /\ j \in Jobs
         /\ j.pc = IF answer = 200 THEN "receiving" ELSE "done"
         /\ j.error = IF answer = 200 THEN "none" ELSE "early"
         /\ j.cfg = route /\ j.named = ~req.multipart /\ j.dest = NoPath
         /\ j.answer # 200
<1>1. (~req.multipart) \in BOOLEAN
  BY DEF Request
<1>2. Idle.dest = NoPath
  BY DEF Idle
<1> DEFINE pc == IF answer = 200 THEN "receiving" ELSE "done"
           error == IF answer = 200 THEN "none" ELSE "early"
           code == IF answer = 200 THEN 0 ELSE answer
           named == ~req.multipart
           j == [Idle EXCEPT !.pc = pc, !.error = error, !.answer = code, !.req = req,
                             !.cfg = route, !.named = named]
<1>3. /\ pc \in Places /\ error \in Errors /\ code \in Codes
      /\ named \in BOOLEAN /\ route \in UploadRoute \cup {NoRoute}
  BY <1>1 DEF Places, Errors, Codes, FileTypes
<1>4. j = Opened(req, answer)
  BY DEF Opened
<1> HIDE DEF pc, error, code, named
<1>5. /\ j \in Jobs /\ j.pc = pc /\ j.error = error /\ j.cfg = route
      /\ j.named = named /\ j.dest = NoPath /\ j.answer = code
  BY <1>2, <1>3, IdleTyped, JobsShape DEF Shape
<1> HIDE DEF j
<1>6. QED
  BY <1>4, <1>5 DEF pc, error, named, code

LEMMA StreamingOpens ==
  ASSUME NEW u \in Uploads, NEW req, HandleUploadStreaming(u, req)
  PROVE  \E answer \in {200, 400, 401, 404, 422, 500} :
           /\ answer = 200 => GateAnswer(route, req) = 200
           /\ job' = [job EXCEPT ![u] = Opened(req, answer)]
           /\ temps' = IF answer = 200 /\ ~req.multipart THEN temps \cup {u} ELSE temps
<1>1. GateAnswer(route, req) \in {200, 400, 401, 404, 422}
  BY DEF GateAnswer
<1> DEFINE code == GateAnswer(route, req)
           Outcome(answer) ==
             /\ job' = [job EXCEPT ![u] = Opened(req, answer)]
             /\ temps' = IF answer = 200 /\ ~req.multipart THEN temps \cup {u} ELSE temps
<1>2. \E opened \in BOOLEAN :
        Outcome(IF code = 200 /\ ~req.multipart /\ ~opened THEN 500 ELSE code)
  BY DEF HandleUploadStreaming, Opened
<1> HIDE DEF Outcome, code
<1>3. Outcome(500) \/ Outcome(code)
  BY <1>2
<1>4. \E answer \in {200, 400, 401, 404, 422, 500} :
        (answer = 200 => code = 200) /\ Outcome(answer)
  BY <1>1, <1>3 DEF code
<1>5. QED
  BY <1>4 DEF Outcome, code

LEMMA StreamingStep ==
  ASSUME IInv, NEW u \in Uploads, NEW req \in Requests[u], HandleUploadStreaming(u, req)
  PROVE  OwnStep(u) /\ EarlyStep(u)
<1> USE DEF IInv
<1>1. req \in Request
  BY UploadsAssumption
<1>2. JobOK(job[u]) /\ job[u].pc = "idle" /\ job[u].dest = NoPath /\ u \notin temps
  BY DEF JobInv, JobOK, TempInv, TempOK, HandleUploadStreaming
<1>3. PICK answer \in {200, 400, 401, 404, 422, 500} :
        /\ answer = 200 => GateAnswer(route, req) = 200
        /\ job' = [job EXCEPT ![u] = Opened(req, answer)]
        /\ temps' = IF answer = 200 /\ ~req.multipart THEN temps \cup {u} ELSE temps
  BY StreamingOpens
<1>4. LET j == Opened(req, answer) IN
        /\ j \in Jobs
        /\ j.pc = IF answer = 200 THEN "receiving" ELSE "done"
        /\ j.error = IF answer = 200 THEN "none" ELSE "early"
        /\ j.cfg = route /\ j.named = ~req.multipart /\ j.dest = NoPath
  BY <1>1, OpenedTyped
<1>5. job[u]' = Opened(req, answer) /\ OthersKeep(u) /\ job' \in [Uploads -> Jobs]
  BY <1>3, <1>4 DEF OthersKeep, FileTypes
<1>6. answer = 200 => route # NoRoute
  BY <1>3 DEF GateAnswer
<1>7. JobOK(job[u])'
  BY <1>4, <1>5, <1>6 DEF JobOK, Moving
<1>8. u \in temps' => TempOK(job[u])'
  BY <1>2, <1>3, <1>4, <1>5 DEF TempOK
<1>9. temps' \subseteq temps \cup {u} /\ UNCHANGED <<rivals, diskVars, mainVars>>
  BY <1>3 DEF HandleUploadStreaming
<1>10. job[u]'.pc \in {"receiving", "received", "done"} /\ job[u]'.dest = NoPath
  BY <1>4, <1>5
<1>11. QED
  BY <1>2, <1>5, <1>7, <1>8, <1>9, <1>10 DEF OwnStep, EarlyStep, diskVars, FileTypes

\* The same upload with another job.
Same(j, k) ==
    /\ k.req = j.req /\ k.cfg = j.cfg /\ k.reopened = j.reopened

LEMMA EditJob ==
  ASSUME FileTypes, NEW u \in Uploads, NEW k \in Jobs, job' = [job EXCEPT ![u] = k]
  PROVE  job' \in [Uploads -> Jobs] /\ OthersKeep(u) /\ job[u]' = k
BY DEF FileTypes, OthersKeep

LEMMA EndTyped ==
  ASSUME NEW j \in Jobs, NEW error \in Errors, NEW answer \in Codes
  PROVE  [j EXCEPT !.pc = "done", !.error = error, !.answer = answer] \in Jobs
<1>1. "done" \in Places
  BY DEF Places
<1>2. QED
  BY <1>1, JobsShape DEF Shape

LEMMA Ends ==
  ASSUME FileTypes, NEW u \in Uploads, NEW error \in Errors, NEW answer \in Codes,
         job' = [job EXCEPT ![u].pc = "done", ![u].error = error, ![u].answer = answer]
  PROVE  /\ job' \in [Uploads -> Jobs] /\ OthersKeep(u) /\ Same(job[u], job[u]')
         /\ job[u]'.pc = "done" /\ job[u]'.error = error
         /\ job[u]'.dest = job[u].dest /\ job[u]'.received = job[u].received
         /\ job[u]'.answer = answer /\ job[u]'.cut = job[u].cut
         /\ JobOK(job[u])'
<1> DEFINE k == [job[u] EXCEPT !.pc = "done", !.error = error, !.answer = answer]
<1>1. k \in Jobs
  BY EndTyped DEF FileTypes
<1>2. job' = [job EXCEPT ![u] = k]
  OBVIOUS
<1>6. /\ Same(job[u], k) /\ k.pc = "done" /\ k.error = error
      /\ k.dest = job[u].dest /\ k.received = job[u].received
      /\ k.answer = answer /\ k.cut = job[u].cut
  BY JobsShape DEF Same, Shape, FileTypes
<1> HIDE DEF k
<1>3. /\ OthersKeep(u) /\ Same(job[u], job[u]')
      /\ job[u]'.pc = "done" /\ job[u]'.error = error
      /\ job[u]'.dest = job[u].dest /\ job[u]'.received = job[u].received
      /\ job[u]'.answer = answer /\ job[u]'.cut = job[u].cut
      /\ job' \in [Uploads -> Jobs]
  BY <1>1, <1>2, <1>6, EditJob DEF Same
<1>4. JobOK(job[u])'
  BY <1>3 DEF JobOK, Moving
<1>5. QED
  BY <1>3, <1>4

\* The upload is over, without a file under an ordinary name.
LEMMA EarlyEnds ==
  ASSUME IInv, NEW u \in Uploads, job[u].pc = "received",
         NEW error \in Errors, NEW answer \in Codes,
         job' = [job EXCEPT ![u].pc = "done", ![u].error = error, ![u].answer = answer],
         \/ UNCHANGED <<temps, diskVars>> /\ ~job[u].named
         \/ RemoveTemp(u) /\ UNCHANGED diskVars
         \/ temps' = temps \ {u} /\ (UNCHANGED diskVars \/ SetFile(Kept, u))
         \/ UNCHANGED <<temps, diskVars>> /\ error = "crc" /\ job[u].cfg.onCorrupt # "Delete",
         UNCHANGED <<rivals, mainVars>>
  PROVE  OwnStep(u) /\ EarlyStep(u)
<1> USE DEF IInv
<1>1. job[u].dest = NoPath /\ (u \in temps => job[u].named)
  BY DEF JobInv, JobOK, TempInv, TempOK
<1>2. /\ job' \in [Uploads -> Jobs] /\ OthersKeep(u) /\ Same(job[u], job[u]')
      /\ job[u]'.pc = "done" /\ job[u]'.error = error /\ job[u]'.dest = job[u].dest
      /\ JobOK(job[u])'
  BY Ends
<1>3. temps' \subseteq temps \cup {u} /\ (u \in temps' => TempOK(job[u])')
  BY <1>1, <1>2 DEF RemoveTemp, TempOK, Same
<1>4. CASE UNCHANGED diskVars
  BY <1>1, <1>2, <1>3, <1>4 DEF OwnStep, EarlyStep, FileTypes, diskVars
<1>5. CASE SetFile(Kept, u)
  <2>1. files' \in [Paths -> Writers] /\ \A p \in Names : files[p]' = files[p]
    BY <1>5, NamesArePaths, WritersDiffer DEF SetFile, FileTypes
  <2>2. \A v \in linked : job[v].dest \in Names \cup {NoPath}
    BY JobFields DEF FileTypes
  <2>3. linked' = linked
    BY <1>5, <2>2, NamesArePaths DEF SetFile, Kept, NoPath
  <2>4. QED
    BY <1>1, <1>2, <1>3, <2>1, <2>3 DEF OwnStep, EarlyStep
<1>6. QED
  BY <1>4, <1>5 DEF RemoveTemp

LEMMA AnswerCode ==
  ASSUME NEW u, NEW code \in Codes
  PROVE  Answer(u, code) \in Codes
BY DEF Answer, Codes

LEMMA RejectErrorStep ==
  ASSUME IInv, NEW u \in Uploads, RejectError(u)
  PROVE  OwnStep(u) /\ EarlyStep(u)
<1>1. job[u].pc = "received" /\ job[u].error \in {"name", "io", "large", "write"}
  BY DEF RejectError, IInv, JobInv, JobOK
<1>2. job[u].error \in Errors /\ ErrorCode[job[u].error] \in Codes
  BY <1>1 DEF Errors, ErrorCode, Codes
<1>3. Answer(u, ErrorCode[job[u].error]) \in Codes
  BY <1>2, AnswerCode
<1>4. QED
  BY <1>1, <1>2, <1>3, EarlyEnds DEF RejectError, Fail

LEMMA NoFileFieldStep ==
  ASSUME IInv, NEW u \in Uploads, NoFileField(u)
  PROVE  OwnStep(u) /\ EarlyStep(u)
<1>1. "early" \in Errors /\ 400 \in Codes
  BY DEF Errors, Codes
<1>2. Answer(u, 400) \in Codes
  BY <1>1, AnswerCode
<1>3. QED
  BY <1>1, <1>2, EarlyEnds DEF NoFileField, ReturnEarly

LEMMA RejectInvalidStep ==
  ASSUME IInv, NEW u \in Uploads, RejectInvalid(u)
  PROVE  OwnStep(u) /\ EarlyStep(u)
<1>1. "invalid" \in Errors /\ 422 \in Codes
  BY DEF Errors, Codes
<1>2. Answer(u, 422) \in Codes
  BY <1>1, AnswerCode
<1>3. QED
  BY <1>1, <1>2, EarlyEnds DEF RejectInvalid, HasFile, Fail

LEMMA RejectCorruptStep ==
  ASSUME IInv, NEW u \in Uploads, RejectCorrupt(u)
  PROVE  OwnStep(u) /\ EarlyStep(u)
<1>1. "crc" \in Errors /\ 422 \in Codes
  BY DEF Errors, Codes
<1>2. Answer(u, 422) \in Codes
  BY <1>1, AnswerCode
<1>3. QED
  BY <1>1, <1>2, EarlyEnds DEF RejectCorrupt, HasFile, Fail

LEMMA RejectConflictStep ==
  ASSUME IInv, NEW u \in Uploads, RejectConflict(u)
  PROVE  OwnStep(u) /\ EarlyStep(u)
<1>1. "conflict" \in Errors /\ 409 \in Codes
  BY DEF Errors, Codes
<1>2. Answer(u, 409) \in Codes
  BY <1>1, AnswerCode
<1>3. QED
  BY <1>1, <1>2, EarlyEnds DEF RejectConflict, HasFile, Fail

-----------------------------------------------------------------------------
(* The body.                                                               *)

\* A job that goes on where it is, or from its body to what comes after it.
GoesOn(u) ==
    /\ job[u].pc = "receiving" /\ job[u]'.pc \in {"receiving", "received"}
    /\ job[u]'.dest = job[u].dest /\ job[u]'.cfg = job[u].cfg
    /\ job[u]'.error \in {"none", "name", "io", "large", "write"}
    /\ UNCHANGED <<rivals, diskVars, mainVars>>

LEMMA GoesOnStep ==
  ASSUME IInv, NEW u \in Uploads, GoesOn(u),
         job' \in [Uploads -> Jobs], OthersKeep(u),
         temps' \subseteq temps \cup {u}, u \in temps' => job[u]'.named
  PROVE  OwnStep(u) /\ EarlyStep(u)
<1>1. job[u].dest = NoPath /\ job[u].cfg # NoRoute
  BY DEF IInv, JobInv, JobOK, GoesOn
<1>2. JobOK(job[u])'
  BY <1>1 DEF JobOK, Moving, GoesOn
<1>3. u \in temps' => TempOK(job[u])'
  BY DEF TempOK, GoesOn
<1>4. QED
  BY <1>1, <1>2, <1>3 DEF OwnStep, EarlyStep, GoesOn, IInv, FileTypes, diskVars

\* One field of a job at a time.
LEMMA Edits ==
  ASSUME NEW j \in Jobs
  PROVE  /\ \A e \in Errors : [j EXCEPT !.error = e] \in Jobs
         /\ [j EXCEPT !.named = TRUE] \in Jobs
         /\ [j EXCEPT !.reopened = TRUE] \in Jobs
         /\ \A n \in 0 .. PayloadMax : [j EXCEPT !.received = n] \in Jobs
         /\ \A q \in Places : [j EXCEPT !.pc = q] \in Jobs
         /\ \A c \in Cuts : [j EXCEPT !.cut = c] \in Jobs
         /\ \A p \in Names : [j EXCEPT !.dest = p] \in Jobs
         /\ \A a \in Codes : [j EXCEPT !.answer = a] \in Jobs
<1> USE JobsShape DEF Shape
<1>1. \A e \in Errors : [j EXCEPT !.error = e] \in Jobs
  OBVIOUS
<1>2. [j EXCEPT !.named = TRUE] \in Jobs
  OBVIOUS
<1>3. [j EXCEPT !.reopened = TRUE] \in Jobs
  OBVIOUS
<1>4. \A n \in 0 .. PayloadMax : [j EXCEPT !.received = n] \in Jobs
  OBVIOUS
<1>5. \A q \in Places : [j EXCEPT !.pc = q] \in Jobs
  OBVIOUS
<1>6. \A c \in Cuts : [j EXCEPT !.cut = c] \in Jobs
  OBVIOUS
<1>7. \A p \in Names : [j EXCEPT !.dest = p] \in Jobs
  OBVIOUS
<1>8. \A a \in Codes : [j EXCEPT !.answer = a] \in Jobs
  OBVIOUS
<1>9. QED
  BY <1>1, <1>2, <1>3, <1>4, <1>5, <1>6, <1>7, <1>8

\* An edit of the job of an upload whose body goes on or is over.
LEMMA EditGoesOn ==
  ASSUME IInv, NEW u \in Uploads, job[u].pc = "receiving",
         NEW k \in Jobs, job' = [job EXCEPT ![u] = k],
         k.pc \in {"receiving", "received"}, k.dest = job[u].dest, k.cfg = job[u].cfg,
         k.error \in {"none", "name", "io", "large", "write"}, k.named = job[u].named \/ k.named,
         temps' = temps \/ (k.named /\ temps' = temps \cup {u}),
         UNCHANGED <<rivals, diskVars, mainVars>>
  PROVE  OwnStep(u) /\ EarlyStep(u) /\ job[u]'.pc # "done"
<1>1. job' \in [Uploads -> Jobs] /\ OthersKeep(u) /\ job[u]' = k
  BY EditJob DEF IInv
<1>2. u \in temps => job[u].named
  BY DEF IInv, TempInv, TempOK
<1>3. GoesOn(u)
  BY <1>1 DEF GoesOn
<1>4. QED
  BY <1>1, <1>2, <1>3, GoesOnStep DEF GoesOn

LEMMA FilePartStep ==
  ASSUME IInv, NEW u \in Uploads, FilePart(u)
  PROVE  OwnStep(u) /\ EarlyStep(u) /\ job[u]'.pc # "done"
<1>1. /\ job[u].pc = "receiving" /\ job[u].error = "none"
      /\ UNCHANGED <<rivals, diskVars, mainVars>>
  BY DEF FilePart, Receiving
<1>2. job[u] \in Jobs /\ {"none", "name", "io"} \subseteq Errors
  BY DEF IInv, FileTypes, Errors
<1>3. CASE job[u].req.name = "invalid"
  <2> DEFINE k == [job[u] EXCEPT !.error = "name"]
  <2>1. k \in Jobs
    BY <1>2, Edits
  <2>2. job' = [job EXCEPT ![u] = k] /\ temps' = temps
    BY <1>3 DEF FilePart
  <2>3. /\ k.pc = job[u].pc /\ k.dest = job[u].dest /\ k.cfg = job[u].cfg
        /\ k.error = "name" /\ k.named = job[u].named
    BY <1>2, JobsShape DEF Shape
  <2> HIDE DEF k
  <2>4. QED
    BY <1>1, <2>1, <2>2, <2>3, EditGoesOn
<1>4. CASE job[u].req.name # "invalid"
  <2>1. PICK error \in {"none", "io"} :
          /\ job' = [job EXCEPT ![u].named = TRUE, ![u].error = error]
          /\ temps' = temps \/ temps' = temps \cup {u}
    BY <1>4 DEF FilePart
  <2> DEFINE i == [job[u] EXCEPT !.named = TRUE]
             k == [i EXCEPT !.error = error]
  <2>2. i \in Jobs
    BY <1>2, Edits
  <2>3. /\ i.pc = job[u].pc /\ i.dest = job[u].dest /\ i.cfg = job[u].cfg
        /\ i.named = TRUE
    BY <1>2, JobsShape DEF Shape
  <2>4. job' = [job EXCEPT ![u] = k]
    BY <2>1
  <2> HIDE DEF i
  <2>5. k \in Jobs
    BY <1>2, <2>2, Edits
  <2>6. /\ k.pc = i.pc /\ k.dest = i.dest /\ k.cfg = i.cfg
        /\ k.error = error /\ k.named = i.named
    BY <2>2, JobsShape DEF Shape
  <2> HIDE DEF k
  <2>7. /\ k.pc = "receiving" /\ k.dest = job[u].dest /\ k.cfg = job[u].cfg
        /\ k.error \in {"none", "name", "io", "large", "write"} /\ k.named = TRUE
    BY <1>1, <2>1, <2>3, <2>6
  <2>8. temps' = temps \/ (k.named /\ temps' = temps \cup {u})
    BY <2>1, <2>7
  <2>9. QED
    BY <1>1, <2>4, <2>5, <2>7, <2>8, EditGoesOn
<1>5. QED
  BY <1>3, <1>4

LEMMA SecondFilePartStep ==
  ASSUME IInv, NEW u \in Uploads, SecondFilePart(u)
  PROVE  OwnStep(u) /\ EarlyStep(u) /\ job[u]'.pc # "done"
<1> DEFINE k == [job[u] EXCEPT !.reopened = TRUE]
<1>1. /\ job[u].pc = "receiving" /\ job[u].error = "none"
      /\ UNCHANGED <<temps, rivals, diskVars, mainVars>>
      /\ job' = [job EXCEPT ![u] = k]
  BY DEF SecondFilePart, Receiving
<1>2. job[u] \in Jobs
  BY DEF IInv, FileTypes
<1>3. k \in Jobs
  BY <1>2, Edits
<1>4. /\ k.pc = job[u].pc /\ k.dest = job[u].dest /\ k.cfg = job[u].cfg
      /\ k.error = job[u].error /\ k.named = job[u].named
  BY <1>2, JobsShape DEF Shape
<1> HIDE DEF k
<1>5. QED
  BY <1>1, <1>3, <1>4, EditGoesOn

LEMMA ReceiveChunkStep ==
  ASSUME IInv, NEW u \in Uploads, ReceiveChunk(u)
  PROVE  OwnStep(u) /\ EarlyStep(u) /\ job[u]'.pc # "done"
<1>1. /\ job[u].pc = "receiving" /\ job[u].error = "none"
      /\ UNCHANGED <<temps, rivals, diskVars, mainVars>>
  BY DEF ReceiveChunk, Receiving
<1>2. /\ job[u] \in Jobs /\ {"large", "write"} \subseteq Errors
      /\ job[u].received \in 0 .. PayloadMax
  BY JobFields DEF IInv, FileTypes, Errors
<1>3. \/ \E error \in {"large", "write"} : job' = [job EXCEPT ![u].error = error]
      \/ job' = [job EXCEPT ![u].received = @ + 1] /\ job[u].received + 1 <= PayloadMax
  <2>1. CASE job[u].reopened
    BY <2>1 DEF ReceiveChunk
  <2>2. CASE ~job[u].reopened
    <3>1. job[u].received < PayloadMax
      BY <2>2 DEF ReceiveChunk
    <3>2. job[u].received + 1 <= PayloadMax
      BY <1>2, <3>1, UploadsAssumption
    <3>3. QED
      BY <3>2 DEF ReceiveChunk
  <2>3. QED
    BY <2>1, <2>2
<1>4. CASE \E error \in {"large", "write"} : job' = [job EXCEPT ![u].error = error]
  <2>1. PICK error \in {"large", "write"} : job' = [job EXCEPT ![u].error = error]
    BY <1>4
  <2> DEFINE k == [job[u] EXCEPT !.error = error]
  <2>2. job' = [job EXCEPT ![u] = k]
    BY <2>1
  <2>3. k \in Jobs
    BY <1>2, Edits
  <2>4. /\ k.pc = job[u].pc /\ k.dest = job[u].dest /\ k.cfg = job[u].cfg
        /\ k.error = error /\ k.named = job[u].named
    BY <1>2, JobsShape DEF Shape
  <2> HIDE DEF k
  <2>5. QED
    BY <1>1, <2>2, <2>3, <2>4, EditGoesOn
<1>5. CASE job' = [job EXCEPT ![u].received = @ + 1] /\ job[u].received + 1 <= PayloadMax
  <2>1. PICK n : n = job[u].received + 1
    OBVIOUS
  <2>2. n \in 0 .. PayloadMax
    BY <1>2, <1>5, <2>1, UploadsAssumption
  <2> DEFINE k == [job[u] EXCEPT !.received = n]
  <2>3. job' = [job EXCEPT ![u] = k]
    BY <1>5, <2>1
  <2>4. k \in Jobs
    BY <1>2, <2>2, Edits
  <2>5. /\ k.pc = job[u].pc /\ k.dest = job[u].dest /\ k.cfg = job[u].cfg
        /\ k.error = job[u].error /\ k.named = job[u].named
    BY <1>2, JobsShape DEF Shape
  <2> HIDE DEF k
  <2>6. QED
    BY <1>1, <2>3, <2>4, <2>5, EditGoesOn
<1>6. QED
  BY <1>3, <1>4, <1>5

LEMMA BodyEndsStep ==
  ASSUME IInv, NEW u \in Uploads, BodyEnds(u)
  PROVE  OwnStep(u) /\ EarlyStep(u) /\ job[u]'.pc # "done"
<1>1. PICK cut \in Cuts : job' = [job EXCEPT ![u].pc = "received", ![u].cut = cut]
  BY DEF BodyEnds, Cuts
<1>2. job[u].pc = "receiving" /\ UNCHANGED <<temps, rivals, diskVars, mainVars>>
  BY DEF BodyEnds
<1>3. /\ job[u] \in Jobs /\ "received" \in Places
      /\ job[u].error \in {"none", "name", "io", "large", "write"}
  BY <1>2 DEF IInv, FileTypes, Places, JobInv, JobOK
<1> DEFINE i == [job[u] EXCEPT !.pc = "received"]
           k == [i EXCEPT !.cut = cut]
<1>4. i \in Jobs
  BY <1>3, Edits
<1>5. /\ i.pc = "received" /\ i.dest = job[u].dest /\ i.cfg = job[u].cfg
      /\ i.error = job[u].error /\ i.named = job[u].named
  BY <1>3, JobsShape DEF Shape
<1>6. job' = [job EXCEPT ![u] = k]
  BY <1>1
<1> HIDE DEF i
<1>7. k \in Jobs
  BY <1>4, Edits
<1>8. /\ k.pc = i.pc /\ k.dest = i.dest /\ k.cfg = i.cfg
      /\ k.error = i.error /\ k.named = i.named
  BY <1>4, JobsShape DEF Shape
<1> HIDE DEF k
<1>9. QED
  BY <1>2, <1>3, <1>5, <1>6, <1>7, <1>8, EditGoesOn

-----------------------------------------------------------------------------
(* The path, and the move to it.                                           *)

\* What an upload knew when it chose its path stays so.
LateStep(u) ==
    /\ Moving(job[u]) /\ job[u]'.pc \in {"copy", "publish", "done"}
    /\ job[u]'.dest = job[u].dest /\ Same(job[u], job[u]')
    /\ job[u]'.received = job[u].received /\ job[u]'.error \in {"none", "move"}
    /\ rivals' = rivals

LEMMA ChoosePathStep ==
  ASSUME IInv, NEW u \in Uploads, ChoosePath(u)
  PROVE  /\ OwnStep(u) /\ job[u].pc = "received" /\ job[u].dest = NoPath
         /\ job[u]'.pc = "move" /\ job[u]'.dest \in Names
         /\ job[u]'.cfg.onConflict # "Overwrite" => files[job[u]'.dest] = NoFile
         /\ rivals' = [rivals EXCEPT ![u] = {v \in Uploads : job[v].pc # "done"}]
         /\ UNCHANGED diskVars
<1> DEFINE path == ResolveDestPath(job[u].cfg.onConflict)
           i == [job[u] EXCEPT !.pc = "move"]
           k == [i EXCEPT !.dest = path]
<1>1. /\ job[u].pc = "received" /\ job[u].error = "none" /\ path # NoPath
      /\ Valid(job[u].cfg, job[u].req, job[u].received) /\ CrcMatches(u)
      /\ job' = [job EXCEPT ![u] = k]
      /\ rivals' = [rivals EXCEPT ![u] = {v \in Uploads : job[v].pc # "done"}]
      /\ UNCHANGED <<temps, diskVars, mainVars>>
  BY DEF ChoosePath, HasFile, PassesValidation
<1>2. job[u] \in Jobs /\ "move" \in Places /\ job[u].dest = NoPath /\ job[u].cfg # NoRoute
  BY <1>1 DEF IInv, FileTypes, Places, JobInv, JobOK
<1>3. path \in Names /\ (job[u].cfg.onConflict # "Overwrite" => files[path] = NoFile)
  BY <1>1, <1>2, ResolvedPath DEF IInv
<1>4. job[u].req.crc \in {"right", "wrong"} =>
        job[u].req.crc = "right" /\ job[u].received = job[u].req.size
  BY <1>1 DEF CrcMatches
<1> HIDE DEF path
<1>5. i \in Jobs
  BY <1>2, Edits
<1>6. /\ i.pc = "move" /\ i.cfg = job[u].cfg /\ i.req = job[u].req
      /\ i.received = job[u].received /\ i.error = job[u].error
  BY <1>2, JobsShape DEF Shape
<1> HIDE DEF i
<1>7. k \in Jobs
  BY <1>3, <1>5, Edits
<1>8. /\ k.pc = i.pc /\ k.cfg = i.cfg /\ k.req = i.req
      /\ k.received = i.received /\ k.error = i.error /\ k.dest = path
  BY <1>5, JobsShape DEF Shape
<1> HIDE DEF k
<1>9. job' \in [Uploads -> Jobs] /\ OthersKeep(u) /\ job[u]' = k
  BY <1>1, <1>7, EditJob DEF IInv
<1>10. Sound(k)
  BY <1>1, <1>4, <1>6, <1>8 DEF Sound
<1>11. JobOK(job[u])' /\ TempOK(job[u])'
  BY <1>1, <1>2, <1>3, <1>6, <1>8, <1>9, <1>10 DEF JobOK, TempOK, Moving
<1>12. OwnStep(u)
  BY <1>1, <1>9, <1>11 DEF OwnStep, IInv, FileTypes, diskVars
<1>13. QED
  BY <1>1, <1>2, <1>3, <1>6, <1>8, <1>9, <1>12

LEMMA Advance ==
  ASSUME IInv, NEW u \in Uploads, Moving(job[u]), NEW pc \in {"copy", "publish"},
         job' = [job EXCEPT ![u].pc = pc], rivals' = rivals
  PROVE  /\ job' \in [Uploads -> Jobs] /\ OthersKeep(u) /\ JobOK(job[u])'
         /\ job[u]'.pc = pc /\ LateStep(u)
<1> DEFINE k == [job[u] EXCEPT !.pc = pc]
<1>1. job[u] \in Jobs /\ pc \in Places /\ JobOK(job[u])
  BY DEF IInv, FileTypes, Places, JobInv
<1>2. k \in Jobs
  BY <1>1, Edits
<1>3. /\ k.pc = pc /\ Same(job[u], k) /\ k.received = job[u].received
      /\ k.error = job[u].error /\ k.dest = job[u].dest
  BY <1>1, JobsShape DEF Shape, Same
<1>4. job' = [job EXCEPT ![u] = k]
  OBVIOUS
<1> HIDE DEF k
<1>5. job' \in [Uploads -> Jobs] /\ OthersKeep(u) /\ job[u]' = k
  BY <1>2, <1>4, EditJob DEF IInv
<1>6. Sound(k)
  BY <1>1, <1>3 DEF JobOK, Sound, Same
<1>7. JobOK(k)
  BY <1>1, <1>3, <1>6 DEF JobOK, Moving, Same
<1>8. QED
  BY <1>1, <1>3, <1>5, <1>7 DEF JobOK, Moving, LateStep

LEMMA DestTyped ==
  ASSUME IInv, NEW u \in Uploads, Moving(job[u])
  PROVE  job[u].dest \in Names /\ job[u].dest \in Paths /\ job[u].error = "none" /\ Sound(job[u])
BY NamesArePaths DEF IInv, JobInv, JobOK

LEMMA RenameFileStep ==
  ASSUME IInv, NEW u \in Uploads, RenameFile(u)
  PROVE  OwnStep(u) /\ LateStep(u) /\ job[u]'.pc # "done"
<1>1. Moving(job[u]) /\ "publish" \in {"copy", "publish"}
  BY DEF RenameFile, Moving
<1>2. /\ job' \in [Uploads -> Jobs] /\ OthersKeep(u) /\ JobOK(job[u])' /\ LateStep(u)
      /\ job[u]'.pc = "publish"
  BY <1>1, Advance DEF RenameFile
<1>3. files' \in [Paths -> Writers]
  BY WritersDiffer DEF RenameFile, SetFile, IInv, FileTypes
<1>4. QED
  BY <1>2, <1>3 DEF RenameFile, OwnStep

LEMMA CopyFileStep ==
  ASSUME IInv, NEW u \in Uploads, CopyFile(u)
  PROVE  OwnStep(u) /\ LateStep(u) /\ job[u]'.pc # "done"
<1>1. Moving(job[u]) /\ "copy" \in {"copy", "publish"}
  BY DEF CopyFile, Moving
<1>2. /\ job' \in [Uploads -> Jobs] /\ OthersKeep(u) /\ JobOK(job[u])'
      /\ job[u]'.pc = "copy" /\ LateStep(u)
  BY <1>1, Advance DEF CopyFile
<1>3. files' \in [Paths -> Writers]
  BY WritersDiffer DEF CopyFile, IInv, FileTypes
<1>4. QED
  BY <1>2, <1>3 DEF CopyFile, OwnStep, TempOK

LEMMA WriteCopyTyped ==
  ASSUME IInv, NEW u \in Uploads, WriteCopy(u)
  PROVE  files' \in [Paths -> Writers] /\ linked' = linked \ {u}
BY WritersDiffer DEF WriteCopy, IInv, FileTypes

LEMMA CopyEndsStep ==
  ASSUME IInv, NEW u \in Uploads, CopyEnds(u)
  PROVE  OwnStep(u) /\ LateStep(u) /\ job[u]'.pc # "done"
<1>1. Moving(job[u]) /\ "publish" \in {"copy", "publish"}
  BY DEF CopyEnds, Moving
<1>2. /\ job' \in [Uploads -> Jobs] /\ OthersKeep(u) /\ JobOK(job[u])' /\ LateStep(u)
      /\ job[u]'.pc = "publish"
  BY <1>1, Advance DEF CopyEnds
<1>3. QED
  BY <1>2, WriteCopyTyped DEF CopyEnds, OwnStep

LEMMA MoveErrorStep ==
  ASSUME IInv, NEW u \in Uploads, MoveError(u)
  PROVE  OwnStep(u) /\ LateStep(u) /\ job[u]'.pc = "done"
<1>1. Moving(job[u]) /\ "move" \in Errors /\ 500 \in Codes
  BY DEF MoveError, Moving, Errors, Codes
<1>2. Answer(u, 500) \in Codes
  BY <1>1, AnswerCode
<1>3. /\ job' \in [Uploads -> Jobs] /\ OthersKeep(u) /\ Same(job[u], job[u]')
      /\ job[u]'.pc = "done" /\ job[u]'.error = "move"
      /\ job[u]'.dest = job[u].dest /\ job[u]'.received = job[u].received
      /\ JobOK(job[u])'
  <2>1. PICK answer \in Codes :
          job' = [job EXCEPT ![u].pc = "done", ![u].error = "move", ![u].answer = answer]
    BY <1>2 DEF MoveError, Fail
  <2>2. FileTypes
    BY DEF IInv
  <2>3. QED
    BY <1>1, <2>1, <2>2, Ends
<1>4. temps' \subseteq temps \cup {u} /\ (u \in temps' => TempOK(job[u])')
  BY <1>3 DEF MoveError, RemoveTemp, TempOK, Same
<1>5. files' \in [Paths -> Writers]
  BY WriteCopyTyped DEF MoveError, diskVars, IInv, FileTypes
<1>6. QED
  BY <1>1, <1>3, <1>4, <1>5 DEF OwnStep, LateStep, MoveError, Fail

LEMMA CompleteStep ==
  ASSUME IInv, NEW u \in Uploads, Complete(u)
  PROVE  OwnStep(u) /\ LateStep(u) /\ job[u]'.pc = "done"
<1>1. /\ Moving(job[u]) /\ job[u].error = "none" /\ 200 \in Codes /\ u \notin temps
      /\ job[u] \in Jobs /\ "done" \in Places
  BY DEF Complete, Moving, Codes, Places, IInv, TempInv, TempOK, FileTypes, JobInv, JobOK
<1>2. PICK answer \in Codes : job' = [job EXCEPT ![u].pc = "done", ![u].answer = answer]
  BY <1>1, AnswerCode DEF Complete
<1> DEFINE i == [job[u] EXCEPT !.pc = "done"]
           k == [i EXCEPT !.answer = answer]
<1>3. i \in Jobs
  BY <1>1, Edits
<1>4. /\ i.pc = "done" /\ Same(job[u], i) /\ i.received = job[u].received
      /\ i.error = job[u].error /\ i.dest = job[u].dest
  BY <1>1, JobsShape DEF Shape, Same
<1>5. job' = [job EXCEPT ![u] = k]
  BY <1>2
<1> HIDE DEF i
<1>6. k \in Jobs
  BY <1>3, Edits
<1>7. /\ k.pc = i.pc /\ Same(i, k) /\ k.received = i.received
      /\ k.error = i.error /\ k.dest = i.dest
  BY <1>3, JobsShape DEF Shape, Same
<1> HIDE DEF k
<1>8. job' \in [Uploads -> Jobs] /\ OthersKeep(u) /\ job[u]' = k
  BY <1>5, <1>6, EditJob DEF IInv
<1>9. JobOK(job[u])'
  BY <1>4, <1>7, <1>8 DEF JobOK, Moving
<1>10. UNCHANGED <<temps, rivals, diskVars, mainVars>>
  BY DEF Complete
<1>11. QED
  BY <1>1, <1>4, <1>7, <1>8, <1>9, <1>10 DEF OwnStep, LateStep, Same, diskVars, IInv, FileTypes

-----------------------------------------------------------------------------
(* A step of a handler keeps the invariant.                                *)

LEMMA OwnParts ==
  ASSUME IInv, NEW u \in Uploads, OwnStep(u), linked' \subseteq Uploads,
         rivals' \in [Uploads -> SUBSET Uploads]
  PROVE  FileTypes' /\ JobInv' /\ TempInv'
<1>1. FileTypes'
  BY DEF IInv, FileTypes, OwnStep, mainVars
<1>2. JobInv'
  BY DEF IInv, JobInv, OwnStep, OthersKeep
<1>3. TempInv'
  <2> SUFFICES ASSUME NEW v \in temps' PROVE TempOK(job[v])'
    BY DEF TempInv
  <2>1. v = u \/ (v \in temps /\ job[v]' = job[v])
    BY DEF OwnStep, OthersKeep, IInv, FileTypes
  <2>2. QED
    BY <2>1 DEF OwnStep, IInv, TempInv, TempOK
<1>4. QED
  BY <1>1, <1>2, <1>3

LEMMA EarlyKeeps ==
  ASSUME IInv, NEW u \in Uploads, OwnStep(u), EarlyStep(u)
  PROVE  IInv'
<1>1. FileTypes' /\ JobInv' /\ TempInv'
  BY OwnParts DEF EarlyStep, IInv, FileTypes
<1>2. FileInv'
  <2> SUFFICES ASSUME NEW p \in Names, files[p]' \in Uploads
               PROVE  FileOK(job[files[p]], p)'
    BY DEF FileInv
  <2>1. files[p]' = files[p] /\ FileOK(job[files[p]], p)
    BY DEF EarlyStep, IInv, FileInv
  <2>2. files[p] # u
    BY <2>1 DEF EarlyStep, FileOK
  <2>3. QED
    BY <2>1, <2>2 DEF OwnStep, OthersKeep
<1>3. VariantInv'
  <2> SUFFICES ASSUME NEW p \in Names \ {0}, files[p]' # NoFile
               PROVE  \E v \in Uploads : job[v].dest' = p
    BY DEF VariantInv
  <2>1. PICK v \in Uploads : job[v].dest = p
    BY DEF EarlyStep, IInv, VariantInv
  <2>2. v # u
    BY <2>1, NamesArePaths DEF EarlyStep
  <2>3. QED
    BY <2>1, <2>2 DEF OwnStep, OthersKeep
<1>4. LinkInv'
  <2> SUFFICES ASSUME NEW v \in linked PROVE LinkOK(v)'
    BY DEF LinkInv, EarlyStep
  <2>1. v \in Uploads /\ LinkOK(v) /\ v # u
    BY DEF IInv, FileTypes, LinkInv, LinkOK, EarlyStep
  <2>2. job[v].dest \in Names
    BY <2>1, DestTyped DEF LinkOK, Moving
  <2>3. \A w \in linked : w \in Uploads /\ w # u
    BY DEF IInv, FileTypes, LinkInv, LinkOK, EarlyStep
  <2>4. QED
    BY <2>1, <2>2, <2>3 DEF LinkOK, EarlyStep, OwnStep, OthersKeep
<1>5. RivalInv'
  <2> SUFFICES ASSUME NEW v \in Uploads PROVE RivalOK(v)'
    BY DEF RivalInv
  <2>1. CASE v = u
    BY <2>1 DEF RivalOK, Moving, EarlyStep
  <2>2. CASE v # u
    <3>1. RivalOK(v) /\ job[v]' = job[v] /\ (Moving(job[v]) => job[v].dest \in Names)
      BY <2>2, DestTyped DEF IInv, RivalInv, OwnStep, OthersKeep
    <3>2. \A w \in Uploads : job[w]'.pc # "done" => job[w].pc # "done"
      BY DEF OwnStep, OthersKeep, EarlyStep
    <3>3. QED
      BY <3>1, <3>2 DEF RivalOK, Moving, EarlyStep
  <2>3. QED
    BY <2>1, <2>2
<1>6. QED
  BY <1>1, <1>2, <1>3, <1>4, <1>5 DEF IInv

LEMMA ChoosePathKeeps ==
  ASSUME IInv, NEW u \in Uploads, ChoosePath(u)
  PROVE  IInv'
<1>1. /\ OwnStep(u) /\ job[u].pc = "received" /\ job[u].dest = NoPath
      /\ job[u]'.pc = "move" /\ job[u]'.dest \in Names
      /\ job[u]'.cfg.onConflict # "Overwrite" => files[job[u]'.dest] = NoFile
      /\ rivals' = [rivals EXCEPT ![u] = {v \in Uploads : job[v].pc # "done"}]
      /\ UNCHANGED diskVars
  BY ChoosePathStep
<1>2. UNCHANGED <<files, linked>> /\ OthersKeep(u)
  BY <1>1 DEF diskVars, OwnStep
<1>3. FileTypes' /\ JobInv' /\ TempInv'
  BY <1>1, <1>2, OwnParts DEF IInv, FileTypes
<1>4. FileInv'
  BY <1>1, <1>2 DEF IInv, FileInv, FileOK, OthersKeep
<1>5. VariantInv'
  BY <1>1, <1>2, NamesArePaths DEF IInv, VariantInv, OthersKeep
<1>6. LinkInv'
  <2> SUFFICES ASSUME NEW v \in linked PROVE LinkOK(v)'
    BY <1>2 DEF LinkInv
  <2>1. \A w \in linked : w \in Uploads /\ w # u
    BY <1>1 DEF IInv, FileTypes, LinkInv, LinkOK
  <2>2. LinkOK(v)
    BY DEF IInv, LinkInv
  <2>3. QED
    BY <1>2, <2>1, <2>2 DEF LinkOK, OthersKeep
<1>7. RivalInv'
  <2> SUFFICES ASSUME NEW v \in Uploads PROVE RivalOK(v)'
    BY DEF RivalInv
  <2>1. \A w \in Uploads : job[w]'.pc # "done" => job[w].pc # "done"
    BY <1>1, <1>2 DEF OthersKeep
  <2>2. CASE v = u
    <3>1. rivals[u]' = {w \in Uploads : job[w].pc # "done"}
      BY <1>1 DEF IInv, FileTypes
    <3>2. QED
      BY <1>1, <1>2, <2>1, <2>2, <3>1, WritersDiffer DEF RivalOK
  <2>3. CASE v # u
    <3>1. RivalOK(v) /\ job[v]' = job[v] /\ rivals[v]' = rivals[v]
      BY <1>1, <1>2, <2>3 DEF IInv, FileTypes, RivalInv, OthersKeep
    <3>2. QED
      BY <1>2, <2>1, <3>1 DEF RivalOK, Moving
  <2>4. QED
    BY <2>2, <2>3
<1>8. QED
  BY <1>3, <1>4, <1>5, <1>6, <1>7 DEF IInv

\* The only ordinary file a late step changes is the one at its path.
LateFiles(u) ==
    \A p \in Names :
        files[p]' = files[p] \/ (p = job[u].dest /\ files[p]' \in {u, "torn"})

LEMMA LateParts ==
  ASSUME IInv, NEW u \in Uploads, OwnStep(u), LateStep(u), LateFiles(u), LinkInv',
         linked' \subseteq Uploads
  PROVE  IInv'
<1>1. FileTypes' /\ JobInv' /\ TempInv'
  BY OwnParts DEF LateStep, IInv, FileTypes
<1>2. job[u].dest \in Names /\ job[u].error = "none" /\ Sound(job[u])
  BY DestTyped DEF LateStep
<1>3. FileOK(job[u], job[u].dest)'
  BY <1>2 DEF FileOK, Sound, LateStep, Same
<1>4. FileInv'
  <2> SUFFICES ASSUME NEW p \in Names, files[p]' \in Uploads
               PROVE  FileOK(job[files[p]], p)'
    BY DEF FileInv
  <2>1. CASE files[p]' = files[p]
    <3>1. FileOK(job[files[p]], p) /\ files[p] \in Uploads
      BY <2>1 DEF IInv, FileInv
    <3>2. CASE files[p] = u
      BY <1>3, <2>1, <3>1, <3>2 DEF FileOK, LateStep
    <3>3. CASE files[p] # u
      BY <2>1, <3>1, <3>3 DEF FileOK, OwnStep, OthersKeep
    <3>4. QED
      BY <3>2, <3>3
  <2>2. CASE files[p]' # files[p]
    <3>1. p = job[u].dest /\ files[p]' = u
      BY <2>2, WritersDiffer, UploadsAssumption DEF LateFiles
    <3>2. QED
      BY <1>3, <3>1 DEF LateStep, FileOK
  <2>3. QED
    BY <2>1, <2>2
<1>5. VariantInv'
  <2> SUFFICES ASSUME NEW p \in Names \ {0}, files[p]' # NoFile
               PROVE  \E v \in Uploads : job[v].dest' = p
    BY DEF VariantInv
  <2>1. \A v \in Uploads : job[v].dest' = job[v].dest
    BY DEF LateStep, OwnStep, OthersKeep
  <2>2. QED
    BY <2>1 DEF LateFiles, IInv, VariantInv
<1>6. RivalInv'
  <2> SUFFICES ASSUME NEW v \in Uploads PROVE RivalOK(v)'
    BY DEF RivalInv
  <2>1. \A w \in Uploads : job[w]'.pc # "done" => job[w].pc # "done"
    BY DEF OwnStep, OthersKeep, LateStep, Moving
  <2>2. RivalOK(v)
    BY DEF IInv, RivalInv
  <2>3. CASE v = u
    BY <2>1, <2>2, <2>3 DEF RivalOK, LateStep, Moving
  <2>4. CASE v # u
    <3>1. job[v]' = job[v] /\ rivals[v]' = rivals[v]
      BY <2>4 DEF OwnStep, OthersKeep, LateStep
    <3>2. Moving(job[v]) => u \in rivals[v] /\ job[v].dest \in Names
      BY <2>2, DestTyped DEF RivalOK, LateStep, Moving
    <3>3. "torn" \notin Uploads \cup {"operator"}
      BY WritersDiffer
    <3>4. job[v].dest \in Names =>
            \/ files[job[v].dest]' = files[job[v].dest]
            \/ files[job[v].dest]' \in {u, "torn"}
      BY <3>1 DEF LateFiles
    <3>5. QED
      BY <2>1, <2>2, <3>1, <3>2, <3>3, <3>4 DEF RivalOK, Moving
  <2>5. QED
    BY <2>3, <2>4
<1>7. QED
  BY <1>1, <1>4, <1>5, <1>6 DEF IInv

LEMMA LinkedCopies ==
  ASSUME IInv
  PROVE  \A v \in linked : v \in Uploads /\ job[v].pc = "copy" /\ job[v].dest \in Names /\ LinkOK(v)
<1> SUFFICES ASSUME NEW v \in linked
             PROVE  v \in Uploads /\ job[v].pc = "copy" /\ job[v].dest \in Names /\ LinkOK(v)
  OBVIOUS
<1>1. v \in Uploads /\ LinkOK(v) /\ job[v].pc = "copy"
  BY DEF IInv, FileTypes, LinkInv, LinkOK
<1>2. QED
  BY <1>1, DestTyped DEF Moving

LEMMA RenameFileKeeps ==
  ASSUME IInv, NEW u \in Uploads, RenameFile(u)
  PROVE  IInv'
<1>1. OwnStep(u) /\ LateStep(u) /\ OthersKeep(u)
  BY RenameFileStep DEF OwnStep
<1>2. job[u].dest \in Names /\ job[u].dest \in Paths /\ job[u].pc = "move"
  BY <1>1, DestTyped DEF LateStep, RenameFile
<1>3. /\ files' = [files EXCEPT ![job[u].dest] = u]
      /\ linked' = {v \in linked : job[v].dest # job[u].dest}
  BY DEF RenameFile, SetFile
<1>4. LateFiles(u)
  BY <1>2, <1>3, NamesArePaths DEF LateFiles, IInv, FileTypes
<1>5. LinkInv'
  <2> SUFFICES ASSUME NEW v \in linked' PROVE LinkOK(v)'
    BY DEF LinkInv
  <2>1. v \in linked /\ job[v].dest # job[u].dest
    BY <1>3
  <2>2. \A w \in linked : w \in Uploads /\ w # u /\ job[w]' = job[w]
    BY <1>1, <1>2, LinkedCopies DEF OthersKeep
  <2>3. LinkOK(v) /\ job[v].dest \in Names
    BY <2>1, LinkedCopies
  <2>4. files[job[v].dest]' = files[job[v].dest]
    BY <1>3, <2>1, <2>2, <2>3, NamesArePaths DEF IInv, FileTypes
  <2>5. QED
    BY <1>3, <2>1, <2>2, <2>3, <2>4 DEF LinkOK
<1>6. linked' \subseteq Uploads
  BY <1>3 DEF IInv, FileTypes
<1>7. QED
  BY <1>1, <1>4, <1>5, <1>6, LateParts

LEMMA CopyFileKeeps ==
  ASSUME IInv, NEW u \in Uploads, CopyFile(u)
  PROVE  IInv'
<1>1. OwnStep(u) /\ LateStep(u) /\ OthersKeep(u)
  BY CopyFileStep DEF OwnStep
<1>2. /\ job[u].dest \in Names /\ job[u].dest \in Paths /\ job[u].pc = "move"
      /\ job[u]'.pc = "copy" /\ job[u]'.dest = job[u].dest
  <2>1. job[u] \in Jobs /\ job' = [job EXCEPT ![u].pc = "copy"]
    BY DEF CopyFile, IInv, FileTypes
  <2>2. job[u]'.pc = "copy"
    BY <2>1, JobsShape DEF Shape, IInv, FileTypes
  <2>3. QED
    BY <1>1, <2>2, DestTyped DEF LateStep, CopyFile
<1>3. /\ files' = [files EXCEPT ![job[u].dest] = u]
      /\ linked' = linked \cup {u}
  BY DEF CopyFile
<1>4. LateFiles(u)
  BY <1>2, <1>3, NamesArePaths DEF LateFiles, IInv, FileTypes
<1>5. files[job[u].dest]' = u
  BY <1>2, <1>3 DEF IInv, FileTypes
<1>6. LinkInv'
  <2> SUFFICES ASSUME NEW v \in linked' PROVE LinkOK(v)'
    BY DEF LinkInv
  <2>1. CASE v = u
    BY <1>2, <1>3, <1>5, <2>1 DEF LinkOK
  <2>2. CASE v # u
    <3>1. \A w \in linked : w \in Uploads /\ w # u /\ job[w]' = job[w]
      BY <1>1, <1>2, LinkedCopies DEF OthersKeep
    <3>2. v \in linked /\ LinkOK(v) /\ job[v].dest \in Names
      BY <1>3, <2>2, LinkedCopies
    <3>3. CASE job[v].dest = job[u].dest
      BY <1>2, <1>3, <1>5, <3>1, <3>2, <3>3 DEF LinkOK
    <3>4. CASE job[v].dest # job[u].dest
      <4>1. files[job[v].dest]' = files[job[v].dest]
        BY <1>3, <3>1, <3>2, <3>4, NamesArePaths DEF IInv, FileTypes
      <4>2. QED
        BY <1>3, <3>1, <3>2, <4>1 DEF LinkOK
    <3>5. QED
      BY <3>3, <3>4
  <2>3. QED
    BY <2>1, <2>2
<1>7. linked' \subseteq Uploads
  BY <1>3 DEF IInv, FileTypes
<1>8. QED
  BY <1>1, <1>4, <1>6, <1>7, LateParts

LEMMA WriteCopyKeeps ==
  ASSUME IInv, NEW u \in Uploads, OwnStep(u), LateStep(u), WriteCopy(u)
  PROVE  IInv'
<1>1. job[u].dest \in Names /\ job[u].dest \in Paths /\ OthersKeep(u)
  BY DestTyped DEF LateStep, OwnStep
<1>2. linked' = linked \ {u}
  BY DEF WriteCopy
<1>3. \A w \in linked \ {u} : w \in Uploads /\ job[w]' = job[w]
  BY <1>1, LinkedCopies DEF OthersKeep
<1>4. LateFiles(u)
  BY <1>1, NamesArePaths DEF WriteCopy, LateFiles, IInv, FileTypes
<1>5. LinkInv'
  <2> SUFFICES ASSUME NEW v \in linked \ {u} PROVE LinkOK(v)'
    BY <1>2 DEF LinkInv
  <2>1. LinkOK(v) /\ job[v].dest \in Names /\ job[v]' = job[v]
    BY <1>3, LinkedCopies
  <2>2. CASE u \in linked /\ job[v].dest = job[u].dest
    <3>1. files[job[v].dest]' = "torn"
      <4>1. \E w \in linked \ {u} : job[w].dest = job[u].dest
        BY <2>2
      <4>2. files' = [files EXCEPT ![job[u].dest] = "torn"]
        BY <2>2, <4>1 DEF WriteCopy
      <4>3. QED
        BY <1>1, <2>1, <2>2, <4>2 DEF IInv, FileTypes
    <3>2. QED
      BY <2>1, <3>1 DEF LinkOK
  <2>3. CASE u \in linked /\ job[v].dest # job[u].dest
    <3>1. files[job[v].dest]' = files[job[v].dest]
      BY <2>1, <2>3, NamesArePaths DEF WriteCopy, IInv, FileTypes
    <3>2. QED
      BY <1>2, <1>3, <2>1, <2>3, <3>1 DEF LinkOK
  <2>4. CASE u \notin linked
    <3>1. files' = files
      BY <2>4 DEF WriteCopy
    <3>2. QED
      BY <1>2, <1>3, <2>1, <2>4, <3>1 DEF LinkOK
  <2>5. QED
    BY <2>2, <2>3, <2>4
<1>6. linked' \subseteq Uploads
  BY <1>2 DEF IInv, FileTypes
<1>7. QED
  BY <1>4, <1>5, <1>6, LateParts

\* A late step that leaves the directory alone.
LEMMA LateQuietKeeps ==
  ASSUME IInv, NEW u \in Uploads, OwnStep(u), LateStep(u), job[u].pc # "copy",
         UNCHANGED diskVars
  PROVE  IInv'
<1>1. LateFiles(u) /\ linked' = linked /\ files' = files
  BY DEF LateFiles, diskVars
<1>2. \A w \in linked : w \in Uploads /\ job[w]' = job[w] /\ LinkOK(w)
  BY LinkedCopies DEF OwnStep, OthersKeep
<1>3. LinkInv'
  <2> SUFFICES ASSUME NEW v \in linked PROVE LinkOK(v)'
    BY <1>1 DEF LinkInv
  <2>1. QED
    BY <1>1, <1>2 DEF LinkOK
<1>4. QED
  BY <1>1, <1>3, LateParts DEF IInv, FileTypes

LEMMA UploadStepKeeps ==
  ASSUME IInv, NEW u \in Uploads, UploadStep(u)
  PROVE  IInv'
<1>1. CASE \/ FilePart(u) \/ SecondFilePart(u) \/ ReceiveChunk(u) \/ BodyEnds(u)
           \/ RejectError(u) \/ NoFileField(u) \/ RejectInvalid(u) \/ RejectCorrupt(u)
           \/ RejectConflict(u)
  BY <1>1, FilePartStep, SecondFilePartStep, ReceiveChunkStep, BodyEndsStep, RejectErrorStep,
     NoFileFieldStep, RejectInvalidStep, RejectCorruptStep, RejectConflictStep, EarlyKeeps
<1>2. CASE ChoosePath(u)
  BY <1>2, ChoosePathKeeps
<1>3. CASE RenameFile(u)
  BY <1>3, RenameFileKeeps
<1>4. CASE CopyFile(u)
  BY <1>4, CopyFileKeeps
<1>5. CASE CopyEnds(u)
  BY <1>5, CopyEndsStep, WriteCopyKeeps DEF CopyEnds
<1>6. CASE MoveError(u)
  <2>1. OwnStep(u) /\ LateStep(u)
    BY <1>6, MoveErrorStep
  <2>2. CASE job[u].pc = "move" /\ UNCHANGED diskVars
    BY <2>1, <2>2, LateQuietKeeps
  <2>3. CASE WriteCopy(u)
    BY <2>1, <2>3, WriteCopyKeeps
  <2>4. QED
    BY <1>6, <2>2, <2>3 DEF MoveError
<1>7. CASE Complete(u)
  BY <1>7, CompleteStep, LateQuietKeeps DEF Complete
<1>8. QED
  BY <1>1, <1>2, <1>3, <1>4, <1>5, <1>6, <1>7 DEF UploadStep

-----------------------------------------------------------------------------
(* The main thread and the DELETE handler.                                 *)

\* The handlers' state stays; a file may go.
MainStep ==
    /\ UNCHANGED jobVars /\ route' \in UploadRoute \cup {NoRoute}
    /\ deleting' \in Paths \cup {NoPath}
    /\ UNCHANGED diskVars \/ \E p \in Paths : SetFile(p, NoFile)

LEMMA SetFieldStep ==
  ASSUME IInv, NEW cfg \in UploadRoute \cup {NoRoute}, SetField(cfg)
  PROVE  MainStep
BY DEF SetField, MainStep, IInv, FileTypes

LEMMA NativesStep ==
  ASSUME IInv, Natives
  PROVE  MainStep
<1>1. CASE SetConflictMode
  <2>1. PICK m \in ConflictModes : SetField([route EXCEPT !.onConflict = m])
    BY <1>1 DEF SetConflictMode
  <2>2. route \in UploadRoute
    BY <2>1 DEF SetField, IInv, FileTypes
  <2>3. [route EXCEPT !.onConflict = m] \in UploadRoute
    BY <2>2 DEF UploadRoute
  <2>4. QED
    BY <2>1, <2>3, SetFieldStep
<1>2. CASE SetCorruptAction
  <2>1. PICK a \in CorruptActions : SetField([route EXCEPT !.onCorrupt = a])
    BY <1>2 DEF SetCorruptAction
  <2>2. route \in UploadRoute
    BY <2>1 DEF SetField, IInv, FileTypes
  <2>3. [route EXCEPT !.onCorrupt = a] \in UploadRoute
    BY <2>2 DEF UploadRoute
  <2>4. QED
    BY <2>1, <2>3, SetFieldStep
<1>3. CASE SetRequireCRC32
  <2>1. PICK b \in BOOLEAN : SetField([route EXCEPT !.requireCrc32 = b])
    BY <1>3 DEF SetRequireCRC32
  <2>2. route \in UploadRoute
    BY <2>1 DEF SetField, IInv, FileTypes
  <2>3. [route EXCEPT !.requireCrc32 = b] \in UploadRoute
    BY <2>2 DEF UploadRoute
  <2>4. QED
    BY <2>1, <2>3, SetFieldStep
<1>4. CASE AddKeyToRoute \/ RemoveKeyFromRoute
  <2>1. PICK b \in BOOLEAN : SetField([route EXCEPT !.authorizedKeys = b])
    BY <1>4 DEF AddKeyToRoute, RemoveKeyFromRoute
  <2>2. route \in UploadRoute
    BY <2>1 DEF SetField, IInv, FileTypes
  <2>3. [route EXCEPT !.authorizedKeys = b] \in UploadRoute
    BY <2>2 DEF UploadRoute
  <2>4. QED
    BY <2>1, <2>3, SetFieldStep
<1>5. CASE RemoveRoute
  BY <1>5, SetFieldStep DEF RemoveRoute
<1>6. CASE Reset
  BY <1>6 DEF Reset, MainStep, IInv, FileTypes
<1>7. CASE \E p \in Paths : DeleteRouteFile(p) \/ HandleFileDelete(p)
  BY <1>7 DEF DeleteRouteFile, HandleFileDelete, MainStep, IInv, FileTypes
<1>8. QED
  BY <1>1, <1>2, <1>3, <1>4, <1>5, <1>6, <1>7 DEF Natives

LEMMA MainKeeps ==
  ASSUME IInv, MainStep
  PROVE  IInv'
<1>1. job' = job /\ temps' = temps /\ rivals' = rivals
  BY DEF MainStep, jobVars
<1>2. /\ files' \in [Paths -> Writers]
      /\ \A p \in Paths : files[p]' = files[p] \/ files[p]' = NoFile
      /\ linked' \subseteq linked
      /\ \A v \in linked' : job[v].dest \in Paths => files'[job[v].dest] = files[job[v].dest]
      /\ \A v, w \in linked : v \in linked' /\ job[w].dest = job[v].dest => w \in linked'
  <2>1. CASE UNCHANGED diskVars
    BY <2>1 DEF diskVars, IInv, FileTypes
  <2>2. CASE \E p \in Paths : SetFile(p, NoFile)
    <3>1. PICK p \in Paths : SetFile(p, NoFile)
      BY <2>2
    <3>2. QED
      BY <3>1, WritersDiffer DEF SetFile, IInv, FileTypes
  <2>3. QED
    BY <2>1, <2>2 DEF MainStep
<1>3. \A u \in Uploads : Moving(job[u]) => job[u].dest \in Paths
  BY DestTyped
<1>4. FileTypes' /\ JobInv' /\ TempInv'
  BY <1>1, <1>2 DEF MainStep, IInv, FileTypes, JobInv, TempInv
<1>5. FileInv'
  <2> SUFFICES ASSUME NEW p \in Names, files[p]' \in Uploads
               PROVE  FileOK(job[files[p]], p)'
    BY DEF FileInv
  <2>1. files[p]' = files[p]
    BY <1>2, NamesArePaths, WritersDiffer
  <2>2. FileOK(job[files[p]], p)
    BY <2>1 DEF IInv, FileInv
  <2>3. QED
    BY <1>1, <2>1, <2>2 DEF FileOK
<1>6. VariantInv'
  BY <1>1, <1>2, NamesArePaths DEF IInv, VariantInv
<1>7. LinkInv'
  <2> SUFFICES ASSUME NEW v \in linked' PROVE LinkOK(v)'
    BY DEF LinkInv
  <2>1. v \in linked /\ LinkOK(v) /\ job[v].dest \in Paths
    BY <1>2, LinkedCopies, NamesArePaths
  <2>2. files'[job[v].dest] = files[job[v].dest]
    BY <1>2, <2>1
  <2>3. QED
    BY <1>1, <1>2, <2>1, <2>2 DEF LinkOK
<1>8. RivalInv'
  <2> SUFFICES ASSUME NEW v \in Uploads PROVE RivalOK(v)'
    BY DEF RivalInv
  <2>1. RivalOK(v) /\ (Moving(job[v]) => job[v].dest \in Paths)
    BY <1>3 DEF IInv, RivalInv
  <2>2. QED
    BY <1>1, <1>2, <2>1, WritersDiffer DEF RivalOK, Moving
<1>9. QED
  BY <1>4, <1>5, <1>6, <1>7, <1>8 DEF IInv

-----------------------------------------------------------------------------
(* The theorems.                                                           *)

LEMMA InitHolds == Init => IInv
<1> SUFFICES ASSUME Init PROVE IInv
  OBVIOUS
<1>1. /\ job = [u \in Uploads |-> Idle] /\ temps = {} /\ linked = {}
      /\ \A u \in Uploads : job[u] = Idle
  BY DEF Init
<1>2. Idle.pc = "idle" /\ Idle.dest = NoPath
  BY DEF Idle
<1>3. FileTypes
  <2>1. files \in [Paths -> Writers] /\ rivals \in [Uploads -> SUBSET Uploads]
    BY WritersDiffer DEF Init, Writers
  <2>2. QED
    BY <1>1, <2>1, IdleTyped, UploadsAssumption DEF Init, FileTypes
<1>4. JobInv /\ RivalInv
  BY <1>1, <1>2 DEF JobInv, JobOK, RivalInv, RivalOK, Moving
<1>5. TempInv /\ LinkInv
  BY <1>1 DEF TempInv, LinkInv
<1>6. FileInv /\ VariantInv
  BY NamesArePaths, WritersDiffer DEF Init, FileInv, VariantInv
<1>7. QED
  BY <1>3, <1>4, <1>5, <1>6 DEF IInv

\* What a step does, as the next theorems need it.
LEMMA NextCases ==
  ASSUME IInv, [Next]_vars
  PROVE  \/ \E u \in Uploads : \/ OwnStep(u) /\ EarlyStep(u)
                              \/ UploadStep(u)
         \/ MainStep
<1>1. CASE \E u \in Uploads : \E req \in Requests[u] : HandleUploadStreaming(u, req)
  BY <1>1, StreamingStep
<1>2. CASE \E u \in Uploads : UploadStep(u)
  BY <1>2
<1>3. CASE Natives
  BY <1>3, NativesStep
<1>4. CASE RemoveFile
  BY <1>4 DEF RemoveFile, MainStep, IInv, FileTypes
<1>5. CASE DrainEvents \/ UNCHANGED vars
  BY <1>5 DEF DrainEvents, vars, mainVars, MainStep, IInv, FileTypes
<1>6. QED
  BY <1>1, <1>2, <1>3, <1>4, <1>5 DEF Next

LEMMA NextKeeps == IInv /\ [Next]_vars => IInv'
BY NextCases, EarlyKeeps, UploadStepKeeps, MainKeeps

\* The jobs, the temp files and the directory agree, whatever the handlers, the
\* natives and the DELETE requests do between each other's steps.
THEOREM InvariantHolds == Spec => []IInv
<1>1. Init => IInv
  BY InitHolds
<1>2. IInv /\ [Next]_vars => IInv'
  BY NextKeeps
<1>3. QED
  BY <1>1, <1>2, PTL DEF Spec

\* On none of its exits does an upload leave a temp file behind, but for a second
\* field "file" and a corrupt file that could not be moved away.
THEOREM TempsAreRemoved == Spec => []NoTempLeft
<1>1. IInv => NoTempLeft
  BY DEF IInv, TempInv, TempOK, NoTempLeft
<1>2. QED
  BY <1>1, InvariantHolds, PTL

\* A file under an ordinary name passed all the checks of the upload that wrote
\* it, with the configuration that upload started with.
THEOREM StoredFilesAreAccepted == Spec => []StoredIsAccepted
<1>1. IInv => StoredIsAccepted
  <2> SUFFICES ASSUME IInv, NEW p \in Names, files[p] \in Uploads
               PROVE  LET j == job[files[p]] IN
                      /\ j.error \in {"none", "move"}
                      /\ Valid(j.cfg, j.req, j.received)
                      /\ j.req.crc \in {"right", "wrong"} =>
                            j.req.crc = "right" /\ j.received = j.req.size
    BY DEF StoredIsAccepted
  <2>1. FileOK(job[files[p]], p)
    BY DEF IInv, FileInv
  <2>2. QED
    BY <2>1 DEF FileOK, Sound
<1>2. QED
  BY <1>1, InvariantHolds, PTL

\* The end of a copy replaces no file but its own, or a mixture.
LEMMA WriteCopyReplacesNone ==
  ASSUME IInv, NEW u \in Uploads, OwnStep(u), LateStep(u), WriteCopy(u), NEW p \in Names,
         files'[p] \in Uploads, files[p] \in Uploads \cup {"operator"}
  PROVE  files'[p] = files[p]
<1>1. CASE u \notin linked \/ p # job[u].dest
  BY <1>1, NamesArePaths DEF WriteCopy, IInv, FileTypes
<1>2. CASE u \in linked /\ p = job[u].dest
  <2>1. files[p] \in linked /\ job[files[p]].dest = p
    BY <1>2, LinkedCopies, WritersDiffer DEF LinkOK
  <2>2. CASE files[p] = u
    BY <1>2, <2>2, NamesArePaths, WritersDiffer DEF WriteCopy, IInv, FileTypes
  <2>3. CASE files[p] # u
    <3>1. \E v \in linked \ {u} : job[v].dest = job[u].dest
      BY <1>2, <2>1, <2>3
    <3>2. files' = [files EXCEPT ![p] = "torn"]
      BY <1>2, <3>1 DEF WriteCopy
    <3>3. files'[p] = "torn"
      BY <3>2, NamesArePaths DEF IInv, FileTypes
    <3>4. QED
      BY <3>3, WritersDiffer
  <2>4. QED
    BY <2>2, <2>3
<1>3. QED
  BY <1>1, <1>2

LEMMA StepKeepsFinishedFiles ==
  ASSUME IInv, [Next]_vars, NEW p \in Names, files'[p] \in Uploads,
         files[p] \in Uploads \cup {"operator"}, files'[p] # files[p]
  PROVE  job[files'[p]].cfg.onConflict = "Overwrite" \/ files[p] \in rivals[files'[p]]
<1>1. CASE \E u \in Uploads : OwnStep(u) /\ EarlyStep(u)
  BY <1>1 DEF EarlyStep
<1>2. CASE MainStep
  BY <1>2, NamesArePaths, WritersDiffer DEF MainStep, SetFile, diskVars, IInv, FileTypes
<1>3. ASSUME NEW u \in Uploads, UploadStep(u)
      PROVE  job[files'[p]].cfg.onConflict = "Overwrite" \/ files[p] \in rivals[files'[p]]
  <2>1. CASE \/ FilePart(u) \/ SecondFilePart(u) \/ ReceiveChunk(u) \/ BodyEnds(u)
             \/ RejectError(u) \/ NoFileField(u) \/ RejectInvalid(u) \/ RejectCorrupt(u)
             \/ RejectConflict(u)
    <3>1. EarlyStep(u)
      BY <2>1, FilePartStep, SecondFilePartStep, ReceiveChunkStep, BodyEndsStep,
         RejectErrorStep, NoFileFieldStep, RejectInvalidStep, RejectCorruptStep,
         RejectConflictStep
    <3>2. QED
      BY <3>1 DEF EarlyStep
  <2>2. CASE ChoosePath(u) \/ Complete(u)
    BY <2>2 DEF ChoosePath, Complete, diskVars
  <2>3. CASE RenameFile(u) \/ CopyFile(u)
    <3>1. files' = [files EXCEPT ![job[u].dest] = u] /\ job[u].pc = "move"
      BY <2>3 DEF RenameFile, CopyFile, SetFile
    <3>2. p = job[u].dest /\ files'[p] = u
      BY <3>1, NamesArePaths DEF IInv, FileTypes
    <3>3. RivalOK(u)
      BY DEF IInv, RivalInv
    <3>4. QED
      BY <3>1, <3>2, <3>3 DEF RivalOK
  <2>4. CASE CopyEnds(u)
    BY <2>4, CopyEndsStep, WriteCopyReplacesNone DEF CopyEnds
  <2>5. CASE MoveError(u)
    BY <2>5, MoveErrorStep, WriteCopyReplacesNone DEF MoveError, diskVars
  <2>6. QED
    BY <1>3, <2>1, <2>2, <2>3, <2>4, <2>5 DEF UploadStep
<1>4. QED
  BY <1>1, <1>2, <1>3, NextCases

\* In the modes CONFLICT_RENAME and CONFLICT_REJECT no upload replaces a file
\* that was finished when it chose its path.
THEOREM FinishedFilesStay == Spec => KeepsFinishedFiles
<1>1. IInv /\ [Next]_vars =>
        \A p \in Names :
          LET old == files[p]  new == files'[p] IN
          new \in Uploads /\ old \in Uploads \cup {"operator"} /\ new # old =>
             job[new].cfg.onConflict = "Overwrite" \/ old \in rivals[new]
  BY StepKeepsFinishedFiles
<1>2. QED
  BY <1>1, InvariantHolds, PTL DEF Spec, KeepsFinishedFiles

-----------------------------------------------------------------------------
(* The events of the uploads and the answers to their clients.             *)

Event == [upload : Uploads, kind : Kinds]

EventTypes ==
    /\ pendingEvents \in Seq(Event)
    /\ heard \in [Uploads -> SUBSET Kinds]
    /\ cleared \subseteq Uploads
    /\ natives \in 0 .. MaxNatives

EInv == IInv /\ EventTypes /\ OneOutcome /\ AnswerMatchesOutcome

\* What a step of a handler does to its events: nothing, unless it is an early
\* return before any outcome ...
Quiet(u) ==
    /\ UNCHANGED <<pendingEvents, toldVars>>
    /\ job[u]'.pc = "done" => job[u]'.error = "early" /\ job[u]'.answer # 200

\* ... one more of the body has arrived ...
Progresses(u) ==
    /\ PushEvent(u, "Progress") /\ UNCHANGED toldVars
    /\ job[u]'.pc # "done"

\* ... or the end, told to the script and to the client.
Reports(u, kind) ==
    /\ PushEvent(u, kind) /\ UNCHANGED toldVars
    /\ job[u]'.pc = "done" /\ job[u]'.error # "early"
    /\ job[u]'.answer = 200 <=> kind = "Completed" /\ job[u]'.cut # "tooLarge"
    /\ kind = "Completed" => job[u]'.answer \in {200, 413}

Tells(u) ==
    /\ job[u].pc # "done"
    /\ Quiet(u) \/ Progresses(u) \/ \E kind \in Terminal : Reports(u, kind)

LEMMA StreamingTells ==
  ASSUME IInv, NEW u \in Uploads, NEW req \in Requests[u], HandleUploadStreaming(u, req)
  PROVE  Tells(u)
<1>1. req \in Request
  BY UploadsAssumption
<1>2. PICK answer \in {200, 400, 401, 404, 422, 500} :
        job' = [job EXCEPT ![u] = Opened(req, answer)]
  BY StreamingOpens
<1>3. LET j == Opened(req, answer) IN
        /\ j \in Jobs
        /\ j.pc = IF answer = 200 THEN "receiving" ELSE "done"
        /\ j.error = IF answer = 200 THEN "none" ELSE "early"
        /\ j.answer # 200
  BY <1>1, OpenedTyped DEF IInv
<1>4. job[u]' = Opened(req, answer)
  BY <1>2, <1>3 DEF IInv, FileTypes
<1>5. job[u].pc = "idle" /\ UNCHANGED <<pendingEvents, toldVars>>
  BY DEF HandleUploadStreaming
<1>6. QED
  BY <1>3, <1>4, <1>5 DEF Tells, Quiet

LEMMA BodyTells ==
  ASSUME IInv, NEW u \in Uploads,
         FilePart(u) \/ SecondFilePart(u) \/ ReceiveChunk(u) \/ BodyEnds(u)
  PROVE  Tells(u)
<1>1. job[u].pc = "receiving" /\ job[u]'.pc # "done" /\ UNCHANGED toldVars
  BY FilePartStep, SecondFilePartStep, ReceiveChunkStep, BodyEndsStep
     DEF FilePart, SecondFilePart, ReceiveChunk, BodyEnds, Receiving
<1>2. UNCHANGED pendingEvents \/ PushEvent(u, "Progress")
  BY DEF FilePart, SecondFilePart, ReceiveChunk, BodyEnds
<1>3. QED
  BY <1>1, <1>2 DEF Tells, Quiet, Progresses

LEMMA MoveTells ==
  ASSUME IInv, NEW u \in Uploads,
         ChoosePath(u) \/ RenameFile(u) \/ CopyFile(u) \/ CopyEnds(u)
  PROVE  Tells(u)
<1>1. job[u].pc # "done" /\ job[u]'.pc # "done"
  BY ChoosePathStep, RenameFileStep, CopyFileStep, CopyEndsStep
     DEF RenameFile, CopyFile, CopyEnds
<1>2. UNCHANGED <<pendingEvents, toldVars>>
  BY DEF ChoosePath, RenameFile, CopyFile, CopyEnds
<1>3. QED
  BY <1>1, <1>2 DEF Tells, Quiet

\* The error exits tell the client and the script alike.
LEMMA FailTells ==
  ASSUME IInv, NEW u \in Uploads, job[u].pc # "done",
         NEW error \in Errors \ {"early"}, NEW code \in Codes \ {200}, Fail(u, error, code)
  PROVE  Tells(u)
<1>1. Answer(u, code) \in Codes /\ Answer(u, code) # 200
  BY AnswerCode DEF Answer
<1>2. PICK answer \in Codes :
        /\ job' = [job EXCEPT ![u].pc = "done", ![u].error = error, ![u].answer = answer]
        /\ answer # 200
  BY <1>1 DEF Fail
<1>3. job[u]'.pc = "done" /\ job[u]'.error = error /\ job[u]'.answer = answer
  <2>1. job' = [job EXCEPT ![u].pc = "done", ![u].error = error, ![u].answer = answer]
    BY <1>2
  <2>2. FileTypes /\ error \in Errors
    BY DEF IInv
  <2>3. /\ job' \in [Uploads -> Jobs] /\ OthersKeep(u) /\ Same(job[u], job[u]')
        /\ job[u]'.pc = "done" /\ job[u]'.error = error
        /\ job[u]'.dest = job[u].dest /\ job[u]'.received = job[u].received
        /\ job[u]'.answer = answer /\ job[u]'.cut = job[u].cut
        /\ JobOK(job[u])'
    BY <2>1, <2>2, Ends
  <2>4. QED
    BY <2>3
<1>4. PushEvent(u, "Failed") /\ UNCHANGED toldVars
  BY DEF Fail
<1>5. Reports(u, "Failed")
  BY <1>2, <1>3, <1>4 DEF Reports
<1>6. QED
  BY <1>5 DEF Tells, Terminal

LEMMA RejectErrorTells ==
  ASSUME IInv, NEW u \in Uploads, RejectError(u)
  PROVE  Tells(u)
<1>1. job[u].pc = "received" /\ job[u].error \in {"name", "io", "large", "write"}
  BY DEF RejectError, IInv, JobInv, JobOK
<1>2. job[u].error \in Errors \ {"early"} /\ ErrorCode[job[u].error] \in Codes \ {200}
  BY <1>1 DEF Errors, ErrorCode, Codes
<1>3. PICK error \in Errors \ {"early"}, code \in Codes \ {200} : Fail(u, error, code)
  BY <1>2 DEF RejectError
<1>4. QED
  BY <1>1, <1>3, FailTells

LEMMA RejectTells ==
  ASSUME IInv, NEW u \in Uploads,
         RejectInvalid(u) \/ RejectCorrupt(u) \/ RejectConflict(u) \/ MoveError(u)
  PROVE  Tells(u)
<1>1. job[u].pc # "done"
  BY DEF RejectInvalid, RejectCorrupt, RejectConflict, MoveError, HasFile
<1>2. /\ {"invalid", "crc", "conflict", "move"} \subseteq Errors \ {"early"}
      /\ {422, 409, 500} \subseteq Codes \ {200}
  BY DEF Errors, Codes
<1>3. \E error \in Errors \ {"early"}, code \in Codes \ {200} : Fail(u, error, code)
  BY <1>2 DEF RejectInvalid, RejectCorrupt, RejectConflict, MoveError
<1>4. QED
  BY <1>1, <1>3, FailTells

LEMMA NoFileFieldTells ==
  ASSUME IInv, NEW u \in Uploads, NoFileField(u)
  PROVE  Tells(u)
<1>1. "early" \in Errors /\ 400 \in Codes
  BY DEF Errors, Codes
<1>2. Answer(u, 400) \in Codes /\ Answer(u, 400) # 200
  BY <1>1, AnswerCode DEF Answer
<1>3. PICK answer \in Codes :
        /\ job' = [job EXCEPT ![u].pc = "done", ![u].error = "early", ![u].answer = answer]
        /\ answer # 200
  BY <1>2 DEF NoFileField, ReturnEarly
<1>4. job[u]'.error = "early" /\ job[u]'.answer = answer
  <2>1. job' = [job EXCEPT ![u].pc = "done", ![u].error = "early", ![u].answer = answer]
    BY <1>3
  <2>2. FileTypes
    BY DEF IInv
  <2>3. /\ job' \in [Uploads -> Jobs] /\ OthersKeep(u) /\ Same(job[u], job[u]')
        /\ job[u]'.pc = "done" /\ job[u]'.error = "early"
        /\ job[u]'.dest = job[u].dest /\ job[u]'.received = job[u].received
        /\ job[u]'.answer = answer /\ job[u]'.cut = job[u].cut
        /\ JobOK(job[u])'
    BY <1>1, <2>1, <2>2, Ends
  <2>4. QED
    BY <2>3
<1>5. job[u].pc = "received" /\ UNCHANGED <<pendingEvents, toldVars>>
  BY DEF NoFileField, ReturnEarly
<1>6. QED
  BY <1>3, <1>4, <1>5 DEF Tells, Quiet

LEMMA CompleteTells ==
  ASSUME IInv, NEW u \in Uploads, Complete(u)
  PROVE  Tells(u)
<1>1. /\ job[u].pc = "publish" /\ job[u].error = "none"
      /\ job[u] \in Jobs /\ "done" \in Places /\ 200 \in Codes
  BY DEF Complete, Moving, IInv, JobInv, JobOK, FileTypes, Places, Codes
<1>2. /\ Answer(u, 200) \in Codes /\ Answer(u, 200) \in {200, 413}
      /\ Answer(u, 200) = 200 <=> job[u].cut # "tooLarge"
  BY <1>1, AnswerCode DEF Answer
<1>3. PICK answer : answer = Answer(u, 200)
  OBVIOUS
<1>13. answer \in Codes /\ answer \in {200, 413} /\ (answer = 200 <=> job[u].cut # "tooLarge")
  BY <1>2, <1>3
<1>14. job' = [job EXCEPT ![u].pc = "done", ![u].answer = answer]
  BY <1>3 DEF Complete
<1> DEFINE i == [job[u] EXCEPT !.pc = "done"]
           k == [i EXCEPT !.answer = answer]
<1>4. i \in Jobs
  BY <1>1, Edits
<1>5. i.pc = "done" /\ i.error = "none" /\ i.cut = job[u].cut
  BY <1>1, JobsShape DEF Shape
<1>6. job' = [job EXCEPT ![u] = k]
  BY <1>14
<1> HIDE DEF i
<1>7. k \in Jobs
  <2>1. answer \in Codes
    BY <1>13
  <2>2. QED
    BY <1>4, <2>1, Edits
<1>8. k.pc = i.pc /\ k.error = i.error /\ k.cut = i.cut /\ k.answer = answer
  BY <1>4, JobsShape DEF Shape
<1> HIDE DEF k
<1>9. job[u]' = k
  BY <1>6, <1>7, EditJob DEF IInv
<1>10. PushEvent(u, "Completed") /\ UNCHANGED toldVars
  BY DEF Complete
<1>15. /\ job[u]'.pc = "done" /\ job[u]'.error = "none" /\ job[u]'.answer = answer
       /\ job[u]'.cut = job[u].cut
  BY <1>5, <1>8, <1>9
<1>11. Reports(u, "Completed")
  BY <1>10, <1>13, <1>15 DEF Reports
<1>12. QED
  BY <1>1, <1>11 DEF Tells, Terminal

\* Every step of a handler tells of its own upload only.
LEMMA HandlerTells ==
  ASSUME IInv, NEW u \in Uploads,
         UploadStep(u) \/ \E req \in Requests[u] : HandleUploadStreaming(u, req)
  PROVE  Tells(u) /\ OthersKeep(u) /\ UNCHANGED mainVars
<1>1. Tells(u)
  BY StreamingTells, BodyTells, MoveTells, RejectErrorTells, RejectTells, NoFileFieldTells,
     CompleteTells DEF UploadStep
<1>2. OwnStep(u)
  BY StreamingStep, FilePartStep, SecondFilePartStep, ReceiveChunkStep, BodyEndsStep,
     RejectErrorStep, NoFileFieldStep, RejectInvalidStep, RejectCorruptStep, ChoosePathStep,
     RejectConflictStep, RenameFileStep, CopyFileStep, CopyEndsStep, MoveErrorStep, CompleteStep
     DEF UploadStep
<1>3. QED
  BY <1>1, <1>2 DEF OwnStep

LEMMA PushedEvent ==
  ASSUME EventTypes, NEW u \in Uploads, NEW kind \in Kinds, PushEvent(u, kind)
  PROVE  LET n == Len(pendingEvents) + 1 IN
         /\ pendingEvents' \in Seq(Event)
         /\ DOMAIN pendingEvents = 1 .. n - 1 /\ DOMAIN pendingEvents' = 1 .. n /\ n \in Nat
         /\ \A i \in 1 .. n - 1 : pendingEvents'[i] = pendingEvents[i]
         /\ pendingEvents'[n] = [upload |-> u, kind |-> kind]
<1>1. [upload |-> u, kind |-> kind] \in Event
  BY DEF Event
<1>2. QED
  BY <1>1 DEF PushEvent, EventTypes

LEMMA PushedTold ==
  ASSUME EventTypes, NEW u \in Uploads, NEW kind \in Kinds, PushEvent(u, kind),
         UNCHANGED toldVars
  PROVE  /\ \A v \in Uploads \ {u} :
              Pending(v)' = Pending(v) /\ Outcomes(v)' = Outcomes(v) /\ Told(v)' = Told(v)
         /\ Told(u)' = Told(u) \cup ({kind} \cap Terminal)
         /\ \E n \in Nat :
              /\ Pending(u)' = Pending(u) \cup {n}
              /\ \A k \in Pending(u) : k <= n
              /\ Outcomes(u)' = Outcomes(u) \cup (IF kind \in Terminal THEN {n} ELSE {})
<1> DEFINE n == Len(pendingEvents) + 1
           e == [upload |-> u, kind |-> kind]
<1>1. /\ DOMAIN pendingEvents = 1 .. n - 1 /\ DOMAIN pendingEvents' = 1 .. n /\ n \in Nat
      /\ \A i \in 1 .. n - 1 : pendingEvents'[i] = pendingEvents[i]
      /\ pendingEvents'[n] = e
  BY PushedEvent
<1>2. e.upload = u /\ e.kind = kind
  OBVIOUS
<1>3. 1 .. n = 1 .. n - 1 \cup {n} /\ n \notin 1 .. n - 1 /\ \A k \in 1 .. n - 1 : k <= n
  BY <1>1
<1>4. heard' = heard
  BY DEF toldVars
<1> HIDE DEF n, e
<1>5. \A v \in Uploads \ {u} : Pending(v)' = Pending(v) /\ Outcomes(v)' = Outcomes(v)
  BY <1>1, <1>2, <1>3 DEF Pending, Outcomes
<1>6. \A v \in Uploads \ {u} : Told(v)' = Told(v)
  BY <1>1, <1>4, <1>5 DEF Told, Outcomes, Pending
<1>7. /\ Pending(u)' = Pending(u) \cup {n}
      /\ Outcomes(u)' = Outcomes(u) \cup (IF kind \in Terminal THEN {n} ELSE {})
      /\ \A k \in Pending(u) : k <= n
  BY <1>1, <1>2, <1>3 DEF Pending, Outcomes
<1>8. Told(u)' = Told(u) \cup ({kind} \cap Terminal)
  BY <1>1, <1>2, <1>3, <1>4, <1>7 DEF Told, Outcomes, Pending
<1>9. QED
  BY <1>1, <1>5, <1>6, <1>7, <1>8

\* An upload that is not over has no outcome yet.
LEMMA NoOutcomeYet ==
  ASSUME OneOutcome, NEW u \in Uploads, job[u].pc # "done"
  PROVE  /\ Told(u) = {} /\ u \notin cleared
         /\ heard[u] \cap Terminal = {} /\ Outcomes(u) = {}
<1>1. Told(u) = {} /\ u \notin cleared
  BY DEF OneOutcome
<1>2. QED
  BY <1>1 DEF Told

\* The end of an upload is its last event and its answer.
LEMMA TellsKeeps ==
  ASSUME EInv, NEW u \in Uploads, Tells(u), OthersKeep(u), UNCHANGED mainVars
  PROVE  EventTypes' /\ OneOutcome' /\ AnswerMatchesOutcome'
<1> DEFINE OneOf(v) ==
             /\ \A i \in Outcomes(v), k \in Pending(v) : k <= i
             /\ heard[v] \cap Terminal # {} \/ v \in cleared => Pending(v) = {}
             /\ (Told(v) # {} \/ v \in cleared)
                   <=> (job[v].pc = "done" /\ job[v].error # "early")
           Matches(v) ==
             v \notin cleared /\ job[v].pc = "done" =>
               LET completed == "Completed" \in Told(v) IN
               /\ job[v].answer = 200 <=> completed /\ job[v].cut # "tooLarge"
               /\ completed => job[v].answer \in {200, 413}
<1>1. /\ \A v \in Uploads : OneOf(v) /\ Matches(v)
      /\ EventTypes /\ OneOutcome
  BY DEF EInv, OneOutcome, AnswerMatchesOutcome
<1>2. /\ job[u].pc # "done" /\ Told(u) = {} /\ u \notin cleared
      /\ heard[u] \cap Terminal = {} /\ Outcomes(u) = {}
  BY <1>1, NoOutcomeYet DEF Tells
<1>3. heard' = heard /\ cleared' = cleared /\ natives' = natives
  BY DEF Tells, Quiet, Progresses, Reports, toldVars, mainVars
<1>4. \A v \in Uploads \ {u} : job[v]' = job[v]
  BY DEF OthersKeep
<1>5. (\A v \in Uploads : OneOf(v)' /\ Matches(v)') => OneOutcome' /\ AnswerMatchesOutcome'
  BY DEF OneOutcome, AnswerMatchesOutcome
<1>6. CASE Quiet(u)
  <2>1. pendingEvents' = pendingEvents
    BY <1>6 DEF Quiet
  <2>2. \A v \in Uploads : /\ Pending(v)' = Pending(v) /\ Outcomes(v)' = Outcomes(v)
                           /\ Told(v)' = Told(v)
    BY <1>3, <2>1 DEF Pending, Outcomes, Told
  <2>3. \A v \in Uploads \ {u} : OneOf(v)' /\ Matches(v)'
    BY <1>1, <1>3, <1>4, <2>2
  <2>4. OneOf(u)' /\ Matches(u)'
    BY <1>1, <1>2, <1>3, <1>6, <2>2 DEF Quiet
  <2>5. EventTypes'
    BY <1>1, <1>3, <2>1 DEF EventTypes
  <2>6. QED
    BY <1>5, <2>3, <2>4, <2>5
<1>7. ASSUME NEW kind \in Kinds, PushEvent(u, kind), UNCHANGED toldVars,
             IF kind \in Terminal THEN Reports(u, kind) ELSE Progresses(u)
      PROVE  EventTypes' /\ OneOutcome' /\ AnswerMatchesOutcome'
  <2>1. /\ \A v \in Uploads \ {u} :
              Pending(v)' = Pending(v) /\ Outcomes(v)' = Outcomes(v) /\ Told(v)' = Told(v)
        /\ Told(u)' = Told(u) \cup ({kind} \cap Terminal)
        /\ \E n \in Nat :
              /\ Pending(u)' = Pending(u) \cup {n}
              /\ \A k \in Pending(u) : k <= n
              /\ Outcomes(u)' = Outcomes(u) \cup (IF kind \in Terminal THEN {n} ELSE {})
    BY <1>1, <1>7, PushedTold
  <2>2. \A v \in Uploads \ {u} : OneOf(v)' /\ Matches(v)'
    BY <1>1, <1>3, <1>4, <2>1
  <2>3. OneOf(u)'
    <3>1. /\ Told(u)' = {kind} \cap Terminal
          /\ heard[u]' \cap Terminal = {} /\ u \notin cleared'
      BY <1>2, <1>3, <2>1
    <3>2. \A i \in Outcomes(u)', k \in Pending(u)' : k <= i
      BY <1>2, <2>1
    <3>3. kind \in Terminal <=> (job[u].pc = "done" /\ job[u].error # "early")'
      BY <1>7 DEF Reports, Progresses
    <3>4. QED
      BY <3>1, <3>2, <3>3
  <2>4. Matches(u)'
    BY <1>2, <1>7, <2>1 DEF Reports, Progresses, Terminal
  <2>5. pendingEvents' \in Seq(Event)
    BY <1>1, <1>7, PushedEvent
  <2>6. EventTypes'
    BY <1>1, <1>3, <2>5 DEF EventTypes
  <2>7. QED
    BY <1>5, <2>2, <2>3, <2>4, <2>6
<1>8. CASE Progresses(u)
  BY <1>7, <1>8 DEF Progresses, Kinds, Terminal
<1>9. CASE \E kind \in Terminal : Reports(u, kind)
  BY <1>7, <1>9 DEF Reports, Kinds
<1>10. QED
  BY <1>6, <1>8, <1>9 DEF Tells

\* The natives, but for reset(), and the removal of a file leave the events alone.
LEMMA MainTells ==
  ASSUME EInv, UNCHANGED job, UNCHANGED pendingEvents, UNCHANGED toldVars,
         natives' \in 0 .. MaxNatives
  PROVE  EventTypes' /\ OneOutcome' /\ AnswerMatchesOutcome'
<1>1. heard' = heard /\ cleared' = cleared
  BY DEF toldVars
<1>2. \A v \in Uploads : /\ Pending(v)' = Pending(v) /\ Outcomes(v)' = Outcomes(v)
                         /\ Told(v)' = Told(v)
  BY <1>1 DEF Pending, Outcomes, Told
<1>3. EventTypes'
  BY <1>1 DEF EInv, EventTypes
<1>4. OneOutcome'
  BY <1>1, <1>2 DEF EInv, OneOutcome
<1>5. AnswerMatchesOutcome'
  BY <1>1, <1>2 DEF EInv, AnswerMatchesOutcome
<1>6. QED
  BY <1>3, <1>4, <1>5

\* Nothing waits in an empty queue.
LEMMA EmptyQueue ==
  ASSUME pendingEvents' = <<>>, NEW v
  PROVE  Pending(v)' = {} /\ Outcomes(v)' = {} /\ Told(v)' = (heard[v] \cap Terminal)'
<1>1. Pending(v)' = {} /\ Outcomes(v)' = {}
  BY DEF Pending, Outcomes
<1>2. QED
  BY <1>1 DEF Told

LEMMA ResetTells ==
  ASSUME EInv, Reset
  PROVE  EventTypes' /\ OneOutcome' /\ AnswerMatchesOutcome'
<1>1. /\ job' = job /\ heard' = heard /\ pendingEvents' = <<>>
      /\ cleared' = cleared \cup {u \in Uploads : Outcomes(u) # {}}
      /\ natives < MaxNatives /\ natives' = natives + 1
  BY DEF Reset, Native, jobVars
<1>2. EventTypes'
  BY <1>1, UploadsAssumption DEF EInv, EventTypes
<1>3. \A v \in Uploads : /\ Pending(v)' = {} /\ Outcomes(v)' = {}
                         /\ Told(v)' = heard[v] \cap Terminal
  BY <1>1, EmptyQueue
<1>4. \A v \in Uploads : Outcomes(v) = {} => Told(v) = heard[v] \cap Terminal
  BY DEF Told
<1>5. \A v \in Uploads : Outcomes(v) # {} => Told(v) # {}
  BY DEF Told
<1>6. \A v \in Uploads : (Told(v)' # {} \/ v \in cleared') <=> (Told(v) # {} \/ v \in cleared)
  BY <1>1, <1>3, <1>4, <1>5
<1>7. OneOutcome'
  BY <1>1, <1>3, <1>6 DEF EInv, OneOutcome
<1>8. \A v \in Uploads \ cleared' : v \notin cleared /\ Told(v)' = Told(v)
  BY <1>1, <1>3, <1>4
<1>9. AnswerMatchesOutcome'
  BY <1>1, <1>8 DEF EInv, AnswerMatchesOutcome
<1>10. QED
  BY <1>2, <1>7, <1>9

LEMMA DrainTells ==
  ASSUME EInv, DrainEvents
  PROVE  EventTypes' /\ OneOutcome' /\ AnswerMatchesOutcome'
<1> DEFINE kinds(v) == {pendingEvents[i].kind : i \in Pending(v)}
<1>1. /\ job' = job /\ cleared' = cleared /\ natives' = natives /\ pendingEvents' = <<>>
      /\ heard' = [u \in Uploads |-> heard[u] \cup kinds(u)]
  BY DEF DrainEvents, jobVars, mainVars
<1>2. \A v \in Uploads : kinds(v) \subseteq Kinds
  <2>1. \A i \in DOMAIN pendingEvents : pendingEvents[i] \in Event
    BY DEF EInv, EventTypes
  <2>2. \A i \in DOMAIN pendingEvents : pendingEvents[i].kind \in Kinds
    BY <2>1 DEF Event
  <2>3. QED
    BY <2>2 DEF Pending
<1>3. \A v \in Uploads :
        kinds(v) \cap Terminal = {pendingEvents[i].kind : i \in Outcomes(v)}
  BY DEF Outcomes
<1> HIDE DEF kinds
<1>4. EventTypes'
  BY <1>1, <1>2 DEF EInv, EventTypes
<1>5. \A v \in Uploads : heard[v]' = heard[v] \cup kinds(v)
  BY <1>1
<1>6. \A v \in Uploads : /\ Pending(v)' = {} /\ Outcomes(v)' = {}
                         /\ Told(v)' = Told(v)
  BY <1>1, <1>3, <1>5, EmptyQueue DEF Told
<1>7. OneOutcome'
  BY <1>1, <1>6 DEF EInv, OneOutcome
<1>8. AnswerMatchesOutcome'
  BY <1>1, <1>6 DEF EInv, AnswerMatchesOutcome
<1>9. QED
  BY <1>4, <1>7, <1>8

LEMMA NextTells == EInv /\ [Next]_vars => EInv'
<1> SUFFICES ASSUME EInv, [Next]_vars PROVE EInv'
  OBVIOUS
<1>1. IInv'
  BY NextKeeps DEF EInv
<1>2. CASE \E u \in Uploads : \/ UploadStep(u)
                              \/ \E req \in Requests[u] : HandleUploadStreaming(u, req)
  BY <1>1, <1>2, HandlerTells, TellsKeeps DEF EInv
<1>3. CASE Reset
  BY <1>1, <1>3, ResetTells DEF EInv
<1>4. CASE Natives /\ ~Reset
  <2>1. /\ UNCHANGED job /\ UNCHANGED pendingEvents /\ UNCHANGED toldVars
        /\ natives < MaxNatives /\ natives' = natives + 1
    BY <1>4 DEF Natives, SetConflictMode, SetCorruptAction, SetRequireCRC32, AddKeyToRoute,
       RemoveKeyFromRoute, RemoveRoute, DeleteRouteFile, HandleFileDelete, SetField, Native,
       jobVars
  <2>2. natives' \in 0 .. MaxNatives
    BY <2>1, UploadsAssumption DEF EInv, EventTypes
  <2>3. QED
    BY <1>1, <2>1, <2>2, MainTells DEF EInv
<1>5. CASE RemoveFile \/ UNCHANGED vars
  <2>1. /\ UNCHANGED job /\ UNCHANGED pendingEvents /\ UNCHANGED toldVars
        /\ natives' = natives
    BY <1>5 DEF RemoveFile, vars, jobVars, mainVars
  <2>2. natives' \in 0 .. MaxNatives
    BY <2>1 DEF EInv, EventTypes
  <2>3. QED
    BY <1>1, <2>1, <2>2, MainTells DEF EInv
<1>6. CASE DrainEvents
  BY <1>1, <1>6, DrainTells DEF EInv
<1>7. QED
  BY <1>2, <1>3, <1>4, <1>5, <1>6 DEF Next

LEMMA InitTells == Init => EInv
<1> SUFFICES ASSUME Init PROVE EInv
  OBVIOUS
<1>1. /\ pendingEvents = <<>> /\ cleared = {} /\ natives = 0
      /\ heard = [u \in Uploads |-> {}] /\ \A u \in Uploads : job[u].pc = "idle"
  BY DEF Init, Idle
<1>2. \A u \in Uploads : Pending(u) = {} /\ Outcomes(u) = {} /\ Told(u) = {}
  BY <1>1 DEF Pending, Outcomes, Told
<1>3. EventTypes
  BY <1>1, UploadsAssumption DEF EventTypes
<1>4. OneOutcome /\ AnswerMatchesOutcome
  BY <1>1, <1>2 DEF OneOutcome, AnswerMatchesOutcome
<1>5. QED
  BY <1>3, <1>4, InitHolds DEF EInv

\* The events and the answers agree with the jobs, whatever is drained or dropped
\* between the steps of the handlers.
THEOREM EventsInvariant == Spec => []EInv
BY InitTells, NextTells, PTL DEF Spec

\* Every variable of the upload routes keeps to its type.
THEOREM TypeCorrect == Spec => []TypeOK
<1>1. EInv => TypeOK
  BY DEF EInv, IInv, FileTypes, EventTypes, Event, TypeOK
<1>2. QED
  BY <1>1, EventsInvariant, PTL

\* An upload that got as far as its body has exactly one outcome, queued when its
\* handler ends, and no event after it; only the early returns are silent.
THEOREM OneOutcomeEach == Spec => []OneOutcome
<1>1. EInv => OneOutcome
  BY DEF EInv
<1>2. QED
  BY <1>1, EventsInvariant, PTL

\* The client reads 200 exactly when the script is told of a completed upload,
\* but for bodies over httplib's limit, which are completed with 413.
THEOREM AnswerIsOutcome == Spec => []AnswerMatchesOutcome
<1>1. EInv => AnswerMatchesOutcome
  BY DEF EInv
<1>2. QED
  BY <1>1, EventsInvariant, PTL

=============================================================================
