------------------------- MODULE LocalRuntime_proofs -------------------------
(***************************************************************************)
(* Type correctness of LocalRuntime, for any jobs, clients, loops, calls   *)
(* and faults and any bounds, and who may move a job's row: a job has one  *)
(* owner, always an owner, and none after its deletion.                    *)
(***************************************************************************)
EXTENDS LocalRuntime, TLAPS

USE StoreAssumption, ServiceAssumption, WorkerAssumption

-----------------------------------------------------------------------------
(* What the operations on the two stores do to the variables' types.       *)

Files == [Key -> Content]

LEMMA PutType ==
  ASSUME store \in [Job -> Files], NEW j, NEW k \in Key, NEW v \in Content,
         Put(j, k, v)
  PROVE  store' \in [Job -> Files]
BY DEF Put, Files

LEMMA OpenFileType ==
  ASSUME store \in [Job -> Files], NEW j, NEW k \in Key, OpenFile(j, k)
  PROVE  store' \in [Job -> Files]
BY PutType DEF OpenFile, Content

LEMMA CloseFileType ==
  ASSUME store \in [Job -> Files], NEW j, NEW k \in Key, NEW v \in Content,
         CloseFile(j, k, v)
  PROVE  store' \in [Job -> Files]
BY DEF CloseFile, Files, Content

LEMMA DeletePrefixType ==
  ASSUME store \in [Job -> Files], NEW j, DeletePrefix(j) \/ DeletePrefixFails(j)
  PROVE  store' \in [Job -> Files]
BY DEF DeletePrefix, DeletePrefixFails, NoFiles, Files, Content

\* TypeOK by parts, so that a proof names only the part a step touches.
RowTypeOK ==
  /\ status \in [Job -> JobStatus \cup {"none"}]
  /\ born \in [Job -> 0 .. MaxTick]
  /\ due \in [Job -> BOOLEAN]
  /\ auto \in [Job -> BOOLEAN]
  /\ paged \in [Job -> BOOLEAN]

FileTypeOK == store \in [Job -> Files]

CallTypeOK == calls \in [Caller -> Call]

BookTypeOK ==
  /\ batch \subseteq Job \X BOOLEAN
  /\ reviews \in [Job -> Review]
  /\ accepted \in [Job -> Review]
  /\ faults \in 0 .. MaxFaults

LEMMA TypeParts == TypeOK <=> RowTypeOK /\ FileTypeOK /\ CallTypeOK /\ BookTypeOK /\ WorkerTypeOK
BY DEF TypeOK, StoreTypeOK, ServiceTypeOK, RowTypeOK, FileTypeOK, CallTypeOK, BookTypeOK, Files

LEMMA BuryRowType ==
  ASSUME RowTypeOK, NEW j, BuryRow(j)
  PROVE  RowTypeOK'
BY DEF RowTypeOK, BuryRow, SetStatus, JobStatus, Tombstone

LEMMA MoveRowType ==
  ASSUME RowTypeOK, NEW j, NEW allowed, NEW new \in JobStatus, MoveRow(j, allowed, new)
  PROVE  RowTypeOK'
BY DEF RowTypeOK, MoveRow, SetStatus

LEMMA ClaimRowType ==
  ASSUME RowTypeOK, NEW j \in Job, ClaimRow(j)
  PROVE  RowTypeOK'
BY DEF RowTypeOK, ClaimRow, SetStatus, JobStatus, InFlight

LEMMA InsertRowType ==
  ASSUME RowTypeOK, NEW j \in Job, NEW a \in BOOLEAN, InsertRow(j, a)
  PROVE  RowTypeOK'
BY DEF RowTypeOK, InsertRow, SetStatus, JobStatus

LEMMA RequeueRowsType ==
  ASSUME RowTypeOK, RequeueRows
  PROVE  RowTypeOK'
BY DEF RowTypeOK, RequeueRows, JobStatus, Queued

-----------------------------------------------------------------------------
(* What the steps of a call do to calls, and those of a loop to loops.     *)

LEMMA ReturnType ==
  ASSUME calls \in [Caller -> Call], NEW c \in Caller, Return(c)
  PROVE  calls' \in [Caller -> Call]
BY DEF Return, NoCall, Call, CallStep, Review, Original

LEMMA ProceedType ==
  ASSUME calls \in [Caller -> Call], NEW c \in Caller, NEW step \in CallStep, Proceed(c, step)
  PROVE  calls' \in [Caller -> Call]
BY DEF Proceed, Call

LEMMA CallOnType ==
  ASSUME NEW j \in Job \cup {None}, NEW step \in CallStep
  PROVE  CallOn(j, step) \in Call
<1>1. Original \in Review
  BY DEF Original, Review, StoreAssumption
<1> QED
  BY <1>1 DEF CallOn, NoCall, Call

LEMMA FaultType ==
  ASSUME faults \in 0 .. MaxFaults, NEW kind, Fault(kind) \/ NoFault
  PROVE  faults' \in 0 .. MaxFaults
BY DEF Fault, NoFault, ServiceAssumption

LEMMA GotoType ==
  ASSUME loops \in [Loop -> LoopState], NEW l \in Loop, NEW step \in LoopStep, Goto(l, step)
  PROVE  loops' \in [Loop -> LoopState]
BY DEF Goto, LoopState

LEMMA RaiseType ==
  ASSUME loops \in [Loop -> LoopState], NEW l \in Loop, NEW e \in Error, Raise(l, e)
  PROVE  loops' \in [Loop -> LoopState]
<1>1. "fail" \in LoopStep
  BY DEF LoopStep, FaultStep
<1> QED
  BY <1>1 DEF Raise, LoopState

LEMMA RestType ==
  ASSUME loops \in [Loop -> LoopState], NEW l \in Loop, Rest(l)
  PROVE  loops' \in [Loop -> LoopState]
BY DEF Rest, Resting, LoopState, LoopStep, Error, Review, Original

-----------------------------------------------------------------------------
(* Type correctness, one lemma per group of actions.                       *)

ServiceTypes == RowTypeOK /\ FileTypeOK /\ CallTypeOK /\ BookTypeOK

LEMMA RequireJobType ==
  ASSUME ServiceTypes, NEW c \in Caller, NEW kind, NEW j \in Job, NEW next \in Call,
         RequireJob(c, kind, j, next)
  PROVE  /\ RowTypeOK' /\ FileTypeOK' /\ CallTypeOK'
         /\ UNCHANGED <<batch, accepted, faults>>
<1>1. CallOn(j, "mark") \in Call
  BY CallOnType DEF CallStep
<1>2. CallTypeOK'
  BY <1>1 DEF RequireJob, ServiceTypes, CallTypeOK
<1> QED
  BY <1>2 DEF RequireJob, ServiceTypes, RowTypeOK, FileTypeOK, storeVars, rowVars, NoFault

LEMMA ClientStartsType ==
  ASSUME ServiceTypes, NEW c \in Client, ClientStarts(c)
  PROVE  ServiceTypes'
<1> c \in Caller
  BY DEF Caller
<1> PICK j \in Job : \/ CreateJob(c, j) \/ Poll(c, j) \/ Upload(c, j)
                      \/ Submit(c, j) \/ Finalize(c, j) \/ Delete(c, j)
  BY DEF ClientStarts
<1> USE DEF ServiceTypes
<1>0. /\ NoCall \in Call
      /\ \A step \in CallStep : CallOn(j, step) \in Call
  BY CallOnType DEF NoCall, Call, CallStep, Review, Original, StoreAssumption
<1>1. CASE CreateJob(c, j)
  BY <1>1, InsertRowType DEF CreateJob, serviceVars, FileTypeOK, CallTypeOK, BookTypeOK
<1>2. CASE Poll(c, j)
  BY <1>0, <1>2, RequireJobType DEF Poll, BookTypeOK
<1>3. CASE Upload(c, j)
  BY <1>0, <1>3, RequireJobType DEF Upload, BookTypeOK, CallStep
<1>4. CASE Submit(c, j)
  BY <1>0, <1>4, RequireJobType DEF Submit, BookTypeOK, CallStep
<1>5. CASE Finalize(c, j)
  <2> DEFINE next == [at |-> "manifest", job |-> j, was |-> status[j], review |-> reviews[j] + 1]
  <2>1. status[j] \in Live
    BY <1>5 DEF Finalize, RequireJob
  <2>2. reviews[j] \in Review /\ reviews[j] + 1 \in Review
    BY <1>5 DEF Finalize, BookTypeOK, Review, StoreAssumption
  <2>3. next \in Call
    BY <2>1, <2>2 DEF Call, CallStep, Live
  <2>4. RequireJob(c, "finalize", j, next)
    BY <1>5 DEF Finalize
  <2>5. reviews' \in [Job -> Review]
    BY <1>5, <2>2 DEF Finalize, BookTypeOK
  <2> HIDE DEF next
  <2> QED
    BY <2>3, <2>4, <2>5, RequireJobType DEF BookTypeOK
<1>6. CASE Delete(c, j)
  BY <1>0, <1>6
  DEF Delete, storeVars, rowVars, RowTypeOK, FileTypeOK, CallTypeOK, BookTypeOK, CallStep
<1> QED
  BY <1>1, <1>2, <1>3, <1>4, <1>5, <1>6

LEMMA UploadType ==
  ASSUME ServiceTypes, NEW c \in Caller, UploadBreaks(c) \/ UploadOpens(c) \/ UploadCloses(c)
  PROVE  ServiceTypes'
<1> USE DEF ServiceTypes
<1>1. CASE UploadBreaks(c)
  BY <1>1, ReturnType
  DEF UploadBreaks, storeVars, rowVars, RowTypeOK, FileTypeOK, CallTypeOK, BookTypeOK
<1>2. CASE UploadOpens(c)
  BY <1>2, OpenFileType, ProceedType
  DEF UploadOpens, rowVars, RowTypeOK, FileTypeOK, CallTypeOK, BookTypeOK, Key, CallStep
<1>3. CASE UploadCloses(c)
  <2>1. Original \in Content
    BY DEF Original, Content, Review, StoreAssumption
  <2> QED
    BY <1>3, <2>1, CloseFileType, ReturnType
    DEF UploadCloses, rowVars, RowTypeOK, FileTypeOK, CallTypeOK, BookTypeOK, Key, Content
<1> QED
  BY <1>1, <1>2, <1>3

LEMMA SubmitType ==
  ASSUME ServiceTypes, NEW c \in Caller,
         SubmitReadsInput(c) \/ SubmitRejects(c) \/ SubmitRefuses(c) \/ SubmitAccepts(c)
  PROVE  ServiceTypes'
<1> USE DEF ServiceTypes
<1>1. CASE SubmitReadsInput(c)
  BY <1>1, ReturnType, ProceedType
  DEF SubmitReadsInput, storeVars, rowVars, RowTypeOK, FileTypeOK, CallTypeOK, BookTypeOK, CallStep
<1>2. CASE SubmitRejects(c)
  BY <1>2, DeletePrefixType, ReturnType, ProceedType, FaultType
  DEF SubmitRejects, rowVars, RowTypeOK, FileTypeOK, CallTypeOK, BookTypeOK, CallStep
<1>3. CASE SubmitRefuses(c)
  <2>1. RowTypeOK'
    BY <1>3, MoveRowType DEF SubmitRefuses, rowVars, RowTypeOK, JobStatus
  <2> QED
    BY <1>3, <2>1, ReturnType DEF SubmitRefuses, FileTypeOK, CallTypeOK, BookTypeOK
<1>4. CASE SubmitAccepts(c)
  <2>1. RowTypeOK'
    BY <1>4, MoveRowType DEF SubmitAccepts, rowVars, RowTypeOK, JobStatus, Queued
  <2> QED
    BY <1>4, <2>1, ReturnType DEF SubmitAccepts, FileTypeOK, CallTypeOK, BookTypeOK
<1> QED
  BY <1>1, <1>2, <1>3, <1>4

LEMMA FinalizeType ==
  ASSUME ServiceTypes, NEW c \in Caller,
         \/ FinalizeReadsManifest(c) \/ FinalizeOpensManifest(c) \/ FinalizeClosesManifest(c)
         \/ FinalizeQueues(c)
  PROVE  ServiceTypes'
<1> USE DEF ServiceTypes
<1>1. CASE FinalizeReadsManifest(c)
  <2>1. NoCall \in Call
    BY DEF NoCall, Call, CallStep, Review, Original, StoreAssumption
  <2>2. CallOn(calls[c].job, "mark") \in Call
    <3>1. calls[c].job \in Job \cup {None}
      BY DEF CallTypeOK, Call
    <3> QED
      BY <3>1, CallOnType DEF CallStep
  <2>3. [calls[c] EXCEPT !.at = "approve"] \in Call
    BY DEF CallTypeOK, Call, CallStep
  <2>4. CallTypeOK'
    BY <1>1, <2>1, <2>2, <2>3 DEF FinalizeReadsManifest, CallTypeOK
  <2> QED
    BY <1>1, <2>4 DEF FinalizeReadsManifest, storeVars, rowVars, RowTypeOK, FileTypeOK, BookTypeOK
<1>2. CASE FinalizeOpensManifest(c)
  BY <1>2, OpenFileType, ProceedType
  DEF FinalizeOpensManifest, rowVars, RowTypeOK, FileTypeOK, CallTypeOK, BookTypeOK, Key, CallStep
<1>3. CASE FinalizeClosesManifest(c)
  <2>1. calls[c].review \in Content
    BY DEF CallTypeOK, Call, Content
  <2> QED
    BY <1>3, <2>1, CloseFileType, ProceedType
    DEF FinalizeClosesManifest, rowVars, RowTypeOK, FileTypeOK, CallTypeOK, BookTypeOK, Key, CallStep
<1>4. CASE FinalizeQueues(c)
  <2>1. calls[c].review \in Review
    BY DEF CallTypeOK, Call
  <2>2. RowTypeOK'
    BY <1>4 DEF FinalizeQueues, rowVars, RowTypeOK, SetStatus, JobStatus, Queued
  <2>3. BookTypeOK'
    BY <1>4, <2>1 DEF FinalizeQueues, BookTypeOK
  <2> QED
    BY <1>4, <2>2, <2>3, ReturnType DEF FinalizeQueues, FileTypeOK, CallTypeOK
<1> QED
  BY <1>1, <1>2, <1>3, <1>4

LEMMA DeleteType ==
  ASSUME ServiceTypes, NEW c \in Caller, DeleteMarks(c) \/ DeletePurges(c)
  PROVE  ServiceTypes'
<1> USE DEF ServiceTypes
<1>1. CASE DeleteMarks(c)
  BY <1>1, BuryRowType, ProceedType
  DEF DeleteMarks, FileTypeOK, CallTypeOK, BookTypeOK, CallStep
<1>2. CASE DeletePurges(c)
  BY <1>2, DeletePrefixType, ReturnType, FaultType
  DEF DeletePurges, rowVars, RowTypeOK, FileTypeOK, CallTypeOK, BookTypeOK
<1> QED
  BY <1>1, <1>2

LEMMA ExpireType ==
  ASSUME ServiceTypes, NEW c \in Caller, ExpireNext(c)
  PROVE  ServiceTypes'
<1> USE DEF ServiceTypes
<1>1. CASE ExpireMarks(c)
  BY <1>1, BuryRowType, ProceedType
  DEF ExpireMarks, FileTypeOK, CallTypeOK, BookTypeOK, CallStep
<1>2. CASE ExpireSweeps(c)
  BY <1>2, DeletePrefixType, ReturnType, ProceedType, FaultType
  DEF ExpireSweeps, rowVars, RowTypeOK, FileTypeOK, CallTypeOK, BookTypeOK, CallStep
<1>3. CASE ExpireSeals(c)
  <2>1. RowTypeOK'
    BY <1>3, MoveRowType DEF ExpireSeals, rowVars, RowTypeOK, JobStatus, Tombstone
  <2> QED
    BY <1>3, <2>1, ReturnType DEF ExpireSeals, FileTypeOK, CallTypeOK, BookTypeOK
<1> QED
  BY <1>1, <1>2, <1>3 DEF ExpireNext

LEMMA CallDiesType ==
  ASSUME ServiceTypes, NEW c \in Caller, CallDies(c)
  PROVE  ServiceTypes'
BY ReturnType, FaultType
DEF CallDies, ServiceTypes, storeVars, rowVars, RowTypeOK, FileTypeOK, CallTypeOK, BookTypeOK

LEMMA CleanerType ==
  ASSUME ServiceTypes, CleanerNext
  PROVE  ServiceTypes'
<1> USE DEF ServiceTypes
<1>0. Cleaner \in Caller
  BY DEF Caller
<1>1. CASE CleanupLists
  <2>1. batch' \subseteq Job \X BOOLEAN
    <3> SUFFICES ASSUME NEW row \in batch' PROVE row \in Job \X BOOLEAN
      OBVIOUS
    <3> PICK j \in ExpiredRows : row = <<j, status[j] = "deleted">>
      BY <1>1 DEF CleanupLists
    <3> QED
      BY Zenon DEF ExpiredRows
  <2> QED
    BY <1>1, <2>1
    DEF CleanupLists, storeVars, rowVars, RowTypeOK, FileTypeOK, CallTypeOK, BookTypeOK
<1>2. CASE CleanupExpires
  <2> PICK row \in batch :
        /\ batch' = batch \ {row}
        /\ calls' = [calls EXCEPT ![Cleaner] = CallOn(row[1], IF row[2] THEN "sweep" ELSE "mark")]
    BY <1>2 DEF CleanupExpires
  <2>1. row[1] \in Job
    BY DEF BookTypeOK
  <2>2. CallOn(row[1], IF row[2] THEN "sweep" ELSE "mark") \in Call
    BY <2>1, CallOnType DEF CallStep
  <2>3. CallTypeOK' /\ batch' \subseteq Job \X BOOLEAN
    BY <1>0, <2>2 DEF CallTypeOK, BookTypeOK
  <2> QED
    BY <1>2, <2>3
    DEF CleanupExpires, storeVars, rowVars, RowTypeOK, FileTypeOK, BookTypeOK
<1>3. CASE ExpireNext(Cleaner)
  BY <1>0, <1>3, ExpireType
<1> QED
  BY <1>1, <1>2, <1>3 DEF CleanerNext

-----------------------------------------------------------------------------

\* The page counter keeps to its type because a loop that is about to store a
\* preview has a page left to store.
PagesLeft ==
  \A l \in Loop : loops[l].at \in {"load", "pages", "check", "preview"} => loops[l].page < Pages

\* What the step of a loop must keep.
LoopTypes == RowTypeOK /\ FileTypeOK /\ WorkerTypeOK

LEMMA GotoIfType ==
  ASSUME loops \in [Loop -> LoopState], NEW l \in Loop, NEW allowed, NEW step \in LoopStep,
         GotoIf(l, allowed, step) \/ GotoIfActive(l, allowed, step)
  PROVE  loops' \in [Loop -> LoopState]
BY GotoType, RaiseType DEF GotoIf, GotoIfActive, Error

LEMMA ClaimType ==
  ASSUME LoopTypes, NEW l \in Loop, Claim(l)
  PROVE  LoopTypes'
<1> PICK j \in Job :
      /\ ClaimRow(j)
      /\ loops' = [loops EXCEPT ![l] =
           [Resting EXCEPT !.at = IF status[j] = "queued_detection" THEN "load" ELSE "reload",
                           !.job = j, !.auto = auto[j]]]
  BY DEF Claim
<1>1. RowTypeOK'
  BY ClaimRowType DEF LoopTypes
<1>2. [Resting EXCEPT !.at = IF status[j] = "queued_detection" THEN "load" ELSE "reload",
                      !.job = j, !.auto = auto[j]] \in LoopState
  <2>1. auto[j] \in BOOLEAN
    BY DEF LoopTypes, RowTypeOK
  <2>2. (IF status[j] = "queued_detection" THEN "load" ELSE "reload") \in LoopStep
    BY DEF LoopStep, DetectStep, RedactStep
  <2>3. Resting \in LoopState
    BY DEF Resting, LoopState, LoopStep, Error, Review, Original
  <2> QED
    BY <2>1, <2>2, <2>3 DEF LoopState
<1> QED
  BY <1>1, <1>2 DEF Claim, Calm, LoopTypes, FileTypeOK, WorkerTypeOK

LEMMA DetectStepsType ==
  ASSUME LoopTypes, PagesLeft, NEW l \in Loop,
         \/ LoadForDetect(l) \/ RecordPages(l) \/ CheckBeforePreview(l) \/ PutPreview(l)
         \/ Detect(l) \/ RecordFindings(l) \/ PutDraft(l) \/ PutApproved(l) \/ HandOff(l)
  PROVE  LoopTypes'
<1> USE DEF LoopTypes
<1>0. /\ DetectStep \subseteq LoopStep
      /\ "render" \in LoopStep
      /\ Error = {"none", "cancelled", "validation", "other"}
      /\ Original \in Content
      /\ Original \in Review
  BY DEF LoopStep, DetectStep, RedactStep, Error, Original, Content, Review, StoreAssumption
<1>1. CASE LoadForDetect(l)
  BY <1>0, <1>1, GotoType, RaiseType
  DEF LoadForDetect, Calm, storeVars, rowVars, RowTypeOK, FileTypeOK, WorkerTypeOK, DetectStep
<1>2. CASE RecordPages(l)
  <2>1. RowTypeOK'
    BY <1>2 DEF RecordPages, RowTypeOK
  <2> QED
    BY <1>0, <1>2, <2>1, GotoIfType DEF RecordPages, Calm, FileTypeOK, WorkerTypeOK, DetectStep
<1>3. CASE CheckBeforePreview(l)
  BY <1>0, <1>3, GotoIfType
  DEF CheckBeforePreview, Calm, storeVars, rowVars, RowTypeOK, FileTypeOK, WorkerTypeOK, DetectStep
<1>4. CASE PutPreview(l)
  <2>1. FileTypeOK'
    BY <1>0, <1>4, PutType DEF PutPreview, FileTypeOK, Key
  <2>2. loops' \in [Loop -> LoopState]
    <3>1. /\ loops[l] \in LoopState
          /\ loops[l].page \in 0 .. Pages /\ loops[l].page < Pages
      BY <1>4 DEF PutPreview, Doing, PagesLeft, WorkerTypeOK, LoopState
    <3>2. loops[l].page + 1 \in 0 .. Pages
      BY <3>1, Pages \in Nat DEF WorkerAssumption
    <3>3. loops' = [loops EXCEPT ![l].page = loops[l].page + 1,
                      ![l].at = IF loops[l].page + 1 < Pages THEN "check" ELSE "detect"]
      BY <1>4 DEF PutPreview
    <3>4. (IF loops[l].page + 1 < Pages THEN "check" ELSE "detect") \in LoopStep
      BY <1>0 DEF DetectStep
    <3> QED
      BY <3>1, <3>2, <3>3, <3>4 DEF WorkerTypeOK, LoopState
  <2> QED
    BY <1>4, <2>1, <2>2 DEF PutPreview, Calm, rowVars, RowTypeOK, WorkerTypeOK
<1>5. CASE Detect(l)
  BY <1>0, <1>5, GotoIfType, GotoType, RaiseType
  DEF Detect, storeVars, rowVars, RowTypeOK, FileTypeOK, WorkerTypeOK, DetectStep
<1>6. CASE RecordFindings(l)
  BY <1>0, <1>6, GotoIfType
  DEF RecordFindings, Calm, storeVars, rowVars, RowTypeOK, FileTypeOK, WorkerTypeOK, DetectStep
<1>7. CASE PutDraft(l)
  BY <1>0, <1>7, PutType, GotoType
  DEF PutDraft, Calm, rowVars, RowTypeOK, FileTypeOK, WorkerTypeOK, DetectStep, Key
<1>8. CASE PutApproved(l)
  BY <1>0, <1>8, PutType, GotoType
  DEF PutApproved, Calm, rowVars, RowTypeOK, FileTypeOK, WorkerTypeOK, DetectStep, Key
<1>9. CASE HandOff(l)
  <2>1. RowTypeOK'
    BY <1>9, MoveRowType DEF HandOff, rowVars, RowTypeOK, JobStatus, InFlight
  <2>2. loops' \in [Loop -> LoopState]
    BY <1>0, <1>9, GotoType, RaiseType, RestType DEF HandOff, WorkerTypeOK
  <2> QED
    BY <1>9, <2>1, <2>2 DEF HandOff, Calm, FileTypeOK, WorkerTypeOK
<1> QED
  BY <1>1, <1>2, <1>3, <1>4, <1>5, <1>6, <1>7, <1>8, <1>9

LEMMA RedactStepsType ==
  ASSUME LoopTypes, NEW l \in Loop,
         \/ LoadForRedact(l) \/ FetchManifest(l) \/ Render(l) \/ OutputOpens(l) \/ OutputCloses(l)
         \/ MarkComplete(l) \/ LostRace(l) \/ LostPurges(l)
  PROVE  LoopTypes'
<1> USE DEF LoopTypes
<1>0. /\ RedactStep \cup FaultStep \subseteq LoopStep
      /\ Error = {"none", "cancelled", "validation", "other"}
  BY DEF LoopStep, Error
<1>1. CASE LoadForRedact(l)
  BY <1>0, <1>1, GotoType, RaiseType
  DEF LoadForRedact, Calm, storeVars, rowVars, RowTypeOK, FileTypeOK, WorkerTypeOK, RedactStep
<1>2. CASE FetchManifest(l)
  <2>1. "render" \in LoopStep
    BY <1>0 DEF RedactStep
  <2>2. loops' \in [Loop -> LoopState]
    BY <1>0, <1>2, <2>1, RaiseType DEF FetchManifest, WorkerTypeOK, LoopState
  <2> QED
    BY <1>2, <2>2
    DEF FetchManifest, Calm, storeVars, rowVars, RowTypeOK, FileTypeOK, WorkerTypeOK
<1>3. CASE Render(l)
  BY <1>0, <1>3, GotoIfType, RaiseType
  DEF Render, Calm, storeVars, rowVars, RowTypeOK, FileTypeOK, WorkerTypeOK, RedactStep
<1>4. CASE OutputOpens(l)
  BY <1>0, <1>4, OpenFileType, GotoType
  DEF OutputOpens, Calm, rowVars, RowTypeOK, FileTypeOK, WorkerTypeOK, RedactStep, Key
<1>5. CASE OutputCloses(l)
  <2>1. loops[l].review \in Content
    BY DEF WorkerTypeOK, LoopState, Content
  <2> QED
    BY <1>0, <1>5, <2>1, CloseFileType, GotoType
    DEF OutputCloses, Calm, rowVars, RowTypeOK, FileTypeOK, WorkerTypeOK, RedactStep, Key
<1>6. CASE MarkComplete(l)
  <2>1. RowTypeOK'
    BY <1>6, MoveRowType DEF MarkComplete, rowVars, RowTypeOK, JobStatus
  <2> QED
    BY <1>0, <1>6, <2>1, GotoType, RestType
    DEF MarkComplete, Calm, FileTypeOK, WorkerTypeOK, FaultStep
<1>7. CASE LostRace(l)
  BY <1>0, <1>7, GotoType, RaiseType
  DEF LostRace, Calm, storeVars, rowVars, RowTypeOK, FileTypeOK, WorkerTypeOK, FaultStep
<1>8. CASE LostPurges(l)
  BY <1>0, <1>8, DeletePrefixType, RaiseType
  DEF LostPurges, rowVars, RowTypeOK, FileTypeOK, WorkerTypeOK
<1> QED
  BY <1>1, <1>2, <1>3, <1>4, <1>5, <1>6, <1>7, <1>8

LEMMA FaultStepsType ==
  ASSUME LoopTypes, NEW l \in Loop,
         FailLooks(l) \/ FailErases(l) \/ FailAmends(l) \/ ReleaseJob(l)
  PROVE  LoopTypes'
<1> USE DEF LoopTypes
<1>0. "erase" \in LoopStep /\ "amend" \in LoopStep
  BY DEF LoopStep, FaultStep
<1>1. CASE FailLooks(l)
  <2> DEFINE error == IF loops[l].error = "validation" /\ status[loops[l].job] = "redacting"
                           /\ ~auto[loops[l].job]
                      THEN "validation" ELSE "other"
  <2>1. error \in Error
    BY DEF Error
  <2>2. ASSUME loops' = [loops EXCEPT ![l].at = "amend", ![l].error = error]
        PROVE  loops' \in [Loop -> LoopState]
    <3> HIDE DEF error
    <3> QED
      BY <1>0, <2>1, <2>2 DEF WorkerTypeOK, LoopState
  <2>3. loops' \in [Loop -> LoopState]
    BY <1>0, <1>1, <2>2, GotoType, RestType DEF FailLooks, WorkerTypeOK
  <2> QED
    BY <1>1, <2>3 DEF FailLooks, Calm, storeVars, rowVars, RowTypeOK, FileTypeOK, WorkerTypeOK
<1>2. CASE FailErases(l)
  BY <1>2, DeletePrefixType, RestType
  DEF FailErases, rowVars, RowTypeOK, FileTypeOK, WorkerTypeOK
<1>3. CASE FailAmends(l)
  <2>1. RowTypeOK'
    BY <1>3, MoveRowType DEF FailAmends, rowVars, RowTypeOK, JobStatus
  <2> QED
    BY <1>3, <2>1, RestType DEF FailAmends, Calm, FileTypeOK, WorkerTypeOK
<1>4. CASE ReleaseJob(l)
  <2>1. RowTypeOK'
    BY <1>4, MoveRowType DEF ReleaseJob, rowVars, RowTypeOK, JobStatus, Queued
  <2> QED
    BY <1>4, <2>1, RestType DEF ReleaseJob, FileTypeOK, WorkerTypeOK
<1> QED
  BY <1>1, <1>2, <1>3, <1>4

LEMMA LoopBooks ==
  ASSUME CallTypeOK, BookTypeOK, NEW l \in Loop, LoopNext(l)
  PROVE  CallTypeOK' /\ BookTypeOK'
<1>1. CASE Detect(l) \/ LostPurges(l) \/ FailErases(l)
  <2>1. /\ UNCHANGED <<calls, batch, reviews, accepted>>
        /\ \E kind \in FaultKind : Fault(kind) \/ NoFault
    BY <1>1 DEF Detect, LostPurges, FailErases, FaultKind
  <2> QED
    BY <2>1, FaultType DEF CallTypeOK, BookTypeOK
<1>2. CASE ~(Detect(l) \/ LostPurges(l) \/ FailErases(l))
  <2>1. UNCHANGED serviceVars
    BY <1>2 DEF LoopNext, Calm, Claim, LoadForDetect, RecordPages, CheckBeforePreview, PutPreview,
       RecordFindings, PutDraft, PutApproved, HandOff, LoadForRedact, FetchManifest, Render,
       OutputOpens, OutputCloses, MarkComplete, LostRace, FailLooks, FailAmends, ReleaseJob
  <2> QED
    BY <2>1 DEF serviceVars, CallTypeOK, BookTypeOK
<1> QED
  BY <1>1, <1>2

-----------------------------------------------------------------------------
(* Every variable always holds a value of its type.                        *)

TypeInv == TypeOK /\ PagesLeft

LEMMA TypeInit == Init => TypeInv
<1> SUFFICES ASSUME Init PROVE TypeInv
  OBVIOUS
<1> USE DEF Init
<1>1. StoreTypeOK
  BY DEF StoreInit, StoreTypeOK, NoFiles, Content
<1>2. ServiceTypeOK
  BY DEF ServiceInit, ServiceTypeOK, NoCall, Call, CallStep, Original, Review, StoreAssumption,
     ServiceAssumption
<1>3. WorkerTypeOK /\ PagesLeft
  BY DEF WorkerInit, WorkerTypeOK, PagesLeft, Resting, LoopState, LoopStep, Error, Original, Review,
     StoreAssumption
<1> QED
  BY <1>1, <1>2, <1>3 DEF TypeInv, TypeOK

LEMMA ClientTypes ==
  ASSUME ServiceTypes, NEW c \in Client, ClientNext(c)
  PROVE  ServiceTypes'
<1>1. c \in Caller
  BY DEF Caller
<1> QED
  BY <1>1, ClientStartsType, UploadType, SubmitType, FinalizeType, DeleteType, ExpireType, CallDiesType
  DEF ClientNext, CallContinues

LEMMA LoopTypesKept ==
  ASSUME LoopTypes, PagesLeft, NEW l \in Loop, LoopNext(l)
  PROVE  LoopTypes'
BY ClaimType, DetectStepsType, RedactStepsType, FaultStepsType DEF LoopNext

LEMMA PagesLeftKept ==
  ASSUME WorkerTypeOK, PagesLeft, NEW l \in Loop, LoopNext(l)
  PROVE  PagesLeft'
<1> USE DEF PagesLeft, WorkerTypeOK, Doing
<1>1. ASSUME NEW step, Goto(l, step),
             step \notin {"load", "pages", "check", "preview"}
               \/ loops[l].at \in {"load", "pages", "check", "preview"}
      PROVE  PagesLeft'
  BY <1>1 DEF Goto, LoopState
<1>2. ASSUME NEW error, Raise(l, error)
      PROVE  PagesLeft'
  BY <1>2 DEF Raise, LoopState
<1>3. ASSUME Rest(l)
      PROVE  PagesLeft'
  BY <1>3 DEF Rest, Resting
<1>4. CASE Claim(l)
  BY <1>4 DEF Claim, Resting, WorkerAssumption
<1>5. CASE PutPreview(l)
  BY <1>5 DEF PutPreview, LoopState
<1>6. CASE FetchManifest(l)
  BY <1>2, <1>6 DEF FetchManifest, LoopState
<1>7. CASE FailLooks(l)
  BY <1>1, <1>3, <1>7 DEF FailLooks, LoopState
<1>8. CASE ~(Claim(l) \/ PutPreview(l) \/ FetchManifest(l) \/ FailLooks(l))
  BY <1>1, <1>2, <1>3, <1>8
  DEF LoopNext, LoadForDetect, RecordPages, CheckBeforePreview, GotoIf, GotoIfActive, Detect,
      RecordFindings, PutDraft, PutApproved, HandOff, LoadForRedact, Render, OutputOpens,
      OutputCloses, MarkComplete, LostRace, LostPurges, FailErases, FailAmends, ReleaseJob
<1> QED
  BY <1>4, <1>5, <1>6, <1>7, <1>8

LEMMA ProcessTypes ==
  ASSUME TypeInv, ProcessNext
  PROVE  TypeInv'
<1>0. RowTypeOK /\ FileTypeOK /\ CallTypeOK /\ BookTypeOK /\ WorkerTypeOK /\ PagesLeft
  BY TypeParts DEF TypeInv
<1>1. ASSUME ProcessEnds, faults' \in 0 .. MaxFaults
      PROVE  RowTypeOK' /\ FileTypeOK' /\ CallTypeOK' /\ BookTypeOK' /\ WorkerTypeOK' /\ PagesLeft'
  <2>1. Resting \in LoopState /\ Resting.at = "idle"
    BY DEF Resting, LoopState, LoopStep, Error, Original, Review, StoreAssumption
  <2>2. NoCall \in Call
    BY DEF NoCall, Call, CallStep, Original, Review, StoreAssumption
  <2>3. CallTypeOK'
    BY <1>0, <1>1, <2>2 DEF ProcessEnds, CallTypeOK
  <2>4. WorkerTypeOK' /\ PagesLeft'
    BY <1>1, <2>1 DEF ProcessEnds, WorkerTypeOK, PagesLeft
  <2> QED
    BY <1>0, <1>1, <2>3, <2>4
    DEF ProcessEnds, storeVars, rowVars, RowTypeOK, FileTypeOK, BookTypeOK
<1>2. CASE WorkerStops
  <2>1. faults' \in 0 .. MaxFaults
    BY <1>0, <1>2, FaultType DEF WorkerStops, BookTypeOK
  <2> QED
    BY <1>0, <1>2, <2>1, TypeParts
    DEF WorkerStops, TypeInv, TypeOK, StoreTypeOK, ServiceTypeOK, WorkerTypeOK, PagesLeft, storeVars,
        rowVars, BookTypeOK
<1>3. CASE WorkerExits \/ WorkerCrashes
  <2>1. faults' \in 0 .. MaxFaults
    BY <1>0, <1>3, FaultType DEF WorkerExits, WorkerCrashes, BookTypeOK
  <2> QED
    BY <1>1, <1>3, <2>1, TypeParts DEF WorkerExits, WorkerCrashes, TypeInv, TypeOK, StoreTypeOK,
       ServiceTypeOK, RowTypeOK, FileTypeOK, CallTypeOK, BookTypeOK, Files
<1>4. CASE WorkerStarts
  <2>1. RowTypeOK'
    BY <1>0, <1>4, RequeueRowsType DEF WorkerStarts
  <2>2. FileTypeOK' /\ CallTypeOK' /\ BookTypeOK' /\ WorkerTypeOK' /\ PagesLeft'
    BY <1>0, <1>4
    DEF WorkerStarts, serviceVars, FileTypeOK, CallTypeOK, BookTypeOK, WorkerTypeOK, PagesLeft
  <2> QED
    BY <2>1, <2>2 DEF TypeInv, TypeOK, StoreTypeOK, ServiceTypeOK, RowTypeOK, FileTypeOK,
       CallTypeOK, BookTypeOK, Files
<1> QED
  BY <1>2, <1>3, <1>4 DEF ProcessNext

LEMMA TypeStep == TypeInv /\ [Next]_vars => TypeInv'
<1> SUFFICES ASSUME TypeInv, [Next]_vars PROVE TypeInv'
  OBVIOUS
<1>0. RowTypeOK /\ FileTypeOK /\ CallTypeOK /\ BookTypeOK /\ WorkerTypeOK /\ PagesLeft
  BY TypeParts DEF TypeInv
<1>1. ASSUME RowTypeOK', FileTypeOK', CallTypeOK', BookTypeOK', WorkerTypeOK', PagesLeft'
      PROVE  TypeInv'
  BY <1>1 DEF TypeInv, TypeOK, StoreTypeOK, ServiceTypeOK, RowTypeOK, FileTypeOK, CallTypeOK,
     BookTypeOK, Files
<1>2. ASSUME UNCHANGED workerVars
      PROVE  WorkerTypeOK' /\ PagesLeft'
  BY <1>0, <1>2 DEF workerVars, WorkerTypeOK, PagesLeft
<1>3. ASSUME NEW c \in Client, ClientNext(c)
      PROVE  TypeInv'
  BY <1>0, <1>1, <1>2, <1>3, ClientTypes DEF ServiceTypes, ClientNext
<1>4. ASSUME NEW l \in Loop, LoopNext(l)
      PROVE  TypeInv'
  BY <1>0, <1>1, <1>4, LoopTypesKept, PagesLeftKept, LoopBooks DEF LoopTypes
<1>5. CASE ProcessNext
  BY <1>5, ProcessTypes
<1>6. CASE Cleanup
  BY <1>0, <1>1, <1>2, <1>6, CleanerType DEF ServiceTypes, Cleanup
<1>7. CASE ClockNext
  BY <1>0, <1>1, <1>2, <1>7
  DEF ClockNext, Deadline, serviceVars, RowTypeOK, FileTypeOK, CallTypeOK, BookTypeOK
<1>8. CASE UNCHANGED vars
  BY <1>0, <1>1, <1>2, <1>8
  DEF vars, storeVars, rowVars, serviceVars, RowTypeOK, FileTypeOK, CallTypeOK, BookTypeOK
<1> QED
  BY <1>3, <1>4, <1>5, <1>6, <1>7, <1>8 DEF Next

\* Every variable always holds a value of its type; in particular no loop
\* stores more previews than the document has pages.
THEOREM TypeCorrect == Spec => []TypeOK
<1>1. Spec => []TypeInv
  BY TypeInit, TypeStep, PTL DEF Spec
<1>2. TypeInv => TypeOK
  BY DEF TypeInv
<1> QED
  BY <1>1, <1>2, PTL

-----------------------------------------------------------------------------
(* Ownership.  What a job is worth to a loop is known from the status the  *)
(* row had when the loop last looked, and rows change under it; the parts  *)
(* of the inductive invariant say what stays true of the row meanwhile.    *)

\* What loop l may rely on while it is on a job.
Owns(l) ==
  LET j == loops[l].job IN
    /\ j \in Job
    /\ status[j] \in StageOf(loops[l].at) \cup Tombstone
    /\ Doing(l, "fail") /\ loops[l].error = "cancelled" => due[j] \/ status[j] \in Tombstone
    /\ Doing(l, "amend") /\ loops[l].error = "validation" =>
         status[j] \in {"redacting"} \cup Tombstone

LoopsOwn == \A l \in Loop : IF Doing(l, "idle") THEN loops[l].job = None ELSE Owns(l)

Apart == \A l, m \in Loop :
  l # m /\ ~Doing(l, "idle") /\ ~Doing(m, "idle") => loops[l].job # loops[m].job

DownIsIdle == worker = "down" => \A l \in Loop : Doing(l, "idle")

\* A finalize past its first look read a status a review may start from.
FinalizeRead == \A c \in Caller :
  calls[c].at \in {"manifest", "approve", "write", "queue"} => calls[c].was \in Reviewable

OwnerInv == TypeInv /\ LoopsOwn /\ Apart /\ DownIsIdle /\ FinalizeRead /\ NoOrphan

\* StageOf step by step.
LEMMA Stages ==
  /\ \A step \in DetectStep : StageOf(step) = {"detecting"}
  /\ \A step \in RedactStep : StageOf(step) = {"redacting"}
  /\ StageOf("lost") = {} /\ StageOf("purge") = {} /\ StageOf("erase") = {}
  /\ StageOf("fail") = InFlight /\ StageOf("amend") = InFlight
BY DEF StageOf, DetectStep, RedactStep

LEMMA StageInFlight == \A step \in LoopStep \ {"idle"} : StageOf(step) \subseteq InFlight
BY Stages DEF LoopStep, FaultStep, InFlight

LEMMA OwnerInit == Init => LoopsOwn /\ Apart /\ DownIsIdle /\ FinalizeRead /\ NoOrphan
BY DEF Init, StoreInit, ServiceInit, WorkerInit, LoopsOwn, Apart, DownIsIdle, FinalizeRead,
   NoOrphan, Doing, Resting, NoCall, InFlight

\* What calls, the cleaner and the clock may do to the rows: bury them, or
\* move those no loop is on.
OutsideStep ==
  /\ \A j \in Job : due[j] => due'[j]
  /\ \A j \in Job :
       \/ status'[j] = status[j]
       \/ status'[j] \in Tombstone
       \/ status[j] \notin InFlight \cup Tombstone /\ status'[j] \notin InFlight

LEMMA BuryRowOutside ==
  ASSUME TypeInv, NEW j, BuryRow(j)
  PROVE  OutsideStep
BY DEF TypeInv, TypeOK, StoreTypeOK, BuryRow, SetStatus, OutsideStep, Tombstone

LEMMA MoveRowOutside ==
  ASSUME TypeInv, NEW j, NEW allowed, NEW new, MoveRow(j, allowed, new),
         new \in Tombstone \/ (allowed \cap (InFlight \cup Tombstone) = {} /\ new \notin InFlight)
  PROVE  OutsideStep
BY DEF TypeInv, TypeOK, StoreTypeOK, MoveRow, Allows, SetStatus, OutsideStep

LEMMA SameRowsOutside ==
  ASSUME UNCHANGED rowVars
  PROVE  OutsideStep
BY DEF rowVars, OutsideStep

LEMMA ExpireOutside ==
  ASSUME TypeInv, NEW c \in Caller, ExpireNext(c)
  PROVE  OutsideStep
<1>1. CASE ExpireMarks(c)
  BY <1>1, BuryRowOutside DEF ExpireMarks
<1>2. CASE ExpireSweeps(c)
  BY <1>2, SameRowsOutside DEF ExpireSweeps
<1>3. CASE ExpireSeals(c)
  BY <1>3, SameRowsOutside, MoveRowOutside DEF ExpireSeals, Tombstone
<1> QED
  BY <1>1, <1>2, <1>3 DEF ExpireNext

LEMMA ClientOutside ==
  ASSUME TypeInv, FinalizeRead, NEW c \in Client, ClientNext(c)
  PROVE  OutsideStep
<1>0. c \in Caller
  BY DEF Caller
<1>1. ASSUME NEW j \in Job, CreateJob(c, j)
      PROVE  OutsideStep
  BY <1>1 DEF CreateJob, InsertRow, SetStatus, OutsideStep, TypeInv, TypeOK, StoreTypeOK, InFlight,
     Tombstone
<1>2. ASSUME NEW j \in Job,
             Poll(c, j) \/ Upload(c, j) \/ Submit(c, j) \/ Finalize(c, j) \/ Delete(c, j)
      PROVE  OutsideStep
  BY <1>2, SameRowsOutside DEF Poll, Upload, Submit, Finalize, Delete, RequireJob, storeVars
<1>3. CASE \/ UploadBreaks(c) \/ UploadOpens(c) \/ UploadCloses(c)
           \/ SubmitReadsInput(c) \/ SubmitRejects(c)
           \/ FinalizeReadsManifest(c) \/ FinalizeOpensManifest(c) \/ FinalizeClosesManifest(c)
           \/ DeletePurges(c)
           \/ CallDies(c)
  BY <1>3, SameRowsOutside
  DEF UploadBreaks, UploadOpens, UploadCloses, SubmitReadsInput, SubmitRejects,
      FinalizeReadsManifest, FinalizeOpensManifest, FinalizeClosesManifest, DeletePurges, CallDies, storeVars
<1>4. CASE SubmitRefuses(c) \/ SubmitAccepts(c)
  BY <1>4, SameRowsOutside, MoveRowOutside
  DEF SubmitRefuses, SubmitAccepts, InFlight, Tombstone
<1>5. CASE FinalizeQueues(c)
  <2> DEFINE j == calls[c].job
  <2>1. CASE Allows(j, {calls[c].was})
    <3>1. status[j] \in Reviewable
      BY <1>0, <1>5, <2>1 DEF FinalizeQueues, In, FinalizeRead, Allows
    <3>2. SetStatus(j, "queued_redaction") /\ UNCHANGED due
      BY <1>5, <2>1 DEF FinalizeQueues
    <3> QED
      BY <3>1, <3>2 DEF SetStatus, OutsideStep, Reviewable, InFlight, Tombstone, TypeInv, TypeOK,
         StoreTypeOK
  <2>2. CASE ~Allows(j, {calls[c].was})
    BY <1>5, <2>2, SameRowsOutside DEF FinalizeQueues
  <2> QED
    BY <2>1, <2>2
<1>6. CASE DeleteMarks(c)
  BY <1>6, BuryRowOutside DEF DeleteMarks
<1>7. CASE ExpireNext(c)
  BY <1>0, <1>7, ExpireOutside
<1> QED
  BY <1>1, <1>2, <1>3, <1>4, <1>5, <1>6, <1>7 DEF ClientNext, ClientStarts, CallContinues

LEMMA CleanupOutside ==
  ASSUME TypeInv, Cleanup
  PROVE  OutsideStep
<1>0. Cleaner \in Caller
  BY DEF Caller
<1>1. CASE CleanupLists \/ CleanupExpires
  BY <1>1, SameRowsOutside DEF CleanupLists, CleanupExpires, storeVars
<1> QED
  BY <1>0, <1>1, ExpireOutside DEF Cleanup, CleanerNext

LEMMA ClockOutside ==
  ASSUME TypeInv, ClockNext
  PROVE  OutsideStep
BY DEF ClockNext, Deadline, OutsideStep, TypeInv, TypeOK, StoreTypeOK

\* Steps outside the worker take nothing from a loop.
LEMMA OutsideKeeps ==
  ASSUME TypeInv, LoopsOwn, Apart, DownIsIdle, NoOrphan, OutsideStep, UNCHANGED workerVars
  PROVE  LoopsOwn' /\ Apart' /\ DownIsIdle' /\ NoOrphan'
<1> USE DEF workerVars, Doing
<1>1. ASSUME NEW l \in Loop, ~Doing(l, "idle"), Owns(l)
      PROVE  Owns(l)'
  <2>1. StageOf(loops[l].at) \subseteq InFlight
    BY <1>1, StageInFlight DEF TypeInv, TypeOK, WorkerTypeOK, LoopState
  <2> QED
    BY <1>1, <2>1 DEF Owns, OutsideStep
<1>2. LoopsOwn'
  BY <1>1 DEF LoopsOwn
<1>3. Apart' /\ DownIsIdle'
  BY DEF Apart, DownIsIdle
<1>4. NoOrphan'
  BY DEF NoOrphan, OutsideStep, InFlight, Tombstone
<1> QED
  BY <1>2, <1>3, <1>4

\* What the step of loop l does to its own job and to those of the others.
LoopStepEffect(l) ==
  LET j == loops[l].job IN
    /\ UNCHANGED due
    /\ worker # "down" /\ worker' # "down"
    /\ \A m \in Loop \ {l} : loops'[m] = loops[m]
    /\ \A i \in Job : i # j => status'[i] = status[i]
    /\ status[j] \in Tombstone => status'[j] \in Tombstone
    /\ \/ ~Doing(l, "idle")' /\ loops'[l].job = j /\ Owns(l)'
       \/ loops'[l] = Resting /\ (status'[j] \in InFlight => due[j])

\* A loop that goes on, with the row unchanged.
LEMMA GoesOn ==
  ASSUME TypeInv, LoopsOwn, DownIsIdle, NEW l \in Loop, ~Doing(l, "idle"),
         NEW new \in LoopState, loops' = [loops EXCEPT ![l] = new],
         new.at # "idle", new.job = loops[l].job,
         UNCHANGED <<status, due>>, worker' = worker,
         StageOf(loops[l].at) \subseteq StageOf(new.at) \/ status[loops[l].job] \in Tombstone,
         new.at = "fail" /\ new.error = "cancelled" =>
           due[loops[l].job] \/ status[loops[l].job] \in Tombstone,
         new.at = "amend" /\ new.error = "validation" =>
           status[loops[l].job] \in {"redacting"} \cup Tombstone
  PROVE  LoopStepEffect(l)
<1> DEFINE j == loops[l].job
<1>1. Owns(l)
  BY DEF LoopsOwn
<1>2. loops'[l] = new /\ \A m \in Loop \ {l} : loops'[m] = loops[m]
  BY DEF TypeInv, TypeOK, WorkerTypeOK
<1>3. worker # "down"
  BY DEF DownIsIdle
<1>4. Owns(l)'
  BY <1>1, <1>2 DEF Owns, Doing
<1> QED
  BY <1>2, <1>3, <1>4 DEF LoopStepEffect, Doing

LEMMA GotoGoesOn ==
  ASSUME TypeInv, LoopsOwn, DownIsIdle, NEW l \in Loop, ~Doing(l, "idle"),
         NEW step \in LoopStep \ {"idle", "fail", "amend"}, Goto(l, step),
         UNCHANGED <<status, due>>, worker' = worker,
         StageOf(loops[l].at) \subseteq StageOf(step) \/ status[loops[l].job] \in Tombstone
  PROVE  LoopStepEffect(l)
<1> DEFINE new == [loops[l] EXCEPT !.at = step]
<1>1. loops[l] \in LoopState
  BY DEF TypeInv, TypeOK, WorkerTypeOK
<1>2. new \in LoopState /\ new.at = step /\ new.job = loops[l].job
  BY <1>1 DEF LoopState
<1>3. loops' = [loops EXCEPT ![l] = new]
  BY DEF Goto
<1> HIDE DEF new
<1> QED
  BY <1>2, <1>3, GoesOn

LEMMA RaiseGoesOn ==
  ASSUME TypeInv, LoopsOwn, DownIsIdle, NEW l \in Loop, ~Doing(l, "idle"),
         NEW e \in Error, Raise(l, e), UNCHANGED <<status, due>>, worker' = worker,
         e = "cancelled" => due[loops[l].job] \/ status[loops[l].job] \in Tombstone
  PROVE  LoopStepEffect(l)
<1> DEFINE new == [loops[l] EXCEPT !.at = "fail", !.error = e]
<1>1. loops[l] \in LoopState /\ loops[l].at \in LoopStep \ {"idle"}
  BY DEF TypeInv, TypeOK, WorkerTypeOK, LoopState, Doing
<1>2. "fail" \in LoopStep
  BY DEF LoopStep, FaultStep
<1>3. new \in LoopState /\ new.at = "fail" /\ new.error = e /\ new.job = loops[l].job
  BY <1>1, <1>2 DEF LoopState
<1>4. loops' = [loops EXCEPT ![l] = new]
  BY DEF Raise
<1>5. StageOf(loops[l].at) \subseteq StageOf("fail")
  BY <1>1, StageInFlight, Stages
<1> HIDE DEF new
<1> QED
  BY <1>3, <1>4, <1>5, GoesOn

LEMMA RestEffect ==
  ASSUME TypeInv, DownIsIdle, NEW l \in Loop, ~Doing(l, "idle"), Rest(l),
         UNCHANGED due, worker' \in {worker, "stopping"},
         \A i \in Job : i # loops[l].job => status'[i] = status[i],
         status[loops[l].job] \in Tombstone => status'[loops[l].job] \in Tombstone,
         status'[loops[l].job] \in InFlight => due[loops[l].job]
  PROVE  LoopStepEffect(l)
BY DEF LoopStepEffect, Rest, TypeInv, TypeOK, WorkerTypeOK, DownIsIdle

\* Where the row is still in the stage the loop is in, update succeeds; else
\* the job was deleted.
LEMMA ConflictIsTombstone ==
  ASSUME LoopsOwn, NEW l \in Loop, ~Doing(l, "idle"), NEW allowed,
         StageOf(loops[l].at) \subseteq allowed, ~Allows(loops[l].job, allowed)
  PROVE  status[loops[l].job] \in Tombstone
BY DEF LoopsOwn, Owns, Allows

LEMMA GotoIfGoesOn ==
  ASSUME TypeInv, LoopsOwn, DownIsIdle, NEW l \in Loop, ~Doing(l, "idle"),
         NEW expected, StageOf(loops[l].at) = {expected},
         NEW step \in LoopStep \ {"idle", "fail", "amend"}, StageOf(step) = {expected},
         GotoIf(l, {expected}, step) \/ GotoIfActive(l, expected, step),
         UNCHANGED <<status, due>>, worker' = worker
  PROVE  LoopStepEffect(l)
<1>1. CASE Goto(l, step)
  BY <1>1, GotoGoesOn
<1>2. CASE Raise(l, "other")
  BY <1>2, RaiseGoesOn DEF Error
<1>3. CASE /\ Raise(l, "cancelled")
           /\ ~Allows(loops[l].job, {expected}) \/ due[loops[l].job]
  BY <1>3, RaiseGoesOn, ConflictIsTombstone DEF Error
<1> QED
  BY <1>1, <1>2, <1>3 DEF GotoIf, GotoIfActive

LEMMA DetectEffects ==
  ASSUME TypeInv, LoopsOwn, DownIsIdle, NEW l \in Loop,
         \/ LoadForDetect(l) \/ RecordPages(l) \/ CheckBeforePreview(l) \/ PutPreview(l)
         \/ Detect(l) \/ RecordFindings(l) \/ PutDraft(l) \/ PutApproved(l) \/ HandOff(l)
  PROVE  LoopStepEffect(l)
<1> DEFINE j == loops[l].job
<1>0. /\ loops[l].at \in DetectStep /\ ~Doing(l, "idle")
      /\ StageOf(loops[l].at) = {"detecting"}
      /\ DetectStep \subseteq LoopStep \ {"idle", "fail", "amend"}
      /\ "none" \in Error /\ "other" \in Error
  BY Stages
  DEF LoadForDetect, RecordPages, CheckBeforePreview, PutPreview, Detect, RecordFindings, PutDraft,
      PutApproved, HandOff, Doing, DetectStep, LoopStep, Error
<1>1. ASSUME NEW step \in DetectStep, Goto(l, step), UNCHANGED <<status, due>>, worker' = worker
      PROVE  LoopStepEffect(l)
  BY <1>0, <1>1, GotoGoesOn, Stages
<1>2. ASSUME NEW step \in DetectStep, UNCHANGED <<status, due>>, worker' = worker,
             GotoIf(l, {"detecting"}, step) \/ GotoIfActive(l, "detecting", step)
      PROVE  LoopStepEffect(l)
  BY <1>0, <1>2, GotoIfGoesOn, Stages
<1>3. ASSUME Raise(l, "other"), UNCHANGED <<status, due>>, worker' = worker
      PROVE  LoopStepEffect(l)
  BY <1>0, <1>3, RaiseGoesOn
<1>4. CASE LoadForDetect(l)
  BY <1>1, <1>3, <1>4 DEF LoadForDetect, Calm, storeVars, rowVars, DetectStep
<1>5. CASE RecordPages(l)
  BY <1>2, <1>5 DEF RecordPages, Calm, DetectStep
<1>6. CASE CheckBeforePreview(l)
  BY <1>2, <1>6 DEF CheckBeforePreview, Calm, storeVars, rowVars, DetectStep
<1>7. CASE PutPreview(l)
  <2> DEFINE step == IF loops[l].page + 1 < Pages THEN "check" ELSE "detect"
             new  == [loops[l] EXCEPT !.page = @ + 1, !.at = step]
  <2>1. loops' = [loops EXCEPT ![l] = new]
    BY <1>7 DEF PutPreview
  <2>2. loops[l] \in LoopState /\ loops' \in [Loop -> LoopState]
    BY <1>7, DetectStepsType, TypeParts DEF TypeInv, TypeOK, WorkerTypeOK, LoopTypes
  <2>3. new \in LoopState
    BY <2>1, <2>2
  <2>4. new.at = step /\ new.job = j /\ step \in DetectStep
    BY <2>2 DEF LoopState, DetectStep
  <2>5. new.at \notin {"idle", "fail", "amend"} /\ StageOf(new.at) = {"detecting"}
    BY <1>0, <2>4, Stages
  <2>6. UNCHANGED <<status, due, worker>>
    BY <1>7 DEF PutPreview, Calm, rowVars
  <2> HIDE DEF new
  <2> QED
    BY <1>0, <2>1, <2>3, <2>4, <2>5, <2>6, GoesOn
<1>8. CASE Detect(l)
  BY <1>1, <1>2, <1>3, <1>8 DEF Detect, storeVars, rowVars, DetectStep
<1>9. CASE RecordFindings(l)
  BY <1>2, <1>9 DEF RecordFindings, Calm, storeVars, rowVars, DetectStep
<1>10. CASE PutDraft(l) \/ PutApproved(l)
  BY <1>1, <1>10 DEF PutDraft, PutApproved, Calm, rowVars, DetectStep
<1>11. CASE HandOff(l)
  <2>1. CASE ~Allows(j, {"detecting"})
    BY <1>3, <1>11, <2>1 DEF HandOff, Calm, rowVars
  <2>2. CASE Allows(j, {"detecting"}) /\ loops[l].auto
    <3>1. MoveRow(j, {"detecting"}, "redacting") /\ Goto(l, "render") /\ worker' = worker
      BY <1>11, <2>2 DEF HandOff, Calm
    <3>2. j \in Job
      BY <1>0 DEF LoopsOwn, Owns
    <3>3. /\ loops'[l].at = "render" /\ loops'[l].job = j
          /\ \A m \in Loop \ {l} : loops'[m] = loops[m]
      BY <3>1 DEF Goto, TypeInv, TypeOK, WorkerTypeOK, LoopState
    <3>4. /\ status'[j] = "redacting" /\ UNCHANGED due
          /\ status[j] = "detecting"
          /\ \A i \in Job : i # j => status'[i] = status[i]
      BY <3>1, <3>2 DEF MoveRow, SetStatus, Allows, TypeInv, TypeOK, StoreTypeOK
    <3>5. StageOf("render") = {"redacting"}
      BY Stages DEF RedactStep
    <3> QED
      BY <1>0, <3>1, <3>2, <3>3, <3>4, <3>5 DEF LoopStepEffect, Owns, Doing, DownIsIdle, Tombstone
  <2>3. CASE Allows(j, {"detecting"}) /\ ~loops[l].auto
    <3>1. MoveRow(j, {"detecting"}, "review_required") /\ Rest(l) /\ worker' = worker
      BY <1>11, <2>3 DEF HandOff, Calm
    <3>2. /\ status'[j] = "review_required" /\ UNCHANGED due
          /\ status[j] = "detecting"
          /\ \A i \in Job : i # j => status'[i] = status[i]
      BY <1>0, <3>1 DEF MoveRow, SetStatus, Allows, TypeInv, TypeOK, StoreTypeOK, LoopsOwn, Owns
    <3> QED
      BY <1>0, <3>1, <3>2, RestEffect DEF InFlight, Tombstone
  <2> QED
    BY <2>1, <2>2, <2>3
<1> QED
  BY <1>4, <1>5, <1>6, <1>7, <1>8, <1>9, <1>10, <1>11

LEMMA RedactEffects ==
  ASSUME TypeInv, LoopsOwn, DownIsIdle, NEW l \in Loop,
         \/ LoadForRedact(l) \/ FetchManifest(l) \/ Render(l) \/ OutputOpens(l) \/ OutputCloses(l)
         \/ MarkComplete(l) \/ LostRace(l) \/ LostPurges(l)
  PROVE  LoopStepEffect(l)
<1> DEFINE j == loops[l].job
<1>0. /\ ~Doing(l, "idle")
      /\ RedactStep \cup {"lost", "purge"} \subseteq LoopStep \ {"idle", "fail", "amend"}
      /\ Error = {"none", "cancelled", "validation", "other"}
  BY DEF LoadForRedact, FetchManifest, Render, OutputOpens, OutputCloses, MarkComplete, LostRace,
     LostPurges, Doing, RedactStep, FaultStep, LoopStep, Error
<1>1. ASSUME NEW step \in RedactStep, Goto(l, step), UNCHANGED <<status, due>>, worker' = worker,
             loops[l].at \in RedactStep
      PROVE  LoopStepEffect(l)
  BY <1>0, <1>1, GotoGoesOn, Stages
<1>2. ASSUME NEW e \in Error, Raise(l, e), UNCHANGED <<status, due>>, worker' = worker,
             e = "cancelled" => status[j] \in Tombstone
      PROVE  LoopStepEffect(l)
  BY <1>0, <1>2, RaiseGoesOn
<1>3. CASE LoadForRedact(l)
  BY <1>0, <1>1, <1>2, <1>3 DEF LoadForRedact, Doing, Calm, storeVars, rowVars, RedactStep
<1>4. CASE FetchManifest(l)
  <2>0. UNCHANGED <<status, due, worker>> /\ loops[l].at = "fetch"
    BY <1>4 DEF FetchManifest, Doing, Calm, storeVars, rowVars
  <2>1. CASE Raise(l, "other")
    BY <1>0, <1>2, <2>0, <2>1
  <2>2. CASE ~Raise(l, "other")
    <3> DEFINE manifest == store[j]["approved"]
               new == [loops[l] EXCEPT !.at = "render", !.review = manifest]
    <3>1. loops' = [loops EXCEPT ![l] = new] /\ manifest \in Review
      BY <1>4, <2>2 DEF FetchManifest
    <3>2. loops[l] \in LoopState /\ "render" \in LoopStep
      BY <1>0 DEF TypeInv, TypeOK, WorkerTypeOK, RedactStep
    <3> HIDE DEF manifest
    <3>3. new \in LoopState /\ new.at = "render" /\ new.job = j
      BY <3>1, <3>2 DEF LoopState
    <3>4. StageOf("fetch") = {"redacting"} /\ StageOf("render") = {"redacting"}
      BY Stages DEF RedactStep
    <3> HIDE DEF new
    <3> QED
      BY <1>0, <2>0, <3>1, <3>3, <3>4, GoesOn
  <2> QED
    BY <2>1, <2>2
<1>5. CASE Render(l)
  <2>1. CASE GotoIfActive(l, "redacting", "open")
    <3>1. StageOf("render") = {"redacting"} /\ StageOf("open") = {"redacting"} /\ "open" \in RedactStep
      BY Stages DEF RedactStep
    <3> QED
      BY <1>0, <1>5, <2>1, <3>1, GotoIfGoesOn DEF Render, Doing, Calm, storeVars, rowVars
  <2> QED
    BY <1>0, <1>2, <1>5, <2>1 DEF Render, Calm, storeVars, rowVars
<1>6. CASE OutputOpens(l) \/ OutputCloses(l)
  BY <1>1, <1>6 DEF OutputOpens, OutputCloses, Doing, Calm, rowVars, RedactStep
<1>7. CASE MarkComplete(l)
  <2>0. loops[l].at = "complete" /\ StageOf("complete") = {"redacting"} /\ worker' = worker
    BY <1>7, Stages DEF MarkComplete, Doing, RedactStep, Calm
  <2>1. CASE Allows(j, {"redacting"})
    <3>1. MoveRow(j, {"redacting"}, "complete") /\ Rest(l)
      BY <1>7, <2>1 DEF MarkComplete
    <3>2. /\ status'[j] = "complete" /\ UNCHANGED due
          /\ status[j] = "redacting"
          /\ \A i \in Job : i # j => status'[i] = status[i]
      BY <1>0, <3>1 DEF MoveRow, SetStatus, Allows, TypeInv, TypeOK, StoreTypeOK, LoopsOwn, Owns
    <3> QED
      BY <1>0, <2>0, <3>1, <3>2, RestEffect DEF InFlight, Tombstone
  <2>2. CASE ~Allows(j, {"redacting"})
    <3>1. UNCHANGED <<status, due>> /\ Goto(l, "lost")
      BY <1>7, <2>2 DEF MarkComplete, rowVars
    <3>2. status[j] \in Tombstone
      BY <1>0, <2>0, <2>2, ConflictIsTombstone
    <3> QED
      BY <1>0, <2>0, <3>1, <3>2, GotoGoesOn
  <2> QED
    BY <2>1, <2>2
<1>8. CASE LostRace(l) \/ LostPurges(l)
  <2>1. status[j] \in Tombstone
    BY <1>0, <1>8, Stages DEF LostRace, LostPurges, Doing, LoopsOwn, Owns
  <2>2. UNCHANGED <<status, due, worker>>
    BY <1>8 DEF LostRace, LostPurges, Calm, storeVars, rowVars
  <2>3. CASE Goto(l, "purge")
    BY <1>0, <2>1, <2>2, <2>3, GotoGoesOn
  <2> QED
    BY <1>0, <1>2, <1>8, <2>1, <2>2, <2>3 DEF LostRace, LostPurges
<1> QED
  BY <1>3, <1>4, <1>5, <1>6, <1>7, <1>8

LEMMA FaultEffects ==
  ASSUME TypeInv, LoopsOwn, DownIsIdle, NEW l \in Loop,
         FailLooks(l) \/ FailErases(l) \/ FailAmends(l) \/ ReleaseJob(l)
  PROVE  LoopStepEffect(l)
<1> DEFINE j == loops[l].job
<1>0. ~Doing(l, "idle")
  BY DEF FailLooks, FailErases, FailAmends, ReleaseJob, Doing
<1>1. Owns(l) /\ j \in Job
  BY <1>0 DEF LoopsOwn, Owns
<1>2. ASSUME UNCHANGED <<status, due>>, worker' \in {worker, "stopping"}, Rest(l),
             status[j] \in InFlight => due[j]
      PROVE  LoopStepEffect(l)
  BY <1>0, <1>2, RestEffect
<1>3. CASE FailLooks(l)
  <2>0. UNCHANGED <<status, due, worker>> /\ loops[l].at = "fail"
    BY <1>3 DEF FailLooks, Calm, storeVars, rowVars, Doing
  <2>1. CASE status[j] \in Tombstone /\ Goto(l, "erase")
    BY <1>0, <2>0, <2>1, GotoGoesOn DEF LoopStep, FaultStep
  <2>2. CASE /\ status[j] \notin Tombstone
             /\ loops[l].error = "cancelled" \/ status[j] = "complete"
             /\ Rest(l)
    BY <1>1, <1>2, <2>0, <2>2 DEF Owns, Doing, InFlight
  <2> DEFINE error == IF loops[l].error = "validation" /\ status[j] = "redacting" /\ ~auto[j]
                      THEN "validation" ELSE "other"
             new == [loops[l] EXCEPT !.at = "amend", !.error = error]
  <2>3. CASE loops' = [loops EXCEPT ![l] = new]
    <3>1. loops[l] \in LoopState /\ "amend" \in LoopStep /\ error \in Error
      BY DEF TypeInv, TypeOK, WorkerTypeOK, LoopStep, FaultStep, Error
    <3>2. error # "cancelled" /\ (error = "validation" => status[j] = "redacting")
      OBVIOUS
    <3> HIDE DEF error
    <3>3. new \in LoopState /\ new.at = "amend" /\ new.job = j /\ new.error = error
      BY <3>1 DEF LoopState
    <3> HIDE DEF new
    <3>4. StageOf("fail") = StageOf("amend")
      BY Stages
    <3> QED
      BY <1>0, <2>0, <2>3, <3>2, <3>3, <3>4, GoesOn
  <2>4. loops' = [loops EXCEPT ![l].at = "amend", ![l].error = error]
          => loops' = [loops EXCEPT ![l] = new]
    OBVIOUS
  <2> HIDE DEF new
  <2> QED
    BY <1>3, <2>1, <2>2, <2>3, <2>4 DEF FailLooks
<1>4. CASE FailErases(l)
  <2>1. status[j] \in Tombstone
    BY <1>1, <1>4, Stages DEF FailErases, Doing, Owns
  <2> QED
    BY <1>2, <1>4, <2>1 DEF FailErases, rowVars, InFlight, Tombstone
<1>5. ASSUME NEW allowed, NEW new \in JobStatus \ InFlight, Rest(l), worker' \in {worker, "stopping"},
             StageOf(loops[l].at) \subseteq allowed \/ status[j] \in allowed \cup Tombstone,
             Tombstone \cap allowed = {},
             IF Allows(j, allowed) THEN MoveRow(j, allowed, new) ELSE UNCHANGED rowVars
      PROVE  LoopStepEffect(l)
  <2>1. CASE Allows(j, allowed)
    <3>1. /\ status'[j] = new /\ UNCHANGED due /\ status[j] \notin Tombstone
          /\ \A i \in Job : i # j => status'[i] = status[i]
      BY <1>1, <1>5, <2>1 DEF MoveRow, SetStatus, Allows, TypeInv, TypeOK, StoreTypeOK
    <3> QED
      BY <1>0, <1>5, <3>1, RestEffect
  <2>2. CASE ~Allows(j, allowed)
    <3>1. status[j] \in Tombstone
      BY <1>0, <1>5, <2>2, ConflictIsTombstone DEF Allows
    <3> QED
      BY <1>2, <1>5, <2>2, <3>1 DEF rowVars, InFlight, Tombstone
  <2> QED
    BY <2>1, <2>2
<1>6. CASE FailAmends(l)
  <2> DEFINE allowed == IF loops[l].error = "validation" THEN {"redacting"} ELSE InFlight
             new     == IF loops[l].error = "validation" THEN "review_required" ELSE "failed"
  <2>1. /\ Rest(l) /\ worker' = worker
        /\ IF Allows(j, allowed) THEN MoveRow(j, allowed, new) ELSE UNCHANGED rowVars
    BY <1>6 DEF FailAmends, Calm
  <2>2. status[j] \in allowed \cup Tombstone
    BY <1>1, <1>6, Stages DEF FailAmends, Doing, Owns
  <2>3. new \in JobStatus \ InFlight /\ Tombstone \cap allowed = {}
    BY DEF JobStatus, InFlight, Tombstone
  <2> HIDE DEF allowed, new
  <2> QED
    BY <1>5, <2>1, <2>2, <2>3
<1>7. CASE ReleaseJob(l)
  <2>1. StageOf(loops[l].at) = {"detecting"}
    BY <1>7, Stages DEF ReleaseJob, Doing, DetectStep
  <2>2. "queued_detection" \in JobStatus \ InFlight /\ Tombstone \cap {"detecting"} = {}
    BY DEF JobStatus, Queued, InFlight, Tombstone
  <2> QED
    BY <1>5, <1>7, <2>1, <2>2 DEF ReleaseJob
<1> QED
  BY <1>3, <1>4, <1>6, <1>7

\* What is left when one loop has taken a step: the others' jobs are not its own.
LEMMA LoopStepKeeps ==
  ASSUME TypeInv, LoopsOwn, Apart, NoOrphan, NEW l \in Loop, ~Doing(l, "idle"), LoopStepEffect(l)
  PROVE  LoopsOwn' /\ Apart' /\ DownIsIdle' /\ NoOrphan'
<1> DEFINE j == loops[l].job
<1>1. Owns(l) /\ j \in Job
  BY DEF LoopsOwn, Owns
<1>2. \A m \in Loop \ {l} : loops'[m] = loops[m]
  BY DEF LoopStepEffect
<1>3. ASSUME NEW m \in Loop \ {l}
      PROVE  IF Doing(m, "idle")' THEN loops'[m].job = None ELSE Owns(m)'
  <2>1. IF Doing(m, "idle") THEN loops[m].job = None ELSE Owns(m) /\ loops[m].job # j
    BY DEF LoopsOwn, Apart
  <2>2. \A i \in Job : i # j => status'[i] = status[i] /\ due'[i] = due[i]
    BY DEF LoopStepEffect
  <2> QED
    BY <1>2, <2>1, <2>2 DEF Owns, Doing
<1>4. IF Doing(l, "idle")' THEN loops'[l].job = None ELSE Owns(l)'
  BY DEF LoopStepEffect, Resting, Doing
<1>5. loops'[l].job \in {j, None} /\ (~Doing(l, "idle")' => loops'[l].job = j)
  BY DEF LoopStepEffect, Resting, Doing
<1>6. LoopsOwn'
  BY <1>3, <1>4 DEF LoopsOwn
<1>7. Apart'
  BY <1>2, <1>5 DEF Apart, Doing
<1>8. DownIsIdle'
  BY DEF DownIsIdle, LoopStepEffect
<1>9. NoOrphan'
  <2> SUFFICES ASSUME NEW i \in Job, status'[i] \in InFlight
               PROVE  (\E m \in Loop : loops'[m].job = i) \/ due'[i]
    BY DEF NoOrphan, InFlight
  <2>1. CASE i = j
    BY <2>1 DEF LoopStepEffect
  <2>2. CASE i # j
    <3>1. status[i] \in InFlight /\ due'[i] = due[i] /\ worker # "down"
      BY <2>2 DEF LoopStepEffect
    <3>2. (\E m \in Loop : loops[m].job = i) \/ due[i]
      BY <3>1 DEF NoOrphan
    <3> QED
      BY <1>2, <2>2, <3>1, <3>2
  <2> QED
    BY <2>1, <2>2
<1> QED
  BY <1>6, <1>7, <1>8, <1>9

LEMMA ClaimKeeps ==
  ASSUME TypeInv, LoopsOwn, Apart, NoOrphan, NEW l \in Loop, Claim(l)
  PROVE  LoopsOwn' /\ Apart' /\ DownIsIdle' /\ NoOrphan'
<1> PICK j \in Job :
      /\ ClaimRow(j)
      /\ loops' = [loops EXCEPT ![l] =
           [Resting EXCEPT !.at = IF status[j] = "queued_detection" THEN "load" ELSE "reload",
                           !.job = j, !.auto = auto[j]]]
  BY DEF Claim
<1>0. Doing(l, "idle") /\ worker = "running" /\ worker' = worker
  BY DEF Claim, Calm
<1>1. /\ \A m \in Loop \ {l} : loops'[m] = loops[m]
      /\ loops'[l].job = j
      /\ loops'[l].at = IF status[j] = "queued_detection" THEN "load" ELSE "reload"
  BY DEF TypeInv, TypeOK, WorkerTypeOK, Resting
<1>2. /\ status[j] \in Queued
      /\ UNCHANGED due
      /\ \A i \in Job \ {j} : status'[i] = status[i]
      /\ status'[j] = IF status[j] = "queued_detection" THEN "detecting" ELSE "redacting"
  BY DEF ClaimRow, SetStatus, TypeInv, TypeOK, StoreTypeOK
<1>3. \A m \in Loop : ~Doing(m, "idle") => loops[m].job # j
  BY <1>2, StageInFlight
  DEF LoopsOwn, Owns, Queued, InFlight, Tombstone, TypeInv, TypeOK, WorkerTypeOK, LoopState, Doing
<1>4. Owns(l)' /\ ~Doing(l, "idle")'
  <2>1. StageOf("load") = {"detecting"} /\ StageOf("reload") = {"redacting"}
    BY Stages DEF DetectStep, RedactStep
  <2> QED
    BY <1>1, <1>2, <2>1 DEF Owns, Doing
<1>5. ASSUME NEW m \in Loop \ {l}
      PROVE  IF Doing(m, "idle")' THEN loops'[m].job = None ELSE Owns(m)'
  <2>1. IF Doing(m, "idle") THEN loops[m].job = None ELSE Owns(m) /\ loops[m].job # j
    BY <1>3 DEF LoopsOwn
  <2> QED
    BY <1>1, <1>2, <2>1 DEF Owns, Doing
<1>6. LoopsOwn'
  BY <1>4, <1>5 DEF LoopsOwn
<1>7. Apart'
  BY <1>1, <1>3 DEF Apart, Doing
<1>8. DownIsIdle'
  BY <1>0 DEF DownIsIdle
<1>9. NoOrphan'
  <2> SUFFICES ASSUME NEW i \in Job, i # j, status'[i] \in InFlight
               PROVE  (\E m \in Loop : loops'[m].job = i) \/ due'[i]
    BY <1>1 DEF NoOrphan
  <2>1. (\E m \in Loop : loops[m].job = i) \/ due[i]
    BY <1>0, <1>2 DEF NoOrphan
  <2>2. loops[l].job # i
    BY <1>0, StoreAssumption DEF LoopsOwn
  <2> QED
    BY <1>1, <1>2, <2>1, <2>2
<1> QED
  BY <1>6, <1>7, <1>8, <1>9

LEMMA ProcessKeeps ==
  ASSUME TypeInv, LoopsOwn, Apart, DownIsIdle, NoOrphan, ProcessNext
  PROVE  LoopsOwn' /\ Apart' /\ DownIsIdle' /\ NoOrphan'
<1> USE DEF Doing
<1>1. CASE WorkerStops
  <2>1. /\ UNCHANGED <<rowVars, loops>>
        /\ worker' # "down" /\ worker # "down"
    BY <1>1 DEF WorkerStops, storeVars
  <2>2. LoopsOwn' /\ Apart' /\ DownIsIdle'
    BY <2>1 DEF rowVars, LoopsOwn, Owns, Apart, DownIsIdle
  <2>3. NoOrphan'
    BY <2>1 DEF rowVars, NoOrphan
  <2> QED
    BY <2>2, <2>3
<1>2. CASE WorkerExits \/ WorkerCrashes
  <2>1. worker' = "down" /\ loops' = [l \in Loop |-> Resting]
    BY <1>2 DEF WorkerExits, WorkerCrashes, ProcessEnds
  <2> QED
    BY <2>1 DEF LoopsOwn, Apart, DownIsIdle, NoOrphan, Resting
<1>3. CASE WorkerStarts
  <2>1. worker = "down" /\ worker' = "running" /\ RequeueRows /\ UNCHANGED <<loops, due>>
    BY <1>3 DEF WorkerStarts, RequeueRows
  <2>2. \A l \in Loop : loops'[l].at = "idle" /\ loops'[l].job = None
    BY <2>1 DEF LoopsOwn, DownIsIdle
  <2>3. \A j \in Job : status'[j] \notin InFlight
    BY <2>1 DEF RequeueRows, InFlight
  <2> QED
    BY <2>1, <2>2, <2>3 DEF LoopsOwn, Apart, DownIsIdle, NoOrphan
<1> QED
  BY <1>1, <1>2, <1>3 DEF ProcessNext

\* Only the first step of finalize takes note of a status.
LEMMA FinalizeReadKept ==
  ASSUME TypeInv, FinalizeRead, NEW c \in Caller,
         NEW new \in Call, calls' = [calls EXCEPT ![c] = new],
         \/ new.at \notin {"manifest", "approve", "write", "queue"}
         \/ new.was \in Reviewable
         \/ new.was = calls[c].was /\ calls[c].at \in {"manifest", "approve", "write", "queue"}
  PROVE  FinalizeRead'
BY DEF FinalizeRead, TypeInv, TypeOK, ServiceTypeOK

LEMMA ReturnKeeps ==
  ASSUME TypeInv, FinalizeRead, NEW c \in Caller, Return(c)
  PROVE  FinalizeRead'
BY DEF Return, NoCall, FinalizeRead, TypeInv, TypeOK, ServiceTypeOK

LEMMA ProceedKeeps ==
  ASSUME TypeInv, FinalizeRead, NEW c \in Caller, NEW step, Proceed(c, step),
         step \notin {"manifest", "approve", "write", "queue"} \/ In(c, "approve") \/ In(c, "write")
  PROVE  FinalizeRead'
BY DEF Proceed, In, FinalizeRead, TypeInv, TypeOK, ServiceTypeOK, Call

LEMMA CallOnIsNoFinalize ==
  ASSUME NEW j, NEW step
  PROVE  CallOn(j, step).at = step
BY DEF CallOn, NoCall

LEMMA RequireJobKeeps ==
  ASSUME TypeInv, FinalizeRead, NEW c \in Caller, NEW kind, NEW j, NEW next, RequireJob(c, kind, j, next),
         due[j] \/ next.at \notin {"manifest", "approve", "write", "queue"} \/ next.was \in Reviewable
  PROVE  FinalizeRead'
BY CallOnIsNoFinalize DEF RequireJob, FinalizeRead, TypeInv, TypeOK, ServiceTypeOK

LEMMA ExpireReads ==
  ASSUME TypeInv, FinalizeRead, NEW c \in Caller, ExpireNext(c)
  PROVE  FinalizeRead'
BY ReturnKeeps, ProceedKeeps DEF ExpireNext, ExpireMarks, ExpireSweeps, ExpireSeals

LEMMA ClientReads ==
  ASSUME TypeInv, FinalizeRead, NEW c \in Client, ClientNext(c)
  PROVE  FinalizeRead'
<1>0. c \in Caller
  BY DEF Caller
<1>1. ASSUME NEW j \in Job, CreateJob(c, j)
      PROVE  FinalizeRead'
  BY <1>1 DEF CreateJob, serviceVars, FinalizeRead
<1>2. ASSUME NEW j \in Job, Poll(c, j) \/ Upload(c, j) \/ Submit(c, j)
      PROVE  FinalizeRead'
  <2>1. NoCall.at = "idle" /\ CallOn(j, "stream").at = "stream" /\ CallOn(j, "head").at = "head"
    BY CallOnIsNoFinalize DEF NoCall
  <2> QED
    BY <1>0, <1>2, <2>1, RequireJobKeeps DEF Poll, Upload, Submit
<1>3. ASSUME NEW j \in Job, Finalize(c, j)
      PROVE  FinalizeRead'
  <2> DEFINE next == [at |-> "manifest", job |-> j, was |-> status[j], review |-> reviews[j] + 1]
  <2>1. RequireJob(c, "finalize", j, next) /\ (due[j] \/ status[j] \in Reviewable)
    BY <1>3 DEF Finalize
  <2>2. next.was = status[j]
    OBVIOUS
  <2> HIDE DEF next
  <2> QED
    BY <1>0, <2>1, <2>2, RequireJobKeeps
<1>4. ASSUME NEW j \in Job, Delete(c, j)
      PROVE  FinalizeRead'
  <2> DEFINE new == CallOn(j, IF status[j] = "deleted" THEN "purge" ELSE "tombstone")
  <2>1. new.at \in {"purge", "tombstone"}
    BY CallOnIsNoFinalize
  <2>2. calls' = [calls EXCEPT ![c] = new]
    BY <1>4 DEF Delete
  <2> HIDE DEF new
  <2> QED
    BY <1>0, <2>1, <2>2 DEF FinalizeRead, TypeInv, TypeOK, ServiceTypeOK
<1>5. CASE FinalizeReadsManifest(c)
  <2> DEFINE j == calls[c].job
             new == [calls[c] EXCEPT !.at = "approve"]
  <2>1. CASE calls' = [calls EXCEPT ![c] = new]
    <3>1. calls[c] \in Call /\ calls[c].at = "manifest"
      BY <1>0, <1>5 DEF FinalizeReadsManifest, In, TypeInv, TypeOK, ServiceTypeOK
    <3>2. new \in Call /\ new.was = calls[c].was
      BY <3>1 DEF Call, CallStep
    <3> HIDE DEF new
    <3> QED
      BY <1>0, <2>1, <3>1, <3>2, FinalizeReadKept
  <2>2. CASE calls' = [calls EXCEPT ![c] = NoCall]
    BY <1>0, <2>2, ReturnKeeps DEF Return
  <2>3. CASE calls' = [calls EXCEPT ![c] = CallOn(j, "mark")]
    BY <1>0, <2>3, CallOnIsNoFinalize DEF FinalizeRead, TypeInv, TypeOK, ServiceTypeOK
  <2>4. \/ calls' = [calls EXCEPT ![c] = new]
        \/ calls' = [calls EXCEPT ![c] = NoCall]
        \/ calls' = [calls EXCEPT ![c] = CallOn(j, "mark")]
    BY <1>5, Zenon DEF FinalizeReadsManifest
  <2> QED
    BY <2>1, <2>2, <2>3, <2>4
<1>6. CASE ExpireNext(c)
  BY <1>0, <1>6, ExpireReads
<1>7. CASE \/ UploadBreaks(c) \/ UploadOpens(c) \/ UploadCloses(c)
           \/ SubmitReadsInput(c) \/ SubmitRejects(c) \/ SubmitRefuses(c) \/ SubmitAccepts(c)
           \/ FinalizeOpensManifest(c) \/ FinalizeClosesManifest(c) \/ FinalizeQueues(c)
           \/ DeleteMarks(c) \/ DeletePurges(c) \/ CallDies(c)
  BY <1>0, <1>7, ReturnKeeps, ProceedKeeps
  DEF UploadBreaks, UploadOpens, UploadCloses, SubmitReadsInput, SubmitRejects, SubmitRefuses,
      SubmitAccepts, FinalizeOpensManifest, FinalizeClosesManifest, FinalizeQueues, DeleteMarks, DeletePurges, CallDies
<1> QED
  BY <1>1, <1>2, <1>3, <1>4, <1>5, <1>6, <1>7 DEF ClientNext, ClientStarts, CallContinues

LEMMA CleanupReads ==
  ASSUME TypeInv, FinalizeRead, Cleanup
  PROVE  FinalizeRead'
<1>0. Cleaner \in Caller
  BY DEF Caller
<1>1. CASE CleanupLists
  BY <1>1 DEF CleanupLists, FinalizeRead
<1>2. CASE CleanupExpires
  <2> PICK row \in batch :
        calls' = [calls EXCEPT ![Cleaner] = CallOn(row[1], IF row[2] THEN "sweep" ELSE "mark")]
    BY <1>2 DEF CleanupExpires
  <2> DEFINE new == CallOn(row[1], IF row[2] THEN "sweep" ELSE "mark")
  <2>1. new.at \in {"sweep", "mark"}
    BY CallOnIsNoFinalize
  <2>2. calls' = [calls EXCEPT ![Cleaner] = new]
    OBVIOUS
  <2> HIDE DEF new
  <2> QED
    BY <1>0, <2>1, <2>2 DEF FinalizeRead, TypeInv, TypeOK, ServiceTypeOK
<1> QED
  BY <1>0, <1>1, <1>2, ExpireReads DEF Cleanup, CleanerNext

LEMMA WorkerReads ==
  ASSUME TypeInv, FinalizeRead, (\E l \in Loop : LoopNext(l)) \/ ProcessNext \/ ClockNext \/ UNCHANGED vars
  PROVE  FinalizeRead'
<1>0. Cleaner \in Caller
  BY DEF Caller
<1>1. CASE UNCHANGED calls
  BY <1>1 DEF FinalizeRead
<1>2. CASE WorkerExits \/ WorkerCrashes
  <2>1. Return(Cleaner)
    BY <1>2 DEF WorkerExits, WorkerCrashes, ProcessEnds, Return
  <2> QED
    BY <1>0, <2>1, ReturnKeeps
<1>3. ASSUME NEW l \in Loop, LoopNext(l)
      PROVE  UNCHANGED calls
  BY <1>3 DEF LoopNext, Calm, serviceVars, Claim, LoadForDetect, RecordPages, CheckBeforePreview,
     PutPreview, Detect, RecordFindings, PutDraft, PutApproved, HandOff, LoadForRedact, FetchManifest,
     Render, OutputOpens, OutputCloses, MarkComplete, LostRace, LostPurges, FailLooks, FailErases,
     FailAmends, ReleaseJob
<1>4. CASE WorkerStops \/ WorkerStarts \/ ClockNext \/ UNCHANGED vars
  BY <1>1, <1>4 DEF WorkerStops, WorkerStarts, ClockNext, vars, serviceVars
<1> QED
  BY <1>1, <1>2, <1>3, <1>4 DEF ProcessNext

LEMMA LoopKeeps ==
  ASSUME TypeInv, LoopsOwn, Apart, DownIsIdle, NoOrphan, NEW l \in Loop, LoopNext(l)
  PROVE  /\ LoopsOwn' /\ Apart' /\ DownIsIdle' /\ NoOrphan'
         /\ \A j \in Job : status[j] \in Tombstone => status'[j] \in Tombstone
<1>1. CASE Claim(l)
  <2>1. \A j \in Job : status[j] \in Tombstone => status'[j] \in Tombstone
    BY <1>1
    DEF Claim, ClaimRow, SetStatus, Queued, Tombstone, TypeInv, TypeOK, StoreTypeOK
  <2> QED
    BY <1>1, <2>1, ClaimKeeps
<1>2. CASE ~Claim(l)
  <2>1. LoopStepEffect(l)
    BY <1>2, DetectEffects, RedactEffects, FaultEffects DEF LoopNext
  <2>2. ~Doing(l, "idle")
    BY <1>2 DEF LoopNext, Doing, LoadForDetect, RecordPages, CheckBeforePreview, PutPreview, Detect,
       RecordFindings, PutDraft, PutApproved, HandOff, LoadForRedact, FetchManifest, Render,
       OutputOpens, OutputCloses, MarkComplete, LostRace, LostPurges, FailLooks, FailErases,
       FailAmends, ReleaseJob
  <2>3. \A j \in Job : status[j] \in Tombstone => status'[j] \in Tombstone
    BY <2>1 DEF LoopStepEffect
  <2> QED
    BY <2>1, <2>2, <2>3, LoopStepKeeps
<1> QED
  BY <1>1, <1>2

LEMMA OwnerStep ==
  ASSUME OwnerInv, [Next]_vars
  PROVE  /\ OwnerInv'
         /\ \A j \in Job : status[j] \in Tombstone => status'[j] \in Tombstone
<1> USE DEF OwnerInv
<1>0. TypeInv'
  BY TypeStep
<1>1. ASSUME OutsideStep
      PROVE  \A j \in Job : status[j] \in Tombstone => status'[j] \in Tombstone
  BY <1>1 DEF OutsideStep
<1>2. ASSUME NEW c \in Client, ClientNext(c)
      PROVE  OutsideStep /\ UNCHANGED workerVars /\ FinalizeRead'
  BY <1>2, ClientOutside, ClientReads DEF ClientNext
<1>3. ASSUME NEW l \in Loop, LoopNext(l)
      PROVE  /\ OwnerInv'
             /\ \A j \in Job : status[j] \in Tombstone => status'[j] \in Tombstone
  BY <1>0, <1>3, LoopKeeps, WorkerReads
<1>4. CASE ProcessNext
  <2>1. \A j \in Job : status[j] \in Tombstone => status'[j] \in Tombstone
    BY <1>4
    DEF ProcessNext, WorkerStops, WorkerExits, WorkerCrashes, WorkerStarts, ProcessEnds, RequeueRows,
        storeVars, rowVars, Tombstone
  <2> QED
    BY <1>0, <1>4, <2>1, ProcessKeeps, WorkerReads
<1>5. CASE Cleanup
  <2>1. OutsideStep /\ UNCHANGED workerVars /\ FinalizeRead'
    BY <1>5, CleanupOutside, CleanupReads DEF Cleanup
  <2> QED
    BY <1>0, <1>1, <2>1, OutsideKeeps
<1>6. CASE ClockNext \/ UNCHANGED vars
  <2>1. OutsideStep /\ UNCHANGED workerVars
    BY <1>6, ClockOutside, SameRowsOutside DEF ClockNext, vars, storeVars
  <2> QED
    BY <1>0, <1>1, <1>6, <2>1, OutsideKeeps, WorkerReads
<1> QED
  BY <1>0, <1>1, <1>2, <1>3, <1>4, <1>5, <1>6, OutsideKeeps DEF Next

LEMMA OwnerInvariant == Spec => []OwnerInv
<1>1. Init => OwnerInv
  BY TypeInit, OwnerInit DEF OwnerInv
<1>2. OwnerInv /\ [Next]_vars => OwnerInv'
  BY OwnerStep
<1> QED
  BY <1>1, <1>2, PTL DEF Spec

\* A row in flight is worked on by one loop at most, and that loop is in the
\* stage the row says it is in, unless a deletion overtook it.
THEOREM SingleOwnerAlways == Spec => []SingleOwner
<1>1. OwnerInv => SingleOwner
  BY DEF OwnerInv, LoopsOwn, Owns, Apart, SingleOwner
<1> QED
  BY <1>1, OwnerInvariant, PTL

\* No row stays in flight with nobody to work on it: it has a loop, or its
\* deadline has passed, or the worker is down and will requeue it.
THEOREM NoOrphanAlways == Spec => []NoOrphan
<1>1. OwnerInv => NoOrphan
  BY DEF OwnerInv
<1> QED
  BY <1>1, OwnerInvariant, PTL

\* Nothing brings a deleted or expired job back to life: no late write of a
\* loop, a submit, a finalize, or the requeueing of interrupted jobs.
THEOREM TombstoneStays == Spec => TombstoneForever
<1>1. OwnerInv /\ [Next]_vars =>
        [\A j \in Job : status[j] \in Tombstone => status'[j] \in Tombstone]_vars
  BY OwnerStep
<1> QED
  BY <1>1, OwnerInvariant, PTL DEF Spec, TombstoneForever
=============================================================================
