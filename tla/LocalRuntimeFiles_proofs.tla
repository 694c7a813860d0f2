---------------------- MODULE LocalRuntimeFiles_proofs ----------------------
(***************************************************************************)
(* What is behind a job's status: the theorems about LocalRuntime that     *)
(* speak of reviews and files, and that the deployment keeps JobContract.  *)
(***************************************************************************)
EXTENDS LocalRuntime_proofs

USE StoreAssumption, ServiceAssumption, WorkerAssumption

-----------------------------------------------------------------------------
(* Calls and rows.  Whatever calls overlap and whatever faults happen, a   *)
(* call is on a job that has a row, and one that erases files is on a job  *)
(* that was buried.                                                        *)

ReviewStep == {"manifest", "approve", "write", "queue"}
EraseStep  == {"purge", "sweep", "seal"}

\* What is known of a call, the status column being rows.
Placed(call, rows) ==
  /\ call.at = "idle" => call.job = None
  /\ call.at # "idle" => call.job \in Job /\ rows[call.job] # "none"
  /\ call.at \in EraseStep => rows[call.job] \in Tombstone
  /\ call.at \in ReviewStep => call.review > 0

CallsPlaced == \A c \in Caller : Placed(calls[c], status)

\* What is known of the rows the cleaner listed.
RowsListed == \A row \in batch :
  status[row[1]] # "none" /\ (row[2] => status[row[1]] \in Tombstone)

\* Rows are never taken out of the table, and tombstones stay.
RowsStay == \A j \in Job :
  /\ status[j] # "none" => status'[j] # "none"
  /\ status[j] \in Tombstone => status'[j] \in Tombstone

LEMMA SetStatusNamed ==
  ASSUME TypeInv, NEW j, NEW new \in JobStatus, SetStatus(j, new), NEW i \in Job, status[i] # "none"
  PROVE  status'[i] # "none"
BY DEF SetStatus, JobStatus, Queued, InFlight, Tombstone, TypeInv, TypeOK, StoreTypeOK

LEMMA ExpireNamed ==
  ASSUME TypeInv, NEW c \in Caller, ExpireNext(c), NEW i \in Job, status[i] # "none"
  PROVE  status'[i] # "none"
<1>0. Tombstone \subseteq JobStatus /\ Tombstone = {"deleted", "expired"}
  BY DEF Tombstone, JobStatus
<1> QED
  BY <1>0, SetStatusNamed
  DEF ExpireNext, ExpireMarks, ExpireSweeps, ExpireSeals, BuryRow, MoveRow, rowVars

LEMMA ClientNamed ==
  ASSUME TypeInv, NEW c \in Client, ClientNext(c), NEW i \in Job, status[i] # "none"
  PROVE  status'[i] # "none"
<1>0. /\ c \in Caller
      /\ {"awaiting_upload", "failed", "queued_detection", "queued_redaction", "deleted"} \subseteq JobStatus
  BY DEF Caller, JobStatus, Queued, Tombstone
<1>1. ASSUME NEW j \in Job, CreateJob(c, j)
      PROVE  status'[i] # "none"
  BY <1>0, <1>1, SetStatusNamed DEF CreateJob, InsertRow
<1>2. ASSUME NEW j \in Job,
             Poll(c, j) \/ Upload(c, j) \/ Submit(c, j) \/ Finalize(c, j) \/ Delete(c, j)
      PROVE  status'[i] # "none"
  BY <1>2 DEF Poll, Upload, Submit, Finalize, Delete, RequireJob, storeVars, rowVars
<1>3. CASE \/ UploadBreaks(c) \/ UploadOpens(c) \/ UploadCloses(c)
           \/ SubmitReadsInput(c) \/ SubmitRejects(c)
           \/ FinalizeReadsManifest(c) \/ FinalizeOpensManifest(c) \/ FinalizeClosesManifest(c)
           \/ DeletePurges(c)
           \/ CallDies(c)
  BY <1>3
  DEF UploadBreaks, UploadOpens, UploadCloses, SubmitReadsInput, SubmitRejects,
      FinalizeReadsManifest, FinalizeOpensManifest, FinalizeClosesManifest, DeletePurges, CallDies,
      storeVars, rowVars
<1>4. CASE SubmitRefuses(c) \/ SubmitAccepts(c) \/ FinalizeQueues(c) \/ DeleteMarks(c)
  BY <1>0, <1>4, SetStatusNamed
  DEF SubmitRefuses, SubmitAccepts, FinalizeQueues, DeleteMarks, BuryRow, MoveRow, rowVars
<1>5. CASE ExpireNext(c)
  BY <1>0, <1>5, ExpireNamed
<1> QED
  BY <1>1, <1>2, <1>3, <1>4, <1>5 DEF ClientNext, ClientStarts, CallContinues

LEMMA LoopNamed ==
  ASSUME TypeInv, NEW l \in Loop, LoopNext(l), NEW i \in Job, status[i] # "none"
  PROVE  status'[i] # "none"
<1>0. {"redacting", "detecting", "review_required", "complete", "failed", "queued_detection"} \subseteq JobStatus
  BY DEF JobStatus, Queued, InFlight
<1>1. CASE Claim(l)
  BY <1>0, <1>1, SetStatusNamed DEF Claim, ClaimRow
<1>2. CASE HandOff(l) \/ MarkComplete(l) \/ FailAmends(l) \/ ReleaseJob(l)
  BY <1>0, <1>2, SetStatusNamed DEF HandOff, MarkComplete, FailAmends, ReleaseJob, MoveRow, rowVars
<1>3. CASE \/ LoadForDetect(l) \/ RecordPages(l) \/ CheckBeforePreview(l) \/ PutPreview(l)
           \/ Detect(l) \/ RecordFindings(l) \/ PutDraft(l) \/ PutApproved(l)
           \/ LoadForRedact(l) \/ FetchManifest(l) \/ Render(l) \/ OutputOpens(l) \/ OutputCloses(l)
           \/ LostRace(l) \/ LostPurges(l) \/ FailLooks(l) \/ FailErases(l)
  BY <1>3
  DEF LoadForDetect, RecordPages, CheckBeforePreview, PutPreview, Detect, RecordFindings, PutDraft,
      PutApproved, LoadForRedact, FetchManifest, Render, OutputOpens, OutputCloses, LostRace,
      LostPurges, FailLooks, FailErases, storeVars, rowVars
<1> QED
  BY <1>1, <1>2, <1>3 DEF LoopNext

LEMMA RowsStayAlways ==
  ASSUME OwnerInv, [Next]_vars
  PROVE  RowsStay
<1> SUFFICES ASSUME NEW i \in Job, status[i] # "none"
             PROVE  status'[i] # "none"
  BY OwnerStep DEF RowsStay
<1>0. TypeInv /\ Cleaner \in Caller
  BY DEF OwnerInv, Caller
<1>1. CASE ProcessNext
  BY <1>1
  DEF ProcessNext, WorkerStops, WorkerExits, WorkerCrashes, WorkerStarts, ProcessEnds, RequeueRows,
      storeVars, rowVars
<1>2. CASE Cleanup
  BY <1>0, <1>2, ExpireNamed
  DEF Cleanup, CleanerNext, CleanupLists, CleanupExpires, storeVars, rowVars
<1>3. CASE ClockNext \/ UNCHANGED vars
  BY <1>3 DEF ClockNext, Deadline, vars, storeVars, rowVars
<1> QED
  BY <1>0, <1>1, <1>2, <1>3, ClientNamed, LoopNamed DEF Next

\* The step of one call: what is known of the others outlives it.
LEMMA PlacedKept ==
  ASSUME TypeInv, CallsPlaced, RowsStay, NEW c \in Caller, NEW new,
         calls' = [calls EXCEPT ![c] = new], Placed(new, status')
  PROVE  CallsPlaced'
<1>1. ASSUME NEW d \in Caller \ {c}
      PROVE  calls'[d] = calls[d] /\ Placed(calls[d], status')
  BY DEF CallsPlaced, Placed, RowsStay, TypeInv, TypeOK, ServiceTypeOK, EraseStep
<1>2. calls'[c] = new
  BY DEF TypeInv, TypeOK, ServiceTypeOK
<1> QED
  BY <1>1, <1>2 DEF CallsPlaced

LEMMA ReturnPlaced ==
  ASSUME TypeInv, CallsPlaced, RowsStay, NEW c \in Caller, Return(c)
  PROVE  CallsPlaced'
<1>1. Placed(NoCall, status')
  BY DEF Placed, NoCall, EraseStep, ReviewStep
<1> QED
  BY <1>1, PlacedKept DEF Return

LEMMA ProceedPlaced ==
  ASSUME TypeInv, CallsPlaced, RowsStay, NEW c \in Caller, NEW step \in CallStep, Proceed(c, step),
         step # "idle", ~In(c, "idle"),
         step \in EraseStep => status'[calls[c].job] \in Tombstone,
         step \in ReviewStep => calls[c].at \in ReviewStep
  PROVE  CallsPlaced'
<1> DEFINE new == [calls[c] EXCEPT !.at = step]
<1>1. calls[c] \in Call
  BY DEF TypeInv, TypeOK, ServiceTypeOK
<1>2. new.at = step /\ new.job = calls[c].job /\ new.review = calls[c].review
  BY <1>1 DEF Call
<1>3. calls' = [calls EXCEPT ![c] = new]
  BY DEF Proceed
<1>4. Placed(calls[c], status)
  BY DEF CallsPlaced
<1> HIDE DEF new
<1>5. Placed(new, status')
  BY <1>2, <1>4 DEF Placed, In, RowsStay
<1> QED
  BY <1>3, <1>5, PlacedKept

LEMMA CallOnPlaced ==
  ASSUME NEW j \in Job, NEW step, step # "idle", step \notin ReviewStep, NEW rows, rows[j] # "none",
         step \in EraseStep => rows[j] \in Tombstone
  PROVE  Placed(CallOn(j, step), rows)
BY DEF Placed, CallOn, NoCall

LEMMA RequireJobPlaced ==
  ASSUME TypeInv, CallsPlaced, RowsStay, NEW c \in Caller, NEW kind, NEW j \in Job, NEW next,
         RequireJob(c, kind, j, next), Placed(next, status)
  PROVE  CallsPlaced'
<1>1. status[j] # "none" /\ status' = status
  BY DEF RequireJob, storeVars, rowVars, Live, JobStatus, Queued, InFlight
<1>2. Placed(CallOn(j, "mark"), status)
  BY <1>1, CallOnPlaced DEF EraseStep, ReviewStep
<1> QED
  BY <1>1, <1>2, PlacedKept DEF RequireJob

LEMMA ExpirePlaced ==
  ASSUME TypeInv, CallsPlaced, RowsStay, NEW c \in Caller, ExpireNext(c)
  PROVE  CallsPlaced'
<1> DEFINE j == calls[c].job
<1>0. {"sweep", "seal"} \subseteq CallStep /\ {"sweep", "seal"} \cap ReviewStep = {} /\ EraseStep = {"purge", "sweep", "seal"}
  BY DEF CallStep, ReviewStep, EraseStep
<1>1. CASE ExpireMarks(c)
  <2>1. j \in Job
    BY <1>1 DEF ExpireMarks, In, CallsPlaced, Placed
  <2>2. status'[j] \in Tombstone
    BY <1>1, <2>1 DEF ExpireMarks, BuryRow, SetStatus, Tombstone, TypeInv, TypeOK, StoreTypeOK
  <2> QED
    BY <1>0, <1>1, <2>2, ProceedPlaced DEF ExpireMarks, In
<1>2. CASE ExpireSweeps(c)
  <2>1. status'[j] \in Tombstone
    BY <1>0, <1>2 DEF ExpireSweeps, In, CallsPlaced, Placed, rowVars
  <2> QED
    BY <1>0, <1>2, <2>1, ProceedPlaced, ReturnPlaced DEF ExpireSweeps, In
<1>3. CASE ExpireSeals(c)
  BY <1>3, ReturnPlaced DEF ExpireSeals
<1> QED
  BY <1>1, <1>2, <1>3 DEF ExpireNext

LEMMA ClientStartsPlaced ==
  ASSUME TypeInv, CallsPlaced, RowsStay, NEW c \in Client, ClientStarts(c)
  PROVE  CallsPlaced'
<1>0. c \in Caller
  BY DEF Caller
<1> PICK j \in Job : \/ CreateJob(c, j) \/ Poll(c, j) \/ Upload(c, j)
                      \/ Submit(c, j) \/ Finalize(c, j) \/ Delete(c, j)
  BY DEF ClientStarts
<1>1. CASE CreateJob(c, j)
  BY <1>1 DEF CreateJob, serviceVars, CallsPlaced, Placed, RowsStay, EraseStep
<1>2. ASSUME status[j] \in Live
      PROVE  /\ Placed(NoCall, status)
             /\ Placed(CallOn(j, "stream"), status) /\ Placed(CallOn(j, "head"), status)
  BY <1>2, CallOnPlaced
  DEF Placed, NoCall, Live, JobStatus, Queued, InFlight, EraseStep, ReviewStep
<1>3. CASE Poll(c, j) \/ Upload(c, j) \/ Submit(c, j)
  BY <1>0, <1>2, <1>3, RequireJobPlaced DEF Poll, Upload, Submit, RequireJob
<1>4. CASE Finalize(c, j)
  <2> DEFINE next == [at |-> "manifest", job |-> j, was |-> status[j], review |-> reviews[j] + 1]
  <2>1. reviews[j] + 1 > 0
    BY DEF TypeInv, TypeOK, ServiceTypeOK, Review
  <2>2. status[j] # "none"
    BY <1>4 DEF Finalize, RequireJob, Live, JobStatus, Queued, InFlight
  <2>3. Placed(next, status)
    BY <2>1, <2>2 DEF Placed, EraseStep
  <2>4. RequireJob(c, "finalize", j, next)
    BY <1>4 DEF Finalize
  <2> HIDE DEF next
  <2> QED
    BY <1>0, <2>3, <2>4, RequireJobPlaced
<1>5. CASE Delete(c, j)
  <2> DEFINE step == IF status[j] = "deleted" THEN "purge" ELSE "tombstone"
  <2>1. status[j] # "none" /\ status' = status
    BY <1>5 DEF Delete, storeVars, rowVars
  <2>2. Placed(CallOn(j, step), status')
    BY <2>1, CallOnPlaced DEF EraseStep, ReviewStep, Tombstone
  <2>3. calls' = [calls EXCEPT ![c] = CallOn(j, step)]
    BY <1>5 DEF Delete
  <2> HIDE DEF step
  <2> QED
    BY <1>0, <2>2, <2>3, PlacedKept
<1> QED
  BY <1>1, <1>3, <1>4, <1>5

LEMMA ClientPlaced ==
  ASSUME TypeInv, CallsPlaced, RowsStay, NEW c \in Client, ClientNext(c)
  PROVE  CallsPlaced'
<1> DEFINE j == calls[c].job
<1>0. /\ c \in Caller
      /\ {"copy", "reject", "accept", "refuse", "write", "queue", "purge"} \subseteq CallStep
      /\ EraseStep = {"purge", "sweep", "seal"}
      /\ ReviewStep = {"manifest", "approve", "write", "queue"}
  BY DEF Caller, CallStep, EraseStep, ReviewStep
<1>1. CASE ClientStarts(c)
  BY <1>1, ClientStartsPlaced
<1>2. CASE UploadBreaks(c) \/ UploadOpens(c) \/ UploadCloses(c)
  BY <1>0, <1>2, ReturnPlaced, ProceedPlaced DEF UploadBreaks, UploadOpens, UploadCloses, In
<1>3. CASE SubmitReadsInput(c) \/ SubmitRejects(c) \/ SubmitRefuses(c) \/ SubmitAccepts(c)
  BY <1>0, <1>3, ReturnPlaced, ProceedPlaced
  DEF SubmitReadsInput, SubmitRejects, SubmitRefuses, SubmitAccepts, In
<1>4. CASE FinalizeReadsManifest(c)
  <2>1. /\ Placed(calls[c], status) /\ calls[c].at = "manifest" /\ status' = status
        /\ calls[c] \in Call
    BY <1>0, <1>4
    DEF FinalizeReadsManifest, In, CallsPlaced, storeVars, rowVars, TypeInv, TypeOK, ServiceTypeOK
  <2>2. CASE Proceed(c, "approve")
    BY <1>0, <2>1, <2>2, ProceedPlaced DEF In, CallStep
  <2>3. CASE Return(c)
    BY <1>0, <2>3, ReturnPlaced
  <2>4. CASE calls' = [calls EXCEPT ![c] = CallOn(j, "mark")]
    <3>1. Placed(CallOn(j, "mark"), status')
      BY <1>0, <2>1, CallOnPlaced DEF Placed
    <3> QED
      BY <1>0, <2>4, <3>1, PlacedKept
  <2> QED
    BY <1>4, <2>2, <2>3, <2>4, Zenon DEF FinalizeReadsManifest, Proceed, Return
<1>5. CASE FinalizeOpensManifest(c) \/ FinalizeClosesManifest(c) \/ FinalizeQueues(c)
  BY <1>0, <1>5, ReturnPlaced, ProceedPlaced
  DEF FinalizeOpensManifest, FinalizeClosesManifest, FinalizeQueues, In
<1>6. CASE DeleteMarks(c)
  <2>1. j \in Job
    BY <1>0, <1>6 DEF DeleteMarks, In, CallsPlaced, Placed
  <2>2. status'[j] \in Tombstone
    BY <1>6, <2>1 DEF DeleteMarks, BuryRow, SetStatus, Tombstone, TypeInv, TypeOK, StoreTypeOK
  <2> QED
    BY <1>0, <1>6, <2>2, ProceedPlaced DEF DeleteMarks, In
<1>7. CASE DeletePurges(c) \/ CallDies(c)
  BY <1>0, <1>7, ReturnPlaced DEF DeletePurges, CallDies
<1>8. CASE ExpireNext(c)
  BY <1>0, <1>8, ExpirePlaced
<1> QED
  BY <1>1, <1>2, <1>3, <1>4, <1>5, <1>6, <1>7, <1>8 DEF ClientNext, CallContinues

LEMMA CleanupPlaced ==
  ASSUME TypeInv, CallsPlaced, RowsListed, RowsStay, Cleanup
  PROVE  CallsPlaced' /\ RowsListed'
<1>0. Cleaner \in Caller
  BY DEF Caller
<1>1. CASE CleanupLists
  <2>1. UNCHANGED <<calls, status>> /\ batch' = {<<j, status[j] = "deleted">> : j \in ExpiredRows}
    BY <1>1 DEF CleanupLists, storeVars, rowVars
  <2>2. \A row \in batch' : \E j \in ExpiredRows : row[1] = j /\ row[2] = (status[j] = "deleted")
    BY <2>1
  <2> QED
    BY <2>1, <2>2 DEF ExpiredRows, CallsPlaced, RowsListed, Tombstone
<1>2. CASE CleanupExpires
  <2> PICK row \in batch :
        /\ batch' = batch \ {row}
        /\ calls' = [calls EXCEPT ![Cleaner] = CallOn(row[1], IF row[2] THEN "sweep" ELSE "mark")]
    BY <1>2 DEF CleanupExpires
  <2> DEFINE step == IF row[2] THEN "sweep" ELSE "mark"
  <2>1. row[1] \in Job /\ row[2] \in BOOLEAN /\ status' = status
    BY <1>2 DEF CleanupExpires, storeVars, rowVars, TypeInv, TypeOK, ServiceTypeOK
  <2>2. Placed(CallOn(row[1], step), status')
    BY <2>1, CallOnPlaced DEF RowsListed, EraseStep, ReviewStep
  <2>3. calls' = [calls EXCEPT ![Cleaner] = CallOn(row[1], step)]
    OBVIOUS
  <2> HIDE DEF step
  <2> QED
    BY <1>0, <2>1, <2>2, <2>3, PlacedKept DEF RowsListed
<1>3. CASE ExpireNext(Cleaner)
  <2>1. UNCHANGED batch
    BY <1>3 DEF ExpireNext, ExpireMarks, ExpireSweeps, ExpireSeals
  <2>2. \A row \in batch : row[1] \in Job
    BY DEF TypeInv, TypeOK, ServiceTypeOK
  <2> QED
    BY <1>0, <1>3, <2>1, <2>2, ExpirePlaced DEF RowsListed, RowsStay
<1> QED
  BY <1>1, <1>2, <1>3 DEF Cleanup, CleanerNext

\* Steps that leave the calls and the cleaner's list alone, or end them.
LEMMA StillPlaced ==
  ASSUME TypeInv, CallsPlaced, RowsListed, RowsStay, batch' \subseteq batch,
         UNCHANGED calls \/ Return(Cleaner)
  PROVE  CallsPlaced' /\ RowsListed'
<1>1. CallsPlaced'
  BY ReturnPlaced DEF Caller, CallsPlaced, Placed, RowsStay, EraseStep
<1>2. \A row \in batch : row[1] \in Job
  BY DEF TypeInv, TypeOK, ServiceTypeOK
<1> QED
  BY <1>1, <1>2 DEF RowsListed, RowsStay

LEMMA LoopSparesCalls ==
  ASSUME NEW l \in Loop, LoopNext(l)
  PROVE  UNCHANGED <<calls, batch, reviews, accepted>>
BY DEF LoopNext, Calm, serviceVars, Claim, LoadForDetect, RecordPages, CheckBeforePreview,
   PutPreview, Detect, RecordFindings, PutDraft, PutApproved, HandOff, LoadForRedact, FetchManifest,
   Render, OutputOpens, OutputCloses, MarkComplete, LostRace, LostPurges, FailLooks, FailErases,
   FailAmends, ReleaseJob

LEMMA ProcessSparesCalls ==
  ASSUME ProcessNext
  PROVE  /\ batch' \subseteq batch
         /\ UNCHANGED calls \/ Return(Cleaner)
         /\ UNCHANGED <<reviews, accepted, store>>
BY DEF ProcessNext, WorkerStops, WorkerExits, WorkerCrashes, WorkerStarts, ProcessEnds, Return,
   serviceVars, storeVars

LEMMA ClientSparesBatch ==
  ASSUME NEW c \in Client, ClientNext(c)
  PROVE  UNCHANGED batch
BY DEF ClientNext, ClientStarts, CallContinues, CreateJob, Poll, Upload, Submit, Finalize, Delete,
   RequireJob, UploadBreaks, UploadOpens, UploadCloses, SubmitReadsInput, SubmitRejects,
   SubmitRefuses, SubmitAccepts, FinalizeReadsManifest, FinalizeOpensManifest,
   FinalizeClosesManifest, FinalizeQueues, DeleteMarks, DeletePurges, ExpireNext, ExpireMarks,
   ExpireSweeps, ExpireSeals, CallDies, serviceVars

PlaceInv == OwnerInv /\ CallsPlaced /\ RowsListed

LEMMA PlaceStep ==
  ASSUME PlaceInv, [Next]_vars
  PROVE  PlaceInv' /\ RowsStay
<1>0. OwnerInv' /\ RowsStay /\ TypeInv
  BY OwnerStep, RowsStayAlways DEF PlaceInv, OwnerInv
<1>1. ASSUME NEW c \in Client, ClientNext(c)
      PROVE  CallsPlaced' /\ RowsListed'
  <2>1. \A row \in batch : row[1] \in Job
    BY <1>0 DEF TypeInv, TypeOK, ServiceTypeOK
  <2> QED
    BY <1>0, <1>1, <2>1, ClientPlaced, ClientSparesBatch DEF PlaceInv, RowsListed, RowsStay
<1>2. ASSUME NEW l \in Loop, LoopNext(l)
      PROVE  CallsPlaced' /\ RowsListed'
  BY <1>0, <1>2, LoopSparesCalls, StillPlaced DEF PlaceInv
<1>3. CASE ProcessNext
  BY <1>0, <1>3, ProcessSparesCalls, StillPlaced DEF PlaceInv
<1>4. CASE Cleanup
  BY <1>0, <1>4, CleanupPlaced DEF PlaceInv
<1>5. CASE ClockNext \/ UNCHANGED vars
  BY <1>0, <1>5, StillPlaced DEF PlaceInv, ClockNext, vars, serviceVars
<1> QED
  BY <1>0, <1>1, <1>2, <1>3, <1>4, <1>5 DEF PlaceInv, Next

LEMMA PlaceInit == Init => CallsPlaced /\ RowsListed
BY DEF Init, ServiceInit, CallsPlaced, RowsListed, Placed, NoCall, EraseStep, ReviewStep

LEMMA PlaceInvariant == Spec => []PlaceInv
<1>1. Init => PlaceInv
  BY TypeInit, OwnerInit, PlaceInit DEF PlaceInv, OwnerInv
<1>2. PlaceInv /\ [Next]_vars => PlaceInv'
  BY PlaceStep
<1> QED
  BY <1>1, <1>2, PTL DEF Spec

-----------------------------------------------------------------------------
(* Reviews.  A loop keeps the auto_finalize it read when it claimed the    *)
(* job; the row's is changed by a finalize only, which needs a status no   *)
(* loop works under, so that the two agree until the loop hands the job on.*)

AutoAsClaimed == \A l \in Loop :
  loops[l].at \in DetectStep /\ status[loops[l].job] \notin Tombstone =>
    loops[l].auto = auto[loops[l].job]

Approvable == {"queued_redaction", "redacting", "complete"}

ReviewInv == PlaceInv /\ AutoAsClaimed /\ ManualJobReviewed

\* What a step of a call, the cleaner or the clock may do to job j: nothing,
\* bury it, or move a row no loop works on, to be rendered only when reviewed.
ReviewOutside == \A j \in Job :
  \/ status'[j] = status[j] /\ auto'[j] = auto[j] /\ accepted'[j] = accepted[j]
  \/ status'[j] \in Tombstone
  \/ status[j] \notin InFlight /\ (status'[j] \in Approvable => accepted'[j] > 0)

LEMMA BuryReviewOutside ==
  ASSUME TypeInv, NEW j, BuryRow(j), UNCHANGED accepted
  PROVE  ReviewOutside
BY DEF BuryRow, SetStatus, ReviewOutside, Tombstone, TypeInv, TypeOK, StoreTypeOK

LEMMA SameReviewOutside ==
  ASSUME UNCHANGED <<status, auto, accepted>>
  PROVE  ReviewOutside
BY DEF ReviewOutside

LEMMA ExpireReviewOutside ==
  ASSUME TypeInv, NEW c \in Caller, ExpireNext(c)
  PROVE  ReviewOutside
<1>1. CASE ExpireMarks(c)
  BY <1>1, BuryReviewOutside DEF ExpireMarks
<1>2. CASE ExpireSweeps(c)
  BY <1>2, SameReviewOutside DEF ExpireSweeps, rowVars
<1>3. CASE ExpireSeals(c)
  BY <1>3
  DEF ExpireSeals, rowVars, MoveRow, SetStatus, ReviewOutside, Tombstone, TypeInv, TypeOK, StoreTypeOK
<1> QED
  BY <1>1, <1>2, <1>3 DEF ExpireNext

LEMMA ClientReviewOutside ==
  ASSUME TypeInv, FinalizeRead, CallsPlaced, NEW c \in Client, ClientNext(c)
  PROVE  ReviewOutside
<1>0. c \in Caller
  BY DEF Caller
<1>1. ASSUME NEW j \in Job, CreateJob(c, j)
      PROVE  ReviewOutside
  <2>1. /\ status[j] = "none" /\ status' = [status EXCEPT ![j] = "awaiting_upload"]
        /\ \A i \in Job \ {j} : auto'[i] = auto[i]
        /\ UNCHANGED accepted
    BY <1>1 DEF CreateJob, InsertRow, SetStatus, serviceVars, TypeInv, TypeOK, StoreTypeOK
  <2> QED
    BY <2>1 DEF ReviewOutside, InFlight, Approvable, TypeInv, TypeOK, StoreTypeOK
<1>2. ASSUME NEW j \in Job,
             Poll(c, j) \/ Upload(c, j) \/ Submit(c, j) \/ Finalize(c, j) \/ Delete(c, j)
      PROVE  ReviewOutside
  BY <1>2, SameReviewOutside
  DEF Poll, Upload, Submit, Finalize, Delete, RequireJob, storeVars, rowVars
<1>3. CASE \/ UploadBreaks(c) \/ UploadOpens(c) \/ UploadCloses(c)
           \/ SubmitReadsInput(c) \/ SubmitRejects(c)
           \/ FinalizeReadsManifest(c) \/ FinalizeOpensManifest(c) \/ FinalizeClosesManifest(c)
           \/ DeletePurges(c)
           \/ CallDies(c)
  BY <1>3, SameReviewOutside
  DEF UploadBreaks, UploadOpens, UploadCloses, SubmitReadsInput, SubmitRejects,
      FinalizeReadsManifest, FinalizeOpensManifest, FinalizeClosesManifest, DeletePurges, CallDies,
      storeVars, rowVars
<1>4. CASE SubmitRefuses(c) \/ SubmitAccepts(c)
  BY <1>4
  DEF SubmitRefuses, SubmitAccepts, MoveRow, SetStatus, Allows, rowVars, ReviewOutside, InFlight,
      Approvable, TypeInv, TypeOK, StoreTypeOK
<1>5. CASE FinalizeQueues(c)
  <2> DEFINE j == calls[c].job
  <2>1. CASE Allows(j, {calls[c].was})
    <3>1. j \in Job /\ status[j] \in Reviewable /\ calls[c].review > 0
      BY <1>0, <1>5, <2>1
      DEF FinalizeQueues, In, FinalizeRead, Allows, CallsPlaced, Placed, ReviewStep
    <3>2. /\ status' = [status EXCEPT ![j] = "queued_redaction"]
          /\ auto' = [auto EXCEPT ![j] = FALSE]
          /\ accepted' = [accepted EXCEPT ![j] = calls[c].review]
      BY <1>5, <2>1 DEF FinalizeQueues, SetStatus
    <3> HIDE DEF j
    <3> QED
      BY <3>1, <3>2
      DEF ReviewOutside, Reviewable, InFlight, TypeInv, TypeOK, StoreTypeOK, ServiceTypeOK
  <2>2. CASE ~Allows(j, {calls[c].was})
    BY <1>5, <2>2, SameReviewOutside DEF FinalizeQueues, rowVars
  <2> QED
    BY <2>1, <2>2
<1>6. CASE DeleteMarks(c)
  BY <1>6, BuryReviewOutside DEF DeleteMarks
<1>7. CASE ExpireNext(c)
  BY <1>0, <1>7, ExpireReviewOutside
<1> QED
  BY <1>1, <1>2, <1>3, <1>4, <1>5, <1>6, <1>7 DEF ClientNext, ClientStarts, CallContinues

LEMMA CleanupReviewOutside ==
  ASSUME TypeInv, Cleanup
  PROVE  ReviewOutside
<1>0. Cleaner \in Caller
  BY DEF Caller
<1>1. CASE CleanupLists \/ CleanupExpires
  BY <1>1, SameReviewOutside DEF CleanupLists, CleanupExpires, storeVars, rowVars
<1> QED
  BY <1>0, <1>1, ExpireReviewOutside DEF Cleanup, CleanerNext

LEMMA ReviewOutsideKeeps ==
  ASSUME ReviewInv, RowsStay, ReviewOutside, UNCHANGED loops
  PROVE  AutoAsClaimed' /\ ManualJobReviewed'
<1>1. ManualJobReviewed'
  BY DEF ReviewInv, ManualJobReviewed, ReviewOutside, Approvable, Tombstone
<1>2. ASSUME NEW l \in Loop, loops[l].at \in DetectStep, status'[loops[l].job] \notin Tombstone
      PROVE  loops[l].auto = auto'[loops[l].job]
  <2>1. Owns(l) /\ StageOf(loops[l].at) = {"detecting"}
    BY <1>2, Stages DEF ReviewInv, PlaceInv, OwnerInv, LoopsOwn, Doing, DetectStep
  <2>2. loops[l].job \in Job /\ status[loops[l].job] = "detecting"
    BY <1>2, <2>1 DEF Owns, RowsStay
  <2> QED
    BY <1>2, <2>2 DEF ReviewInv, AutoAsClaimed, ReviewOutside, InFlight, Tombstone
<1> QED
  BY <1>1, <1>2 DEF AutoAsClaimed

\* What the step of loop l, on job j, does to what reviews are about.
ReviewLoopStep(l, j) ==
  /\ UNCHANGED <<auto, accepted>>
  /\ \A m \in Loop \ {l} : loops'[m] = loops[m]
  /\ \A i \in Job : i # j => status'[i] = status[i]
  /\ status'[j] \in Approvable => status[j] \in Approvable \/ auto[j]
  /\ loops'[l].at \in DetectStep =>
       loops'[l].job = j /\ (status[j] \notin Tombstone => loops'[l].auto = auto[j])

\* A step that leaves the loop's job and its auto_finalize alone.
LEMMA LoopReviewStep ==
  ASSUME ReviewInv, NEW l \in Loop, loops[l].job \in Job, UNCHANGED <<auto, accepted>>,
         \/ \E step \in LoopStep : Goto(l, step) /\ (step \in DetectStep => loops[l].at \in DetectStep)
         \/ \E e \in Error : Raise(l, e)
         \/ Rest(l),
         \/ UNCHANGED status
         \/ \E allowed, new : /\ MoveRow(loops[l].job, allowed, new)
                              /\ Allows(loops[l].job, allowed)
                              /\ new \in Approvable => allowed \subseteq Approvable \/ auto[loops[l].job]
  PROVE  ReviewLoopStep(l, loops[l].job)
<1> DEFINE j == loops[l].job
<1>1. loops \in [Loop -> LoopState] /\ status \in [Job -> JobStatus \cup {"none"}]
  BY DEF ReviewInv, PlaceInv, OwnerInv, TypeInv, TypeOK, WorkerTypeOK, StoreTypeOK
<1>2. \A m \in Loop \ {l} : loops'[m] = loops[m]
  BY <1>1 DEF Goto, Raise, Rest
<1>3. loops'[l].at \in DetectStep =>
        loops[l].at \in DetectStep /\ loops'[l].job = j /\ loops'[l].auto = loops[l].auto
  BY <1>1 DEF Goto, Raise, Rest, Resting, LoopState, DetectStep
<1>4. \A i \in Job : i # j => status'[i] = status[i]
  BY <1>1 DEF MoveRow, SetStatus
<1>5. status'[j] \in Approvable => status[j] \in Approvable \/ auto[j]
  BY <1>1 DEF MoveRow, SetStatus, Allows
<1> QED
  BY <1>2, <1>3, <1>4, <1>5 DEF ReviewLoopStep, ReviewInv, AutoAsClaimed

LEMMA LoopReviews ==
  ASSUME ReviewInv, NEW l \in Loop, LoopNext(l), ~Claim(l)
  PROVE  ReviewLoopStep(l, loops[l].job)
<1> DEFINE j == loops[l].job
<1>0. /\ ~Doing(l, "idle") /\ j \in Job
      /\ DetectStep \cup RedactStep \cup FaultStep \subseteq LoopStep
      /\ Error = {"none", "cancelled", "validation", "other"}
      /\ UNCHANGED accepted
  <2>1. ~Doing(l, "idle")
    BY DEF LoopNext, Doing, LoadForDetect, RecordPages, CheckBeforePreview, PutPreview, Detect,
       RecordFindings, PutDraft, PutApproved, HandOff, LoadForRedact, FetchManifest, Render,
       OutputOpens, OutputCloses, MarkComplete, LostRace, LostPurges, FailLooks, FailErases,
       FailAmends, ReleaseJob
  <2> QED
    BY <2>1, LoopSparesCalls DEF ReviewInv, PlaceInv, OwnerInv, LoopsOwn, Owns, LoopStep, Error
<1>1. CASE \/ LoadForDetect(l) \/ RecordPages(l) \/ CheckBeforePreview(l)
           \/ Detect(l) \/ RecordFindings(l) \/ PutDraft(l) \/ PutApproved(l)
           \/ LoadForRedact(l) \/ Render(l) \/ OutputOpens(l) \/ OutputCloses(l)
           \/ LostRace(l) \/ LostPurges(l) \/ FailErases(l)
  <2>1. UNCHANGED <<status, auto>>
    BY <1>1
    DEF LoadForDetect, RecordPages, CheckBeforePreview, Detect, RecordFindings, PutDraft,
        PutApproved, LoadForRedact, Render, OutputOpens, OutputCloses, LostRace, LostPurges,
        FailErases, storeVars, rowVars
  <2>2. \/ \E step \in LoopStep : Goto(l, step) /\ (step \in DetectStep => loops[l].at \in DetectStep)
        \/ \E e \in Error : Raise(l, e)
        \/ Rest(l)
    BY <1>0, <1>1
    DEF LoadForDetect, RecordPages, CheckBeforePreview, Detect, RecordFindings, PutDraft,
        PutApproved, LoadForRedact, Render, OutputOpens, OutputCloses, LostRace, LostPurges,
        FailErases, GotoIf, GotoIfActive, Doing, DetectStep, RedactStep, FaultStep
  <2> QED
    BY <1>0, <2>1, <2>2, LoopReviewStep
<1>2. CASE PutPreview(l) \/ FetchManifest(l) \/ FailLooks(l)
  <2>1. loops \in [Loop -> LoopState]
    BY DEF ReviewInv, PlaceInv, OwnerInv, TypeInv, TypeOK, WorkerTypeOK
  <2>2. UNCHANGED <<status, auto>>
    BY <1>2 DEF PutPreview, FetchManifest, FailLooks, storeVars, rowVars
  <2>3. /\ \A m \in Loop \ {l} : loops'[m] = loops[m]
        /\ loops'[l].at \in DetectStep =>
             loops[l].at \in DetectStep /\ loops'[l].job = j /\ loops'[l].auto = loops[l].auto
    BY <1>2, <2>1
    DEF PutPreview, FetchManifest, FailLooks, Doing, Goto, Raise, Rest, Resting, LoopState, DetectStep
  <2> QED
    BY <1>0, <2>2, <2>3 DEF ReviewLoopStep, ReviewInv, AutoAsClaimed
<1>3. CASE HandOff(l)
  <2>1. status[j] = "detecting" => loops[l].auto = auto[j]
    BY <1>3 DEF ReviewInv, AutoAsClaimed, HandOff, Doing, DetectStep, Tombstone
  <2>2. /\ Goto(l, "render") \/ Rest(l) \/ Raise(l, "other")
        /\ UNCHANGED auto
        /\ \/ UNCHANGED status
           \/ /\ Allows(j, {"detecting"})
              /\ \/ loops[l].auto /\ MoveRow(j, {"detecting"}, "redacting")
                 \/ MoveRow(j, {"detecting"}, "review_required")
    BY <1>3 DEF HandOff, MoveRow, rowVars
  <2>3. "render" \in LoopStep /\ "render" \notin DetectStep /\ "review_required" \notin Approvable
    BY <1>0 DEF DetectStep, RedactStep, Approvable
  <2> QED
    BY <1>0, <2>1, <2>2, <2>3, LoopReviewStep DEF Allows
<1>4. CASE MarkComplete(l)
  <2>1. /\ Rest(l) \/ Goto(l, "lost")
        /\ UNCHANGED auto
        /\ UNCHANGED status \/ (Allows(j, {"redacting"}) /\ MoveRow(j, {"redacting"}, "complete"))
    BY <1>4 DEF MarkComplete, MoveRow, rowVars
  <2>2. "lost" \in LoopStep /\ "lost" \notin DetectStep /\ {"redacting"} \subseteq Approvable
    BY <1>0 DEF DetectStep, FaultStep, Approvable
  <2> QED
    BY <1>0, <2>1, <2>2, LoopReviewStep
<1>5. CASE FailAmends(l) \/ ReleaseJob(l)
  <2>1. /\ Rest(l) /\ UNCHANGED auto
        /\ UNCHANGED status \/ \E allowed : \E new \in {"review_required", "failed", "queued_detection"} :
             Allows(j, allowed) /\ MoveRow(j, allowed, new)
    BY <1>5 DEF FailAmends, ReleaseJob, MoveRow, rowVars
  <2>2. {"review_required", "failed", "queued_detection"} \cap Approvable = {}
    BY DEF Approvable
  <2> QED
    BY <1>0, <2>1, <2>2, LoopReviewStep
<1> QED
  BY <1>1, <1>2, <1>3, <1>4, <1>5 DEF LoopNext

LEMMA ClaimReviews ==
  ASSUME ReviewInv, NEW l \in Loop, Claim(l)
  PROVE  \E j \in Job : ReviewLoopStep(l, j)
<1> PICK j \in Job :
      /\ ClaimRow(j)
      /\ loops' = [loops EXCEPT ![l] =
           [Resting EXCEPT !.at = IF status[j] = "queued_detection" THEN "load" ELSE "reload",
                           !.job = j, !.auto = auto[j]]]
  BY DEF Claim
<1>1. loops \in [Loop -> LoopState] /\ status \in [Job -> JobStatus \cup {"none"}]
  BY DEF ReviewInv, PlaceInv, OwnerInv, TypeInv, TypeOK, WorkerTypeOK, StoreTypeOK
<1>2. \A m \in Loop \ {l} : loops'[m] = loops[m]
  BY <1>1
<1>3. loops'[l].job = j /\ loops'[l].auto = auto[j]
  BY <1>1 DEF Resting
<1>4. \A i \in Job : i # j => status'[i] = status[i]
  BY <1>1 DEF ClaimRow, SetStatus
<1>5. status'[j] \in Approvable => status[j] \in Approvable
  BY <1>1 DEF ClaimRow, SetStatus, Queued, Approvable
<1>6. UNCHANGED <<auto, accepted>>
  BY DEF Claim, Calm, ClaimRow, serviceVars
<1> QED
  BY <1>2, <1>3, <1>4, <1>5, <1>6 DEF ReviewLoopStep

LEMMA LoopReviewKeeps ==
  ASSUME ReviewInv, RowsStay, NEW l \in Loop, NEW j \in Job, ReviewLoopStep(l, j)
  PROVE  AutoAsClaimed' /\ ManualJobReviewed'
<1>1. ManualJobReviewed'
  BY DEF ReviewInv, ManualJobReviewed, ReviewLoopStep, Approvable
<1>2. ASSUME NEW m \in Loop, loops'[m].at \in DetectStep, status'[loops'[m].job] \notin Tombstone
      PROVE  loops'[m].auto = auto'[loops'[m].job]
  <2>1. CASE m = l
    BY <1>2, <2>1 DEF ReviewLoopStep, RowsStay
  <2>2. CASE m # l
    <3>1. loops[m].job \in Job
      BY <1>2, <2>2
      DEF ReviewLoopStep, ReviewInv, PlaceInv, OwnerInv, LoopsOwn, Owns, Doing, DetectStep
    <3> QED
      BY <1>2, <2>2, <3>1 DEF ReviewLoopStep, ReviewInv, AutoAsClaimed, RowsStay
  <2> QED
    BY <2>1, <2>2
<1> QED
  BY <1>1, <1>2 DEF AutoAsClaimed

LEMMA ProcessReviews ==
  ASSUME ReviewInv, ProcessNext
  PROVE  AutoAsClaimed' /\ ManualJobReviewed'
<1>1. CASE WorkerStops
  BY <1>1
  DEF WorkerStops, storeVars, rowVars, ReviewInv, AutoAsClaimed, ManualJobReviewed
<1>2. CASE WorkerExits \/ WorkerCrashes
  BY <1>2
  DEF WorkerExits, WorkerCrashes, ProcessEnds, Resting, DetectStep, storeVars, rowVars, ReviewInv,
      AutoAsClaimed, ManualJobReviewed
<1>3. CASE WorkerStarts
  <2>1. \A l \in Loop : loops'[l].at = "idle"
    BY <1>3 DEF WorkerStarts, ReviewInv, PlaceInv, OwnerInv, DownIsIdle, Doing
  <2>2. /\ UNCHANGED <<auto, accepted>>
        /\ \A j \in Job : status'[j] \in Approvable => status[j] \in Approvable
    BY <1>3 DEF WorkerStarts, RequeueRows, serviceVars, Approvable
  <2> QED
    BY <2>1, <2>2 DEF ReviewInv, AutoAsClaimed, ManualJobReviewed, Approvable, DetectStep
<1> QED
  BY <1>1, <1>2, <1>3 DEF ProcessNext

LEMMA ReviewStepKeeps ==
  ASSUME ReviewInv, [Next]_vars
  PROVE  ReviewInv'
<1>0. PlaceInv' /\ RowsStay /\ TypeInv /\ FinalizeRead /\ CallsPlaced
  BY PlaceStep DEF ReviewInv, PlaceInv, OwnerInv
<1>1. ASSUME NEW c \in Client, ClientNext(c)
      PROVE  ReviewInv'
  BY <1>0, <1>1, ClientReviewOutside, ReviewOutsideKeeps DEF ClientNext, workerVars, ReviewInv
<1>2. ASSUME NEW l \in Loop, LoopNext(l)
      PROVE  ReviewInv'
  <2>1. CASE Claim(l)
    BY <1>0, <2>1, ClaimReviews, LoopReviewKeeps DEF ReviewInv
  <2>2. CASE ~Claim(l)
    <3>1. ReviewLoopStep(l, loops[l].job)
      BY <1>2, <2>2, LoopReviews
    <3>2. loops[l].job \in Job
      <4>1. ~Doing(l, "idle")
        BY <1>2, <2>2
        DEF LoopNext, Doing, LoadForDetect, RecordPages, CheckBeforePreview, PutPreview, Detect,
            RecordFindings, PutDraft, PutApproved, HandOff, LoadForRedact, FetchManifest, Render,
            OutputOpens, OutputCloses, MarkComplete, LostRace, LostPurges, FailLooks, FailErases,
            FailAmends, ReleaseJob
      <4> QED
        BY <4>1 DEF ReviewInv, PlaceInv, OwnerInv, LoopsOwn, Owns
    <3> QED
      BY <1>0, <3>1, <3>2, LoopReviewKeeps DEF ReviewInv
  <2> QED
    BY <2>1, <2>2
<1>3. CASE ProcessNext
  BY <1>0, <1>3, ProcessReviews DEF ReviewInv
<1>4. CASE Cleanup
  BY <1>0, <1>4, CleanupReviewOutside, ReviewOutsideKeeps DEF Cleanup, workerVars, ReviewInv
<1>5. CASE ClockNext \/ UNCHANGED vars
  <2>1. UNCHANGED <<status, auto, accepted, loops>>
    BY <1>5 DEF ClockNext, Deadline, vars, storeVars, rowVars, serviceVars, workerVars
  <2> QED
    BY <1>0, <2>1, SameReviewOutside, ReviewOutsideKeeps DEF ReviewInv
<1> QED
  BY <1>1, <1>2, <1>3, <1>4, <1>5 DEF Next, ReviewInv

LEMMA ReviewInvariant == Spec => []ReviewInv
<1>1. Init => ReviewInv
  <2>1. Init => AutoAsClaimed
    BY DEF Init, WorkerInit, AutoAsClaimed, Resting, DetectStep
  <2>2. Init => ManualJobReviewed
    BY DEF Init, StoreInit, ManualJobReviewed
  <2> QED
    BY <2>1, <2>2, TypeInit, OwnerInit, PlaceInit DEF ReviewInv, PlaceInv, OwnerInv
<1>2. ReviewInv /\ [Next]_vars => ReviewInv'
  BY ReviewStepKeeps
<1> QED
  BY <1>1, <1>2, PTL DEF Spec

\* A job nobody asked to be redacted automatically reaches the renderer and
\* its output only after a person approved its boxes, whatever calls overlap
\* and whatever the worker, the stores and the clock do.
THEOREM ManualJobsAreReviewed == Spec => []ManualJobReviewed
<1>1. ReviewInv => ManualJobReviewed
  BY DEF ReviewInv
<1> QED
  BY <1>1, ReviewInvariant, PTL

-----------------------------------------------------------------------------
(* Late writes.  A deletion does not stop the loop that is on the job, and *)
(* what the loop writes after the files were swept it has to remove itself.*)
(* Where no erasure fails half way and no loop is cut short, it does.      *)

NothingCutShort == Faults \cap {"storage_error", "detector_down", "worker_crash"} = {}

\* The loops that may still write for job j; one at "amend" will not.
Writing(j) == \E l \in Loop : loops[l].job = j /\ loops[l].at \notin {"idle", "amend"}

\* The files of job j were swept after it was buried.
Swept(j) == status[j] = "expired" \/ \E c \in Caller : In(c, "seal") /\ calls[c].job = j

Clean(j) == \A k \in {"preview", "draft", "output"} : ~Stored(j, k)

LateWritesErased == \A j \in Job : Swept(j) /\ ~Writing(j) => Clean(j)

NoRelease == \A l \in Loop : ~Doing(l, "release")

CleanInv == PlaceInv /\ NoRelease /\ LateWritesErased

\* What a step of a call, the cleaner or the clock may do to job j: sweep its
\* files, or leave both them and the sweep that was under way.
CleanOutside == \A j \in Job :
  Clean(j)' \/ ((Clean(j) => Clean(j)') /\ (Swept(j)' => Swept(j)))

\* A call that does not get to the end of a sweep.
LEMMA NoSealKeepsClean ==
  ASSUME TypeInv, NEW c \in Caller, NEW new, calls' = [calls EXCEPT ![c] = new], new.at # "seal",
         NEW j \in Job, status'[j] = "expired" => Swept(j), Clean(j) => Clean(j)'
  PROVE  Clean(j)' \/ ((Clean(j) => Clean(j)') /\ (Swept(j)' => Swept(j)))
<1>1. calls'[c] = new /\ \A d \in Caller \ {c} : calls'[d] = calls[d]
  BY DEF TypeInv, TypeOK, ServiceTypeOK
<1>2. Swept(j)' => Swept(j)
  BY <1>1 DEF Swept, In
<1> QED
  BY <1>2

\* Everything such a call may write.
LEMMA OtherFilesKeepClean ==
  ASSUME TypeInv, NEW j, NEW k \in {"input", "approved"}, NEW v,
         Put(j, k, v) \/ CloseFile(j, k, v),
         NEW i \in Job, Clean(i)
  PROVE  Clean(i)'
<1>1. store \in [Job -> [Key -> Content]]
  BY DEF TypeInv, TypeOK, StoreTypeOK
<1>2. \A key \in {"preview", "draft", "output"} : store'[i][key] = store[i][key]
  BY <1>1 DEF Put, CloseFile, Key
<1> QED
  BY <1>2 DEF Clean, Stored

LEMMA SweepKeepsClean ==
  ASSUME TypeInv, NEW j \in Job, DeletePrefix(j)
  PROVE  Clean(j)' /\ \A i \in Job : Clean(i) => Clean(i)'
<1>1. store' = [store EXCEPT ![j] = NoFiles] /\ store \in [Job -> [Key -> Content]]
  BY DEF DeletePrefix, TypeInv, TypeOK, StoreTypeOK
<1>2. \A k \in {"preview", "draft", "output"} : NoFiles[k] = None
  BY DEF NoFiles, Key
<1> QED
  BY <1>1, <1>2 DEF Clean, Stored

LEMMA ExpireCleans ==
  ASSUME TypeInv, CallsPlaced, NothingCutShort, NEW c \in Caller, ExpireNext(c)
  PROVE  CleanOutside
<1> DEFINE j == calls[c].job
<1>0. calls[c] \in Call /\ NoCall.at = "idle"
  BY DEF TypeInv, TypeOK, ServiceTypeOK, NoCall
<1>1. CASE ExpireMarks(c)
  <2>1. calls' = [calls EXCEPT ![c] = [calls[c] EXCEPT !.at = "sweep"]]
    BY <1>1 DEF ExpireMarks, Proceed
  <2>2. [calls[c] EXCEPT !.at = "sweep"].at = "sweep"
    BY <1>0 DEF Call
  <2>3. \A i \in Job : (status'[i] = "expired" => Swept(i)) /\ (Clean(i) => Clean(i)')
    BY <1>1
    DEF ExpireMarks, BuryRow, SetStatus, Swept, Clean, Stored, TypeInv, TypeOK, StoreTypeOK
  <2> QED
    BY <2>1, <2>2, <2>3, NoSealKeepsClean DEF CleanOutside
<1>2. CASE ExpireSweeps(c)
  <2>1. DeletePrefix(j) /\ Proceed(c, "seal") /\ status' = status
    BY <1>2 DEF ExpireSweeps, NothingCutShort, Fault, rowVars
  <2>2. j \in Job
    BY <1>2 DEF ExpireSweeps, In, CallsPlaced, Placed
  <2>3. \A d \in Caller : calls'[d].job = calls[d].job /\ (d # c => calls'[d] = calls[d])
    BY <2>1 DEF Proceed, TypeInv, TypeOK, ServiceTypeOK, Call
  <2>4. \A i \in Job : i # j => (Swept(i)' => Swept(i))
    BY <2>1, <2>3 DEF Swept, In
  <2> QED
    BY <2>1, <2>2, <2>4, SweepKeepsClean DEF CleanOutside
<1>3. CASE ExpireSeals(c)
  <2>1. calls' = [calls EXCEPT ![c] = NoCall]
    BY <1>3 DEF ExpireSeals, Return
  <2>2. \A i \in Job : (status'[i] = "expired" => Swept(i)) /\ (Clean(i) => Clean(i)')
    BY <1>3
    DEF ExpireSeals, In, MoveRow, rowVars, SetStatus, Swept, Clean, Stored, TypeInv, TypeOK, StoreTypeOK
  <2> QED
    BY <1>0, <2>1, <2>2, NoSealKeepsClean DEF CleanOutside
<1> QED
  BY <1>1, <1>2, <1>3 DEF ExpireNext

LEMMA ClientCleans ==
  ASSUME TypeInv, CallsPlaced, NothingCutShort, NEW c \in Client, ClientNext(c)
  PROVE  CleanOutside
<1> DEFINE j == calls[c].job
<1>0. /\ c \in Caller /\ calls[c] \in Call /\ NoCall.at = "idle"
      /\ status \in [Job -> JobStatus \cup {"none"}]
  BY DEF Caller, TypeInv, TypeOK, StoreTypeOK, ServiceTypeOK, NoCall
<1>1. ASSUME NEW new, calls' = [calls EXCEPT ![c] = new], new.at # "seal",
             \A i \in Job : (status'[i] = "expired" => status[i] = "expired") /\ (Clean(i) => Clean(i)')
      PROVE  CleanOutside
  BY <1>0, <1>1, NoSealKeepsClean DEF CleanOutside, Swept
<1>2. ASSUME Return(c) \/ \E step \in CallStep \ {"seal"} : Proceed(c, step),
             \A i \in Job : (status'[i] = "expired" => status[i] = "expired") /\ (Clean(i) => Clean(i)')
      PROVE  CleanOutside
  <2>1. CASE Return(c)
    BY <1>0, <1>1, <1>2, <2>1 DEF Return
  <2>2. ASSUME NEW step \in CallStep \ {"seal"}, Proceed(c, step)
        PROVE  CleanOutside
    <3>1. [calls[c] EXCEPT !.at = step].at = step
      BY <1>0 DEF Call
    <3> QED
      BY <1>1, <1>2, <2>2, <3>1 DEF Proceed
  <2> QED
    BY <1>2, <2>1, <2>2
<1>3. ASSUME UNCHANGED status
      PROVE  \A i \in Job : status'[i] = "expired" => status[i] = "expired"
  BY <1>3
<1>4. ASSUME UNCHANGED store
      PROVE  \A i \in Job : Clean(i) => Clean(i)'
  BY <1>4 DEF Clean, Stored
<1>5. ASSUME NEW i \in Job, CreateJob(c, i)
      PROVE  CleanOutside
  BY <1>0, <1>4, <1>5 DEF CreateJob, InsertRow, SetStatus, serviceVars, CleanOutside, Swept, In
<1>6. ASSUME NEW i \in Job, Poll(c, i) \/ Upload(c, i) \/ Submit(c, i) \/ Finalize(c, i) \/ Delete(c, i)
      PROVE  CleanOutside
  <2>1. UNCHANGED <<status, store>>
    BY <1>6 DEF Poll, Upload, Submit, Finalize, Delete, RequireJob, storeVars, rowVars
  <2>2. \A step : CallOn(i, step).at = step
    BY CallOnIsNoFinalize
  <2>3. \E new : calls' = [calls EXCEPT ![c] = new] /\ new.at # "seal"
    <3>1. CASE Finalize(c, i)
      <4> DEFINE next == [at |-> "manifest", job |-> i, was |-> status[i], review |-> reviews[i] + 1]
                 new  == IF due[i] THEN CallOn(i, "mark") ELSE next
      <4>1. calls' = [calls EXCEPT ![c] = new]
        BY <3>1 DEF Finalize, RequireJob
      <4>2. next.at # "seal"
        OBVIOUS
      <4> HIDE DEF next
      <4>3. new.at # "seal"
        BY <2>2, <4>2
      <4> HIDE DEF new
      <4> QED
        BY <4>1, <4>3
    <3>2. CASE Delete(c, i)
      BY <2>2, <3>2 DEF Delete
    <3>3. CASE Poll(c, i) \/ Upload(c, i) \/ Submit(c, i)
      BY <1>0, <2>2, <3>3 DEF Poll, Upload, Submit, RequireJob
    <3> QED
      BY <1>6, <3>1, <3>2, <3>3
  <2> QED
    BY <1>1, <1>3, <1>4, <2>1, <2>3
<1>7. CASE UploadBreaks(c) \/ SubmitReadsInput(c) \/ CallDies(c)
  <2>1. UNCHANGED <<status, store>>
    BY <1>7 DEF UploadBreaks, SubmitReadsInput, CallDies, storeVars, rowVars
  <2>2. Return(c) \/ \E step \in CallStep \ {"seal"} : Proceed(c, step)
    BY <1>7 DEF UploadBreaks, SubmitReadsInput, CallDies, CallStep
  <2> QED
    BY <1>2, <1>3, <1>4, <2>1, <2>2
<1>8. CASE \/ UploadOpens(c) \/ UploadCloses(c) \/ FinalizeOpensManifest(c) \/ FinalizeClosesManifest(c)
  <2>1. \A i \in Job : Clean(i) => Clean(i)'
    BY <1>8, OtherFilesKeepClean
    DEF UploadOpens, UploadCloses, FinalizeOpensManifest, FinalizeClosesManifest, OpenFile
  <2>2. UNCHANGED status
    BY <1>8 DEF UploadOpens, UploadCloses, FinalizeOpensManifest, FinalizeClosesManifest, rowVars
  <2>3. Return(c) \/ \E step \in CallStep \ {"seal"} : Proceed(c, step)
    BY <1>8 DEF UploadOpens, UploadCloses, FinalizeOpensManifest, FinalizeClosesManifest, CallStep
  <2> QED
    BY <1>2, <1>3, <2>1, <2>2, <2>3
<1>9. CASE SubmitRejects(c) \/ DeletePurges(c)
  <2>1. DeletePrefix(j) /\ UNCHANGED status
    BY <1>9 DEF SubmitRejects, DeletePurges, NothingCutShort, Fault, rowVars
  <2>2. Return(c) \/ \E step \in CallStep \ {"seal"} : Proceed(c, step)
    BY <1>9 DEF SubmitRejects, DeletePurges, CallStep
  <2>3. j \in Job
    BY <1>0, <1>9 DEF SubmitRejects, DeletePurges, In, CallsPlaced, Placed
  <2> QED
    BY <1>2, <1>3, <2>1, <2>2, <2>3, SweepKeepsClean
<1>10. CASE SubmitRefuses(c) \/ SubmitAccepts(c) \/ FinalizeQueues(c) \/ DeleteMarks(c)
  <2>1. UNCHANGED store
    BY <1>10 DEF SubmitRefuses, SubmitAccepts, FinalizeQueues, DeleteMarks
  <2>2. Return(c) \/ \E step \in CallStep \ {"seal"} : Proceed(c, step)
    BY <1>10 DEF SubmitRefuses, SubmitAccepts, FinalizeQueues, DeleteMarks, CallStep
  <2>3. \/ UNCHANGED status
        \/ \E new \in {"failed", "queued_detection", "queued_redaction", "deleted"} : SetStatus(j, new)
    BY <1>10
    DEF SubmitRefuses, SubmitAccepts, FinalizeQueues, DeleteMarks, BuryRow, MoveRow, rowVars
  <2>4. \A i \in Job : status'[i] = "expired" => status[i] = "expired"
    BY <1>0, <2>3 DEF SetStatus
  <2> QED
    BY <1>2, <1>4, <2>1, <2>2, <2>4
<1>11. CASE FinalizeReadsManifest(c)
  <2>1. UNCHANGED <<status, store>>
    BY <1>11 DEF FinalizeReadsManifest, storeVars, rowVars
  <2>2. CASE calls' = [calls EXCEPT ![c] = CallOn(j, "mark")]
    <3>1. CallOn(j, "mark").at = "mark"
      BY CallOnIsNoFinalize
    <3> QED
      BY <1>1, <1>3, <1>4, <2>1, <2>2, <3>1
  <2>3. CASE Return(c) \/ Proceed(c, "approve")
    BY <1>2, <1>3, <1>4, <2>1, <2>3 DEF CallStep
  <2> QED
    BY <1>11, <2>2, <2>3, Zenon DEF FinalizeReadsManifest, Return, Proceed
<1>12. CASE ExpireNext(c)
  BY <1>0, <1>12, ExpireCleans
<1> QED
  BY <1>5, <1>6, <1>7, <1>8, <1>9, <1>10, <1>11, <1>12 DEF ClientNext, ClientStarts, CallContinues

LEMMA CleanupCleans ==
  ASSUME TypeInv, CallsPlaced, NothingCutShort, Cleanup
  PROVE  CleanOutside
<1>0. Cleaner \in Caller
  BY DEF Caller
<1>1. CASE CleanupLists
  BY <1>1 DEF CleanupLists, CleanOutside, Clean, Stored, Swept, In, storeVars, rowVars
<1>2. CASE CleanupExpires
  <2>1. PICK row \in batch :
          calls' = [calls EXCEPT ![Cleaner] = CallOn(row[1], IF row[2] THEN "sweep" ELSE "mark")]
    BY <1>2 DEF CleanupExpires
  <2> DEFINE new == CallOn(row[1], IF row[2] THEN "sweep" ELSE "mark")
  <2>2. new.at \in {"sweep", "mark"}
    BY CallOnIsNoFinalize
  <2>3. \A i \in Job : (status'[i] = "expired" => Swept(i)) /\ (Clean(i) => Clean(i)')
    BY <1>2 DEF CleanupExpires, storeVars, rowVars, Swept, Clean, Stored
  <2>4. calls' = [calls EXCEPT ![Cleaner] = new]
    BY <2>1
  <2> HIDE DEF new
  <2> QED
    BY <1>0, <2>2, <2>3, <2>4, NoSealKeepsClean DEF CleanOutside
<1> QED
  BY <1>0, <1>1, <1>2, ExpireCleans DEF Cleanup, CleanerNext

\* What the step of loop l does to job j, which it is on or claims: it still
\* works on it, or has swept its files, or rests before any sweep; and a loop
\* at "amend" writes no file.
CleanLoopStep(l, j) ==
  /\ \A m \in Loop \ {l} : loops'[m] = loops[m]
  /\ UNCHANGED calls
  /\ loops[l].job \in {j, None}
  /\ \A i \in Job : i # j => status'[i] = status[i] /\ store'[i] = store[i]
  /\ status'[j] = "expired" => status[j] = "expired"
  /\ \/ loops'[l].job = j /\ loops'[l].at \notin {"idle", "amend", "release"}
     \/ loops'[l].at # "release" /\ Clean(j)'
     \/ loops'[l].at # "release" /\ status[j] \notin Tombstone
     \/ loops'[l].at # "release" /\ loops[l].at = "amend" /\ UNCHANGED store

LEMMA LoopCleans ==
  ASSUME CleanInv, NothingCutShort, NEW l \in Loop, LoopNext(l)
  PROVE  \E j \in Job : CleanLoopStep(l, j)
<1> PICK j : j = loops[l].job
  OBVIOUS
<1>0. /\ loops \in [Loop -> LoopState] /\ status \in [Job -> JobStatus \cup {"none"}]
      /\ store \in [Job -> [Key -> Content]]
      /\ UNCHANGED calls
  BY LoopSparesCalls
  DEF CleanInv, PlaceInv, OwnerInv, TypeInv, TypeOK, WorkerTypeOK, StoreTypeOK
<1>1. ASSUME ~Doing(l, "idle")
      PROVE  j \in Job
  BY <1>1 DEF CleanInv, PlaceInv, OwnerInv, LoopsOwn, Owns
<1>2. CASE Claim(l)
  <2> PICK i \in Job :
        /\ ClaimRow(i)
        /\ loops' = [loops EXCEPT ![l] =
             [Resting EXCEPT !.at = IF status[i] = "queued_detection" THEN "load" ELSE "reload",
                             !.job = i, !.auto = auto[i]]]
    BY <1>2 DEF Claim
  <2>1. loops'[l].job = i /\ loops'[l].at \in {"load", "reload"}
    BY <1>0 DEF Resting
  <2>2. UNCHANGED store /\ loops[l].job = None
    BY <1>2 DEF Claim, CleanInv, PlaceInv, OwnerInv, LoopsOwn
  <2>3. \A m \in Loop \ {l} : loops'[m] = loops[m]
    BY <1>0
  <2>4. /\ \A k \in Job : k # i => status'[k] = status[k]
        /\ status'[i] # "expired"
    BY <1>0 DEF ClaimRow, SetStatus
  <2> QED
    BY <1>0, <2>1, <2>2, <2>3, <2>4 DEF CleanLoopStep
<1>3. ASSUME ~Doing(l, "idle"), UNCHANGED status, \A i \in Job : i # j => store'[i] = store[i],
             \/ \E step \in LoopStep \ {"idle", "amend", "release"} : Goto(l, step)
             \/ \E e \in Error : Raise(l, e)
             \/ Rest(l) /\ (Clean(j)' \/ status[j] \notin Tombstone)
      PROVE  \E i \in Job : CleanLoopStep(l, i)
  <2>1. \A m \in Loop \ {l} : loops'[m] = loops[m]
    BY <1>0, <1>3 DEF Goto, Raise, Rest
  <2>2. \/ loops'[l].job = j /\ loops'[l].at \notin {"idle", "amend", "release"}
        \/ loops'[l].at # "release" /\ Clean(j)'
        \/ loops'[l].at # "release" /\ status[j] \notin Tombstone
    BY <1>0, <1>3 DEF Goto, Raise, Rest, Resting, LoopState
  <2> QED
    BY <1>0, <1>1, <1>3, <2>1, <2>2 DEF CleanLoopStep
<1>4. ASSUME ~Doing(l, "idle"), UNCHANGED store,
             \/ \E step \in LoopStep \ {"idle", "amend", "release"} : Goto(l, step)
             \/ \E e \in Error : Raise(l, e)
             \/ Rest(l) /\ (status[j] \notin Tombstone \/ Doing(l, "amend")),
             \/ UNCHANGED status
             \/ \E new : new # "expired" /\ SetStatus(j, new)
      PROVE  \E i \in Job : CleanLoopStep(l, i)
  <2>1. \A m \in Loop \ {l} : loops'[m] = loops[m]
    BY <1>0, <1>4 DEF Goto, Raise, Rest
  <2>2. \/ loops'[l].job = j /\ loops'[l].at \notin {"idle", "amend", "release"}
        \/ loops'[l].at # "release" /\ status[j] \notin Tombstone
        \/ loops'[l].at # "release" /\ loops[l].at = "amend"
    BY <1>0, <1>4 DEF Goto, Raise, Rest, Resting, LoopState, Doing
  <2>3. /\ \A i \in Job : i # j => status'[i] = status[i]
        /\ status'[j] = "expired" => status[j] = "expired"
    BY <1>0, <1>4 DEF SetStatus
  <2> QED
    BY <1>0, <1>1, <1>4, <2>1, <2>2, <2>3 DEF CleanLoopStep
<1>5. Error = {"none", "cancelled", "validation", "other"}
  BY DEF Error
<1>6. LoopStep \ {"idle", "amend", "release"} =
        {"load", "pages", "check", "preview", "detect", "findings", "draft", "approve", "handoff",
         "reload", "fetch", "render", "open", "close", "complete", "lost", "purge", "fail", "erase"}
  BY DEF LoopStep, DetectStep, RedactStep, FaultStep
<1>7. CASE \/ LoadForDetect(l) \/ RecordPages(l) \/ CheckBeforePreview(l)
           \/ Detect(l) \/ RecordFindings(l)
           \/ LoadForRedact(l) \/ Render(l) \/ LostRace(l)
  <2>1. ~Doing(l, "idle") /\ UNCHANGED <<status, store>>
    BY <1>7
    DEF LoadForDetect, RecordPages, CheckBeforePreview, Detect, RecordFindings, LoadForRedact,
        Render, LostRace, Doing, storeVars, rowVars
  <2>2. \/ \E step \in LoopStep \ {"idle", "amend", "release"} : Goto(l, step)
        \/ \E e \in Error : Raise(l, e)
    BY <1>5, <1>6, <1>7
    DEF LoadForDetect, RecordPages, CheckBeforePreview, Detect, RecordFindings, LoadForRedact,
        Render, LostRace, GotoIf, GotoIfActive, NothingCutShort, Fault
  <2> QED
    BY <1>4, <2>1, <2>2
<1>8. CASE PutDraft(l) \/ PutApproved(l) \/ OutputOpens(l) \/ OutputCloses(l)
  <2>1. ~Doing(l, "idle") /\ UNCHANGED status
    BY <1>8 DEF PutDraft, PutApproved, OutputOpens, OutputCloses, Doing, rowVars
  <2>2. \A i \in Job : i # j => store'[i] = store[i]
    BY <1>0, <1>8 DEF PutDraft, PutApproved, OutputOpens, OutputCloses, Put, OpenFile, CloseFile
  <2>3. \E step \in LoopStep \ {"idle", "amend", "release"} : Goto(l, step)
    BY <1>6, <1>8 DEF PutDraft, PutApproved, OutputOpens, OutputCloses
  <2> QED
    BY <1>3, <2>1, <2>2, <2>3
<1>9. CASE PutPreview(l)
  <2>1. ~Doing(l, "idle") /\ UNCHANGED status
    BY <1>9 DEF PutPreview, Doing, rowVars
  <2>2. \A i \in Job : i # j => store'[i] = store[i]
    BY <1>0, <1>9 DEF PutPreview, Put
  <2>3. /\ loops'[l].job = j /\ loops'[l].at \in {"check", "detect"}
        /\ \A m \in Loop \ {l} : loops'[m] = loops[m]
    BY <1>0, <1>9 DEF PutPreview, LoopState
  <2> QED
    BY <1>0, <1>1, <2>1, <2>2, <2>3 DEF CleanLoopStep
<1>10. CASE FetchManifest(l)
  <2>1. ~Doing(l, "idle") /\ UNCHANGED <<status, store>>
    BY <1>10 DEF FetchManifest, Doing, storeVars, rowVars
  <2>2. /\ loops'[l].job = j /\ loops'[l].at \in {"render", "fail"}
        /\ \A m \in Loop \ {l} : loops'[m] = loops[m]
    BY <1>0, <1>10 DEF FetchManifest, Raise, LoopState
  <2> QED
    BY <1>0, <1>1, <2>1, <2>2 DEF CleanLoopStep
<1>11. CASE HandOff(l)
  <2>1. ~Doing(l, "idle") /\ UNCHANGED store
    BY <1>11 DEF HandOff, Doing
  <2>2. /\ UNCHANGED status \/ \E new : new # "expired" /\ SetStatus(j, new)
        /\ Goto(l, "render") \/ Raise(l, "other") \/ (Rest(l) /\ status[j] \notin Tombstone)
    BY <1>11 DEF HandOff, MoveRow, rowVars, Allows, Tombstone
  <2> QED
    BY <1>4, <1>5, <1>6, <2>1, <2>2
<1>12. CASE MarkComplete(l)
  <2>1. ~Doing(l, "idle") /\ UNCHANGED store
    BY <1>12 DEF MarkComplete, Doing
  <2>2. /\ UNCHANGED status \/ \E new : new # "expired" /\ SetStatus(j, new)
        /\ Goto(l, "lost") \/ (Rest(l) /\ status[j] \notin Tombstone)
    BY <1>12 DEF MarkComplete, MoveRow, rowVars, Allows, Tombstone
  <2> QED
    BY <1>4, <1>6, <2>1, <2>2
<1>13. CASE LostPurges(l) \/ FailErases(l)
  <2>1. ~Doing(l, "idle") /\ UNCHANGED status /\ DeletePrefix(j)
    BY <1>13 DEF LostPurges, FailErases, Doing, rowVars, NothingCutShort, Fault
  <2>2. Raise(l, "cancelled") \/ Raise(l, "other") \/ Rest(l)
    BY <1>13 DEF LostPurges, FailErases
  <2>3. \A i \in Job : i # j => store'[i] = store[i]
    BY <1>0, <2>1 DEF DeletePrefix
  <2>4. Clean(j)'
    BY <1>1, <2>1, SweepKeepsClean DEF CleanInv, PlaceInv, OwnerInv
  <2> QED
    BY <1>3, <1>5, <2>1, <2>2, <2>3, <2>4
<1>14. CASE FailLooks(l)
  <2>1. ~Doing(l, "idle") /\ UNCHANGED <<status, store>>
    BY <1>14 DEF FailLooks, Doing, storeVars, rowVars
  <2>2. CASE Goto(l, "erase") \/ (Rest(l) /\ status[j] \notin Tombstone)
    BY <1>4, <1>6, <2>1, <2>2
  <2>3. CASE ~(Goto(l, "erase") \/ (Rest(l) /\ status[j] \notin Tombstone))
    <3>1. status[j] \notin Tombstone /\ loops'[l].at = "amend"
      BY <1>0, <1>14, <2>3 DEF FailLooks, LoopState
    <3>2. \A m \in Loop \ {l} : loops'[m] = loops[m]
      BY <1>0, <1>14, <2>3 DEF FailLooks
    <3> QED
      BY <1>0, <1>1, <2>1, <3>1, <3>2 DEF CleanLoopStep
  <2> QED
    BY <2>2, <2>3
<1>15. CASE FailAmends(l)
  <2>1. Doing(l, "amend") /\ ~Doing(l, "idle") /\ UNCHANGED store /\ Rest(l)
    BY <1>15 DEF FailAmends, Doing
  <2>2. UNCHANGED status \/ \E new : new # "expired" /\ SetStatus(j, new)
    BY <1>15 DEF FailAmends, MoveRow, rowVars
  <2> QED
    BY <1>4, <2>1, <2>2
<1>16. ~ReleaseJob(l)
  BY DEF CleanInv, NoRelease, ReleaseJob
<1> QED
  BY <1>2, <1>7, <1>8, <1>9, <1>10, <1>11, <1>12, <1>13, <1>14, <1>15, <1>16 DEF LoopNext

LEMMA LoopCleanKeeps ==
  ASSUME CleanInv, NEW l \in Loop, NEW j \in Job, CleanLoopStep(l, j)
  PROVE  NoRelease' /\ LateWritesErased'
<1>1. NoRelease'
  BY DEF CleanLoopStep, CleanInv, NoRelease, Doing
<1>2. ASSUME NEW i \in Job, i # j
      PROVE  (Swept(i) /\ ~Writing(i) => Clean(i))'
  <2>1. Clean(i)' <=> Clean(i)
    BY <1>2 DEF CleanLoopStep, Clean, Stored
  <2>2. Swept(i)' => Swept(i)
    BY <1>2 DEF CleanLoopStep, Swept, In
  <2>3. Writing(i) => Writing(i)'
    BY <1>2 DEF CleanLoopStep, Writing
  <2> QED
    BY <2>1, <2>2, <2>3 DEF CleanInv, LateWritesErased
<1>3. (Swept(j) /\ ~Writing(j) => Clean(j))'
  <2>1. CASE loops'[l].job = j /\ loops'[l].at \notin {"idle", "amend", "release"}
    BY <2>1 DEF Writing
  <2>2. CASE status[j] \notin Tombstone
    <3>1. status'[j] # "expired"
      BY <2>2 DEF CleanLoopStep, Tombstone
    <3>2. \A c \in Caller : ~(In(c, "seal") /\ calls[c].job = j)
      BY <2>2 DEF CleanInv, PlaceInv, CallsPlaced, Placed, EraseStep, In
    <3> QED
      BY <3>1, <3>2 DEF CleanLoopStep, Swept, In
  <2>3. CASE loops[l].at = "amend" /\ UNCHANGED store
    <3>1. loops[l].job = j
      BY <2>3 DEF CleanLoopStep, CleanInv, PlaceInv, OwnerInv, LoopsOwn, Owns, Doing
    <3>2. ~Writing(j)
      BY <2>3, <3>1 DEF Writing, CleanInv, PlaceInv, OwnerInv, Apart, Doing
    <3>3. Swept(j)' => Swept(j)
      BY DEF CleanLoopStep, Swept, In
    <3>4. Clean(j) => Clean(j)'
      BY <2>3 DEF Clean, Stored
    <3> QED
      BY <3>2, <3>3, <3>4 DEF CleanInv, LateWritesErased
  <2> QED
    BY <2>1, <2>2, <2>3 DEF CleanLoopStep
<1> QED
  BY <1>1, <1>2, <1>3 DEF LateWritesErased

LEMMA OutsideCleanKeeps ==
  ASSUME CleanInv, CleanOutside, UNCHANGED loops
  PROVE  NoRelease' /\ LateWritesErased'
<1>1. NoRelease'
  BY DEF CleanInv, NoRelease, Doing
<1>2. \A j \in Job : Writing(j)' <=> Writing(j)
  BY DEF Writing
<1> QED
  BY <1>1, <1>2 DEF CleanInv, CleanOutside, LateWritesErased

LEMMA ProcessCleanKeeps ==
  ASSUME CleanInv, NothingCutShort, ProcessNext
  PROVE  NoRelease' /\ LateWritesErased'
<1> USE DEF CleanInv
<1>0. UNCHANGED store
  BY ProcessSparesCalls
<1>1. \A j \in Job : Clean(j)' <=> Clean(j)
  BY <1>0 DEF Clean, Stored
<1>2. \A j \in Job : Swept(j)' => Swept(j)
  <2>1. \A j \in Job : status'[j] = "expired" => status[j] = "expired"
    BY DEF ProcessNext, WorkerStops, WorkerExits, WorkerCrashes, WorkerStarts, ProcessEnds,
       RequeueRows, storeVars, rowVars
  <2>2. \A c \in Caller : In(c, "seal")' => In(c, "seal") /\ calls'[c].job = calls[c].job
    <3>1. CASE UNCHANGED calls
      BY <3>1 DEF In
    <3>2. CASE Return(Cleaner)
      BY <3>2 DEF Return, NoCall, In, PlaceInv, OwnerInv, TypeInv, TypeOK, ServiceTypeOK
    <3> QED
      BY <3>1, <3>2, ProcessSparesCalls
  <2> QED
    BY <2>1, <2>2 DEF Swept
<1>3. CASE UNCHANGED loops
  BY <1>1, <1>2, <1>3, OutsideCleanKeeps DEF CleanOutside
<1>4. CASE WorkerExits
  <2>1. loops' = [l \in Loop |-> Resting]
    BY <1>4 DEF WorkerExits, ProcessEnds
  <2>2. \A j \in Job : ~Writing(j)
    BY <1>4 DEF WorkerExits, Writing, Doing
  <2> QED
    BY <1>1, <1>2, <2>1, <2>2 DEF NoRelease, LateWritesErased, Doing, Resting
<1> QED
  BY <1>3, <1>4 DEF ProcessNext, WorkerStops, WorkerCrashes, WorkerStarts, NothingCutShort, Fault

LEMMA CleanStep ==
  ASSUME CleanInv, NothingCutShort, [Next]_vars
  PROVE  CleanInv'
<1>0. PlaceInv' /\ TypeInv /\ CallsPlaced
  BY PlaceStep DEF CleanInv, PlaceInv, OwnerInv
<1>1. ASSUME NEW c \in Client, ClientNext(c)
      PROVE  CleanInv'
  BY <1>0, <1>1, ClientCleans, OutsideCleanKeeps DEF ClientNext, workerVars, CleanInv
<1>2. ASSUME NEW l \in Loop, LoopNext(l)
      PROVE  CleanInv'
  BY <1>0, <1>2, LoopCleans, LoopCleanKeeps DEF CleanInv
<1>3. CASE ProcessNext
  BY <1>0, <1>3, ProcessCleanKeeps DEF CleanInv
<1>4. CASE Cleanup
  BY <1>0, <1>4, CleanupCleans, OutsideCleanKeeps DEF Cleanup, workerVars, CleanInv
<1>5. CASE ClockNext \/ UNCHANGED vars
  <2>1. UNCHANGED <<status, store, calls, loops>>
    BY <1>5 DEF ClockNext, Deadline, vars, storeVars, rowVars, serviceVars, workerVars
  <2>2. CleanOutside
    BY <2>1 DEF CleanOutside, Clean, Stored, Swept, In
  <2> QED
    BY <1>0, <2>1, <2>2, OutsideCleanKeeps DEF CleanInv
<1> QED
  BY <1>1, <1>2, <1>3, <1>4, <1>5 DEF Next

\* Once a job is expired and no loop is on it, no preview, draft or output of
\* it is left, in whatever order the deletion, the sweep and the loop's writes
\* came, as long as no erasure fails half way and no loop is cut short.
THEOREM LateWritesAreErased ==
  ASSUME NothingCutShort
  PROVE  Spec => []WorkerLeavesNothing
<1>1. Init => CleanInv
  <2>1. Init => NoRelease
    BY DEF Init, WorkerInit, NoRelease, Doing, Resting
  <2>2. Init => LateWritesErased
    BY DEF Init, StoreInit, ServiceInit, LateWritesErased, Swept, In, NoCall
  <2> QED
    BY <2>1, <2>2, TypeInit, OwnerInit, PlaceInit DEF CleanInv, PlaceInv, OwnerInv
<1>2. CleanInv /\ [Next]_vars => CleanInv'
  BY CleanStep
<1>3. CleanInv => WorkerLeavesNothing
  BY DEF CleanInv, LateWritesErased, Swept, Writing, Clean, WorkerLeavesNothing
<1> QED
  BY <1>1, <1>2, <1>3, PTL DEF Spec

-----------------------------------------------------------------------------
(* Files.  A late upload may replace the document of a job that was        *)
(* submitted, and of two reviews that overlap the later may overwrite the  *)
(* boxes of the accepted one (the runs LateUpload and TwoReviewers).  Those*)
(* two overlaps aside, every stage finds what it needs, with any other     *)
(* calls, faults, loops and jobs.                                          *)

UploadStep == {"stream", "copy", "head", "reject", "refuse", "accept"}

\* No two of a job's uploads and submits, and no two of its reviews, overlap.
OneAtATime == \A c, d \in Caller :
  c # d /\ calls[c].job = calls[d].job =>
    /\ ~(calls[c].at \in UploadStep /\ calls[d].at \in UploadStep)
    /\ ~(calls[c].at \in ReviewStep /\ calls[d].at \in ReviewStep)

\* What is behind the status of job j.
JobFiles(j) ==
  status[j] \notin Tombstone =>
    /\ status[j] \in Queued \cup InFlight \cup Reviewable => store[j]["input"] = Original
    /\ status[j] \in Reviewable \cup {"queued_redaction", "redacting"} =>
         paged[j] /\ Stored(j, "preview") /\ Stored(j, "draft")
    /\ status[j] \in {"queued_redaction", "redacting"} => store[j]["approved"] = accepted[j]
    /\ status[j] = "complete" => store[j]["output"] = accepted[j]
    /\ status[j] \in {"none", "awaiting_upload", "queued_detection", "detecting"} =>
         accepted[j] = Original
    /\ accepted[j] <= reviews[j]

\* What the call of c may rely on until its job is buried.
CallFiles(c) ==
  LET j == calls[c].job IN
  status[j] \notin Tombstone =>
    /\ calls[c].at \in UploadStep => status[j] = "awaiting_upload"
    /\ calls[c].at = "accept" => store[j]["input"] = Original
    /\ calls[c].at \in ReviewStep =>
         /\ status[j] = calls[c].was
         /\ accepted[j] < calls[c].review /\ calls[c].review <= reviews[j]
    /\ calls[c].at = "write" => Stored(j, "approved")
    /\ calls[c].at = "queue" => store[j]["approved"] = calls[c].review

\* What loop l may rely on until its job is buried.
LoopFiles(l) ==
  LET j == loops[l].job
      at == loops[l].at
  IN
  at # "idle" /\ status[j] \notin Tombstone =>
    /\ at \in DetectStep => loops[l].review = Original
    /\ at \in DetectStep \ {"load", "pages"} => paged[j]
    /\ at \in {"detect", "findings", "draft", "approve", "handoff"} => Stored(j, "preview")
    /\ at \in {"approve", "handoff"} => Stored(j, "draft")
    /\ at = "handoff" /\ loops[l].auto => store[j]["approved"] = Original
    /\ at \in {"render", "open", "close", "complete"} => loops[l].review = accepted[j]
    /\ at = "close" => Stored(j, "output")
    /\ at = "complete" => store[j]["output"] = loops[l].review
    /\ at = "amend" /\ loops[l].error = "validation" => ~auto[j]

FilesInv ==
  /\ ReviewInv
  /\ \A j \in Job : JobFiles(j)
  /\ \A c \in Caller : CallFiles(c)
  /\ \A l \in Loop : LoopFiles(l)

\* The document a client of job j is given.
Result(j) == IF status[j] = "complete" THEN store[j]["output"] ELSE None

\* The two kinds of step the contract allows: none, for job j, and one of its own.
Unmoved(j) ==
  /\ PhaseOf(status'[j]) = PhaseOf(status[j])
  /\ auto'[j] = auto[j] /\ accepted'[j] = accepted[j]
  /\ Result(j)' = Result(j)

Moved(j) ==
  \/ /\ status[j] = "none" /\ status'[j] = "awaiting_upload"
     /\ accepted'[j] = accepted[j]
  \/ /\ status[j] = "awaiting_upload" /\ status'[j] \in {"queued_detection", "failed"}
     /\ auto'[j] = auto[j] /\ accepted'[j] = accepted[j]
  \/ /\ status[j] \in InFlight /\ status'[j] = "failed"
     /\ auto'[j] = auto[j] /\ accepted'[j] = accepted[j]
  \/ /\ status[j] \in InFlight /\ status'[j] = "review_required"
     /\ ~auto[j] /\ auto'[j] = auto[j] /\ accepted'[j] = accepted[j]
  \/ /\ status[j] \in Reviewable /\ status'[j] = "queued_redaction"
     /\ auto'[j] = FALSE /\ accepted'[j] > accepted[j]
  \/ /\ status[j] \in InFlight /\ status'[j] = "complete"
     /\ auto[j] \/ accepted[j] > 0
     /\ store'[j]["output"] = accepted[j]
     /\ auto'[j] = auto[j] /\ accepted'[j] = accepted[j]
  \/ /\ status[j] \notin Tombstone \cup {"none"} /\ status'[j] \in Tombstone
     /\ auto'[j] = auto[j] /\ accepted'[j] = accepted[j]

\* At most one job moves.
ContractStep ==
  \/ \A i \in Job : Unmoved(i)
  \/ \E j \in Job : Moved(j) /\ \A i \in Job \ {j} : Unmoved(i)

SameJob(j) ==
  /\ status'[j] = status[j] /\ auto'[j] = auto[j] /\ paged'[j] = paged[j]
  /\ store'[j] = store[j] /\ reviews'[j] = reviews[j] /\ accepted'[j] = accepted[j]

FilesKept ==
  /\ \A j \in Job : JobFiles(j)'
  /\ \A c \in Caller : CallFiles(c)'
  /\ \A l \in Loop : LoopFiles(l)'

LEMMA SameJobKeeps ==
  ASSUME NEW j \in Job, SameJob(j), JobFiles(j)
  PROVE  JobFiles(j)' /\ Unmoved(j)
BY DEF SameJob, JobFiles, Unmoved, Result, Stored

\* A call is not disturbed by what happens to other jobs, nor by what happens
\* to its own as long as the row and the files stay or the job is buried.
LEMMA CallUndisturbed ==
  ASSUME FilesInv, RowsStay, NEW c \in Caller, calls'[c] = calls[c],
         \/ SameJob(calls[c].job)
         \/ status'[calls[c].job] \in Tombstone
         \/ calls[c].at \notin UploadStep \cup ReviewStep
  PROVE  CallFiles(c)'
<1>1. CASE SameJob(calls[c].job)
  BY <1>1 DEF FilesInv, CallFiles, SameJob, Stored
<1>2. CASE status'[calls[c].job] \in Tombstone
  BY <1>2 DEF CallFiles
<1>3. CASE calls[c].at \notin UploadStep \cup ReviewStep
  BY <1>3 DEF CallFiles, UploadStep, ReviewStep
<1> QED
  BY <1>1, <1>2, <1>3

LEMMA LoopUndisturbed ==
  ASSUME FilesInv, NEW l \in Loop, loops'[l] = loops[l],
         \/ SameJob(loops[l].job)
         \/ status'[loops[l].job] \in Tombstone
         \/ Doing(l, "idle")
  PROVE  LoopFiles(l)'
<1>1. CASE SameJob(loops[l].job)
  BY <1>1 DEF FilesInv, LoopFiles, SameJob, Stored
<1>2. CASE status'[loops[l].job] \in Tombstone
  BY <1>2 DEF LoopFiles
<1>3. CASE Doing(l, "idle")
  BY <1>3 DEF LoopFiles, Doing
<1> QED
  BY <1>1, <1>2, <1>3

\* The step of a call on job j: every other job is left alone, and whoever is
\* on job j too is not disturbed.
LEMMA CallFrame ==
  ASSUME FilesInv, RowsStay, UNCHANGED loops, NEW c \in Caller, NEW j \in Job,
         \A d \in Caller \ {c} : calls'[d] = calls[d],
         \A i \in Job \ {j} : SameJob(i),
         \/ SameJob(j)
         \/ status'[j] \in Tombstone
         \/ /\ status[j] \notin InFlight
            /\ \A d \in Caller \ {c} : calls[d].job = j => CallFiles(d)',
         JobFiles(j)', CallFiles(c)', Unmoved(j) \/ Moved(j)
  PROVE  FilesKept /\ ContractStep
<1>1. \A i \in Job \ {j} : JobFiles(i)' /\ Unmoved(i)
  BY SameJobKeeps DEF FilesInv
<1>2. ASSUME NEW d \in Caller \ {c}
      PROVE  CallFiles(d)'
  <2>1. CASE calls[d].at = "idle"
    BY <2>1, CallUndisturbed DEF UploadStep, ReviewStep
  <2>2. CASE calls[d].at # "idle"
    <3>1. calls[d].job \in Job
      BY <2>2 DEF FilesInv, ReviewInv, PlaceInv, CallsPlaced, Placed
    <3> QED
      BY <3>1, CallUndisturbed
  <2> QED
    BY <2>1, <2>2
<1>3. ASSUME NEW l \in Loop
      PROVE  LoopFiles(l)'
  <2>1. CASE Doing(l, "idle")
    BY <2>1, LoopUndisturbed
  <2>2. CASE ~Doing(l, "idle")
    <3>1. loops[l].job \in Job /\ status[loops[l].job] \in InFlight \cup Tombstone
      BY <2>2, StageInFlight
      DEF FilesInv, ReviewInv, PlaceInv, OwnerInv, LoopsOwn, Owns, TypeInv, TypeOK, WorkerTypeOK,
          LoopState, Doing
    <3> QED
      BY <3>1, LoopUndisturbed DEF RowsStay
  <2> QED
    BY <2>1, <2>2
<1> QED
  BY <1>1, <1>2, <1>3 DEF FilesKept, ContractStep

\* Where no row and no file changes.
LEMMA CallOnlyFrame ==
  ASSUME FilesInv, RowsStay, UNCHANGED <<loops, storeVars, reviews, accepted>>, NEW c \in Caller,
         \A d \in Caller \ {c} : calls'[d] = calls[d], CallFiles(c)'
  PROVE  FilesKept /\ ContractStep
<1>1. \A j \in Job : SameJob(j)
  BY DEF SameJob, storeVars, rowVars
<1>2. \A j \in Job : JobFiles(j)' /\ Unmoved(j)
  BY <1>1, SameJobKeeps DEF FilesInv
<1>3. \A d \in Caller \ {c} : CallFiles(d)'
  BY DEF storeVars, rowVars, FilesInv, CallFiles, Stored
<1>4. \A l \in Loop : LoopFiles(l)'
  BY DEF storeVars, rowVars, FilesInv, LoopFiles, Stored
<1> QED
  BY <1>2, <1>3, <1>4 DEF FilesKept, ContractStep

\* Who else may be on the job of an upload, a submit or a review.
LEMMA NobodyElse ==
  ASSUME FilesInv, OneAtATime, NEW c \in Caller, NEW d \in Caller \ {c},
         calls[d].job = calls[c].job, status[calls[c].job] \notin Tombstone,
         calls[c].at \in UploadStep \cup ReviewStep
  PROVE  /\ calls[d].at \notin UploadStep \cup ReviewStep
         /\ status[calls[c].job] \in Reviewable \cup {"awaiting_upload"}
         /\ status[calls[c].job] \notin InFlight
<1>1. calls[c].at \in ReviewStep => status[calls[c].job] \in Reviewable
  BY DEF FilesInv, ReviewInv, PlaceInv, OwnerInv, FinalizeRead, CallFiles, ReviewStep
<1>2. calls[d].at \in ReviewStep => status[calls[c].job] \in Reviewable
  BY DEF FilesInv, ReviewInv, PlaceInv, OwnerInv, FinalizeRead, CallFiles, ReviewStep
<1>3. /\ calls[c].at \in UploadStep => status[calls[c].job] = "awaiting_upload"
      /\ calls[d].at \in UploadStep => status[calls[c].job] = "awaiting_upload"
  BY DEF FilesInv, CallFiles
<1> QED
  BY <1>1, <1>2, <1>3 DEF OneAtATime, Reviewable, InFlight

\* The step of an upload, a submit or a review that writes to its own job.
LEMMA CallWrites ==
  ASSUME FilesInv, OneAtATime, RowsStay, UNCHANGED loops, NEW c \in Caller, NEW j \in Job,
         j = calls[c].job, calls[c].at \in UploadStep \cup ReviewStep,
         \A d \in Caller \ {c} : calls'[d] = calls[d],
         \A i \in Job \ {j} : SameJob(i),
         status[j] \notin Tombstone => JobFiles(j)' /\ CallFiles(c)' /\ (Unmoved(j) \/ Moved(j)),
         status[j] \in Tombstone =>
           /\ calls'[c].at = "idle" \/ calls'[c].job = j
           /\ UNCHANGED <<status, auto, accepted>>
  PROVE  FilesKept /\ ContractStep
<1>1. CASE status[j] \in Tombstone
  <2>1. status'[j] \in Tombstone
    BY <1>1 DEF RowsStay
  <2>2. JobFiles(j)'
    BY <2>1 DEF JobFiles
  <2>3. CallFiles(c)'
    BY <1>1, <2>1 DEF CallFiles, UploadStep, ReviewStep
  <2>4. Unmoved(j)
    BY <1>1 DEF Unmoved, Result, Tombstone
  <2> QED
    BY <2>1, <2>2, <2>3, <2>4, CallFrame
<1>2. CASE status[j] \notin Tombstone
  <2>2. status[j] \notin InFlight
    <3>1. calls[c].at \in ReviewStep => status[j] \in Reviewable
      BY <1>2 DEF FilesInv, ReviewInv, PlaceInv, OwnerInv, FinalizeRead, CallFiles, ReviewStep
    <3>2. calls[c].at \in UploadStep => status[j] = "awaiting_upload"
      BY <1>2 DEF FilesInv, CallFiles
    <3> QED
      BY <3>1, <3>2 DEF Reviewable, InFlight
  <2>3. \A d \in Caller \ {c} : calls[d].job = j => CallFiles(d)'
    BY <1>2, NobodyElse, CallUndisturbed
  <2> QED
    BY <1>2, <2>2, <2>3, CallFrame
<1> QED
  BY <1>1, <1>2

LEMMA ReturnCall ==
  ASSUME TypeInv, NEW c \in Caller, Return(c)
  PROVE  /\ calls'[c] = NoCall /\ calls'[c].at = "idle" /\ CallFiles(c)'
         /\ \A d \in Caller \ {c} : calls'[d] = calls[d]
<1>1. calls'[c] = NoCall /\ \A d \in Caller \ {c} : calls'[d] = calls[d]
  BY DEF Return, TypeInv, TypeOK, ServiceTypeOK
<1>2. calls'[c].at = "idle"
  BY <1>1 DEF NoCall
<1> QED
  BY <1>1, <1>2 DEF CallFiles, UploadStep, ReviewStep

LEMMA ProceedCall ==
  ASSUME TypeInv, NEW c \in Caller, NEW step, Proceed(c, step)
  PROVE  /\ calls'[c].at = step /\ calls'[c].job = calls[c].job
         /\ calls'[c].was = calls[c].was /\ calls'[c].review = calls[c].review
         /\ \A d \in Caller \ {c} : calls'[d] = calls[d]
BY DEF Proceed, TypeInv, TypeOK, ServiceTypeOK, Call

LEMMA CallOnFiles ==
  ASSUME TypeInv, NEW c \in Caller, NEW j, NEW step, step \notin UploadStep \cup ReviewStep,
         calls' = [calls EXCEPT ![c] = CallOn(j, step)]
  PROVE  CallFiles(c)' /\ \A d \in Caller \ {c} : calls'[d] = calls[d]
<1>1. calls'[c] = CallOn(j, step) /\ \A d \in Caller \ {c} : calls'[d] = calls[d]
  BY DEF TypeInv, TypeOK, ServiceTypeOK
<1>2. calls'[c].at = step
  BY <1>1, CallOnIsNoFinalize
<1> QED
  BY <1>1, <1>2 DEF CallFiles, UploadStep, ReviewStep

\* What the operations on files leave of the others.
LEMMA PutFiles ==
  ASSUME TypeInv, NEW j \in Job, NEW k \in Key, NEW v, Put(j, k, v)
  PROVE  /\ store'[j][k] = v
         /\ \A other \in Key \ {k} : store'[j][other] = store[j][other]
         /\ \A i \in Job \ {j} : store'[i] = store[i]
BY DEF Put, TypeInv, TypeOK, StoreTypeOK

LEMMA CloseFiles ==
  ASSUME TypeInv, NEW j \in Job, NEW k \in Key, NEW v, CloseFile(j, k, v)
  PROVE  /\ store'[j][k] = IF Stored(j, k) THEN v ELSE None
         /\ \A other \in Key \ {k} : store'[j][other] = store[j][other]
         /\ \A i \in Job \ {j} : store'[i] = store[i]
BY DEF CloseFile, TypeInv, TypeOK, StoreTypeOK

LEMMA PrefixFiles ==
  ASSUME TypeInv, NEW j \in Job, DeletePrefix(j) \/ DeletePrefixFails(j)
  PROVE  \A i \in Job \ {j} : store'[i] = store[i]
BY DEF DeletePrefix, DeletePrefixFails, TypeInv, TypeOK, StoreTypeOK

LEMMA SameRowsSameJob ==
  ASSUME UNCHANGED <<rowVars, reviews, accepted>>, NEW i, store'[i] = store[i]
  PROVE  SameJob(i)
BY DEF rowVars, SameJob

LEMMA SetStatusElsewhere ==
  ASSUME TypeInv, NEW j, NEW new, SetStatus(j, new)
  PROVE  /\ \A i \in Job \ {j} : status'[i] = status[i]
         /\ j \in Job => status'[j] = new
BY DEF SetStatus, TypeInv, TypeOK, StoreTypeOK

Phases ==
  /\ PhaseOf("none") = "absent"
  /\ PhaseOf("awaiting_upload") = "open"
  /\ \A s \in Queued \cup InFlight : PhaseOf(s) = "working"
  /\ PhaseOf("review_required") = "review"
  /\ PhaseOf("complete") = "complete"
  /\ PhaseOf("failed") = "failed"
  /\ \A s \in Tombstone : PhaseOf(s) = "erased"

LEMMA PhasesOf == Phases
BY DEF Phases, PhaseOf, Queued, InFlight, Tombstone

\* A job is buried, once or again.
LEMMA BuriedJob ==
  ASSUME NEW j \in Job, status[j] # "none", status'[j] \in Tombstone,
         auto'[j] = auto[j], accepted'[j] = accepted[j]
  PROVE  JobFiles(j)' /\ (Unmoved(j) \/ Moved(j))
<1>1. JobFiles(j)'
  BY DEF JobFiles
<1>2. CASE status[j] \in Tombstone
  <2>1. Unmoved(j)
    BY <1>2, PhasesOf DEF Phases, Unmoved, Result, Tombstone
  <2> QED
    BY <1>1, <2>1
<1>3. CASE status[j] \notin Tombstone
  BY <1>1, <1>3 DEF Moved
<1> QED
  BY <1>2, <1>3

LEMMA CallBuries ==
  ASSUME FilesInv, RowsStay, UNCHANGED <<loops, store, reviews, accepted>>, NEW c \in Caller,
         BuryRow(calls[c].job), NEW step \in {"purge", "sweep"}, Proceed(c, step), ~In(c, "idle")
  PROVE  FilesKept /\ ContractStep
<1> PICK j : j = calls[c].job
  OBVIOUS
<1>0. TypeInv /\ j \in Job /\ status[j] # "none"
  BY DEF FilesInv, ReviewInv, PlaceInv, OwnerInv, CallsPlaced, Placed, In
<1>1. /\ status'[j] = "deleted" /\ UNCHANGED <<auto, paged>>
      /\ \A i \in Job \ {j} : status'[i] = status[i]
  BY <1>0, SetStatusElsewhere DEF BuryRow
<1>2. \A i \in Job \ {j} : SameJob(i)
  BY <1>1 DEF SameJob
<1>3. JobFiles(j)' /\ (Unmoved(j) \/ Moved(j)) /\ status'[j] \in Tombstone
  BY <1>0, <1>1, BuriedJob DEF Tombstone
<1>4. CallFiles(c)' /\ \A d \in Caller \ {c} : calls'[d] = calls[d]
  BY <1>0, ProceedCall DEF CallFiles, UploadStep, ReviewStep
<1> QED
  BY <1>0, <1>2, <1>3, <1>4, CallFrame

\* The files of a buried job are removed, all or some.
LEMMA CallSweeps ==
  ASSUME FilesInv, RowsStay, UNCHANGED <<loops, rowVars, reviews, accepted>>, NEW c \in Caller,
         calls[c].at \in EraseStep,
         DeletePrefix(calls[c].job) \/ DeletePrefixFails(calls[c].job),
         Return(c) \/ Proceed(c, "seal")
  PROVE  FilesKept /\ ContractStep
<1> PICK j : j = calls[c].job
  OBVIOUS
<1>0. TypeInv /\ j \in Job /\ status[j] \in Tombstone /\ status[j] # "none"
  BY DEF FilesInv, ReviewInv, PlaceInv, OwnerInv, CallsPlaced, Placed, EraseStep
<1>1. \A i \in Job \ {j} : SameJob(i)
  BY <1>0, PrefixFiles, SameRowsSameJob
<1>2. JobFiles(j)' /\ (Unmoved(j) \/ Moved(j)) /\ status'[j] \in Tombstone
  BY <1>0, BuriedJob DEF rowVars
<1>3. CallFiles(c)' /\ \A d \in Caller \ {c} : calls'[d] = calls[d]
  BY <1>0, ReturnCall, ProceedCall DEF CallFiles, UploadStep, ReviewStep
<1> QED
  BY <1>0, <1>1, <1>2, <1>3, CallFrame

LEMMA ExpireFiles ==
  ASSUME FilesInv, RowsStay, UNCHANGED loops, NEW c \in Caller, ExpireNext(c)
  PROVE  FilesKept /\ ContractStep
<1>0. TypeInv
  BY DEF FilesInv, ReviewInv, PlaceInv, OwnerInv
<1>1. CASE ExpireMarks(c)
  BY <1>1, CallBuries DEF ExpireMarks, In
<1>2. CASE ExpireSweeps(c)
  BY <1>2, CallSweeps DEF ExpireSweeps, In, EraseStep
<1>3. CASE ExpireSeals(c)
  <2> PICK j : j = calls[c].job
    OBVIOUS
  <2>1. j \in Job /\ status[j] \in Tombstone /\ status[j] # "none"
    BY <1>3 DEF ExpireSeals, In, FilesInv, ReviewInv, PlaceInv, CallsPlaced, Placed, EraseStep
  <2>2. status'[j] \in Tombstone
    BY <2>1 DEF RowsStay
  <2>3. /\ UNCHANGED <<auto, paged, store, reviews, accepted>>
        /\ \A i \in Job \ {j} : status'[i] = status[i]
    BY <1>0, <1>3, SetStatusElsewhere DEF ExpireSeals, MoveRow, rowVars
  <2>4. \A i \in Job \ {j} : SameJob(i)
    BY <2>3 DEF SameJob
  <2>5. CallFiles(c)' /\ \A d \in Caller \ {c} : calls'[d] = calls[d]
    BY <1>0, <1>3, ReturnCall DEF ExpireSeals
  <2> QED
    BY <2>1, <2>2, <2>3, <2>4, <2>5, BuriedJob, CallFrame
<1> QED
  BY <1>1, <1>2, <1>3 DEF ExpireNext

LEMMA ClientStartsFiles ==
  ASSUME FilesInv, RowsStay, UNCHANGED loops, NEW c \in Client, ClientStarts(c)
  PROVE  FilesKept /\ ContractStep
<1>0. c \in Caller /\ TypeInv
  BY DEF Caller, FilesInv, ReviewInv, PlaceInv, OwnerInv
<1> PICK j \in Job : \/ CreateJob(c, j) \/ Poll(c, j) \/ Upload(c, j)
                      \/ Submit(c, j) \/ Finalize(c, j) \/ Delete(c, j)
  BY DEF ClientStarts
<1>1. CASE CreateJob(c, j)
  <2>1. /\ status[j] = "none" /\ status'[j] = "awaiting_upload"
        /\ \A i \in Job \ {j} : status'[i] = status[i] /\ auto'[i] = auto[i]
        /\ UNCHANGED <<paged, store, reviews, accepted, calls>>
        /\ calls[c] = NoCall
    BY <1>0, <1>1, SetStatusElsewhere
    DEF CreateJob, InsertRow, serviceVars, TypeInv, TypeOK, StoreTypeOK
  <2>2. \A i \in Job \ {j} : SameJob(i)
    BY <2>1 DEF SameJob
  <2>3. JobFiles(j)'
    BY <2>1 DEF FilesInv, JobFiles, Queued, InFlight, Reviewable, Tombstone
  <2>4. Moved(j)
    BY <2>1 DEF Moved
  <2>5. CallFiles(c)'
    BY <2>1 DEF NoCall, CallFiles, UploadStep, ReviewStep
  <2>6. ASSUME NEW d \in Caller \ {c}, calls[d].job = j
        PROVE  CallFiles(d)'
    <3>1. calls[d].at = "idle"
      BY <2>1, <2>6 DEF FilesInv, ReviewInv, PlaceInv, CallsPlaced, Placed
    <3> QED
      BY <2>1, <3>1, CallUndisturbed DEF UploadStep, ReviewStep
  <2>7. status[j] \notin InFlight
    BY <2>1 DEF InFlight
  <2> QED
    BY <1>0, <2>1, <2>2, <2>3, <2>4, <2>5, <2>6, <2>7, CallFrame
<1>2. ASSUME NEW kind, NEW next, RequireJob(c, kind, j, next), UNCHANGED reviews,
             due[j] \/ next.at \notin UploadStep \cup ReviewStep
               \/ (next.at \in {"stream", "head"} /\ next.job = j /\ status[j] = "awaiting_upload")
      PROVE  FilesKept /\ ContractStep
  <2>1. UNCHANGED <<storeVars, accepted>>
    BY <1>2 DEF RequireJob
  <2>2. /\ \A d \in Caller \ {c} : calls'[d] = calls[d]
        /\ calls'[c] = IF due[j] THEN CallOn(j, "mark") ELSE next
    BY <1>0, <1>2 DEF RequireJob, TypeInv, TypeOK, ServiceTypeOK
  <2>3. calls'[c].at \notin UploadStep \cup ReviewStep
          \/ (calls'[c].at \in {"stream", "head"} /\ calls'[c].job = j /\ status[j] = "awaiting_upload")
    BY <1>2, <2>2, CallOnIsNoFinalize DEF UploadStep, ReviewStep
  <2>4. CallFiles(c)'
    BY <2>1, <2>3 DEF CallFiles, storeVars, rowVars, UploadStep, ReviewStep
  <2> QED
    BY <1>0, <1>2, <2>1, <2>2, <2>4, CallOnlyFrame
<1>3. CASE Poll(c, j)
  BY <1>2, <1>3 DEF Poll
<1>4. CASE Upload(c, j) \/ Submit(c, j)
  <2>1. /\ CallOn(j, "stream").at = "stream" /\ CallOn(j, "stream").job = j
        /\ CallOn(j, "head").at = "head" /\ CallOn(j, "head").job = j
    BY DEF CallOn, NoCall
  <2> QED
    BY <1>2, <1>4, <2>1 DEF Upload, Submit
<1>5. CASE Finalize(c, j)
  <2> DEFINE next == [at |-> "manifest", job |-> j, was |-> status[j], review |-> reviews[j] + 1]
  <2>1. RequireJob(c, "finalize", j, next) /\ status[j] \in Live
    BY <1>5 DEF Finalize, RequireJob
  <2>2. CASE due[j]
    BY <1>2, <1>5, <2>1, <2>2 DEF Finalize
  <2>3. CASE ~due[j]
    <3>1. /\ UNCHANGED <<storeVars, accepted>>
          /\ reviews' = [reviews EXCEPT ![j] = reviews[j] + 1]
          /\ status[j] \in Reviewable
      BY <1>5, <2>1, <2>3 DEF Finalize, RequireJob
    <3>2. /\ \A d \in Caller \ {c} : calls'[d] = calls[d]
          /\ calls'[c] = next
      BY <1>0, <2>1, <2>3 DEF RequireJob, TypeInv, TypeOK, ServiceTypeOK
    <3>3. /\ calls'[c].at = "manifest" /\ calls'[c].job = j /\ calls'[c].was = status[j]
          /\ calls'[c].review = reviews[j] + 1
      BY <3>2
    <3> HIDE DEF next
    <3>4. /\ reviews[j] \in Nat /\ accepted[j] \in Nat /\ reviews'[j] = reviews[j] + 1
          /\ \A i \in Job \ {j} : reviews'[i] = reviews[i]
      BY <1>0, <3>1 DEF TypeInv, TypeOK, ServiceTypeOK, Review
    <3>5. accepted[j] <= reviews[j]
      BY <2>1 DEF FilesInv, JobFiles, Live
    <3>6. \A i \in Job \ {j} : SameJob(i)
      BY <3>1, <3>4 DEF SameJob, storeVars, rowVars
    <3>7. JobFiles(j)'
      BY <3>1, <3>4, <3>5 DEF FilesInv, JobFiles, storeVars, rowVars, Stored
    <3>8. Unmoved(j)
      BY <3>1 DEF Unmoved, Result, storeVars, rowVars
    <3>9. CallFiles(c)'
      BY <3>1, <3>3, <3>4, <3>5 DEF CallFiles, storeVars, rowVars, UploadStep
    <3>10. ASSUME NEW d \in Caller \ {c}, calls[d].job = j
           PROVE  CallFiles(d)'
      <4>1. calls[d].review \in Nat
        BY <1>0 DEF TypeInv, TypeOK, ServiceTypeOK, Call, Review
      <4> QED
        BY <3>1, <3>2, <3>4, <3>10, <4>1 DEF FilesInv, CallFiles, storeVars, rowVars, Stored
    <3>11. status[j] \notin InFlight
      BY <3>1 DEF Reviewable, InFlight
    <3> QED
      BY <1>0, <3>2, <3>6, <3>7, <3>8, <3>9, <3>10, <3>11, CallFrame
  <2> QED
    BY <2>2, <2>3
<1>6. CASE Delete(c, j)
  <2> DEFINE step == IF status[j] = "deleted" THEN "purge" ELSE "tombstone"
  <2>1. step \notin UploadStep \cup ReviewStep
    BY DEF UploadStep, ReviewStep
  <2>2. calls' = [calls EXCEPT ![c] = CallOn(j, step)] /\ UNCHANGED <<storeVars, reviews, accepted>>
    BY <1>6 DEF Delete
  <2> HIDE DEF step
  <2> QED
    BY <1>0, <2>1, <2>2, CallOnFiles, CallOnlyFrame
<1> QED
  BY <1>1, <1>3, <1>4, <1>5, <1>6

LEMMA UploadFiles ==
  ASSUME FilesInv, OneAtATime, RowsStay, UNCHANGED loops, NEW c \in Caller,
         UploadBreaks(c) \/ UploadOpens(c) \/ UploadCloses(c)
  PROVE  FilesKept /\ ContractStep
<1> PICK j : j = calls[c].job
  OBVIOUS
<1>0. /\ TypeInv /\ j \in Job /\ calls[c].at \in {"stream", "copy"}
      /\ calls[c].at \in UploadStep
      /\ status[j] \notin Tombstone => status[j] = "awaiting_upload"
  BY DEF UploadBreaks, UploadOpens, UploadCloses, In, UploadStep, FilesInv, CallFiles, ReviewInv,
     PlaceInv, OwnerInv, CallsPlaced, Placed
<1>1. CASE UploadBreaks(c)
  BY <1>0, <1>1, ReturnCall, CallOnlyFrame DEF UploadBreaks
<1>2. CASE UploadOpens(c) \/ UploadCloses(c)
  <2>1. UNCHANGED <<rowVars, reviews, accepted>>
    BY <1>2 DEF UploadOpens, UploadCloses
  <2>2. "input" \in Key
    BY DEF Key
  <2>3. \A i \in Job \ {j} : store'[i] = store[i]
    BY <1>0, <1>2, <2>2, PutFiles, CloseFiles DEF UploadOpens, UploadCloses, OpenFile
  <2>4. \A i \in Job \ {j} : SameJob(i)
    BY <2>1, <2>3, SameRowsSameJob
  <2>5. /\ (calls'[c].at = "copy" /\ calls'[c].job = j) \/ calls'[c].at = "idle"
        /\ \A d \in Caller \ {c} : calls'[d] = calls[d]
    BY <1>0, <1>2, ProceedCall, ReturnCall DEF UploadOpens, UploadCloses
  <2>6. ASSUME status[j] \notin Tombstone
        PROVE  JobFiles(j)' /\ CallFiles(c)' /\ Unmoved(j)
    <3>1. status[j] = "awaiting_upload" /\ status' = status
      BY <1>0, <2>1, <2>6 DEF rowVars
    <3>2. JobFiles(j)'
      BY <1>0, <2>1, <3>1 DEF FilesInv, JobFiles, rowVars, Queued, InFlight, Reviewable, Tombstone
    <3>3. CallFiles(c)'
      BY <2>5, <3>1 DEF CallFiles, UploadStep, ReviewStep
    <3>4. Unmoved(j)
      BY <2>1, <3>1 DEF Unmoved, Result, rowVars
    <3> QED
      BY <3>2, <3>3, <3>4
  <2> QED
    BY <1>0, <2>1, <2>4, <2>5, <2>6, CallWrites DEF rowVars
<1> QED
  BY <1>1, <1>2

LEMMA SubmitFiles ==
  ASSUME FilesInv, OneAtATime, RowsStay, UNCHANGED loops, NEW c \in Caller,
         SubmitReadsInput(c) \/ SubmitRejects(c) \/ SubmitRefuses(c) \/ SubmitAccepts(c)
  PROVE  FilesKept /\ ContractStep
<1> PICK j : j = calls[c].job
  OBVIOUS
<1>0. /\ TypeInv /\ j \in Job /\ calls[c].at \in {"head", "reject", "refuse", "accept"}
      /\ calls[c].at \in UploadStep
      /\ status[j] \notin Tombstone => status[j] = "awaiting_upload"
  BY DEF SubmitReadsInput, SubmitRejects, SubmitRefuses, SubmitAccepts, In, UploadStep, FilesInv,
     CallFiles, ReviewInv, PlaceInv, OwnerInv, CallsPlaced, Placed
<1>1. CASE SubmitReadsInput(c)
  <2>1. UNCHANGED <<storeVars, reviews, accepted>>
    BY <1>1 DEF SubmitReadsInput
  <2>2. /\ \/ calls'[c].at = "idle"
           \/ calls'[c].at = "reject" /\ calls'[c].job = j
           \/ calls'[c].at = "accept" /\ calls'[c].job = j /\ store[j]["input"] = Original
        /\ \A d \in Caller \ {c} : calls'[d] = calls[d]
    BY <1>0, <1>1, ReturnCall, ProceedCall DEF SubmitReadsInput
  <2>3. CallFiles(c)'
    BY <1>0, <2>1, <2>2 DEF CallFiles, UploadStep, ReviewStep, storeVars, rowVars
  <2> QED
    BY <2>1, <2>2, <2>3, CallOnlyFrame
<1>2. CASE SubmitRejects(c)
  <2>1. UNCHANGED <<rowVars, reviews, accepted>>
    BY <1>2 DEF SubmitRejects
  <2>2. \A i \in Job \ {j} : SameJob(i)
    BY <1>0, <1>2, <2>1, PrefixFiles, SameRowsSameJob DEF SubmitRejects
  <2>3. /\ (calls'[c].at = "refuse" /\ calls'[c].job = j) \/ calls'[c].at = "idle"
        /\ \A d \in Caller \ {c} : calls'[d] = calls[d]
    BY <1>0, <1>2, ProceedCall, ReturnCall DEF SubmitRejects
  <2>4. ASSUME status[j] \notin Tombstone
        PROVE  JobFiles(j)' /\ CallFiles(c)' /\ Unmoved(j)
    <3>1. status[j] = "awaiting_upload" /\ status' = status
      BY <1>0, <2>1, <2>4 DEF rowVars
    <3>2. JobFiles(j)'
      BY <1>0, <2>1, <3>1 DEF FilesInv, JobFiles, rowVars, Queued, InFlight, Reviewable, Tombstone
    <3>3. CallFiles(c)'
      BY <2>3, <3>1 DEF CallFiles, UploadStep, ReviewStep
    <3>4. Unmoved(j)
      BY <2>1, <3>1 DEF Unmoved, Result, rowVars
    <3> QED
      BY <3>2, <3>3, <3>4
  <2> QED
    BY <1>0, <2>1, <2>2, <2>3, <2>4, CallWrites DEF rowVars
<1>3. CASE SubmitRefuses(c) \/ SubmitAccepts(c)
  <2>1. UNCHANGED <<store, auto, paged, reviews, accepted>>
    BY <1>3 DEF SubmitRefuses, SubmitAccepts, MoveRow, rowVars
  <2>2. /\ \A i \in Job \ {j} : status'[i] = status[i]
        /\ status[j] \in Tombstone => UNCHANGED status
        /\ status[j] = "awaiting_upload" =>
             status'[j] = IF In(c, "refuse") THEN "failed" ELSE "queued_detection"
    BY <1>0, <1>3, SetStatusElsewhere
    DEF SubmitRefuses, SubmitAccepts, MoveRow, Allows, rowVars, Tombstone, In
  <2>3. \A i \in Job \ {j} : SameJob(i)
    BY <2>1, <2>2 DEF SameJob
  <2>4. /\ calls'[c].at = "idle" /\ CallFiles(c)'
        /\ \A d \in Caller \ {c} : calls'[d] = calls[d]
    BY <1>0, <1>3, ReturnCall DEF SubmitRefuses, SubmitAccepts
  <2>5. ASSUME status[j] \notin Tombstone
        PROVE  JobFiles(j)' /\ Moved(j)
    <3>1. status[j] = "awaiting_upload"
      BY <1>0, <2>5
    <3>2. Moved(j)
      BY <2>1, <2>2, <3>1 DEF Moved
    <3>3. In(c, "refuse") \/ store[j]["input"] = Original
      BY <1>3, <3>1 DEF SubmitRefuses, SubmitAccepts, In, FilesInv, CallFiles, Tombstone
    <3>4. accepted[j] = Original /\ accepted[j] <= reviews[j]
      BY <1>0, <3>1 DEF FilesInv, JobFiles, Tombstone
    <3>5. JobFiles(j)'
      BY <2>1, <2>2, <3>1, <3>3, <3>4 DEF JobFiles, Queued, InFlight, Reviewable
    <3> QED
      BY <3>2, <3>5
  <2> QED
    BY <1>0, <2>1, <2>2, <2>3, <2>4, <2>5, CallWrites
<1> QED
  BY <1>1, <1>2, <1>3

LEMMA FinalizeFiles ==
  ASSUME FilesInv, OneAtATime, RowsStay, UNCHANGED loops, NEW c \in Caller,
         \/ FinalizeReadsManifest(c) \/ FinalizeOpensManifest(c) \/ FinalizeClosesManifest(c)
         \/ FinalizeQueues(c)
  PROVE  FilesKept /\ ContractStep
<1> PICK j : j = calls[c].job
  OBVIOUS
<1>0. /\ TypeInv /\ j \in Job /\ calls[c] \in Call
      /\ calls[c].at \in ReviewStep
      /\ calls[c].was \in Reviewable
      /\ status[j] \notin Tombstone =>
           /\ status[j] = calls[c].was
           /\ accepted[j] < calls[c].review /\ calls[c].review <= reviews[j]
  BY DEF FinalizeReadsManifest, FinalizeOpensManifest, FinalizeClosesManifest, FinalizeQueues, In,
     ReviewStep, FilesInv, CallFiles, ReviewInv, PlaceInv, OwnerInv, CallsPlaced, Placed,
     FinalizeRead, TypeInv, TypeOK, ServiceTypeOK
<1>1. CASE FinalizeReadsManifest(c)
  <2>1. UNCHANGED <<storeVars, reviews, accepted>>
    BY <1>1 DEF FinalizeReadsManifest
  <2>2. CASE Return(c)
    BY <1>0, <2>1, <2>2, ReturnCall, CallOnlyFrame
  <2>3. CASE Proceed(c, "approve")
    <3>1. CallFiles(c)' /\ \A d \in Caller \ {c} : calls'[d] = calls[d]
      BY <1>0, <2>1, <2>3, ProceedCall DEF CallFiles, UploadStep, ReviewStep, storeVars, rowVars
    <3> QED
      BY <2>1, <3>1, CallOnlyFrame
  <2>4. CASE calls' = [calls EXCEPT ![c] = CallOn(calls[c].job, "mark")]
    BY <1>0, <2>1, <2>4, CallOnFiles, CallOnlyFrame DEF UploadStep, ReviewStep
  <2> QED
    BY <1>1, <2>2, <2>3, <2>4, Zenon DEF FinalizeReadsManifest, Return, Proceed
<1>2. CASE FinalizeOpensManifest(c) \/ FinalizeClosesManifest(c)
  <2>1. UNCHANGED <<rowVars, reviews, accepted>>
    BY <1>2 DEF FinalizeOpensManifest, FinalizeClosesManifest
  <2>2. "approved" \in Key /\ {"input", "preview", "draft", "output"} \subseteq Key \ {"approved"}
    BY DEF Key
  <2>3. /\ \A i \in Job \ {j} : store'[i] = store[i]
        /\ \A k \in {"input", "preview", "draft", "output"} : store'[j][k] = store[j][k]
        /\ FinalizeOpensManifest(c) => store'[j]["approved"] = Partial
        /\ FinalizeClosesManifest(c) =>
             store'[j]["approved"] = IF Stored(j, "approved") THEN calls[c].review ELSE None
    BY <1>0, <1>2, <2>2, PutFiles, CloseFiles
    DEF FinalizeOpensManifest, FinalizeClosesManifest, OpenFile, In
  <2>4. \A i \in Job \ {j} : SameJob(i)
    BY <2>1, <2>3, SameRowsSameJob
  <2>5. /\ \/ FinalizeOpensManifest(c) /\ calls'[c].at = "write"
           \/ FinalizeClosesManifest(c) /\ calls'[c].at = "queue"
        /\ calls'[c].job = j
        /\ calls'[c].was = calls[c].was /\ calls'[c].review = calls[c].review
        /\ \A d \in Caller \ {c} : calls'[d] = calls[d]
    BY <1>0, <1>2, ProceedCall DEF FinalizeOpensManifest, FinalizeClosesManifest
  <2>6. ASSUME status[j] \notin Tombstone
        PROVE  JobFiles(j)' /\ CallFiles(c)' /\ Unmoved(j)
    <3>1. status[j] \in Reviewable /\ status' = status
      BY <1>0, <2>1, <2>6 DEF rowVars
    <3>2. JobFiles(j)'
      BY <1>0, <2>1, <2>3, <3>1
      DEF FilesInv, JobFiles, rowVars, Stored, Queued, InFlight, Reviewable, Tombstone
    <3>3. FinalizeClosesManifest(c) => Stored(j, "approved")
      BY <2>6 DEF FinalizeClosesManifest, In, FilesInv, CallFiles
    <3>4. CallFiles(c)'
      BY <1>0, <2>1, <2>3, <2>5, <2>6, <3>1, <3>3
      DEF CallFiles, rowVars, Stored, UploadStep, ReviewStep
    <3>5. Unmoved(j)
      BY <2>1, <2>3, <3>1 DEF Unmoved, Result, rowVars
    <3> QED
      BY <3>2, <3>4, <3>5
  <2> QED
    BY <1>0, <2>1, <2>4, <2>5, <2>6, CallWrites DEF rowVars
<1>3. CASE FinalizeQueues(c)
  <2>1. /\ UNCHANGED <<store, paged, reviews>>
        /\ \A i \in Job \ {j} :
             status'[i] = status[i] /\ auto'[i] = auto[i] /\ accepted'[i] = accepted[i]
    BY <1>0, <1>3, SetStatusElsewhere
    DEF FinalizeQueues, rowVars, TypeInv, TypeOK, StoreTypeOK, ServiceTypeOK
  <2>2. \A i \in Job \ {j} : SameJob(i)
    BY <2>1 DEF SameJob
  <2>3. /\ calls'[c].at = "idle" /\ CallFiles(c)'
        /\ \A d \in Caller \ {c} : calls'[d] = calls[d]
    BY <1>0, <1>3, ReturnCall DEF FinalizeQueues
  <2>4. status[j] \in Tombstone => UNCHANGED <<status, auto, accepted>>
    BY <1>0, <1>3 DEF FinalizeQueues, Allows, rowVars, Reviewable, Tombstone
  <2>5. ASSUME status[j] \notin Tombstone
        PROVE  JobFiles(j)' /\ Moved(j)
    <3>1. /\ status[j] \in Reviewable /\ Allows(j, {calls[c].was})
          /\ store[j]["approved"] = calls[c].review
      BY <1>0, <1>3, <2>5 DEF FinalizeQueues, In, FilesInv, CallFiles, Allows
    <3>2. /\ status'[j] = "queued_redaction" /\ auto'[j] = FALSE
          /\ accepted'[j] = calls[c].review
      BY <1>0, <1>3, <3>1, SetStatusElsewhere
      DEF FinalizeQueues, TypeInv, TypeOK, StoreTypeOK, ServiceTypeOK
    <3>3. accepted'[j] > accepted[j] /\ accepted'[j] <= reviews[j]
      <4>1. accepted[j] \in Nat /\ calls[c].review \in Nat
        BY <1>0 DEF TypeInv, TypeOK, ServiceTypeOK, Call, Review
      <4> QED
        BY <1>0, <2>5, <3>2, <4>1
    <3>4. Moved(j)
      BY <3>1, <3>2, <3>3 DEF Moved
    <3>5. JobFiles(j)'
      BY <1>0, <2>1, <2>5, <3>1, <3>2, <3>3
      DEF FilesInv, JobFiles, Stored, Queued, InFlight, Reviewable
    <3> QED
      BY <3>4, <3>5
  <2> QED
    BY <1>0, <2>2, <2>3, <2>4, <2>5, CallWrites
<1> QED
  BY <1>1, <1>2, <1>3

LEMMA ClientFiles ==
  ASSUME FilesInv, OneAtATime, RowsStay, NEW c \in Client, ClientNext(c)
  PROVE  FilesKept /\ ContractStep
<1>0. c \in Caller /\ UNCHANGED loops /\ TypeInv
  BY DEF Caller, ClientNext, workerVars, FilesInv, ReviewInv, PlaceInv, OwnerInv
<1>1. CASE DeleteMarks(c)
  BY <1>0, <1>1, CallBuries DEF DeleteMarks, In
<1>2. CASE DeletePurges(c)
  BY <1>0, <1>2, CallSweeps DEF DeletePurges, In, EraseStep
<1>3. CASE CallDies(c)
  BY <1>0, <1>3, ReturnCall, CallOnlyFrame DEF CallDies
<1> QED
  BY <1>0, <1>1, <1>2, <1>3, ClientStartsFiles, UploadFiles, SubmitFiles, FinalizeFiles, ExpireFiles
  DEF ClientNext, CallContinues

LEMMA CleanupFiles ==
  ASSUME FilesInv, RowsStay, Cleanup
  PROVE  FilesKept /\ ContractStep
<1>0. Cleaner \in Caller /\ UNCHANGED loops /\ TypeInv
  BY DEF Caller, Cleanup, workerVars, FilesInv, ReviewInv, PlaceInv, OwnerInv
<1>1. CASE CleanupLists
  <2>1. UNCHANGED <<storeVars, calls, reviews, accepted>>
    BY <1>1 DEF CleanupLists
  <2>2. CallFiles(Cleaner)'
    BY <1>0, <2>1 DEF FilesInv, CallFiles, Stored, storeVars, rowVars
  <2> QED
    BY <1>0, <2>1, <2>2, CallOnlyFrame
<1>2. CASE CleanupExpires
  <2> PICK row \in batch :
        calls' = [calls EXCEPT ![Cleaner] = CallOn(row[1], IF row[2] THEN "sweep" ELSE "mark")]
    BY <1>2 DEF CleanupExpires
  <2> DEFINE step == IF row[2] THEN "sweep" ELSE "mark"
  <2>1. step \notin UploadStep \cup ReviewStep
    BY DEF UploadStep, ReviewStep
  <2>2. calls' = [calls EXCEPT ![Cleaner] = CallOn(row[1], step)]
    OBVIOUS
  <2>3. UNCHANGED <<storeVars, reviews, accepted>>
    BY <1>2 DEF CleanupExpires
  <2> HIDE DEF step
  <2> QED
    BY <1>0, <2>1, <2>2, <2>3, CallOnFiles, CallOnlyFrame
<1> QED
  BY <1>0, <1>1, <1>2, ExpireFiles DEF Cleanup, CleanerNext

\* A call on a job that waits for a loop, or has one, does not rely on it.
LEMMA CallsAtWork ==
  ASSUME FilesInv, RowsStay, UNCHANGED calls, NEW j \in Job, \A i \in Job \ {j} : SameJob(i),
         status[j] \in Queued \cup InFlight \cup Tombstone
  PROVE  \A c \in Caller : CallFiles(c)'
<1> SUFFICES ASSUME NEW c \in Caller PROVE CallFiles(c)'
  OBVIOUS
<1>1. CASE calls[c].at = "idle"
  BY <1>1, CallUndisturbed DEF UploadStep, ReviewStep
<1>2. CASE calls[c].at # "idle" /\ calls[c].job # j
  <2>1. calls[c].job \in Job
    BY <1>2 DEF FilesInv, ReviewInv, PlaceInv, CallsPlaced, Placed
  <2> QED
    BY <1>2, <2>1, CallUndisturbed
<1>3. CASE calls[c].job = j /\ status[j] \in Tombstone
  BY <1>3, CallUndisturbed DEF RowsStay
<1>4. CASE calls[c].job = j /\ status[j] \in Queued \cup InFlight
  <2>1. status[j] \notin Tombstone \cup Reviewable /\ status[j] # "awaiting_upload"
    BY <1>4 DEF Queued, InFlight, Tombstone, Reviewable
  <2>2. calls[c].at \notin UploadStep \cup ReviewStep
    BY <1>4, <2>1
    DEF FilesInv, CallFiles, ReviewInv, PlaceInv, OwnerInv, FinalizeRead, ReviewStep
  <2> QED
    BY <2>2, CallUndisturbed
<1> QED
  BY <1>1, <1>2, <1>3, <1>4

\* The step of a loop on job j: every other job is left alone, and no other
\* loop is on this one.
LEMMA LoopFrame ==
  ASSUME FilesInv, RowsStay, UNCHANGED <<calls, reviews, accepted>>, NEW l \in Loop, NEW j \in Job,
         \A m \in Loop \ {l} : loops'[m] = loops[m],
         \A m \in Loop \ {l} : loops[m].job # j \/ status[j] \in Tombstone,
         \A i \in Job \ {j} : SameJob(i),
         status[j] \in Queued \cup InFlight \cup Tombstone,
         JobFiles(j)', LoopFiles(l)', Unmoved(j) \/ Moved(j)
  PROVE  FilesKept /\ ContractStep
<1>1. \A i \in Job \ {j} : JobFiles(i)' /\ Unmoved(i)
  BY SameJobKeeps DEF FilesInv
<1>2. \A c \in Caller : CallFiles(c)'
  BY CallsAtWork
<1>3. ASSUME NEW m \in Loop \ {l}
      PROVE  LoopFiles(m)'
  <2>1. Doing(m, "idle") \/ loops[m].job \in Job
    BY DEF FilesInv, ReviewInv, PlaceInv, OwnerInv, LoopsOwn, Owns
  <2>2. loops[m].job = j => status'[j] \in Tombstone
    BY DEF RowsStay
  <2> QED
    BY <2>1, <2>2, LoopUndisturbed
<1> QED
  BY <1>1, <1>2, <1>3 DEF FilesKept, ContractStep

\* The step of a loop on its own job: once the job is buried nothing matters.
LEMMA LoopWrites ==
  ASSUME FilesInv, RowsStay, UNCHANGED <<calls, reviews, accepted, auto>>, NEW l \in Loop,
         ~Doing(l, "idle"), NEW j \in Job, j = loops[l].job,
         \A m \in Loop \ {l} : loops'[m] = loops[m],
         loops'[l].at = "idle" \/ loops'[l].job = j,
         \A i \in Job \ {j} : SameJob(i),
         status[j] \notin Tombstone => JobFiles(j)' /\ LoopFiles(l)' /\ (Unmoved(j) \/ Moved(j)),
         status[j] \in Tombstone => UNCHANGED status
  PROVE  FilesKept /\ ContractStep
<1>1. \A m \in Loop \ {l} : loops[m].job # j
  BY StoreAssumption DEF FilesInv, ReviewInv, PlaceInv, OwnerInv, Apart, LoopsOwn, Owns
<1>2. status[j] \in Queued \cup InFlight \cup Tombstone
  BY StageInFlight
  DEF FilesInv, ReviewInv, PlaceInv, OwnerInv, LoopsOwn, Owns, TypeInv, TypeOK, WorkerTypeOK,
      LoopState, Doing
<1>3. CASE status[j] \in Tombstone
  <2>1. JobFiles(j)' /\ LoopFiles(l)'
    BY <1>3 DEF JobFiles, LoopFiles
  <2>2. Unmoved(j)
    BY <1>3 DEF Unmoved, Result, Tombstone
  <2> QED
    BY <1>1, <1>2, <2>1, <2>2, LoopFrame
<1>4. CASE status[j] \notin Tombstone
  BY <1>1, <1>2, <1>4, LoopFrame
<1> QED
  BY <1>3, <1>4

LEMMA GotoLoop ==
  ASSUME TypeInv, NEW l \in Loop, NEW step, Goto(l, step)
  PROVE  /\ loops'[l].at = step /\ loops'[l].job = loops[l].job
         /\ loops'[l].auto = loops[l].auto /\ loops'[l].review = loops[l].review
         /\ loops'[l].error = loops[l].error
         /\ \A m \in Loop \ {l} : loops'[m] = loops[m]
BY DEF Goto, TypeInv, TypeOK, WorkerTypeOK, LoopState

\* A run that ended, well or not, relies on nothing.
LEMMA EndedLoop ==
  ASSUME TypeInv, NEW l \in Loop, Rest(l) \/ \E e : Raise(l, e)
  PROVE  /\ loops'[l].at = "idle" \/ loops'[l].job = loops[l].job
         /\ LoopFiles(l)'
         /\ \A m \in Loop \ {l} : loops'[m] = loops[m]
<1>1. CASE Rest(l)
  BY <1>1 DEF Rest, Resting, LoopFiles, TypeInv, TypeOK, WorkerTypeOK
<1>2. ASSUME NEW e, Raise(l, e)
      PROVE  /\ loops'[l].at = "fail" /\ loops'[l].job = loops[l].job
             /\ \A m \in Loop \ {l} : loops'[m] = loops[m]
  <2> DEFINE new == [loops[l] EXCEPT !.at = "fail", !.error = e]
  <2>1. loops[l] \in LoopState /\ loops \in [Loop -> LoopState]
    BY DEF TypeInv, TypeOK, WorkerTypeOK
  <2>2. new.at = "fail" /\ new.job = loops[l].job
    BY <2>1 DEF LoopState
  <2>3. loops' = [loops EXCEPT ![l] = new]
    BY <1>2 DEF Raise
  <2> HIDE DEF new
  <2> QED
    BY <2>1, <2>2, <2>3
<1> QED
  BY <1>1, <1>2 DEF LoopFiles, DetectStep

\* A step that changes nothing but what the loop is at.
LEMMA LoopOnlyFrame ==
  ASSUME FilesInv, RowsStay, UNCHANGED <<calls, reviews, accepted, storeVars>>, NEW l \in Loop,
         ~Doing(l, "idle"),
         \/ Rest(l)
         \/ \E e : Raise(l, e)
         \/ LoopFiles(l)' /\ loops'[l].job = loops[l].job /\ \A m \in Loop \ {l} : loops'[m] = loops[m]
  PROVE  FilesKept /\ ContractStep
<1> PICK j : j = loops[l].job
  OBVIOUS
<1>0. TypeInv /\ j \in Job
  BY DEF FilesInv, ReviewInv, PlaceInv, OwnerInv, LoopsOwn, Owns
<1>1. \A i \in Job : SameJob(i)
  BY DEF SameJob, storeVars, rowVars
<1>2. JobFiles(j)' /\ Unmoved(j)
  BY <1>0, <1>1, SameJobKeeps DEF FilesInv
<1>3. /\ LoopFiles(l)' /\ (loops'[l].at = "idle" \/ loops'[l].job = j)
      /\ \A m \in Loop \ {l} : loops'[m] = loops[m]
  BY <1>0, EndedLoop
<1> QED
  BY <1>0, <1>1, <1>2, <1>3, LoopWrites DEF storeVars, rowVars

\* What the loop knows of its row while it is not buried.
LEMMA LoopKnows ==
  ASSUME FilesInv, NEW l \in Loop, ~Doing(l, "idle"), status[loops[l].job] \notin Tombstone
  PROVE  /\ loops[l].at \in DetectStep =>
              status[loops[l].job] = "detecting" /\ loops[l].auto = auto[loops[l].job]
         /\ loops[l].at \in RedactStep => status[loops[l].job] = "redacting"
         /\ status[loops[l].job] \in InFlight
<1>1. Owns(l)
  BY DEF FilesInv, ReviewInv, PlaceInv, OwnerInv, LoopsOwn
<1>2. loops[l].at \in LoopStep \ {"idle"}
  BY DEF FilesInv, ReviewInv, PlaceInv, OwnerInv, TypeInv, TypeOK, WorkerTypeOK, LoopState, Doing
<1> QED
  BY <1>1, <1>2, Stages, StageInFlight DEF Owns, FilesInv, ReviewInv, AutoAsClaimed

LEMMA ClaimFiles ==
  ASSUME FilesInv, RowsStay, NEW l \in Loop, Claim(l)
  PROVE  FilesKept /\ ContractStep
<1> PICK j \in Job :
      /\ ClaimRow(j)
      /\ loops' = [loops EXCEPT ![l] =
           [Resting EXCEPT !.at = IF status[j] = "queued_detection" THEN "load" ELSE "reload",
                           !.job = j, !.auto = auto[j]]]
  BY DEF Claim
<1>0. TypeInv /\ status[j] \in Queued
  BY DEF FilesInv, ReviewInv, PlaceInv, OwnerInv, ClaimRow
<1>1. /\ \A m \in Loop \ {l} : loops'[m] = loops[m]
      /\ loops'[l].at \in {"load", "reload"} /\ loops'[l].review = Original
  BY <1>0 DEF TypeInv, TypeOK, WorkerTypeOK, Resting
<1>2. /\ UNCHANGED <<auto, paged, store, calls, reviews, accepted>>
      /\ \A i \in Job \ {j} : status'[i] = status[i]
      /\ status'[j] = IF status[j] = "queued_detection" THEN "detecting" ELSE "redacting"
  BY <1>0, SetStatusElsewhere DEF Claim, Calm, serviceVars, ClaimRow
<1>3. \A i \in Job \ {j} : SameJob(i)
  BY <1>2 DEF SameJob
<1>4. \A m \in Loop : Doing(m, "idle") \/ loops[m].job # j
  BY <1>0, StageInFlight
  DEF FilesInv, ReviewInv, PlaceInv, OwnerInv, LoopsOwn, Owns, Queued, InFlight, Tombstone, TypeInv,
      TypeOK, WorkerTypeOK, LoopState, Doing
<1>5. \A m \in Loop \ {l} : loops[m].job # j
  BY <1>4, StoreAssumption DEF FilesInv, ReviewInv, PlaceInv, OwnerInv, LoopsOwn
<1>6. JobFiles(j)'
  BY <1>0, <1>2 DEF FilesInv, JobFiles, Stored, Queued, InFlight, Reviewable, Tombstone
<1>7. Unmoved(j)
  BY <1>0, <1>2, PhasesOf DEF Phases, Unmoved, Result, Queued, InFlight
<1>8. LoopFiles(l)'
  BY <1>1 DEF LoopFiles, DetectStep
<1> QED
  BY <1>0, <1>1, <1>2, <1>3, <1>5, <1>6, <1>7, <1>8, LoopFrame

LEMMA DetectFiles ==
  ASSUME FilesInv, RowsStay, NEW l \in Loop, UNCHANGED <<calls, reviews, accepted>>,
         \/ LoadForDetect(l) \/ RecordPages(l) \/ CheckBeforePreview(l) \/ PutPreview(l)
         \/ Detect(l) \/ RecordFindings(l) \/ PutDraft(l) \/ PutApproved(l) \/ HandOff(l)
  PROVE  FilesKept /\ ContractStep
<1> PICK j : j = loops[l].job
  OBVIOUS
<1>0. /\ TypeInv /\ ~Doing(l, "idle") /\ j \in Job /\ loops[l].at \in DetectStep
  BY DEF LoadForDetect, RecordPages, CheckBeforePreview, PutPreview, Detect, RecordFindings, PutDraft,
     PutApproved, HandOff, Doing, DetectStep, FilesInv, ReviewInv, PlaceInv, OwnerInv, LoopsOwn, Owns
<1>1. status[j] \notin Tombstone =>
        /\ status[j] = "detecting" /\ loops[l].auto = auto[j]
        /\ loops[l].review = Original
        /\ JobFiles(j) /\ LoopFiles(l)
  BY <1>0, LoopKnows DEF FilesInv, LoopFiles, Doing
<1>2. CASE LoadForDetect(l) \/ CheckBeforePreview(l) \/ Detect(l) \/ RecordFindings(l)
  <2>1. UNCHANGED storeVars
    BY <1>2 DEF LoadForDetect, CheckBeforePreview, Detect, RecordFindings
  <2>2. CASE \E e : Raise(l, e)
    BY <1>0, <2>1, <2>2, LoopOnlyFrame
  <2>3. CASE ~ \E e : Raise(l, e)
    <3>1. \/ Doing(l, "load") /\ Goto(l, "pages")
          \/ Doing(l, "check") /\ Goto(l, "preview")
          \/ Doing(l, "detect") /\ Goto(l, "findings")
          \/ Doing(l, "detect") /\ Goto(l, "release")
          \/ Doing(l, "findings") /\ Goto(l, "draft")
      BY <1>2, <2>3
      DEF LoadForDetect, CheckBeforePreview, Detect, RecordFindings, GotoIf, GotoIfActive
    <3>2. /\ \/ Doing(l, "load") /\ loops'[l].at = "pages"
             \/ Doing(l, "check") /\ loops'[l].at = "preview"
             \/ Doing(l, "detect") /\ loops'[l].at = "findings"
             \/ Doing(l, "detect") /\ loops'[l].at = "release"
             \/ Doing(l, "findings") /\ loops'[l].at = "draft"
          /\ loops'[l].job = j /\ loops'[l].review = loops[l].review
          /\ \A m \in Loop \ {l} : loops'[m] = loops[m]
      BY <1>0, <3>1, GotoLoop
    <3>3. LoopFiles(l)'
      BY <1>1, <2>1, <3>2 DEF LoopFiles, Stored, storeVars, rowVars, Doing, DetectStep
    <3> QED
      BY <1>0, <2>1, <3>2, <3>3, LoopOnlyFrame
  <2> QED
    BY <2>2, <2>3
<1>3. CASE RecordPages(l)
  <2>1. UNCHANGED <<status, auto, store>>
    BY <1>3 DEF RecordPages
  <2>2. \A i \in Job \ {j} : SameJob(i)
    BY <1>0, <1>3, <2>1 DEF RecordPages, SameJob, TypeInv, TypeOK, StoreTypeOK
  <2>3. ASSUME status[j] \notin Tombstone
        PROVE  JobFiles(j)' /\ LoopFiles(l)' /\ Unmoved(j)
    <3>1. Goto(l, "check") /\ paged'[j] = TRUE
      BY <1>0, <1>1, <1>3, <2>3 DEF RecordPages, GotoIf, Allows, TypeInv, TypeOK, StoreTypeOK
    <3>2. /\ loops'[l].at = "check" /\ loops'[l].job = j /\ loops'[l].review = loops[l].review
      BY <1>0, <3>1, GotoLoop
    <3>3. LoopFiles(l)'
      BY <1>1, <2>1, <2>3, <3>1, <3>2 DEF LoopFiles
    <3>4. JobFiles(j)'
      BY <1>1, <2>1, <2>3, <3>1 DEF JobFiles, Stored
    <3>5. Unmoved(j)
      BY <2>1 DEF Unmoved, Result
    <3> QED
      BY <3>3, <3>4, <3>5
  <2>4. /\ loops'[l].at = "idle" \/ loops'[l].job = j
        /\ \A m \in Loop \ {l} : loops'[m] = loops[m]
    BY <1>0, <1>3, GotoLoop, EndedLoop DEF RecordPages, GotoIf
  <2> QED
    BY <1>0, <2>1, <2>2, <2>3, <2>4, LoopWrites
<1>4. ASSUME NEW k \in {"preview", "draft", "approved"}, Put(j, k, Original), UNCHANGED rowVars,
             loops'[l].job = j, loops'[l].review = loops[l].review, loops'[l].auto = loops[l].auto,
             loops'[l].error = loops[l].error,
             \A m \in Loop \ {l} : loops'[m] = loops[m],
             \/ k = "preview" /\ Doing(l, "preview") /\ loops'[l].at \in {"check", "detect"}
             \/ k = "draft" /\ Doing(l, "draft") /\ loops[l].auto /\ loops'[l].at = "approve"
             \/ k = "draft" /\ Doing(l, "draft") /\ ~loops[l].auto /\ loops'[l].at = "handoff"
             \/ k = "approved" /\ Doing(l, "approve") /\ loops'[l].at = "handoff"
      PROVE  FilesKept /\ ContractStep
  <2>1. Key = {"input", "preview", "draft", "approved", "output"} /\ k \in Key
    BY <1>4 DEF Key
  <2>2. /\ store'[j][k] = Original
        /\ \A other \in Key \ {k} : store'[j][other] = store[j][other]
        /\ \A i \in Job \ {j} : store'[i] = store[i]
    BY <1>0, <1>4, <2>1, PutFiles
  <2>3. \A i \in Job \ {j} : SameJob(i)
    BY <1>4, <2>2, SameRowsSameJob
  <2>4. Original # None
    BY DEF Original, StoreAssumption
  <2>5. ASSUME status[j] \notin Tombstone
        PROVE  JobFiles(j)' /\ LoopFiles(l)' /\ Unmoved(j)
    <3>1. status'[j] = "detecting" /\ UNCHANGED <<status, auto, paged>>
      BY <1>1, <1>4, <2>5 DEF rowVars
    <3>2. JobFiles(j)'
      BY <1>1, <1>4, <2>1, <2>2, <2>5, <3>1
      DEF JobFiles, Queued, InFlight, Reviewable
    <3>3. Unmoved(j)
      BY <3>1, <1>1, <2>5 DEF Unmoved, Result
    <3>4. LoopFiles(l)'
      BY <1>1, <1>4, <2>1, <2>2, <2>4, <2>5, <3>1 DEF LoopFiles, Stored, Doing, DetectStep
    <3> QED
      BY <3>2, <3>3, <3>4
  <2> QED
    BY <1>0, <1>4, <2>3, <2>5, LoopWrites DEF rowVars
<1>5. CASE PutPreview(l)
  <2>1. /\ loops'[l].job = j /\ loops'[l].review = loops[l].review /\ loops'[l].auto = loops[l].auto
        /\ loops'[l].error = loops[l].error
        /\ loops'[l].at \in {"check", "detect"}
        /\ \A m \in Loop \ {l} : loops'[m] = loops[m]
    <3>1. loops \in [Loop -> LoopState]
      BY <1>0 DEF TypeInv, TypeOK, WorkerTypeOK
    <3> QED
      BY <1>5, <3>1 DEF PutPreview, LoopState
  <2> QED
    BY <1>4, <1>5, <2>1 DEF PutPreview
<1>6. CASE PutDraft(l)
  BY <1>0, <1>4, <1>6, GotoLoop DEF PutDraft
<1>7. CASE PutApproved(l)
  BY <1>0, <1>4, <1>7, GotoLoop DEF PutApproved
<1>8. CASE HandOff(l)
  <2>1. CASE ~Allows(j, {"detecting"})
    BY <1>0, <1>8, <2>1, LoopOnlyFrame DEF HandOff, storeVars
  <2>2. CASE Allows(j, {"detecting"})
    <3>1. status[j] = "detecting" /\ status[j] \notin Tombstone
      BY <2>2 DEF Allows, Tombstone
    <3>2. /\ UNCHANGED <<store, auto, paged>>
          /\ \A i \in Job \ {j} : status'[i] = status[i]
      BY <1>0, <1>8, <2>2, SetStatusElsewhere DEF HandOff, MoveRow
    <3>3. \A i \in Job \ {j} : SameJob(i)
      BY <3>2 DEF SameJob
    <3>4. /\ paged[j] /\ Stored(j, "preview") /\ Stored(j, "draft")
          /\ loops[l].auto => store[j]["approved"] = Original
          /\ store[j]["input"] = Original /\ accepted[j] = Original /\ accepted[j] <= reviews[j]
      BY <1>1, <1>8, <3>1 DEF HandOff, Doing, LoopFiles, JobFiles, DetectStep, InFlight
    <3>5. CASE loops[l].auto
      <4>1. status'[j] = "redacting" /\ Goto(l, "render")
        BY <1>0, <1>8, <2>2, <3>5, SetStatusElsewhere DEF HandOff, MoveRow
      <4>2. /\ loops'[l].at = "render" /\ loops'[l].job = j /\ loops'[l].review = loops[l].review
            /\ \A m \in Loop \ {l} : loops'[m] = loops[m]
        BY <1>0, <4>1, GotoLoop
      <4>3. JobFiles(j)'
        BY <3>2, <3>4, <3>5, <4>1 DEF JobFiles, Stored, Queued, InFlight, Reviewable
      <4>4. LoopFiles(l)'
        BY <1>1, <3>1, <3>4, <4>2 DEF LoopFiles, DetectStep
      <4>5. Unmoved(j)
        BY <3>1, <3>2, <4>1, PhasesOf DEF Phases, Unmoved, Result, InFlight
      <4> QED
        BY <1>0, <3>1, <3>2, <3>3, <4>2, <4>3, <4>4, <4>5, LoopWrites
    <3>6. CASE ~loops[l].auto
      <4>1. status'[j] = "review_required" /\ Rest(l)
        BY <1>0, <1>8, <2>2, <3>6, SetStatusElsewhere DEF HandOff, MoveRow
      <4>2. JobFiles(j)'
        BY <3>2, <3>4, <4>1 DEF JobFiles, Stored, Queued, InFlight, Reviewable
      <4>3. Moved(j)
        BY <1>1, <3>1, <3>2, <3>6, <4>1 DEF Moved, InFlight
      <4> QED
        BY <1>0, <3>1, <3>2, <3>3, <4>1, <4>2, <4>3, EndedLoop, LoopWrites
    <3> QED
      BY <3>5, <3>6
  <2> QED
    BY <2>1, <2>2
<1> QED
  BY <1>2, <1>3, <1>5, <1>6, <1>7, <1>8

LEMMA RedactFiles ==
  ASSUME FilesInv, RowsStay, NEW l \in Loop, UNCHANGED <<calls, reviews, accepted>>,
         \/ LoadForRedact(l) \/ FetchManifest(l) \/ Render(l) \/ OutputOpens(l) \/ OutputCloses(l)
         \/ MarkComplete(l) \/ LostRace(l) \/ LostPurges(l)
  PROVE  FilesKept /\ ContractStep
<1> PICK j : j = loops[l].job
  OBVIOUS
<1>0. TypeInv /\ ~Doing(l, "idle") /\ j \in Job
  BY DEF LoadForRedact, FetchManifest, Render, OutputOpens, OutputCloses, MarkComplete, LostRace,
     LostPurges, Doing, FilesInv, ReviewInv, PlaceInv, OwnerInv, LoopsOwn, Owns
<1>1. status[j] \notin Tombstone /\ loops[l].at \in RedactStep =>
        /\ status[j] = "redacting" /\ store[j]["approved"] = accepted[j]
        /\ JobFiles(j) /\ LoopFiles(l)
  BY <1>0, LoopKnows DEF FilesInv, JobFiles
<1>2. CASE LoadForRedact(l) \/ Render(l) \/ LostRace(l)
  <2>1. UNCHANGED storeVars
    BY <1>2 DEF LoadForRedact, Render, LostRace
  <2>2. CASE \E e : Raise(l, e)
    BY <1>0, <2>1, <2>2, LoopOnlyFrame
  <2>3. CASE ~ \E e : Raise(l, e)
    <3>1. \/ Doing(l, "reload") /\ Goto(l, "fetch")
          \/ Doing(l, "render") /\ Goto(l, "open")
          \/ Doing(l, "lost") /\ Goto(l, "purge")
      BY <1>2, <2>3 DEF LoadForRedact, Render, LostRace, GotoIfActive
    <3>2. /\ \/ Doing(l, "reload") /\ loops'[l].at = "fetch"
             \/ Doing(l, "render") /\ loops'[l].at = "open"
             \/ Doing(l, "lost") /\ loops'[l].at = "purge"
          /\ loops'[l].job = j /\ loops'[l].review = loops[l].review
          /\ \A m \in Loop \ {l} : loops'[m] = loops[m]
      BY <1>0, <3>1, GotoLoop
    <3>3. LoopFiles(l)'
      BY <2>1, <3>2 DEF FilesInv, LoopFiles, storeVars, rowVars, Doing, DetectStep
    <3> QED
      BY <1>0, <2>1, <3>2, <3>3, LoopOnlyFrame
  <2> QED
    BY <2>2, <2>3
<1>3. CASE FetchManifest(l)
  <2>1. UNCHANGED storeVars
    BY <1>3 DEF FetchManifest
  <2>2. CASE Raise(l, "other")
    BY <1>0, <2>1, <2>2, LoopOnlyFrame
  <2>3. CASE ~Raise(l, "other")
    <3> DEFINE manifest == store[j]["approved"]
               new == [loops[l] EXCEPT !.at = "render", !.review = manifest]
    <3>1. loops' = [loops EXCEPT ![l] = new]
      BY <1>3, <2>3 DEF FetchManifest
    <3>2. loops[l] \in LoopState /\ loops \in [Loop -> LoopState]
      BY <1>0 DEF TypeInv, TypeOK, WorkerTypeOK
    <3>3. new.at = "render" /\ new.job = j /\ new.review = manifest
      BY <3>2 DEF LoopState
    <3> HIDE DEF new
    <3>4. /\ loops'[l].at = "render" /\ loops'[l].job = j /\ loops'[l].review = store[j]["approved"]
          /\ \A m \in Loop \ {l} : loops'[m] = loops[m]
      BY <3>1, <3>2, <3>3
    <3>5. LoopFiles(l)'
      BY <1>1, <1>3, <2>1, <3>4
      DEF FetchManifest, Doing, LoopFiles, storeVars, rowVars, DetectStep, RedactStep
    <3> QED
      BY <1>0, <2>1, <3>4, <3>5, LoopOnlyFrame
  <2> QED
    BY <2>2, <2>3
<1>4. CASE OutputOpens(l) \/ OutputCloses(l)
  <2>1. UNCHANGED rowVars /\ loops[l].at \in RedactStep
    BY <1>4 DEF OutputOpens, OutputCloses, Doing, RedactStep
  <2>2. "output" \in Key /\ {"input", "preview", "draft", "approved"} \subseteq Key \ {"output"}
    BY DEF Key
  <2>3. /\ \A i \in Job \ {j} : store'[i] = store[i]
        /\ \A k \in {"input", "preview", "draft", "approved"} : store'[j][k] = store[j][k]
        /\ OutputOpens(l) => store'[j]["output"] = Partial
        /\ OutputCloses(l) =>
             store'[j]["output"] = IF Stored(j, "output") THEN loops[l].review ELSE None
    BY <1>0, <1>4, <2>2, PutFiles, CloseFiles DEF OutputOpens, OutputCloses, OpenFile, Doing
  <2>4. /\ \/ OutputOpens(l) /\ loops'[l].at = "close"
           \/ OutputCloses(l) /\ loops'[l].at = "complete"
        /\ loops'[l].job = j /\ loops'[l].review = loops[l].review
        /\ \A m \in Loop \ {l} : loops'[m] = loops[m]
    BY <1>0, <1>4, GotoLoop DEF OutputOpens, OutputCloses
  <2>5. \A i \in Job \ {j} : SameJob(i)
    BY <2>1, <2>3, SameRowsSameJob
  <2>6. ASSUME status[j] \notin Tombstone
        PROVE  JobFiles(j)' /\ LoopFiles(l)' /\ Unmoved(j)
    <3>1. status[j] = "redacting" /\ UNCHANGED <<status, auto, paged>>
      BY <1>1, <2>1, <2>6 DEF rowVars
    <3>2. JobFiles(j)'
      BY <1>1, <2>1, <2>3, <2>6, <3>1 DEF JobFiles, Stored, Queued, InFlight, Reviewable
    <3>3. /\ loops[l].review = accepted[j]
          /\ OutputCloses(l) => Stored(j, "output")
      BY <1>1, <1>4, <2>1, <2>6 DEF LoopFiles, OutputOpens, OutputCloses, Doing
    <3>4. LoopFiles(l)'
      BY <2>3, <2>4, <3>3 DEF LoopFiles, Stored, StoreAssumption, DetectStep
    <3>5. Unmoved(j)
      BY <3>1 DEF Unmoved, Result
    <3> QED
      BY <3>2, <3>4, <3>5
  <2> QED
    BY <1>0, <2>1, <2>4, <2>5, <2>6, LoopWrites DEF rowVars
<1>5. CASE MarkComplete(l)
  <2>1. CASE ~Allows(j, {"redacting"})
    <3>1. UNCHANGED storeVars /\ Goto(l, "lost")
      BY <1>5, <2>1 DEF MarkComplete, storeVars
    <3>2. /\ loops'[l].at = "lost" /\ loops'[l].job = j
          /\ \A m \in Loop \ {l} : loops'[m] = loops[m]
      BY <1>0, <3>1, GotoLoop
    <3>3. LoopFiles(l)'
      BY <3>2 DEF LoopFiles, DetectStep
    <3> QED
      BY <1>0, <3>1, <3>2, <3>3, LoopOnlyFrame
  <2>2. CASE Allows(j, {"redacting"})
    <3>1. /\ status[j] = "redacting" /\ status[j] \notin Tombstone
          /\ UNCHANGED <<store, auto, paged>> /\ status'[j] = "complete" /\ Rest(l)
          /\ \A i \in Job \ {j} : status'[i] = status[i]
      BY <1>0, <1>5, <2>2, SetStatusElsewhere DEF MarkComplete, MoveRow, Allows, Tombstone
    <3>2. \A i \in Job \ {j} : SameJob(i)
      BY <3>1 DEF SameJob
    <3>3. store[j]["output"] = accepted[j] /\ accepted[j] <= reviews[j] /\ store[j]["input"] = Original
          /\ paged[j] /\ Stored(j, "preview") /\ Stored(j, "draft")
      BY <1>1, <1>5, <3>1 DEF MarkComplete, Doing, RedactStep, LoopFiles, JobFiles, InFlight
    <3>4. JobFiles(j)'
      BY <3>1, <3>3 DEF JobFiles, Stored, Queued, InFlight, Reviewable
    <3>5. auto[j] \/ accepted[j] > 0
      BY <1>0, <3>1 DEF FilesInv, ReviewInv, ManualJobReviewed
    <3>6. Moved(j)
      BY <3>1, <3>3, <3>5 DEF Moved, InFlight
    <3> QED
      BY <1>0, <3>1, <3>2, <3>4, <3>6, EndedLoop, LoopWrites
  <2> QED
    BY <2>1, <2>2
<1>6. CASE LostPurges(l)
  <2>1. UNCHANGED rowVars /\ \E e : Raise(l, e)
    BY <1>6 DEF LostPurges
  <2>2. \A i \in Job \ {j} : SameJob(i)
    BY <1>0, <1>6, <2>1, PrefixFiles, SameRowsSameJob DEF LostPurges
  <2>3. status[j] \in Tombstone
    BY <1>0, <1>6, Stages
    DEF LostPurges, Doing, FilesInv, ReviewInv, PlaceInv, OwnerInv, LoopsOwn, Owns
  <2> QED
    BY <1>0, <2>1, <2>2, <2>3, EndedLoop, LoopWrites DEF rowVars
<1> QED
  BY <1>2, <1>3, <1>4, <1>5, <1>6

LEMMA FaultFiles ==
  ASSUME FilesInv, RowsStay, NEW l \in Loop, UNCHANGED <<calls, reviews, accepted>>,
         FailLooks(l) \/ FailErases(l) \/ FailAmends(l) \/ ReleaseJob(l)
  PROVE  FilesKept /\ ContractStep
<1> PICK j : j = loops[l].job
  OBVIOUS
<1>0. TypeInv /\ ~Doing(l, "idle") /\ j \in Job
  BY DEF FailLooks, FailErases, FailAmends, ReleaseJob, Doing, FilesInv, ReviewInv, PlaceInv,
     OwnerInv, LoopsOwn, Owns
<1>1. CASE FailLooks(l)
  <2>1. UNCHANGED storeVars
    BY <1>1 DEF FailLooks
  <2>2. CASE Rest(l)
    BY <1>0, <2>1, <2>2, LoopOnlyFrame
  <2>3. CASE Goto(l, "erase")
    <3>1. /\ loops'[l].at = "erase" /\ loops'[l].job = j
          /\ \A m \in Loop \ {l} : loops'[m] = loops[m]
      BY <1>0, <2>3, GotoLoop
    <3>2. LoopFiles(l)'
      BY <3>1 DEF LoopFiles, DetectStep
    <3> QED
      BY <1>0, <2>1, <3>1, <3>2, LoopOnlyFrame
  <2> DEFINE error == IF loops[l].error = "validation" /\ status[j] = "redacting" /\ ~auto[j]
                      THEN "validation" ELSE "other"
             new == [loops[l] EXCEPT !.at = "amend", !.error = error]
  <2>4. CASE loops' = [loops EXCEPT ![l] = new]
    <3>1. loops[l] \in LoopState /\ loops \in [Loop -> LoopState]
      BY <1>0 DEF TypeInv, TypeOK, WorkerTypeOK
    <3>2. error = "validation" => ~auto[j]
      OBVIOUS
    <3> HIDE DEF error
    <3>3. new.at = "amend" /\ new.job = j /\ new.error = error
      BY <3>1 DEF LoopState
    <3> HIDE DEF new
    <3>4. /\ loops'[l].at = "amend" /\ loops'[l].job = j /\ loops'[l].error = error
          /\ \A m \in Loop \ {l} : loops'[m] = loops[m]
      BY <2>4, <3>1, <3>3
    <3>5. LoopFiles(l)'
      BY <2>1, <3>2, <3>4 DEF LoopFiles, DetectStep, storeVars, rowVars
    <3> QED
      BY <1>0, <2>1, <3>4, <3>5, LoopOnlyFrame
  <2>5. loops' = [loops EXCEPT ![l].at = "amend", ![l].error = error]
          => loops' = [loops EXCEPT ![l] = new]
    OBVIOUS
  <2> HIDE DEF new
  <2> QED
    BY <1>1, <2>2, <2>3, <2>4, <2>5 DEF FailLooks
<1>2. CASE FailErases(l)
  <2>1. UNCHANGED rowVars /\ Rest(l)
    BY <1>2 DEF FailErases
  <2>2. \A i \in Job \ {j} : SameJob(i)
    BY <1>0, <1>2, <2>1, PrefixFiles, SameRowsSameJob DEF FailErases
  <2>3. status[j] \in Tombstone
    BY <1>0, <1>2, Stages
    DEF FailErases, Doing, FilesInv, ReviewInv, PlaceInv, OwnerInv, LoopsOwn, Owns
  <2> QED
    BY <1>0, <2>1, <2>2, <2>3, EndedLoop, LoopWrites DEF rowVars
<1>3. CASE FailAmends(l) \/ ReleaseJob(l)
  <2>1. Rest(l) /\ UNCHANGED store
    BY <1>3 DEF FailAmends, ReleaseJob
  <2>2. CASE UNCHANGED rowVars
    BY <1>0, <2>1, <2>2, LoopOnlyFrame DEF storeVars
  <2>3. CASE ~UNCHANGED rowVars
    <3>1. /\ UNCHANGED <<auto, paged>>
          /\ \A i \in Job \ {j} : status'[i] = status[i]
          /\ status[j] \in InFlight /\ status[j] \notin Tombstone
          /\ \/ status'[j] = "failed"
             \/ status'[j] = "review_required" /\ status[j] = "redacting"
                  /\ Doing(l, "amend") /\ loops[l].error = "validation"
             \/ status'[j] = "queued_detection" /\ status[j] = "detecting"
      BY <1>0, <1>3, <2>3, SetStatusElsewhere
      DEF FailAmends, ReleaseJob, MoveRow, Allows, InFlight, Tombstone
    <3>2. \A i \in Job \ {j} : SameJob(i)
      BY <2>1, <3>1 DEF SameJob
    <3>3. JobFiles(j)
      BY <1>0 DEF FilesInv
    <3>4. CASE status'[j] = "failed"
      <4>1. JobFiles(j)'
        BY <2>1, <3>1, <3>3, <3>4 DEF JobFiles, Queued, InFlight, Reviewable
      <4>2. Moved(j)
        BY <3>1, <3>4 DEF Moved
      <4> QED
        BY <1>0, <2>1, <3>1, <3>2, <4>1, <4>2, EndedLoop, LoopWrites
    <3>5. CASE /\ status'[j] = "review_required" /\ status[j] = "redacting"
               /\ Doing(l, "amend") /\ loops[l].error = "validation"
      <4>1. JobFiles(j)'
        BY <2>1, <3>1, <3>3, <3>5 DEF JobFiles, Stored, Queued, InFlight, Reviewable
      <4>2. ~auto[j]
        BY <3>1, <3>5 DEF FilesInv, LoopFiles, Doing
      <4>3. Moved(j)
        BY <3>1, <3>5, <4>2 DEF Moved
      <4> QED
        BY <1>0, <2>1, <3>1, <3>2, <4>1, <4>3, EndedLoop, LoopWrites
    <3>6. CASE status'[j] = "queued_detection" /\ status[j] = "detecting"
      <4>1. JobFiles(j)'
        BY <2>1, <3>1, <3>3, <3>6 DEF JobFiles, Queued, InFlight, Reviewable
      <4>2. Unmoved(j)
        BY <3>1, <3>6, PhasesOf DEF Phases, Unmoved, Result, Queued, InFlight
      <4> QED
        BY <1>0, <2>1, <3>1, <3>2, <4>1, <4>2, EndedLoop, LoopWrites
    <3> QED
      BY <3>1, <3>4, <3>5, <3>6
  <2> QED
    BY <2>2, <2>3
<1> QED
  BY <1>1, <1>2, <1>3

\* No row, no file and no live loop changes, and no call but one that ends.
LEMMA QuietFiles ==
  ASSUME FilesInv, RowsStay, UNCHANGED <<status, auto, paged, store, reviews, accepted>>,
         UNCHANGED calls \/ Return(Cleaner), UNCHANGED loops \/ \A l \in Loop : loops'[l].at = "idle"
  PROVE  FilesKept /\ ContractStep
<1>1. \A j \in Job : SameJob(j)
  BY DEF SameJob
<1>2. \A j \in Job : JobFiles(j)' /\ Unmoved(j)
  BY <1>1, SameJobKeeps DEF FilesInv
<1>3. \A c \in Caller : CallFiles(c)'
  <2>1. CASE UNCHANGED calls
    BY <2>1 DEF FilesInv, CallFiles, Stored
  <2>2. CASE Return(Cleaner)
    <3>1. /\ CallFiles(Cleaner)'
          /\ \A d \in Caller \ {Cleaner} : calls'[d] = calls[d]
      <4>1. TypeInv /\ Cleaner \in Caller
        BY DEF FilesInv, ReviewInv, PlaceInv, OwnerInv, Caller
      <4>2. calls'[Cleaner].at = "idle" /\ \A d \in Caller \ {Cleaner} : calls'[d] = calls[d]
        BY <2>2, <4>1, ReturnCall
      <4> QED
        BY <4>2 DEF CallFiles, UploadStep, ReviewStep
    <3>2. \A c \in Caller \ {Cleaner} : CallFiles(c)'
      BY <3>1 DEF FilesInv, CallFiles, Stored
    <3> QED
      BY <3>1, <3>2
  <2> QED
    BY <2>1, <2>2
<1>4. \A l \in Loop : LoopFiles(l)'
  BY DEF FilesInv, LoopFiles, Stored
<1> QED
  BY <1>2, <1>3, <1>4 DEF FilesKept, ContractStep

\* A start puts the interrupted rows back where their loops had claimed them.
LEMMA StartFiles ==
  ASSUME FilesInv, RowsStay, WorkerStarts
  PROVE  FilesKept /\ ContractStep
<1>0. /\ TypeInv /\ UNCHANGED <<auto, paged, store, calls, reviews, accepted, loops>>
      /\ \A j \in Job :
           status'[j] = CASE status[j] = "detecting" -> "queued_detection"
                          [] status[j] = "redacting" -> "queued_redaction"
                          [] OTHER -> status[j]
  BY DEF WorkerStarts, RequeueRows, serviceVars, FilesInv, ReviewInv, PlaceInv, OwnerInv
<1>1. ASSUME NEW j \in Job
      PROVE  JobFiles(j)' /\ Unmoved(j)
  <2>1. JobFiles(j)
    BY DEF FilesInv
  <2>2. CASE status[j] \notin InFlight
    <3>1. SameJob(j)
      BY <1>0, <2>2 DEF SameJob, InFlight
    <3> QED
      BY <2>1, <3>1, SameJobKeeps
  <2>3. CASE status[j] \in InFlight
    <3>1. \/ status[j] = "detecting" /\ status'[j] = "queued_detection"
          \/ status[j] = "redacting" /\ status'[j] = "queued_redaction"
      BY <1>0, <2>3 DEF InFlight
    <3>2. JobFiles(j)'
      BY <1>0, <2>1, <3>1 DEF JobFiles, Stored, Queued, InFlight, Reviewable, Tombstone
    <3>3. Unmoved(j)
      BY <1>0, <3>1, PhasesOf DEF Phases, Unmoved, Result, Queued, InFlight
    <3> QED
      BY <3>2, <3>3
  <2> QED
    BY <2>2, <2>3
<1>2. ASSUME NEW c \in Caller
      PROVE  CallFiles(c)'
  <2>1. CASE calls[c].at = "idle"
    BY <1>0, <2>1, CallUndisturbed DEF UploadStep, ReviewStep
  <2>2. CASE calls[c].at # "idle" /\ status[calls[c].job] \in InFlight
    <3>1. status[calls[c].job] \notin Tombstone \cup Reviewable
            /\ status[calls[c].job] # "awaiting_upload"
      BY <2>2 DEF InFlight, Tombstone, Reviewable
    <3>2. calls[c].at \notin UploadStep \cup ReviewStep
      BY <3>1 DEF FilesInv, CallFiles, ReviewInv, PlaceInv, OwnerInv, FinalizeRead, ReviewStep
    <3> QED
      BY <1>0, <3>2, CallUndisturbed
  <2>3. CASE calls[c].at # "idle" /\ status[calls[c].job] \notin InFlight
    <3>1. calls[c].job \in Job
      BY <2>3 DEF FilesInv, ReviewInv, PlaceInv, CallsPlaced, Placed
    <3>2. SameJob(calls[c].job)
      BY <1>0, <2>3, <3>1 DEF SameJob, InFlight
    <3> QED
      BY <1>0, <3>2, CallUndisturbed
  <2> QED
    BY <2>1, <2>2, <2>3
<1>3. ASSUME NEW l \in Loop
      PROVE  LoopFiles(l)'
  BY <1>0, LoopUndisturbed DEF WorkerStarts, FilesInv, ReviewInv, PlaceInv, OwnerInv, DownIsIdle
<1> QED
  BY <1>1, <1>2, <1>3 DEF FilesKept, ContractStep

LEMMA ProcessFiles ==
  ASSUME FilesInv, RowsStay, ProcessNext
  PROVE  FilesKept /\ ContractStep
<1>1. CASE WorkerStops
  BY <1>1, QuietFiles DEF WorkerStops, storeVars, rowVars
<1>2. CASE WorkerExits \/ WorkerCrashes
  <2>1. \A l \in Loop : loops'[l].at = "idle"
    BY <1>2 DEF WorkerExits, WorkerCrashes, ProcessEnds, Resting
  <2>2. Return(Cleaner) /\ UNCHANGED <<storeVars, reviews, accepted>>
    BY <1>2 DEF WorkerExits, WorkerCrashes, ProcessEnds, Return
  <2> QED
    BY <2>1, <2>2, QuietFiles DEF storeVars, rowVars
<1>3. CASE WorkerStarts
  BY <1>3, StartFiles
<1> QED
  BY <1>1, <1>2, <1>3 DEF ProcessNext

LEMMA FilesStep ==
  ASSUME FilesInv, OneAtATime, [Next]_vars
  PROVE  FilesInv' /\ ContractStep
<1>0. RowsStay /\ ReviewInv'
  BY PlaceStep, ReviewStepKeeps DEF FilesInv, ReviewInv
<1>1. ASSUME NEW c \in Client, ClientNext(c)
      PROVE  FilesKept /\ ContractStep
  BY <1>0, <1>1, ClientFiles
<1>2. ASSUME NEW l \in Loop, LoopNext(l)
      PROVE  FilesKept /\ ContractStep
  <2>1. UNCHANGED <<calls, reviews, accepted>>
    BY <1>2, LoopSparesCalls
  <2> QED
    BY <1>0, <1>2, <2>1, ClaimFiles, DetectFiles, RedactFiles, FaultFiles DEF LoopNext
<1>3. ASSUME ProcessNext
      PROVE  FilesKept /\ ContractStep
  BY <1>0, <1>3, ProcessFiles
<1>4. ASSUME Cleanup
      PROVE  FilesKept /\ ContractStep
  BY <1>0, <1>4, CleanupFiles
<1>5. ASSUME ClockNext \/ UNCHANGED vars
      PROVE  FilesKept /\ ContractStep
  BY <1>0, <1>5, QuietFiles
  DEF ClockNext, Deadline, vars, storeVars, rowVars, serviceVars, workerVars
<1> QED
  BY <1>0, <1>1, <1>2, <1>3, <1>4, <1>5 DEF Next, FilesKept, FilesInv

LEMMA FilesInit == Init => FilesInv
<1> SUFFICES ASSUME Init PROVE FilesInv
  OBVIOUS
<1>1. ReviewInv
  <2>1. AutoAsClaimed
    BY DEF Init, WorkerInit, AutoAsClaimed, Resting, DetectStep
  <2>2. ManualJobReviewed
    BY DEF Init, StoreInit, ManualJobReviewed
  <2> QED
    BY <2>1, <2>2, TypeInit, OwnerInit, PlaceInit DEF ReviewInv, PlaceInv, OwnerInv
<1>2. \A j \in Job : JobFiles(j)
  BY DEF Init, StoreInit, ServiceInit, JobFiles, Original, Queued, InFlight, Reviewable
<1>3. \A c \in Caller : CallFiles(c)
  BY DEF Init, ServiceInit, CallFiles, NoCall, UploadStep, ReviewStep
<1>4. \A l \in Loop : LoopFiles(l)
  BY DEF Init, WorkerInit, LoopFiles, Resting
<1> QED
  BY <1>1, <1>2, <1>3, <1>4 DEF FilesInv

LEMMA FilesInvariant == Spec /\ []OneAtATime => []FilesInv
<1>1. Init => FilesInv
  BY FilesInit
<1>2. FilesInv /\ OneAtATime /\ [Next]_vars => FilesInv'
  BY FilesStep
<1> QED
  BY <1>1, <1>2, PTL DEF Spec

\* Every stage finds the files the earlier ones were to leave, as long as no
\* upload overlaps a submit, and no review another, of the same job: whatever
\* else overlaps, and whatever fails, stops or is deleted meanwhile.
THEOREM StagesHaveTheirFiles == Spec /\ []OneAtATime => []StageHasItsFiles
<1>1. FilesInv => StageHasItsFiles
  <2> SUFFICES ASSUME FilesInv, NEW j \in Job
               PROVE  /\ status[j] \in Queued \cup InFlight \cup Reviewable =>
                           store[j]["input"] = Original
                      /\ status[j] \in Reviewable \cup {"queued_redaction", "redacting"} =>
                           paged[j] /\ Stored(j, "preview") /\ Stored(j, "draft")
                      /\ status[j] = "queued_redaction" => store[j]["approved"] \in Review
                      /\ status[j] = "complete" => store[j]["output"] \in Review
    BY DEF StageHasItsFiles
  <2>1. accepted[j] \in Review
    BY DEF FilesInv, ReviewInv, PlaceInv, OwnerInv, TypeInv, TypeOK, ServiceTypeOK
  <2> QED
    BY <2>1 DEF FilesInv, JobFiles, Queued, InFlight, Reviewable, Tombstone
<1> QED
  BY <1>1, FilesInvariant, PTL

\* A completed job delivers the boxes of the last accepted review, as long as
\* no two reviews of it, and no upload and submit, overlap.
THEOREM AcceptedReviewsAreDelivered == Spec /\ []OneAtATime => []AcceptedReviewDelivered
<1>1. FilesInv => AcceptedReviewDelivered
  BY DEF FilesInv, JobFiles, AcceptedReviewDelivered, Tombstone
<1> QED
  BY <1>1, FilesInvariant, PTL

\* The output of a completed job changes only by a deletion or after a review
\* reopened the job, as long as no two reviews of it, and no upload and
\* submit, overlap.
THEOREM CompletedOutputsAreStable == Spec /\ []OneAtATime => CompletedOutputStable
<1>1. FilesInv /\ OneAtATime /\ [Next]_vars =>
        [\A j \in Job : status[j] = "complete" /\ status'[j] = "complete"
                          => store'[j]["output"] = store[j]["output"]]_vars
  <2> SUFFICES ASSUME FilesInv, OneAtATime, [Next]_vars, NEW j \in Job,
                      status[j] = "complete", status'[j] = "complete"
               PROVE  store'[j]["output"] = store[j]["output"]
    OBVIOUS
  <2>1. Unmoved(j) \/ Moved(j)
    BY FilesStep DEF ContractStep
  <2>2. ~Moved(j)
    BY DEF Moved, InFlight, Reviewable, Tombstone
  <2> QED
    BY <2>1, <2>2 DEF Unmoved, Result
<1> QED
  BY <1>1, FilesInvariant, PTL DEF Spec, CompletedOutputStable

-----------------------------------------------------------------------------
(* The contract.  A step that moves one job is the contract's step of that *)
(* job; every other step is a stutter.                                     *)

Phase   == [j \in Job |-> PhaseOf(status[j])]
Results == [j \in Job |-> Result(j)]

\* What a step that moves only job j does to the contract's variables.
LEMMA OnlyOneMoves ==
  ASSUME TypeInv, TypeInv', NEW j \in Job, \A i \in Job \ {j} : Unmoved(i)
  PROVE  /\ Phase' = [Phase EXCEPT ![j] = PhaseOf(status'[j])]
         /\ auto' = [auto EXCEPT ![j] = auto'[j]]
         /\ accepted' = [accepted EXCEPT ![j] = accepted'[j]]
         /\ Results' = [Results EXCEPT ![j] = Result(j)']
         /\ auto'[j] \in BOOLEAN /\ accepted'[j] \in Review
<1>0. /\ auto \in [Job -> BOOLEAN] /\ auto' \in [Job -> BOOLEAN]
      /\ accepted \in [Job -> Review] /\ accepted' \in [Job -> Review]
  BY DEF TypeInv, TypeOK, StoreTypeOK, ServiceTypeOK
<1>1. Phase' = [Phase EXCEPT ![j] = PhaseOf(status'[j])]
  BY DEF Phase, Unmoved
<1>2. auto' = [auto EXCEPT ![j] = auto'[j]]
  BY <1>0 DEF Unmoved
<1>3. accepted' = [accepted EXCEPT ![j] = accepted'[j]]
  BY <1>0 DEF Unmoved
<1>4. Results' = [Results EXCEPT ![j] = Result(j)']
  BY DEF Results, Unmoved
<1> QED
  BY <1>0, <1>1, <1>2, <1>3, <1>4

LEMMA ContractNext ==
  ASSUME TypeInv, TypeInv', NEW j \in Job, Moved(j), \A i \in Job \ {j} : Unmoved(i)
  PROVE  Contract!Next
<1> DEFINE P == [i \in Job |-> PhaseOf(status[i])]
           R == [i \in Job |-> IF status[i] = "complete" THEN store[i]["output"] ELSE None]
<1>0. /\ P' = [P EXCEPT ![j] = PhaseOf(status'[j])] /\ P[j] = PhaseOf(status[j])
      /\ auto' = [auto EXCEPT ![j] = auto'[j]]
      /\ accepted' = [accepted EXCEPT ![j] = accepted'[j]]
      /\ R' = [R EXCEPT ![j] = Result(j)'] /\ R[j] = Result(j)
      /\ auto'[j] \in BOOLEAN /\ accepted'[j] \in Review
  BY OnlyOneMoves DEF Phase, Results, Result
<1>1. /\ auto = [auto EXCEPT ![j] = auto[j]]
      /\ accepted = [accepted EXCEPT ![j] = accepted[j]]
      /\ R = [R EXCEPT ![j] = R[j]]
  <2>1. auto = [auto EXCEPT ![j] = auto[j]]
    BY DEF TypeInv, TypeOK, StoreTypeOK
  <2>2. accepted = [accepted EXCEPT ![j] = accepted[j]]
    BY DEF TypeInv, TypeOK, ServiceTypeOK
  <2> QED
    BY <2>1, <2>2
<1>2. /\ auto'[j] = auto[j] => auto' = auto
      /\ accepted'[j] = accepted[j] => accepted' = accepted
      /\ Result(j)' = Result(j) => R' = R
  <2> HIDE DEF P, R
  <2> QED
    BY <1>0, <1>1
<1> HIDE DEF P, R
<1>3. ASSUME status[j] = "none", status'[j] = "awaiting_upload", accepted'[j] = accepted[j]
      PROVE  Contract!Begin(j)
  <2>1. P[j] = "absent" /\ PhaseOf(status'[j]) = "open" /\ Result(j)' = Result(j)
    BY <1>0, <1>3, PhasesOf DEF Phases, Result
  <2> QED
    BY <1>0, <1>2, <1>3, <2>1 DEF Contract!Begin, Contract!Moves, P, R
<1>4. ASSUME status[j] = "awaiting_upload", status'[j] = "queued_detection",
             auto'[j] = auto[j], accepted'[j] = accepted[j]
      PROVE  Contract!Accept(j)
  <2>1. P[j] = "open" /\ PhaseOf(status'[j]) = "working" /\ Result(j)' = Result(j)
    BY <1>0, <1>4, PhasesOf DEF Phases, Result, Queued
  <2> QED
    BY <1>0, <1>2, <1>4, <2>1 DEF Contract!Accept, Contract!Moves, P, R
<1>5. ASSUME status[j] = "awaiting_upload" \/ status[j] \in InFlight, status'[j] = "failed",
             auto'[j] = auto[j], accepted'[j] = accepted[j]
      PROVE  Contract!Fail(j)
  <2>1. P[j] \in {"open", "working"} /\ PhaseOf(status'[j]) = "failed" /\ Result(j)' = Result(j)
    BY <1>0, <1>5, PhasesOf DEF Phases, Result, InFlight
  <2> QED
    BY <1>0, <1>2, <1>5, <2>1 DEF Contract!Fail, Contract!Moves, P, R
<1>6. ASSUME status[j] \in InFlight, status'[j] = "review_required", ~auto[j],
             auto'[j] = auto[j], accepted'[j] = accepted[j]
      PROVE  Contract!Ask(j)
  <2>1. P[j] = "working" /\ PhaseOf(status'[j]) = "review" /\ Result(j)' = Result(j)
    BY <1>0, <1>6, PhasesOf DEF Phases, Result, InFlight
  <2> QED
    BY <1>0, <1>2, <1>6, <2>1 DEF Contract!Ask, Contract!Moves, P, R
<1>7. ASSUME status[j] \in Reviewable, status'[j] = "queued_redaction",
             auto'[j] = FALSE, accepted'[j] > accepted[j]
      PROVE  Contract!Approve(j)
  <2>1. /\ P[j] \in {"review", "complete"} /\ PhaseOf(status'[j]) = "working"
        /\ Result(j)' = None
    BY <1>0, <1>7, PhasesOf DEF Phases, Result, Reviewable, Queued
  <2> QED
    BY <1>0, <1>7, <2>1 DEF Contract!Approve, Contract!Moves, P, R
<1>8. ASSUME status[j] \in InFlight, status'[j] = "complete", auto[j] \/ accepted[j] > 0,
             store'[j]["output"] = accepted[j], auto'[j] = auto[j], accepted'[j] = accepted[j]
      PROVE  Contract!Deliver(j)
  <2>1. P[j] = "working" /\ PhaseOf(status'[j]) = "complete" /\ Result(j)' = accepted[j]
    BY <1>0, <1>8, PhasesOf DEF Phases, Result, InFlight
  <2> QED
    BY <1>0, <1>2, <1>8, <2>1 DEF Contract!Deliver, Contract!Moves, P, R
<1>9. ASSUME status[j] \notin Tombstone \cup {"none"}, status'[j] \in Tombstone,
             auto'[j] = auto[j], accepted'[j] = accepted[j]
      PROVE  Contract!Erase(j)
  <2>1. status[j] \in JobStatus \ Tombstone
    BY <1>9 DEF TypeInv, TypeOK, StoreTypeOK
  <2>2. P[j] \in {"open", "working", "review", "complete", "failed"}
    BY <1>0, <2>1, PhasesOf DEF Phases, JobStatus
  <2>3. PhaseOf(status'[j]) = "erased" /\ Result(j)' = None
    BY <1>9, PhasesOf DEF Phases, Result, Tombstone
  <2> QED
    BY <1>0, <1>2, <1>9, <2>2, <2>3 DEF Contract!Erase, Contract!Moves, P, R
<1> QED
  BY <1>3, <1>4, <1>5, <1>6, <1>7, <1>8, <1>9 DEF Contract!Next, Moved

\* Every step of the deployment, with its loops, threads, faults and clock, is
\* a step of the contract or none, as long as no upload overlaps a submit, and
\* no review another, of the same job.
THEOREM DeploymentKeepsContract == Spec /\ []OneAtATime => KeepsContract
<1>1. Init => Contract!Init
  BY PhasesOf DEF Init, StoreInit, ServiceInit, Original, Contract!Init, Phases
<1>2. FilesInv /\ OneAtATime /\ [Next]_vars => [Contract!Next]_(Contract!contractVars)
  <2> SUFFICES ASSUME FilesInv, OneAtATime, [Next]_vars
               PROVE  Contract!Next \/ UNCHANGED Contract!contractVars
    OBVIOUS
  <2>1. TypeInv /\ TypeInv' /\ ContractStep
    BY FilesStep DEF FilesInv, ReviewInv, PlaceInv, OwnerInv
  <2>2. ASSUME NEW j \in Job, Moved(j), \A i \in Job \ {j} : Unmoved(i)
        PROVE  Contract!Next
    BY <2>1, <2>2, ContractNext
  <2>3. ASSUME \A i \in Job : Unmoved(i)
        PROVE  UNCHANGED Contract!contractVars
    <3>1. UNCHANGED auto /\ UNCHANGED accepted
      BY <2>1, <2>3 DEF Unmoved, TypeInv, TypeOK, StoreTypeOK, ServiceTypeOK
    <3> QED
      BY <2>3, <3>1 DEF Unmoved, Result, Contract!contractVars
  <2> QED
    BY <2>1, <2>2, <2>3 DEF ContractStep
<1> QED
  BY <1>1, <1>2, FilesInvariant, PTL DEF Spec, KeepsContract, Contract!Spec

-----------------------------------------------------------------------------
(* One editor.  The overlaps excluded above need two clients who each make *)
(* the calls concerned: the ones of a job that is created, uploaded and    *)
(* submitted from one tab, reviewed from one tab and deleted or polled     *)
(* from any number of others do not.                                       *)

Uploads(c) == Calls[c] \cap {"upload", "submit"} # {}
Reviews(c) == "finalize" \in Calls[c]

\* One client at most uploads and submits, and one at most reviews.
OneEditor == \A c, d \in Client :
  c # d => ~(Uploads(c) /\ Uploads(d)) /\ ~(Reviews(c) /\ Reviews(d))

\* A call is of a kind its caller makes.
CallsFit == \A c \in Caller :
  /\ calls[c].at \in UploadStep => c \in Client /\ Uploads(c)
  /\ calls[c].at \in ReviewStep => c \in Client /\ Reviews(c)

LEMMA FitKept ==
  ASSUME CallsFit, NEW c \in Caller, \A d \in Caller \ {c} : calls'[d] = calls[d],
         calls'[c].at \in UploadStep => calls[c].at \in UploadStep \/ (c \in Client /\ Uploads(c)),
         calls'[c].at \in ReviewStep => calls[c].at \in ReviewStep \/ (c \in Client /\ Reviews(c))
  PROVE  CallsFit'
BY DEF CallsFit, Uploads, Reviews

\* A call that goes on in its own part of the service, or in one that fits all.
LEMMA ProceedFits ==
  ASSUME TypeInv, CallsFit, NEW c \in Caller,
         \/ Return(c)
         \/ \E step \in CallStep :
              /\ Proceed(c, step)
              /\ step \in UploadStep => calls[c].at \in UploadStep
              /\ step \in ReviewStep => calls[c].at \in ReviewStep
  PROVE  CallsFit'
<1>1. CASE Return(c)
  <2>1. calls'[c].at = "idle" /\ \A d \in Caller \ {c} : calls'[d] = calls[d]
    BY <1>1, ReturnCall
  <2> QED
    BY <2>1, FitKept DEF UploadStep, ReviewStep
<1>2. ASSUME NEW step \in CallStep, Proceed(c, step),
             step \in UploadStep => calls[c].at \in UploadStep,
             step \in ReviewStep => calls[c].at \in ReviewStep
      PROVE  CallsFit'
  <2>1. calls'[c].at = step /\ \A d \in Caller \ {c} : calls'[d] = calls[d]
    BY <1>2, ProceedCall
  <2> QED
    BY <1>2, <2>1, FitKept
<1> QED
  BY <1>1, <1>2

\* A call that begins, with the step its first look at the row leads to.
LEMMA BeginFits ==
  ASSUME TypeInv, CallsFit, NEW c \in Caller, NEW new, calls' = [calls EXCEPT ![c] = new],
         new.at \in UploadStep => c \in Client /\ Uploads(c),
         new.at \in ReviewStep => c \in Client /\ Reviews(c)
  PROVE  CallsFit'
<1>1. calls'[c] = new /\ \A d \in Caller \ {c} : calls'[d] = calls[d]
  BY DEF TypeInv, TypeOK, ServiceTypeOK
<1> QED
  BY <1>1, FitKept

LEMMA ClientStartsFits ==
  ASSUME TypeInv, CallsFit, NEW c \in Client, ClientStarts(c)
  PROVE  CallsFit'
<1>0. /\ c \in Caller
      /\ \A j, step : CallOn(j, step).at = step
      /\ NoCall.at = "idle"
  BY DEF Caller, CallOn, NoCall
<1> PICK j \in Job : \/ CreateJob(c, j) \/ Poll(c, j) \/ Upload(c, j)
                     \/ Submit(c, j) \/ Finalize(c, j) \/ Delete(c, j)
  BY DEF ClientStarts
<1>1. CASE CreateJob(c, j)
  BY <1>1 DEF CreateJob, serviceVars, CallsFit
<1>2. ASSUME NEW kind, NEW next, RequireJob(c, kind, j, next),
             next.at \in UploadStep => Uploads(c), next.at \in ReviewStep => Reviews(c)
      PROVE  CallsFit'
  <2> DEFINE new == IF due[j] THEN CallOn(j, "mark") ELSE next
  <2>1. calls' = [calls EXCEPT ![c] = new]
    BY <1>2 DEF RequireJob
  <2>2. (new.at \in UploadStep => Uploads(c)) /\ (new.at \in ReviewStep => Reviews(c))
    BY <1>0, <1>2 DEF UploadStep, ReviewStep
  <2> HIDE DEF new
  <2> QED
    BY <1>0, <2>1, <2>2, BeginFits
<1>3. CASE Poll(c, j)
  BY <1>0, <1>2, <1>3 DEF Poll, UploadStep, ReviewStep
<1>4. CASE Upload(c, j)
  <2>1. Uploads(c)
    BY <1>4 DEF Upload, RequireJob, Uploads
  <2> QED
    BY <1>0, <1>2, <1>4, <2>1 DEF Upload, ReviewStep
<1>5. CASE Submit(c, j)
  <2>1. Uploads(c)
    BY <1>5 DEF Submit, RequireJob, Uploads
  <2> QED
    BY <1>0, <1>2, <1>5, <2>1 DEF Submit, ReviewStep
<1>6. CASE Finalize(c, j)
  <2> DEFINE next == [at |-> "manifest", job |-> j, was |-> status[j], review |-> reviews[j] + 1]
  <2>1. RequireJob(c, "finalize", j, next)
    BY <1>6 DEF Finalize
  <2>2. Reviews(c)
    BY <2>1 DEF RequireJob, Reviews
  <2>3. next.at \notin UploadStep
    BY DEF UploadStep
  <2> HIDE DEF next
  <2> QED
    BY <1>2, <2>1, <2>2, <2>3
<1>7. CASE Delete(c, j)
  <2> DEFINE step == IF status[j] = "deleted" THEN "purge" ELSE "tombstone"
  <2>1. calls' = [calls EXCEPT ![c] = CallOn(j, step)]
    BY <1>7 DEF Delete
  <2>2. step \notin UploadStep \cup ReviewStep
    BY DEF UploadStep, ReviewStep
  <2>3. CallOn(j, step).at = step
    BY DEF CallOn, NoCall
  <2> HIDE DEF step
  <2> QED
    BY <1>0, <2>1, <2>2, <2>3, BeginFits
<1> QED
  BY <1>1, <1>3, <1>4, <1>5, <1>6, <1>7

LEMMA ContinueFits ==
  ASSUME TypeInv, CallsFit, NEW c \in Caller, CallContinues(c) \/ CallDies(c)
  PROVE  CallsFit'
<1>0. /\ UploadStep = {"stream", "copy", "head", "reject", "refuse", "accept"}
      /\ ReviewStep = {"manifest", "approve", "write", "queue"}
      /\ UploadStep \cup ReviewStep \cup {"purge", "sweep", "seal"} \subseteq CallStep
  BY DEF UploadStep, ReviewStep, CallStep
<1>1. CASE UploadBreaks(c) \/ UploadOpens(c) \/ UploadCloses(c)
  BY <1>0, <1>1, ProceedFits DEF UploadBreaks, UploadOpens, UploadCloses, In
<1>2. CASE SubmitReadsInput(c) \/ SubmitRejects(c) \/ SubmitRefuses(c) \/ SubmitAccepts(c)
  BY <1>0, <1>2, ProceedFits
  DEF SubmitReadsInput, SubmitRejects, SubmitRefuses, SubmitAccepts, In
<1>3. CASE FinalizeReadsManifest(c)
  <2>1. calls[c].at = "manifest"
    BY <1>3 DEF FinalizeReadsManifest, In
  <2>2. CASE Proceed(c, "approve") \/ Return(c)
    BY <1>0, <2>1, <2>2, ProceedFits
  <2>3. CASE calls' = [calls EXCEPT ![c] = CallOn(calls[c].job, "mark")]
    <3>1. CallOn(calls[c].job, "mark").at = "mark"
      BY DEF CallOn, NoCall
    <3> QED
      BY <1>0, <2>3, <3>1, BeginFits
  <2> QED
    BY <1>3, <2>2, <2>3, Zenon DEF FinalizeReadsManifest, Proceed, Return
<1>4. CASE FinalizeOpensManifest(c) \/ FinalizeClosesManifest(c) \/ FinalizeQueues(c)
  BY <1>0, <1>4, ProceedFits
  DEF FinalizeOpensManifest, FinalizeClosesManifest, FinalizeQueues, In
<1>5. CASE DeleteMarks(c) \/ DeletePurges(c) \/ CallDies(c)
  BY <1>0, <1>5, ProceedFits DEF DeleteMarks, DeletePurges, CallDies
<1>6. CASE ExpireNext(c)
  BY <1>0, <1>6, ProceedFits DEF ExpireNext, ExpireMarks, ExpireSweeps, ExpireSeals
<1> QED
  BY <1>1, <1>2, <1>3, <1>4, <1>5, <1>6 DEF CallContinues

LEMMA FitStep ==
  ASSUME TypeInv, CallsFit, [Next]_vars
  PROVE  CallsFit'
<1>0. Cleaner \in Caller /\ Client \subseteq Caller
  BY DEF Caller
<1>1. ASSUME NEW c \in Client, ClientNext(c)
      PROVE  CallsFit'
  BY <1>0, <1>1, ClientStartsFits, ContinueFits DEF ClientNext
<1>2. ASSUME UNCHANGED calls \/ Return(Cleaner)
      PROVE  CallsFit'
  BY <1>0, <1>2, ProceedFits DEF CallsFit
<1>3. CASE Cleanup
  <2>1. CASE CleanupLists
    BY <1>2, <2>1 DEF CleanupLists
  <2>2. CASE CleanupExpires
    <3> PICK row \in batch :
          calls' = [calls EXCEPT ![Cleaner] = CallOn(row[1], IF row[2] THEN "sweep" ELSE "mark")]
      BY <2>2 DEF CleanupExpires
    <3> DEFINE new == CallOn(row[1], IF row[2] THEN "sweep" ELSE "mark")
    <3>1. new.at \in {"sweep", "mark"}
      BY DEF CallOn, NoCall
    <3> HIDE DEF new
    <3>2. new.at \notin UploadStep \cup ReviewStep
      BY <3>1 DEF UploadStep, ReviewStep
    <3>3. calls' = [calls EXCEPT ![Cleaner] = new]
      BY DEF new
    <3> QED
      BY <1>0, <3>2, <3>3, BeginFits
  <2>3. CASE ExpireNext(Cleaner)
    BY <1>0, <2>3, ContinueFits DEF CallContinues
  <2> QED
    BY <1>3, <2>1, <2>2, <2>3 DEF Cleanup, CleanerNext
<1>4. ASSUME NEW l \in Loop, LoopNext(l)
      PROVE  CallsFit'
  BY <1>2, <1>4, LoopSparesCalls
<1>5. CASE ProcessNext
  BY <1>2, <1>5, ProcessSparesCalls
<1>6. CASE ClockNext \/ UNCHANGED vars
  BY <1>2, <1>6 DEF ClockNext, vars, serviceVars
<1> QED
  BY <1>1, <1>3, <1>4, <1>5, <1>6 DEF Next

LEMMA OneEditorWorksOneAtATime ==
  ASSUME OneEditor
  PROVE  Spec => []OneAtATime
<1>1. Init => CallsFit
  BY DEF Init, ServiceInit, CallsFit, NoCall, UploadStep, ReviewStep
<1>2. TypeInv /\ CallsFit /\ [Next]_vars => CallsFit'
  BY FitStep
<1>3. CallsFit => OneAtATime
  BY DEF CallsFit, OneAtATime, OneEditor
<1>4. PlaceInv => TypeInv
  BY DEF PlaceInv, OwnerInv
<1> QED
  BY <1>1, <1>2, <1>3, <1>4, PlaceInvariant, PTL DEF Spec

\* With one client to upload and submit and one to review, and any number that
\* delete and poll, the deployment implements the contract, every stage has its
\* files and every delivery is of the last accepted review, whatever fails.
THEOREM OneEditorIsServed ==
  ASSUME OneEditor
  PROVE  Spec => /\ KeepsContract
                 /\ [](StageHasItsFiles /\ AcceptedReviewDelivered)
                 /\ CompletedOutputStable
BY OneEditorWorksOneAtATime, DeploymentKeepsContract, StagesHaveTheirFiles,
   AcceptedReviewsAreDelivered, CompletedOutputsAreStable, PTL

=============================================================================
