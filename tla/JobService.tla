----------------------------- MODULE JobService -----------------------------
(***************************************************************************)
(* The calls of the job API (api/main.py and service.py), each split where *)
(* it touches a store, so that calls in different server threads and the   *)
(* worker interleave between any two accesses.  A client issues one call   *)
(* at a time; several clients (tabs, devices, retries of a call that timed *)
(* out) may hold the token of the same job.                                *)
(***************************************************************************)
EXTENDS JobStore

CONSTANTS
  Client,   \* callers of the API
  Cleaner,  \* the retention-cleanup thread, which runs the same service code
  Calls,    \* Calls[c]: the kinds of call client c makes
  Faults,   \* the kinds of fault that happen
  MaxFaults \* bound: faults in a behaviour

CallKind  == {"create", "upload", "submit", "finalize", "delete", "poll"}
FaultKind == {"call_dies", "storage_error", "detector_down", "worker_stops", "worker_crash"}

ASSUME ServiceAssumption ==
  /\ Cleaner \notin Client
  /\ Calls \in [Client -> SUBSET CallKind]
  /\ Faults \subseteq FaultKind
  /\ MaxFaults \in Nat

VARIABLES
  calls,    \* the call each caller is in
  batch,    \* the rows the cleaner listed and has not handled yet
  reviews,  \* how many finalize calls each job got
  accepted, \* the last review a finalize call was answered yes to
  faults    \* how many faults have happened

serviceVars == <<calls, batch, reviews, accepted, faults>>

Caller == Client \cup {Cleaner}

CallStep == {"idle", "stream", "copy", "head", "reject", "refuse", "accept", "manifest",
             "approve", "write", "queue", "tombstone", "purge", "mark", "sweep", "seal"}

\* was: the status finalize read; review: the boxes it carries.
Call == [at : CallStep, job : Job \cup {None}, was : JobStatus \cup {None}, review : Review]

NoCall == [at |-> "idle", job |-> None, was |-> None, review |-> Original]

CallOn(j, step) == [NoCall EXCEPT !.at = step, !.job = j]

ServiceTypeOK ==
  /\ calls \in [Caller -> Call]
  /\ batch \subseteq Job \X BOOLEAN
  /\ reviews \in [Job -> Review]
  /\ accepted \in [Job -> Review]
  /\ faults \in 0 .. MaxFaults

ServiceInit ==
  /\ calls = [c \in Caller |-> NoCall]
  /\ batch = {}
  /\ reviews = [j \in Job |-> 0]
  /\ accepted = [j \in Job |-> Original]
  /\ faults = 0

Fault(kind) ==
  /\ kind \in Faults /\ faults < MaxFaults
  /\ faults' = faults + 1

NoFault == UNCHANGED faults

In(c, step) == calls[c].at = step

Proceed(c, step) == calls' = [calls EXCEPT ![c].at = step]

Return(c) == calls' = [calls EXCEPT ![c] = NoCall]

-----------------------------------------------------------------------------
(* Every call but delete starts with require_job: a tombstone is answered  *)
(* 404 and an overdue job is expired before the 404.  A call refused on    *)
(* what it reads here changes nothing and is not a step of the model.      *)

RequireJob(c, kind, j, next) ==
  /\ kind \in Calls[c]
  /\ calls[c] = NoCall
  /\ status[j] \in Live
  /\ calls' = [calls EXCEPT ![c] = IF due[j] THEN CallOn(j, "mark") ELSE next]
  /\ UNCHANGED <<storeVars, batch, accepted>>
  /\ NoFault

\* create_job; AbuseLimits decide whether a client may come this far.
CreateJob(c, j) ==
  /\ "create" \in Calls[c]
  /\ calls[c] = NoCall
  /\ \E automatic \in BOOLEAN : InsertRow(j, automatic)
  /\ UNCHANGED <<store, serviceVars>>

\* The status, manifest, preview and result endpoints: only an overdue job
\* makes them write.
Poll(c, j) ==
  /\ due[j]
  /\ RequireJob(c, "poll", j, NoCall)
  /\ UNCHANGED reviews

-----------------------------------------------------------------------------
(* upload_local_content.                                                   *)

Upload(c, j) ==
  /\ due[j] \/ status[j] = "awaiting_upload"
  /\ RequireJob(c, "upload", j, CallOn(j, "stream"))
  /\ UNCHANGED reviews

\* The stream breaks off, or its size is not the announced one.
UploadBreaks(c) ==
  /\ In(c, "stream")
  /\ Return(c)
  /\ UNCHANGED <<storeVars, batch, reviews, accepted, faults>>

\* The handler is a coroutine and copies without awaiting, so two uploads
\* never copy at the same time.
UploadOpens(c) ==
  /\ In(c, "stream")
  /\ \A other \in Client : ~In(other, "copy")
  /\ OpenFile(calls[c].job, "input")
  /\ Proceed(c, "copy")
  /\ UNCHANGED <<rowVars, batch, reviews, accepted, faults>>

UploadCloses(c) ==
  /\ In(c, "copy")
  /\ \E content \in {Original, Invalid} : CloseFile(calls[c].job, "input", content)
  /\ Return(c)
  /\ UNCHANGED <<rowVars, batch, reviews, accepted, faults>>

-----------------------------------------------------------------------------
(* submit.                                                                 *)

Submit(c, j) ==
  /\ due[j] \/ status[j] = "awaiting_upload"
  /\ RequireJob(c, "submit", j, CallOn(j, "head"))
  /\ UNCHANGED reviews

\* Mutant: the size is not compared.
SubmitReadsInputUnsized(c) ==
  /\ In(c, "head")
  /\ LET input == store[calls[c].job]["input"] IN
       \/ input = None /\ Return(c)
       \/ input = Invalid /\ Proceed(c, "reject")
       \/ input \in {Partial, Original} /\ Proceed(c, "accept")
  /\ UNCHANGED <<storeVars, batch, reviews, accepted, faults>>

\* head, the size test and the magic bytes, read as one.
SubmitReadsInput(c) ==
  /\ In(c, "head")
  /\ LET input == store[calls[c].job]["input"] IN
       \/ input = None /\ Return(c)
       \/ input \in {Partial, Invalid} /\ Proceed(c, "reject")
       \/ input = Original /\ Proceed(c, "accept")
  /\ UNCHANGED <<storeVars, batch, reviews, accepted, faults>>

SubmitRejects(c) ==
  /\ In(c, "reject")
  /\ \/ DeletePrefix(calls[c].job) /\ Proceed(c, "refuse") /\ NoFault
     \/ DeletePrefixFails(calls[c].job) /\ Return(c) /\ Fault("storage_error")
  /\ UNCHANGED <<rowVars, batch, reviews, accepted>>

SubmitRefuses(c) ==
  /\ In(c, "refuse")
  /\ IF Allows(calls[c].job, {"awaiting_upload"})
     THEN MoveRow(calls[c].job, {"awaiting_upload"}, "failed")
     ELSE UNCHANGED rowVars
  /\ Return(c)
  /\ UNCHANGED <<store, batch, reviews, accepted, faults>>

\* The local queue is the jobs table itself: enqueue does nothing.
SubmitAccepts(c) ==
  /\ In(c, "accept")
  /\ IF Allows(calls[c].job, {"awaiting_upload"})
     THEN MoveRow(calls[c].job, {"awaiting_upload"}, "queued_detection")
     ELSE UNCHANGED rowVars
  /\ Return(c)
  /\ UNCHANGED <<store, batch, reviews, accepted, faults>>

-----------------------------------------------------------------------------
(* finalize.                                                               *)

Reviewable == {"review_required", "complete"}

Finalize(c, j) ==
  /\ due[j] \/ (status[j] \in Reviewable /\ paged[j])
  /\ reviews[j] < MaxReview
  /\ RequireJob(c, "finalize", j,
                [at |-> "manifest", job |-> j, was |-> status[j], review |-> reviews[j] + 1])
  /\ reviews' = IF due[j] THEN reviews ELSE [reviews EXCEPT ![j] = @ + 1]

\* manifest(): a second require_job and status test, then the approved
\* manifest or, before there is one, the draft.  Where the approved one is
\* there but cut short, the call ends with manifest_invalid.
FinalizeReadsManifest(c) ==
  /\ In(c, "manifest")
  /\ LET j == calls[c].job IN
       calls' = [calls EXCEPT ![c] =
         IF status[j] \notin Live THEN NoCall
         ELSE IF due[j] THEN CallOn(j, "mark")
         ELSE IF status[j] \in Reviewable \cup {"queued_redaction", "redacting"}
                 /\ store[j][IF Stored(j, "approved") THEN "approved" ELSE "draft"] \in Review
         THEN [@ EXCEPT !.at = "approve"]
         ELSE NoCall]
  /\ UNCHANGED <<storeVars, batch, reviews, accepted, faults>>

\* put_bytes is write_bytes, which truncates and fills as a copy does.
FinalizeOpensManifest(c) ==
  /\ In(c, "approve")
  /\ OpenFile(calls[c].job, "approved")
  /\ Proceed(c, "write")
  /\ UNCHANGED <<rowVars, batch, reviews, accepted, faults>>

FinalizeClosesManifest(c) ==
  /\ In(c, "write")
  /\ CloseFile(calls[c].job, "approved", calls[c].review)
  /\ Proceed(c, "queue")
  /\ UNCHANGED <<rowVars, batch, reviews, accepted, faults>>

\* Mutant: the update does not name the status that was read.
FinalizeQueuesAlways(c) ==
  /\ In(c, "queue")
  /\ LET j == calls[c].job IN
       /\ SetStatus(j, "queued_redaction")
       /\ auto' = [auto EXCEPT ![j] = FALSE]
       /\ accepted' = [accepted EXCEPT ![j] = calls[c].review]
       /\ UNCHANGED <<born, due, paged>>
  /\ Return(c)
  /\ UNCHANGED <<store, batch, reviews, faults>>

FinalizeQueues(c) ==
  /\ In(c, "queue")
  /\ LET j == calls[c].job IN
       IF Allows(j, {calls[c].was})
       THEN /\ SetStatus(j, "queued_redaction")
            /\ auto' = [auto EXCEPT ![j] = FALSE]
            /\ accepted' = [accepted EXCEPT ![j] = calls[c].review]
            /\ UNCHANGED <<born, due, paged>>
       ELSE UNCHANGED <<rowVars, accepted>>
  /\ Return(c)
  /\ UNCHANGED <<store, batch, reviews, faults>>

-----------------------------------------------------------------------------
(* delete.                                                                 *)

Delete(c, j) ==
  /\ "delete" \in Calls[c]
  /\ calls[c] = NoCall
  /\ status[j] \notin {"none", "expired"}
  /\ calls' = [calls EXCEPT ![c] =
                 CallOn(j, IF status[j] = "deleted" THEN "purge" ELSE "tombstone")]
  /\ UNCHANGED <<storeVars, batch, reviews, accepted, faults>>

DeleteMarks(c) ==
  /\ In(c, "tombstone")
  /\ BuryRow(calls[c].job)
  /\ Proceed(c, "purge")
  /\ UNCHANGED <<store, batch, reviews, accepted, faults>>

DeletePurges(c) ==
  /\ In(c, "purge")
  /\ \/ DeletePrefix(calls[c].job) /\ NoFault
     \/ DeletePrefixFails(calls[c].job) /\ Fault("storage_error")
  /\ Return(c)
  /\ UNCHANGED <<rowVars, batch, reviews, accepted>>

-----------------------------------------------------------------------------
(* _expire, from require_job or from cleanup_expired.                      *)

ExpireMarks(c) ==
  /\ In(c, "mark")
  /\ BuryRow(calls[c].job)
  /\ Proceed(c, "sweep")
  /\ UNCHANGED <<store, batch, reviews, accepted, faults>>

ExpireSweeps(c) ==
  /\ In(c, "sweep")
  /\ \/ DeletePrefix(calls[c].job) /\ Proceed(c, "seal") /\ NoFault
     \/ DeletePrefixFails(calls[c].job) /\ Return(c) /\ Fault("storage_error")
  /\ UNCHANGED <<rowVars, batch, reviews, accepted>>

ExpireSeals(c) ==
  /\ In(c, "seal")
  /\ IF Allows(calls[c].job, {"deleted"})
     THEN MoveRow(calls[c].job, {"deleted"}, "expired")
     ELSE UNCHANGED rowVars
  /\ Return(c)
  /\ UNCHANGED <<store, batch, reviews, accepted, faults>>

\* cleanup_expired: the rows are listed once, then expired one by one, each
\* as it was when it was listed.
CleanupLists ==
  /\ calls[Cleaner] = NoCall
  /\ batch = {} /\ ExpiredRows # {}
  /\ batch' = {<<j, status[j] = "deleted">> : j \in ExpiredRows}
  /\ UNCHANGED <<storeVars, calls, reviews, accepted, faults>>

CleanupExpires ==
  /\ calls[Cleaner] = NoCall
  /\ \E row \in batch :
       /\ batch' = batch \ {row}
       /\ calls' = [calls EXCEPT ![Cleaner] = CallOn(row[1], IF row[2] THEN "sweep" ELSE "mark")]
  /\ UNCHANGED <<storeVars, reviews, accepted, faults>>

-----------------------------------------------------------------------------

ExpireNext(c) == ExpireMarks(c) \/ ExpireSweeps(c) \/ ExpireSeals(c)

\* What a client may start, and how a call it started goes on.
ClientStarts(c) ==
  \E j \in Job : \/ CreateJob(c, j) \/ Poll(c, j) \/ Upload(c, j)
                 \/ Submit(c, j) \/ Finalize(c, j) \/ Delete(c, j)

CallContinues(c) ==
  \/ UploadBreaks(c) \/ UploadOpens(c) \/ UploadCloses(c)
  \/ SubmitReadsInput(c) \/ SubmitRejects(c) \/ SubmitRefuses(c) \/ SubmitAccepts(c)
  \/ FinalizeReadsManifest(c) \/ FinalizeOpensManifest(c) \/ FinalizeClosesManifest(c)
  \/ FinalizeQueues(c)
  \/ DeleteMarks(c) \/ DeletePurges(c)
  \/ ExpireNext(c)

\* The API process, or the thread of one call, dies between two steps.
CallDies(c) ==
  /\ calls[c] # NoCall
  /\ Fault("call_dies")
  /\ Return(c)
  /\ UNCHANGED <<storeVars, batch, reviews, accepted>>

CleanerNext == CleanupLists \/ CleanupExpires \/ ExpireNext(Cleaner)
=============================================================================
