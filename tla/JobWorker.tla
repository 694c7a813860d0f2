------------------------------ MODULE JobWorker ------------------------------
(***************************************************************************)
(* The worker process of a self-hosted deployment: its document loops      *)
(* (worker/main.py) and the pipeline each runs on the job it claimed       *)
(* (worker/pipeline.py), split at every access to a store.  One loop works *)
(* on one job at a time; the process stops as a whole and is started again.*)
(***************************************************************************)
EXTENDS JobService

CONSTANTS
  Loop,  \* document loops of the process
  Pages  \* pages of every document

ASSUME WorkerAssumption == Pages \in Nat \ {0}

VARIABLES
  loops,  \* what each loop is doing
  worker  \* the process: "running", "stopping" (no loop claims any more) or "down"

workerVars == <<loops, worker>>

\* The steps of _detect before and of _render_loaded after the row becomes
\* REDACTING, then those of a run that went wrong.
DetectStep == {"load", "pages", "check", "preview", "detect", "findings", "draft",
               "approve", "handoff", "release"}
RedactStep == {"reload", "fetch", "render", "open", "close", "complete"}
FaultStep  == {"lost", "purge", "fail", "erase", "amend"}
LoopStep   == {"idle"} \cup DetectStep \cup RedactStep \cup FaultStep

\* What process raised: JobCancelled, RedactionValidationError, or any other.
Error == {"none", "cancelled", "validation", "other"}

\* auto: auto_finalize as claimed; page: previews stored; review: the
\* manifest in hand.
LoopState == [at : LoopStep, job : Job \cup {None}, auto : BOOLEAN, page : 0 .. Pages,
              review : Review, error : Error]

Resting == [at |-> "idle", job |-> None, auto |-> FALSE, page |-> 0,
            review |-> Original, error |-> "none"]

WorkerTypeOK ==
  /\ loops \in [Loop -> LoopState]
  /\ worker \in {"running", "stopping", "down"}

WorkerInit ==
  /\ loops = [l \in Loop |-> Resting]
  /\ worker = "running"

Doing(l, step) == loops[l].at = step

Goto(l, step) == loops' = [loops EXCEPT ![l].at = step]

Raise(l, error) == loops' = [loops EXCEPT ![l].at = "fail", ![l].error = error]

Rest(l) == loops' = [loops EXCEPT ![l] = Resting]

\* update(job_id, {from}, ...): to the next step, or StateConflict to fail.
GotoIf(l, allowed, step) ==
  IF Allows(loops[l].job, allowed) THEN Goto(l, step) ELSE Raise(l, "other")

\* _assert_active.
GotoIfActive(l, expected, step) ==
  IF Allows(loops[l].job, {expected}) /\ ~due[loops[l].job]
  THEN Goto(l, step) ELSE Raise(l, "cancelled")

Calm == UNCHANGED <<serviceVars, worker>>

-----------------------------------------------------------------------------
(* run_once: claim_local_task, then process.                               *)

Claim(l) ==
  /\ worker = "running" /\ Doing(l, "idle")
  /\ \E j \in Job :
       /\ ClaimRow(j)
       /\ loops' = [loops EXCEPT ![l] =
            [Resting EXCEPT !.at = IF status[j] = "queued_detection" THEN "load" ELSE "reload",
                            !.job = j, !.auto = auto[j]]]
  /\ UNCHANGED store /\ Calm

\* _load_pages in _detect: a missing or broken file, and a document that
\* cannot be read, all end the run.
LoadForDetect(l) ==
  /\ Doing(l, "load")
  /\ \/ store[loops[l].job]["input"] = Original /\ Goto(l, "pages")
     \/ Raise(l, "other")
  /\ UNCHANGED storeVars /\ Calm

RecordPages(l) ==
  /\ Doing(l, "pages")
  /\ GotoIf(l, {"detecting"}, "check")
  /\ paged' = IF Allows(loops[l].job, {"detecting"})
              THEN [paged EXCEPT ![loops[l].job] = TRUE] ELSE paged
  /\ UNCHANGED <<status, born, due, auto, store>> /\ Calm

CheckBeforePreview(l) ==
  /\ Doing(l, "check")
  /\ GotoIfActive(l, "detecting", "preview")
  /\ UNCHANGED storeVars /\ Calm

\* Mutant: one page too many.
PutPreviewPastEnd(l) ==
  /\ Doing(l, "preview")
  /\ Put(loops[l].job, "preview", Original)
  /\ loops' = [loops EXCEPT ![l].page = @ + 1,
                            ![l].at = IF loops[l].page + 1 <= Pages THEN "check" ELSE "detect"]
  /\ UNCHANGED rowVars /\ Calm

PutPreview(l) ==
  /\ Doing(l, "preview")
  /\ Put(loops[l].job, "preview", Original)
  /\ loops' = [loops EXCEPT ![l].page = @ + 1,
                            ![l].at = IF loops[l].page + 1 < Pages THEN "check" ELSE "detect"]
  /\ UNCHANGED rowVars /\ Calm

\* detect_document, then _assert_active.  Its progress reports change no
\* modelled field and swallow every conflict.
Detect(l) ==
  /\ Doing(l, "detect")
  /\ \/ GotoIfActive(l, "detecting", "findings") /\ NoFault
     \/ Raise(l, "other") /\ NoFault
     \/ Goto(l, "release") /\ Fault("detector_down")
  /\ UNCHANGED <<storeVars, calls, batch, reviews, accepted, worker>>

RecordFindings(l) ==
  /\ Doing(l, "findings")
  /\ GotoIf(l, {"detecting"}, "draft")
  /\ UNCHANGED storeVars /\ Calm

PutDraft(l) ==
  /\ Doing(l, "draft")
  /\ Put(loops[l].job, "draft", Original)
  /\ Goto(l, IF loops[l].auto THEN "approve" ELSE "handoff")
  /\ UNCHANGED rowVars /\ Calm

PutApproved(l) ==
  /\ Doing(l, "approve")
  /\ Put(loops[l].job, "approved", Original)
  /\ Goto(l, "handoff")
  /\ UNCHANGED rowVars /\ Calm

\* Mutant: every job goes on to the rendering.
HandOffUnreviewed(l) ==
  /\ Doing(l, "handoff")
  /\ LET j == loops[l].job IN
       IF Allows(j, {"detecting"})
       THEN MoveRow(j, {"detecting"}, "redacting") /\ Goto(l, "render")
       ELSE UNCHANGED rowVars /\ Raise(l, "other")
  /\ UNCHANGED store /\ Calm

\* The end of _detect: on to the rendering, or to a person's review.
HandOff(l) ==
  /\ Doing(l, "handoff")
  /\ LET j == loops[l].job IN
       IF Allows(j, {"detecting"})
       THEN IF loops[l].auto
            THEN MoveRow(j, {"detecting"}, "redacting") /\ Goto(l, "render")
            ELSE MoveRow(j, {"detecting"}, "review_required") /\ Rest(l)
       ELSE UNCHANGED rowVars /\ Raise(l, "other")
  /\ UNCHANGED store /\ Calm

-----------------------------------------------------------------------------
(* _redact and _render_loaded.                                             *)

LoadForRedact(l) ==
  /\ Doing(l, "reload")
  /\ \/ store[loops[l].job]["input"] = Original /\ Goto(l, "fetch")
     \/ Raise(l, "other")
  /\ UNCHANGED storeVars /\ Calm

\* Mutant: the draft is rendered.
FetchManifestDraft(l) ==
  /\ Doing(l, "fetch")
  /\ LET manifest == store[loops[l].job]["draft"] IN
       IF manifest \in Review
       THEN loops' = [loops EXCEPT ![l].at = "render", ![l].review = manifest]
       ELSE Raise(l, "other")
  /\ UNCHANGED storeVars /\ Calm

FetchManifest(l) ==
  /\ Doing(l, "fetch")
  /\ LET manifest == store[loops[l].job]["approved"] IN
       IF manifest \in Review
       THEN loops' = [loops EXCEPT ![l].at = "render", ![l].review = manifest]
       ELSE Raise(l, "other")
  /\ UNCHANGED storeVars /\ Calm

\* Rendering may fail, its result may not validate, or OCR may still read an
\* identifier; then _assert_active.
Render(l) ==
  /\ Doing(l, "render")
  /\ \/ GotoIfActive(l, "redacting", "open")
     \/ \E error \in {"validation", "other"} : Raise(l, error)
  /\ UNCHANGED storeVars /\ Calm

\* Mutant: the row is completed before the copy is.
OutputOpensCompleted(l) ==
  /\ Doing(l, "open")
  /\ OpenFile(loops[l].job, "output")
  /\ IF Allows(loops[l].job, {"redacting"})
     THEN MoveRow(loops[l].job, {"redacting"}, "complete")
     ELSE UNCHANGED rowVars
  /\ Goto(l, "close")
  /\ Calm

OutputOpens(l) ==
  /\ Doing(l, "open")
  /\ OpenFile(loops[l].job, "output")
  /\ Goto(l, "close")
  /\ UNCHANGED rowVars /\ Calm

OutputCloses(l) ==
  /\ Doing(l, "close")
  /\ CloseFile(loops[l].job, "output", loops[l].review)
  /\ Goto(l, "complete")
  /\ UNCHANGED rowVars /\ Calm

\* _mark_complete: the update, and after a conflict the second look.
MarkComplete(l) ==
  /\ Doing(l, "complete")
  /\ LET j == loops[l].job IN
       IF Allows(j, {"redacting"})
       THEN MoveRow(j, {"redacting"}, "complete") /\ Rest(l)
       ELSE UNCHANGED rowVars /\ Goto(l, "lost")
  /\ UNCHANGED store /\ Calm

LostRace(l) ==
  /\ Doing(l, "lost")
  /\ IF Allows(loops[l].job, Tombstone) THEN Goto(l, "purge") ELSE Raise(l, "cancelled")
  /\ UNCHANGED storeVars /\ Calm

LostPurges(l) ==
  /\ Doing(l, "purge")
  /\ \/ DeletePrefix(loops[l].job) /\ Raise(l, "cancelled") /\ NoFault
     \/ DeletePrefixFails(loops[l].job) /\ Raise(l, "other") /\ Fault("storage_error")
  /\ UNCHANGED <<rowVars, calls, batch, reviews, accepted, worker>>

-----------------------------------------------------------------------------
(* fail: one look at the row decides which row update or deletion follows. *)

\* Mutant: cancellation is looked at before the tombstone.
FailLooksCancelledFirst(l) ==
  /\ Doing(l, "fail")
  /\ LET j == loops[l].job IN
       \/ loops[l].error = "cancelled" /\ Rest(l)
       \/ loops[l].error # "cancelled" /\ status[j] \in Tombstone /\ Goto(l, "erase")
       \/ loops[l].error # "cancelled" /\ status[j] = "complete" /\ Rest(l)
       \/ /\ status[j] \notin Tombstone \cup {"complete"}
          /\ loops[l].error # "cancelled"
          /\ Goto(l, "amend")
  /\ UNCHANGED storeVars /\ Calm

FailLooks(l) ==
  /\ Doing(l, "fail")
  /\ LET j == loops[l].job IN
       \/ status[j] \in Tombstone /\ Goto(l, "erase")
       \/ /\ status[j] \notin Tombstone
          /\ loops[l].error = "cancelled" \/ status[j] = "complete"
          /\ Rest(l)
       \/ /\ status[j] \notin Tombstone \cup {"complete"}
          /\ loops[l].error # "cancelled"
          /\ loops' = [loops EXCEPT ![l].at = "amend",
               ![l].error = IF @ = "validation" /\ status[j] = "redacting" /\ ~auto[j]
                            THEN "validation" ELSE "other"]
  /\ UNCHANGED storeVars /\ Calm

\* delete_prefix outside any handler: an error there ends the loop, and with
\* it the process.
FailErases(l) ==
  /\ Doing(l, "erase")
  /\ \/ DeletePrefix(loops[l].job) /\ NoFault /\ UNCHANGED worker
     \/ DeletePrefixFails(loops[l].job) /\ Fault("storage_error") /\ worker' = "stopping"
  /\ Rest(l)
  /\ UNCHANGED <<rowVars, calls, batch, reviews, accepted>>

\* Mutant: the row is failed whatever became of it since the look.
FailAmendsAlways(l) ==
  /\ Doing(l, "amend")
  /\ SetStatus(loops[l].job, IF loops[l].error = "validation" THEN "review_required" ELSE "failed")
  /\ Rest(l)
  /\ UNCHANGED <<born, due, auto, paged, store>> /\ Calm

FailAmends(l) ==
  /\ Doing(l, "amend")
  /\ LET j       == loops[l].job
         allowed == IF loops[l].error = "validation" THEN {"redacting"} ELSE InFlight
         new     == IF loops[l].error = "validation" THEN "review_required" ELSE "failed"
     IN IF Allows(j, allowed) THEN MoveRow(j, allowed, new) ELSE UNCHANGED rowVars
  /\ Rest(l)
  /\ UNCHANGED store /\ Calm

\* Mutant: the row is left as it is.
ReleaseJobRowKept(l) ==
  /\ Doing(l, "release")
  /\ Rest(l)
  /\ worker' = "stopping"
  /\ UNCHANGED <<storeVars, serviceVars>>

\* _release_job after DetectorUnavailable, which also stops the process.
ReleaseJob(l) ==
  /\ Doing(l, "release")
  /\ IF Allows(loops[l].job, {"detecting"})
     THEN MoveRow(loops[l].job, {"detecting"}, "queued_detection")
     ELSE UNCHANGED rowVars
  /\ Rest(l)
  /\ worker' = "stopping"
  /\ UNCHANGED <<store, serviceVars>>

-----------------------------------------------------------------------------
(* The process.                                                            *)

\* A signal, or the model server exited.
WorkerStops ==
  /\ worker = "running"
  /\ Fault("worker_stops")
  /\ worker' = "stopping"
  /\ UNCHANGED <<storeVars, calls, batch, reviews, accepted, loops>>

\* The loops end after the job they are on; the cleaner is a daemon thread
\* and is cut off with the process.
ProcessEnds ==
  /\ worker' = "down"
  /\ loops' = [l \in Loop |-> Resting]
  /\ batch' = {}
  /\ calls' = [calls EXCEPT ![Cleaner] = NoCall]
  /\ UNCHANGED <<storeVars, reviews, accepted>>

WorkerExits ==
  /\ worker = "stopping"
  /\ \A l \in Loop : Doing(l, "idle")
  /\ ProcessEnds /\ NoFault

WorkerCrashes ==
  /\ worker # "down"
  /\ Fault("worker_crash")
  /\ ProcessEnds

\* run: requeue_in_flight, then the cleaner and the loops start.
WorkerStarts ==
  /\ worker = "down"
  /\ RequeueRows
  /\ worker' = "running"
  /\ UNCHANGED <<store, serviceVars, loops>>

\* A pass begins only while the process is not stopping; one under way goes on.
Cleanup ==
  /\ worker # "down"
  /\ worker = "running" \/ batch # {} \/ calls[Cleaner] # NoCall
  /\ CleanerNext
  /\ UNCHANGED workerVars

LoopNext(l) ==
  \/ Claim(l) \/ LoadForDetect(l) \/ RecordPages(l) \/ CheckBeforePreview(l) \/ PutPreview(l)
  \/ Detect(l) \/ RecordFindings(l) \/ PutDraft(l) \/ PutApproved(l) \/ HandOff(l)
  \/ LoadForRedact(l) \/ FetchManifest(l) \/ Render(l) \/ OutputOpens(l) \/ OutputCloses(l)
  \/ MarkComplete(l) \/ LostRace(l) \/ LostPurges(l)
  \/ FailLooks(l) \/ FailErases(l) \/ FailAmends(l) \/ ReleaseJob(l)

ProcessNext == WorkerStops \/ WorkerExits \/ WorkerCrashes \/ WorkerStarts
=============================================================================
