---------------------------- MODULE LocalRuntime ----------------------------
(***************************************************************************)
(* A self-hosted deployment: clients calling the API, the worker process   *)
(* with its document loops and cleaner, and the clock, over the shared     *)
(* jobs table and blob directory.                                          *)
(***************************************************************************)
EXTENDS JobWorker

vars == <<storeVars, serviceVars, workerVars>>

Init == StoreInit /\ ServiceInit /\ WorkerInit

ClientNext(c) == (ClientStarts(c) \/ CallContinues(c) \/ CallDies(c)) /\ UNCHANGED workerVars

ClockNext == (\E j \in Job : Deadline(j)) /\ UNCHANGED <<serviceVars, workerVars>>

Next ==
  \/ \E c \in Client : ClientNext(c)
  \/ \E l \in Loop : LoopNext(l)
  \/ ProcessNext
  \/ Cleanup
  \/ ClockNext

Spec == Init /\ [][Next]_vars

(***************************************************************************)
(* Fairness.  A call that was started runs on; the operating system        *)
(* schedules every loop and the cleaner, and the restart policy of         *)
(* docker-compose.yml (restart: unless-stopped) starts the worker again;   *)
(* under FairSpec time passes too.  Nothing makes a client call, and       *)
(* nothing makes a fault happen.                                           *)
(***************************************************************************)
Scheduled ==
  /\ \A c \in Client : WF_vars(CallContinues(c) /\ UNCHANGED workerVars)
  /\ \A l \in Loop : WF_vars(LoopNext(l))
  /\ WF_vars(Cleanup)
  /\ WF_vars(WorkerExits) /\ WF_vars(WorkerStarts)

TimePasses == \A j \in Job : WF_vars(Deadline(j) /\ UNCHANGED <<serviceVars, workerVars>>)

FairSpec == Spec /\ Scheduled /\ TimePasses

-----------------------------------------------------------------------------
(* Invariants.                                                             *)

\* Every variable holds a value of its type.
TypeOK == StoreTypeOK /\ ServiceTypeOK /\ WorkerTypeOK

\* What the row may say while loop l is on a job: the stage the loop is in,
\* unless a deletion or an expiry overtook it.
StageOf(step) ==
  CASE step \in DetectStep -> {"detecting"}
    [] step \in RedactStep -> {"redacting"}
    [] step \in {"lost", "purge", "erase"} -> {}
    [] step \in {"fail", "amend"} -> InFlight

\* A row in flight is worked on by one loop at most, the row of a loop's job
\* is in the loop's stage or a tombstone, and a loop that erases a job erases one
\* that was deleted (claim_local_task, _release_job, requeue_in_flight,
\* finalize and fail all hand a job over through the status alone).
SingleOwner ==
  /\ \A l \in Loop : ~Doing(l, "idle") =>
       status[loops[l].job] \in StageOf(loops[l].at) \cup Tombstone
  /\ \A l, m \in Loop :
       l # m /\ ~Doing(l, "idle") /\ ~Doing(m, "idle") => loops[l].job # loops[m].job

\* A row in flight has a loop working on it, or is overdue and will be swept
\* by the cleaner, or will be requeued when the process starts again: fail
\* returning silently on JobCancelled never strands a job before its deadline.
NoOrphan ==
  \A j \in Job : status[j] \in InFlight =>
    \/ \E l \in Loop : loops[l].job = j
    \/ due[j]
    \/ worker = "down"

\* Every stage finds the files the earlier ones were to leave: the document
\* until the deletion, previews and draft for the reviewer, the approved
\* manifest for the renderer, and a whole rendering behind "complete".
StageHasItsFiles ==
  \A j \in Job :
    /\ status[j] \in Queued \cup InFlight \cup Reviewable => store[j]["input"] = Original
    /\ status[j] \in Reviewable \cup {"queued_redaction", "redacting"} =>
         paged[j] /\ Stored(j, "preview") /\ Stored(j, "draft")
    /\ status[j] = "queued_redaction" => store[j]["approved"] \in Review
    /\ status[j] = "complete" => store[j]["output"] \in Review

\* A completed job delivers the boxes of the last review that was accepted,
\* not those of the review before it.
AcceptedReviewDelivered ==
  \A j \in Job : status[j] = "complete" => store[j]["output"] = accepted[j]

\* An accepted review stays the stored one until the worker has rendered it.
AcceptedReviewStored ==
  \A j \in Job : status[j] = "queued_redaction" => store[j]["approved"] = accepted[j]

\* What nobody asked to be redacted automatically is not rendered, let alone
\* delivered, before a person has approved its boxes.
ManualJobReviewed ==
  \A j \in Job :
    status[j] \in {"queued_redaction", "redacting", "complete"} /\ ~auto[j] => accepted[j] > 0

Idle(j) == /\ \A c \in Caller : calls[c].job # j
           /\ \A l \in Loop : loops[l].job # j

\* Once a job is expired and no loop is on it, nothing the worker wrote for it
\* is left: a loop that wrote after the deletion removes its own late write.
WorkerLeavesNothing ==
  \A j \in Job :
    status[j] = "expired" /\ (\A l \in Loop : loops[l].job # j) =>
      \A k \in {"preview", "draft", "output"} : ~Stored(j, k)

\* Once a job is expired and neither a call nor a loop is on it, none of its
\* files is left.
ErasedJobHoldsNothing ==
  \A j \in Job : status[j] = "expired" /\ Idle(j) => store[j] = NoFiles

-----------------------------------------------------------------------------
(* What a step may never do.                                               *)

\* No late write of a worker, a submit, a finalize or a rollback brings a
\* deleted or expired job back to life.
TombstoneForever ==
  [][\A j \in Job : status[j] \in Tombstone => status'[j] \in Tombstone]_vars

\* The output of a completed job changes only by the job's deletion or after
\* a review reopened it.
CompletedOutputStable ==
  [][\A j \in Job : status[j] = "complete" /\ status'[j] = "complete"
                      => store'[j]["output"] = store[j]["output"]]_vars

-----------------------------------------------------------------------------
(* The contract.                                                           *)

\* The phase a client knows a status by.
PhaseOf(s) ==
  CASE s = "none" -> "absent"
    [] s = "awaiting_upload" -> "open"
    [] s \in Queued \cup InFlight -> "working"
    [] s = "review_required" -> "review"
    [] s \in {"complete", "failed"} -> s
    [] s \in Tombstone -> "erased"

Contract == INSTANCE JobContract
  WITH Number    <- Review,
       phase     <- [j \in Job |-> PhaseOf(status[j])],
       automatic <- auto,
       review    <- accepted,
       result    <- [j \in Job |-> IF status[j] = "complete" THEN store[j]["output"] ELSE None]

\* Every step of the deployment is a step of the contract or none: a review is
\* accepted only where one may start, the document delivered is the one that
\* was accepted last, and a failed job can only be erased.
KeepsContract == Contract!Spec

-----------------------------------------------------------------------------
(* What must happen.                                                       *)

\* Work ends without the help of the deadline: a job that is queued or in
\* flight is finished, failed, handed to a person or removed, through any
\* stop, crash or restart of the worker, unless its deadline comes first.
WorkEnds == \A j \in Job :
  status[j] \in Queued \cup InFlight ~> status[j] \notin Queued \cup InFlight \/ due[j]

\* Every job that is past its deadline ends up expired for good.
RetentionHonoured == \A j \in Job : due[j] ~> [](status[j] = "expired")
=============================================================================
