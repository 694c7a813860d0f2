------------------------------ MODULE JobStore ------------------------------
(***************************************************************************)
(* The two stores that every process of a self-hosted deployment shares:   *)
(* the jobs table (repository.py, SQLiteJobRepository) and the blob        *)
(* directory (storage.py, LocalBlobStore).  Each operator below is one     *)
(* repository transaction or one file operation, which is the granularity  *)
(* at which the processes interleave.                                      *)
(***************************************************************************)
EXTENDS Naturals

CONSTANTS
  Job,        \* job ids
  MaxReview,  \* bound: finalize calls per job, each with its own set of boxes
  MaxTick,    \* bound: seconds in which jobs are created
  None,       \* no file, or no job
  Partial,    \* a file a copy is still writing, or that a crash cut short
  Invalid     \* an upload whose first bytes are not of the announced type

ASSUME StoreAssumption ==
  /\ MaxReview \in Nat
  /\ MaxTick \in Nat
  /\ None \notin Job
  /\ None # Partial /\ None # Invalid /\ Partial # Invalid
  /\ \A special \in {None, Partial, Invalid} : special \notin Nat

VARIABLES
  status,  \* the status column; "none" before the row is inserted
  born,    \* created_at_epoch
  due,     \* expires_at <= now
  auto,    \* auto_finalize
  paged,   \* page_count is set
  store    \* the files under jobs/<job_id>/

rowVars   == <<status, born, due, auto, paged>>
storeVars == <<rowVars, store>>

Tombstone == {"deleted", "expired"}
Queued    == {"queued_detection", "queued_redaction"}
InFlight  == {"detecting", "redacting"}
JobStatus == {"awaiting_upload", "review_required", "complete", "failed"}
               \cup Queued \cup InFlight \cup Tombstone
Live      == JobStatus \ Tombstone

(***************************************************************************)
(* Files.  Manifests and outputs hold the number of the review they carry: *)
(* 0 is what the detector found, n > 0 what the n-th finalize call sent.   *)
(* Number 0 also stands for the uploaded document itself.                  *)
(***************************************************************************)
Review   == 0 .. MaxReview
Original == 0
Key      == {"input", "preview", "draft", "approved", "output"}
Content  == Review \cup {None, Partial, Invalid}
NoFiles  == [k \in Key |-> None]

StoreTypeOK ==
  /\ status \in [Job -> JobStatus \cup {"none"}]
  /\ born \in [Job -> 0 .. MaxTick]
  /\ due \in [Job -> BOOLEAN]
  /\ auto \in [Job -> BOOLEAN]
  /\ paged \in [Job -> BOOLEAN]
  /\ store \in [Job -> [Key -> Content]]

StoreInit ==
  /\ status = [j \in Job |-> "none"]
  /\ born = [j \in Job |-> 0]
  /\ due = [j \in Job |-> FALSE]
  /\ auto = [j \in Job |-> FALSE]
  /\ paged = [j \in Job |-> FALSE]
  /\ store = [j \in Job |-> NoFiles]

-----------------------------------------------------------------------------
(* Rows.                                                                   *)

\* The row's status passes update's allowed_statuses; where it does not, the
\* code gets a StateConflict.
Allows(j, allowed) == status[j] \in allowed

SetStatus(j, new) == status' = [status EXCEPT ![j] = new]

\* create: the second a row is created in never runs backwards.
InsertRow(j, automatic) ==
  /\ status[j] = "none"
  /\ SetStatus(j, "awaiting_upload")
  /\ \E tick \in 0 .. MaxTick :
       /\ \A i \in Job : status[i] # "none" => born[i] <= tick
       /\ born' = [born EXCEPT ![j] = tick]
  /\ auto' = [auto EXCEPT ![j] = automatic]
  /\ UNCHANGED <<due, paged>>

\* The update both delete and _expire make: any status, and the deadline is
\* brought forward to now.
BuryRow(j) ==
  /\ SetStatus(j, "deleted")
  /\ due' = [due EXCEPT ![j] = TRUE]
  /\ UNCHANGED <<born, auto, paged>>

\* Every other update that sets only the status.
MoveRow(j, allowed, new) ==
  /\ Allows(j, allowed)
  /\ SetStatus(j, new)
  /\ UNCHANGED <<born, due, auto, paged>>

\* Mutant: a row being detected counts as claimable.
ClaimRowReclaims(j) ==
  /\ status[j] \in Queued \cup {"detecting"}
  /\ \A i \in Job : status[i] \in Queued => born[j] <= born[i]
  /\ SetStatus(j, IF status[j] = "queued_redaction" THEN "redacting" ELSE "detecting")
  /\ UNCHANGED <<born, due, auto, paged>>

\* claim_local_task: a job of the oldest queued second, in one transaction.
ClaimRow(j) ==
  /\ status[j] \in Queued
  /\ \A i \in Job : status[i] \in Queued => born[j] <= born[i]
  /\ SetStatus(j, IF status[j] = "queued_detection" THEN "detecting" ELSE "redacting")
  /\ UNCHANGED <<born, due, auto, paged>>

\* Mutant: interrupted redactions are forgotten.
RequeueRowsDetectOnly ==
  /\ status' = [j \in Job |-> IF status[j] = "detecting" THEN "queued_detection" ELSE status[j]]
  /\ UNCHANGED <<born, due, auto, paged>>

\* requeue_in_flight: all interrupted rows in one transaction.
RequeueRows ==
  /\ status' = [j \in Job |-> CASE status[j] = "detecting" -> "queued_detection"
                                [] status[j] = "redacting" -> "queued_redaction"
                                [] OTHER -> status[j]]
  /\ UNCHANGED <<born, due, auto, paged>>

\* Mutant: a deleted row is taken for done.
ExpiredRowsNotDeleted == {j \in Job : due[j] /\ status[j] \in Live}

\* list_expired, without the limit: a pass takes every row there is.
ExpiredRows == {j \in Job : due[j] /\ status[j] \notin {"none", "expired"}}

\* The clock reaches expires_at, a fixed time after created_at.
Deadline(j) ==
  /\ status[j] # "none" /\ ~due[j]
  /\ \A i \in Job : status[i] # "none" /\ born[i] < born[j] => due[i]
  /\ due' = [due EXCEPT ![j] = TRUE]
  /\ UNCHANGED <<status, born, auto, paged, store>>

-----------------------------------------------------------------------------
(* Files.                                                                  *)

Stored(j, k) == store[j][k] # None

Put(j, k, content) == store' = [store EXCEPT ![j][k] = content]

\* put_file is shutil.copyfile: it truncates the destination, then fills the
\* file it opened.  If delete_prefix unlinks that file meanwhile, the rest of
\* the copy goes to an inode no path names.
OpenFile(j, k) == Put(j, k, Partial)

CloseFile(j, k, content) ==
  store' = [store EXCEPT ![j][k] = IF Stored(j, k) THEN content ELSE None]

DeletePrefix(j) == store' = [store EXCEPT ![j] = NoFiles]

\* rmtree raised part of the way through.
DeletePrefixFails(j) ==
  \E left \in SUBSET Key :
    store' = [store EXCEPT ![j] = [k \in Key |-> IF k \in left THEN store[j][k] ELSE None]]
=============================================================================
