---------------------------- MODULE CloudService ----------------------------
(***************************************************************************)
(* The API calls of the AWS deployment (service.py over repository.py and  *)
(* task_queue.py) that hand a job to the workers, take it back or erase    *)
(* it.  A call reads the row, decides, updates the row and then sends the  *)
(* message: the queue and the table are two services, and a call can lose  *)
(* the race for the row, fail to send, or die between the two.             *)
(***************************************************************************)
EXTENDS CloudTable, CloudQueue

CONSTANTS
  Client,    \* callers of the API
  Calls,     \* Calls[c]: the kinds of call client c makes
  MaxReview, \* bound: finalize calls per job, each with boxes of its own
  Faults,    \* the kinds of fault that happen
  MaxFaults  \* bound: faults in a behaviour

CallKind  == {"create", "submit", "finalize", "delete"}
FaultKind == {"call_dies", "send_fails", "worker_crash", "model_down", "bad_document",
              "renewal_fails", "delivered_twice"}
Task      == {"detect", "redact"}
Review    == 0 .. MaxReview

ASSUME CloudServiceAssumption ==
  /\ Client \subseteq Proc
  /\ Calls \in [Client -> SUBSET CallKind]
  /\ MaxReview \in Nat
  /\ Faults \subseteq FaultKind
  /\ MaxFaults \in Nat
  /\ Content = Job \X Task
  /\ None \notin Review

VARIABLES
  was,      \* the status the call read when it started
  reviews,  \* how many finalize calls each job got
  carries,  \* the review a finalize call carries
  approved, \* the review in the approved manifest
  output,   \* the review the stored output shows
  accepted, \* the last review whose finalize won the row, and did not take it back
  before,   \* the one before it, for the call that may take it back
  gone,     \* a delete of the job was answered: done, or not found
  faults    \* how many faults of each kind have happened

fileVars  == <<approved, output>>
callVars  == <<was, reviews, carries, accepted, before, gone>>

CloudServiceTypeOK ==
  /\ was \in [Client -> JobStatus \cup {None}]
  /\ reviews \in [Job -> Review]
  /\ carries \in [Client -> Review]
  /\ approved \in [Job -> Review \cup {None}]
  /\ output \in [Job -> Review \cup {None}]
  /\ accepted \in [Job -> Review] /\ before \in [Client -> Review]
  /\ gone \in [Job -> BOOLEAN]
  /\ faults \in [FaultKind -> 0 .. MaxFaults]

CloudServiceInit ==
  /\ was = [c \in Client |-> None]
  /\ reviews = [j \in Job |-> 0]
  /\ carries = [c \in Client |-> 0]
  /\ approved = [j \in Job |-> None]
  /\ output = [j \in Job |-> None]
  /\ accepted = [j \in Job |-> 0] /\ before = [c \in Client |-> 0]
  /\ gone = [j \in Job |-> FALSE]
  /\ faults = [kind \in FaultKind |-> 0]

FaultsSoFar ==
  faults["call_dies"] + faults["send_fails"] + faults["worker_crash"] + faults["model_down"]
    + faults["bad_document"] + faults["renewal_fails"] + faults["delivered_twice"]

Fault(kind) ==
  /\ kind \in Faults /\ FaultsSoFar < MaxFaults
  /\ faults' = [faults EXCEPT ![kind] = @ + 1]

Happened(kind) == faults[kind] > 0

Reviewable == {"review_required", "complete"}

\* What the update at a step of a call reads, sets and leads to.  The update
\* of delete takes any status; its StateConflict is answered "not found".
CallUpdate(c) ==
  CASE at[c] = "submit" ->
         [from |-> {"awaiting_upload"}, to |-> "queued_detection", done |-> "send", lost |-> "idle"]
    [] at[c] = "reject" ->
         [from |-> {"awaiting_upload"}, to |-> "failed", done |-> "idle", lost |-> "idle"]
    [] at[c] = "finalize" ->
         [from |-> {was[c]}, to |-> "queued_redaction", done |-> "send", lost |-> "idle"]
    [] at[c] = "undo" ->
         [from |-> {IF was[c] = "awaiting_upload" THEN "queued_detection" ELSE "queued_redaction"},
          to |-> was[c], done |-> "idle", lost |-> "idle"]
    [] at[c] = "bury" ->
         [from |-> JobStatus, to |-> "deleted", done |-> "purge", lost |-> "not_found"]

CallUpdating == {"submit", "reject", "finalize", "undo", "bury"}

\* create; a job for whose upload no plan can be made is rejected at once.
CreateJob(c, j) ==
  /\ "create" \in Calls[c] /\ at[c] = "idle"
  /\ \E automatic \in BOOLEAN : Insert(j, automatic)
  /\ \/ UNCHANGED <<at, on, was>>
     \/ Begins(c, j, "reject") /\ was' = [was EXCEPT ![c] = "awaiting_upload"]
  /\ UNCHANGED <<reading, queue, fileVars, reviews, carries, accepted, before, gone, faults>>

\* submit, up to its update; a job that is past this point is answered with its
\* status.  An upload of the wrong size or type is deleted and its job rejected:
\* nothing but the upload is stored under the prefix yet.
Submit(c, j) ==
  /\ "submit" \in Calls[c] /\ status[j] = "awaiting_upload"
  /\ \E verdict \in {"submit", "reject"} : Begins(c, j, verdict)
  /\ was' = [was EXCEPT ![c] = status[j]]
  /\ UNCHANGED <<reading, tableVars, queue, fileVars, reviews, carries, accepted, before, gone, faults>>

\* finalize, up to the manifest it writes.
Finalize(c, j) ==
  /\ "finalize" \in Calls[c] /\ status[j] \in Reviewable /\ reviews[j] < MaxReview
  /\ Begins(c, j, "write")
  /\ was' = [was EXCEPT ![c] = status[j]]
  /\ reviews' = [reviews EXCEPT ![j] = @ + 1]
  /\ carries' = [carries EXCEPT ![c] = reviews[j] + 1]
  /\ UNCHANGED <<reading, tableVars, queue, fileVars, accepted, before, gone, faults>>

FinalizeWrites(c) ==
  /\ at[c] = "write" /\ Proceeds(c, "finalize")
  /\ approved' = [approved EXCEPT ![on[c]] = carries[c]]
  /\ UNCHANGED <<tableVars, queue, output, callVars, faults>>

CallReads(c) ==
  /\ at[c] \in CallUpdating
  /\ UpdateReads(c, CallUpdate(c))
  /\ UNCHANGED <<queue, fileVars, callVars, faults>>

\* The put wins: a finalize is now the accepted one, until it is undone, and the
\* job is no longer automatic.
CallPuts(c) ==
  /\ at[c] \in CallUpdating
  /\ Puts(c, CallUpdate(c))
  /\ accepted' = CASE at[c] = "finalize" -> [accepted EXCEPT ![on[c]] = carries[c]]
                   [] at[c] = "undo"     -> [accepted EXCEPT ![on[c]] = before[c]]
                   [] OTHER              -> accepted
  /\ before' = [before EXCEPT ![c] = IF at[c] = "finalize" THEN accepted[on[c]] ELSE 0]
  /\ auto' = IF at[c] = "finalize" THEN [auto EXCEPT ![on[c]] = FALSE] ELSE auto
  /\ UNCHANGED <<queue, fileVars, was, reviews, carries, gone, faults>>

CallLoses(c) ==
  /\ at[c] \in CallUpdating
  /\ PutFails(c, CallUpdate(c))
  /\ UNCHANGED <<queue, fileVars, callVars, faults>>

TaskOf(c) == IF was[c] = "awaiting_upload" THEN "detect" ELSE "redact"

\* enqueue answers yes.
Sends(c, m) ==
  /\ at[c] = "send" /\ Proceeds(c, "idle")
  /\ Enqueue(m, <<on[c], TaskOf(c)>>)
  /\ before' = [before EXCEPT ![c] = 0]
  /\ UNCHANGED <<tableVars, fileVars, was, reviews, carries, accepted, gone, faults>>

\* enqueue raises: the message was not sent, or it was and the answer got lost.
SendFails(c) ==
  /\ at[c] = "send" /\ Proceeds(c, "undo")
  /\ \/ UNCHANGED queue
     \/ \E m \in Message : Enqueue(m, <<on[c], TaskOf(c)>>)
  /\ Fault("send_fails")
  /\ UNCHANGED <<tableVars, fileVars, callVars>>

\* delete, up to the tombstone.
Delete(c, j) ==
  /\ "delete" \in Calls[c] /\ status[j] # "none" /\ ~gone[j]
  /\ Begins(c, j, IF status[j] = "deleted" THEN "purge" ELSE "bury")
  /\ UNCHANGED <<reading, tableVars, queue, fileVars, callVars, faults>>

DeletePurges(c) ==
  /\ at[c] = "purge" /\ Proceeds(c, "idle")
  /\ approved' = [approved EXCEPT ![on[c]] = None]
  /\ output' = [output EXCEPT ![on[c]] = None]
  /\ gone' = [gone EXCEPT ![on[c]] = TRUE]
  /\ UNCHANGED <<tableVars, queue, was, reviews, carries, accepted, before, faults>>

\* Every browser takes "not found" for a job that is already deleted.
DeleteAnswersNotFound(c) ==
  /\ at[c] = "not_found" /\ Proceeds(c, "idle")
  /\ gone' = [gone EXCEPT ![on[c]] = TRUE]
  /\ UNCHANGED <<tableVars, queue, fileVars, was, reviews, carries, accepted, before, faults>>

CallDies(c) ==
  /\ at[c] # "idle" /\ Dies(c)
  /\ Fault("call_dies")
  /\ UNCHANGED <<tableVars, queue, fileVars, callVars>>

CallStarts(c) ==
  \E j \in Job : CreateJob(c, j) \/ Submit(c, j) \/ Finalize(c, j) \/ Delete(c, j)

CallContinues(c) ==
  \/ FinalizeWrites(c) \/ CallReads(c) \/ CallPuts(c) \/ CallLoses(c)
  \/ (\E m \in Message : Sends(c, m))
  \/ DeletePurges(c) \/ DeleteAnswersNotFound(c)
=============================================================================
