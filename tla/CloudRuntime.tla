---------------------------- MODULE CloudRuntime ----------------------------
(***************************************************************************)
(* The AWS deployment: API calls and document loops over the jobs table,   *)
(* the document bucket and the task queue, with time, the interruptions,   *)
(* the lost calls and the repeated deliveries such a system lives with.    *)
(***************************************************************************)
EXTENDS CloudWorker

vars == <<tableVars, processVars, queue, fileVars, callVars, faults, loopVars>>

Init == TableInit /\ QueueInit /\ CloudServiceInit /\ CloudWorkerInit

\* A new message is none that a loop still holds a receipt of.
NewMessages == \A m \in Message : (~Sent(m) /\ \E l \in Loop : letter[l].message = m) => ~Sent(m)'

ClientNext(c) ==
  /\ CallStarts(c) \/ CallContinues(c) \/ SendFails(c) \/ CallDies(c)
  /\ NewMessages
  /\ UNCHANGED loopVars

LoopNext(l) == LoopStarts(l) \/ LoopContinues(l) \/ Heartbeat(l) \/ LoopFaults(l)

SqsNext ==
  /\ \E m \in Message : \/ DeadLetter(m) /\ UNCHANGED faults
                        \/ DeliverTwice(m) /\ Fault("delivered_twice")
  /\ UNCHANGED <<tableVars, processVars, fileVars, callVars, loopVars>>

Next ==
  \/ \E c \in Client : ClientNext(c)
  \/ \E l \in Loop : LoopNext(l)
  \/ SqsNext
  \/ Tick

Spec == Init /\ [][Next]_vars

(***************************************************************************)
(* Fairness.  Calls that were started run on, loops are scheduled and poll *)
(* the queue, the supervisor restarts a worker, and time passes.  No call  *)
(* has to be made and no fault has to happen.                              *)
(***************************************************************************)
Fairness ==
  /\ \A c \in Client : WF_vars(CallContinues(c) /\ UNCHANGED loopVars)
  /\ \A l \in Loop : WF_vars(LoopContinues(l)) /\ WF_vars(LoopStarts(l)) /\ WF_vars(Heartbeat(l))
  /\ WF_vars(Tick)

FairSpec == Spec /\ Fairness

-----------------------------------------------------------------------------
(* Invariants.                                                             *)

\* Every variable holds a value of its type.
TypeOK == TableTypeOK /\ QueueTypeOK /\ CloudServiceTypeOK /\ CloudWorkerTypeOK

Working(l, j) == on[l] = j /\ at[l] \in Pipeline

\* A message that _claim_aws would accept for the row as it stands.
Claimable(j) == \E m \in Message : Sent(m) /\
  \E task \in Task : /\ queue[m].says = <<j, task>>
                     /\ status[j] \in {QueuedFor(task), InFlightFor(task)}

\* What the comment in _claim_aws says (worker/main.py:82): a row in flight is
\* claimed again only once its loop has been silent, so two loops never run the
\* pipeline on one job.  It takes two messages of one job to refute it.
OneLoopPerJob ==
  \A j \in Job : \A k, l \in Loop : Working(k, j) /\ Working(l, j) => k = l

\* So many renewals were lost that a message may be visible again while its
\* loop is still at work.
RenewalsLate == Lag + (faults["renewal_fails"] + 1) * Cycle >= Visibility

\* Two loops never run the pipeline under one message: the visibility timeout
\* outlasts the heartbeat, unless SQS delivers twice or renewals are lost.
OneLoopPerMessage ==
  \A k, l \in Loop :
    at[k] \in Pipeline /\ at[l] \in Pipeline /\ letter[k].message = letter[l].message =>
      k = l \/ Happened("delivered_twice") \/ RenewalsLate

\* A row that waits for a worker, or that a worker left in flight, has a
\* message in the queue that gets it claimed, unless the call that queued it
\* has not sent it yet, or a loop is on the job.
WorkHasMessage ==
  \A j \in Job : status[j] \in Queued \cup InFlight =>
    \/ Claimable(j)
    \/ \E c \in Client : on[c] = j /\ at[c] \in {"send", "undo"}
    \/ \E l \in Loop : on[l] = j

\* So many that it may be visible again before its loop is through with it.
AnswersLate == Lag + Lag + (faults["renewal_fails"] + 1) * Cycle >= Visibility

\* Two loops may be on a job: a message was sent in doubt, delivered twice or
\* hidden too briefly, or outlived its loop and met the message of a later review.
InDoubt ==
  \/ Happened("send_fails") \/ Happened("delivered_twice") \/ AnswersLate
  \/ Happened("worker_crash") /\ \E j \in Job : reviews[j] > 1

\* A completed job delivers the boxes of the last review that was accepted,
\* except that a second message in doubt has its loop put the boxes of an
\* earlier review back.
AcceptedReviewDelivered ==
  \A j \in Job : status[j] = "complete" =>
    \/ output[j] = accepted[j]
    \/ InDoubt /\ output[j] \in Review /\ output[j] < accepted[j]

\* No output is stored for a deleted job once nobody is on it: a loop that put
\* its output after the deletion removes it again, unless it was interrupted.
DeletedOutputRemoved ==
  \A j \in Job : status[j] = "deleted" /\ gone[j] /\ (\A p \in Proc : on[p] # j) =>
    output[j] = None \/ Happened("worker_crash")

-----------------------------------------------------------------------------
(* What a step may never do.                                               *)

\* The last delivery of a message is not turned away for the lease of its row: the
\* delivery after a crash may be, when the loop died late after a heartbeat and the
\* row was put just before, but then the lease is over when the message comes back.
LastDeliveryTaken ==
  [][\A l \in Loop : at[l] = "look" /\ at'[l] = "return" => letter[l].handle < MaxReceive]_vars

-----------------------------------------------------------------------------
(* The contract of JobContract, which LocalRuntime keeps too.              *)

PhaseOf(s) ==
  CASE s = "none" -> "absent"
    [] s = "awaiting_upload" -> "open"
    [] s \in Queued \cup InFlight -> "working"
    [] s = "review_required" -> "review"
    [] s \in {"complete", "failed"} -> s
    [] s = "deleted" -> "erased"

Contract == INSTANCE JobContract
  WITH Number    <- Review,
       phase     <- [j \in Job |-> PhaseOf(status[j])],
       automatic <- auto,
       review    <- accepted,
       result    <- [j \in Job |-> IF status[j] = "complete" THEN output[j] ELSE None]

\* Over table, bucket and queue the service still promises what it promises on
\* one machine, as long as no message is in doubt.
KeepsContract == Contract!Init /\ [][InDoubt' \/ Contract!Next]_(Contract!contractVars)

-----------------------------------------------------------------------------
(* What must happen.                                                       *)

\* Work ends: a job that is queued or in flight is finished, failed, handed to
\* a person or deleted, through interruptions of its worker.
WorkEnds == \A j \in Job :
  status[j] \in Queued \cup InFlight ~> status[j] \notin Queued \cup InFlight
=============================================================================
