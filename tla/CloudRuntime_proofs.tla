------------------------ MODULE CloudRuntime_proofs -------------------------
(***************************************************************************)
(* The AWS deployment for any jobs, callers, document loops, message       *)
(* slots, faults and settings: type correctness, one loop at a time under  *)
(* a message, and no output left behind for a deleted job.                 *)
(***************************************************************************)
EXTENDS CloudRuntime, TLAPS

USE TableAssumption, QueueAssumption, CloudServiceAssumption, CloudWorkerAssumption

LEMMA CycleTime == Cycle \in Nat /\ Lag \in 0 .. Cycle /\ Cycle = Beat + Lag
BY DEF Cycle

USE CycleTime

-----------------------------------------------------------------------------
(* Type correctness.                                                       *)

\* A process that is not idle is busy with a job.
BusyWithJob == \A p \in Proc : at[p] # "idle" => on[p] \in Job

\* A call has read the row by the time it updates it.
HasRead == \A c \in Client :
  at[c] \in {"submit", "write", "finalize", "send", "undo"} => was[c] \in JobStatus

\* TypeOK by parts, so that a proof names only the part a step touches.
RowTypeOK ==
  /\ status \in [Job -> JobStatus \cup {"none"}]
  /\ auto \in [Job -> BOOLEAN]
  /\ silent \in [Job -> 0 .. Patience]

ProcTypeOK ==
  /\ at \in [Proc -> Step]
  /\ on \in [Proc -> Job \cup {None}]
  /\ reading \in [Proc -> {"nothing", "fresh", "stale"}]
  /\ BusyWithJob

FileTypeOK ==
  /\ approved \in [Job -> Review \cup {None}]
  /\ output \in [Job -> Review \cup {None}]

CallTypeOK ==
  /\ was \in [Client -> JobStatus \cup {None}]
  /\ reviews \in [Job -> Review]
  /\ carries \in [Client -> Review]
  /\ accepted \in [Job -> Review]
  /\ before \in [Client -> Review]
  /\ gone \in [Job -> BOOLEAN]

FaultTypeOK == faults \in [FaultKind -> 0 .. MaxFaults]

TypeInv ==
  /\ RowTypeOK /\ ProcTypeOK /\ QueueTypeOK /\ FileTypeOK
  /\ CallTypeOK /\ FaultTypeOK /\ CloudWorkerTypeOK /\ HasRead

LEMMA TypesFit == TypeInv => TypeOK
BY DEF TypeInv, TypeOK, TableTypeOK, CloudServiceTypeOK, RowTypeOK, ProcTypeOK, FileTypeOK,
       CallTypeOK, FaultTypeOK

LEMMA InitTypes == Init => TypeInv
<1> SUFFICES ASSUME Init PROVE TypeInv
  OBVIOUS
<1> USE DEF Init
<1>1. RowTypeOK /\ ProcTypeOK
  BY DEF TableInit, RowTypeOK, ProcTypeOK, BusyWithJob, CloudStep
<1>2. QueueTypeOK
  BY DEF QueueInit, QueueTypeOK
<1>3. FileTypeOK /\ CallTypeOK /\ FaultTypeOK
  BY DEF CloudServiceInit, FileTypeOK, CallTypeOK, FaultTypeOK, Review
<1>4. CloudWorkerTypeOK
  BY DEF CloudWorkerInit, CloudWorkerTypeOK, NoLetter, Task, Review, Exception
<1>5. HasRead
  BY DEF TableInit, HasRead
<1> QED
  BY <1>1, <1>2, <1>3, <1>4, <1>5 DEF TypeInv

-----------------------------------------------------------------------------
(* What the operators of the table do to the types.                        *)

LEMMA StepsAreSteps == CloudStep \subseteq Step
BY CloudWorkerAssumption

LEMMA GotoType ==
  ASSUME ProcTypeOK, NEW p \in Proc, at[p] # "idle", NEW step \in CloudStep,
         Goto(p, step), reading' \in [Proc -> {"nothing", "fresh", "stale"}]
  PROVE  ProcTypeOK'
BY DEF Goto, ProcTypeOK, BusyWithJob

LEMMA BeginsType ==
  ASSUME ProcTypeOK, NEW p \in Proc, NEW j \in Job, NEW step \in CloudStep,
         Begins(p, j, step), UNCHANGED reading
  PROVE  ProcTypeOK'
BY DEF Begins, ProcTypeOK, BusyWithJob

LEMMA ProceedsType ==
  ASSUME ProcTypeOK, NEW p \in Proc, at[p] # "idle", NEW step \in CloudStep, Proceeds(p, step)
  PROVE  ProcTypeOK'
BY GotoType DEF Proceeds, ProcTypeOK

LEMMA DiesType ==
  ASSUME ProcTypeOK, NEW p \in Proc, at[p] # "idle", Dies(p)
  PROVE  ProcTypeOK'
<1>1. "idle" \in CloudStep
  BY DEF CloudStep
<1>2. reading' \in [Proc -> {"nothing", "fresh", "stale"}]
  BY DEF Dies, ProcTypeOK
<1> QED
  BY <1>1, <1>2, GotoType DEF Dies

Update(u) == u.to \in JobStatus /\ u.done \in CloudStep /\ u.lost \in CloudStep

LEMMA UpdateReadsType ==
  ASSUME ProcTypeOK, RowTypeOK, NEW p \in Proc, at[p] # "idle", NEW u, Update(u),
         UpdateReads(p, u)
  PROVE  ProcTypeOK' /\ RowTypeOK'
<1>1. RowTypeOK'
  BY DEF UpdateReads, tableVars, RowTypeOK
<1>2. CASE status[on[p]] \in u.from
  BY <1>1, <1>2 DEF UpdateReads, ProcTypeOK, BusyWithJob
<1>3. CASE status[on[p]] \notin u.from
  BY <1>1, <1>3, GotoType DEF UpdateReads, ProcTypeOK, Update
<1> QED
  BY <1>2, <1>3

LEMMA PutsType ==
  ASSUME ProcTypeOK, RowTypeOK, NEW p \in Proc, at[p] # "idle", NEW u, Update(u), Puts(p, u),
         auto' \in [Job -> BOOLEAN]
  PROVE  ProcTypeOK' /\ RowTypeOK'
<1>1. reading' \in [Proc -> {"nothing", "fresh", "stale"}]
  BY DEF Puts, Outdates, ProcTypeOK
<1>2. ProcTypeOK'
  BY <1>1, GotoType DEF Puts, Update
<1>3. status' \in [Job -> JobStatus \cup {"none"}]
  BY DEF Puts, RowTypeOK, Update
<1>4. silent' \in [Job -> 0 .. Patience]
  BY 0 \in 0 .. Patience DEF Puts, RowTypeOK
<1> QED
  BY <1>2, <1>3, <1>4 DEF RowTypeOK

LEMMA PutFailsType ==
  ASSUME ProcTypeOK, RowTypeOK, NEW p \in Proc, at[p] # "idle", NEW u, Update(u), PutFails(p, u)
  PROVE  ProcTypeOK' /\ RowTypeOK'
<1>1. reading' \in [Proc -> {"nothing", "fresh", "stale"}]
  BY DEF PutFails, ProcTypeOK
<1>2. ProcTypeOK'
  BY <1>1, GotoType DEF PutFails, Update
<1> QED
  BY <1>2 DEF PutFails, tableVars, RowTypeOK

LEMMA FaultType ==
  ASSUME FaultTypeOK, NEW kind, Fault(kind)
  PROVE  FaultTypeOK'
<1>1. kind \in FaultKind
  BY DEF Fault
<1>2. /\ \A k \in FaultKind : faults[k] \in Nat
      /\ faults[kind] <= FaultsSoFar
  BY <1>1 DEF FaultTypeOK, FaultsSoFar, FaultKind
<1>3. faults[kind] + 1 \in 0 .. MaxFaults
  BY <1>1, <1>2 DEF Fault, FaultTypeOK, FaultsSoFar, FaultKind
<1> QED
  BY <1>1, <1>3 DEF Fault, FaultTypeOK

LEMMA CallUpdates ==
  ASSUME HasRead, NEW c \in Client, at[c] \in CallUpdating
  PROVE  Update(CallUpdate(c))
<1>1. CASE at[c] = "submit"
  BY <1>1 DEF CallUpdate, Update, JobStatus, Queued, CloudStep
<1>2. CASE at[c] = "finalize"
  BY <1>2 DEF CallUpdate, Update, JobStatus, Queued, CloudStep
<1>3. CASE at[c] = "undo"
  BY <1>3 DEF CallUpdate, Update, CloudStep, HasRead
<1>4. CASE at[c] = "bury"
  BY <1>4 DEF CallUpdate, Update, JobStatus, CloudStep
<1>5. CASE at[c] = "reject"
  BY <1>5 DEF CallUpdate, Update, JobStatus, CloudStep
<1> QED
  BY <1>1, <1>2, <1>3, <1>4, <1>5 DEF CallUpdating

LEMMA LoopUpdates ==
  ASSUME NEW l \in Loop, at[l] \in LoopUpdating
  PROVE  Update(LoopUpdate(l))
<1> USE DEF LoopUpdate, Update, JobStatus, Queued, InFlight, CloudStep, Pipeline, RunOnce
<1>1. CASE at[l] = "claim"
  BY <1>1 DEF AfterClaim, InFlightFor
<1>2. CASE at[l] \in {"pages", "progress", "findings"}
  BY <1>2
<1>3. CASE at[l] = "handoff"
  BY <1>3 DEF AfterHandOff
<1>4. CASE at[l] \in {"complete", "review"}
  BY <1>4
<1>5. CASE at[l] = "failed"
  BY <1>5
<1>6. CASE at[l] = "release"
  BY <1>6 DEF QueuedFor
<1> QED
  BY <1>1, <1>2, <1>3, <1>4, <1>5, <1>6 DEF LoopUpdating

-----------------------------------------------------------------------------
(* What the operators of the queue do to its type.                         *)

Envelope == [says : Content, hidden : 0 .. Visibility, received : 0 .. MaxReceive]

LEMMA EnqueueType ==
  ASSUME QueueTypeOK, NEW m \in Message, NEW what \in Content, Enqueue(m, what)
  PROVE  QueueTypeOK'
<1>1. [says |-> what, hidden |-> 0, received |-> 0] \in Envelope
  BY DEF Envelope
<1> QED
  BY <1>1 DEF Enqueue, QueueTypeOK, Envelope

LEMMA ReceiveType ==
  ASSUME QueueTypeOK, NEW m \in Message, Receive(m)
  PROVE  QueueTypeOK' /\ queue'[m] \in Envelope
BY DEF Receive, Visible, Sent, QueueTypeOK, Envelope

LEMMA HideType ==
  ASSUME QueueTypeOK, NEW m, NEW handle, NEW time \in 0 .. Visibility, Hide(m, handle, time)
  PROVE  QueueTypeOK'
<1>1. CASE m \in Message /\ Handled(m, handle)
  <2>1. [queue[m] EXCEPT !.hidden = time] \in Envelope
    BY <1>1 DEF Handled, Sent, QueueTypeOK, Envelope
  <2> QED
    BY <1>1, <2>1 DEF Hide, QueueTypeOK, Envelope
<1>2. CASE ~(m \in Message /\ Handled(m, handle))
  BY <1>2 DEF Hide, QueueTypeOK
<1> QED
  BY <1>1, <1>2

LEMMA DropType ==
  ASSUME QueueTypeOK, NEW m, NEW handle, Acknowledge(m, handle) \/ DeadLetter(m)
  PROVE  QueueTypeOK'
BY DEF Acknowledge, DeadLetter, QueueTypeOK

LEMMA QueueAgesType ==
  ASSUME QueueTypeOK, QueueAges
  PROVE  QueueTypeOK'
<1>1. ASSUME NEW m \in Message, Sent(m), queue[m].hidden > 0
      PROVE  [queue[m] EXCEPT !.hidden = @ - 1] \in Envelope
  BY <1>1 DEF Sent, QueueTypeOK, Envelope
<1> QED
  BY <1>1 DEF QueueAges, QueueTypeOK, Envelope

-----------------------------------------------------------------------------
(* Type correctness, one lemma per component.                              *)

LEMMA ClientTypes ==
  ASSUME TypeInv, NEW c \in Client, ClientNext(c)
  PROVE  TypeInv'
<1> USE DEF TypeInv
<1>0. /\ c \in Proc
      /\ CloudWorkerTypeOK'
  BY DEF ClientNext, loopVars, CloudWorkerTypeOK
<1>s. {"idle", "submit", "reject", "write", "finalize", "send", "undo", "bury", "purge", "not_found"}
        \subseteq CloudStep
  BY DEF CloudStep
<1>1. ASSUME NEW j \in Job, CreateJob(c, j) PROVE TypeInv'
  <2>1. RowTypeOK'
    BY <1>1, 0 \in 0 .. Patience DEF CreateJob, Insert, RowTypeOK, JobStatus
  <2>2. QueueTypeOK' /\ FileTypeOK' /\ FaultTypeOK'
    BY <1>1 DEF CreateJob, fileVars, QueueTypeOK, FileTypeOK, FaultTypeOK
  <2>3. CASE UNCHANGED <<at, on, was>>
    BY <1>0, <1>1, <2>1, <2>2, <2>3 DEF CreateJob, ProcTypeOK, BusyWithJob, CallTypeOK, HasRead
  <2>4. CASE Begins(c, j, "reject") /\ was' = [was EXCEPT ![c] = "awaiting_upload"]
    <3>1. ProcTypeOK'
      BY <1>0, <1>1, <1>s, <2>4, BeginsType DEF CreateJob
    <3>2. CallTypeOK'
      BY <1>1, <2>4 DEF CreateJob, CallTypeOK, JobStatus
    <3>3. HasRead'
      BY <1>0, <2>4 DEF Begins, HasRead, ProcTypeOK, CallTypeOK, JobStatus
    <3> QED
      BY <1>0, <2>1, <2>2, <3>1, <3>2, <3>3
  <2> QED
    BY <1>1, <2>3, <2>4 DEF CreateJob
<1>2. ASSUME NEW j \in Job, Submit(c, j) PROVE TypeInv'
  <2>1. ProcTypeOK'
    <3>1. PICK verdict \in {"submit", "reject"} : Begins(c, j, verdict)
      BY <1>2 DEF Submit
    <3> QED
      BY <1>0, <1>2, <1>s, <3>1, BeginsType DEF Submit
  <2>2. RowTypeOK' /\ QueueTypeOK' /\ FileTypeOK' /\ FaultTypeOK'
    BY <1>2 DEF Submit, tableVars, fileVars, RowTypeOK, QueueTypeOK, FileTypeOK, FaultTypeOK
  <2>3. CallTypeOK'
    BY <1>2 DEF Submit, CallTypeOK, JobStatus
  <2>4. HasRead'
    BY <1>2, <1>0 DEF Submit, Begins, HasRead, ProcTypeOK, CallTypeOK, JobStatus
  <2> QED
    BY <1>0, <2>1, <2>2, <2>3, <2>4
<1>3. ASSUME NEW j \in Job, Finalize(c, j) PROVE TypeInv'
  <2>1. ProcTypeOK'
    BY <1>0, <1>3, <1>s, BeginsType DEF Finalize
  <2>2. RowTypeOK' /\ QueueTypeOK' /\ FileTypeOK' /\ FaultTypeOK'
    BY <1>3 DEF Finalize, tableVars, fileVars, RowTypeOK, QueueTypeOK, FileTypeOK, FaultTypeOK
  <2>3. reviews[j] + 1 \in Review
    BY <1>3 DEF Finalize, CallTypeOK, Review
  <2>4. status[j] \in JobStatus
    BY <1>3 DEF Finalize, Reviewable, JobStatus
  <2>5. CallTypeOK'
    BY <1>3, <2>3, <2>4 DEF Finalize, CallTypeOK
  <2>6. HasRead'
    BY <1>3, <1>0, <2>4 DEF Finalize, Begins, HasRead, ProcTypeOK, CallTypeOK
  <2> QED
    BY <1>0, <2>1, <2>2, <2>5, <2>6
<1>4. ASSUME NEW j \in Job, Delete(c, j) PROVE TypeInv'
  <2>1. ProcTypeOK'
    BY <1>0, <1>4, <1>s, BeginsType DEF Delete
  <2>2. RowTypeOK' /\ QueueTypeOK' /\ FileTypeOK' /\ CallTypeOK' /\ FaultTypeOK'
    BY <1>4 DEF Delete, tableVars, fileVars, callVars, RowTypeOK, QueueTypeOK, FileTypeOK, CallTypeOK, FaultTypeOK
  <2>3. HasRead'
    BY <1>4, <1>0 DEF Delete, Begins, callVars, HasRead, ProcTypeOK
  <2> QED
    BY <1>0, <2>1, <2>2, <2>3
<1>5. ASSUME FinalizeWrites(c) PROVE TypeInv'
  <2>1. ProcTypeOK'
    BY <1>0, <1>5, <1>s, ProceedsType DEF FinalizeWrites
  <2>2. RowTypeOK' /\ QueueTypeOK' /\ CallTypeOK' /\ FaultTypeOK'
    BY <1>5 DEF FinalizeWrites, tableVars, callVars, RowTypeOK, QueueTypeOK, CallTypeOK, FaultTypeOK
  <2>3. FileTypeOK'
    BY <1>5 DEF FinalizeWrites, FileTypeOK, CallTypeOK
  <2>4. HasRead'
    BY <1>5, <1>0 DEF FinalizeWrites, Proceeds, Goto, callVars, HasRead, ProcTypeOK
  <2> QED
    BY <1>0, <2>1, <2>2, <2>3, <2>4
<1>u. ASSUME at[c] \in CallUpdating PROVE Update(CallUpdate(c)) /\ at[c] # "idle"
  BY <1>u, CallUpdates DEF CallUpdating
<1>v. ASSUME at[c] \in CallUpdating, Goto(c, CallUpdate(c).done) \/ Goto(c, CallUpdate(c).lost)
      PROVE  at'[c] \in {"submit", "send", "undo", "write", "finalize"} => at[c] \in {"submit", "finalize"}
  <2>1. ASSUME at[c] = "undo" PROVE CallUpdate(c).done = "idle" /\ CallUpdate(c).lost = "idle"
    BY <2>1 DEF CallUpdate
  <2>2. ASSUME at[c] = "bury" PROVE CallUpdate(c).done = "purge" /\ CallUpdate(c).lost = "not_found"
    BY <2>2 DEF CallUpdate
  <2>3. ASSUME at[c] = "reject" PROVE CallUpdate(c).done = "idle" /\ CallUpdate(c).lost = "idle"
    BY <2>3 DEF CallUpdate
  <2> QED
    BY <1>0, <1>v, <2>1, <2>2, <2>3 DEF CallUpdating, Goto, ProcTypeOK
<1>6. ASSUME CallReads(c) PROVE TypeInv'
  <2>1. ProcTypeOK' /\ RowTypeOK'
    BY <1>0, <1>6, <1>u, UpdateReadsType DEF CallReads
  <2>2. QueueTypeOK' /\ FileTypeOK' /\ CallTypeOK' /\ FaultTypeOK'
    BY <1>6 DEF CallReads, fileVars, callVars, QueueTypeOK, FileTypeOK, CallTypeOK, FaultTypeOK
  <2>3. HasRead'
    BY <1>0, <1>6, <1>v DEF CallReads, UpdateReads, Goto, callVars, HasRead, ProcTypeOK
  <2> QED
    BY <1>0, <2>1, <2>2, <2>3
<1>7. ASSUME CallPuts(c) PROVE TypeInv'
  <2>0. on[c] \in Job
    BY <1>0, <1>7, <1>u DEF CallPuts, ProcTypeOK, BusyWithJob
  <2>1. auto' \in [Job -> BOOLEAN]
    BY <1>7 DEF CallPuts, RowTypeOK
  <2>2. ProcTypeOK' /\ RowTypeOK'
    BY <1>0, <1>7, <1>u, <2>1, PutsType DEF CallPuts
  <2>3. accepted' \in [Job -> Review]
    <3>1. CASE at[c] = "finalize"
      BY <1>7, <3>1 DEF CallPuts, CallTypeOK
    <3>2. CASE at[c] = "undo"
      BY <1>7, <3>2 DEF CallPuts, CallTypeOK
    <3>3. CASE at[c] \notin {"finalize", "undo"}
      BY <1>7, <3>3 DEF CallPuts, CallTypeOK
    <3> QED
      BY <3>1, <3>2, <3>3
  <2>4. before' \in [Client -> Review]
    BY <1>7, <2>0 DEF CallPuts, CallTypeOK, Review
  <2>5. QueueTypeOK' /\ FileTypeOK' /\ CallTypeOK' /\ FaultTypeOK'
    BY <1>7, <2>3, <2>4 DEF CallPuts, fileVars, QueueTypeOK, FileTypeOK, CallTypeOK, FaultTypeOK
  <2>6. HasRead'
    BY <1>0, <1>7, <1>v DEF CallPuts, Puts, Goto, HasRead, ProcTypeOK
  <2> QED
    BY <1>0, <2>2, <2>5, <2>6
<1>8. ASSUME CallLoses(c) PROVE TypeInv'
  <2>1. ProcTypeOK' /\ RowTypeOK'
    BY <1>0, <1>8, <1>u, PutFailsType DEF CallLoses
  <2>2. QueueTypeOK' /\ FileTypeOK' /\ CallTypeOK' /\ FaultTypeOK'
    BY <1>8 DEF CallLoses, fileVars, callVars, QueueTypeOK, FileTypeOK, CallTypeOK, FaultTypeOK
  <2>3. HasRead'
    BY <1>0, <1>8, <1>v DEF CallLoses, PutFails, Goto, callVars, HasRead, ProcTypeOK
  <2> QED
    BY <1>0, <2>1, <2>2, <2>3
<1>t. ASSUME at[c] = "send" PROVE <<on[c], TaskOf(c)>> \in Content
  BY <1>0, <1>t DEF ProcTypeOK, BusyWithJob, TaskOf, Task
<1>9. ASSUME NEW m \in Message, Sends(c, m) PROVE TypeInv'
  <2>1. ProcTypeOK'
    BY <1>0, <1>9, <1>s, ProceedsType DEF Sends
  <2>2. QueueTypeOK'
    BY <1>9, <1>t, EnqueueType DEF Sends
  <2>3. RowTypeOK' /\ FileTypeOK' /\ FaultTypeOK'
    BY <1>9 DEF Sends, tableVars, fileVars, RowTypeOK, FileTypeOK, FaultTypeOK
  <2>4. CallTypeOK'
    BY <1>9 DEF Sends, CallTypeOK, Review
  <2>5. HasRead'
    BY <1>9, <1>0 DEF Sends, Proceeds, Goto, HasRead, ProcTypeOK
  <2> QED
    BY <1>0, <2>1, <2>2, <2>3, <2>4, <2>5
<1>10. ASSUME SendFails(c) PROVE TypeInv'
  <2>1. ProcTypeOK'
    BY <1>0, <1>10, <1>s, ProceedsType DEF SendFails
  <2>2. QueueTypeOK'
    BY <1>10, <1>t, EnqueueType DEF SendFails, QueueTypeOK
  <2>3. FaultTypeOK'
    BY <1>10, FaultType DEF SendFails
  <2>4. RowTypeOK' /\ FileTypeOK' /\ CallTypeOK'
    BY <1>10 DEF SendFails, tableVars, fileVars, callVars, RowTypeOK, FileTypeOK, CallTypeOK
  <2>5. HasRead'
    BY <1>10, <1>0 DEF SendFails, Proceeds, Goto, callVars, HasRead, ProcTypeOK
  <2> QED
    BY <1>0, <2>1, <2>2, <2>3, <2>4, <2>5
<1>11. ASSUME DeletePurges(c) PROVE TypeInv'
  <2>1. ProcTypeOK'
    BY <1>0, <1>11, <1>s, ProceedsType DEF DeletePurges
  <2>2. FileTypeOK'
    BY <1>11 DEF DeletePurges, FileTypeOK
  <2>3. RowTypeOK' /\ QueueTypeOK' /\ CallTypeOK' /\ FaultTypeOK'
    BY <1>11 DEF DeletePurges, tableVars, RowTypeOK, QueueTypeOK, CallTypeOK, FaultTypeOK
  <2>4. HasRead'
    BY <1>11, <1>0 DEF DeletePurges, Proceeds, Goto, HasRead, ProcTypeOK
  <2> QED
    BY <1>0, <2>1, <2>2, <2>3, <2>4
<1>12. ASSUME DeleteAnswersNotFound(c) PROVE TypeInv'
  <2>1. ProcTypeOK'
    BY <1>0, <1>12, <1>s, ProceedsType DEF DeleteAnswersNotFound
  <2>2. RowTypeOK' /\ QueueTypeOK' /\ FileTypeOK' /\ CallTypeOK' /\ FaultTypeOK'
    BY <1>12 DEF DeleteAnswersNotFound, tableVars, fileVars, RowTypeOK, QueueTypeOK, FileTypeOK,
                 CallTypeOK, FaultTypeOK
  <2>3. HasRead'
    BY <1>12, <1>0 DEF DeleteAnswersNotFound, Proceeds, Goto, HasRead, ProcTypeOK
  <2> QED
    BY <1>0, <2>1, <2>2, <2>3
<1>13. ASSUME CallDies(c) PROVE TypeInv'
  <2>1. ProcTypeOK'
    BY <1>0, <1>13, DiesType DEF CallDies
  <2>2. FaultTypeOK'
    BY <1>13, FaultType DEF CallDies
  <2>3. RowTypeOK' /\ QueueTypeOK' /\ FileTypeOK' /\ CallTypeOK'
    BY <1>13 DEF CallDies, tableVars, fileVars, callVars, RowTypeOK, QueueTypeOK, FileTypeOK, CallTypeOK
  <2>4. HasRead'
    BY <1>13, <1>0 DEF CallDies, Dies, Goto, callVars, HasRead, ProcTypeOK
  <2> QED
    BY <1>0, <2>1, <2>2, <2>3, <2>4
<1> QED
  BY <1>1, <1>2, <1>3, <1>4, <1>5, <1>6, <1>7, <1>8, <1>9, <1>10, <1>11, <1>12, <1>13
  DEF ClientNext, CallStarts, CallContinues

LEMMA RestsType ==
  ASSUME NEW l \in Loop, NEW step, beat \in [Loop -> 0 .. Cycle], Rests(l, step)
  PROVE  beat' \in [Loop -> 0 .. Cycle]
<1>1. Cycle \in 0 .. Cycle /\ Lag \in 0 .. Cycle
  BY CloudWorkerAssumption
<1>2. CASE step \in Pipeline /\ at[l] \notin Pipeline
  BY <1>1, <1>2 DEF Rests
<1>3. CASE step \notin Pipeline /\ at[l] \in Pipeline
  BY <1>1, <1>3 DEF Rests
<1>4. CASE ~(step \in Pipeline /\ at[l] \notin Pipeline) /\ ~(step \notin Pipeline /\ at[l] \in Pipeline)
  BY <1>4 DEF Rests
<1> QED
  BY <1>2, <1>3, <1>4

LEMMA LoopTypes ==
  ASSUME TypeInv, NEW l \in Loop, LoopNext(l)
  PROVE  TypeInv'
<1> USE DEF TypeInv
<1>0. l \in Proc /\ l \notin Client
  OBVIOUS
<1>s. Pipeline \cup RunOnce \cup {"idle"} \subseteq CloudStep
  BY DEF CloudStep
<1>a. ASSUME ProcTypeOK', UNCHANGED was, \A c \in Client : at'[c] = at[c]
      PROVE  HasRead'
  BY <1>a DEF HasRead
<1>b. ASSUME NEW step, Proceeds(l, step) \/ Begins(l, on'[l], step) \/ Dies(l) \/ Goto(l, step)
      PROVE  \A c \in Client : at'[c] = at[c]
  BY <1>0, <1>b DEF Proceeds, Begins, Dies, Goto, ProcTypeOK
<1>c. ASSUME at[l] \in LoopUpdating
      PROVE  at[l] # "idle" /\ Update(LoopUpdate(l)) /\ on[l] \in Job
  <2>1. at[l] # "idle"
    BY <1>c DEF LoopUpdating
  <2> QED
    BY <1>0, <1>c, <2>1, LoopUpdates DEF ProcTypeOK, BusyWithJob
<1>d. ASSUME at[l] # "idle" PROVE on[l] \in Job
  BY <1>0, <1>d DEF ProcTypeOK, BusyWithJob
<1>e. ASSUME UNCHANGED callVars PROVE CallTypeOK'
  BY <1>e DEF callVars, CallTypeOK
<1>f. ASSUME UNCHANGED fileVars PROVE FileTypeOK'
  BY <1>f DEF fileVars, FileTypeOK
<1>g. ASSUME UNCHANGED tableVars PROVE RowTypeOK'
  BY <1>g DEF tableVars, RowTypeOK
<1>h. ASSUME UNCHANGED queue PROVE QueueTypeOK'
  BY <1>h DEF QueueTypeOK
<1>i. ASSUME UNCHANGED faults PROVE FaultTypeOK'
  BY <1>i DEF FaultTypeOK
<1>p. ASSUME NEW step \in Pipeline \cup RunOnce \cup {"idle"}, at[l] # "idle", Proceeds(l, step),
             UNCHANGED callVars
      PROVE  ProcTypeOK' /\ HasRead'
  <2>1. ProcTypeOK'
    BY <1>0, <1>s, <1>p, ProceedsType
  <2> QED
    BY <1>a, <1>b, <1>p, <2>1 DEF callVars
<1>w. ASSUME UNCHANGED <<letter, beat, unread, manifest, why>> PROVE CloudWorkerTypeOK'
  BY <1>w DEF CloudWorkerTypeOK
<1>x. ASSUME UNCHANGED <<letter, unread, manifest>>, beat' \in [Loop -> 0 .. Cycle],
             why' \in [Loop -> Exception]
      PROVE  CloudWorkerTypeOK'
  BY <1>x DEF CloudWorkerTypeOK
<1>y. CloudWorkerTypeOK => beat \in [Loop -> 0 .. Cycle] /\ why \in [Loop -> Exception]
  BY DEF CloudWorkerTypeOK
<1>z. ASSUME NEW u, Raised(l, u) PROVE why' \in [Loop -> Exception]
  BY <1>y, <1>z DEF Raised, Exception
<1>1. ASSUME LoopReads(l) PROVE TypeInv'
  <2>1. ProcTypeOK' /\ RowTypeOK'
    BY <1>0, <1>1, <1>c, UpdateReadsType DEF LoopReads
  <2>2. HasRead'
    BY <1>0, <1>1, <1>a, <2>1 DEF LoopReads, UpdateReads, Goto, callVars, ProcTypeOK
  <2>3. CloudWorkerTypeOK'
    BY <1>1, <1>x, <1>y, <1>z, RestsType DEF LoopReads
  <2> QED
    BY <1>1, <1>e, <1>f, <1>h, <1>i, <2>1, <2>2, <2>3 DEF LoopReads
<1>2. ASSUME LoopPuts(l) PROVE TypeInv'
  <2>1. ProcTypeOK' /\ RowTypeOK'
    BY <1>0, <1>2, <1>c, PutsType DEF LoopPuts, RowTypeOK
  <2>2. HasRead'
    BY <1>0, <1>2, <1>a, <2>1 DEF LoopPuts, Puts, Goto, callVars, ProcTypeOK
  <2>3. beat' \in [Loop -> 0 .. Cycle]
    BY <1>2, <1>y, RestsType DEF LoopPuts
  <2>4. auto[on[l]] \in BOOLEAN
    BY <1>2, <1>c DEF LoopPuts, RowTypeOK
  <2>5. letter' \in [Loop -> [message : Message \cup {NoMessage}, handle : 0 .. MaxReceive,
                              task : Task, auto : BOOLEAN]]
    BY <1>2, <2>4 DEF LoopPuts, CloudWorkerTypeOK
  <2>6. unread' \in [Loop -> 0 .. Pages]
    BY <1>2, Pages \in 0 .. Pages DEF LoopPuts, CloudWorkerTypeOK
  <2>7. CloudWorkerTypeOK'
    BY <1>2, <2>3, <2>5, <2>6 DEF LoopPuts, CloudWorkerTypeOK
  <2> QED
    BY <1>2, <1>e, <1>f, <1>h, <1>i, <2>1, <2>2, <2>7 DEF LoopPuts
<1>3. ASSUME LoopLoses(l) PROVE TypeInv'
  <2>1. ProcTypeOK' /\ RowTypeOK'
    BY <1>0, <1>3, <1>c, PutFailsType DEF LoopLoses
  <2>2. HasRead'
    BY <1>0, <1>3, <1>a, <2>1 DEF LoopLoses, PutFails, Goto, callVars, ProcTypeOK
  <2>3. CloudWorkerTypeOK'
    BY <1>3, <1>x, <1>y, <1>z, RestsType DEF LoopLoses
  <2> QED
    BY <1>3, <1>e, <1>f, <1>h, <1>i, <2>1, <2>2, <2>3 DEF LoopLoses
<1>4. ASSUME NEW m \in Message, ReceiveMessage(l, m) PROVE TypeInv'
  <2>1. queue[m] \in Envelope
    BY <1>4 DEF ReceiveMessage, Receive, Visible, Sent, QueueTypeOK, Envelope
  <2>2. queue[m].says[1] \in Job /\ queue[m].says[2] \in Task
    BY <2>1 DEF Envelope
  <2>3. ProcTypeOK'
    BY <1>0, <1>4, <2>2, BeginsType DEF ReceiveMessage, CloudStep, RunOnce
  <2>4. HasRead'
    BY <1>0, <1>4, <1>a, <2>3 DEF ReceiveMessage, Begins, callVars, ProcTypeOK
  <2>5. QueueTypeOK' /\ queue'[m] \in Envelope
    BY <1>4, ReceiveType DEF ReceiveMessage
  <2>6. queue'[m].received \in 0 .. MaxReceive
    BY <2>5 DEF Envelope
  <2>7. CloudWorkerTypeOK'
    BY <1>4, <2>2, <2>6 DEF ReceiveMessage, CloudWorkerTypeOK
  <2> QED
    BY <1>4, <1>e, <1>f, <1>g, <1>i, <2>3, <2>4, <2>5, <2>7 DEF ReceiveMessage
<1>5. ASSUME LooksAtRow(l) PROVE TypeInv'
  BY <1>5, <1>e, <1>f, <1>g, <1>h, <1>i, <1>p, <1>w DEF LooksAtRow, RunOnce, loopVars
<1>6. ASSUME NEW exception \in Exception, at[l] # "idle", Raises(l, exception), FaultTypeOK'
      PROVE  TypeInv'
  <2>1. why' \in [Loop -> Exception]
    BY <1>6, <1>y DEF Raises
  <2>2. CloudWorkerTypeOK'
    BY <1>6, <1>x, <1>y, <2>1, RestsType DEF Raises
  <2> QED
    BY <1>6, <1>e, <1>f, <1>g, <1>h, <1>p, <2>2 DEF Raises, RunOnce
<1>7. ASSUME ReportsPage(l) PROVE TypeInv'
  <2>1. CloudWorkerTypeOK'
    BY <1>7 DEF ReportsPage, CloudWorkerTypeOK
  <2> QED
    BY <1>7, <1>e, <1>f, <1>g, <1>h, <1>i, <1>p, <2>1 DEF ReportsPage, Pipeline
<1>8. ASSUME Detected(l) PROVE TypeInv'
  BY <1>8, <1>e, <1>f, <1>g, <1>h, <1>i, <1>p, <1>w DEF Detected, Pipeline, loopVars
<1>9. ASSUME PutsManifests(l) PROVE TypeInv'
  <2>0. 0 \in Review
    BY DEF Review
  <2>1. FileTypeOK' /\ CloudWorkerTypeOK'
    BY <1>9, <2>0 DEF PutsManifests, FileTypeOK, CloudWorkerTypeOK
  <2> QED
    BY <1>9, <1>e, <1>g, <1>h, <1>i, <1>p, <2>1 DEF PutsManifests, Pipeline
<1>10. ASSUME FetchesManifest(l) PROVE TypeInv'
  <2>1. approved[on[l]] \in Review
    BY <1>10, <1>d DEF FetchesManifest, FileTypeOK
  <2>2. CloudWorkerTypeOK'
    BY <1>10, <2>1 DEF FetchesManifest, CloudWorkerTypeOK
  <2> QED
    BY <1>10, <1>e, <1>f, <1>g, <1>h, <1>i, <1>p, <2>2 DEF FetchesManifest, Pipeline
<1>11. ASSUME Rendered(l) PROVE TypeInv'
  BY <1>11, <1>e, <1>f, <1>g, <1>h, <1>i, <1>p, <1>w DEF Rendered, Pipeline, loopVars
<1>12. ASSUME PutsOutput(l) PROVE TypeInv'
  <2>1. FileTypeOK'
    BY <1>12 DEF PutsOutput, FileTypeOK, CloudWorkerTypeOK
  <2> QED
    BY <1>12, <1>e, <1>g, <1>h, <1>i, <1>p, <1>w, <2>1 DEF PutsOutput, Pipeline, loopVars
<1>13. ASSUME LostRace(l) PROVE TypeInv'
  <2>1. FileTypeOK'
    BY <1>13, <1>f DEF LostRace, FileTypeOK
  <2>2. why' \in [Loop -> Exception]
    BY <1>13, <1>y DEF LostRace, Exception
  <2>3. CloudWorkerTypeOK'
    BY <1>13, <1>x, <1>y, <2>2, RestsType DEF LostRace
  <2> QED
    BY <1>13, <1>e, <1>g, <1>h, <1>i, <1>p, <2>1, <2>3 DEF LostRace, RunOnce
<1>14. ASSUME Cancelled(l) \/ ManifestGone(l) PROVE TypeInv'
  BY <1>14, <1>6, <1>i DEF Cancelled, ManifestGone, Exception
<1>15. ASSUME DocumentFails(l) PROVE TypeInv'
  BY <1>15, <1>6, FaultType DEF DocumentFails, Exception
<1>16. ASSUME ModelDown(l) PROVE TypeInv'
  <2>1. CloudWorkerTypeOK'
    BY <1>16, <1>x, <1>y, RestsType DEF ModelDown
  <2>2. FaultTypeOK'
    BY <1>16, FaultType DEF ModelDown
  <2> QED
    BY <1>16, <1>e, <1>f, <1>g, <1>h, <1>p, <2>1, <2>2 DEF ModelDown, RunOnce
<1>17. ASSUME Fails(l) PROVE TypeInv'
  <2>1. FileTypeOK'
    BY <1>17, <1>f DEF Fails, FileTypeOK
  <2>2. \E step \in {"ack", "review", "failed"} : Proceeds(l, step)
    BY <1>17 DEF Fails
  <2> QED
    BY <1>17, <1>e, <1>g, <1>h, <1>i, <1>p, <1>w, <2>1, <2>2 DEF Fails, RunOnce, loopVars
<1>r. ASSUME PutsDown(l) PROVE CloudWorkerTypeOK'
  <2>1. NoLetter \in [message : Message \cup {NoMessage}, handle : 0 .. MaxReceive,
                      task : Task, auto : BOOLEAN]
    BY DEF NoLetter, Task
  <2>2. Cycle \in 0 .. Cycle /\ 0 \in 0 .. Pages
    OBVIOUS
  <2> QED
    BY <1>r, <2>1, <2>2 DEF PutsDown, CloudWorkerTypeOK, Exception
<1>18. ASSUME AcknowledgesMessage(l) PROVE TypeInv'
  <2>1. QueueTypeOK'
    BY <1>18, DropType DEF AcknowledgesMessage
  <2> QED
    BY <1>18, <1>e, <1>f, <1>g, <1>i, <1>p, <1>r, <2>1 DEF AcknowledgesMessage
<1>19. ASSUME ReturnsMessage(l) PROVE TypeInv'
  <2>1. QueueTypeOK'
    BY <1>19, HideType DEF ReturnsMessage, Release
  <2> QED
    BY <1>19, <1>e, <1>f, <1>g, <1>i, <1>p, <1>r, <2>1 DEF ReturnsMessage
<1>20. ASSUME LoopCrashes(l) PROVE TypeInv'
  <2>1. ProcTypeOK'
    BY <1>0, <1>20, DiesType DEF LoopCrashes
  <2>2. HasRead'
    BY <1>20, <1>a, <1>b, <2>1 DEF LoopCrashes, callVars
  <2>3. FaultTypeOK'
    BY <1>20, FaultType DEF LoopCrashes
  <2> QED
    BY <1>20, <1>e, <1>f, <1>g, <1>h, <1>r, <2>1, <2>2, <2>3 DEF LoopCrashes
<1>21. ASSUME Heartbeat(l) PROVE TypeInv'
  <2>1. QueueTypeOK'
    BY <1>21, Visibility \in 0 .. Visibility, HideType, <1>h DEF Heartbeat, Renew
  <2>2. FaultTypeOK'
    BY <1>21, <1>i, FaultType DEF Heartbeat
  <2>3. CloudWorkerTypeOK'
    BY <1>21, <1>x, <1>y, Cycle \in 0 .. Cycle DEF Heartbeat
  <2>4. ProcTypeOK' /\ HasRead'
    BY <1>21 DEF Heartbeat, processVars, callVars, ProcTypeOK, BusyWithJob, HasRead
  <2> QED
    BY <1>21, <1>e, <1>f, <1>g, <2>1, <2>2, <2>3, <2>4 DEF Heartbeat
<1> QED
  BY <1>1, <1>2, <1>3, <1>4, <1>5, <1>7, <1>8, <1>9, <1>10, <1>11, <1>12, <1>13, <1>14, <1>15,
     <1>16, <1>17, <1>18, <1>19, <1>20, <1>21
  DEF LoopNext, LoopStarts, LoopContinues, LoopFaults

LEMMA SqsTypes ==
  ASSUME TypeInv, SqsNext
  PROVE  TypeInv'
<1>1. QueueTypeOK'
  <2>1. ASSUME NEW m \in Message, DeliverTwice(m) PROVE QueueTypeOK'
    <3>1. [queue[m] EXCEPT !.hidden = 0] \in Envelope
      BY <2>1 DEF TypeInv, DeliverTwice, Sent, QueueTypeOK, Envelope
    <3> QED
      BY <2>1, <3>1 DEF TypeInv, DeliverTwice, QueueTypeOK, Envelope
  <2> QED
    BY <2>1, DropType DEF SqsNext, TypeInv
<1>2. FaultTypeOK'
  BY FaultType DEF SqsNext, TypeInv, FaultTypeOK
<1> QED
  BY <1>1, <1>2 DEF SqsNext, TypeInv, RowTypeOK, ProcTypeOK, BusyWithJob, FileTypeOK, CallTypeOK,
     CloudWorkerTypeOK, HasRead, tableVars, processVars, fileVars, callVars, loopVars

LEMMA TickTypes ==
  ASSUME TypeInv, Tick
  PROVE  TypeInv'
<1>1. QueueTypeOK'
  BY QueueAgesType DEF Tick, TypeInv
<1>2. silent' \in [Job -> 0 .. Patience]
  BY DEF Tick, Ages, TypeInv, RowTypeOK
<1>3. beat' \in [Loop -> 0 .. Cycle]
  BY DEF Tick, StepInTime, TypeInv, CloudWorkerTypeOK
<1> QED
  BY <1>1, <1>2, <1>3 DEF Tick, TypeInv, RowTypeOK, ProcTypeOK, BusyWithJob, FileTypeOK, CallTypeOK,
     FaultTypeOK, CloudWorkerTypeOK, HasRead, processVars, fileVars, callVars

LEMMA StepTypes == TypeInv /\ [Next]_vars => TypeInv'
<1>1. ASSUME TypeInv, UNCHANGED vars PROVE TypeInv'
  BY <1>1 DEF vars, TypeInv, RowTypeOK, ProcTypeOK, BusyWithJob, QueueTypeOK, FileTypeOK, CallTypeOK,
     FaultTypeOK, CloudWorkerTypeOK, HasRead, tableVars, processVars, fileVars, callVars, loopVars
<1> QED
  BY <1>1, ClientTypes, LoopTypes, SqsTypes, TickTypes DEF Next

LEMMA TypesKept == Spec => []TypeInv
BY InitTypes, StepTypes, PTL DEF Spec

\* Every variable of the AWS deployment has its type in every state: no call and
\* no loop reads a row, a manifest or a message that was never there.
THEOREM CloudTypeCorrect == Spec => []TypeOK
BY TypesKept, TypesFit, PTL

-----------------------------------------------------------------------------
(* One loop under a message.                                               *)

Slack == Lag + (faults["renewal_fails"] + 1) * Cycle

\* A loop has a letter just while it is busy.
LetterInHand == \A l \in Loop : at[l] = "idle" <=> letter[l].message = NoMessage

\* No receipt is newer than the last delivery of its message.
ReceiptsPast == \A l \in Loop :
  at[l] # "idle" /\ Sent(letter[l].message) => letter[l].handle <= queue[letter[l].message].received

\* No two loops hold the same receipt.
ReceiptsDiffer == \A k, l \in Loop :
  k # l /\ at[k] # "idle" /\ at[l] # "idle" /\ letter[k].message = letter[l].message =>
    letter[k].handle # letter[l].handle

Holds(l) == Handled(letter[l].message, letter[l].handle)

\* A loop that claims a job, or is at work on it, holds the current receipt, and
\* the message stays hidden beyond what the loop is still waiting for.
StaysHidden == \A l \in Loop :
  /\ at[l] \in {"look", "claim"} =>
       Holds(l) /\ queue[letter[l].message].hidden + Lag >= beat[l] + Visibility
  /\ at[l] \in Pipeline =>
       Holds(l) /\ queue[letter[l].message].hidden + Slack >= beat[l] + Visibility

Undisturbed == ~Happened("delivered_twice") /\ ~RenewalsLate

MessageInv ==
  /\ LetterInHand /\ ReceiptsPast /\ ReceiptsDiffer
  /\ Undisturbed => StaysHidden

LEMMA Products ==
  ASSUME NEW a \in Nat, NEW b \in Nat, NEW c \in Nat
  PROVE  /\ a * c \in Nat
         /\ a <= b => a * c <= b * c
         /\ (a + 1) * c = a * c + c
<1>1. a * c \in Nat /\ (a + 1) * c = a * c + c
  OBVIOUS
<1>2. ASSUME a <= b PROVE a * c <= b * c
  <2>1. PICK d \in Nat : b = a + d
    BY <1>2, b - a \in Nat, b = a + (b - a)
  <2>2. b * c = a * c + d * c /\ d * c \in Nat
    BY <2>1
  <2> QED
    BY <1>1, <2>2
<1> QED
  BY <1>1, <1>2

\* Faults are only counted up.
Grows == \A kind \in FaultKind : faults'[kind] >= faults[kind]

LEMMA FaultGrows ==
  ASSUME FaultTypeOK, NEW kind, Fault(kind) \/ UNCHANGED faults
  PROVE  Grows
BY DEF Fault, Grows, FaultTypeOK

\* What was undisturbed after a step was so before it, and renewals may be lost
\* only further.
LEMMA SlackGrows ==
  ASSUME FaultTypeOK, FaultTypeOK', Grows
  PROVE  /\ Slack \in Nat /\ Slack' \in Nat /\ Slack <= Slack'
         /\ Undisturbed' => Undisturbed
         /\ Undisturbed => Slack < Visibility
         /\ faults'["renewal_fails"] = faults["renewal_fails"] + 1 => Slack' = Slack + Cycle
<1> DEFINE f == faults["renewal_fails"]
           g == faults'["renewal_fails"]
<1>1. f \in Nat /\ g \in Nat /\ f <= g
  BY DEF FaultTypeOK, Grows, FaultKind
<1>2. /\ (f + 1) * Cycle \in Nat /\ (g + 1) * Cycle \in Nat /\ (f + 1) * Cycle <= (g + 1) * Cycle
      /\ (f + 2) * Cycle = (f + 1) * Cycle + Cycle
  BY <1>1, Products, f + 1 \in Nat, g + 1 \in Nat, Cycle \in Nat, f + 1 <= g + 1, f + 2 = (f + 1) + 1
<1>3. Slack = Lag + (f + 1) * Cycle /\ Slack' = Lag + (g + 1) * Cycle
  BY DEF Slack
<1>4. Happened("delivered_twice") => Happened("delivered_twice")'
  BY DEF Happened, Grows, FaultTypeOK, FaultKind
<1>5. (RenewalsLate <=> Slack >= Visibility) /\ (RenewalsLate' <=> Slack' >= Visibility)
  BY DEF RenewalsLate, Slack
<1> HIDE DEF f, g
<1>6. Slack \in Nat /\ Slack' \in Nat /\ Slack <= Slack'
  BY <1>2, <1>3
<1>7. g = f + 1 => Slack' = Slack + Cycle
  BY <1>1, <1>2, <1>3, (f + 1) + 1 = f + 2
<1> QED
  BY <1>4, <1>5, <1>6, <1>7 DEF Undisturbed, f, g

LEMMA SlackAtLeast ==
  ASSUME FaultTypeOK
  PROVE  Lag + Cycle <= Slack
<1>1. /\ faults["renewal_fails"] * Cycle \in Nat
      /\ (faults["renewal_fails"] + 1) * Cycle = faults["renewal_fails"] * Cycle + Cycle
  BY Products DEF FaultTypeOK, FaultKind
<1> QED
  BY <1>1 DEF Slack

\* A step of a loop between the receipt and the acknowledgement.
WorksOn(l) ==
  /\ at[l] # "idle" /\ at'[l] # "idle"
  /\ \A k \in Loop \ {l} : at'[k] = at[k] /\ beat'[k] = beat[k]
  /\ UNCHANGED queue
  /\ \A k \in Loop : letter'[k].message = letter[k].message /\ letter'[k].handle = letter[k].handle
  /\ at'[l] \in {"look", "claim"} => at[l] \in {"look", "claim"} /\ beat'[l] = beat[l]
  /\ at'[l] \in Pipeline =>
       \/ at[l] \in Pipeline /\ beat'[l] = beat[l]
       \/ at[l] = "claim" /\ beat'[l] = Cycle
  /\ Grows

LEMMA Hidden ==
  ASSUME TypeInv, LetterInHand, NEW l \in Loop, at[l] # "idle"
  PROVE  /\ letter[l].message \in Message /\ letter[l].handle \in Nat
         /\ Sent(letter[l].message) => queue[letter[l].message] \in Envelope
BY DEF TypeInv, LetterInHand, CloudWorkerTypeOK, QueueTypeOK, Sent, Envelope

LEMMA EnvelopeParts ==
  ASSUME NEW e \in Envelope
  PROVE  e.hidden \in 0 .. Visibility /\ e.received \in 0 .. MaxReceive
BY DEF Envelope

LEMMA WorkKeepsMessages ==
  ASSUME TypeInv, TypeInv', MessageInv, NEW l \in Loop, WorksOn(l)
  PROVE  MessageInv'
<1>0. \A k \in Loop : at'[k] = "idle" <=> at[k] = "idle"
  BY DEF WorksOn
<1>1. LetterInHand' /\ ReceiptsPast' /\ ReceiptsDiffer'
  BY <1>0 DEF MessageInv, WorksOn, LetterInHand, ReceiptsPast, ReceiptsDiffer, Sent
<1>2. ASSUME Undisturbed', NEW k \in Loop
      PROVE  /\ at'[k] \in {"look", "claim"} =>
                  Holds(k)' /\ queue'[letter'[k].message].hidden + Lag >= beat'[k] + Visibility
             /\ at'[k] \in Pipeline =>
                  Holds(k)' /\ queue'[letter'[k].message].hidden + Slack' >= beat'[k] + Visibility
  <2>1. /\ Slack \in Nat /\ Slack' \in Nat /\ Slack <= Slack' /\ Lag + Cycle <= Slack
        /\ StaysHidden /\ "idle" \notin Pipeline
    <3>1. Lag + Cycle <= Slack
      BY SlackAtLeast DEF TypeInv
    <3> QED
      BY <1>2, <3>1, SlackGrows DEF MessageInv, TypeInv, WorksOn, Pipeline
  <2>2. queue' = queue /\ letter'[k].message = letter[k].message /\ letter'[k].handle = letter[k].handle
    BY DEF WorksOn
  <2>3. Holds(k) => Holds(k)'
    BY <2>2 DEF Holds, Handled, Sent
  <2>4. at[k] # "idle" /\ Holds(k) => queue[letter[k].message].hidden \in 0 .. Visibility
    BY Hidden, EnvelopeParts DEF MessageInv, Holds, Handled
  <2>5. beat[k] \in 0 .. Cycle /\ beat'[k] \in 0 .. Cycle
    BY DEF TypeInv, CloudWorkerTypeOK
  <2>6. ASSUME at'[k] \in {"look", "claim"}
        PROVE  Holds(k) /\ queue[letter[k].message].hidden + Lag >= beat'[k] + Visibility
    BY <2>1, <2>6 DEF StaysHidden, WorksOn
  <2>7. ASSUME at'[k] \in Pipeline
        PROVE  Holds(k) /\ queue[letter[k].message].hidden + Slack' >= beat'[k] + Visibility
    <3>1. ASSUME at[k] \in Pipeline, beat'[k] = beat[k]
          PROVE  Holds(k) /\ queue[letter[k].message].hidden + Slack' >= beat'[k] + Visibility
      BY <2>1, <2>4, <2>5, <3>1 DEF StaysHidden
    <3>2. ASSUME at[k] = "claim", beat'[k] = Cycle
          PROVE  Holds(k) /\ queue[letter[k].message].hidden + Slack' >= beat'[k] + Visibility
      BY <2>1, <2>4, <2>5, <3>2 DEF StaysHidden
    <3> QED
      BY <2>7, <3>1, <3>2 DEF WorksOn
  <2> QED
    BY <2>2, <2>3, <2>6, <2>7
<1> QED
  BY <1>1, <1>2 DEF MessageInv, StaysHidden

LEMMA LoopWorks ==
  ASSUME TypeInv, NEW l \in Loop,
         LoopContinues(l) \/ LoopFaults(l), at[l] \notin {"ack", "return"}, ~LoopCrashes(l)
  PROVE  WorksOn(l)
<1> DEFINE Others == \A k \in Loop \ {l} : at'[k] = at[k] /\ beat'[k] = beat[k]
           Letters == \A k \in Loop : /\ letter'[k].message = letter[k].message
                                      /\ letter'[k].handle = letter[k].handle
<1>0. l \in Proc /\ Loop \subseteq Proc /\ at \in [Proc -> Step] /\ beat \in [Loop -> 0 .. Cycle]
  BY DEF TypeInv, ProcTypeOK, CloudWorkerTypeOK
<1>a. ASSUME NEW step, Goto(l, step) PROVE at'[l] = step /\ \A k \in Loop \ {l} : at'[k] = at[k]
  BY <1>0, <1>a DEF Goto
<1>b. ASSUME NEW step, Rests(l, step)
      PROVE  /\ \A k \in Loop \ {l} : beat'[k] = beat[k]
             /\ step \in Pipeline /\ at[l] \in Pipeline => beat'[l] = beat[l]
             /\ step \in Pipeline /\ at[l] \notin Pipeline => beat'[l] = Cycle
             /\ step \notin Pipeline /\ at[l] \notin Pipeline => beat'[l] = beat[l]
  BY <1>0, <1>b DEF Rests
<1>c. ASSUME UNCHANGED letter PROVE Letters
  BY <1>c
<1>d. ASSUME UNCHANGED faults PROVE Grows
  BY <1>d, FaultGrows DEF TypeInv
<1>e. {"look", "claim"} \cap Pipeline = {} /\ "idle" \notin Pipeline
  BY DEF Pipeline
\* A step that goes on within the pipeline, or leaves it.
<1>f. ASSUME NEW step, Goto(l, step), at[l] \in Pipeline, step \notin {"look", "claim", "idle"},
             step \in Pipeline => UNCHANGED beat \/ Rests(l, step),
             UNCHANGED beat \/ Rests(l, step), UNCHANGED queue, Letters, Grows
      PROVE  WorksOn(l)
  BY <1>a, <1>b, <1>e, <1>f DEF WorksOn
\* An update of a loop leads on, and into the pipeline only from the claim.
<1>u. ASSUME at[l] \in LoopUpdating, NEW step \in {LoopUpdate(l).done, LoopUpdate(l).lost}
      PROVE  /\ step \notin {"look", "claim", "idle"}
             /\ step \in Pipeline => at[l] \in Pipeline \/ at[l] = "claim"
  <2> USE DEF LoopUpdate, Pipeline
  <2>1. CASE at[l] \in {"claim", "handoff"}
    BY <1>u, <2>1 DEF AfterClaim, AfterHandOff
  <2>2. CASE at[l] \in {"pages", "progress", "findings", "complete"}
    BY <1>u, <2>2
  <2>3. CASE at[l] \in {"review", "failed", "release"}
    BY <1>u, <2>3
  <2> QED
    BY <1>u, <2>1, <2>2, <2>3 DEF LoopUpdating
<1>v. ASSUME at[l] \in LoopUpdating,
             NEW step \in {LoopUpdate(l).done, LoopUpdate(l).lost},
             Goto(l, step), Rests(l, step), UNCHANGED queue, Letters, Grows
      PROVE  WorksOn(l)
  <2>1. at[l] # "idle"
    BY <1>v DEF LoopUpdating
  <2>2. /\ step \notin {"look", "claim", "idle"}
        /\ step \in Pipeline => at[l] \in Pipeline \/ at[l] = "claim"
    BY <1>u, <1>v
  <2>3. at'[l] = step /\ Others
    BY <1>a, <1>b, <1>v
  <2>4. step \in Pipeline => \/ at[l] \in Pipeline /\ beat'[l] = beat[l]
                             \/ at[l] = "claim" /\ beat'[l] = Cycle
    BY <1>b, <1>e, <1>v, <2>2
  <2> QED
    BY <1>v, <2>1, <2>2, <2>3, <2>4 DEF WorksOn
<1>1. ASSUME LoopReads(l) PROVE WorksOn(l)
  <2>1. CASE status[on[l]] \in LoopUpdate(l).from
    <3>1. at' = at /\ at[l] # "idle"
      BY <1>1, <2>1 DEF LoopReads, UpdateReads, LoopUpdating
    <3>2. beat' = beat
      BY <1>0, <1>1, <3>1 DEF LoopReads, Rests
    <3> QED
      BY <1>1, <1>c, <1>d, <3>1, <3>2 DEF LoopReads, WorksOn
  <2>2. CASE status[on[l]] \notin LoopUpdate(l).from
    <3>1. Goto(l, LoopUpdate(l).lost)
      BY <1>1, <2>2 DEF LoopReads, UpdateReads
    <3>2. Rests(l, LoopUpdate(l).lost)
      BY <1>1, <1>a, <3>1 DEF LoopReads
    <3> QED
      BY <1>1, <1>c, <1>d, <1>v, <3>1, <3>2 DEF LoopReads
  <2> QED
    BY <2>1, <2>2
<1>2. ASSUME LoopPuts(l) PROVE WorksOn(l)
  <2>1. Letters
    BY <1>2 DEF LoopPuts, TypeInv, CloudWorkerTypeOK
  <2> QED
    BY <1>2, <1>d, <1>v, <2>1 DEF LoopPuts, Puts
<1>3. ASSUME LoopLoses(l) PROVE WorksOn(l)
  BY <1>3, <1>c, <1>d, <1>v DEF LoopLoses, PutFails
<1>4. ASSUME LooksAtRow(l) PROVE WorksOn(l)
  <2>1. PICK step \in {"return", "claim"} : Goto(l, step)
    BY <1>4 DEF LooksAtRow, Proceeds
  <2>2. at'[l] = step /\ at[l] = "look" /\ \A k \in Loop \ {l} : at'[k] = at[k]
    BY <1>4, <1>a, <2>1 DEF LooksAtRow
  <2>3. step \notin Pipeline
    BY DEF Pipeline
  <2>4. UNCHANGED <<beat, queue, letter, faults>>
    BY <1>4 DEF LooksAtRow, loopVars
  <2> QED
    BY <1>c, <1>d, <2>2, <2>3, <2>4 DEF WorksOn
<1>5. ASSUME Raises(l, "cancelled") \/ Raises(l, "other") \/ Raises(l, "invalid"),
             at[l] \in Pipeline, Grows
      PROVE  WorksOn(l)
  <2>1. Goto(l, "fail") /\ Rests(l, "fail") /\ UNCHANGED <<queue, letter>>
    BY <1>5 DEF Raises, Proceeds
  <2> QED
    BY <1>5, <1>c, <1>f, <2>1
<1>6. ASSUME ReportsPage(l) \/ Detected(l) \/ PutsManifests(l) \/ FetchesManifest(l) \/ Rendered(l)
               \/ PutsOutput(l)
      PROVE  WorksOn(l)
  <2>1. PICK step \in {"progress", "findings", "handoff", "render", "output", "complete"} : Goto(l, step)
    BY <1>6 DEF ReportsPage, Detected, PutsManifests, FetchesManifest, Rendered, PutsOutput, Proceeds
  <2>2. UNCHANGED <<beat, queue, letter, faults>>
    BY <1>6 DEF ReportsPage, Detected, PutsManifests, FetchesManifest, Rendered, PutsOutput, loopVars
  <2>3. at[l] \in Pipeline
    BY <1>6 DEF ReportsPage, Detected, PutsManifests, FetchesManifest, Rendered, PutsOutput, Pipeline
  <2> QED
    BY <1>c, <1>d, <1>f, <2>1, <2>2, <2>3
<1>7. ASSUME LostRace(l) PROVE WorksOn(l)
  BY <1>7, <1>c, <1>d, <1>f DEF LostRace, Proceeds, Pipeline
<1>8. ASSUME Cancelled(l) \/ ManifestGone(l) PROVE WorksOn(l)
  BY <1>8, <1>5, <1>d DEF Cancelled, ManifestGone, Pipeline
<1>9. ASSUME DocumentFails(l) PROVE WorksOn(l)
  BY <1>9, <1>5, FaultGrows DEF DocumentFails, Pipeline, TypeInv
<1>10. ASSUME ModelDown(l) PROVE WorksOn(l)
  <2>1. Grows
    BY <1>10, FaultGrows DEF ModelDown, TypeInv
  <2> QED
    BY <1>10, <1>c, <1>f, <2>1 DEF ModelDown, Proceeds, Pipeline
<1>11. ASSUME Fails(l) PROVE WorksOn(l)
  <2>1. PICK step \in {"ack", "review", "failed"} : Goto(l, step)
    BY <1>11 DEF Fails, Proceeds
  <2>2. at'[l] = step /\ at[l] = "fail" /\ \A k \in Loop \ {l} : at'[k] = at[k]
    BY <1>11, <1>a, <2>1 DEF Fails
  <2>3. step \notin Pipeline
    BY DEF Pipeline
  <2>4. UNCHANGED <<beat, queue, letter, faults>>
    BY <1>11 DEF Fails, loopVars
  <2> QED
    BY <1>c, <1>d, <2>2, <2>3, <2>4 DEF WorksOn
<1> QED
  BY <1>1, <1>2, <1>3, <1>4, <1>6, <1>7, <1>8, <1>9, <1>10, <1>11
  DEF LoopContinues, LoopFaults, AcknowledgesMessage, ReturnsMessage

\* A call about a delivery changes no message but that one, and that only if it
\* was the last delivery.
LEMMA OneMessage ==
  ASSUME TypeInv, NEW m \in Message, NEW handle, NEW time,
         Hide(m, handle, time) \/ Acknowledge(m, handle) \/ UNCHANGED queue,
         NEW n \in Message
  PROVE  \/ queue'[n] = queue[n]
         \/ /\ n = m /\ Handled(m, handle)
            /\ \/ queue'[n] = NoMessage
               \/ queue'[n] = [queue[n] EXCEPT !.hidden = time]
<1>1. queue \in [Message -> {NoMessage} \cup Envelope]
  BY DEF TypeInv, QueueTypeOK, Envelope
<1>2. CASE Handled(m, handle)
  BY <1>1, <1>2 DEF Hide, Acknowledge
<1>3. CASE ~Handled(m, handle)
  BY <1>3 DEF Hide, Acknowledge
<1> QED
  BY <1>2, <1>3

\* What a loop does to its message leaves the messages alone that other loops
\* hold the current receipt of.
LEMMA OthersKeepTheirs ==
  ASSUME TypeInv, MessageInv, NEW l \in Loop, at[l] # "idle", NEW time,
         \/ Hide(letter[l].message, letter[l].handle, time)
         \/ Acknowledge(letter[l].message, letter[l].handle)
         \/ UNCHANGED queue,
         NEW k \in Loop, k # l, at[k] # "idle"
  PROVE  /\ Holds(k) => queue'[letter[k].message] = queue[letter[k].message]
         /\ queue'[letter[k].message] # NoMessage =>
              /\ Sent(letter[k].message)
              /\ queue'[letter[k].message].received = queue[letter[k].message].received
<1>1. letter[k].message = letter[l].message => letter[k].handle # letter[l].handle
  BY DEF MessageInv, ReceiptsDiffer
<1>2. letter[k].message \in Message /\ letter[l].message \in Message
  BY Hidden DEF MessageInv
<1>3. PICK n \in Message : n = letter[k].message
  BY <1>2
<1>4. \/ queue'[n] = queue[n]
      \/ /\ n = letter[l].message /\ Handled(letter[l].message, letter[l].handle)
         /\ \/ queue'[n] = NoMessage
            \/ queue'[n] = [queue[n] EXCEPT !.hidden = time]
  BY <1>2, OneMessage
<1>5. n = letter[l].message /\ Handled(letter[l].message, letter[l].handle) =>
        ~Holds(k) /\ Sent(n) /\ queue[n] \in Envelope
  BY <1>1, <1>2, <1>3, Hidden DEF MessageInv, Holds, Handled
<1>6. queue[n] \in Envelope => [queue[n] EXCEPT !.hidden = time].received = queue[n].received
  BY DEF Envelope
<1>7. Holds(k) => queue'[n] = queue[n]
  BY <1>4, <1>5
<1>8. queue'[n] # NoMessage => Sent(n) /\ queue'[n].received = queue[n].received
  BY <1>4, <1>5, <1>6 DEF Sent
<1> QED
  BY <1>3, <1>7, <1>8

LEMMA HeartbeatKeepsMessages ==
  ASSUME TypeInv, TypeInv', MessageInv, NEW l \in Loop, Heartbeat(l)
  PROVE  MessageInv'
<1>0. at[l] # "idle" /\ at[l] \in Pipeline /\ at' = at /\ letter' = letter
  BY DEF Heartbeat, processVars, Pipeline
<1>1. beat[l] \in Nat /\ beat'[l] = Cycle /\ \A k \in Loop \ {l} : beat'[k] = beat[k]
  BY DEF Heartbeat, TypeInv, CloudWorkerTypeOK
<1>2. \/ Hide(letter[l].message, letter[l].handle, Visibility) /\ UNCHANGED faults
      \/ UNCHANGED queue /\ Fault("renewal_fails")
  BY DEF Heartbeat, Renew
<1>3. Grows
  BY <1>2, FaultGrows DEF TypeInv
<1>4. LetterInHand' /\ ReceiptsDiffer'
  BY <1>0 DEF MessageInv, LetterInHand, ReceiptsDiffer
<1>5. ReceiptsPast'
  <2> SUFFICES ASSUME NEW k \in Loop, at[k] # "idle", queue'[letter[k].message] # NoMessage
               PROVE  letter[k].handle <= queue'[letter[k].message].received
    BY <1>0 DEF ReceiptsPast, Sent
  <2>1. CASE k # l
    BY <1>0, <1>2, <2>1, OthersKeepTheirs DEF MessageInv, ReceiptsPast
  <2>2. CASE k = l
    <3>1. letter[l].message \in Message
      BY <1>0, Hidden DEF MessageInv
    <3>2. CASE UNCHANGED queue
      BY <1>0, <2>2, <3>2 DEF MessageInv, ReceiptsPast, Sent
    <3>3. CASE Handled(letter[l].message, letter[l].handle)
      <4>1. queue[letter[l].message] \in Envelope
        BY <1>0, <3>3, Hidden DEF MessageInv, Handled
      <4>2. queue'[letter[l].message].received = queue[letter[l].message].received
        BY <1>2, <3>1, <3>3, <4>1 DEF Hide, TypeInv, QueueTypeOK, Envelope
      <4> QED
        BY <1>0, <2>2, <3>3, <4>2 DEF MessageInv, ReceiptsPast, Handled
    <3>4. CASE ~Handled(letter[l].message, letter[l].handle) /\ ~UNCHANGED queue
      BY <1>2, <3>4 DEF Hide
    <3> QED
      BY <3>2, <3>3, <3>4
  <2> QED
    BY <2>1, <2>2
<1>6. ASSUME Undisturbed', NEW k \in Loop
      PROVE  /\ at[k] \in {"look", "claim"} =>
                  Holds(k)' /\ queue'[letter[k].message].hidden + Lag >= beat'[k] + Visibility
             /\ at[k] \in Pipeline =>
                  Holds(k)' /\ queue'[letter[k].message].hidden + Slack' >= beat'[k] + Visibility
  <2>1. /\ Slack \in Nat /\ Slack' \in Nat /\ Slack <= Slack' /\ StaysHidden
        /\ Lag + Cycle <= Slack /\ "idle" \notin Pipeline
    <3>1. Lag + Cycle <= Slack
      BY SlackAtLeast DEF TypeInv
    <3> QED
      BY <1>3, <1>6, <3>1, SlackGrows DEF MessageInv, TypeInv, Pipeline
  <2>2. CASE k # l
    <3>1. ASSUME at[k] # "idle", Holds(k)
          PROVE  /\ queue'[letter[k].message] = queue[letter[k].message] /\ Holds(k)'
                 /\ queue[letter[k].message].hidden \in 0 .. Visibility
      BY <1>0, <1>2, <2>2, <3>1, OthersKeepTheirs, Hidden, EnvelopeParts
      DEF MessageInv, Holds, Handled, Sent
    <3>2. beat[k] \in 0 .. Cycle
      BY DEF TypeInv, CloudWorkerTypeOK
    <3> QED
      BY <1>1, <2>1, <2>2, <3>1, <3>2 DEF StaysHidden
  <2>3. CASE k = l
    <3>1. Holds(l) /\ queue[letter[l].message].hidden + Slack >= beat[l] + Visibility
      BY <1>0, <2>1 DEF StaysHidden
    <3>2. letter[l].message \in Message /\ queue[letter[l].message] \in Envelope
      BY <1>0, <3>1, Hidden DEF MessageInv, Holds, Handled
    <3>3. CASE Hide(letter[l].message, letter[l].handle, Visibility)
      <4>1. queue'[letter[l].message] = [queue[letter[l].message] EXCEPT !.hidden = Visibility]
        BY <3>1, <3>2, <3>3 DEF Hide, Holds, TypeInv, QueueTypeOK
      <4>2. /\ queue'[letter[l].message].hidden = Visibility
            /\ queue'[letter[l].message].received = queue[letter[l].message].received
        BY <3>2, <4>1 DEF Envelope
      <4>3. Sent(letter[l].message)'
        BY <1>0, <3>1, <3>2, <3>3 DEF Hide, Holds, Handled, TypeInv, QueueTypeOK, Sent, Envelope
      <4>4. Holds(l)'
        BY <1>0, <3>1, <4>2, <4>3 DEF Holds, Handled
      <4>5. Visibility + Slack' >= Cycle + Visibility
        <5>1. Cycle \in Nat /\ Lag \in Nat /\ Visibility \in Nat
          OBVIOUS
        <5>2. Cycle <= Slack'
          BY <2>1, <5>1
        <5>3. \A a, b, v \in Nat : b <= a => v + a >= b + v
          OBVIOUS
        <5> QED
          BY <2>1, <5>1, <5>2, <5>3
      <4> QED
        BY <1>0, <1>1, <2>3, <4>2, <4>4, <4>5 DEF Pipeline
    <3>4. CASE UNCHANGED queue /\ Fault("renewal_fails")
      <4>1. Slack' = Slack + Cycle
        BY <1>3, <3>4, SlackGrows DEF Fault, TypeInv, FaultTypeOK, FaultKind
      <4>2. Holds(l)'
        BY <1>0, <3>1, <3>4 DEF Holds, Handled, Sent
      <4>3. queue'[letter[l].message].hidden + Slack' >= beat'[l] + Visibility
        BY <1>1, <2>1, <3>1, <3>2, <3>4, <4>1, EnvelopeParts
      <4> QED
        BY <1>0, <2>3, <4>2, <4>3 DEF Pipeline
    <3> QED
      BY <1>2, <3>3, <3>4
  <2> QED
    BY <2>2, <2>3
<1> QED
  BY <1>0, <1>4, <1>5, <1>6 DEF MessageInv, StaysHidden

LEMMA ReceiptKeepsMessages ==
  ASSUME TypeInv, TypeInv', MessageInv, NEW l \in Loop, NEW m \in Message, ReceiveMessage(l, m)
  PROVE  MessageInv'
<1>0. /\ at[l] = "idle" /\ at'[l] = "look" /\ \A k \in Loop \ {l} : at'[k] = at[k]
      /\ beat'[l] = Lag /\ \A k \in Loop \ {l} : beat'[k] = beat[k] /\ letter'[k] = letter[k]
      /\ UNCHANGED faults
  BY DEF ReceiveMessage, Begins, TypeInv, ProcTypeOK, CloudWorkerTypeOK
<1>1. /\ queue[m] \in Envelope /\ queue[m].hidden = 0 /\ queue[m].received \in Nat
      /\ queue'[m].hidden = Visibility /\ queue'[m].received = queue[m].received + 1
      /\ queue'[m] \in Envelope
      /\ \A n \in Message \ {m} : queue'[n] = queue[n]
  <2>1. queue[m] \in Envelope /\ queue[m].hidden = 0
    BY DEF ReceiveMessage, Receive, Visible, Sent, TypeInv, QueueTypeOK, Envelope
  <2>2. queue' = [queue EXCEPT ![m].hidden = Visibility, ![m].received = @ + 1]
    BY DEF ReceiveMessage, Receive
  <2>3. queue'[m] \in Envelope
    BY ReceiveType DEF ReceiveMessage, TypeInv
  <2> QED
    BY <2>1, <2>2, <2>3 DEF TypeInv, QueueTypeOK, Envelope
<1>2. letter'[l].message = m /\ letter'[l].handle = queue[m].received + 1
  BY <1>1 DEF ReceiveMessage, TypeInv, CloudWorkerTypeOK
<1>3. Sent(m) /\ queue'[m] # NoMessage
  BY <1>1 DEF ReceiveMessage, Receive, Visible, Envelope
<1>4. ASSUME NEW k \in Loop \ {l}, at[k] # "idle"
      PROVE  /\ letter[k].message \in Message /\ letter[k].handle \in Nat
             /\ letter[k].message = m => letter[k].handle <= queue[m].received
  BY <1>3, <1>4, Hidden DEF MessageInv, ReceiptsPast
<1>5. LetterInHand'
  BY <1>0, <1>2 DEF MessageInv, LetterInHand
<1>6. ReceiptsPast'
  <2> SUFFICES ASSUME NEW k \in Loop, at'[k] # "idle", queue'[letter'[k].message] # NoMessage
               PROVE  letter'[k].handle <= queue'[letter'[k].message].received
    BY DEF ReceiptsPast, Sent
  <2>1. CASE k = l
    BY <1>1, <1>2, <2>1
  <2>2. CASE k # l /\ letter[k].message = m
    BY <1>0, <1>1, <1>4, <2>2
  <2>3. CASE k # l /\ letter[k].message # m
    BY <1>0, <1>1, <1>4, <2>3 DEF MessageInv, ReceiptsPast, Sent
  <2> QED
    BY <2>1, <2>2, <2>3
<1>7. ReceiptsDiffer'
  <2>1. ASSUME NEW k \in Loop \ {l}, at'[k] # "idle", letter'[k].message = letter'[l].message
        PROVE  letter'[k].handle # letter'[l].handle
    BY <1>0, <1>1, <1>2, <1>4, <2>1
  <2> QED
    BY <1>0, <2>1 DEF MessageInv, ReceiptsDiffer
<1>8. ASSUME Undisturbed', NEW k \in Loop
      PROVE  /\ at'[k] \in {"look", "claim"} =>
                  Holds(k)' /\ queue'[letter'[k].message].hidden + Lag >= beat'[k] + Visibility
             /\ at'[k] \in Pipeline =>
                  Holds(k)' /\ queue'[letter'[k].message].hidden + Slack' >= beat'[k] + Visibility
  <2>1. /\ Undisturbed /\ StaysHidden /\ Slack' = Slack /\ Slack \in Nat /\ Slack < Visibility
        /\ "idle" \notin Pipeline /\ "look" \notin Pipeline
    <3>1. Grows
      BY <1>0, FaultGrows DEF TypeInv
    <3> QED
      BY <1>0, <1>8, <3>1, SlackGrows DEF MessageInv, TypeInv, Pipeline, Slack
  <2>2. CASE k = l
    <3>1. Holds(l)'
      BY <1>1, <1>2, <1>3 DEF Holds, Handled, Sent
    <3>2. Visibility + Lag >= Lag + Visibility
      OBVIOUS
    <3> QED
      BY <1>0, <1>1, <1>2, <2>1, <2>2, <3>1, <3>2
  <2>3. CASE k # l
    <3>1. ASSUME at[k] \in {"look", "claim"} \cup Pipeline
          PROVE  letter[k].message # m
      <4>1. /\ Holds(k) /\ beat[k] \in 0 .. Cycle
            /\ \/ queue[letter[k].message].hidden + Lag >= beat[k] + Visibility
               \/ queue[letter[k].message].hidden + Slack >= beat[k] + Visibility
        BY <2>1, <3>1 DEF StaysHidden, TypeInv, CloudWorkerTypeOK
      <4>2. Lag < Visibility /\ Slack < Visibility /\ Lag \in Nat /\ Visibility \in Nat
        BY <2>1
      <4> QED
        BY <1>1, <2>1, <4>1, <4>2
    <3>2. ASSUME at[k] \in {"look", "claim"} \cup Pipeline
          PROVE  /\ queue'[letter[k].message] = queue[letter[k].message]
                 /\ Holds(k) => Holds(k)'
      BY <1>0, <1>1, <1>4, <2>1, <2>3, <3>1, <3>2 DEF Holds, Handled, Sent
    <3> QED
      BY <1>0, <2>1, <2>3, <3>2 DEF StaysHidden
  <2> QED
    BY <2>2, <2>3
<1> QED
  BY <1>5, <1>6, <1>7, <1>8 DEF MessageInv, StaysHidden

\* A loop that is done, or interrupted, lets its receipt go.
LEMMA LeavingKeepsMessages ==
  ASSUME TypeInv, TypeInv', MessageInv, NEW l \in Loop,
         AcknowledgesMessage(l) \/ ReturnsMessage(l) \/ LoopCrashes(l)
  PROVE  MessageInv'
<1>0. /\ at[l] # "idle" /\ at'[l] = "idle" /\ \A k \in Loop \ {l} : at'[k] = at[k]
      /\ letter'[l] = NoLetter /\ \A k \in Loop \ {l} : beat'[k] = beat[k] /\ letter'[k] = letter[k]
  BY DEF AcknowledgesMessage, ReturnsMessage, LoopCrashes, PutsDown, Proceeds, Dies, Goto,
         TypeInv, ProcTypeOK, CloudWorkerTypeOK
<1>1. PICK time : \/ Hide(letter[l].message, letter[l].handle, time)
                  \/ Acknowledge(letter[l].message, letter[l].handle)
                  \/ UNCHANGED queue
  BY DEF AcknowledgesMessage, ReturnsMessage, LoopCrashes, Release
<1>2. Grows
  BY FaultGrows DEF AcknowledgesMessage, ReturnsMessage, LoopCrashes, TypeInv
<1>3. LetterInHand' /\ ReceiptsDiffer'
  BY <1>0 DEF MessageInv, LetterInHand, ReceiptsDiffer, NoLetter
<1>4. ReceiptsPast'
  BY <1>0, <1>1, OthersKeepTheirs DEF MessageInv, ReceiptsPast, Sent
<1>5. ASSUME Undisturbed', NEW k \in Loop
      PROVE  /\ at'[k] \in {"look", "claim"} =>
                  Holds(k)' /\ queue'[letter'[k].message].hidden + Lag >= beat'[k] + Visibility
             /\ at'[k] \in Pipeline =>
                  Holds(k)' /\ queue'[letter'[k].message].hidden + Slack' >= beat'[k] + Visibility
  <2>1. /\ Slack \in Nat /\ Slack' \in Nat /\ Slack <= Slack' /\ StaysHidden /\ "idle" \notin Pipeline
    BY <1>2, <1>5, SlackGrows DEF MessageInv, TypeInv, Pipeline
  <2>2. CASE k = l
    BY <1>0, <2>1, <2>2
  <2>3. CASE k # l
    <3>1. ASSUME at[k] # "idle", Holds(k)
          PROVE  /\ queue'[letter[k].message] = queue[letter[k].message] /\ Holds(k)'
                 /\ queue[letter[k].message].hidden \in 0 .. Visibility
      <4>1. queue'[letter[k].message] = queue[letter[k].message]
        BY <1>0, <1>1, <2>3, <3>1, OthersKeepTheirs
      <4>2. queue[letter[k].message] \in Envelope
        BY <3>1, Hidden DEF MessageInv, Holds, Handled
      <4> QED
        BY <1>0, <2>3, <3>1, <4>1, <4>2, EnvelopeParts DEF Holds, Handled, Sent
    <3>2. beat[k] \in 0 .. Cycle
      BY DEF TypeInv, CloudWorkerTypeOK
    <3> QED
      BY <1>0, <2>1, <2>3, <3>1, <3>2 DEF StaysHidden
  <2> QED
    BY <2>2, <2>3
<1> QED
  BY <1>3, <1>4, <1>5 DEF MessageInv, StaysHidden

LEMMA ClientKeepsMessages ==
  ASSUME TypeInv, TypeInv', MessageInv, NEW c \in Client, ClientNext(c)
  PROVE  MessageInv'
<1>1. \A l \in Loop : at'[l] = at[l]
  <2>1. \A l \in Loop : l # c /\ l \in Proc
    OBVIOUS
  <2> QED
    BY <2>1 DEF ClientNext, CallStarts, CreateJob, Submit, Finalize, Delete, CallContinues,
       FinalizeWrites, CallReads, UpdateReads, CallPuts, Puts, CallLoses, PutFails, Sends, SendFails,
       DeletePurges, DeleteAnswersNotFound, CallDies, Dies, Proceeds, Begins, Goto, processVars,
       TypeInv, ProcTypeOK
<1>2. UNCHANGED <<letter, beat>>
  BY DEF ClientNext, loopVars
<1>3. Grows
  BY FaultGrows DEF ClientNext, CallStarts, CreateJob, Submit, Finalize, Delete, CallContinues,
     FinalizeWrites, CallReads, CallPuts, CallLoses, Sends, SendFails, DeletePurges,
     DeleteAnswersNotFound, CallDies, TypeInv
<1>4. UNCHANGED queue \/ \E m \in Message : \E what : Enqueue(m, what)
  BY DEF ClientNext, CallStarts, CreateJob, Submit, Finalize, Delete, CallContinues,
     FinalizeWrites, CallReads, CallPuts, CallLoses, Sends, SendFails, DeletePurges,
     DeleteAnswersNotFound, CallDies
\* A message some loop holds a receipt of is there before and after, or neither.
<1>5. ASSUME NEW l \in Loop, at[l] # "idle"
      PROVE  /\ letter[l].message \in Message
             /\ Sent(letter[l].message) => queue'[letter[l].message] = queue[letter[l].message]
             /\ queue'[letter[l].message] # NoMessage => Sent(letter[l].message)
  <2>1. letter[l].message \in Message
    BY <1>5, Hidden DEF MessageInv
  <2>2. queue'[letter[l].message] # NoMessage => Sent(letter[l].message)
    BY <2>1 DEF ClientNext, NewMessages, Sent
  <2>3. Sent(letter[l].message) => queue'[letter[l].message] = queue[letter[l].message]
    BY <1>4, <2>1 DEF Enqueue, TypeInv, QueueTypeOK
  <2> QED
    BY <2>1, <2>2, <2>3
<1>6. LetterInHand' /\ ReceiptsDiffer'
  BY <1>1, <1>2 DEF MessageInv, LetterInHand, ReceiptsDiffer
<1>7. ReceiptsPast'
  BY <1>1, <1>2, <1>5 DEF MessageInv, ReceiptsPast, Sent
<1>8. ASSUME Undisturbed' PROVE StaysHidden'
  <2>1. /\ Slack \in Nat /\ Slack' \in Nat /\ Slack <= Slack' /\ StaysHidden /\ "idle" \notin Pipeline
    BY <1>3, <1>8, SlackGrows DEF MessageInv, TypeInv, Pipeline
  <2>2. ASSUME NEW l \in Loop, at[l] # "idle", Holds(l)
        PROVE  /\ queue'[letter[l].message] = queue[letter[l].message] /\ Holds(l)'
               /\ queue[letter[l].message].hidden \in 0 .. Visibility
    <3>1. queue'[letter[l].message] = queue[letter[l].message]
      BY <1>5, <2>2 DEF Holds, Handled
    <3>2. queue[letter[l].message] \in Envelope
      BY <2>2, Hidden DEF MessageInv, Holds, Handled
    <3> QED
      BY <1>2, <2>2, <3>1, <3>2, EnvelopeParts DEF Holds, Handled, Sent
  <2>3. beat \in [Loop -> 0 .. Cycle]
    BY DEF TypeInv, CloudWorkerTypeOK
  <2> QED
    BY <1>1, <1>2, <2>1, <2>2, <2>3 DEF StaysHidden
<1> QED
  BY <1>6, <1>7, <1>8 DEF MessageInv

LEMMA SqsKeepsMessages ==
  ASSUME TypeInv, TypeInv', MessageInv, SqsNext
  PROVE  MessageInv'
<1>1. UNCHANGED <<at, letter, beat>>
  BY DEF SqsNext, processVars, loopVars
<1>2. PICK m \in Message : \/ DeadLetter(m) /\ UNCHANGED faults
                           \/ DeliverTwice(m) /\ Fault("delivered_twice")
  BY DEF SqsNext
<1>3. Grows
  BY <1>2, FaultGrows DEF TypeInv
<1>4. LetterInHand' /\ ReceiptsDiffer'
  BY <1>1 DEF MessageInv, LetterInHand, ReceiptsDiffer
<1>5. \A n \in Message : queue'[n] # NoMessage =>
        queue[n] # NoMessage /\ queue'[n].received = queue[n].received
  BY <1>2 DEF DeadLetter, DeliverTwice, Sent, Visible, TypeInv, QueueTypeOK
<1>6. ReceiptsPast'
  BY <1>1, <1>5, Hidden DEF MessageInv, ReceiptsPast, Sent
<1>7. ASSUME Undisturbed' PROVE StaysHidden'
  <2>1. /\ Slack \in Nat /\ Slack' \in Nat /\ Slack <= Slack' /\ StaysHidden /\ "idle" \notin Pipeline
        /\ Slack < Visibility
    BY <1>3, <1>7, SlackGrows DEF MessageInv, TypeInv, Pipeline
  <2>2. DeadLetter(m) /\ UNCHANGED faults
    BY <1>2, <1>7 DEF Fault, Undisturbed, Happened, TypeInv, FaultTypeOK, FaultKind
  <2>3. Slack' = Slack
    BY <2>2 DEF Slack
  <2>4. ASSUME NEW l \in Loop, at[l] \in {"look", "claim"} \cup Pipeline
        PROVE  queue'[letter[l].message] = queue[letter[l].message]
    <3>1. letter[l].message # m
      <4>1. /\ Holds(l) /\ beat[l] \in 0 .. Cycle
            /\ \/ queue[letter[l].message].hidden + Lag >= beat[l] + Visibility
               \/ queue[letter[l].message].hidden + Slack >= beat[l] + Visibility
        BY <2>1, <2>4 DEF StaysHidden, TypeInv, CloudWorkerTypeOK
      <4>2. Lag < Visibility /\ Slack < Visibility /\ Lag \in Nat /\ Visibility \in Nat
        BY <2>1
      <4> QED
        BY <2>1, <2>2, <4>1, <4>2 DEF DeadLetter, Visible
    <3> QED
      BY <2>1, <2>2, <2>4, <3>1, Hidden DEF DeadLetter, MessageInv, TypeInv, QueueTypeOK
  <2> QED
    BY <1>1, <2>1, <2>3, <2>4 DEF StaysHidden, Holds, Handled, Sent
<1> QED
  BY <1>4, <1>6, <1>7 DEF MessageInv

LEMMA TickKeepsMessages ==
  ASSUME TypeInv, TypeInv', MessageInv, Tick
  PROVE  MessageInv'
<1>1. UNCHANGED <<at, letter, faults>>
  BY DEF Tick, processVars
<1>2. Grows
  BY <1>1, FaultGrows DEF TypeInv
<1>3. LetterInHand' /\ ReceiptsDiffer'
  BY <1>1 DEF MessageInv, LetterInHand, ReceiptsDiffer
<1>4. ASSUME NEW n \in Message
      PROVE  /\ queue'[n] # NoMessage => queue[n] # NoMessage
             /\ queue[n] \in Envelope =>
                  /\ queue'[n] \in Envelope /\ queue'[n].received = queue[n].received
                  /\ queue'[n].hidden = IF queue[n].hidden > 0 THEN queue[n].hidden - 1 ELSE 0
  <2>1. queue'[n] = IF Sent(n) /\ queue[n].hidden > 0 THEN [queue[n] EXCEPT !.hidden = @ - 1] ELSE queue[n]
    BY DEF Tick, QueueAges
  <2>2. queue[n] \in Envelope => Sent(n)
    BY DEF Sent, Envelope
  <2> QED
    BY <2>1, <2>2 DEF Sent, Envelope
<1>5. ReceiptsPast'
  BY <1>1, <1>4, Hidden DEF MessageInv, ReceiptsPast, Sent
<1>6. ASSUME Undisturbed' PROVE StaysHidden'
  <2>1. /\ Slack \in Nat /\ Slack' = Slack /\ StaysHidden /\ "idle" \notin Pipeline
        /\ Slack < Visibility
    BY <1>1, <1>2, <1>6, SlackGrows DEF MessageInv, TypeInv, Pipeline, Slack
  <2>2. Lag \in Nat /\ Visibility \in Nat /\ Lag < Visibility
    OBVIOUS
  <2>3. ASSUME NEW l \in Loop, at[l] # "idle", NEW slack \in Nat, slack < Visibility, Holds(l),
               queue[letter[l].message].hidden + slack >= beat[l] + Visibility
        PROVE  Holds(l)' /\ queue'[letter[l].message].hidden + slack >= beat'[l] + Visibility
    <3>1. letter[l].message \in Message /\ queue[letter[l].message] \in Envelope
      BY <2>3, Hidden DEF MessageInv, Holds, Handled
    <3>2. beat[l] \in 0 .. Cycle /\ beat[l] > 0 /\ beat'[l] = beat[l] - 1
      BY <2>3 DEF Tick, StepInTime, TypeInv, CloudWorkerTypeOK
    <3>3. queue[letter[l].message].hidden \in 0 .. Visibility
      BY <3>1, EnvelopeParts
    <3>4. /\ queue'[letter[l].message].hidden = queue[letter[l].message].hidden - 1
          /\ queue'[letter[l].message].received = queue[letter[l].message].received
          /\ queue'[letter[l].message] \in Envelope
      BY <1>4, <2>2, <2>3, <3>1, <3>2, <3>3
    <3>5. queue'[letter[l].message] # NoMessage
      BY <3>4 DEF Envelope
    <3> QED
      BY <1>1, <2>2, <2>3, <3>2, <3>3, <3>4, <3>5 DEF Holds, Handled, Sent
  <2> QED
    BY <1>1, <2>1, <2>2, <2>3 DEF StaysHidden
<1> QED
  BY <1>3, <1>5, <1>6 DEF MessageInv

LEMMA MessagesKept == Spec => []MessageInv
<1>1. Init => MessageInv
  BY DEF Init, TableInit, CloudWorkerInit, NoLetter, Pipeline, MessageInv, LetterInHand, ReceiptsPast,
     ReceiptsDiffer, StaysHidden
<1>2. TypeInv /\ TypeInv' /\ MessageInv /\ [Next]_vars => MessageInv'
  <2> SUFFICES ASSUME TypeInv, TypeInv', MessageInv, [Next]_vars PROVE MessageInv'
    OBVIOUS
  <2>1. ASSUME UNCHANGED vars PROVE MessageInv'
    BY <2>1 DEF vars, processVars, loopVars, MessageInv, LetterInHand, ReceiptsPast, ReceiptsDiffer,
       Undisturbed, Happened, RenewalsLate, StaysHidden, Slack, Holds, Handled, Sent
  <2>2. ASSUME NEW l \in Loop, LoopNext(l) PROVE MessageInv'
    <3>1. CASE LoopStarts(l)
      BY <3>1, ReceiptKeepsMessages DEF LoopStarts
    <3>2. CASE Heartbeat(l)
      BY <3>2, HeartbeatKeepsMessages
    <3>3. CASE AcknowledgesMessage(l) \/ ReturnsMessage(l) \/ LoopCrashes(l)
      BY <3>3, LeavingKeepsMessages
    <3>4. CASE /\ LoopContinues(l) \/ LoopFaults(l)
               /\ ~(AcknowledgesMessage(l) \/ ReturnsMessage(l) \/ LoopCrashes(l))
      <4>1. at[l] \notin {"ack", "return"}
        BY <3>4 DEF LoopContinues, LoopFaults, LoopReads, LoopPuts, LoopLoses, LooksAtRow, LoopUpdating,
           ReportsPage, Detected, PutsManifests, FetchesManifest, Rendered, PutsOutput, LostRace,
           Cancelled, ManifestGone, Fails, DocumentFails, ModelDown
      <4> QED
        BY <3>4, <4>1, LoopWorks, WorkKeepsMessages
    <3> QED
      BY <2>2, <3>1, <3>2, <3>3, <3>4 DEF LoopNext
  <2> QED
    BY <2>1, <2>2, ClientKeepsMessages, SqsKeepsMessages, TickKeepsMessages DEF Next
<1> QED
  BY <1>1, <1>2, TypesKept, PTL DEF Spec

\* Two loops never run the pipeline under one message: the heartbeat keeps it
\* hidden from the receipt until the pipeline ends, for any visibility timeout
\* longer than a heartbeat, unless SQS delivers twice or renewals are lost.
THEOREM OneLoopPerMessageAlways == Spec => []OneLoopPerMessage
<1>1. MessageInv /\ TypeInv => OneLoopPerMessage
  <2> SUFFICES ASSUME MessageInv, TypeInv, NEW k \in Loop, NEW l \in Loop,
                      at[k] \in Pipeline, at[l] \in Pipeline, letter[k].message = letter[l].message,
                      ~Happened("delivered_twice"), ~RenewalsLate
               PROVE  k = l
    BY DEF OneLoopPerMessage
  <2>1. Holds(k) /\ Holds(l) /\ "idle" \notin Pipeline
    BY DEF MessageInv, Undisturbed, StaysHidden, Pipeline
  <2>2. letter[k].handle = letter[l].handle
    BY <2>1 DEF Holds, Handled
  <2> QED
    BY <2>1, <2>2 DEF MessageInv, ReceiptsDiffer
<1> QED
  BY <1>1, MessagesKept, TypesKept, PTL

-----------------------------------------------------------------------------
(* Nothing is left of a deleted job.                                       *)

\* A call can put a job only back to where it found it, and it found it alive.
FoundAlive == \A c \in Client :
  at[c] \in {"submit", "write", "finalize", "send", "undo"} => was[c] # "deleted"

OneDeleter == \A c, d \in Client : "delete" \in Calls[c] /\ "delete" \in Calls[d] => c = d

Deleting == {"bury", "purge", "not_found"}

OnlyDeletersDelete == \A c \in Client : at[c] \in Deleting => "delete" \in Calls[c]

\* With one caller that deletes, nobody else buries its job or answers for it.
DeletesAlone == OneDeleter => \A c \in Client :
  at[c] \in Deleting =>
    /\ ~gone[on[c]]
    /\ at[c] \in {"bury", "not_found"} => status[on[c]] # "deleted"

NoDeaths == "call_dies" \notin Faults => ~Happened("call_dies")

\* Whoever removes what is stored for a deleted job.
Removes(p, j) ==
  /\ on[p] = j
  /\ \/ p \in Client /\ at[p] = "purge"
     \/ p \in Loop /\ at[p] \in {"complete", "lost"}

RemovalComes == \A j \in Job : status[j] = "deleted" =>
  \/ output[j] = None \/ Happened("worker_crash")
  \/ \E p \in Proc : Removes(p, j)
  \/ Happened("call_dies") /\ ~gone[j]

DeleteInv == FoundAlive /\ OnlyDeletersDelete /\ DeletesAlone /\ NoDeaths /\ RemovalComes

\* A step of a call touches the place of no other process.
LEMMA CallFrame ==
  ASSUME TypeInv, NEW c \in Client, ClientNext(c)
  PROVE  /\ \A p \in Proc \ {c} : at'[p] = at[p] /\ on'[p] = on[p]
         /\ \A d \in Client \ {c} : was'[d] = was[d]
<1> USE DEF ClientNext, CallStarts, CreateJob, Submit, Finalize, Delete, CallContinues, FinalizeWrites,
        CallReads, CallPuts, CallLoses, Sends, SendFails, DeletePurges, DeleteAnswersNotFound, CallDies
<1>1. \A p \in Proc \ {c} : at'[p] = at[p] /\ on'[p] = on[p]
  BY DEF UpdateReads, Puts, PutFails, Dies, Proceeds, Begins, Goto, processVars, TypeInv, ProcTypeOK
<1>2. \A d \in Client \ {c} : was'[d] = was[d]
  BY DEF callVars, TypeInv, CallTypeOK
<1> QED
  BY <1>1, <1>2

LEMMA LoopFrame ==
  ASSUME TypeInv, NEW l \in Loop, LoopNext(l)
  PROVE  /\ \A p \in Proc \ {l} : at'[p] = at[p] /\ on'[p] = on[p]
         /\ UNCHANGED <<was, gone>>
<1> USE DEF LoopNext, LoopStarts, LoopContinues, LoopFaults, Heartbeat, ReceiveMessage, LoopReads,
        LoopPuts, LoopLoses, LooksAtRow, ReportsPage, Detected, PutsManifests, FetchesManifest, Rendered,
        PutsOutput, LostRace, Cancelled, ManifestGone, Fails, AcknowledgesMessage, ReturnsMessage,
        DocumentFails, ModelDown, LoopCrashes, Raises
<1>1. UNCHANGED <<was, gone>>
  BY DEF callVars
<1>2. \A p \in Proc \ {l} : at'[p] = at[p] /\ on'[p] = on[p]
  BY DEF UpdateReads, Puts, PutFails, Dies, Proceeds, Begins, Goto, processVars, TypeInv, ProcTypeOK
<1> QED
  BY <1>1, <1>2

LEMMA FaultHappens ==
  ASSUME FaultTypeOK, NEW kind, Fault(kind)
  PROVE  /\ kind \in Faults /\ Happened(kind)'
         /\ \A other \in FaultKind \ {kind} : Happened(other)' <=> Happened(other)
BY DEF Fault, Happened, FaultTypeOK

LEMMA HappenedStays ==
  ASSUME FaultTypeOK, FaultTypeOK', Grows, NEW kind \in FaultKind, Happened(kind)
  PROVE  Happened(kind)'
BY DEF Happened, FaultTypeOK, Grows

LEMMA GrowsAlways ==
  ASSUME TypeInv, [Next]_vars
  PROVE  Grows
<1>1. UNCHANGED faults \/ \E kind : Fault(kind)
  BY DEF Next, ClientNext, CallStarts, CreateJob, Submit, Finalize, Delete, CallContinues,
     FinalizeWrites, CallReads, CallPuts, CallLoses, Sends, SendFails, DeletePurges,
     DeleteAnswersNotFound, CallDies, LoopNext, LoopStarts, LoopContinues, LoopFaults, Heartbeat,
     ReceiveMessage, LoopReads, LoopPuts, LoopLoses, LooksAtRow, ReportsPage, Detected, PutsManifests,
     FetchesManifest, Rendered, PutsOutput, LostRace, Cancelled, ManifestGone, Fails,
     AcknowledgesMessage, ReturnsMessage, DocumentFails, ModelDown, LoopCrashes, SqsNext, Tick, vars
<1> QED
  BY <1>1, FaultGrows DEF TypeInv

\* What a call does to rows, outputs and its own place, as far as deletion goes.
LEMMA CallDeletes ==
  ASSUME TypeInv, FoundAlive, NEW c \in Client, ClientNext(c), NEW j \in Job
  PROVE  /\ status'[j] = "deleted" =>
              \/ status[j] = "deleted"
              \/ on[c] = j /\ at[c] = "bury" /\ on'[c] = j /\ at'[c] = "purge"
         /\ output'[j] \in {output[j], None}
         /\ on[c] = j /\ at[c] = "purge" =>
              \/ output'[j] = None
              \/ at'[c] = "idle" /\ Fault("call_dies") /\ UNCHANGED gone
         /\ gone'[j] # gone[j] =>
              /\ on[c] = j /\ at'[c] = "idle"
              /\ \/ at[c] = "purge" /\ output'[j] = None
                 \/ at[c] = "not_found" /\ UNCHANGED <<status, output>>
         /\ on'[c] = j /\ at'[c] \in Deleting =>
              \/ /\ on[c] = j /\ at[c] \in Deleting /\ UNCHANGED gone
                 /\ at'[c] \in {"bury", "not_found"} => at[c] = "bury" /\ UNCHANGED status
              \/ /\ "delete" \in Calls[c] /\ ~gone[j] /\ UNCHANGED <<gone, status>>
                 /\ at'[c] \in {"bury", "not_found"} => status[j] # "deleted"
         /\ at'[c] \in {"submit", "write", "finalize", "send", "undo"} => was'[c] # "deleted"
         /\ "call_dies" \notin Faults => (Happened("call_dies")' <=> Happened("call_dies"))
<1> DEFINE Conclusion ==
         /\ status'[j] = "deleted" =>
              \/ status[j] = "deleted"
              \/ on[c] = j /\ at[c] = "bury" /\ on'[c] = j /\ at'[c] = "purge"
         /\ output'[j] \in {output[j], None}
         /\ on[c] = j /\ at[c] = "purge" =>
              \/ output'[j] = None
              \/ at'[c] = "idle" /\ Fault("call_dies") /\ UNCHANGED gone
         /\ gone'[j] # gone[j] =>
              /\ on[c] = j /\ at'[c] = "idle"
              /\ \/ at[c] = "purge" /\ output'[j] = None
                 \/ at[c] = "not_found" /\ UNCHANGED <<status, output>>
         /\ on'[c] = j /\ at'[c] \in Deleting =>
              \/ /\ on[c] = j /\ at[c] \in Deleting /\ UNCHANGED gone
                 /\ at'[c] \in {"bury", "not_found"} => at[c] = "bury" /\ UNCHANGED status
              \/ /\ "delete" \in Calls[c] /\ ~gone[j] /\ UNCHANGED <<gone, status>>
                 /\ at'[c] \in {"bury", "not_found"} => status[j] # "deleted"
         /\ at'[c] \in {"submit", "write", "finalize", "send", "undo"} => was'[c] # "deleted"
<1>0. c \in Proc /\ at \in [Proc -> Step] /\ on \in [Proc -> Job \cup {None}]
  BY DEF TypeInv, ProcTypeOK
<1>1. ASSUME NEW k \in Job, CreateJob(c, k) PROVE Conclusion
  <2>1. /\ UNCHANGED <<output, gone, faults>>
        /\ status' = [status EXCEPT ![k] = "awaiting_upload"]
        /\ status \in [Job -> JobStatus \cup {"none"}]
    BY <1>1 DEF CreateJob, Insert, fileVars, TypeInv, RowTypeOK
  <2>2. CASE UNCHANGED <<at, on, was>>
    BY <1>1, <2>1, <2>2 DEF CreateJob, Deleting, FoundAlive
  <2>3. CASE Begins(c, k, "reject")
    BY <1>0, <1>1, <2>1, <2>3 DEF CreateJob, Begins, Deleting
  <2> QED
    BY <1>1, <2>2, <2>3 DEF CreateJob
<1>2. ASSUME NEW k \in Job, Submit(c, k) PROVE Conclusion
  BY <1>0, <1>2 DEF Submit, Begins, tableVars, fileVars, TypeInv, CallTypeOK, Deleting
<1>3. ASSUME NEW k \in Job, Finalize(c, k) PROVE Conclusion
  BY <1>0, <1>3 DEF Finalize, Begins, tableVars, fileVars, TypeInv, CallTypeOK, Deleting, Reviewable
<1>4. ASSUME NEW k \in Job, Delete(c, k) PROVE Conclusion
  BY <1>0, <1>4 DEF Delete, Begins, tableVars, fileVars, callVars, Deleting
<1>5. ASSUME FinalizeWrites(c) PROVE Conclusion
  BY <1>0, <1>5 DEF FinalizeWrites, Proceeds, Goto, tableVars, callVars, Deleting, FoundAlive
<1>u. ASSUME at[c] \in CallUpdating
      PROVE  /\ at[c] = "bury" => CallUpdate(c).done = "purge" /\ CallUpdate(c).lost = "not_found"
             /\ at[c] # "bury" => /\ CallUpdate(c).done \in {"send", "idle"} /\ CallUpdate(c).lost = "idle"
                                  /\ CallUpdate(c).to # "deleted"
             /\ at[c] = "reject" => CallUpdate(c).done = "idle"
  <2>1. CASE at[c] = "submit"
    BY <2>1 DEF CallUpdate
  <2>2. CASE at[c] = "finalize"
    BY <2>2 DEF CallUpdate
  <2>3. CASE at[c] = "undo"
    BY <2>3 DEF CallUpdate, FoundAlive
  <2>4. CASE at[c] = "bury"
    BY <2>4 DEF CallUpdate
  <2>5. CASE at[c] = "reject"
    BY <2>5 DEF CallUpdate
  <2> QED
    BY <1>u, <2>1, <2>2, <2>3, <2>4, <2>5 DEF CallUpdating
<1>6. ASSUME CallReads(c) PROVE Conclusion
  <2>1. at[c] \in CallUpdating /\ UNCHANGED <<status, output, gone, was>>
    BY <1>6 DEF CallReads, UpdateReads, tableVars, fileVars, callVars
  <2>2. \/ UNCHANGED <<at, on>>
        \/ at'[c] = CallUpdate(c).lost /\ on' = IF CallUpdate(c).lost = "idle" THEN [on EXCEPT ![c] = None] ELSE on
    BY <1>0, <1>6 DEF CallReads, UpdateReads, Goto
  <2> QED
    BY <1>0, <1>u, <2>1, <2>2 DEF CallUpdating, Deleting, FoundAlive
<1>7. ASSUME CallPuts(c) PROVE Conclusion
  <2>1. at[c] \in CallUpdating /\ UNCHANGED <<output, gone, was>>
    BY <1>7 DEF CallPuts, fileVars
  <2>2. status' = [status EXCEPT ![on[c]] = CallUpdate(c).to]
    BY <1>7 DEF CallPuts, Puts
  <2>3. at'[c] = CallUpdate(c).done /\ on' = IF CallUpdate(c).done = "idle" THEN [on EXCEPT ![c] = None] ELSE on
    BY <1>0, <1>7 DEF CallPuts, Puts, Goto
  <2>4. status'[j] = "deleted" => status[j] = "deleted" \/ (on[c] = j /\ at[c] = "bury")
    <3>1. status'[j] = IF on[c] = j THEN CallUpdate(c).to ELSE status[j]
      BY <2>2 DEF TypeInv, RowTypeOK
    <3> QED
      BY <1>u, <2>1, <3>1
  <2> QED
    BY <1>0, <1>u, <2>1, <2>3, <2>4 DEF CallUpdating, Deleting, FoundAlive
<1>8. ASSUME CallLoses(c) PROVE Conclusion
  <2>1. at[c] \in CallUpdating /\ UNCHANGED <<status, output, gone, was>>
    BY <1>8 DEF CallLoses, PutFails, tableVars, fileVars, callVars
  <2>2. at'[c] = CallUpdate(c).lost /\ on' = IF CallUpdate(c).lost = "idle" THEN [on EXCEPT ![c] = None] ELSE on
    BY <1>0, <1>8 DEF CallLoses, PutFails, Goto
  <2> QED
    BY <1>0, <1>u, <2>1, <2>2 DEF CallUpdating, Deleting, FoundAlive
<1>9. ASSUME NEW m \in Message, Sends(c, m) PROVE Conclusion
  BY <1>0, <1>9 DEF Sends, Proceeds, Goto, tableVars, fileVars, Deleting
<1>10. ASSUME SendFails(c) PROVE Conclusion
  BY <1>0, <1>10 DEF SendFails, Proceeds, Goto, tableVars, fileVars, callVars, Deleting, FoundAlive
<1>11. ASSUME DeletePurges(c) PROVE Conclusion
  <2>1. /\ on[c] = j => output'[j] = None
        /\ on[c] # j => gone'[j] = gone[j]
        /\ output'[j] \in {output[j], None}
    BY <1>11 DEF DeletePurges, TypeInv, CallTypeOK, FileTypeOK
  <2>2. at[c] = "purge" /\ at'[c] = "idle" /\ UNCHANGED status
    BY <1>0, <1>11 DEF DeletePurges, Proceeds, Goto, tableVars
  <2> QED
    BY <2>1, <2>2 DEF Deleting
<1>12. ASSUME DeleteAnswersNotFound(c) PROVE Conclusion
  BY <1>0, <1>12 DEF DeleteAnswersNotFound, Proceeds, Goto, tableVars, fileVars, Deleting, TypeInv, CallTypeOK
<1>13. ASSUME CallDies(c) PROVE Conclusion
  BY <1>0, <1>13 DEF CallDies, Dies, Goto, tableVars, fileVars, callVars, Deleting
<1>14. Conclusion
  BY <1>1, <1>2, <1>3, <1>4, <1>5, <1>6, <1>7, <1>8, <1>9, <1>10, <1>11, <1>12, <1>13
  DEF ClientNext, CallStarts, CallContinues
<1>15. "call_dies" \notin Faults => (Happened("call_dies")' <=> Happened("call_dies"))
  <2>1. UNCHANGED faults \/ Fault("send_fails") \/ Fault("call_dies")
    BY DEF ClientNext, CallStarts, CreateJob, Submit, Finalize, Delete, CallContinues, FinalizeWrites,
       CallReads, CallPuts, CallLoses, Sends, SendFails, DeletePurges, DeleteAnswersNotFound, CallDies
  <2> QED
    BY <2>1, FaultHappens DEF Happened, TypeInv, FaultKind
<1> QED
  BY <1>14, <1>15

\* The same of a loop: it never buries a row, and leaves no output of a buried
\* one behind unless it is interrupted.
LEMMA LoopDeletes ==
  ASSUME TypeInv, NEW l \in Loop, LoopNext(l), NEW j \in Job
  PROVE  /\ status'[j] = "deleted" => status[j] = "deleted"
         /\ output'[j] \in {output[j], None} \/ Removes(l, j)'
         /\ Removes(l, j) /\ status'[j] = "deleted" =>
              Removes(l, j)' \/ output'[j] = None \/ Fault("worker_crash")
         /\ "call_dies" \notin Faults => (Happened("call_dies")' <=> Happened("call_dies"))
<1> DEFINE Stays == Removes(l, j) => Removes(l, j)' \/ output'[j] = None \/ Fault("worker_crash")
                                       \/ status'[j] # "deleted"
           Kept == status' = status /\ output' = output
<1>0. l \in Proc /\ l \notin Client /\ at \in [Proc -> Step] /\ on \in [Proc -> Job \cup {None}]
  BY DEF TypeInv, ProcTypeOK
<1>r. /\ Removes(l, j) <=> on[l] = j /\ at[l] \in {"complete", "lost"}
      /\ Removes(l, j)' <=> on'[l] = j /\ at'[l] \in {"complete", "lost"}
  BY <1>0 DEF Removes
<1>u. ASSUME at[l] \in LoopUpdating
      PROVE  /\ LoopUpdate(l).to # "deleted"
             /\ at[l] = "complete" => LoopUpdate(l).lost = "lost" /\ LoopUpdate(l).to = "complete"
  <2> USE DEF LoopUpdate
  <2>1. CASE at[l] \in {"claim", "release"}
    BY <1>u, <2>1 DEF InFlightFor, QueuedFor
  <2>2. CASE at[l] \in {"pages", "progress", "findings", "complete"}
    BY <1>u, <2>2
  <2>3. CASE at[l] \in {"review", "failed", "handoff"}
    BY <1>u, <2>3
  <2> QED
    BY <1>u, <2>1, <2>2, <2>3 DEF LoopUpdating
<1>1. ASSUME LoopReads(l) \/ LoopLoses(l) PROVE Kept /\ Stays
  <2>1. Kept /\ at[l] \in LoopUpdating
    BY <1>1 DEF LoopReads, LoopLoses, UpdateReads, PutFails, tableVars, fileVars
  <2>2. \/ UNCHANGED <<at, on>>
        \/ at'[l] = LoopUpdate(l).lost /\ on' = IF LoopUpdate(l).lost = "idle" THEN [on EXCEPT ![l] = None] ELSE on
    BY <1>0, <1>1 DEF LoopReads, LoopLoses, UpdateReads, PutFails, Goto
  <2>3. at[l] # "lost"
    BY <2>1 DEF LoopUpdating
  <2> QED
    BY <1>r, <1>u, <2>1, <2>2, <2>3
<1>2. ASSUME LoopPuts(l)
      PROVE  output' = output /\ Stays /\ (status'[j] = "deleted" => status[j] = "deleted")
  <2>1. output' = output /\ at[l] \in LoopUpdating
    BY <1>2 DEF LoopPuts, fileVars
  <2>2. status'[j] = IF on[l] = j THEN LoopUpdate(l).to ELSE status[j]
    BY <1>2 DEF LoopPuts, Puts, TypeInv, RowTypeOK
  <2>3. at[l] # "lost"
    BY <2>1 DEF LoopUpdating
  <2> QED
    BY <1>r, <1>u, <2>1, <2>2, <2>3
<1>3. ASSUME LoopStarts(l) PROVE Kept /\ Stays
  <2>1. Kept /\ at[l] = "idle"
    BY <1>3 DEF LoopStarts, ReceiveMessage, Begins, tableVars, fileVars
  <2> QED
    BY <1>r, <2>1
<1>4. ASSUME \/ LooksAtRow(l) \/ ReportsPage(l) \/ Detected(l) \/ PutsManifests(l) \/ FetchesManifest(l)
             \/ Rendered(l) \/ Cancelled(l) \/ ManifestGone(l) \/ AcknowledgesMessage(l)
             \/ ReturnsMessage(l) \/ DocumentFails(l) \/ ModelDown(l)
      PROVE  Kept /\ Stays
  <2>1. Kept /\ at[l] \notin {"complete", "lost"}
    BY <1>4 DEF LooksAtRow, ReportsPage, Detected, PutsManifests, FetchesManifest, Rendered, Cancelled,
       ManifestGone, AcknowledgesMessage, ReturnsMessage, DocumentFails, ModelDown, Raises, tableVars,
       fileVars
  <2> QED
    BY <1>r, <2>1
<1>5. ASSUME PutsOutput(l)
      PROVE  status' = status /\ Stays /\ (output'[j] = output[j] \/ Removes(l, j)')
  <2>1. at[l] = "output" /\ at'[l] = "complete" /\ on' = on /\ status' = status
    BY <1>0, <1>5 DEF PutsOutput, Proceeds, Goto, tableVars
  <2>2. on[l] # j => output'[j] = output[j]
    BY <1>5 DEF PutsOutput, TypeInv, FileTypeOK
  <2> QED
    BY <1>r, <2>1, <2>2
<1>6. ASSUME LostRace(l) \/ Fails(l)
      PROVE  status' = status /\ Stays /\ output'[j] \in {output[j], None}
  <2>1. status' = status /\ (at[l] = "lost" \/ at[l] = "fail")
    BY <1>6 DEF LostRace, Fails, tableVars
  <2>2. output' = output \/ output' = [output EXCEPT ![on[l]] = None]
    BY <1>6 DEF LostRace, Fails, fileVars
  <2>3. status[on[l]] = "deleted" => output' = [output EXCEPT ![on[l]] = None]
    BY <1>6 DEF LostRace, Fails
  <2>4. /\ output'[j] \in {output[j], None}
        /\ status[j] = "deleted" /\ on[l] = j => output'[j] = None
    BY <2>2, <2>3 DEF TypeInv, FileTypeOK
  <2> QED
    BY <1>r, <2>1, <2>4
<1>7. ASSUME LoopCrashes(l) PROVE Kept /\ Stays
  BY <1>7 DEF LoopCrashes, tableVars, fileVars
<1>8. ASSUME Heartbeat(l) PROVE Kept /\ Stays
  BY <1>8, <1>r DEF Heartbeat, processVars, tableVars, fileVars
<1>9. /\ Stays /\ (status'[j] = "deleted" => status[j] = "deleted")
      /\ output'[j] \in {output[j], None} \/ Removes(l, j)'
  <2> HIDE DEF Stays
  <2> QED
    BY <1>1, <1>2, <1>3, <1>4, <1>5, <1>6, <1>7, <1>8 DEF LoopNext, LoopContinues, LoopFaults
<1>10. "call_dies" \notin Faults => (Happened("call_dies")' <=> Happened("call_dies"))
  <2>1. UNCHANGED faults \/ \E kind \in FaultKind \ {"call_dies"} : Fault(kind)
    BY DEF LoopNext, LoopStarts, LoopContinues, LoopFaults, Heartbeat,
     ReceiveMessage, LoopReads, LoopPuts, LoopLoses, LooksAtRow, ReportsPage, Detected, PutsManifests,
     FetchesManifest, Rendered, PutsOutput, LostRace, Cancelled, ManifestGone, Fails,
     AcknowledgesMessage, ReturnsMessage, DocumentFails, ModelDown, LoopCrashes, FaultKind
  <2>2. "call_dies" \in FaultKind
    BY DEF FaultKind
  <2> QED
    BY <2>1, <2>2, FaultHappens DEF Happened, TypeInv
<1> QED
  BY <1>9, <1>10

LEMMA CallKeepsDeletes ==
  ASSUME TypeInv, TypeInv', DeleteInv, Grows, NEW c \in Client, ClientNext(c),
         "call_dies" \notin Faults \/ OneDeleter
  PROVE  DeleteInv'
<1>0. /\ c \in Proc /\ Client \subseteq Proc
      /\ \A p \in Proc \ {c} : at'[p] = at[p] /\ on'[p] = on[p]
      /\ \A d \in Client \ {c} : was'[d] = was[d]
      /\ \A p \in Proc : /\ at[p] # "idle" => on[p] \in Job
                         /\ at'[p] # "idle" => on'[p] \in Job
  BY CallFrame DEF TypeInv, ProcTypeOK, BusyWithJob
<1>1. FoundAlive'
  <2>1. at'[c] \in {"submit", "write", "finalize", "send", "undo"} => was'[c] # "deleted"
    <3>1. CASE \E k \in Job : TRUE
      BY <3>1, CallDeletes DEF DeleteInv
    <3>2. CASE ~\E k \in Job : TRUE
      BY <1>0, <3>2
    <3> QED
      BY <3>1, <3>2
  <2> QED
    BY <1>0, <2>1 DEF DeleteInv, FoundAlive
<1>2. OnlyDeletersDelete'
  <2>1. at'[c] \in Deleting => "delete" \in Calls[c]
    <3> SUFFICES ASSUME at'[c] \in Deleting PROVE "delete" \in Calls[c]
      OBVIOUS
    <3>1. on'[c] \in Job
      BY <1>0 DEF Deleting
    <3> QED
      BY <3>1, CallDeletes DEF DeleteInv, OnlyDeletersDelete
  <2> QED
    BY <1>0, <2>1 DEF DeleteInv, OnlyDeletersDelete
<1>3. NoDeaths'
  <2>1. CASE \E k \in Job : TRUE
    BY <2>1, CallDeletes DEF DeleteInv, NoDeaths
  <2>2. CASE ~\E k \in Job : TRUE
    <3>1. at[c] = "idle"
      BY <1>0, <2>2
    <3>2. UNCHANGED faults
      BY <3>1 DEF ClientNext, CallStarts, CreateJob, Submit, Finalize, Delete, CallContinues, FinalizeWrites,
         CallReads, CallPuts, CallLoses, Sends, SendFails, DeletePurges, DeleteAnswersNotFound, CallDies
    <3> QED
      BY <3>2 DEF DeleteInv, NoDeaths, Happened
  <2> QED
    BY <2>1, <2>2
<1>4. DeletesAlone'
  <2> SUFFICES ASSUME OneDeleter, NEW d \in Client, at'[d] \in Deleting
               PROVE  /\ ~gone'[on'[d]]
                      /\ at'[d] \in {"bury", "not_found"} => status'[on'[d]] # "deleted"
    BY DEF DeletesAlone
  <2>0. on'[d] \in Job
    BY <1>0 DEF Deleting
  <2>1. CASE d = c
    <3>1. /\ \/ /\ on[c] = on'[c] /\ at[c] \in Deleting /\ UNCHANGED gone
                /\ at'[c] \in {"bury", "not_found"} => at[c] = "bury" /\ UNCHANGED status
             \/ /\ "delete" \in Calls[c] /\ ~gone[on'[c]] /\ UNCHANGED <<gone, status>>
                /\ at'[c] \in {"bury", "not_found"} => status[on'[c]] # "deleted"
      BY <2>0, <2>1, CallDeletes DEF DeleteInv
    <3> QED
      BY <2>1, <3>1 DEF DeleteInv, DeletesAlone
  <2>2. CASE d # c
    <3>1. at'[d] = at[d] /\ on'[d] = on[d] /\ "delete" \in Calls[d]
      BY <1>0, <2>2 DEF DeleteInv, OnlyDeletersDelete
    <3>2. at[c] \notin Deleting
      BY <2>2, <3>1 DEF DeleteInv, OnlyDeletersDelete, OneDeleter
    <3>3. gone'[on[d]] = gone[on[d]] /\ (status'[on[d]] = "deleted" => status[on[d]] = "deleted")
      BY <2>0, <3>1, <3>2, CallDeletes DEF DeleteInv, Deleting
    <3> QED
      BY <3>1, <3>3 DEF DeleteInv, DeletesAlone
  <2> QED
    BY <2>1, <2>2
<1>5. RemovalComes'
  <2> SUFFICES ASSUME NEW j \in Job, status'[j] = "deleted", output'[j] # None, ~Happened("worker_crash")'
               PROVE  \/ \E p \in Proc : Removes(p, j)'
                      \/ Happened("call_dies")' /\ ~gone'[j]
    BY DEF RemovalComes
  <2>1. output[j] # None /\ ~Happened("worker_crash")
    BY CallDeletes, HappenedStays DEF DeleteInv, TypeInv, FaultKind
  <2>2. CASE status[j] # "deleted"
    <3>1. on'[c] = j /\ at'[c] = "purge"
      BY <2>2, CallDeletes DEF DeleteInv
    <3> QED
      BY <1>0, <3>1 DEF Removes
  <2>3. CASE \E p \in Proc \ {c} : Removes(p, j)
    BY <1>0, <2>3 DEF Removes
  <2>4. CASE Removes(c, j)
    <3>1. on[c] = j /\ at[c] = "purge"
      BY <2>4 DEF Removes
    <3>2. Fault("call_dies") /\ UNCHANGED gone
      BY <3>1, CallDeletes DEF DeleteInv
    <3>3. Happened("call_dies")' /\ OneDeleter
      BY <3>2, FaultHappens DEF TypeInv
    <3> QED
      BY <3>1, <3>2, <3>3 DEF DeleteInv, DeletesAlone, Deleting
  <2>5. CASE Happened("call_dies") /\ ~gone[j] /\ status[j] = "deleted"
    <3>1. Happened("call_dies")'
      BY <2>5, HappenedStays DEF TypeInv, FaultKind
    <3>2. OneDeleter
      BY <2>5 DEF DeleteInv, NoDeaths
    <3>3. gone'[j] = gone[j]
      <4> SUFFICES ASSUME gone'[j] # gone[j] PROVE FALSE
        OBVIOUS
      <4>1. on[c] = j /\ at[c] = "not_found" /\ UNCHANGED status
        BY CallDeletes DEF DeleteInv
      <4> QED
        BY <2>5, <3>2, <4>1 DEF DeleteInv, DeletesAlone, Deleting
    <3> QED
      BY <2>5, <3>1, <3>3
  <2> QED
    BY <2>1, <2>2, <2>3, <2>4, <2>5 DEF DeleteInv, RemovalComes
<1> QED
  BY <1>1, <1>2, <1>3, <1>4, <1>5 DEF DeleteInv

LEMMA LoopKeepsDeletes ==
  ASSUME TypeInv, TypeInv', DeleteInv, Grows, NEW l \in Loop, LoopNext(l)
  PROVE  DeleteInv'
<1>0. /\ l \in Proc /\ Client \subseteq Proc \ {l}
      /\ \A p \in Proc \ {l} : at'[p] = at[p] /\ on'[p] = on[p]
      /\ UNCHANGED <<was, gone>>
      /\ \A p \in Proc : at[p] # "idle" => on[p] \in Job
  BY LoopFrame DEF TypeInv, ProcTypeOK, BusyWithJob
<1>1. FoundAlive' /\ OnlyDeletersDelete'
  BY <1>0 DEF DeleteInv, FoundAlive, OnlyDeletersDelete
<1>2. NoDeaths'
  <2>1. CASE \E k \in Job : TRUE
    BY <2>1, LoopDeletes DEF DeleteInv, NoDeaths
  <2>2. CASE ~\E k \in Job : TRUE
    <3>1. at[l] = "idle"
      BY <1>0, <2>2
    <3>2. UNCHANGED faults
      BY <3>1 DEF LoopNext, LoopStarts, LoopContinues, LoopFaults, Heartbeat,
     ReceiveMessage, LoopReads, LoopPuts, LoopLoses, LooksAtRow, ReportsPage, Detected, PutsManifests,
     FetchesManifest, Rendered, PutsOutput, LostRace, Cancelled, ManifestGone, Fails,
     AcknowledgesMessage, ReturnsMessage, DocumentFails, ModelDown, LoopCrashes, Pipeline
    <3> QED
      BY <3>2 DEF DeleteInv, NoDeaths, Happened
  <2> QED
    BY <2>1, <2>2
<1>3. DeletesAlone'
  <2> SUFFICES ASSUME OneDeleter, NEW d \in Client, at'[d] \in Deleting
               PROVE  /\ ~gone'[on'[d]]
                      /\ at'[d] \in {"bury", "not_found"} => status'[on'[d]] # "deleted"
    BY DEF DeletesAlone
  <2>1. at'[d] = at[d] /\ on'[d] = on[d] /\ on[d] \in Job
    BY <1>0 DEF Deleting
  <2>2. status'[on[d]] = "deleted" => status[on[d]] = "deleted"
    BY <2>1, LoopDeletes
  <2> QED
    BY <1>0, <2>1, <2>2 DEF DeleteInv, DeletesAlone
<1>4. RemovalComes'
  <2> SUFFICES ASSUME NEW j \in Job, status'[j] = "deleted", output'[j] # None, ~Happened("worker_crash")'
               PROVE  \/ \E p \in Proc : Removes(p, j)'
                      \/ Happened("call_dies")' /\ ~gone'[j]
    BY DEF RemovalComes
  <2>1. status[j] = "deleted" /\ ~Happened("worker_crash")
    BY LoopDeletes, HappenedStays DEF TypeInv, FaultKind
  <2>2. CASE Removes(l, j)'
    BY <1>0, <2>2
  <2>3. CASE ~Removes(l, j)'
    <3>1. output[j] # None
      BY <2>3, LoopDeletes
    <3>2. ~Removes(l, j)
      BY <2>3, LoopDeletes, FaultHappens DEF TypeInv
    <3>3. ASSUME NEW p \in Proc, Removes(p, j) PROVE Removes(p, j)'
      BY <1>0, <3>2, <3>3 DEF Removes
    <3>4. Happened("call_dies") => Happened("call_dies")'
      BY HappenedStays DEF TypeInv, FaultKind
    <3> QED
      BY <1>0, <2>1, <3>1, <3>3, <3>4 DEF DeleteInv, RemovalComes
  <2> QED
    BY <2>2, <2>3
<1> QED
  BY <1>1, <1>2, <1>3, <1>4 DEF DeleteInv

LEMMA OtherKeepsDeletes ==
  ASSUME TypeInv, TypeInv', DeleteInv, Grows, SqsNext \/ Tick \/ UNCHANGED vars
  PROVE  DeleteInv'
<1>1. UNCHANGED <<at, on, status, output, was, gone>>
  BY DEF SqsNext, Tick, vars, tableVars, processVars, fileVars, callVars
<1>2. /\ Happened("call_dies") => Happened("call_dies")'
      /\ Happened("worker_crash") => Happened("worker_crash")'
  BY HappenedStays DEF TypeInv, FaultKind
<1>3. NoDeaths'
  <2>1. UNCHANGED faults \/ Fault("delivered_twice")
    BY DEF SqsNext, Tick, vars
  <2>2. {"call_dies", "delivered_twice"} \subseteq FaultKind
    BY DEF FaultKind
  <2> QED
    BY <2>1, <2>2, FaultHappens DEF DeleteInv, NoDeaths, Happened, TypeInv
<1>4. FoundAlive' /\ OnlyDeletersDelete' /\ DeletesAlone'
  BY <1>1 DEF DeleteInv, FoundAlive, OnlyDeletersDelete, DeletesAlone
<1>5. RemovalComes'
  BY <1>1, <1>2 DEF DeleteInv, RemovalComes, Removes
<1> QED
  BY <1>3, <1>4, <1>5 DEF DeleteInv

\* Whichever of several writers comes last, no output stays for a deleted job
\* once nobody is on it, unless a loop was interrupted: for any calls, loops and
\* faults, if calls run to their end or only one caller deletes.  (Of two callers
\* one may be told "not found" while the other buries the row and dies.)
THEOREM DeletedOutputsRemoved ==
  ASSUME "call_dies" \notin Faults \/ OneDeleter
  PROVE  Spec => []DeletedOutputRemoved
<1>1. Init => DeleteInv
  BY DEF Init, TableInit, CloudServiceInit, DeleteInv, FoundAlive, OnlyDeletersDelete, Deleting,
     DeletesAlone, NoDeaths, Happened, FaultKind, RemovalComes
<1>2. TypeInv /\ TypeInv' /\ DeleteInv /\ [Next]_vars => DeleteInv'
  <2> SUFFICES ASSUME TypeInv, TypeInv', DeleteInv, [Next]_vars PROVE DeleteInv'
    OBVIOUS
  <2>1. Grows
    BY GrowsAlways
  <2> QED
    BY <2>1, CallKeepsDeletes, LoopKeepsDeletes, OtherKeepsDeletes DEF Next
<1>3. TypeInv /\ DeleteInv => DeletedOutputRemoved
  <2> SUFFICES ASSUME DeleteInv, NEW j \in Job, status[j] = "deleted", gone[j], \A p \in Proc : on[p] # j
               PROVE  output[j] = None \/ Happened("worker_crash")
    BY DEF DeletedOutputRemoved
  <2> QED
    BY DEF DeleteInv, RemovalComes, Removes
<1> QED
  BY <1>1, <1>2, <1>3, TypesKept, PTL DEF Spec
=============================================================================
