-------------------------- MODULE CloudWork_proofs --------------------------
(***************************************************************************)
(* The AWS deployment through interruptions, for any jobs, callers,        *)
(* document loops, message slots and timeouts: an interruption costs two   *)
(* deliveries at most, and no work is left without a message.              *)
(***************************************************************************)
EXTENDS CloudFiles_proofs

LEMMA Doubling == \A n \in Nat : 0 <= 2 * n /\ 0 <= 2 * n + 1
  OBVIOUS

USE TableAssumption, QueueAssumption, CloudServiceAssumption, CloudWorkerAssumption, CycleTime

-----------------------------------------------------------------------------
(* Interruptions.  In calm weather no message is ever in doubt: calls send *)
(* theirs, renewals succeed and SQS delivers once; loops crash, calls die, *)
(* documents are bad and the model is down.  Loops may lag, but no longer  *)
(* than a third of the delay of a release, and heartbeats are late by no   *)
(* more.                                                                   *)

\* By so much a row may be younger than the hiding of its message makes it.
Margin == 3 * Lag

Calm ==
  /\ Margin <= Delay /\ Beat + Margin < Visibility
  /\ {"send_fails", "delivered_twice", "renewal_fails"} \cap Faults = {}
  /\ MaxReview <= 1 \/ "worker_crash" \notin Faults

\* Faults are those that happen, and no more than may.
Counted ==
  /\ FaultsSoFar <= MaxFaults
  /\ \A kind \in FaultKind \ Faults : ~Happened(kind)

LEMMA FaultCounts ==
  ASSUME FaultTypeOK, NEW kind, Fault(kind)
  PROVE  FaultsSoFar' = FaultsSoFar + 1 /\ FaultsSoFar < MaxFaults
<1>1. kind \in FaultKind /\ faults' = [faults EXCEPT ![kind] = @ + 1] /\ FaultsSoFar < MaxFaults
  BY DEF Fault
<1>2. \A k \in FaultKind : faults[k] \in Nat
  BY DEF FaultTypeOK
<1>3. \A k \in FaultKind : faults'[k] = IF k = kind THEN faults[k] + 1 ELSE faults[k]
  BY <1>1 DEF FaultTypeOK
<1> QED
  BY <1>1, <1>2, <1>3, SMTT(60) DEF FaultsSoFar, FaultKind

LEMMA FaultsAdd ==
  ASSUME FaultTypeOK, FaultTypeOK', Grows
  PROVE  FaultsSoFar \in Nat /\ FaultsSoFar' \in Nat /\ FaultsSoFar <= FaultsSoFar'
<1>1. \A k \in FaultKind : faults[k] \in Nat /\ faults'[k] \in Nat /\ faults[k] <= faults'[k]
  BY DEF FaultTypeOK, Grows
<1> QED
  BY <1>1 DEF FaultsSoFar, FaultKind

LEMMA FaultOrNone ==
  ASSUME [Next]_vars
  PROVE  UNCHANGED faults \/ \E kind : Fault(kind)
<1>1. ASSUME NEW c \in Client, ClientNext(c) PROVE UNCHANGED faults \/ \E kind : Fault(kind)
  BY <1>1 DEF ClientNext, CallStarts, CreateJob, Submit, Finalize, Delete, CallContinues, FinalizeWrites,
     CallReads, CallPuts, CallLoses, Sends, SendFails, DeletePurges, DeleteAnswersNotFound, CallDies
<1>2. ASSUME NEW l \in Loop, LoopNext(l) PROVE UNCHANGED faults \/ \E kind : Fault(kind)
  BY <1>2 DEF LoopNext, LoopStarts, LoopContinues, LoopFaults, Heartbeat, ReceiveMessage, LoopReads,
     LoopPuts, LoopLoses, LooksAtRow, ReportsPage, Detected, PutsManifests, FetchesManifest, Rendered,
     PutsOutput, LostRace, Cancelled, ManifestGone, Fails, AcknowledgesMessage, ReturnsMessage,
     DocumentFails, ModelDown, LoopCrashes
<1>3. ASSUME SqsNext \/ Tick \/ UNCHANGED vars PROVE UNCHANGED faults \/ \E kind : Fault(kind)
  BY <1>3 DEF SqsNext, Tick, vars
<1> QED
  BY <1>1, <1>2, <1>3 DEF Next

LEMMA CountedKept == Spec => []Counted
<1>1. Init => Counted
  BY DEF Init, CloudServiceInit, Counted, FaultsSoFar, FaultKind, Happened
<1>2. TypeInv /\ Counted /\ [Next]_vars => Counted'
  <2> SUFFICES ASSUME TypeInv, Counted, [Next]_vars PROVE Counted'
    OBVIOUS
  <2>1. CASE UNCHANGED faults
    BY <2>1 DEF Counted, FaultsSoFar, Happened
  <2>2. ASSUME NEW kind, Fault(kind) PROVE Counted'
    <3>1. FaultsSoFar' = FaultsSoFar + 1 /\ FaultsSoFar < MaxFaults
      BY <2>2, FaultCounts DEF TypeInv
    <3>2. kind \in Faults /\ \A other \in FaultKind \ {kind} : Happened(other)' <=> Happened(other)
      BY <2>2, FaultHappens DEF TypeInv
    <3>3. FaultsSoFar \in Nat
      BY DEF FaultsSoFar, FaultKind, TypeInv, FaultTypeOK
    <3> QED
      BY <3>1, <3>2, <3>3 DEF Counted
  <2> QED
    BY <2>1, <2>2, FaultOrNone
<1> QED
  BY <1>1, <1>2, TypesKept, PTL DEF Spec

LEMMA CalmDoubt ==
  ASSUME Calm, TypeInv, Counted
  PROVE  ~InDoubt /\ Slack + Lag = Beat + Margin
<1>1. ~Happened("send_fails") /\ ~Happened("delivered_twice") /\ ~Happened("renewal_fails")
  BY DEF Calm, Counted, FaultKind
<1>2. faults["renewal_fails"] = 0
  BY <1>1 DEF Happened, TypeInv, FaultTypeOK, FaultKind
<1>3. ~AnswersLate /\ Slack + Lag = Beat + Margin
  BY <1>2 DEF AnswersLate, Slack, Calm, Margin
<1>4. Happened("worker_crash") => \A j \in Job : reviews[j] <= 1
  <2>1. Happened("worker_crash") => MaxReview <= 1
    BY DEF Calm, Counted, FaultKind
  <2> QED
    BY <2>1 DEF TypeInv, CallTypeOK, Review
<1>5. \A j \in Job : reviews[j] \in Nat
  BY DEF TypeInv, CallTypeOK, Review
<1> QED
  BY <1>1, <1>3, <1>4, <1>5 DEF InDoubt

LEMMA CalmKnown ==
  ASSUME Calm
  PROVE  Spec /\ []OneReviewAtATime => []Known
<1>1. TypeInv /\ MessageInv /\ ControlInv /\ ReviewInv /\ HoldInv /\ WorkInv /\ Counted => Known
  BY CalmDoubt DEF Known, WorkInv
<1> QED
  BY <1>1, TypesKept, MessagesKept, ControlKept, ReviewsKept, HoldKept, WorkKept, CountedKept, PTL

-----------------------------------------------------------------------------
(* The lease.  Whoever looks at a row in flight finds it silent for so     *)
(* long that its lease is over, or will be when a release is.              *)

Unheld(m) == \A l \in Loop : letter[l].message # m

\* The lease of a row in flight is all but over.
NearlyOver(j) == silent[j] + Margin >= Lease

\* A message nobody holds is hidden until the lease of the row is all but over.
LeaseInv == \A j \in Job, m \in Message, task \in Task :
  Told(m, j, task) /\ status[j] = InFlightFor(task) /\ Unheld(m) =>
    silent[j] + queue[m].hidden + Margin >= Lease

LookInv == \A l \in Loop : at[l] = "look" /\ LeaseHeld(l) => NearlyOver(on[l])

\* A loop loses the row of its job only to a deletion.
StaleInv == \A l \in Loop : reading[l] = "stale" => status[on[l]] = "deleted"

\* A message is handed back when its job is, or the lease is all but over.
ReturnInv == \A l \in Loop :
  at[l] = "return" /\ status[on[l]] = InFlightFor(letter[l].task) => NearlyOver(on[l])

LapseInv == LeaseInv /\ LookInv /\ StaleInv /\ ReturnInv

LEMMA TasksApart ==
  /\ QueuedFor("detect") = "queued_detection" /\ QueuedFor("redact") = "queued_redaction"
  /\ InFlightFor("detect") = "detecting" /\ InFlightFor("redact") = "redacting"
BY DEF QueuedFor, InFlightFor

\* The loop that puts a row puts it under the message that counts for the row.
LEMMA PutsUnderMessage ==
  ASSUME Known, NEW l \in Loop, NEW j \in Job, j = on[l], LoopPut(l, j),
         NEW m \in Message, NEW task \in Task, Told(m, j, task), ~Spent(m),
         status[j] \in {QueuedFor(task), InFlightFor(task)} \/ status'[j] = InFlightFor(task)
  PROVE  m = letter[l].message
<1>1. LoopKnows(l) /\ Advances(l, j) /\ at[l] \notin {"idle", "ack"} /\ Stage(l) /\ status[j] # "deleted"
  <2>1. LoopKnows(l) /\ Advances(l, j) /\ at[l] \in LoopUpdating /\ Stage(l)
    BY LoopFinds DEF Known, ControlInv, StageInv, LoopPut
  <2> QED
    BY <2>1 DEF LoopUpdating, Advances, InFlight
<1>2. Told(letter[l].message, j, letter[l].task) /\ letter[l].message \in Message /\ ~Spent(letter[l].message)
  BY <1>1, LoopTold
<1>3. task \in {"detect", "redact"} /\ letter[l].task \in {"detect", "redact"}
  BY Numbers DEF Known, Task
<1>4. letter[l].task = task => m = letter[l].message
  BY <1>1, <1>2, <1>3 DEF Known, TokenInv, DetectTokens, RedactTokens
<1>5. task = "redact" => reviews[j] > 0 /\ status[j] \notin Early
  BY DEF Known, ReviewInv, MessageReviewed, ControlInv, MessageKnows, Told
<1>6. at[l] \notin {"claim"} => at[l] \in AtWork
  BY <1>1 DEF Advances, AtWork, Pipeline
<1>7. CASE task = "redact" /\ letter[l].task = "detect"
  <2>1. status[j] \in {"queued_redaction", "redacting"} \/ status'[j] = "redacting"
    BY <1>7, TasksApart
  <2>2. at[l] # "claim"
    BY <1>1, <1>7, <2>1 DEF Advances
  <2>3. reviews[j] = 0
    BY <1>1, <1>6, <1>7, <2>2 DEF Stage
  <2> QED
    BY <1>5, <1>7, <2>3
<1>8. CASE task = "detect" /\ letter[l].task = "redact"
  <2>1. status[j] \in {"queued_detection", "detecting"} \/ status'[j] = "detecting"
    BY <1>8, TasksApart
  <2>2. at[l] # "claim" => status[j] = "redacting"
    BY <1>1, <1>6, <1>8 DEF Stage
  <2> QED
    BY <1>1, <1>8, <2>1, <2>2 DEF Advances
<1> QED
  BY <1>3, <1>4, <1>7, <1>8

\* A loop whose own update found the row has a message that counts for it.
LEMMA FreshCounts ==
  ASSUME Known, NEW l \in Loop, reading[l] = "fresh"
  PROVE  /\ at[l] \in LoopUpdating /\ on[l] \in Job
         /\ at[l] # "claim" => at[l] \in AtWork
         /\ at[l] = "claim" => status[on[l]] \in {QueuedFor(letter[l].task), InFlightFor(letter[l].task)}
         /\ status[on[l]] \in Queued \cup InFlight
<1>1. LoopKnows(l) /\ at[l] \in LoopUpdating /\ status[on[l]] \in LoopUpdate(l).from
  BY DEF Known, ControlInv, LoopKnows
<1>2. on[l] \in Job /\ letter[l].task \in {"detect", "redact"}
  BY <1>1, Numbers DEF Known, TypeInv, ProcTypeOK, BusyWithJob, LoopUpdating
<1>3. at[l] # "claim" => at[l] \in AtWork
  BY <1>1 DEF LoopUpdating, AtWork, Pipeline
<1>4. CASE at[l] = "claim"
  <2>1. status[on[l]] \in {QueuedFor(letter[l].task), InFlightFor(letter[l].task)}
    BY <1>1, <1>2, <1>4, LoopFrom, TasksApart DEF Known
  <2> QED
    BY <1>1, <1>2, <1>4, <2>1, TasksApart DEF Queued, InFlight
<1>5. CASE at[l] # "claim"
  <2>1. status[on[l]] \in InFlight
    <3>1. at[l] \in DetectStep \cup {"release", "complete", "review", "failed"}
      BY <1>1, <1>5 DEF LoopUpdating, DetectStep
    <3>2. at[l] = "release" => letter[l].task = "detect"
      BY <1>1 DEF LoopKnows
    <3> QED
      BY <1>1, <3>1, <3>2, LoopFrom DEF Known, InFlight
  <2> QED
    BY <1>1, <1>2, <1>3, <1>5, <2>1 DEF Queued
<1> QED
  BY <1>4, <1>5, <1>1, <1>2, <1>3

\* Rows grow older only by the clock, and are young again only when they are put.
LEMMA CallSilence ==
  ASSUME Known, NEW c \in Client, ClientNext(c), NEW j \in Job
  PROVE  silent'[j] = silent[j] \/ status'[j] \notin InFlight
<1>0. c \in Proc /\ silent \in [Job -> 0 .. Patience] /\ status \in [Job -> JobStatus \cup {"none"}] /\ CallDelivers(c)
  BY DEF Known, TypeInv, RowTypeOK, DeliveryInv
<1>1. CASE CallPuts(c)
  <2>0. at[c] \in CallUpdating /\ at[c] # "undo" /\ on[c] \in Job
    BY <1>0, <1>1 DEF CallPuts, CallDelivers, CallUpdating, Known, TypeInv, ProcTypeOK, BusyWithJob
  <2>1. CallUpdate(c).to \notin InFlight
    <3>1. CASE at[c] = "submit"
      BY <3>1 DEF CallUpdate, InFlight
    <3>2. CASE at[c] = "finalize"
      BY <3>2 DEF CallUpdate, InFlight
    <3>3. CASE at[c] = "bury"
      BY <3>3 DEF CallUpdate, InFlight
    <3>4. CASE at[c] = "reject"
      BY <3>4 DEF CallUpdate, InFlight
    <3> QED
      BY <2>0, <3>1, <3>2, <3>3, <3>4 DEF CallUpdating
  <2>2. /\ status' = [status EXCEPT ![on[c]] = CallUpdate(c).to]
        /\ silent' = [silent EXCEPT ![on[c]] = 0]
    BY <1>1 DEF CallPuts, Puts
  <2> QED
    BY <1>0, <2>0, <2>1, <2>2
<1>2. ASSUME NEW i \in Job, CreateJob(c, i) PROVE silent'[j] = silent[j] \/ status'[j] \notin InFlight
  <2>1. /\ status' = [status EXCEPT ![i] = "awaiting_upload"]
        /\ silent' = [silent EXCEPT ![i] = 0]
    BY <1>2 DEF CreateJob, Insert
  <2> QED
    BY <1>0, <2>1 DEF InFlight
<1>3. CASE UNCHANGED silent
  BY <1>3
<1>4. CallPuts(c) \/ (\E i \in Job : CreateJob(c, i)) \/ UNCHANGED silent
  BY DEF ClientNext, CallStarts, Submit, Finalize, Delete, CallContinues, FinalizeWrites, CallReads, CallLoses,
     UpdateReads, PutFails, Sends, SendFails, DeletePurges, DeleteAnswersNotFound, CallDies, tableVars
<1> QED
  BY <1>1, <1>2, <1>3, <1>4

LEMMA LoopSilence ==
  ASSUME Known, NEW l \in Loop, LoopNext(l), NEW j \in Job
  PROVE  \/ status'[j] = status[j] /\ silent'[j] = silent[j]
         \/ at[l] # "idle" /\ j = on[l] /\ LoopPut(l, j)
<1>1. CASE LoopPuts(l)
  <2>0. /\ l \in Proc /\ at \in [Proc -> Step] /\ reading \in [Proc -> {"nothing", "fresh", "stale"}]
        /\ silent \in [Job -> 0 .. Patience] /\ status \in [Job -> JobStatus \cup {"none"}]
    BY DEF Known, TypeInv, ProcTypeOK, RowTypeOK
  <2>1. /\ at[l] \in LoopUpdating /\ reading[l] = "fresh" /\ reading'[l] = "nothing"
        /\ at'[l] = LoopUpdate(l).done
    BY <1>1, <2>0 DEF LoopPuts, Puts, Goto, Outdates
  <2>2. at'[l] # "idle"
    BY <2>1, LoopUpdates DEF LoopUpdating, LoopUpdate, AfterClaim, AfterHandOff
  <2>3. LoopPut(l, on[l]) /\ at[l] # "idle"
    BY <2>1, <2>2, LoopSteps
    DEF Known, Receives, LoopDoes, LoopUpdating, Erases, WritesManifests, Fetches, StoresOutput, LoopGoesOn, Leaves, MovesTo
  <2>4. j # on[l] => status'[j] = status[j] /\ silent'[j] = silent[j]
    BY <1>1, <2>0 DEF LoopPuts, Puts
  <2> QED
    BY <2>3, <2>4
<1>2. CASE UNCHANGED <<status, silent>>
  BY <1>2
<1>3. LoopPuts(l) \/ UNCHANGED <<status, silent>>
  BY DEF LoopNext, LoopStarts, LoopContinues, LoopFaults, Heartbeat, ReceiveMessage, LoopReads,
     UpdateReads, LoopLoses, PutFails, LooksAtRow, ReportsPage, Detected, PutsManifests, FetchesManifest, Rendered,
     PutsOutput, LostRace, Cancelled, ManifestGone, Fails, AcknowledgesMessage, ReturnsMessage,
     DocumentFails, ModelDown, LoopCrashes, Raises, tableVars
<1> QED
  BY <1>1, <1>2, <1>3

\* What a loop does to a message: it takes its delivery, or it is the loop's own.
LEMMA LoopMail ==
  ASSUME TypeInv, MessageInv, NEW l \in Loop, LoopNext(l), NEW m \in Message
  PROVE  \/ queue'[m] = queue[m]
         \/ /\ at[l] = "idle" /\ letter'[l].message = m /\ at'[l] = "look" /\ Visible(m)
            /\ queue'[m].received = queue[m].received + 1
         \/ /\ at[l] # "idle" /\ letter[l].message = m
            /\ Sent(m)' => Sent(m) /\ queue'[m].received = queue[m].received
<1>0. /\ l \in Proc /\ at \in [Proc -> Step] /\ queue \in [Message -> {NoMessage} \cup Envelope]
      /\ letter \in [Loop -> [message : Message \cup {NoMessage}, handle : 0 .. MaxReceive,
                              task : Task, auto : BOOLEAN]]
  BY DEF TypeInv, ProcTypeOK, QueueTypeOK, Envelope, CloudWorkerTypeOK
<1> DEFINE Own == at[l] # "idle" /\ letter[l].message = m /\ (Sent(m)' => Sent(m) /\ queue'[m].received = queue[m].received)
<1>1. CASE UNCHANGED queue
  BY <1>1
<1>2. ASSUME NEW time,
             Hide(letter[l].message, letter[l].handle, time) \/ Acknowledge(letter[l].message, letter[l].handle),
             at[l] # "idle"
      PROVE  queue'[m] = queue[m] \/ Own
  <2>1. PICK n \in Message : n = letter[l].message
    BY <1>2, Hidden DEF MessageInv
  <2>2. PICK handle : handle = letter[l].handle
    OBVIOUS
  <2>3. Hide(n, handle, time) \/ Acknowledge(n, handle) \/ UNCHANGED queue
    BY <1>2, <2>1, <2>2
  <2>4. \/ queue'[m] = queue[m]
        \/ /\ m = n /\ Handled(m, handle)
           /\ \/ queue'[m] = NoMessage
              \/ queue'[m] = [queue[m] EXCEPT !.hidden = time]
    BY <2>3, OneMessage
  <2>5. ASSUME NEW e \in Envelope PROVE [e EXCEPT !.hidden = time].received = e.received
    BY DEF Envelope
  <2>6. Handled(m, handle) => Sent(m) /\ queue[m] \in Envelope
    BY <1>0 DEF Handled, Sent
  <2> QED
    BY <1>2, <2>1, <2>4, <2>5, <2>6 DEF Sent
<1>3. ASSUME NEW n \in Message, ReceiveMessage(l, n)
      PROVE  \/ queue'[m] = queue[m]
             \/ /\ at[l] = "idle" /\ letter'[l].message = m /\ at'[l] = "look" /\ Visible(m)
                /\ queue'[m].received = queue[m].received + 1
  <2>1. at[l] = "idle" /\ letter'[l].message = n /\ at'[l] = "look" /\ Visible(n) /\ Receive(n)
    BY <1>0, <1>3 DEF ReceiveMessage, Begins, Receive
  <2>2. queue[n] \in Envelope
    BY <1>0, <2>1 DEF Visible, Sent
  <2>3. /\ queue'[n].received = queue[n].received + 1
        /\ \A k \in Message \ {n} : queue'[k] = queue[k]
    BY <1>0, <2>1, <2>2 DEF Receive, Envelope
  <2> QED
    BY <2>1, <2>3
<1>4. CASE LoopStarts(l)
  BY <1>3, <1>4 DEF LoopStarts
<1>5. CASE AcknowledgesMessage(l) \/ ReturnsMessage(l) \/ (Heartbeat(l) /\ Renew(letter[l].message, letter[l].handle))
  <2>1. at[l] # "idle"
    BY <1>5 DEF AcknowledgesMessage, ReturnsMessage, Heartbeat, Pipeline
  <2>2. \E time : Hide(letter[l].message, letter[l].handle, time) \/ Acknowledge(letter[l].message, letter[l].handle)
    BY <1>5 DEF AcknowledgesMessage, ReturnsMessage, Release, Renew
  <2> HIDE DEF Own
  <2>3. queue'[m] = queue[m] \/ Own
    BY <1>2, <2>1, <2>2
  <2> QED
    BY <2>3 DEF Own
<1> QED
  <2>1. \/ UNCHANGED queue \/ AcknowledgesMessage(l) \/ ReturnsMessage(l) \/ LoopStarts(l)
        \/ Heartbeat(l) /\ Renew(letter[l].message, letter[l].handle)
    BY DEF LoopNext, LoopContinues, LoopFaults, Heartbeat, LoopReads,
        LoopPuts, LoopLoses, LooksAtRow, ReportsPage, Detected, PutsManifests, FetchesManifest, Rendered,
        PutsOutput, LostRace, Cancelled, ManifestGone, Fails,
        DocumentFails, ModelDown, LoopCrashes, Raises, loopVars
  <2> QED
    BY <1>1, <1>4, <1>5, <2>1

\* How a loop comes to let its message go.
LEMMA LoopLeaves ==
  ASSUME Known, NEW l \in Loop, LoopNext(l), at[l] # "idle", at'[l] = "idle"
  PROVE  \/ at[l] = "return"
         \/ at[l] = "ack" /\ queue'[letter[l].message] = NoMessage
         \/ LoopCrashes(l)
<1>0. /\ l \in Proc /\ at \in [Proc -> Step]
      /\ letter[l].message \in Message /\ Holds(l) /\ queue \in [Message -> {NoMessage} \cup Envelope]
  BY LoopTold DEF Known, TypeInv, ProcTypeOK, QueueTypeOK, Envelope
<1>1. CASE AcknowledgesMessage(l)
  BY <1>0, <1>1 DEF AcknowledgesMessage, Acknowledge, Holds
<1>2. CASE ReturnsMessage(l)
  BY <1>2 DEF ReturnsMessage
<1>3. CASE LoopReads(l) \/ LoopLoses(l) \/ LoopPuts(l)
  <2>1. at[l] \in LoopUpdating
    BY <1>3 DEF LoopReads, LoopLoses, LoopPuts
  <2>2. LoopUpdate(l).lost # "idle" /\ LoopUpdate(l).done # "idle"
    <3> USE DEF LoopUpdate
    <3>1. CASE at[l] \in {"claim", "handoff"}
      BY <3>1 DEF AfterClaim, AfterHandOff
    <3>2. CASE at[l] \in {"pages", "progress", "findings", "complete"}
      BY <3>2
    <3>3. CASE at[l] \in {"review", "failed", "release"}
      BY <3>3
    <3> QED
      BY <2>1, <3>1, <3>2, <3>3 DEF LoopUpdating
  <2>3. at'[l] \in {at[l], LoopUpdate(l).lost, LoopUpdate(l).done}
    BY <1>0, <1>3 DEF LoopReads, LoopLoses, LoopPuts, UpdateReads, PutFails, Puts, Goto
  <2> QED
    BY <2>2, <2>3
<1>4. ASSUME NEW step, Proceeds(l, step) PROVE step = "idle"
  BY <1>0, <1>4 DEF Proceeds, Goto
<1>5. ~LooksAtRow(l) /\ ~ReportsPage(l) /\ ~Detected(l) /\ ~PutsManifests(l) /\ ~FetchesManifest(l) /\ ~Rendered(l)
  BY <1>4 DEF LooksAtRow, ReportsPage, Detected, PutsManifests, FetchesManifest, Rendered
<1>6. ~PutsOutput(l) /\ ~LostRace(l) /\ ~Cancelled(l) /\ ~ManifestGone(l) /\ ~DocumentFails(l) /\ ~ModelDown(l)
  BY <1>4 DEF PutsOutput, LostRace, Cancelled, ManifestGone, DocumentFails, ModelDown, Raises
<1>7. ~Fails(l)
  <2>1. PICK step : step = CASE status[on[l]] \in {"deleted", "complete"} \/ why[l] = "cancelled" -> "ack"
                             [] status[on[l]] = "redacting" /\ why[l] = "invalid" /\ ~auto[on[l]] -> "review"
                             [] OTHER -> "failed"
    OBVIOUS
  <2>2. step # "idle"
    BY <2>1
  <2> QED
    BY <1>4, <2>1, <2>2 DEF Fails
<1>8. ~Heartbeat(l)
  BY DEF Heartbeat, processVars
<1>9. ~LoopStarts(l)
  BY DEF LoopStarts, ReceiveMessage, Begins
<1> QED
  BY <1>1, <1>2, <1>3, <1>5, <1>6, <1>7, <1>8, <1>9 DEF LoopNext, LoopContinues, LoopFaults

LEMMA LeaseTime ==
  /\ Lease \in Nat /\ Lease <= Visibility /\ Visibility <= Patience /\ Lease + Beat = Visibility
  /\ Margin \in Nat
BY DEF Lease, Margin

\* The parts of a row and of a message that time changes.
LEMMA RowTimes ==
  ASSUME TypeInv, NEW j \in Job
  PROVE  silent[j] \in Nat /\ silent[j] <= Patience
BY DEF TypeInv, RowTypeOK

LEMMA MessageTimes ==
  ASSUME TypeInv, NEW m \in Message, Sent(m)
  PROVE  /\ queue[m] \in Envelope /\ queue[m].hidden \in Nat
         /\ queue[m].received \in Nat /\ queue[m].received <= MaxReceive
<1>1. queue[m] \in Envelope
  BY DEF TypeInv, QueueTypeOK, Sent, Envelope
<1> QED
  BY <1>1, EnvelopeParts

\* A message that is visible is in nobody's hand.
LEMMA VisibleUnheld ==
  ASSUME Known, NEW m \in Message, Visible(m)
  PROVE  Unheld(m)
<1> SUFFICES ASSUME NEW l \in Loop, letter[l].message = m PROVE FALSE
  BY DEF Unheld
<1>1. at[l] # "idle"
  BY DEF Known, MessageInv, LetterInHand
<1>2. queue[m].hidden > 0
  BY <1>1, Holding DEF Known, InDoubt, Steady
<1> QED
  BY <1>2 DEF Visible

\* A call puts no row in flight, and takes one out only to delete its job.
LEMMA CallRows ==
  ASSUME Known, TypeInv', ~InDoubt', NEW c \in Client, ClientNext(c), NEW j \in Job
  PROVE  /\ status'[j] = status[j] \/ status'[j] \notin InFlight
         /\ status'[j] \in InFlight => silent'[j] = silent[j]
         /\ status[j] \in Queued \cup InFlight => status'[j] \in {status[j], "deleted"}
         /\ status[j] = "deleted" => status'[j] = "deleted"
<1>0. CallKnows(c) /\ CallDelivers(c)
  BY DEF Known, ControlInv, DeliveryInv
<1>1. silent'[j] = silent[j] \/ status'[j] \notin InFlight
  BY CallSilence
<1>2. status'[j] = status[j] \/ (status'[j] \notin InFlight /\ (status[j] \notin Queued \cup InFlight \/ status'[j] = "deleted"))
  <2>1. ASSUME StartsReview(c, j) PROVE status'[j] = status[j]
    BY <2>1 DEF StartsReview
  <2>2. ASSUME on[c] = j, PutsSubmitted(c, j) \/ PutsReviewed(c, j)
        PROVE  status'[j] \notin InFlight /\ status[j] \notin Queued \cup InFlight
    BY <1>0, <2>2, CallFinds DEF PutsSubmitted, PutsReviewed, CallPut, InFlight, Queued, Reviewable
  <2>3. ASSUME \/ status'[j] \in {status[j], "deleted"}
               \/ status[j] = "none" /\ status'[j] = "awaiting_upload"
               \/ status[j] = "awaiting_upload" /\ status'[j] = "failed"
        PROVE  status'[j] = status[j] \/ (status'[j] \notin InFlight /\ (status[j] \notin Queued \cup InFlight \/ status'[j] = "deleted"))
    BY <2>3 DEF InFlight, Queued
  <2> QED
    BY <2>1, <2>2, <2>3, CallEffects
<1>3. status[j] = "deleted" => status'[j] = "deleted"
  BY CallTurns DEF Known, Turns
<1> QED
  BY <1>1, <1>2, <1>3

LEMMA CallKeepsLapses ==
  ASSUME Known, LapseInv, TypeInv', ~InDoubt', NEW c \in Client, ClientNext(c)
  PROVE  LapseInv'
<1>0. /\ \A l \in Loop : LoopSame(l)
      /\ \A l \in Loop : at[l] # "idle" => on[l] \in Job
      /\ CallKnows(c) /\ CallDelivers(c)
  BY CallSteps DEF Known, TypeInv, ProcTypeOK, BusyWithJob, ControlInv, DeliveryInv
<1>1. ASSUME NEW j \in Job
      PROVE  /\ status'[j] = status[j] \/ status'[j] \notin InFlight
             /\ status'[j] \in InFlight => silent'[j] = silent[j]
             /\ status[j] \in Queued \cup InFlight => status'[j] \in {status[j], "deleted"}
             /\ status[j] = "deleted" => status'[j] = "deleted"
  BY CallRows
<1>2. LeaseInv'
  <2> SUFFICES ASSUME NEW j \in Job, NEW m \in Message, NEW task \in Task,
                      Told(m, j, task)', status'[j] = InFlightFor(task), Unheld(m)'
               PROVE  silent'[j] + queue'[m].hidden + Margin >= Lease
    BY DEF LeaseInv, InFlightFor, Lease, Margin
  <2>1. status'[j] = status[j] /\ silent'[j] = silent[j]
    BY <1>1, TasksApart DEF InFlight, Task
  <2>2. Unheld(m)
    BY <1>0 DEF Unheld, LoopSame
  <2>3. ~SentBy(c, m)
    <3> SUFFICES ASSUME SentBy(c, m) PROVE FALSE
      OBVIOUS
    <3>1. queue'[m] = [says |-> <<on[c], TaskOf(c)>>, hidden |-> 0, received |-> 0]
      BY DEF SentBy
    <3>2. on[c] = j /\ TaskOf(c) = task
      BY <3>1 DEF Told
    <3>3. Sending(c, j, task)
      BY <3>2 DEF Sending, SentBy
    <3>4. status[j] \notin InFlight
      BY <3>3 DEF Known, TokenInv, DetectTokens, RedactTokens, InFlight, Task
    <3> QED
      BY <2>1, <3>4, TasksApart DEF InFlight, Task
  <2>4. queue'[m] = queue[m]
    BY <2>3, CallMessages DEF Known
  <2> QED
    BY <2>1, <2>2, <2>4 DEF LapseInv, LeaseInv, Told, Sent
<1>3. LookInv'
  <2> SUFFICES ASSUME NEW l \in Loop, at'[l] = "look", LeaseHeld(l)' PROVE silent'[on'[l]] + Margin >= Lease
    BY DEF LookInv, NearlyOver, Lease, Margin
  <2>0. PICK j \in Job : j = on[l]
    BY <1>0 DEF LoopSame, PlaceSame
  <2>1. at[l] = "look" /\ on'[l] = j /\ letter'[l] = letter[l] /\ letter[l].task \in {"detect", "redact"}
    BY <1>0, <2>0, Numbers DEF LoopSame, PlaceSame, Known
  <2>2. status'[j] = InFlightFor(letter[l].task) /\ silent'[j] < Lease
    BY <2>1 DEF LeaseHeld, InFlightFor, Lease
  <2>3. status'[j] = status[j] /\ silent'[j] = silent[j]
    BY <1>1, <2>1, <2>2, TasksApart DEF InFlight
  <2> QED
    BY <2>0, <2>1, <2>2, <2>3 DEF LapseInv, LookInv, LeaseHeld, NearlyOver
<1>4. StaleInv'
  <2> SUFFICES ASSUME NEW l \in Loop, reading'[l] = "stale" PROVE status'[on'[l]] = "deleted"
    BY DEF StaleInv
  <2>0. l \in Proc \ {c} /\ on'[l] = on[l]
    BY <1>0 DEF LoopSame, PlaceSame
  <2>1. CASE reading[l] = "stale"
    <3>1. at[l] # "idle" /\ on[l] \in Job /\ status[on[l]] = "deleted"
      BY <1>0, <2>1 DEF LapseInv, StaleInv, Known, ControlInv, LoopKnows, LoopUpdating
    <3> QED
      BY <1>1, <2>0, <3>1
  <2>2. CASE reading[l] # "stale"
    <3>1. CallDoes(c, on[c]) /\ reading[c] = "fresh"
      BY <2>0, <2>2, CallSteps
      DEF Known, Creates, StartsSubmit, StartsReview, StartsDelete, Starts, CallDoes, WritesReview,
          PutsSubmitted, PutsRejected, PutsReviewed, PutsBack, PutsDeleted, CallPut, PurgesFiles, CallGoesOn,
          ReadingsStay, ReadingsAge
    <3>2. PutsSubmitted(c, on[c]) \/ PutsRejected(c, on[c]) \/ PutsReviewed(c, on[c]) \/ PutsDeleted(c, on[c])
      <4>1. at[c] # "undo"
        BY <1>0 DEF CallDelivers
      <4>2. at[c] \in CallUpdating
        BY <1>0, <3>1 DEF CallKnows
      <4> QED
        BY <3>1, <4>1, <4>2 DEF CallDoes, WritesReview, PurgesFiles, PutsBack, CallPut, CallUpdating
    <3>3. reading[l] = "fresh" /\ on[l] = on[c]
      BY <2>0, <2>2, <3>2 DEF PutsSubmitted, PutsRejected, PutsReviewed, PutsDeleted, CallPut, ReadingsAge
    <3>4. on[l] \in Job /\ status[on[l]] \in Queued \cup InFlight
      BY <3>3, FreshCounts
    <3>5. PutsDeleted(c, on[c])
      BY <1>0, <3>1, <3>2, <3>3, <3>4, CallFinds DEF PutsSubmitted, PutsRejected, PutsReviewed, CallPut, Queued,
         InFlight, Reviewable
    <3> QED
      BY <2>0, <3>3, <3>5 DEF PutsDeleted, CallPut
  <2> QED
    BY <2>1, <2>2
<1>5. ReturnInv'
  <2> SUFFICES ASSUME NEW l \in Loop, at'[l] = "return", status'[on'[l]] = InFlightFor(letter'[l].task)
               PROVE  silent'[on'[l]] + Margin >= Lease
    BY DEF ReturnInv, NearlyOver, InFlightFor, Lease, Margin
  <2>1. at[l] = "return" /\ on'[l] = on[l] /\ on[l] \in Job /\ letter'[l] = letter[l]
    BY <1>0 DEF LoopSame, PlaceSame
  <2>2. letter[l].task \in {"detect", "redact"}
    BY <2>1, LoopTold
  <2>3. status'[on[l]] = status[on[l]] /\ silent'[on[l]] = silent[on[l]]
    BY <1>1, <2>1, <2>2, TasksApart DEF InFlight
  <2> QED
    BY <2>1, <2>3 DEF LapseInv, ReturnInv, NearlyOver
<1> QED
  BY <1>2, <1>3, <1>4, <1>5 DEF LapseInv

\* Where a step of a loop leads that neither puts a row nor lets the message go.
LEMMA LoopGoes ==
  ASSUME TypeInv, NEW l \in Loop, LoopNext(l)
  PROVE  /\ at'[l] = "idle" \/ at[l] = "idle" \/ letter'[l].message = letter[l].message
         /\ at'[l] = "look" => (at[l] = "look" /\ LoopSame(l)) \/ (\E m \in Message : Receives(l, m))
         /\ at'[l] = "return" =>
              \/ at[l] = "return" /\ LoopSame(l)
              \/ at[l] = "look" /\ LeaseHeld(l) /\ on'[l] = on[l] /\ letter'[l] = letter[l]
              \/ /\ at[l] = "release" /\ on'[l] = on[l] /\ letter'[l].task = letter[l].task
                 /\ \/ LoopPut(l, on[l])
                    \/ /\ \A j \in Job : Same(j)
                       /\ reading[l] = "stale" \/ status[on[l]] \notin LoopUpdate(l).from
         /\ reading'[l] = "stale" => reading[l] = "stale" /\ (PlaceSame(l) \/ at[l] = "idle")
<1>1. ASSUME NEW m \in Message, Receives(l, m)
      PROVE  at[l] = "idle" /\ at'[l] = "look" /\ reading'[l] = reading[l]
  BY <1>1 DEF Receives, TypeInv, ProcTypeOK
<1>2. ASSUME Leaves(l) PROVE at'[l] = "idle" /\ reading'[l] = "nothing"
  BY <1>2 DEF Leaves, MovesTo
<1>3. ASSUME Erases(l, on[l]) \/ WritesManifests(l, on[l]) \/ Fetches(l, on[l]) \/ StoresOutput(l, on[l])
      PROVE  /\ letter'[l] = letter[l] /\ reading'[l] = "nothing"
             /\ at'[l] \in {"fail", "ack", "handoff", "render", "complete"}
  BY <1>3 DEF Erases, WritesManifests, Fetches, StoresOutput, MovesTo
<1>4. ASSUME LoopPut(l, on[l])
      PROVE  /\ letter'[l].message = letter[l].message /\ reading'[l] = "nothing" /\ at'[l] # "look"
             /\ letter'[l].task = letter[l].task /\ on'[l] = on[l]
             /\ at'[l] = "return" => at[l] = "release"
  BY <1>4 DEF LoopPut, LoopTurns
<1>5. ASSUME LoopGoesOn(l)
      PROVE  /\ letter'[l] = letter[l] /\ \A j \in Job : Same(j)
             /\ \/ LoopSame(l) /\ reading'[l] = reading[l]
                \/ LoopSame(l) /\ reading'[l] = "fresh" /\ at[l] \in LoopUpdating
                \/ /\ reading'[l] = "nothing" /\ at'[l] # "look"
                   /\ at'[l] = "return" =>
                        \/ at[l] = "look" /\ LeaseHeld(l) /\ on'[l] = on[l]
                        \/ /\ at[l] = "release" /\ on'[l] = on[l]
                           /\ reading[l] = "stale" \/ status[on[l]] \notin LoopUpdate(l).from
  <2>1. letter'[l] = letter[l] /\ \A j \in Job : Same(j)
    BY <1>5 DEF LoopGoesOn
  <2>2. ASSUME Walks(l), reading'[l] = "nothing"
        PROVE  at'[l] # "look" /\ (at'[l] = "return" => at[l] = "look" /\ LeaseHeld(l) /\ on'[l] = on[l])
    BY <2>2 DEF Walks, MovesTo
  <2>3. ASSUME at[l] \in LoopUpdating, MovesTo(l, LoopUpdate(l).lost)
        PROVE  at'[l] # "look" /\ (at'[l] = "return" => at[l] = "release" /\ on'[l] = on[l])
    <3>1. LoopUpdate(l).lost # "look" /\ (LoopUpdate(l).lost = "return" => at[l] = "release")
      BY <2>3 DEF LoopUpdate, LoopUpdating
    <3> QED
      BY <2>3, <3>1 DEF MovesTo
  <2> QED
    BY <1>5, <2>1, <2>2, <2>3 DEF LoopGoesOn
<1>6. \/ \E m \in Message : Receives(l, m)
      \/ Leaves(l) \/ LoopPut(l, on[l]) \/ LoopGoesOn(l)
      \/ Erases(l, on[l]) \/ WritesManifests(l, on[l]) \/ Fetches(l, on[l]) \/ StoresOutput(l, on[l])
  BY LoopSteps DEF LoopDoes
<1> QED
  BY <1>1, <1>2, <1>3, <1>4, <1>5, <1>6 DEF LoopSame, PlaceSame

LEMMA LoopKeepsLapses ==
  ASSUME Known, LapseInv, TypeInv', Slack + Lag = Beat + Margin, NEW l \in Loop, LoopNext(l)
  PROVE  LapseInv'
<1>0. /\ \A k \in Loop \ {l} : LoopSame(k)
      /\ \A k \in Loop : at[k] # "idle" => on[k] \in Job
      /\ \A k \in Loop : k \in Proc
      /\ \A k \in Loop : LoopKnows(k)
  BY LoopSteps DEF Known, TypeInv, ProcTypeOK, BusyWithJob, ControlInv
<1>1. ASSUME NEW j \in Job, ~LoopPut(l, j) \/ j # on[l] PROVE status'[j] = status[j] /\ silent'[j] = silent[j]
  BY <1>1, LoopSilence
<1>2. ASSUME NEW k \in Loop, k # l, at[k] \notin {"idle", "ack"}, NEW j \in Job, j = on[k],
             status[j] \in {QueuedFor(letter[k].task), InFlightFor(letter[k].task)} \/ status'[j] = InFlightFor(letter[k].task)
      PROVE  ~LoopPut(l, j) \/ j # on[l]
  <2> SUFFICES ASSUME LoopPut(l, j), j = on[l] PROVE FALSE
    OBVIOUS
  <2>1. /\ Told(letter[k].message, j, letter[k].task) /\ letter[k].message \in Message
        /\ ~Spent(letter[k].message) /\ letter[k].task \in Task
    BY <1>2, LoopTold DEF Task
  <2>2. letter[k].message = letter[l].message
    BY <1>2, <2>1, PutsUnderMessage
  <2>3. at[l] # "idle"
    BY DEF LoopPut, LoopUpdating
  <2> QED
    BY <1>2, <2>2, <2>3, TwoMessages DEF Known, InDoubt, Steady
<1>3. LeaseInv'
  <2> SUFFICES ASSUME NEW j \in Job, NEW m \in Message, NEW task \in Task,
                      Told(m, j, task)', status'[j] = InFlightFor(task), Unheld(m)'
               PROVE  silent'[j] + queue'[m].hidden + Margin >= Lease
    BY DEF LeaseInv, InFlightFor, Lease, Margin
  <2>1. Told(m, j, task)
    BY LoopMessages DEF Told, Known
  <2>2. CASE letter[l].message = m
    <3>1. at[l] # "idle" /\ at'[l] = "idle"
      BY <2>2, LoopGoes DEF Known, MessageInv, LetterInHand, Unheld
    <3>2. j = on[l] /\ task = letter[l].task
      BY <2>1, <2>2, <3>1, LoopTold DEF Told
    <3>3. status'[j] = status[j] /\ silent'[j] = silent[j]
      <4>1. ~LoopPut(l, j)
        BY <3>1 DEF LoopPut, LoopTurns
      <4> QED
        BY <1>1, <4>1
    <3>4. Sent(m)' /\ silent[j] \in Nat
      BY RowTimes DEF Told, Known
    <3>5. CASE at[l] = "return"
      <4>1. silent[j] + Margin >= Lease
        BY <3>2, <3>3, <3>5 DEF LapseInv, ReturnInv, NearlyOver
      <4>2. queue'[m].hidden \in Nat
        <5>1. queue'[m] \in Envelope
          BY <3>4 DEF TypeInv, QueueTypeOK, Sent, Envelope
        <5> QED
          BY <5>1, EnvelopeParts
      <4> QED
        BY <3>3, <3>4, <4>1, <4>2, LeaseTime
    <3>6. CASE at[l] # "return"
      <4>1. LoopCrashes(l)
        BY <2>2, <3>1, <3>4, <3>6, LoopLeaves DEF Sent
      <4>2. queue'[m] = queue[m]
        BY <4>1 DEF LoopCrashes
      <4>3. queue[m].hidden + (Beat + Margin) >= beat[l] + Visibility /\ beat[l] \in Nat /\ queue[m].hidden \in Nat
        BY <2>2, <3>1, Holding DEF Known, InDoubt, Steady, Hides, TypeInv, CloudWorkerTypeOK
      <4> QED
        BY <3>3, <3>4, <4>2, <4>3, LeaseTime
    <3> QED
      BY <3>5, <3>6
  <2>3. CASE letter[l].message # m
    <3>1. Unheld(m) /\ letter'[l].message # m
      BY <1>0, <2>3 DEF Unheld, LoopSame
    <3>2. queue'[m] = queue[m]
      BY <2>3, <3>1, LoopMail DEF Known
    <3>3. ~LoopPut(l, j) \/ j # on[l]
      <4>1. ~Spent(m)
        BY <3>1 DEF Spent, Unheld
      <4> QED
        BY <2>1, <2>3, <4>1, PutsUnderMessage
    <3> QED
      BY <1>1, <2>1, <3>1, <3>2, <3>3 DEF LapseInv, LeaseInv
  <2> QED
    BY <2>2, <2>3
<1>4. LookInv'
  <2> SUFFICES ASSUME NEW k \in Loop, at'[k] = "look", LeaseHeld(k)' PROVE silent'[on'[k]] + Margin >= Lease
    BY DEF LookInv, NearlyOver, Lease, Margin
  <2>1. ASSUME at[k] = "look", LoopSame(k) PROVE silent'[on'[k]] + Margin >= Lease
    <3>0. PICK j \in Job : j = on[k]
      BY <1>0, <2>1
    <3>1. on'[k] = j /\ letter'[k] = letter[k]
      BY <2>1, <3>0 DEF LoopSame, PlaceSame
    <3>2. status'[j] = InFlightFor(letter[k].task) /\ silent'[j] < Lease
      BY <3>1 DEF LeaseHeld, InFlightFor, Lease
    <3>3. ~LoopPut(l, j) \/ j # on[l]
      <4>1. CASE k = l
        BY <2>1, <4>1 DEF LoopPut, LoopUpdating
      <4>2. CASE k # l
        BY <1>2, <2>1, <3>0, <3>2, <4>2
      <4> QED
        BY <4>1, <4>2
    <3> QED
      BY <1>1, <2>1, <3>0, <3>1, <3>2, <3>3 DEF LapseInv, LookInv, LeaseHeld, NearlyOver
  <2>2. ASSUME NEW m \in Message, Receives(k, m), k = l PROVE silent'[on'[k]] + Margin >= Lease
    <3>1. Visible(m) /\ Unheld(m) /\ queue[m].says \in Job \X Task
      BY <2>2, VisibleUnheld DEF Receives, Visible, Sent, Known, TypeInv, QueueTypeOK
    <3>2. PICK j \in Job, task \in Task : queue[m].says = <<j, task>>
      BY <3>1
    <3>3. on'[l] = j /\ letter'[l].task = task
      BY <2>2, <3>2 DEF Receives
    <3>4. status'[j] = InFlightFor(task) /\ silent'[j] < Lease
      BY <2>2, <3>3 DEF LeaseHeld, InFlightFor, Lease
    <3>5. status'[j] = status[j] /\ silent'[j] = silent[j]
      BY <1>1, <2>2 DEF Receives, LoopPut, LoopUpdating
    <3>6. silent[j] + 0 + Margin >= Lease
      BY <3>1, <3>2, <3>4, <3>5 DEF LapseInv, LeaseInv, Told, Visible
    <3> QED
      BY <2>2, <3>3, <3>5, <3>6, RowTimes, LeaseTime DEF Known
  <2>3. CASE k = l
    BY <2>1, <2>2, <2>3, LoopGoes DEF Known
  <2>4. CASE k # l
    BY <1>0, <2>1, <2>4 DEF LoopSame, PlaceSame
  <2> QED
    BY <2>3, <2>4
<1>5. StaleInv'
  <2> SUFFICES ASSUME NEW k \in Loop, reading'[k] = "stale" PROVE status'[on'[k]] = "deleted"
    BY DEF StaleInv
  <2>1. ASSUME reading[k] = "stale", PlaceSame(k) PROVE status'[on'[k]] = "deleted"
    <3>1. at[k] # "idle" /\ status[on[k]] = "deleted"
      BY <1>0, <2>1 DEF LapseInv, StaleInv, LoopKnows, LoopUpdating
    <3>2. on[k] \in Job /\ on'[k] = on[k]
      BY <1>0, <2>1, <3>1 DEF PlaceSame
    <3> QED
      BY <3>1, <3>2, LoopTurnsRows DEF Known, Turns
  <2>2. CASE k = l
    <3>1. at[l] = "idle" => reading[l] = "nothing"
      BY <1>0 DEF LoopKnows, LoopUpdating
    <3> QED
      BY <2>1, <2>2, <3>1, LoopGoes DEF Known
  <2>3. CASE k # l
    <3>0. k \in Proc \ {l} /\ PlaceSame(k)
      BY <1>0, <2>3 DEF LoopSame
    <3>1. CASE reading[k] # "stale"
      <4>1. LoopPut(l, on[l]) /\ at[l] # "idle"
        BY <3>0, <3>1, LoopSteps
        DEF Known, Receives, LoopDoes, Erases, WritesManifests, Fetches, StoresOutput, LoopGoesOn, Leaves, ReadingsStay
      <4>2. reading[k] = "fresh" /\ on[k] = on[l]
        BY <3>0, <3>1, <4>1 DEF LoopPut, ReadingsAge
      <4>3. on[k] \in Job /\ (at[k] # "claim" => at[k] \in AtWork)
            /\ (at[k] = "claim" => status[on[k]] \in {QueuedFor(letter[k].task), InFlightFor(letter[k].task)})
        BY <4>2, FreshCounts
      <4>4. at[k] = "claim"
        BY <2>3, <4>1, <4>2, <4>3, Alone
      <4> QED
        BY <1>2, <2>3, <4>1, <4>2, <4>3, <4>4
    <3> QED
      BY <2>1, <3>0, <3>1
  <2> QED
    BY <2>2, <2>3
<1>6. ReturnInv'
  <2> SUFFICES ASSUME NEW k \in Loop, at'[k] = "return", status'[on'[k]] = InFlightFor(letter'[k].task)
               PROVE  silent'[on'[k]] + Margin >= Lease
    BY DEF ReturnInv, NearlyOver, InFlightFor, Lease, Margin
  <2>1. ASSUME at[k] = "return", LoopSame(k) PROVE silent'[on'[k]] + Margin >= Lease
    <3>0. PICK j \in Job : j = on[k]
      BY <1>0, <2>1
    <3>1. on'[k] = j /\ letter'[k] = letter[k] /\ status'[j] = InFlightFor(letter[k].task)
      BY <2>1, <3>0 DEF LoopSame, PlaceSame
    <3>2. ~LoopPut(l, j) \/ j # on[l]
      <4>1. CASE k = l
        BY <2>1, <4>1 DEF LoopPut, LoopUpdating
      <4>2. CASE k # l
        BY <1>2, <2>1, <3>0, <3>1, <4>2
      <4> QED
        BY <4>1, <4>2
    <3> QED
      BY <1>1, <2>1, <3>0, <3>1, <3>2 DEF LapseInv, ReturnInv, NearlyOver
  <2>2. CASE k = l
    <3>0. LoopKnows(l)
      BY <1>0
    <3>1. ASSUME at[l] = "look", LeaseHeld(l), on'[l] = on[l], letter'[l] = letter[l]
          PROVE  silent'[on'[l]] + Margin >= Lease
      <4>1. ~LoopPut(l, on[l]) /\ on[l] \in Job
        BY <1>0, <3>1 DEF LoopPut, LoopUpdating
      <4> QED
        BY <1>1, <3>1, <4>1 DEF LapseInv, LookInv, NearlyOver
    <3>2. ASSUME at[l] = "release", on'[l] = on[l], letter'[l].task = letter[l].task, LoopPut(l, on[l])
          PROVE  FALSE
      BY <2>2, <3>0, <3>2, LoopFinds, TasksApart DEF Known, Advances, LoopKnows
    <3>3. ASSUME at[l] = "release", on'[l] = on[l], letter'[l].task = letter[l].task, \A j \in Job : Same(j),
                 reading[l] = "stale" \/ status[on[l]] \notin LoopUpdate(l).from
          PROVE  FALSE
      <4>1. letter[l].task = "detect" /\ LoopUpdate(l).from = {"detecting"} /\ on[l] \in Job
        BY <1>0, <3>0, <3>3, LoopFrom DEF Known, LoopKnows, LoopUpdating
      <4>2. status[on[l]] = "detecting"
        BY <2>2, <3>3, <4>1, TasksApart DEF Same, OnlyStatus
      <4> QED
        BY <3>3, <4>1, <4>2 DEF LapseInv, StaleInv
    <3> QED
      BY <2>1, <2>2, <3>1, <3>2, <3>3, LoopGoes DEF Known
  <2>3. CASE k # l
    BY <1>0, <2>1, <2>3 DEF LoopSame, PlaceSame
  <2> QED
    BY <2>2, <2>3
<1> QED
  BY <1>3, <1>4, <1>5, <1>6 DEF LapseInv

LEMMA TimeAges ==
  ASSUME TypeInv, SqsNext \/ Tick \/ UNCHANGED vars, NEW j \in Job
  PROVE  /\ silent'[j] \in Nat
         /\ silent'[j] >= silent[j] \/ silent'[j] >= Lease
         /\ Tick => silent'[j] >= silent[j] + 1 \/ silent'[j] >= Lease
<1>1. silent[j] \in Nat /\ silent[j] <= Patience
  BY RowTimes
<1>2. CASE Tick
  <2>1. silent'[j] = IF silent[j] < Patience THEN silent[j] + 1 ELSE Patience
    BY <1>2 DEF Tick, Ages
  <2> QED
    BY <1>1, <2>1, LeaseTime
<1>3. CASE ~Tick
  <2>1. silent' = silent
    BY <1>3 DEF SqsNext, vars, tableVars
  <2> QED
    BY <1>1, <1>3, <2>1
<1> QED
  BY <1>2, <1>3

LEMMA TimeUnhides ==
  ASSUME TypeInv, ~Happened("delivered_twice")', SqsNext \/ Tick \/ UNCHANGED vars, NEW m \in Message, Sent(m)'
  PROVE  /\ Sent(m) /\ queue'[m].says = queue[m].says /\ queue'[m].received = queue[m].received
         /\ queue'[m].hidden \in Nat /\ queue[m].hidden \in Nat
         /\ queue'[m].hidden = queue[m].hidden \/ (Tick /\ queue'[m].hidden + 1 >= queue[m].hidden)
<1>0. queue \in [Message -> {NoMessage} \cup Envelope] /\ NoMessage \notin Envelope
  BY DEF TypeInv, QueueTypeOK, Envelope
<1>1. Sent(m) /\ queue'[m].says = queue[m].says /\ queue[m] \in Envelope /\ queue[m].hidden \in 0 .. Visibility
      /\ queue[m].received \in Nat
  BY <1>0, OtherMessages, EnvelopeParts DEF Sent
<1>2. CASE Tick
  <2>1. queue'[m] = IF queue[m].hidden > 0 THEN [queue[m] EXCEPT !.hidden = @ - 1] ELSE queue[m]
    BY <1>1, <1>2 DEF Tick, QueueAges
  <2>2. LET e == [queue[m] EXCEPT !.hidden = @ - 1]
        IN  e.hidden = queue[m].hidden - 1 /\ e.received = queue[m].received
    BY <1>1 DEF Envelope
  <2> QED
    BY <1>1, <1>2, <2>1, <2>2
<1>3. ASSUME NEW n \in Message, DeadLetter(n) PROVE queue'[m] = queue[m]
  BY <1>0, <1>3 DEF DeadLetter, Sent
<1>4. ASSUME NEW n \in Message, Fault("delivered_twice") PROVE FALSE
  BY <1>4, FaultHappens DEF TypeInv
<1>5. CASE UNCHANGED vars
  BY <1>1, <1>5 DEF vars
<1> QED
  BY <1>1, <1>2, <1>3, <1>4, <1>5 DEF SqsNext

LEMMA TimeKeepsLapses ==
  ASSUME Known, LapseInv, ~Happened("delivered_twice")', SqsNext \/ Tick \/ UNCHANGED vars
  PROVE  LapseInv'
<1>1. /\ at' = at /\ on' = on /\ reading' = reading /\ status' = status /\ letter' = letter
  BY DEF SqsNext, Tick, vars, tableVars, processVars, loopVars
<1>2. ASSUME NEW j \in Job
      PROVE  /\ silent'[j] \in Nat
             /\ silent'[j] >= silent[j] \/ silent'[j] >= Lease
             /\ Tick => silent'[j] >= silent[j] + 1 \/ silent'[j] >= Lease
  BY TimeAges DEF Known
<1>3. ASSUME NEW m \in Message, Sent(m)'
      PROVE  /\ Sent(m) /\ queue'[m].says = queue[m].says
             /\ queue'[m].hidden \in Nat /\ queue[m].hidden \in Nat
             /\ queue'[m].hidden = queue[m].hidden \/ (Tick /\ queue'[m].hidden + 1 >= queue[m].hidden)
  BY <1>3, TimeUnhides DEF Known
<1>4. LeaseInv'
  <2> SUFFICES ASSUME NEW j \in Job, NEW m \in Message, NEW task \in Task,
                      Told(m, j, task)', status'[j] = InFlightFor(task), Unheld(m)'
               PROVE  silent'[j] + queue'[m].hidden + Margin >= Lease
    BY DEF LeaseInv, InFlightFor, Lease, Margin
  <2>1. Told(m, j, task) /\ Unheld(m) /\ Sent(m)'
    BY <1>1, <1>3 DEF Told, Unheld
  <2>2. silent[j] + queue[m].hidden + Margin >= Lease
    BY <1>1, <2>1 DEF LapseInv, LeaseInv
  <2>3. silent[j] \in Nat
    BY RowTimes DEF Known
  <2> QED
    BY <1>2, <1>3, <2>1, <2>2, <2>3, LeaseTime
<1>5. ASSUME NEW j \in Job, NearlyOver(j) PROVE silent'[j] + Margin >= Lease
  BY <1>2, <1>5, RowTimes, LeaseTime DEF Known, NearlyOver
<1>6. LookInv'
  <2> SUFFICES ASSUME NEW l \in Loop, at[l] = "look", LeaseHeld(l)' PROVE silent'[on[l]] + Margin >= Lease
    BY <1>1 DEF LookInv, NearlyOver, Lease, Margin
  <2>1. PICK j \in Job : j = on[l]
    BY DEF Known, TypeInv, ProcTypeOK, BusyWithJob
  <2>2. status[j] = InFlightFor(letter[l].task) /\ silent'[j] < Lease
    BY <1>1, <2>1 DEF LeaseHeld, InFlightFor, Lease
  <2>3. silent[j] < Lease
    BY <1>2, <2>2, RowTimes, LeaseTime DEF Known
  <2> QED
    BY <1>5, <2>1, <2>2, <2>3 DEF LapseInv, LookInv, LeaseHeld
<1>7. StaleInv' /\ ReturnInv'
  <2>1. StaleInv'
    BY <1>1 DEF LapseInv, StaleInv
  <2>2. \A l \in Loop : at[l] = "return" => on[l] \in Job
    BY DEF Known, TypeInv, ProcTypeOK, BusyWithJob
  <2>3. ReturnInv'
    <3> SUFFICES ASSUME NEW l \in Loop, at[l] = "return", status[on[l]] = InFlightFor(letter[l].task)
                 PROVE  silent'[on[l]] + Margin >= Lease
      BY <1>1 DEF ReturnInv, NearlyOver, InFlightFor, Lease, Margin
    <3> QED
      BY <1>5, <2>2 DEF LapseInv, ReturnInv
  <2> QED
    BY <2>1, <2>3
<1> QED
  BY <1>4, <1>6, <1>7 DEF LapseInv

LEMMA LapseKept ==
  ASSUME Calm
  PROVE  Spec /\ []OneReviewAtATime => []LapseInv
<1>1. Init => LapseInv
  <2> SUFFICES ASSUME Init PROVE LapseInv
    OBVIOUS
  <2>1. /\ \A l \in Loop : at[l] = "idle" /\ reading[l] = "nothing"
        /\ \A m \in Message : ~Sent(m)
    BY DEF Init, TableInit, QueueInit, Sent
  <2> QED
    BY <2>1 DEF LapseInv, LeaseInv, LookInv, StaleInv, ReturnInv, Told
<1>2. Known /\ Known' /\ Counted /\ LapseInv /\ [Next]_vars => LapseInv'
  <2> SUFFICES ASSUME Known, Known', Counted, LapseInv, [Next]_vars PROVE LapseInv'
    OBVIOUS
  <2>1. Slack + Lag = Beat + Margin
    BY CalmDoubt DEF Known
  <2>2. TypeInv' /\ ~InDoubt' /\ ~Happened("delivered_twice")'
    BY DEF Known, InDoubt
  <2> QED
    BY <2>1, <2>2, CallKeepsLapses, LoopKeepsLapses, TimeKeepsLapses DEF Next
<1> QED
  BY <1>1, <1>2, CalmKnown, CountedKept, PTL DEF Spec

-----------------------------------------------------------------------------
(* Deliveries.  A fault costs a message two of them at most: the one that  *)
(* the fault ends, and the next one, if the lease of the row outlives the  *)
(* loop that died.  No delivery is lost in another way.                    *)

\* A loop has not given the message up, and is not going to turn it away.
Keeps(l, m) ==
  letter[l].message = m /\ at[l] \notin {"release", "return"} /\ ~(at[l] = "look" /\ LeaseHeld(l))

Kept(m) == \E l \in Loop : Keeps(l, m)

\* It will be visible before the lease of its row is over.
Bounces(m) == Unheld(m) /\ \E j \in Job, task \in Task :
  Told(m, j, task) /\ status[j] = InFlightFor(task) /\ silent[j] + queue[m].hidden < Lease

CountInv == \A m \in Message : Sent(m) =>
  /\ queue[m].received <= 2 * FaultsSoFar + 1
  /\ Kept(m) \/ queue[m].received <= 2 * FaultsSoFar
  /\ Bounces(m) => queue[m].received + 1 <= 2 * FaultsSoFar

\* A loop gives up for nothing but the deletion of its job.
LostInv == \A l \in Loop :
  at[l] = "lost" \/ (at[l] = "fail" /\ why[l] = "cancelled") => status[on[l]] = "deleted"

Carried(j) ==
  \/ \E c \in Client : at[c] = "send" /\ on[c] = j /\ status[j] = QueuedFor(TaskOf(c))
  \/ \E m \in Message, task \in Task :
       Told(m, j, task) /\ ~Spent(m) /\ status[j] \in {QueuedFor(task), InFlightFor(task)}

CarryInv == \A j \in Job : status[j] \in Queued \cup InFlight => Carried(j)

-----------------------------------------------------------------------------
(* How the deliveries are counted.                                         *)

\* A job is handed back only when the model is down.
LEMMA ReleasesAreFaults ==
  ASSUME TypeInv, NEW l \in Loop, LoopNext(l), at[l] \notin {"idle", "release"}, at'[l] = "release"
  PROVE  Fault("model_down")
<1>0. l \in Proc /\ at \in [Proc -> Step]
  BY DEF TypeInv, ProcTypeOK
<1>1. CASE LoopReads(l) \/ LoopLoses(l) \/ LoopPuts(l)
  <2>1. at[l] \in LoopUpdating
    BY <1>1 DEF LoopReads, LoopLoses, LoopPuts
  <2>2. LoopUpdate(l).lost # "release" /\ LoopUpdate(l).done # "release"
    <3> USE DEF LoopUpdate
    <3>1. CASE at[l] \in {"claim", "handoff"}
      BY <3>1 DEF AfterClaim, AfterHandOff
    <3>2. CASE at[l] \in {"pages", "progress", "findings", "complete"}
      BY <3>2
    <3>3. CASE at[l] \in {"review", "failed", "release"}
      BY <3>3
    <3> QED
      BY <2>1, <3>1, <3>2, <3>3 DEF LoopUpdating
  <2>3. at'[l] \in {at[l], LoopUpdate(l).lost, LoopUpdate(l).done}
    BY <1>0, <1>1 DEF LoopReads, LoopLoses, LoopPuts, UpdateReads, PutFails, Puts, Goto
  <2> QED
    BY <2>2, <2>3
<1>2. ASSUME NEW step, Proceeds(l, step) PROVE step = "release"
  BY <1>0, <1>2 DEF Proceeds, Goto
<1>3. ~LooksAtRow(l) /\ ~ReportsPage(l) /\ ~Detected(l) /\ ~PutsManifests(l) /\ ~FetchesManifest(l) /\ ~Rendered(l)
  <2>1. (IF LeaseHeld(l) THEN "return" ELSE "claim") # "release"
    OBVIOUS
  <2>2. ~LooksAtRow(l)
    BY <1>2, <2>1 DEF LooksAtRow
  <2> QED
    BY <1>2, <2>2 DEF ReportsPage, Detected, PutsManifests, FetchesManifest, Rendered
<1>4. ~PutsOutput(l) /\ ~LostRace(l) /\ ~Cancelled(l) /\ ~ManifestGone(l) /\ ~DocumentFails(l)
  BY <1>2 DEF PutsOutput, LostRace, Cancelled, ManifestGone, DocumentFails, Raises
<1>5. ~Fails(l)
  <2>1. PICK step : step = CASE status[on[l]] \in {"deleted", "complete"} \/ why[l] = "cancelled" -> "ack"
                             [] status[on[l]] = "redacting" /\ why[l] = "invalid" /\ ~auto[on[l]] -> "review"
                             [] OTHER -> "failed"
    OBVIOUS
  <2>2. step # "release"
    BY <2>1
  <2> QED
    BY <1>2, <2>1, <2>2 DEF Fails
<1>6. ~Heartbeat(l)
  BY DEF Heartbeat, processVars
<1>7. ~LoopStarts(l)
  BY DEF LoopStarts, ReceiveMessage, Begins
<1>8. ~AcknowledgesMessage(l) /\ ~ReturnsMessage(l)
  BY <1>2 DEF AcknowledgesMessage, ReturnsMessage
<1>9. ~LoopCrashes(l)
  BY <1>0 DEF LoopCrashes, Dies, Goto
<1> QED
  BY <1>1, <1>3, <1>4, <1>5, <1>6, <1>7, <1>8, <1>9 DEF LoopNext, LoopContinues, LoopFaults, ModelDown

\* A step that is no reception keeps the count: it is a fault, or lets nobody give
\* the message up and makes it no earlier.
LEMMA CountStays ==
  ASSUME TypeInv, CountInv, FaultsSoFar \in Nat, FaultsSoFar' \in Nat, FaultsSoFar <= FaultsSoFar',
         NEW m \in Message, Sent(m), queue'[m].received = queue[m].received,
         \/ FaultsSoFar' = FaultsSoFar + 1
         \/ (Kept(m) => Kept(m)') /\ (Bounces(m)' => Bounces(m))
  PROVE  /\ queue'[m].received <= 2 * FaultsSoFar' + 1
         /\ Kept(m)' \/ queue'[m].received <= 2 * FaultsSoFar'
         /\ Bounces(m)' => queue'[m].received + 1 <= 2 * FaultsSoFar'
<1>1. PICK n \in Nat, r \in Nat, i \in Nat :
        n = FaultsSoFar /\ r = FaultsSoFar' /\ i = queue[m].received
  BY MessageTimes
<1>2. /\ i <= 2 * n + 1 /\ n <= r
      /\ Kept(m) \/ i <= 2 * n
      /\ Bounces(m) => i + 1 <= 2 * n
      /\ r = n + 1 \/ ((Kept(m) => Kept(m)') /\ (Bounces(m)' => Bounces(m)))
  BY <1>1 DEF CountInv
<1>3. 2 * n <= 2 * r /\ (r = n + 1 => i + 1 <= 2 * r)
  BY <1>2
<1>4. i <= 2 * r + 1 /\ (Kept(m)' \/ i <= 2 * r) /\ (Bounces(m)' => i + 1 <= 2 * r)
  <2>1. CASE r = n + 1
    BY <1>2, <1>3, <2>1
  <2>2. CASE r # n + 1
    BY <1>2, <1>3, <2>2
  <2> QED
    BY <2>1, <2>2
<1> QED
  BY <1>1, <1>4

\* A row whose message another holds, or nobody, is not touched by a loop.
LEMMA RowWaits ==
  ASSUME Known, NEW l \in Loop, LoopNext(l), NEW j \in Job, NEW m \in Message, NEW task \in Task,
         Told(m, j, task), ~Spent(m), letter[l].message # m, status'[j] = InFlightFor(task)
  PROVE  status'[j] = status[j] /\ silent'[j] = silent[j]
BY LoopSilence, PutsUnderMessage

\* A loop that keeps its message goes on keeping it while only others move.
LEMMA KeepsOn ==
  ASSUME Known, NEW k \in Loop, NEW m \in Message, Keeps(k, m), LoopSame(k),
         \A j \in Job : status'[j] = InFlightFor(letter[k].task) /\ silent'[j] < Lease /\ j = on[k] =>
           status'[j] = status[j] /\ silent[j] < Lease
  PROVE  Kept(m)'
<1>1. letter'[k] = letter[k] /\ at'[k] = at[k] /\ on'[k] = on[k]
  BY DEF LoopSame, PlaceSame
<1>2. at[k] # "idle" /\ on[k] \in Job
  BY DEF Keeps, Known, MessageInv, LetterInHand, TypeInv, ProcTypeOK, BusyWithJob
<1>3. LeaseHeld(k)' => LeaseHeld(k)
  BY <1>1, <1>2 DEF LeaseHeld, InFlightFor, Lease
<1> QED
  BY <1>1, <1>3 DEF Kept, Keeps

LEMMA CallKeepsCount ==
  ASSUME Known, TypeInv', ~InDoubt', CountInv, Grows, NEW c \in Client, ClientNext(c)
  PROVE  CountInv'
<1> SUFFICES ASSUME NEW m \in Message, Sent(m)'
             PROVE  /\ queue'[m].received <= 2 * FaultsSoFar' + 1
                    /\ Kept(m)' \/ queue'[m].received <= 2 * FaultsSoFar'
                    /\ Bounces(m)' => queue'[m].received + 1 <= 2 * FaultsSoFar'
  BY DEF CountInv
<1>0. FaultsSoFar \in Nat /\ FaultsSoFar' \in Nat /\ FaultsSoFar <= FaultsSoFar'
  BY FaultsAdd DEF Known, TypeInv
<1>1. \A l \in Loop : LoopSame(l)
  BY CallSteps DEF Known
<1>2. ASSUME NEW j \in Job, NEW task \in Task, status'[j] = InFlightFor(task)
      PROVE  status'[j] = status[j] /\ silent'[j] = silent[j]
  BY <1>2, CallRows, TasksApart DEF InFlight, Task
<1>3. CASE SentBy(c, m)
  <2>1. queue'[m] = [says |-> <<on[c], TaskOf(c)>>, hidden |-> 0, received |-> 0]
    BY <1>3 DEF SentBy
  <2>2. ~Bounces(m)'
    <3> SUFFICES ASSUME NEW j \in Job, NEW task \in Task, Told(m, j, task)', status'[j] = InFlightFor(task)
                 PROVE  FALSE
      BY DEF Bounces, InFlightFor
    <3>1. Sending(c, j, task)
      BY <1>3, <2>1 DEF Told, Sending, SentBy
    <3>2. status[j] \notin InFlight
      BY <3>1 DEF Known, TokenInv, DetectTokens, RedactTokens, InFlight, Task
    <3> QED
      BY <1>2, <3>2, TasksApart DEF InFlight, Task
  <2>3. PICK n \in Nat : n = FaultsSoFar'
    BY <1>0
  <2>4. queue'[m].received = 0
    BY <2>1
  <2>5. 0 <= 2 * n /\ 0 <= 2 * n + 1
    BY Doubling
  <2> QED
    BY <2>2, <2>3, <2>4, <2>5
<1>4. CASE queue'[m] = queue[m]
  <2>1. Kept(m) => Kept(m)'
    <3> SUFFICES ASSUME NEW k \in Loop, Keeps(k, m) PROVE Kept(m)'
      BY DEF Kept
    <3>1. letter[k].task \in Task
      BY Numbers DEF Known, Task
    <3> QED
      BY <1>1, <1>2, <3>1, KeepsOn
  <2>2. Bounces(m)' => Bounces(m)
    <3> SUFFICES ASSUME Unheld(m)', NEW j \in Job, NEW task \in Task, Told(m, j, task)',
                        status'[j] = InFlightFor(task), silent'[j] + queue'[m].hidden < Lease
                 PROVE  Bounces(m)
      BY DEF Bounces, InFlightFor, Lease
    <3> QED
      BY <1>1, <1>2, <1>4 DEF Bounces, Told, Sent, Unheld, LoopSame
  <2> QED
    BY <1>0, <1>4, <2>1, <2>2, CountStays DEF Sent, Known
<1> QED
  BY <1>3, <1>4, CallMessages DEF Known

\* A delivery that counts: it finds the lease over, or a fault has paid for it.
LEMMA ReceptionCounts ==
  ASSUME Known, CountInv, FaultsSoFar \in Nat, FaultsSoFar' = FaultsSoFar,
         NEW l \in Loop, LoopNext(l), NEW m \in Message, Receives(l, m)
  PROVE  /\ queue'[m].received <= 2 * FaultsSoFar' + 1
         /\ Kept(m)' \/ queue'[m].received <= 2 * FaultsSoFar'
         /\ ~Bounces(m)'
<1>1. /\ at[l] = "idle" /\ at'[l] = "look" /\ letter'[l].message = m /\ Visible(m) /\ Sent(m)
      /\ queue[m].says \in Job \X Task /\ letter'[l].task = queue[m].says[2] /\ on'[l] = queue[m].says[1]
  BY DEF Receives, Visible, Sent, Known, TypeInv, QueueTypeOK
<1>2. Unheld(m)
  BY <1>1, VisibleUnheld
<1>3. queue'[m].received = queue[m].received + 1 /\ queue[m].received \in Nat
  <2>1. queue \in [Message -> {NoMessage} \cup Envelope] /\ queue[m] \in Envelope /\ queue[m].received \in Nat
    BY <1>1, MessageTimes DEF Known, TypeInv, QueueTypeOK, Envelope
  <2> QED
    BY <2>1 DEF Receives, Receive, Envelope
<1>4. ~Kept(m) /\ ~Unheld(m)'
  BY <1>1, <1>2 DEF Kept, Keeps, Unheld
<1>5. LeaseHeld(l)' => Bounces(m)
  <2> SUFFICES ASSUME LeaseHeld(l)' PROVE Bounces(m)
    OBVIOUS
  <2>1. PICK j \in Job, task \in Task : queue[m].says = <<j, task>>
    BY <1>1
  <2>2. on'[l] = j /\ letter'[l].task = task
    BY <1>1, <2>1
  <2>3. status'[j] = InFlightFor(task) /\ silent'[j] < Lease
    BY <2>2 DEF LeaseHeld, InFlightFor, Lease
  <2>4. status'[j] = status[j] /\ silent'[j] = silent[j]
    BY <1>1, LoopSilence
  <2>5. silent[j] + queue[m].hidden < Lease
    BY <1>1, <2>3, <2>4, RowTimes, LeaseTime DEF Visible, Known
  <2> QED
    BY <1>1, <1>2, <2>1, <2>3, <2>4, <2>5 DEF Bounces, Told
<1>6. ~LeaseHeld(l)' => Kept(m)'
  BY <1>1 DEF Kept, Keeps
<1>7. PICK n \in Nat, i \in Nat : n = FaultsSoFar /\ i = queue[m].received
  BY <1>3
<1>8. i <= 2 * n /\ (LeaseHeld(l)' => i + 1 <= 2 * n)
  BY <1>1, <1>4, <1>5, <1>7 DEF CountInv
<1>9. queue'[m].received = i + 1 /\ FaultsSoFar' = n
  BY <1>3, <1>7
<1>10. i + 1 <= 2 * n + 1 /\ (Kept(m)' \/ i + 1 <= 2 * n)
  BY <1>6, <1>8
<1> QED
  BY <1>4, <1>9, <1>10 DEF Bounces

\* What an idle loop does, and what one does that hands its message back.
LEMMA ReceptionIsNoFault ==
  ASSUME TypeInv, NEW l \in Loop, LoopNext(l), at[l] = "idle"
  PROVE  UNCHANGED faults
<1>1. LoopStarts(l)
  BY DEF LoopNext, LoopContinues, LoopFaults, Heartbeat, LoopReads, LoopPuts, LoopLoses, LoopUpdating,
     LooksAtRow, ReportsPage, Detected, PutsManifests, FetchesManifest, Rendered, PutsOutput, LostRace,
     Cancelled, ManifestGone, Fails, AcknowledgesMessage, ReturnsMessage, DocumentFails, ModelDown,
     LoopCrashes, Pipeline
<1> QED
  BY <1>1 DEF LoopStarts, ReceiveMessage

LEMMA ReturnedHides ==
  ASSUME Known, NEW l \in Loop, LoopNext(l), at[l] = "return", at'[l] = "idle", ~LoopCrashes(l)
  PROVE  queue'[letter[l].message].hidden = Delay
<1>0. l \in Proc /\ at \in [Proc -> Step]
  BY DEF Known, TypeInv, ProcTypeOK
<1>1. ReturnsMessage(l)
  BY <1>0 DEF LoopNext, LoopContinues, LoopFaults, Heartbeat, LoopReads, LoopPuts, LoopLoses, LoopUpdating,
     LooksAtRow, ReportsPage, Detected, PutsManifests, FetchesManifest, Rendered, PutsOutput, LostRace,
     Cancelled, ManifestGone, Fails, AcknowledgesMessage, DocumentFails, ModelDown, Raises,
     LoopStarts, ReceiveMessage, Begins, Pipeline
<1>2. PICK n \in Message : n = letter[l].message
  BY LoopTold
<1>3. Handled(n, letter[l].handle) /\ queue[n] \in Envelope /\ queue \in [Message -> {NoMessage} \cup Envelope]
  BY <1>2, LoopTold, MessageTimes DEF Holds, Handled, Known, TypeInv, QueueTypeOK, Envelope
<1>4. queue'[n] = [queue[n] EXCEPT !.hidden = Delay]
  BY <1>1, <1>2, <1>3 DEF ReturnsMessage, Release, Hide
<1> QED
  BY <1>2, <1>3, <1>4 DEF Envelope

LEMMA LoopKeepsCount ==
  ASSUME Known, LapseInv, TypeInv', CountInv, Grows, Margin <= Delay, NEW l \in Loop, LoopNext(l)
  PROVE  CountInv'
<1> SUFFICES ASSUME NEW m \in Message, Sent(m)'
             PROVE  /\ queue'[m].received <= 2 * FaultsSoFar' + 1
                    /\ Kept(m)' \/ queue'[m].received <= 2 * FaultsSoFar'
                    /\ Bounces(m)' => queue'[m].received + 1 <= 2 * FaultsSoFar'
  BY DEF CountInv
<1>0. FaultsSoFar \in Nat /\ FaultsSoFar' \in Nat /\ FaultsSoFar <= FaultsSoFar'
  BY FaultsAdd DEF Known, TypeInv
<1>1. /\ \A k \in Loop \ {l} : LoopSame(k)
      /\ \A k \in Loop : letter[k].message = m => at[k] # "idle" /\ on[k] \in Job /\ letter[k].task \in Task
      /\ Sent(m) /\ queue'[m].says = queue[m].says
  <2>1. \A k \in Loop \ {l} : LoopSame(k)
    BY LoopSteps DEF Known
  <2>2. \A k \in Loop : letter[k].message = m => at[k] # "idle"
    BY DEF Known, MessageInv, LetterInHand
  <2>3. \A k \in Loop : at[k] # "idle" => on[k] \in Job /\ letter[k].task \in Task
    BY LoopTold DEF Task
  <2> QED
    BY <2>1, <2>2, <2>3, LoopMessages DEF Known
<1>2. ASSUME letter[l].message = m, at[l] \notin {"release", "return"}, at'[l] \in {"idle", "release"}
      PROVE  FaultsSoFar' = FaultsSoFar + 1
  <2>1. CASE at'[l] = "idle"
    <3>1. LoopCrashes(l)
      BY <1>1, <1>2, <2>1, LoopLeaves DEF Sent
    <3> QED
      BY <3>1, FaultCounts DEF LoopCrashes, Known, TypeInv
  <2>2. CASE at'[l] = "release"
    BY <1>1, <1>2, <2>2, ReleasesAreFaults, FaultCounts DEF Known, TypeInv
  <2> QED
    BY <1>2, <2>1, <2>2
<1>3. CASE Receives(l, m)
  <2>1. FaultsSoFar' = FaultsSoFar
    <3>1. UNCHANGED faults
      BY <1>3, ReceptionIsNoFault DEF Known, Receives
    <3> QED
      BY <3>1 DEF FaultsSoFar
  <2> QED
    BY <1>0, <1>3, <2>1, ReceptionCounts
<1>4. ASSUME queue'[m].received = queue[m].received, FaultsSoFar' # FaultsSoFar + 1, NEW k \in Loop, Keeps(k, m)
      PROVE  Kept(m)'
  <2>1. letter[k].message = m /\ at[k] \notin {"idle", "release", "return"} /\ on[k] \in Job /\ letter[k].task \in Task
    BY <1>1, <1>4 DEF Keeps
  <2>2. CASE k # l
    <3>1. ASSUME NEW j \in Job, j = on[k], status'[j] = InFlightFor(letter[k].task), at[k] = "look"
          PROVE  status'[j] = status[j] /\ silent'[j] = silent[j]
      <4>1. Told(m, j, letter[k].task) /\ ~Spent(m)
        BY <2>1, <3>1, LoopTold
      <4>2. letter[l].message # m
        <5>1. at[l] = "idle" => letter[l].message = NoMessage
          BY DEF Known, MessageInv, LetterInHand
        <5> QED
          BY <2>1, <2>2, <5>1, TwoMessages DEF Known, InDoubt, Steady
      <4> QED
        BY <2>1, <3>1, <4>1, <4>2, RowWaits
    <3>2. LoopSame(k)
      BY <1>1, <2>2
    <3>3. CASE at[k] = "look"
      BY <1>4, <2>1, <3>1, <3>2, <3>3, KeepsOn
    <3>4. CASE at[k] # "look"
      BY <2>1, <3>2, <3>4 DEF Kept, Keeps, LoopSame, PlaceSame
    <3> QED
      BY <3>3, <3>4
  <2>3. CASE k = l
    <3>1. at'[l] \notin {"idle", "release"} /\ letter'[l].message = m
      BY <1>2, <1>4, <2>1, <2>3, LoopGoes DEF Known
    <3>2. at'[l] # "return"
      BY <1>4, <2>1, <2>3, LoopGoes DEF Known, Keeps
    <3>3. CASE at'[l] = "look"
      <4>1. at[l] = "look" /\ LoopSame(l)
        BY <2>1, <2>3, <3>3, LoopGoes DEF Known, Receives
      <4>2. \A j \in Job : status'[j] = status[j] /\ silent'[j] = silent[j]
        BY <4>1, LoopSilence DEF LoopPut, LoopUpdating
      <4> QED
        BY <1>4, <2>3, <4>1, <4>2, KeepsOn
    <3>4. CASE at'[l] # "look"
      BY <3>1, <3>2, <3>4 DEF Kept, Keeps
    <3> QED
      BY <3>3, <3>4
  <2> QED
    BY <2>2, <2>3
<1>5. ASSUME FaultsSoFar' # FaultsSoFar + 1, Unheld(m)', NEW j \in Job, NEW task \in Task, Told(m, j, task)',
             status'[j] = InFlightFor(task), silent'[j] + queue'[m].hidden < Lease
      PROVE  Bounces(m)
  <2>1. Told(m, j, task)
    BY <1>1, <1>5 DEF Told
  <2>2. CASE letter[l].message = m
    <3>1. at[l] # "idle" /\ at'[l] = "idle"
      BY <1>1, <1>5, <2>2, LoopGoes DEF Known, Unheld
    <3>2. j = on[l] /\ task = letter[l].task
      BY <2>1, <2>2, <3>1, LoopTold DEF Told
    <3>3. ~LoopPut(l, j)
      BY <3>1 DEF LoopPut, LoopTurns
    <3>4. status'[j] = status[j] /\ silent'[j] = silent[j]
      BY <3>3, LoopSilence
    <3>5. at[l] \in {"release", "return"}
      BY <1>2, <1>5, <2>2, <3>1
    <3>r. ~LoopCrashes(l)
      BY <1>5, FaultCounts DEF LoopCrashes, Known, TypeInv
    <3>6. at[l] = "return"
      <4>1. at[l] # "release" \/ LoopCrashes(l)
        BY <3>1, LoopLeaves
      <4> QED
        BY <3>5, <3>r, <4>1
    <3>7. silent[j] + Margin >= Lease
      BY <1>5, <3>2, <3>4, <3>6 DEF LapseInv, ReturnInv, NearlyOver
    <3>8. queue'[m].hidden = Delay
      BY <2>2, <3>1, <3>6, <3>r, ReturnedHides
    <3> QED
      BY <1>5, <3>4, <3>7, <3>8, RowTimes, LeaseTime DEF Known
  <2>3. CASE letter[l].message # m
    <3>1. Unheld(m) /\ letter'[l].message # m
      BY <1>1, <1>5, <2>3 DEF Unheld, LoopSame
    <3>2. queue'[m] = queue[m]
      BY <2>3, <3>1, LoopMail DEF Known
    <3>3. ~Spent(m)
      BY <3>1 DEF Spent, Unheld
    <3>4. status'[j] = status[j] /\ silent'[j] = silent[j]
      BY <1>5, <2>1, <2>3, <3>3, RowWaits
    <3> QED
      BY <1>5, <2>1, <3>1, <3>2, <3>4 DEF Bounces
  <2> QED
    BY <2>2, <2>3
<1>6. CASE queue'[m].received = queue[m].received
  <2>1. FaultsSoFar' # FaultsSoFar + 1 => (Kept(m) => Kept(m)')
    BY <1>4, <1>6 DEF Kept
  <2>2. FaultsSoFar' # FaultsSoFar + 1 => (Bounces(m)' => Bounces(m))
    BY <1>5 DEF Bounces, InFlightFor, Lease
  <2> QED
    BY <1>0, <1>1, <1>6, <2>1, <2>2, CountStays DEF Known
<1>7. CASE letter'[l].message = m /\ at'[l] = "look" /\ at[l] = "idle"
  <2>1. PICK n \in Message : Receives(l, n)
    BY <1>7, LoopGoes DEF Known
  <2>2. n = m
    BY <1>7, <2>1 DEF Receives
  <2> QED
    BY <1>3, <2>1, <2>2
<1> QED
  BY <1>6, <1>7, LoopMail DEF Known

LEMMA TimeKeepsCount ==
  ASSUME Known, CountInv, Grows, TypeInv', ~Happened("delivered_twice")', SqsNext \/ Tick \/ UNCHANGED vars
  PROVE  CountInv'
<1> SUFFICES ASSUME NEW m \in Message, Sent(m)'
             PROVE  /\ queue'[m].received <= 2 * FaultsSoFar' + 1
                    /\ Kept(m)' \/ queue'[m].received <= 2 * FaultsSoFar'
                    /\ Bounces(m)' => queue'[m].received + 1 <= 2 * FaultsSoFar'
  BY DEF CountInv
<1>0. FaultsSoFar \in Nat /\ FaultsSoFar' \in Nat /\ FaultsSoFar <= FaultsSoFar'
  BY FaultsAdd DEF Known, TypeInv
<1>1. at' = at /\ on' = on /\ status' = status /\ letter' = letter
  BY DEF SqsNext, Tick, vars, tableVars, processVars, loopVars
<1>2. /\ Sent(m) /\ queue'[m].says = queue[m].says /\ queue'[m].received = queue[m].received
      /\ queue'[m].hidden \in Nat /\ queue[m].hidden \in Nat
      /\ queue'[m].hidden = queue[m].hidden \/ (Tick /\ queue'[m].hidden + 1 >= queue[m].hidden)
  BY TimeUnhides DEF Known
<1>3. \A j \in Job : /\ silent'[j] \in Nat /\ silent[j] \in Nat
                     /\ silent'[j] >= silent[j] \/ silent'[j] >= Lease
                     /\ Tick => silent'[j] >= silent[j] + 1 \/ silent'[j] >= Lease
  BY TimeAges, RowTimes DEF Known
<1>4. Kept(m) => Kept(m)'
  <2> SUFFICES ASSUME NEW k \in Loop, Keeps(k, m) PROVE Kept(m)'
    BY DEF Kept
  <2>1. k \in Loop /\ at[k] # "idle" /\ on[k] \in Job
    BY DEF Keeps, Known, MessageInv, LetterInHand, TypeInv, ProcTypeOK, BusyWithJob
  <2>2. status'[on[k]] = status[on[k]] /\ (silent'[on[k]] < Lease => silent[on[k]] < Lease)
    BY <1>1, <1>3, <2>1, LeaseTime
  <2>3. LeaseHeld(k)' => LeaseHeld(k)
    BY <1>1, <2>2 DEF LeaseHeld, InFlightFor, Lease
  <2> QED
    BY <1>1, <2>3 DEF Kept, Keeps
<1>5. Bounces(m)' => Bounces(m)
  <2> SUFFICES ASSUME Unheld(m)', NEW j \in Job, NEW task \in Task, Told(m, j, task)',
                      status'[j] = InFlightFor(task), silent'[j] + queue'[m].hidden < Lease
               PROVE  Bounces(m)
    BY DEF Bounces, InFlightFor, Lease
  <2>1. Told(m, j, task) /\ Unheld(m) /\ status[j] = InFlightFor(task)
    BY <1>1, <1>2 DEF Told, Unheld
  <2>2. silent[j] + queue[m].hidden < Lease
    BY <1>2, <1>3, LeaseTime
  <2> QED
    BY <2>1, <2>2 DEF Bounces
<1> QED
  BY <1>0, <1>2, <1>4, <1>5, CountStays DEF Known

\* What becomes of the message of a loop whose step ends in an acknowledgement.
LEMMA LoopKeepsLost ==
  ASSUME Known, StaleInv, LostInv, NEW l \in Loop, LoopNext(l),
         at'[l] = "lost" \/ (at'[l] = "fail" /\ why'[l] = "cancelled")
  PROVE  status'[on'[l]] = "deleted"
<1>0. TypeInv /\ LoopKnows(l) /\ Stage(l)
  BY DEF Known, ControlInv, StageInv
<1>1. at[l] # "idle" /\ on[l] \in Job /\ (LoopDoes(l, on[l]) \/ LoopGoesOn(l))
  BY <1>0, LoopSteps DEF Receives, Leaves, MovesTo
<1>2. CASE Erases(l, on[l])
  BY <1>2 DEF Erases, MovesTo
<1>3. CASE LoopPut(l, on[l])
  BY <1>0, <1>3, LoopFinds DEF Advances
<1>4. CASE LoopGoesOn(l)
  <2>1. status'[on[l]] = status[on[l]]
    BY <1>1, <1>4 DEF LoopGoesOn, Same, OnlyStatus
  <2>2. CASE LoopSame(l)
    BY <2>1, <2>2 DEF LostInv, LoopSame, PlaceSame
  <2>3. ASSUME at[l] \in LoopUpdating, MovesTo(l, LoopUpdate(l).lost),
               reading[l] = "stale" \/ status[on[l]] \notin LoopUpdate(l).from,
               why'[l] \in {why[l], "other"}
        PROVE  status[on[l]] = "deleted" /\ on'[l] = on[l]
    <3>1. at'[l] = LoopUpdate(l).lost /\ at'[l] # "idle" /\ on'[l] = on[l]
      BY <2>3 DEF MovesTo
    <3>2. at[l] \in {"complete", "pages", "findings", "handoff"}
      BY <2>3, <3>1 DEF LoopUpdate, LoopUpdating
    <3>3. CASE reading[l] = "stale"
      BY <3>1, <3>3 DEF StaleInv
    <3>4. CASE at[l] = "complete" /\ status[on[l]] \notin LoopUpdate(l).from
      BY <1>0, <3>1, <3>4, LoopFrom DEF Stage, RenderStep, AtWork, Pipeline, LoopUpdating
    <3>5. CASE at[l] # "complete" /\ status[on[l]] \notin LoopUpdate(l).from
      BY <1>0, <3>1, <3>2, <3>5, LoopFrom DEF Stage, DetectStep, AtWork, Pipeline, LoopUpdating
    <3> QED
      BY <2>3, <3>3, <3>4, <3>5
  <2>4. ASSUME Walks(l) PROVE status[on[l]] = "deleted" /\ on'[l] = on[l]
    <3>1. \/ at[l] = "detect" /\ status[on[l]] # "detecting"
          \/ at[l] = "render" /\ status[on[l]] # "redacting"
          \/ at[l] = "lost" /\ status[on[l]] # "deleted"
      BY <2>4 DEF Walks, MovesTo
    <3>2. on'[l] = on[l]
      <4>1. PICK step : MovesTo(l, step)
        BY <2>4 DEF Walks
      <4> QED
        BY <4>1 DEF MovesTo
    <3> QED
      BY <1>0, <3>1, <3>2 DEF Stage, LostInv, DetectStep, RenderStep, AtWork, Pipeline
  <2> QED
    BY <1>4, <2>1, <2>2, <2>3, <2>4 DEF LoopGoesOn
<1> QED
  BY <1>1, <1>2, <1>3, <1>4 DEF LoopDoes, WritesManifests, Fetches, StoresOutput, MovesTo

\* A loop acknowledges its message only when the job no longer waits for it.
LEMMA AcksAreDone ==
  ASSUME Known, StaleInv, LostInv, NEW l \in Loop, LoopNext(l), at[l] \notin {"idle", "ack"}, at'[l] = "ack"
  PROVE  status'[on[l]] \notin {QueuedFor(letter[l].task), InFlightFor(letter[l].task)}
<1>0. TypeInv /\ LoopKnows(l) /\ Stage(l) /\ letter[l].task \in {"detect", "redact"}
  BY LoopTold DEF Known, ControlInv, StageInv
<1>t. \A s \in {QueuedFor(letter[l].task), InFlightFor(letter[l].task)} : s \in Queued \cup InFlight
  BY <1>0, TasksApart DEF Queued, InFlight
<1>1. on[l] \in Job /\ (LoopDoes(l, on[l]) \/ LoopGoesOn(l))
  BY <1>0, LoopSteps DEF Receives, Leaves, MovesTo
<1>2. CASE Erases(l, on[l])
  BY <1>2, <1>t DEF Erases, Queued, InFlight
<1>3. CASE LoopPut(l, on[l])
  BY <1>0, <1>3, <1>t, LoopFinds DEF Advances, Queued, InFlight
<1>4. CASE LoopGoesOn(l)
  <2>1. status'[on[l]] = status[on[l]]
    BY <1>1, <1>4 DEF LoopGoesOn, Same, OnlyStatus
  <2>2. ASSUME at[l] \in LoopUpdating, MovesTo(l, LoopUpdate(l).lost),
               reading[l] = "stale" \/ status[on[l]] \notin LoopUpdate(l).from
        PROVE  status[on[l]] \notin {QueuedFor(letter[l].task), InFlightFor(letter[l].task)}
    <3>1. at[l] \in {"claim", "review", "failed"}
      BY <2>2 DEF MovesTo, LoopUpdate, LoopUpdating
    <3>2. CASE status[on[l]] = "deleted"
      BY <3>2, <1>t DEF Queued, InFlight
    <3>3. CASE at[l] = "claim" /\ status[on[l]] \notin LoopUpdate(l).from
      BY <3>3 DEF LoopUpdate
    <3>4. CASE at[l] # "claim" /\ status[on[l]] \notin LoopUpdate(l).from
      <4>1. status[on[l]] = "deleted"
        BY <1>0, <2>2, <3>1, <3>4, LoopFrom DEF Stage, AtWork
      <4> QED
        BY <3>2, <4>1
    <3> QED
      BY <2>2, <3>2, <3>3, <3>4 DEF StaleInv
  <2>3. ASSUME Walks(l)
        PROVE  status[on[l]] \notin {QueuedFor(letter[l].task), InFlightFor(letter[l].task)}
    <3>1. at[l] = "fail" /\ (status[on[l]] = "complete" \/ why[l] = "cancelled")
      BY <2>3 DEF Walks, MovesTo
    <3>2. status[on[l]] \in {"complete", "deleted"}
      BY <3>1 DEF LostInv
    <3> QED
      BY <1>t, <3>2 DEF Queued, InFlight
  <2> QED
    BY <1>4, <2>1, <2>2, <2>3 DEF LoopGoesOn, LoopSame, PlaceSame
<1> QED
  BY <1>1, <1>2, <1>3, <1>4 DEF LoopDoes, WritesManifests, Fetches, StoresOutput, MovesTo
ManualJobs == \A j \in Job : ~auto[j]

\* The message of a row is still there, and not yet being acknowledged, after a
\* step of a loop that leaves the row as it is.
LEMMA LoopCarriesOn ==
  ASSUME Known, StaleInv, LostInv, NEW l \in Loop, LoopNext(l), NEW j \in Job, Carried(j),
         status[j] \in Queued \cup InFlight, status'[j] = status[j]
  PROVE  Carried(j)'
<1>1. CASE \E c \in Client : at[c] = "send" /\ on[c] = j /\ status[j] = QueuedFor(TaskOf(c))
  <2>1. PICK c \in Client : at[c] = "send" /\ on[c] = j /\ status[j] = QueuedFor(TaskOf(c))
    BY <1>1
  <2>2. CallSame(c)
    BY LoopSteps DEF Known
  <2>3. at'[c] = "send" /\ on'[c] = j /\ status'[j] = QueuedFor(TaskOf(c)')
    BY <2>1, <2>2 DEF CallSame, PlaceSame, TaskOf
  <2> QED
    BY <2>3 DEF Carried, QueuedFor
<1>2. ASSUME NEW m \in Message, NEW task \in Task, Told(m, j, task), ~Spent(m),
             status[j] \in {QueuedFor(task), InFlightFor(task)}
      PROVE  Carried(j)'
  <2>1. Told(m, j, task)'
    BY <1>2, LoopMessages DEF Known, Told, Spent, Sent
  <2>2. ASSUME NEW k \in Loop, at'[k] = "ack", letter'[k].message = m PROVE FALSE
    <3>1. k = l
      BY <1>2, <2>2, LoopSteps DEF Known, LoopSame, PlaceSame, Spent
    <3>2. CASE at[l] = "ack"
      <4>1. letter'[l].message = letter[l].message
        BY <2>2, <3>1, <3>2, LoopGoes DEF Known
      <4> QED
        BY <1>2, <2>2, <3>1, <3>2, <4>1 DEF Spent
    <3>3. CASE at[l] = "idle"
      BY <2>2, <3>1, <3>3, LoopSteps DEF Known, Receives
    <3>4. CASE at[l] \notin {"idle", "ack"}
      <4>1. letter[l].message = m
        BY <2>2, <3>1, <3>4, LoopGoes DEF Known
      <4>2. Told(m, on[l], letter[l].task)
        BY <3>4, <4>1, LoopTold
      <4>3. j = on[l] /\ task = letter[l].task
        BY <1>2, <4>2 DEF Told
      <4> QED
        BY <1>2, <2>2, <3>1, <3>4, <4>3, AcksAreDone
    <3> QED
      BY <3>2, <3>3, <3>4
  <2> QED
    BY <1>2, <2>1, <2>2 DEF Carried, Spent, QueuedFor, InFlightFor
<1> QED
  BY <1>1, <1>2 DEF Carried

\* A loop that puts a row still holds the message of the row.
LEMMA PutsCarryOn ==
  ASSUME Known, ManualJobs, NEW l \in Loop, LoopNext(l), NEW j \in Job, j = on[l], LoopPut(l, j),
         status'[j] \in Queued \cup InFlight
  PROVE  Carried(j)'
<1>1. LoopKnows(l) /\ LoopFiles(l) /\ Advances(l, j) /\ at[l] \notin {"idle", "ack"}
  <2>1. LoopKnows(l) /\ LoopFiles(l) /\ Advances(l, j) /\ at[l] \in LoopUpdating
    BY LoopFinds DEF Known, ControlInv, ReviewInv, LoopPut
  <2> QED
    BY <2>1 DEF LoopUpdating
<1>2. /\ Told(letter[l].message, j, letter[l].task) /\ letter[l].message \in Message
      /\ ~Spent(letter[l].message) /\ letter[l].task \in {"detect", "redact"}
  BY <1>1, LoopTold
<1>3. /\ at'[l] \in {"pages", "fetch", "detect", "draft", "return"}
      /\ status'[j] \in {QueuedFor(letter[l].task), InFlightFor(letter[l].task)}
  <2>1. at[l] = "handoff" /\ status[j] = "detecting" => ~letter[l].auto
    BY <1>1 DEF LoopFiles, ManualJobs, DetectStep, Early
  <2>2. at[l] \in DetectStep \cup {"release"} => letter[l].task = "detect"
    BY <1>1 DEF LoopKnows
  <2> QED
    BY <1>1, <2>1, <2>2, TasksApart DEF Advances, DetectStep, Queued, InFlight
<1>4. PICK m \in Message, task \in Task :
        /\ m = letter[l].message /\ task = letter[l].task /\ Told(m, j, task) /\ ~Spent(m)
        /\ status'[j] \in {QueuedFor(task), InFlightFor(task)}
  BY <1>2, <1>3 DEF Task
<1>5. Told(m, j, task)'
  BY <1>1, <1>4, LoopMessages DEF Known, Told, Sent
<1>6. ASSUME NEW k \in Loop, at'[k] = "ack", letter'[k].message = m PROVE FALSE
  <2>1. k # l
    BY <1>3, <1>6
  <2> QED
    BY <1>4, <1>6, <2>1, LoopSteps DEF Known, LoopSame, PlaceSame, Spent
<1> QED
  BY <1>4, <1>5, <1>6 DEF Carried, Spent, QueuedFor, InFlightFor

LEMMA LoopKeepsCarry ==
  ASSUME Known, StaleInv, LostInv, CarryInv, ManualJobs, NEW l \in Loop, LoopNext(l)
  PROVE  CarryInv'
<1> SUFFICES ASSUME NEW j \in Job, status'[j] \in Queued \cup InFlight PROVE Carried(j)'
  BY DEF CarryInv, Queued, InFlight
<1>1. CASE status'[j] = status[j]
  BY <1>1, LoopCarriesOn DEF CarryInv
<1>2. CASE status'[j] # status[j]
  BY <1>2, LoopSilence, PutsCarryOn
<1> QED
  BY <1>1, <1>2

LEMMA CallKeepsCarry ==
  ASSUME Known, TypeInv', ~InDoubt', CarryInv, ~Happened("call_dies")', NEW c \in Client, ClientNext(c)
  PROVE  CarryInv'
<1> SUFFICES ASSUME NEW j \in Job, status'[j] \in Queued \cup InFlight PROVE Carried(j)'
  BY DEF CarryInv, Queued, InFlight
<1>1. /\ \A m \in Message : Spent(m)' <=> Spent(m)
      /\ at[c] # "undo" /\ at'[c] # "undo" /\ CallKnows(c)
      /\ \A d \in Client \ {c} : CallSame(d)
  BY CallEffects, CallSteps DEF Known, ControlInv
<1>2. CASE StartsReview(c, j)
  BY <1>2 DEF StartsReview, Reviewable, Queued, InFlight
<1>3. CASE on[c] = j /\ (PutsSubmitted(c, j) \/ PutsReviewed(c, j))
  <2>1. at'[c] = "send" /\ on'[c] = j /\ was'[c] = was[c]
    BY <1>3 DEF PutsSubmitted, PutsReviewed, CallPut, MovesTo
  <2>2. status'[j] = QueuedFor(TaskOf(c)')
    BY <1>1, <1>3, <2>1 DEF PutsSubmitted, PutsReviewed, CallPut, CallKnows, TaskOf, QueuedFor, Reviewable
  <2> QED
    BY <2>1, <2>2 DEF Carried, QueuedFor
<1>4. CASE status'[j] = status[j]
  <2>1. Carried(j)
    BY <1>4 DEF CarryInv
  <2>2. ASSUME NEW m \in Message, NEW task \in Task, Told(m, j, task), ~Spent(m),
               status[j] \in {QueuedFor(task), InFlightFor(task)}
        PROVE  Carried(j)'
    <3>1. queue'[m] = queue[m]
      BY <2>2, CallMessages DEF Known, SentBy, Told
    <3>2. Told(m, j, task)' /\ ~Spent(m)'
      BY <1>1, <2>2, <3>1 DEF Told, Sent
    <3> QED
      BY <1>4, <2>2, <3>2 DEF Carried, QueuedFor, InFlightFor
  <2>3. ASSUME NEW d \in Client, at[d] = "send", on[d] = j, status[j] = QueuedFor(TaskOf(d)), CallSame(d)
        PROVE  Carried(j)'
    <3>1. at'[d] = "send" /\ on'[d] = j /\ status'[j] = QueuedFor(TaskOf(d)')
      BY <1>4, <2>3 DEF CallSame, PlaceSame, TaskOf
    <3> QED
      BY <3>1 DEF Carried, QueuedFor
  <2>4. ASSUME at[c] = "send", on[c] = j, status[j] = QueuedFor(TaskOf(c))
        PROVE  Carried(j)'
    <3>0. c \in Proc /\ at \in [Proc -> Step] /\ TaskOf(c) \in Task
      BY DEF Known, TypeInv, ProcTypeOK, TaskOf, Task
    <3>1. PICK m \in Message : Sends(c, m)
      <4>1. ~SendFails(c)
        BY <1>1, <3>0 DEF SendFails, Proceeds, Goto
      <4>2. ~CallDies(c)
        BY FaultHappens DEF CallDies, Known, TypeInv
      <4>3. ~CallStarts(c) \/ \E i \in Job : CreateJob(c, i)
        BY <2>4 DEF CallStarts, Submit, Finalize, Delete, Begins
      <4> QED
        BY <2>4, <4>1, <4>2, <4>3 DEF ClientNext, CallContinues, CreateJob, FinalizeWrites, CallReads, CallPuts,
           CallLoses, CallUpdating, DeletePurges, DeleteAnswersNotFound
    <3>2. PICK task \in Task : task = TaskOf(c)
      BY <3>0
    <3>3. <<j, task>> \in Content
      OBVIOUS
    <3>4. ~Sent(m) /\ queue'[m].says = <<j, task>> /\ queue'[m] # NoMessage
      BY <2>4, <3>1, <3>2, <3>3 DEF Sends, Enqueue, Known, TypeInv, QueueTypeOK
    <3>5. \A l \in Loop : letter[l].message # m
      BY <3>4 DEF ClientNext, NewMessages, Sent
    <3>6. Told(m, j, task)' /\ ~Spent(m)'
      BY <1>1, <3>4, <3>5 DEF Told, Sent, Spent
    <3> QED
      BY <1>4, <2>4, <3>2, <3>6 DEF Carried, QueuedFor, InFlightFor
  <2> QED
    BY <1>1, <2>1, <2>2, <2>3, <2>4 DEF Carried
<1> QED
  BY <1>2, <1>3, <1>4, CallEffects DEF Queued, InFlight

LEMMA OthersKeepCarry ==
  ASSUME Known, Counted, CountInv, CarryInv, 2 * MaxFaults < MaxReceive, SqsNext \/ Tick \/ UNCHANGED vars
  PROVE  CarryInv'
<1>1. status' = status /\ at' = at /\ on' = on /\ letter' = letter /\ was' = was
  BY DEF SqsNext, Tick, vars, tableVars, processVars, callVars, loopVars
<1>2. ASSUME NEW m \in Message, Sent(m), ~Sent(m)' PROVE FALSE
  <2>1. Visible(m) /\ queue[m].received = MaxReceive
    BY <1>2, OtherMessages DEF Known, DeadLetter
  <2>2. ~Kept(m)
    BY <2>1, VisibleUnheld DEF Kept, Keeps, Unheld
  <2>3. MaxReceive <= 2 * FaultsSoFar
    BY <1>2, <2>1, <2>2 DEF CountInv
  <2>4. FaultsSoFar \in Nat /\ FaultsSoFar <= MaxFaults
    BY DEF FaultsSoFar, FaultKind, Known, TypeInv, FaultTypeOK, Counted
  <2> QED
    BY <2>3, <2>4
<1>3. ASSUME NEW j \in Job, status[j] \in Queued \cup InFlight PROVE Carried(j)'
  <2>1. Carried(j)
    BY <1>3 DEF CarryInv
  <2>2. ASSUME NEW c \in Client, at[c] = "send" /\ on[c] = j /\ status[j] = QueuedFor(TaskOf(c))
        PROVE  Carried(j)'
    BY <1>1, <2>2 DEF Carried, TaskOf, QueuedFor
  <2>3. ASSUME NEW m \in Message, NEW task \in Task, Told(m, j, task), ~Spent(m),
               status[j] \in {QueuedFor(task), InFlightFor(task)}
        PROVE  Carried(j)'
    <3>1. Told(m, j, task)'
      BY <1>2, <2>3, OtherMessages DEF Known, Told
    <3> QED
      BY <1>1, <2>3, <3>1 DEF Carried, Spent, QueuedFor, InFlightFor
  <2> QED
    BY <2>1, <2>2, <2>3 DEF Carried
<1> QED
  BY <1>1, <1>3 DEF CarryInv, Queued, InFlight

LEMMA LossesKept ==
  ASSUME Known, StaleInv, LostInv, [Next]_vars
  PROVE  LostInv'
<1>1. ASSUME NEW l \in Loop, LoopSame(l), at[l] = "idle" \/ Turns(on[l]),
             at'[l] = "lost" \/ (at'[l] = "fail" /\ why'[l] = "cancelled")
      PROVE  status'[on'[l]] = "deleted"
  BY <1>1 DEF LostInv, LoopSame, PlaceSame, Turns
<1>2. \A l \in Loop : at[l] # "idle" => on[l] \in Job
  BY DEF Known, TypeInv, ProcTypeOK, BusyWithJob
<1>3. ASSUME NEW c \in Client, ClientNext(c) PROVE LostInv'
  BY <1>1, <1>2, <1>3, CallSteps, CallTurns DEF Known, LostInv
<1>4. ASSUME NEW l \in Loop, LoopNext(l) PROVE LostInv'
  BY <1>1, <1>2, <1>4, LoopSteps, LoopTurnsRows, LoopKeepsLost DEF Known, LostInv
<1>5. CASE SqsNext \/ Tick \/ UNCHANGED vars
  BY <1>5 DEF LostInv, SqsNext, Tick, vars, tableVars, processVars, loopVars
<1> QED
  BY <1>3, <1>4, <1>5 DEF Next

LEMMA LossesAndDeliveries ==
  ASSUME Calm
  PROVE  Spec /\ []OneReviewAtATime => [](LostInv /\ CountInv)
<1>1. Init => LostInv /\ CountInv
  <2> SUFFICES ASSUME Init PROVE LostInv /\ CountInv
    OBVIOUS
  <2>1. (\A l \in Loop : at[l] = "idle") /\ \A m \in Message : ~Sent(m)
    BY DEF Init, TableInit, QueueInit, Sent
  <2> QED
    BY <2>1 DEF LostInv, CountInv
<1>2. Known /\ Known' /\ LapseInv /\ LostInv /\ CountInv /\ [Next]_vars => (LostInv /\ CountInv)'
  <2> SUFFICES ASSUME Known, Known', LapseInv, LostInv, CountInv, [Next]_vars PROVE LostInv' /\ CountInv'
    OBVIOUS
  <2>1. TypeInv' /\ ~InDoubt' /\ ~Happened("delivered_twice")' /\ Grows /\ StaleInv
    BY GrowsAlways DEF Known, InDoubt, LapseInv
  <2>2. Margin <= Delay
    BY DEF Calm
  <2>3. CountInv'
    BY <2>1, <2>2, CallKeepsCount, LoopKeepsCount, TimeKeepsCount DEF Next
  <2> QED
    BY <2>1, <2>3, LossesKept
<1> QED
  BY <1>1, <1>2, CalmKnown, LapseKept, PTL DEF Spec

\* In calm weather a message that has more than two deliveries for every fault is
\* never turned away at its last: at most one delivery ends with each fault, and at
\* most one is turned away for it, because the lease of the row is over by the time
\* the message comes back.  For any jobs, calls, loops and timeouts.
THEOREM AwsLastDeliveryTaken ==
  ASSUME Calm, 2 * MaxFaults < MaxReceive
  PROVE  Spec /\ []OneReviewAtATime => LastDeliveryTaken
<1>1. Known /\ Counted /\ CountInv /\ [Next]_vars =>
        [\A l \in Loop : at[l] = "look" /\ at'[l] = "return" => letter[l].handle < MaxReceive]_vars
  <2> SUFFICES ASSUME Known, Counted, CountInv, [Next]_vars, NEW l \in Loop, at[l] = "look", at'[l] = "return"
               PROVE  letter[l].handle < MaxReceive
    OBVIOUS
  <2>1. LoopNext(l)
    <3>1. ASSUME NEW k \in Loop, LoopNext(k), k # l PROVE FALSE
      BY <3>1, LoopSteps DEF Known, LoopSame, PlaceSame
    <3>2. ASSUME NEW c \in Client, ClientNext(c) PROVE FALSE
      BY <3>2, CallSteps DEF Known, LoopSame, PlaceSame
    <3>3. at' # at
      OBVIOUS
    <3> QED
      BY <3>1, <3>2, <3>3 DEF Next, SqsNext, Tick, vars, processVars
  <2>2. LeaseHeld(l)
    BY <2>1, LoopGoes DEF Known
  <2>3. Holds(l) /\ letter[l].message \in Message
    BY LoopTold
  <2>4. PICK m \in Message : m = letter[l].message
    BY <2>3
  <2>5. Sent(m) /\ queue[m].received = letter[l].handle
    BY <2>3, <2>4 DEF Holds, Handled
  <2>6. ~Kept(m)
    <3>1. \A k \in Loop : letter[k].message = m => at[k] # "idle"
      BY DEF Known, MessageInv, LetterInHand
    <3>2. \A k \in Loop : letter[k].message = m => k = l
      BY <2>4, <3>1, TwoMessages DEF Known, InDoubt, Steady
    <3> QED
      BY <2>2, <3>2 DEF Kept, Keeps
  <2>7. queue[m].received <= 2 * FaultsSoFar /\ queue[m].received \in Nat
    BY <2>5, <2>6, MessageTimes DEF CountInv, Known
  <2>8. FaultsSoFar \in Nat /\ FaultsSoFar <= MaxFaults
    BY DEF FaultsSoFar, FaultKind, Known, TypeInv, FaultTypeOK, Counted
  <2> QED
    BY <2>5, <2>7, <2>8
<1> QED
  BY <1>1, CalmKnown, CountedKept, LossesAndDeliveries, PTL DEF Spec, LastDeliveryTaken

\* In calm weather, when a message has more than two deliveries for every fault, work
\* never gets lost: for any number of callers and loops, any timeouts and any
\* interruptions, a row that waits for a worker, or that a crashed worker left in
\* flight, has a message in the queue that gets it claimed, or the call that
\* queued it is about to send one.  Automatic jobs are excepted, whose redaction
\* runs under a message for their detection, and calls that die before they send.
THEOREM AwsWorkHasMessage ==
  ASSUME Calm, "call_dies" \notin Faults, 2 * MaxFaults < MaxReceive
  PROVE  Spec /\ []OneReviewAtATime /\ []ManualJobs => []WorkHasMessage
<1>1. Init => CarryInv
  BY DEF Init, TableInit, CarryInv, Queued, InFlight
<1>2. Known /\ Known' /\ LapseInv /\ Counted /\ Counted' /\ LostInv /\ CountInv /\ CarryInv /\ ManualJobs /\ [Next]_vars
        => CarryInv'
  <2> SUFFICES ASSUME Known, Known', LapseInv, Counted, Counted', LostInv, CountInv, CarryInv, ManualJobs, [Next]_vars
               PROVE  CarryInv'
    OBVIOUS
  <2>1. TypeInv' /\ ~InDoubt' /\ ~Happened("call_dies")' /\ StaleInv
    BY DEF Known, Counted, FaultKind, LapseInv
  <2> QED
    BY <2>1, CallKeepsCarry, LoopKeepsCarry, OthersKeepCarry DEF Next
<1>3. Known /\ CarryInv => WorkHasMessage
  BY DEF Known, CarryInv, Carried, Told, WorkHasMessage, Claimable
<1> QED
  BY <1>1, <1>2, <1>3, CalmKnown, LapseKept, CountedKept, LossesAndDeliveries, PTL DEF Spec

\* With one caller to review the two theorems need no hypothesis on the states but
\* that the jobs are manual: the last delivery is taken and no work is without a message.
THEOREM AwsSurvivesInterruptions ==
  ASSUME Calm, OneEditor, "call_dies" \notin Faults, 2 * MaxFaults < MaxReceive
  PROVE  Spec => LastDeliveryTaken /\ ([]ManualJobs => []WorkHasMessage)
BY OneEditorReviewsOneAtATime, AwsLastDeliveryTaken, AwsWorkHasMessage, PTL
=============================================================================
