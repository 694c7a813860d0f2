---------------------------- MODULE CloudWorker -----------------------------
(***************************************************************************)
(* A document loop of an AWS worker (worker/main.py, run_once, and         *)
(* worker/pipeline.py): it takes a message, claims the row, renews the     *)
(* message from a second thread while the pipeline runs, and acknowledges  *)
(* or releases the message.  Time is counted in a unit of which the        *)
(* heartbeat interval has Beat.                                            *)
(***************************************************************************)
EXTENDS CloudService

CONSTANTS
  Loop, \* document loops, each of some worker process
  Beat, \* _heartbeat_interval
  Lag,  \* how long run_once may take before the pipeline, and after it, and
        \* how late a heartbeat may be
  Pages \* progress reports of a detection

\* Steps of the pipeline, under the heartbeat, and of run_once around it.
Pipeline  == {"pages", "detect", "progress", "findings", "draft", "handoff",
              "fetch", "render", "output", "complete", "lost"}
RunOnce   == {"look", "claim", "fail", "review", "failed", "release", "return", "ack"}
CloudStep == {"idle", "submit", "reject", "write", "finalize", "send", "undo", "bury", "purge", "not_found"}
               \cup Pipeline \cup RunOnce

ASSUME CloudWorkerAssumption ==
  /\ Loop \subseteq Proc /\ Client \cap Loop = {}
  /\ Beat \in Nat \ {0} /\ Lag \in 0 .. Beat
  /\ Beat < Visibility /\ Visibility <= Patience
  /\ Pages \in Nat
  /\ CloudStep \subseteq Step
  /\ NoMessage \notin Message

VARIABLES
  letter,   \* the delivery a loop works on
  beat,     \* time its heartbeat, or its next step, can still wait
  unread,   \* pages the detector has not reported yet
  manifest, \* the review a redaction renders
  why       \* the exception on its way out of the pipeline

loopVars == <<letter, beat, unread, manifest, why>>

Exception == {"none", "cancelled", "invalid", "other"}

NoLetter == [message |-> NoMessage, handle |-> 0, task |-> "detect", auto |-> FALSE]

\* A heartbeat comes an interval after the one before, or a little later.
Cycle == Beat + Lag

CloudWorkerTypeOK ==
  /\ letter \in [Loop -> [message : Message \cup {NoMessage}, handle : 0 .. MaxReceive,
                          task : Task, auto : BOOLEAN]]
  /\ beat \in [Loop -> 0 .. Cycle]
  /\ unread \in [Loop -> 0 .. Pages]
  /\ manifest \in [Loop -> Review \cup {None}]
  /\ why \in [Loop -> Exception]

CloudWorkerInit ==
  /\ letter = [l \in Loop |-> NoLetter]
  /\ beat = [l \in Loop |-> Cycle]
  /\ unread = [l \in Loop |-> 0]
  /\ manifest = [l \in Loop |-> None]
  /\ why = [l \in Loop |-> "none"]

QueuedFor(task)   == IF task = "detect" THEN "queued_detection" ELSE "queued_redaction"
InFlightFor(task) == IF task = "detect" THEN "detecting" ELSE "redacting"

-----------------------------------------------------------------------------
(* What the update at a step of a loop reads, sets and leads to.           *)

AfterClaim(l)   == IF letter[l].task = "detect" THEN "pages" ELSE "fetch"
AfterHandOff(l) == IF letter[l].auto THEN "render" ELSE "ack"

LoopUpdate(l) ==
  LET task == letter[l].task IN
  CASE at[l] = "claim" ->
         [from |-> {QueuedFor(task), InFlightFor(task)}, to |-> InFlightFor(task),
          done |-> AfterClaim(l), lost |-> "ack"]
    [] at[l] = "pages" ->
         [from |-> {"detecting"}, to |-> "detecting", done |-> "detect", lost |-> "fail"]
    [] at[l] = "progress" ->
         [from |-> {"detecting"}, to |-> "detecting", done |-> "detect", lost |-> "detect"]
    [] at[l] = "findings" ->
         [from |-> {"detecting"}, to |-> "detecting", done |-> "draft", lost |-> "fail"]
    [] at[l] = "handoff" ->
         [from |-> {"detecting"}, to |-> IF letter[l].auto THEN "redacting" ELSE "review_required",
          done |-> AfterHandOff(l), lost |-> "fail"]
    [] at[l] = "complete" ->
         [from |-> {"redacting"}, to |-> "complete", done |-> "ack", lost |-> "lost"]
    [] at[l] = "review" ->
         [from |-> {"redacting"}, to |-> "review_required", done |-> "ack", lost |-> "ack"]
    [] at[l] = "failed" ->
         [from |-> InFlight, to |-> "failed", done |-> "ack", lost |-> "ack"]
    [] at[l] = "release" ->
         [from |-> {InFlightFor(task)}, to |-> QueuedFor(task), done |-> "return", lost |-> "return"]

LoopUpdating == {"claim", "pages", "progress", "findings", "handoff",
                 "complete", "review", "failed", "release"}

\* The heartbeat starts with the pipeline and ends with it.
Rests(l, step) ==
  beat' = [beat EXCEPT ![l] = CASE step \in Pipeline /\ at[l] \notin Pipeline -> Cycle
                                [] step \notin Pipeline /\ at[l] \in Pipeline -> Lag
                                [] OTHER -> @]

\* A StateConflict of an update of the pipeline is no JobCancelled.
Raised(l, u) ==
  why' = [why EXCEPT ![l] = IF u.lost = "fail" /\ at'[l] = "fail" THEN "other" ELSE @]

LoopReads(l) ==
  LET u == LoopUpdate(l) IN
  /\ at[l] \in LoopUpdating
  /\ UpdateReads(l, u)
  /\ Rests(l, at'[l]) /\ Raised(l, u)
  /\ UNCHANGED <<queue, fileVars, callVars, faults, letter, unread, manifest>>

LoopPuts(l) ==
  LET u == LoopUpdate(l) IN
  /\ at[l] \in LoopUpdating
  /\ Puts(l, u)
  /\ Rests(l, u.done)
  /\ unread' = [unread EXCEPT ![l] = IF at[l] = "pages" THEN Pages ELSE @]
  /\ letter' = [letter EXCEPT ![l].auto = IF at[l] = "claim" THEN auto[on[l]] ELSE @]
  /\ UNCHANGED <<queue, auto, fileVars, callVars, faults, manifest, why>>

LoopLoses(l) ==
  LET u == LoopUpdate(l) IN
  /\ at[l] \in LoopUpdating
  /\ PutFails(l, u)
  /\ Rests(l, u.lost) /\ Raised(l, u)
  /\ UNCHANGED <<queue, fileVars, callVars, faults, letter, unread, manifest>>

-----------------------------------------------------------------------------
(* From the message to the claim.                                          *)

ReceiveMessage(l, m) ==
  /\ Receive(m)
  /\ Begins(l, queue[m].says[1], "look")
  /\ letter' = [letter EXCEPT ![l] = [message |-> m, handle |-> queue'[m].received,
                                      task |-> queue[m].says[2], auto |-> FALSE]]
  /\ beat' = [beat EXCEPT ![l] = Lag]
  /\ UNCHANGED <<reading, tableVars, fileVars, callVars, faults, unread, manifest, why>>

\* lease_seconds: a heartbeat could be this late.
Lease == Visibility - Beat

\* Mutant: the lease lasts the whole visibility timeout.
LeaseHeldTooLong(l) ==
  /\ status[on[l]] = InFlightFor(letter[l].task)
  /\ silent[on[l]] < Visibility

\* Another worker still owns this in-flight job, as far as its row tells.
LeaseHeld(l) ==
  /\ status[on[l]] = InFlightFor(letter[l].task)
  /\ silent[on[l]] < Lease

LooksAtRow(l) ==
  /\ at[l] = "look" /\ Proceeds(l, IF LeaseHeld(l) THEN "return" ELSE "claim")
  /\ UNCHANGED <<queue, tableVars, fileVars, callVars, faults, loopVars>>

-----------------------------------------------------------------------------
(* The pipeline between its updates.                                       *)

Raises(l, exception) ==
  /\ Proceeds(l, "fail") /\ Rests(l, "fail")
  /\ why' = [why EXCEPT ![l] = exception]
  /\ UNCHANGED <<tableVars, queue, fileVars, callVars, letter, unread, manifest>>

\* Mutant: pages are reported beyond the last.
ReportsPageAgain(l) ==
  /\ at[l] = "detect" /\ Proceeds(l, "progress")
  /\ unread' = [unread EXCEPT ![l] = @ - 1]
  /\ UNCHANGED <<tableVars, queue, fileVars, callVars, faults, letter, beat, manifest, why>>

\* A page is done; the report of its progress ignores a lost race.
ReportsPage(l) ==
  /\ at[l] = "detect" /\ unread[l] > 0 /\ Proceeds(l, "progress")
  /\ unread' = [unread EXCEPT ![l] = @ - 1]
  /\ UNCHANGED <<tableVars, queue, fileVars, callVars, faults, letter, beat, manifest, why>>

Detected(l) ==
  /\ at[l] = "detect" /\ unread[l] = 0
  /\ status[on[l]] = "detecting" /\ Proceeds(l, "findings")
  /\ UNCHANGED <<tableVars, queue, fileVars, callVars, faults, loopVars>>

\* The draft, and for a job that goes on without a review the approved
\* manifest, are stored before the row says so.
PutsManifests(l) ==
  /\ at[l] = "draft" /\ Proceeds(l, "handoff")
  /\ approved' = IF letter[l].auto THEN [approved EXCEPT ![on[l]] = 0] ELSE approved
  /\ manifest' = [manifest EXCEPT ![l] = 0]
  /\ UNCHANGED <<tableVars, queue, output, callVars, faults, letter, beat, unread, why>>

\* Mutant: the draft is rendered.
FetchesDraft(l) ==
  /\ at[l] = "fetch" /\ approved[on[l]] # None /\ Proceeds(l, "render")
  /\ manifest' = [manifest EXCEPT ![l] = 0]
  /\ UNCHANGED <<tableVars, queue, fileVars, callVars, faults, letter, beat, unread, why>>

FetchesManifest(l) ==
  /\ at[l] = "fetch" /\ approved[on[l]] # None /\ Proceeds(l, "render")
  /\ manifest' = [manifest EXCEPT ![l] = approved[on[l]]]
  /\ UNCHANGED <<tableVars, queue, fileVars, callVars, faults, letter, beat, unread, why>>

Rendered(l) ==
  /\ at[l] = "render" /\ status[on[l]] = "redacting" /\ Proceeds(l, "output")
  /\ UNCHANGED <<tableVars, queue, fileVars, callVars, faults, loopVars>>

PutsOutput(l) ==
  /\ at[l] = "output" /\ Proceeds(l, "complete")
  /\ output' = [output EXCEPT ![on[l]] = manifest[l]]
  /\ UNCHANGED <<tableVars, queue, approved, callVars, faults, loopVars>>

\* Mutant: whoever lost the row is done.
LostRaceIgnored(l) ==
  /\ at[l] = "lost" /\ Proceeds(l, "ack") /\ Rests(l, "ack")
  /\ UNCHANGED <<tableVars, queue, fileVars, callVars, faults, letter, unread, manifest, why>>

\* _mark_complete lost the row: a deleted job's output is removed again.
LostRace(l) ==
  /\ at[l] = "lost" /\ Proceeds(l, "fail") /\ Rests(l, "fail")
  /\ why' = [why EXCEPT ![l] = "cancelled"]
  /\ IF status[on[l]] = "deleted"
       THEN /\ approved' = [approved EXCEPT ![on[l]] = None]
            /\ output' = [output EXCEPT ![on[l]] = None]
       ELSE UNCHANGED fileVars
  /\ UNCHANGED <<tableVars, queue, callVars, faults, letter, unread, manifest>>

\* _assert_active finds the row in another status: JobCancelled.
Cancelled(l) ==
  /\ \/ at[l] = "detect" /\ unread[l] \in {0, Pages} /\ status[on[l]] # "detecting"
     \/ at[l] = "render" /\ status[on[l]] # "redacting"
  /\ Raises(l, "cancelled") /\ UNCHANGED faults

\* The approved manifest went with a deleted job.
ManifestGone(l) ==
  /\ at[l] = "fetch" /\ approved[on[l]] = None
  /\ Raises(l, "other") /\ UNCHANGED faults

\* The document cannot be read, or the rendering shows what it should hide.
DocumentFails(l) ==
  /\ \/ at[l] \in {"detect", "fetch"} /\ Raises(l, "other")
     \/ at[l] = "render" /\ Raises(l, "invalid")
  /\ Fault("bad_document")

\* DetectorUnavailable: the job is handed back.
ModelDown(l) ==
  /\ at[l] = "detect" /\ Proceeds(l, "release") /\ Rests(l, "release")
  /\ Fault("model_down")
  /\ UNCHANGED <<tableVars, queue, fileVars, callVars, letter, unread, manifest, why>>

-----------------------------------------------------------------------------
(* After the pipeline.                                                     *)

\* fail: what becomes of the row depends on what it says now.
Fails(l) ==
  /\ at[l] = "fail"
  /\ Proceeds(l, CASE status[on[l]] \in {"deleted", "complete"} \/ why[l] = "cancelled" -> "ack"
                   [] status[on[l]] = "redacting" /\ why[l] = "invalid" /\ ~auto[on[l]] -> "review"
                   [] OTHER -> "failed")
  /\ IF status[on[l]] = "deleted"
       THEN /\ approved' = [approved EXCEPT ![on[l]] = None]
            /\ output' = [output EXCEPT ![on[l]] = None]
       ELSE UNCHANGED fileVars
  /\ UNCHANGED <<tableVars, queue, callVars, faults, loopVars>>

PutsDown(l) ==
  /\ letter' = [letter EXCEPT ![l] = NoLetter]
  /\ beat' = [beat EXCEPT ![l] = Cycle]
  /\ unread' = [unread EXCEPT ![l] = 0]
  /\ manifest' = [manifest EXCEPT ![l] = None]
  /\ why' = [why EXCEPT ![l] = "none"]

AcknowledgesMessage(l) ==
  /\ at[l] = "ack" /\ Proceeds(l, "idle")
  /\ Acknowledge(letter[l].message, letter[l].handle)
  /\ PutsDown(l)
  /\ UNCHANGED <<tableVars, fileVars, callVars, faults>>

\* Mutant: a message that is handed back is acknowledged.
ReturnsMessageAcknowledged(l) ==
  /\ at[l] = "return" /\ Proceeds(l, "idle")
  /\ Acknowledge(letter[l].message, letter[l].handle)
  /\ PutsDown(l)
  /\ UNCHANGED <<tableVars, fileVars, callVars, faults>>

ReturnsMessage(l) ==
  /\ at[l] = "return" /\ Proceeds(l, "idle")
  /\ Release(letter[l].message, letter[l].handle)
  /\ PutsDown(l)
  /\ UNCHANGED <<tableVars, fileVars, callVars, faults>>

\* The instance is interrupted: nothing is told to anybody.
LoopCrashes(l) ==
  /\ at[l] # "idle" /\ Dies(l) /\ PutsDown(l)
  /\ Fault("worker_crash")
  /\ UNCHANGED <<queue, tableVars, fileVars, callVars>>

-----------------------------------------------------------------------------
(* Time.                                                                   *)

Heartbeat(l) ==
  /\ at[l] \in Pipeline /\ beat[l] <= Lag
  /\ beat' = [beat EXCEPT ![l] = Cycle]
  /\ \/ Renew(letter[l].message, letter[l].handle) /\ UNCHANGED faults
     \/ UNCHANGED queue /\ Fault("renewal_fails")
  /\ UNCHANGED <<processVars, tableVars, fileVars, callVars, letter, unread, manifest, why>>

\* What is due happens before time goes on.
StepInTime == \A l \in Loop : at[l] # "idle" => beat[l] > 0

Tick ==
  /\ StepInTime
  /\ Ages /\ QueueAges
  /\ beat' = [l \in Loop |-> IF at[l] = "idle" THEN beat[l] ELSE beat[l] - 1]
  /\ UNCHANGED <<processVars, status, auto, fileVars, callVars, faults, letter, unread, manifest, why>>

LoopContinues(l) ==
  \/ LoopReads(l) \/ LoopPuts(l) \/ LoopLoses(l) \/ LooksAtRow(l)
  \/ ReportsPage(l) \/ Detected(l) \/ PutsManifests(l) \/ FetchesManifest(l) \/ Rendered(l) \/ PutsOutput(l)
  \/ LostRace(l) \/ Cancelled(l) \/ ManifestGone(l)
  \/ Fails(l) \/ AcknowledgesMessage(l) \/ ReturnsMessage(l)

LoopStarts(l) == \E m \in Message : ReceiveMessage(l, m)

LoopFaults(l) == DocumentFails(l) \/ ModelDown(l) \/ LoopCrashes(l)
=============================================================================
