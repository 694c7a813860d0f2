------------------------- MODULE CloudFiles_proofs --------------------------
(***************************************************************************)
(* What the AWS deployment delivers, for any jobs, callers, document       *)
(* loops, message slots, faults and settings: the last accepted review,    *)
(* along the contract, while no message is in doubt and the reviews of a   *)
(* job come one at a time.                                                 *)
(***************************************************************************)
EXTENDS CloudRuntime_proofs

USE TableAssumption, QueueAssumption, CloudServiceAssumption, CloudWorkerAssumption, CycleTime

-----------------------------------------------------------------------------
(* What a step does, seen from one job, one call and one loop.             *)

\* The row and the files of a job change at most in the status.
OnlyStatus(j, s) ==
  /\ status'[j] = s /\ auto'[j] = auto[j]
  /\ reviews'[j] = reviews[j] /\ accepted'[j] = accepted[j]
  /\ approved'[j] = approved[j] /\ output'[j] = output[j]

Same(j) == OnlyStatus(j, status[j])

Elsewhere(j) == \A k \in Job \ {j} : Same(k)

PlaceSame(p) == at'[p] = at[p] /\ on'[p] = on[p]

CallSame(c) == PlaceSame(c) /\ was'[c] = was[c] /\ carries'[c] = carries[c] /\ before'[c] = before[c]

LoopSame(l) == PlaceSame(l) /\ letter'[l] = letter[l] /\ manifest'[l] = manifest[l] /\ why'[l] = why[l]

\* Process p moves on, or stops.
MovesTo(p, step) == at'[p] = step /\ on'[p] = IF step = "idle" THEN None ELSE on[p]

\* What the others had read is outdated by a put of p, and by nothing else.
ReadingsStay(p) == \A q \in Proc \ {p} : reading'[q] = reading[q]

ReadingsAge(p) == \A q \in Proc \ {p} :
  reading'[q] = IF on[q] = on[p] /\ reading[q] = "fresh" THEN "stale" ELSE reading[q]

\* The steps of a call.
Creates(c, j) ==
  /\ status[j] = "none" /\ status'[j] = "awaiting_upload"
  /\ accepted'[j] = accepted[j] /\ reviews'[j] = reviews[j] /\ approved'[j] = approved[j] /\ output'[j] = output[j]
  /\ Elsewhere(j)
  /\ CallSame(c) \/ (at[c] = "idle" /\ at'[c] = "reject" /\ on'[c] = j)
  /\ \A p \in Proc : reading'[p] = reading[p]

Starts(c, j, step) ==
  /\ at[c] = "idle" /\ at'[c] = step /\ on'[c] = j
  /\ \A p \in Proc : reading'[p] = reading[p]
  /\ Elsewhere(j)

StartsSubmit(c, j) ==
  /\ Starts(c, j, "submit") \/ Starts(c, j, "reject")
  /\ Same(j)
  /\ status[j] = "awaiting_upload" /\ was'[c] = "awaiting_upload"

StartsReview(c, j) ==
  /\ Starts(c, j, "write")
  /\ status[j] \in Reviewable /\ was'[c] = status[j]
  /\ reviews'[j] = reviews[j] + 1 /\ carries'[c] = reviews'[j]
  /\ status'[j] = status[j] /\ auto'[j] = auto[j] /\ accepted'[j] = accepted[j]
  /\ approved'[j] = approved[j] /\ output'[j] = output[j]

StartsDelete(c, j) ==
  /\ Starts(c, j, IF status[j] = "deleted" THEN "purge" ELSE "bury") /\ Same(j) /\ status[j] # "none"

WritesReview(c, j) ==
  /\ at[c] = "write" /\ MovesTo(c, "finalize")
  /\ was'[c] = was[c] /\ carries'[c] = carries[c]
  /\ approved'[j] = carries[c]
  /\ status'[j] = status[j] /\ auto'[j] = auto[j] /\ accepted'[j] = accepted[j]
  /\ reviews'[j] = reviews[j] /\ output'[j] = output[j]
  /\ Elsewhere(j) /\ ReadingsStay(c) /\ reading'[c] = "nothing"

CallGoesOn(c) ==
  /\ \A j \in Job : Same(j)
  /\ was'[c] = was[c] /\ carries'[c] = carries[c]
  /\ ReadingsStay(c)
  /\ \/ /\ at[c] \in CallUpdating /\ PlaceSame(c) /\ before'[c] = before[c]
        /\ reading'[c] = "fresh" /\ status[on[c]] \in CallUpdate(c).from
     \/ /\ reading'[c] = "nothing"
        /\ MovesTo(c, "idle") \/ MovesTo(c, "not_found")
     \/ /\ reading'[c] = "nothing" /\ before'[c] = before[c]
        /\ at[c] = "send" /\ MovesTo(c, "undo") /\ Happened("send_fails")'

CallPut(c, j, step, s, next) ==
  /\ at[c] = step /\ MovesTo(c, next)
  /\ reading[c] = "fresh" /\ reading'[c] = "nothing" /\ ReadingsAge(c)
  /\ status'[j] = s
  /\ reviews'[j] = reviews[j] /\ approved'[j] = approved[j] /\ output'[j] = output[j]
  /\ was'[c] = was[c] /\ carries'[c] = carries[c]
  /\ Elsewhere(j)

PutsSubmitted(c, j) ==
  /\ CallPut(c, j, "submit", "queued_detection", "send")
  /\ auto'[j] = auto[j] /\ accepted'[j] = accepted[j] /\ before'[c] = 0

PutsRejected(c, j) ==
  /\ CallPut(c, j, "reject", "failed", "idle")
  /\ auto'[j] = auto[j] /\ accepted'[j] = accepted[j]

PutsReviewed(c, j) ==
  /\ CallPut(c, j, "finalize", "queued_redaction", "send")
  /\ auto'[j] = FALSE /\ accepted'[j] = carries[c] /\ before'[c] = accepted[j]

PutsBack(c, j) ==
  /\ CallPut(c, j, "undo", was[c], "idle")
  /\ auto'[j] = auto[j] /\ accepted'[j] = before[c]

PutsDeleted(c, j) ==
  /\ CallPut(c, j, "bury", "deleted", "purge")
  /\ auto'[j] = auto[j] /\ accepted'[j] = accepted[j]

PurgesFiles(c, j) ==
  /\ at[c] = "purge" /\ MovesTo(c, "idle")
  /\ approved'[j] = None /\ output'[j] = None
  /\ status'[j] = status[j] /\ auto'[j] = auto[j] /\ accepted'[j] = accepted[j] /\ reviews'[j] = reviews[j]
  /\ Elsewhere(j) /\ ReadingsStay(c) /\ reading'[c] = "nothing"

CallDoes(c, j) ==
  \/ WritesReview(c, j)
  \/ PutsSubmitted(c, j) \/ PutsRejected(c, j) \/ PutsReviewed(c, j) \/ PutsBack(c, j) \/ PutsDeleted(c, j)
  \/ PurgesFiles(c, j)

LEMMA CallSteps ==
  ASSUME TypeInv, NEW c \in Client, ClientNext(c)
  PROVE  /\ \A d \in Client \ {c} : CallSame(d)
         /\ \A l \in Loop : LoopSame(l)
         /\ \/ \E j \in Job : Creates(c, j) \/ StartsSubmit(c, j) \/ StartsReview(c, j) \/ StartsDelete(c, j)
            \/ at[c] # "idle" /\ on[c] \in Job /\ CallDoes(c, on[c])
            \/ at[c] # "idle" /\ on[c] \in Job /\ CallGoesOn(c)
<1> DEFINE Others == (\A d \in Client \ {c} : CallSame(d)) /\ (\A l \in Loop : LoopSame(l))
           Begun == \E j \in Job : Creates(c, j) \/ StartsSubmit(c, j) \/ StartsReview(c, j) \/ StartsDelete(c, j)
           Done == at[c] # "idle" /\ on[c] \in Job /\ CallDoes(c, on[c])
           GoneOn == at[c] # "idle" /\ on[c] \in Job /\ CallGoesOn(c)
<1>0. /\ c \in Proc /\ Client \subseteq Proc /\ Loop \subseteq Proc \ {c}
      /\ at \in [Proc -> Step] /\ on \in [Proc -> Job \cup {None}] /\ reading \in [Proc -> {"nothing", "fresh", "stale"}]
      /\ at[c] # "idle" => on[c] \in Job
      /\ was \in [Client -> JobStatus \cup {None}] /\ carries \in [Client -> Review] /\ before \in [Client -> Review]
      /\ accepted \in [Job -> Review] /\ reviews \in [Job -> Review] /\ status \in [Job -> JobStatus \cup {"none"}]
      /\ auto \in [Job -> BOOLEAN] /\ approved \in [Job -> Review \cup {None}] /\ output \in [Job -> Review \cup {None}]
  BY DEF TypeInv, ProcTypeOK, BusyWithJob, CallTypeOK, RowTypeOK, FileTypeOK
<1>1. Others
  <2>1. \A p \in Proc \ {c} : at'[p] = at[p] /\ on'[p] = on[p]
    BY CallFrame
  <2>2. \A d \in Client \ {c} : was'[d] = was[d] /\ carries'[d] = carries[d] /\ before'[d] = before[d]
    BY <1>0 DEF ClientNext, CallStarts, CreateJob, Submit, Finalize, Delete, CallContinues, FinalizeWrites,
       CallReads, CallPuts, CallLoses, Sends, SendFails, DeletePurges, DeleteAnswersNotFound, CallDies, callVars
  <2> QED
    BY <1>0, <2>1, <2>2 DEF CallSame, LoopSame, PlaceSame, ClientNext, loopVars
<1>2. ASSUME UNCHANGED <<tableVars, fileVars, reviews, accepted>> PROVE \A j \in Job : Same(j)
  BY <1>2 DEF tableVars, fileVars, Same, OnlyStatus
<1>3. ASSUME NEW j \in Job, CreateJob(c, j) PROVE Begun
  <2>1. CallSame(c) \/ (at[c] = "idle" /\ at'[c] = "reject" /\ on'[c] = j)
    BY <1>0, <1>3 DEF CreateJob, Begins, CallSame, PlaceSame
  <2>2. Creates(c, j)
    BY <1>0, <1>3, <2>1 DEF CreateJob, Insert, fileVars, Creates, Elsewhere, Same, OnlyStatus
  <2> QED
    BY <2>2
<1>4. ASSUME NEW j \in Job, Submit(c, j) PROVE Begun
  <2>1. StartsSubmit(c, j)
    BY <1>0, <1>2, <1>4 DEF Submit, Begins, StartsSubmit, Starts, Elsewhere
  <2> QED
    BY <2>1
<1>5. ASSUME NEW j \in Job, Finalize(c, j) PROVE Begun
  <2>1. StartsReview(c, j)
    <3>1. Starts(c, j, "write")
      BY <1>0, <1>5 DEF Finalize, Begins, Starts, tableVars, fileVars, Elsewhere, Same, OnlyStatus
    <3> QED
      BY <1>0, <1>5, <3>1 DEF Finalize, StartsReview, tableVars, fileVars
  <2> QED
    BY <2>1
<1>6. ASSUME NEW j \in Job, Delete(c, j) PROVE Begun
  <2>1. StartsDelete(c, j)
    BY <1>0, <1>2, <1>6 DEF Delete, Begins, StartsDelete, Starts, Elsewhere, callVars
  <2> QED
    BY <2>1
<1>g. ASSUME NEW step, Goto(c, step) PROVE MovesTo(c, step)
  BY <1>0, <1>g DEF Goto, MovesTo
<1>7. ASSUME FinalizeWrites(c) PROVE Done
  <2>1. at[c] # "idle" /\ on[c] \in Job
    BY <1>0, <1>7 DEF FinalizeWrites
  <2>2. WritesReview(c, on[c])
    BY <1>0, <1>7, <1>g, <2>1 DEF FinalizeWrites, Proceeds, WritesReview, ReadingsStay, tableVars, callVars,
       Elsewhere, Same, OnlyStatus
  <2> QED
    BY <2>1, <2>2 DEF CallDoes
<1>u. ASSUME at[c] \in CallUpdating
      PROVE  /\ at[c] # "idle" /\ CallUpdate(c).lost \in {"idle", "not_found"}
             /\ at[c] = "submit" => CallUpdate(c).to = "queued_detection" /\ CallUpdate(c).done = "send"
             /\ at[c] = "reject" => CallUpdate(c).to = "failed" /\ CallUpdate(c).done = "idle"
             /\ at[c] = "finalize" => CallUpdate(c).to = "queued_redaction" /\ CallUpdate(c).done = "send"
             /\ at[c] = "undo" => CallUpdate(c).to = was[c] /\ CallUpdate(c).done = "idle"
             /\ at[c] = "bury" => CallUpdate(c).to = "deleted" /\ CallUpdate(c).done = "purge"
  <2>1. CASE at[c] = "submit"
    BY <2>1 DEF CallUpdate
  <2>2. CASE at[c] = "finalize"
    BY <2>2 DEF CallUpdate
  <2>3. CASE at[c] = "undo"
    BY <2>3 DEF CallUpdate
  <2>4. CASE at[c] = "bury"
    BY <2>4 DEF CallUpdate
  <2>5. CASE at[c] = "reject"
    BY <2>5 DEF CallUpdate
  <2> QED
    BY <1>u, <2>1, <2>2, <2>3, <2>4, <2>5 DEF CallUpdating
<1>8. ASSUME CallReads(c) PROVE GoneOn
  <2>1. at[c] \in CallUpdating /\ (\A j \in Job : Same(j)) /\ UNCHANGED <<was, carries, before>>
    BY <1>2, <1>8 DEF CallReads, UpdateReads, callVars
  <2>2. CASE status[on[c]] \in CallUpdate(c).from
    <3>1. reading'[c] = "fresh" /\ ReadingsStay(c) /\ PlaceSame(c)
      BY <1>0, <1>8, <2>2 DEF CallReads, UpdateReads, ReadingsStay, PlaceSame
    <3> QED
      BY <1>0, <1>u, <2>1, <2>2, <3>1 DEF CallGoesOn
  <2>3. CASE status[on[c]] \notin CallUpdate(c).from
    <3>1. reading'[c] = "nothing" /\ ReadingsStay(c) /\ MovesTo(c, CallUpdate(c).lost)
      BY <1>0, <1>8, <1>g, <2>3 DEF CallReads, UpdateReads, ReadingsStay
    <3> QED
      BY <1>0, <1>u, <2>1, <3>1 DEF CallGoesOn
  <2> QED
    BY <2>2, <2>3
<1>9. ASSUME CallPuts(c) PROVE Done
  <2>0. at[c] \in CallUpdating /\ at[c] # "idle" /\ on[c] \in Job
    BY <1>0, <1>9, <1>u DEF CallPuts
  <2>1. CallPut(c, on[c], at[c], CallUpdate(c).to, CallUpdate(c).done)
    <3>1. MovesTo(c, CallUpdate(c).done) /\ reading[c] = "fresh" /\ reading'[c] = "nothing" /\ ReadingsAge(c)
      BY <1>0, <1>9, <1>g DEF CallPuts, Puts, Outdates, ReadingsAge
    <3>2. status'[on[c]] = CallUpdate(c).to
      BY <1>0, <1>9, <2>0 DEF CallPuts, Puts
    <3>3. ASSUME NEW k \in Job \ {on[c]} PROVE Same(k)
      <4>1. accepted'[k] = accepted[k]
        <5>1. CASE at[c] \in {"finalize", "undo"}
          BY <1>0, <1>9, <5>1 DEF CallPuts
        <5>2. CASE at[c] \notin {"finalize", "undo"}
          BY <1>0, <1>9, <5>2 DEF CallPuts
        <5> QED
          BY <5>1, <5>2
      <4> QED
        BY <1>0, <1>9, <4>1 DEF CallPuts, Puts, fileVars, Same, OnlyStatus
    <3> QED
      BY <1>9, <3>1, <3>2, <3>3 DEF CallPut, CallPuts, fileVars, Elsewhere
  <2>2. CASE at[c] = "submit"
    BY <1>0, <1>9, <1>u, <2>0, <2>1, <2>2 DEF CallPuts, PutsSubmitted, CallDoes
  <2>3. CASE at[c] = "finalize"
    BY <1>0, <1>9, <1>u, <2>0, <2>1, <2>3 DEF CallPuts, PutsReviewed, CallDoes
  <2>4. CASE at[c] = "undo"
    BY <1>0, <1>9, <1>u, <2>0, <2>1, <2>4 DEF CallPuts, PutsBack, CallDoes
  <2>5. CASE at[c] = "bury"
    BY <1>0, <1>9, <1>u, <2>0, <2>1, <2>5 DEF CallPuts, PutsDeleted, CallDoes
  <2>6. CASE at[c] = "reject"
    BY <1>0, <1>9, <1>u, <2>0, <2>1, <2>6 DEF CallPuts, PutsRejected, CallDoes
  <2> QED
    BY <2>0, <2>2, <2>3, <2>4, <2>5, <2>6 DEF CallUpdating
<1>10. ASSUME CallLoses(c) PROVE GoneOn
  <2>1. at[c] \in CallUpdating /\ (\A j \in Job : Same(j)) /\ UNCHANGED <<was, carries, before>>
    BY <1>2, <1>10 DEF CallLoses, PutFails, callVars
  <2>2. reading'[c] = "nothing" /\ ReadingsStay(c) /\ MovesTo(c, CallUpdate(c).lost)
    BY <1>0, <1>10, <1>g DEF CallLoses, PutFails, ReadingsStay
  <2> QED
    BY <1>0, <1>u, <2>1, <2>2 DEF CallGoesOn
<1>11. ASSUME (\E m \in Message : Sends(c, m)) \/ DeleteAnswersNotFound(c) PROVE GoneOn
  <2>1. at[c] # "idle" /\ (\A j \in Job : Same(j)) /\ UNCHANGED <<was, carries>>
    BY <1>2, <1>11 DEF Sends, DeleteAnswersNotFound
  <2>2. reading'[c] = "nothing" /\ ReadingsStay(c) /\ MovesTo(c, "idle")
    BY <1>0, <1>11, <1>g DEF Sends, DeleteAnswersNotFound, Proceeds, ReadingsStay
  <2> QED
    BY <1>0, <2>1, <2>2 DEF CallGoesOn
<1>12. ASSUME SendFails(c) PROVE GoneOn
  <2>1. at[c] = "send" /\ (\A j \in Job : Same(j)) /\ UNCHANGED <<was, carries, before>>
    BY <1>2, <1>12 DEF SendFails, callVars
  <2>2. reading'[c] = "nothing" /\ ReadingsStay(c) /\ MovesTo(c, "undo")
    BY <1>0, <1>12, <1>g DEF SendFails, Proceeds, ReadingsStay
  <2>3. Happened("send_fails")'
    BY <1>12, FaultHappens DEF SendFails, TypeInv
  <2> QED
    BY <1>0, <2>1, <2>2, <2>3 DEF CallGoesOn
<1>13. ASSUME DeletePurges(c) PROVE Done
  <2>1. at[c] # "idle" /\ on[c] \in Job
    BY <1>0, <1>13 DEF DeletePurges
  <2>2. PurgesFiles(c, on[c])
    BY <1>0, <1>13, <1>g, <2>1 DEF DeletePurges, Proceeds, PurgesFiles, ReadingsStay, tableVars,
       Elsewhere, Same, OnlyStatus
  <2> QED
    BY <2>1, <2>2 DEF CallDoes
<1>14. ASSUME CallDies(c) PROVE GoneOn
  <2>1. at[c] # "idle" /\ (\A j \in Job : Same(j)) /\ UNCHANGED <<was, carries>>
    BY <1>2, <1>14 DEF CallDies, callVars
  <2>2. reading'[c] = "nothing" /\ ReadingsStay(c) /\ MovesTo(c, "idle")
    BY <1>0, <1>14, <1>g DEF CallDies, Dies, ReadingsStay
  <2> QED
    BY <1>0, <2>1, <2>2 DEF CallGoesOn
<1> QED
  <2> HIDE DEF Others, Begun, Done, GoneOn
  <2>1. Begun \/ Done \/ GoneOn
    BY <1>3, <1>4, <1>5, <1>6, <1>7, <1>8, <1>9, <1>10, <1>11, <1>12, <1>13, <1>14
    DEF ClientNext, CallStarts, CallContinues
  <2> QED
    BY <1>1, <2>1 DEF Others, Begun, Done, GoneOn

-----------------------------------------------------------------------------
(* The steps of a loop.                                                    *)

Receives(l, m) ==
  /\ at[l] = "idle" /\ at'[l] = "look" /\ on'[l] = queue[m].says[1]
  /\ Visible(m) /\ Receive(m)
  /\ letter'[l] = [message |-> m, handle |-> queue'[m].received, task |-> queue[m].says[2], auto |-> FALSE]
  /\ manifest'[l] = manifest[l]
  /\ (\A j \in Job : Same(j)) /\ \A p \in Proc : reading'[p] = reading[p]

\* Where a loop goes without a row, a file or a receipt.
Walks(l) ==
  \/ /\ why'[l] = why[l]
     /\ \/ at[l] = "look" /\ MovesTo(l, IF LeaseHeld(l) THEN "return" ELSE "claim")
        \/ at[l] = "detect" /\ (MovesTo(l, "progress") \/ MovesTo(l, "release"))
        \/ at[l] = "detect" /\ status[on[l]] = "detecting" /\ MovesTo(l, "findings")
        \/ at[l] = "render" /\ status[on[l]] = "redacting" /\ MovesTo(l, "output")
        \/ at[l] = "fail" /\ MovesTo(l, "ack") /\ (status[on[l]] = "complete" \/ why[l] = "cancelled")
        \/ at[l] = "fail" /\ MovesTo(l, "review") /\ status[on[l]] = "redacting" /\ ~auto[on[l]]
        \/ at[l] = "fail" /\ MovesTo(l, "failed")
  \/ /\ at[l] \in {"detect", "fetch", "render"} /\ MovesTo(l, "fail")
     /\ why'[l] = "cancelled" => \/ at[l] = "detect" /\ status[on[l]] # "detecting"
                                 \/ at[l] = "render" /\ status[on[l]] # "redacting"
  \/ /\ at[l] = "lost" /\ MovesTo(l, "fail") /\ status[on[l]] # "deleted"

LoopGoesOn(l) ==
  /\ \A j \in Job : Same(j)
  /\ letter'[l] = letter[l] /\ manifest'[l] = manifest[l]
  /\ ReadingsStay(l)
  /\ \/ LoopSame(l) /\ reading'[l] = reading[l]
     \/ /\ at[l] \in LoopUpdating /\ LoopSame(l) /\ reading[l] = "nothing"
        /\ reading'[l] = "fresh" /\ status[on[l]] \in LoopUpdate(l).from
     \/ /\ at[l] \in LoopUpdating /\ reading'[l] = "nothing" /\ MovesTo(l, LoopUpdate(l).lost)
        /\ reading[l] = "stale" \/ (reading[l] = "nothing" /\ status[on[l]] \notin LoopUpdate(l).from)
        /\ why'[l] \in {why[l], "other"}
     \/ Walks(l) /\ reading[l] = "nothing" /\ reading'[l] = "nothing"

Erases(l, j) ==
  /\ at[l] \in {"lost", "fail"} /\ status[j] = "deleted"
  /\ MovesTo(l, "fail") \/ MovesTo(l, "ack")
  /\ approved'[j] = None /\ output'[j] = None
  /\ status'[j] = status[j] /\ auto'[j] = auto[j] /\ accepted'[j] = accepted[j] /\ reviews'[j] = reviews[j]
  /\ letter'[l] = letter[l] /\ manifest'[l] = manifest[l]
  /\ Elsewhere(j) /\ ReadingsStay(l) /\ reading'[l] = "nothing"

WritesManifests(l, j) ==
  /\ at[l] = "draft" /\ MovesTo(l, "handoff")
  /\ approved'[j] = (IF letter[l].auto THEN 0 ELSE approved[j]) /\ manifest'[l] = 0
  /\ status'[j] = status[j] /\ auto'[j] = auto[j] /\ accepted'[j] = accepted[j] /\ reviews'[j] = reviews[j]
  /\ output'[j] = output[j] /\ letter'[l] = letter[l] /\ why'[l] = why[l]
  /\ Elsewhere(j) /\ ReadingsStay(l) /\ reading'[l] = "nothing"

Fetches(l, j) ==
  /\ at[l] = "fetch" /\ MovesTo(l, "render")
  /\ approved[j] # None /\ manifest'[l] = approved[j]
  /\ Same(j) /\ letter'[l] = letter[l] /\ why'[l] = why[l]
  /\ Elsewhere(j) /\ ReadingsStay(l) /\ reading'[l] = "nothing"

StoresOutput(l, j) ==
  /\ at[l] = "output" /\ MovesTo(l, "complete")
  /\ output'[j] = manifest[l]
  /\ status'[j] = status[j] /\ auto'[j] = auto[j] /\ accepted'[j] = accepted[j] /\ reviews'[j] = reviews[j]
  /\ approved'[j] = approved[j] /\ letter'[l] = letter[l] /\ manifest'[l] = manifest[l] /\ why'[l] = why[l]
  /\ Elsewhere(j) /\ ReadingsStay(l) /\ reading'[l] = "nothing"

\* What the updates of a loop make of a row, and where they lead.
LoopTurns(l, j) ==
  LET s == status'[j] IN
  \/ at[l] = "claim" /\ letter[l].task = "detect" /\ s = "detecting" /\ at'[l] = "pages"
  \/ at[l] = "claim" /\ letter[l].task = "redact" /\ s = "redacting" /\ at'[l] = "fetch"
  \/ at[l] \in {"pages", "progress"} /\ s = "detecting" /\ at'[l] = "detect"
  \/ at[l] = "findings" /\ s = "detecting" /\ at'[l] = "draft"
  \/ at[l] = "handoff" /\ letter[l].auto /\ s = "redacting" /\ at'[l] = "render"
  \/ at[l] = "handoff" /\ ~letter[l].auto /\ s = "review_required" /\ at'[l] = "ack"
  \/ at[l] = "complete" /\ s = "complete" /\ at'[l] = "ack"
  \/ at[l] = "review" /\ s = "review_required" /\ at'[l] = "ack"
  \/ at[l] = "failed" /\ s = "failed" /\ at'[l] = "ack"
  \/ at[l] = "release" /\ letter[l].task = "detect" /\ s = "queued_detection" /\ at'[l] = "return"
  \/ at[l] = "release" /\ letter[l].task = "redact" /\ s = "queued_redaction" /\ at'[l] = "return"

LoopPut(l, j) ==
  /\ at[l] \in LoopUpdating /\ LoopTurns(l, j) /\ on'[l] = on[l]
  /\ reading[l] = "fresh" /\ reading'[l] = "nothing" /\ ReadingsAge(l)
  /\ auto'[j] = auto[j] /\ accepted'[j] = accepted[j] /\ reviews'[j] = reviews[j]
  /\ approved'[j] = approved[j] /\ output'[j] = output[j]
  /\ letter'[l].message = letter[l].message /\ letter'[l].handle = letter[l].handle
  /\ letter'[l].task = letter[l].task
  /\ letter'[l].auto = IF at[l] = "claim" THEN auto[j] ELSE letter[l].auto
  /\ manifest'[l] = manifest[l] /\ why'[l] = why[l]
  /\ Elsewhere(j)

Leaves(l) ==
  /\ MovesTo(l, "idle")
  /\ at[l] \in {"ack", "return"} \/ Happened("worker_crash")'
  /\ letter'[l] = NoLetter
  /\ (\A j \in Job : Same(j)) /\ ReadingsStay(l) /\ reading'[l] = "nothing"

LoopDoes(l, j) ==
  Erases(l, j) \/ WritesManifests(l, j) \/ Fetches(l, j) \/ StoresOutput(l, j) \/ LoopPut(l, j)

LEMMA LoopSteps ==
  ASSUME TypeInv, NEW l \in Loop, LoopNext(l)
  PROVE  /\ \A c \in Client : CallSame(c)
         /\ \A k \in Loop \ {l} : LoopSame(k)
         /\ \/ \E m \in Message : Receives(l, m)
            \/ at[l] # "idle" /\ on[l] \in Job /\ LoopDoes(l, on[l])
            \/ at[l] # "idle" /\ on[l] \in Job /\ LoopGoesOn(l)
            \/ at[l] # "idle" /\ on[l] \in Job /\ Leaves(l)
<1> DEFINE Others == (\A c \in Client : CallSame(c)) /\ (\A k \in Loop \ {l} : LoopSame(k))
           Begun == \E m \in Message : Receives(l, m)
           Done == at[l] # "idle" /\ on[l] \in Job /\ LoopDoes(l, on[l])
           GoneOn == at[l] # "idle" /\ on[l] \in Job /\ LoopGoesOn(l)
           Left == at[l] # "idle" /\ on[l] \in Job /\ Leaves(l)
<1>0. /\ l \in Proc /\ Loop \subseteq Proc /\ Client \subseteq Proc \ {l}
      /\ at \in [Proc -> Step] /\ on \in [Proc -> Job \cup {None}] /\ reading \in [Proc -> {"nothing", "fresh", "stale"}]
      /\ at[l] # "idle" => on[l] \in Job
      /\ status \in [Job -> JobStatus \cup {"none"}]
      /\ approved \in [Job -> Review \cup {None}] /\ output \in [Job -> Review \cup {None}]
      /\ letter \in [Loop -> [message : Message \cup {NoMessage}, handle : 0 .. MaxReceive,
                              task : Task, auto : BOOLEAN]]
      /\ manifest \in [Loop -> Review \cup {None}] /\ why \in [Loop -> Exception]
  BY DEF TypeInv, ProcTypeOK, BusyWithJob, CloudWorkerTypeOK, RowTypeOK, FileTypeOK
<1>1. Others
  <2>1. \A p \in Proc \ {l} : at'[p] = at[p] /\ on'[p] = on[p]
    BY LoopFrame
  <2>2. \A k \in Loop \ {l} : letter'[k] = letter[k] /\ manifest'[k] = manifest[k] /\ why'[k] = why[k]
    BY <1>0 DEF LoopNext, LoopStarts, LoopContinues, LoopFaults, Heartbeat, ReceiveMessage, LoopReads,
        LoopPuts, LoopLoses, LooksAtRow, ReportsPage, Detected, PutsManifests, FetchesManifest, Rendered,
        PutsOutput, LostRace, Cancelled, ManifestGone, Fails, AcknowledgesMessage, ReturnsMessage,
        DocumentFails, ModelDown, LoopCrashes, Raises, Raised, PutsDown, loopVars
  <2>3. UNCHANGED <<was, carries, before>>
    BY DEF LoopNext, LoopStarts, LoopContinues, LoopFaults, Heartbeat, ReceiveMessage, LoopReads,
        LoopPuts, LoopLoses, LooksAtRow, ReportsPage, Detected, PutsManifests, FetchesManifest, Rendered,
        PutsOutput, LostRace, Cancelled, ManifestGone, Fails, AcknowledgesMessage, ReturnsMessage,
        DocumentFails, ModelDown, LoopCrashes, Raises, callVars
  <2> QED
    BY <1>0, <2>1, <2>2, <2>3 DEF CallSame, LoopSame, PlaceSame
<1>2. ASSUME UNCHANGED <<tableVars, fileVars, callVars>> PROVE \A j \in Job : Same(j)
  BY <1>2 DEF tableVars, fileVars, callVars, Same, OnlyStatus
<1>g. ASSUME NEW step, Goto(l, step) PROVE MovesTo(l, step)
  BY <1>0, <1>g DEF Goto, MovesTo
<1>p. ASSUME NEW step, Proceeds(l, step)
      PROVE  MovesTo(l, step) /\ ReadingsStay(l) /\ reading[l] = "nothing" /\ reading'[l] = "nothing"
  BY <1>g, <1>p DEF Proceeds, ReadingsStay
<1>3. ASSUME NEW m \in Message, ReceiveMessage(l, m) PROVE Begun
  <2>1. Receives(l, m)
    BY <1>0, <1>2, <1>3 DEF ReceiveMessage, Receives, Begins, Receive
  <2> QED
    BY <2>1
<1>u. ASSUME at[l] \in LoopUpdating PROVE at[l] # "idle"
  BY <1>u DEF LoopUpdating
<1>4. ASSUME LoopReads(l) PROVE GoneOn
  <2>1. /\ at[l] \in LoopUpdating /\ (\A j \in Job : Same(j)) /\ letter'[l] = letter[l] /\ manifest'[l] = manifest[l]
        /\ reading[l] = "nothing"
    BY <1>2, <1>4 DEF LoopReads, UpdateReads
  <2>2. CASE status[on[l]] \in LoopUpdate(l).from
    <3>1. reading'[l] = "fresh" /\ ReadingsStay(l) /\ PlaceSame(l)
      BY <1>0, <1>4, <2>2 DEF LoopReads, UpdateReads, ReadingsStay, PlaceSame
    <3>2. why'[l] = why[l]
      <4>1. at'[l] # "fail"
        BY <2>1, <3>1 DEF PlaceSame, LoopUpdating
      <4> QED
        BY <1>0, <1>4, <4>1 DEF LoopReads, Raised
    <3> QED
      BY <1>0, <1>u, <2>1, <2>2, <3>1, <3>2 DEF LoopGoesOn, LoopSame
  <2>3. CASE status[on[l]] \notin LoopUpdate(l).from
    <3>1. reading'[l] = "nothing" /\ ReadingsStay(l) /\ MovesTo(l, LoopUpdate(l).lost)
      BY <1>0, <1>4, <1>g, <2>1, <2>3 DEF LoopReads, UpdateReads, ReadingsStay
    <3>2. why'[l] \in {why[l], "other"}
      BY <1>0, <1>4 DEF LoopReads, Raised
    <3> QED
      BY <1>0, <1>u, <2>1, <2>3, <3>1, <3>2 DEF LoopGoesOn
  <2> QED
    BY <2>2, <2>3
<1>5. ASSUME LoopLoses(l) PROVE GoneOn
  <2>1. /\ at[l] \in LoopUpdating /\ (\A j \in Job : Same(j)) /\ letter'[l] = letter[l] /\ manifest'[l] = manifest[l]
        /\ reading[l] = "stale"
    BY <1>2, <1>5 DEF LoopLoses, PutFails
  <2>2. reading'[l] = "nothing" /\ ReadingsStay(l) /\ MovesTo(l, LoopUpdate(l).lost)
    BY <1>0, <1>5, <1>g DEF LoopLoses, PutFails, ReadingsStay
  <2>3. why'[l] \in {why[l], "other"}
    BY <1>0, <1>5 DEF LoopLoses, Raised
  <2> QED
    BY <1>0, <1>u, <2>1, <2>2, <2>3 DEF LoopGoesOn
<1>6. ASSUME LoopPuts(l) PROVE Done
  <2>0. at[l] \in LoopUpdating /\ at[l] # "idle" /\ on[l] \in Job
    BY <1>0, <1>6, <1>u DEF LoopPuts
  <2>1. status'[on[l]] = LoopUpdate(l).to /\ at'[l] = LoopUpdate(l).done /\ LoopUpdate(l).done # "idle" => LoopPut(l, on[l])
    <3> SUFFICES ASSUME status'[on[l]] = LoopUpdate(l).to, at'[l] = LoopUpdate(l).done, LoopUpdate(l).done # "idle"
                 PROVE  LoopPut(l, on[l])
      OBVIOUS
    <3>1. on'[l] = on[l] /\ reading[l] = "fresh" /\ reading'[l] = "nothing" /\ ReadingsAge(l)
      BY <1>0, <1>6 DEF LoopPuts, Puts, Goto, Outdates, ReadingsAge
    <3>2. \A j \in Job : /\ auto'[j] = auto[j] /\ accepted'[j] = accepted[j] /\ reviews'[j] = reviews[j]
                         /\ approved'[j] = approved[j] /\ output'[j] = output[j]
                         /\ j # on[l] => status'[j] = status[j]
      BY <1>0, <1>6 DEF LoopPuts, Puts, fileVars, callVars
    <3>3. /\ letter'[l].message = letter[l].message /\ letter'[l].handle = letter[l].handle
          /\ letter'[l].task = letter[l].task
          /\ letter'[l].auto = IF at[l] = "claim" THEN auto[on[l]] ELSE letter[l].auto
          /\ manifest'[l] = manifest[l] /\ why'[l] = why[l]
      BY <1>0, <1>6 DEF LoopPuts
    <3>4. LoopTurns(l, on[l])
      <4> USE DEF LoopUpdate
      <4>t. letter[l].task \in {"detect", "redact"}
        BY <1>0 DEF Task
      <4>1. CASE at[l] = "claim"
        BY <4>1, <4>t DEF LoopTurns, AfterClaim, InFlightFor
      <4>2. CASE at[l] \in {"pages", "progress", "findings"}
        BY <4>2 DEF LoopTurns
      <4>3. CASE at[l] = "handoff"
        BY <4>3 DEF LoopTurns, AfterHandOff
      <4>4. CASE at[l] \in {"complete", "review", "failed"}
        BY <4>4 DEF LoopTurns
      <4>5. CASE at[l] = "release"
        BY <4>5, <4>t DEF LoopTurns, QueuedFor
      <4> QED
        BY <2>0, <4>1, <4>2, <4>3, <4>4, <4>5 DEF LoopUpdating
    <3> QED
      BY <2>0, <3>1, <3>2, <3>3, <3>4 DEF LoopPut, Elsewhere, Same, OnlyStatus
  <2>2. LoopUpdate(l).done # "idle"
    <3> USE DEF LoopUpdate
    <3>1. CASE at[l] \in {"claim", "handoff"}
      BY <3>1 DEF AfterClaim, AfterHandOff
    <3>2. CASE at[l] \in {"pages", "progress", "findings", "complete"}
      BY <3>2
    <3>3. CASE at[l] \in {"review", "failed", "release"}
      BY <3>3
    <3> QED
      BY <2>0, <3>1, <3>2, <3>3 DEF LoopUpdating
  <2>3. status'[on[l]] = LoopUpdate(l).to /\ at'[l] = LoopUpdate(l).done
    BY <1>0, <1>6, <2>0 DEF LoopPuts, Puts, Goto
  <2> QED
    BY <2>0, <2>1, <2>2, <2>3 DEF LoopDoes
<1>w. ASSUME Walks(l), reading[l] = "nothing", reading'[l] = "nothing", ReadingsStay(l), at[l] # "idle",
             UNCHANGED <<tableVars, fileVars, callVars, letter, manifest>>
      PROVE  GoneOn
  BY <1>0, <1>2, <1>w DEF LoopGoesOn
<1>7. ASSUME LooksAtRow(l) \/ ReportsPage(l) \/ Detected(l) \/ Rendered(l) PROVE GoneOn
  <2>1. /\ UNCHANGED <<tableVars, fileVars, callVars, letter, manifest, why>> /\ at[l] # "idle"
        /\ \E step : Proceeds(l, step)
    BY <1>7 DEF LooksAtRow, ReportsPage, Detected, Rendered, loopVars
  <2>2. \/ at[l] = "look" /\ Proceeds(l, IF LeaseHeld(l) THEN "return" ELSE "claim")
        \/ at[l] = "detect" /\ Proceeds(l, "progress")
        \/ at[l] = "detect" /\ status[on[l]] = "detecting" /\ Proceeds(l, "findings")
        \/ at[l] = "render" /\ status[on[l]] = "redacting" /\ Proceeds(l, "output")
    BY <1>7 DEF LooksAtRow, ReportsPage, Detected, Rendered
  <2>3. Walks(l)
    BY <1>p, <2>1, <2>2 DEF Walks
  <2> QED
    BY <1>p, <1>w, <2>1, <2>3
<1>8. ASSUME NEW exception \in Exception, Raises(l, exception), at[l] \in {"detect", "fetch", "render"},
             exception = "cancelled" => \/ at[l] = "detect" /\ status[on[l]] # "detecting"
                                        \/ at[l] = "render" /\ status[on[l]] # "redacting"
      PROVE  GoneOn
  <2>1. /\ UNCHANGED <<tableVars, fileVars, callVars, letter, manifest>> /\ at[l] # "idle"
        /\ Proceeds(l, "fail") /\ why'[l] = exception
    BY <1>0, <1>8 DEF Raises
  <2>2. Walks(l)
    BY <1>8, <1>p, <2>1 DEF Walks
  <2> QED
    BY <1>p, <1>w, <2>1, <2>2
<1>9. ASSUME Cancelled(l) \/ ManifestGone(l) \/ DocumentFails(l) PROVE GoneOn
  BY <1>8, <1>9 DEF Cancelled, ManifestGone, DocumentFails, Exception
<1>10. ASSUME ModelDown(l) PROVE GoneOn
  <2>1. /\ UNCHANGED <<tableVars, fileVars, callVars, letter, manifest, why>> /\ at[l] = "detect"
        /\ Proceeds(l, "release")
    BY <1>10 DEF ModelDown
  <2>2. Walks(l)
    BY <1>p, <2>1 DEF Walks
  <2> QED
    BY <1>p, <1>w, <2>1, <2>2
<1>11. ASSUME PutsManifests(l) PROVE Done
  <2>1. WritesManifests(l, on[l]) /\ at[l] # "idle"
    BY <1>0, <1>p, <1>11 DEF PutsManifests, WritesManifests, tableVars, callVars, Elsewhere, Same, OnlyStatus
  <2> QED
    BY <1>0, <2>1 DEF LoopDoes
<1>12. ASSUME FetchesManifest(l) PROVE Done
  <2>1. Fetches(l, on[l]) /\ at[l] # "idle"
    BY <1>0, <1>2, <1>p, <1>12 DEF FetchesManifest, Fetches, Elsewhere
  <2> QED
    BY <1>0, <2>1 DEF LoopDoes
<1>13. ASSUME PutsOutput(l) PROVE Done
  <2>1. StoresOutput(l, on[l]) /\ at[l] # "idle"
    BY <1>0, <1>p, <1>13 DEF PutsOutput, StoresOutput, tableVars, callVars, loopVars, Elsewhere, Same, OnlyStatus
  <2> QED
    BY <1>0, <2>1 DEF LoopDoes
<1>e. ASSUME at[l] \in {"lost", "fail"}, status[on[l]] = "deleted", NEW step \in {"fail", "ack"},
             Proceeds(l, step), approved' = [approved EXCEPT ![on[l]] = None],
             output' = [output EXCEPT ![on[l]] = None],
             UNCHANGED <<tableVars, callVars, letter, manifest>>
      PROVE  Done
  <2>1. Erases(l, on[l]) /\ at[l] # "idle"
    BY <1>0, <1>p, <1>e DEF Erases, tableVars, callVars, Elsewhere, Same, OnlyStatus
  <2> QED
    BY <1>0, <2>1 DEF LoopDoes
<1>14. ASSUME LostRace(l) PROVE Done \/ GoneOn
  <2>1. CASE status[on[l]] = "deleted"
    BY <1>e, <1>14, <2>1 DEF LostRace
  <2>2. CASE status[on[l]] # "deleted"
    <3>1. /\ UNCHANGED <<tableVars, fileVars, callVars, letter, manifest>> /\ at[l] = "lost"
          /\ Proceeds(l, "fail")
      BY <1>14, <2>2 DEF LostRace
    <3>2. Walks(l)
      BY <1>p, <2>2, <3>1 DEF Walks
    <3> QED
      BY <1>p, <1>w, <3>1, <3>2
  <2> QED
    BY <2>1, <2>2
<1>15. ASSUME Fails(l) PROVE Done \/ GoneOn
  <2>1. CASE status[on[l]] = "deleted"
    BY <1>e, <1>15, <2>1 DEF Fails, loopVars
  <2>2. CASE status[on[l]] # "deleted"
    <3>1. UNCHANGED <<tableVars, fileVars, callVars, letter, manifest, why>> /\ at[l] = "fail"
      BY <1>15, <2>2 DEF Fails, loopVars
    <3>2. \/ Proceeds(l, "ack") /\ (status[on[l]] = "complete" \/ why[l] = "cancelled")
          \/ Proceeds(l, "review") /\ status[on[l]] = "redacting" /\ ~auto[on[l]]
          \/ Proceeds(l, "failed")
      BY <1>15, <2>2 DEF Fails
    <3>3. Walks(l)
      BY <1>p, <3>1, <3>2 DEF Walks
    <3> QED
      BY <1>p, <1>w, <3>1, <3>2, <3>3
  <2> QED
    BY <2>1, <2>2
<1>16. ASSUME AcknowledgesMessage(l) \/ ReturnsMessage(l) PROVE Left
  <2>1. /\ UNCHANGED <<tableVars, fileVars, callVars>> /\ at[l] \in {"ack", "return"}
        /\ Proceeds(l, "idle") /\ PutsDown(l)
    BY <1>16 DEF AcknowledgesMessage, ReturnsMessage
  <2>2. letter'[l] = NoLetter
    BY <1>0, <2>1 DEF PutsDown
  <2> QED
    BY <1>0, <1>2, <1>p, <2>1, <2>2 DEF Leaves
<1>17. ASSUME LoopCrashes(l) PROVE Left
  <2>1. /\ UNCHANGED <<tableVars, fileVars, callVars>> /\ at[l] # "idle"
        /\ MovesTo(l, "idle") /\ PutsDown(l) /\ ReadingsStay(l) /\ reading'[l] = "nothing"
    BY <1>0, <1>g, <1>17 DEF LoopCrashes, Dies, ReadingsStay
  <2>2. letter'[l] = NoLetter
    BY <1>0, <2>1 DEF PutsDown
  <2>3. Happened("worker_crash")'
    BY <1>17, FaultHappens DEF LoopCrashes, TypeInv
  <2> QED
    BY <1>0, <1>2, <2>1, <2>2, <2>3 DEF Leaves
<1>18. ASSUME Heartbeat(l) PROVE GoneOn
  <2>1. /\ UNCHANGED <<tableVars, fileVars, callVars, letter, manifest, why, processVars>> /\ at[l] # "idle"
    BY <1>18 DEF Heartbeat, Pipeline
  <2> QED
    BY <1>0, <1>2, <2>1 DEF LoopGoesOn, LoopSame, PlaceSame, ReadingsStay, processVars
<1> QED
  <2> HIDE DEF Others, Begun, Done, GoneOn, Left
  <2>1. Begun \/ Done \/ GoneOn \/ Left
    BY <1>3, <1>4, <1>5, <1>6, <1>7, <1>9, <1>10, <1>11, <1>12, <1>13, <1>14, <1>15, <1>16, <1>17, <1>18
    DEF LoopNext, LoopStarts, LoopContinues, LoopFaults
  <2> QED
    BY <1>1, <2>1 DEF Others, Begun, Done, GoneOn, Left

-----------------------------------------------------------------------------
(* What the steps do to the messages.                                      *)

\* Sent by call c, in a slot no loop holds a receipt of.
SentBy(c, m) ==
  /\ at[c] = "send" /\ ~Sent(m)
  /\ queue'[m] = [says |-> <<on[c], TaskOf(c)>>, hidden |-> 0, received |-> 0]
  /\ at'[c] \in {"idle", "undo"}
  /\ \A l \in Loop : letter[l].message # m

LEMMA CallMessages ==
  ASSUME TypeInv, TypeInv', NEW c \in Client, ClientNext(c), NEW m \in Message
  PROVE  queue'[m] = queue[m] \/ SentBy(c, m)
<1>0. c \in Proc /\ at \in [Proc -> Step] /\ queue \in [Message -> {NoMessage} \cup Envelope]
  BY DEF TypeInv, ProcTypeOK, QueueTypeOK, Envelope
<1>1. \/ UNCHANGED queue
      \/ /\ at[c] = "send" /\ at'[c] \in {"idle", "undo"}
         /\ \E n \in Message : Enqueue(n, <<on[c], TaskOf(c)>>)
  BY <1>0 DEF ClientNext, CallStarts, CreateJob, Submit, Finalize, Delete, CallContinues,
     FinalizeWrites, CallReads, CallPuts, CallLoses, Sends, SendFails, DeletePurges,
     DeleteAnswersNotFound, CallDies, Proceeds, Goto
<1>2. ASSUME NEW n \in Message, Enqueue(n, <<on[c], TaskOf(c)>>), n = m, at[c] = "send", at'[c] \in {"idle", "undo"}
      PROVE  SentBy(c, m)
  <2>1. ~Sent(m) /\ queue'[m] = [says |-> <<on[c], TaskOf(c)>>, hidden |-> 0, received |-> 0]
    BY <1>0, <1>2 DEF Enqueue
  <2>2. <<on[c], TaskOf(c)>> \in Content
    BY <1>0, <1>2 DEF TypeInv, ProcTypeOK, BusyWithJob, TaskOf, Task
  <2>3. queue'[m] # NoMessage
    BY <2>1, <2>2
  <2> QED
    BY <1>2, <2>1, <2>3 DEF SentBy, ClientNext, NewMessages, Sent
<1> QED
  BY <1>0, <1>1, <1>2 DEF Enqueue

\* A message keeps what it says; it is gone only when its loop acknowledged it.
LEMMA LoopMessages ==
  ASSUME TypeInv, MessageInv, NEW l \in Loop, LoopNext(l), NEW m \in Message
  PROVE  /\ Sent(m)' => Sent(m) /\ queue'[m].says = queue[m].says
         /\ Sent(m) /\ ~Sent(m)' => at[l] = "ack" /\ at'[l] = "idle" /\ letter[l].message = m /\ Holds(l)
<1>0. l \in Proc /\ at \in [Proc -> Step] /\ queue \in [Message -> {NoMessage} \cup Envelope]
  BY DEF TypeInv, ProcTypeOK, QueueTypeOK, Envelope
<1>e. ASSUME NEW e \in Envelope, NEW time
      PROVE  [e EXCEPT !.hidden = time].says = e.says
  BY DEF Envelope
<1>1. CASE UNCHANGED queue
  BY <1>1 DEF Sent
<1>2. ASSUME NEW time, Hide(letter[l].message, letter[l].handle, time) \/ Acknowledge(letter[l].message, letter[l].handle),
             at[l] # "idle"
      PROVE  /\ Sent(m)' => Sent(m) /\ queue'[m].says = queue[m].says
             /\ Sent(m) /\ ~Sent(m)' => letter[l].message = m /\ Holds(l)
  <2>1. letter[l].message \in Message
    BY <1>2, Hidden DEF MessageInv
  <2>2. \/ queue'[m] = queue[m]
        \/ /\ m = letter[l].message /\ Handled(m, letter[l].handle)
           /\ \/ queue'[m] = NoMessage
              \/ queue'[m] = [queue[m] EXCEPT !.hidden = time]
    <3>1. PICK n \in Message : n = letter[l].message
      BY <2>1
    <3>2. PICK handle : handle = letter[l].handle
      OBVIOUS
    <3>3. Hide(n, handle, time) \/ Acknowledge(n, handle) \/ UNCHANGED queue
      BY <1>2, <3>1, <3>2
    <3>4. \/ queue'[m] = queue[m]
          \/ /\ m = n /\ Handled(n, handle)
             /\ \/ queue'[m] = NoMessage
                \/ queue'[m] = [queue[m] EXCEPT !.hidden = time]
      BY <3>3, OneMessage
    <3> QED
      BY <3>1, <3>2, <3>4
  <2> QED
    BY <1>0, <1>e, <2>2 DEF Sent, Handled, Holds
<1>3. ASSUME NEW time \in 0 .. Visibility, Hide(letter[l].message, letter[l].handle, time), at[l] # "idle"
      PROVE  Sent(m)' <=> Sent(m)
  <2>1. letter[l].message \in Message
    BY <1>3, Hidden DEF MessageInv
  <2>2. ASSUME Handled(letter[l].message, letter[l].handle)
        PROVE  [queue[letter[l].message] EXCEPT !.hidden = time] \in Envelope
    BY <1>0, <1>3, <2>1, <2>2 DEF Handled, Sent, Envelope
  <2>3. NoMessage \notin Envelope
    BY DEF Envelope
  <2> QED
    BY <1>0, <1>3, <2>1, <2>2, <2>3 DEF Hide, Handled, Sent
<1>4. CASE AcknowledgesMessage(l)
  <2>1. at[l] = "ack" /\ at'[l] = "idle" /\ Acknowledge(letter[l].message, letter[l].handle)
    BY <1>0, <1>4 DEF AcknowledgesMessage, Proceeds, Goto
  <2> QED
    BY <1>2, <2>1
<1>5. CASE ReturnsMessage(l) \/ (Heartbeat(l) /\ Renew(letter[l].message, letter[l].handle))
  <2>1. PICK time \in 0 .. Visibility : Hide(letter[l].message, letter[l].handle, time)
    BY <1>5 DEF ReturnsMessage, Release, Renew
  <2>2. at[l] # "idle"
    BY <1>5 DEF ReturnsMessage, Heartbeat, Pipeline
  <2> QED
    BY <1>2, <1>3, <2>1, <2>2
<1>6. CASE LoopStarts(l)
  <2>1. PICK n \in Message : Receive(n)
    BY <1>6 DEF LoopStarts, ReceiveMessage
  <2>2. /\ Sent(n) /\ queue[n] \in Envelope /\ queue'[n] \in Envelope
        /\ queue'[n].says = queue[n].says
        /\ \A k \in Message \ {n} : queue'[k] = queue[k]
    <3>1. Sent(n) /\ queue[n] \in Envelope /\ queue'[n] \in Envelope
      BY <1>0, <2>1, ReceiveType DEF Receive, Visible, Sent, TypeInv
    <3>2. queue'[n].says = queue[n].says /\ \A k \in Message \ {n} : queue'[k] = queue[k]
      BY <1>0, <2>1, <3>1 DEF Receive, Envelope
    <3> QED
      BY <3>1, <3>2
  <2>3. NoMessage \notin Envelope
    BY DEF Envelope
  <2> QED
    BY <2>2, <2>3 DEF Sent
<1> QED
  <2>1. \/ UNCHANGED queue \/ AcknowledgesMessage(l) \/ ReturnsMessage(l) \/ LoopStarts(l)
        \/ Heartbeat(l) /\ Renew(letter[l].message, letter[l].handle)
    BY DEF LoopNext, LoopContinues, LoopFaults, Heartbeat, LoopReads,
        LoopPuts, LoopLoses, LooksAtRow, ReportsPage, Detected, PutsManifests, FetchesManifest, Rendered,
        PutsOutput, LostRace, Cancelled, ManifestGone, Fails,
        DocumentFails, ModelDown, LoopCrashes, Raises, loopVars
  <2> QED
    BY <1>1, <1>4, <1>5, <1>6, <2>1

\* SQS drops a message after its last delivery, time and SQS change none.
LEMMA OtherMessages ==
  ASSUME TypeInv, SqsNext \/ Tick \/ UNCHANGED vars, NEW m \in Message
  PROVE  /\ Sent(m)' => Sent(m) /\ queue'[m].says = queue[m].says
         /\ Sent(m) /\ ~Sent(m)' => DeadLetter(m)
<1>0. queue \in [Message -> {NoMessage} \cup Envelope] /\ NoMessage \notin Envelope
  BY DEF TypeInv, QueueTypeOK, Envelope
<1>1. ASSUME NEW n \in Message, DeadLetter(n)
      PROVE  /\ Sent(m)' => Sent(m) /\ queue'[m].says = queue[m].says
             /\ Sent(m) /\ ~Sent(m)' => DeadLetter(m)
  BY <1>0, <1>1 DEF DeadLetter, Sent
<1>2. ASSUME NEW n \in Message, DeliverTwice(n)
      PROVE  /\ Sent(m)' => Sent(m) /\ queue'[m].says = queue[m].says
             /\ Sent(m) => Sent(m)'
  <2>1. [queue[n] EXCEPT !.hidden = 0] \in Envelope /\ [queue[n] EXCEPT !.hidden = 0].says = queue[n].says
    BY <1>0, <1>2 DEF DeliverTwice, Sent, Envelope
  <2> QED
    BY <1>0, <1>2, <2>1 DEF DeliverTwice, Sent
<1>3. ASSUME QueueAges
      PROVE  /\ Sent(m)' => Sent(m) /\ queue'[m].says = queue[m].says
             /\ Sent(m) => Sent(m)'
  <2>1. ASSUME Sent(m), queue[m].hidden > 0
        PROVE  /\ [queue[m] EXCEPT !.hidden = @ - 1] \in Envelope
               /\ [queue[m] EXCEPT !.hidden = @ - 1].says = queue[m].says
    BY <1>0, <2>1 DEF Sent, Envelope
  <2>2. queue'[m] = IF Sent(m) /\ queue[m].hidden > 0 THEN [queue[m] EXCEPT !.hidden = @ - 1] ELSE queue[m]
    BY <1>3 DEF QueueAges
  <2> QED
    BY <1>0, <2>1, <2>2 DEF Sent
<1> QED
  BY <1>1, <1>2, <1>3 DEF SqsNext, Tick, vars, Sent

-----------------------------------------------------------------------------
(* Where calls, loops and messages are, and what they know of their jobs.  *)

\* A job no worker has finished reading has no review, and never returns here.
Early == {"none", "awaiting_upload", "queued_detection", "detecting"}

DetectStep == {"pages", "detect", "progress", "findings", "draft", "handoff"}
RenderStep == {"render", "output", "complete"}

CallKnows(c) ==
  /\ at[c] # "idle" => status[on[c]] # "none"
  /\ at[c] = "submit" => was[c] = "awaiting_upload"
  /\ at[c] \in {"write", "finalize"} => was[c] \in Reviewable
  /\ at[c] \in {"send", "undo"} => was[c] \in {"awaiting_upload"} \cup Reviewable
  /\ at[c] \in {"send", "undo"} /\ was[c] # "awaiting_upload" => status[on[c]] \notin Early
  /\ at[c] = "purge" => status[on[c]] = "deleted"
  /\ reading[c] # "nothing" => at[c] \in CallUpdating
  /\ reading[c] = "fresh" => status[on[c]] \in CallUpdate(c).from

LoopKnows(l) ==
  /\ at[l] # "idle" => status[on[l]] # "none"
  /\ at[l] \in DetectStep \cup {"release"} => letter[l].task = "detect"
  /\ at[l] = "fetch" => letter[l].task = "redact"
  /\ at[l] \in RenderStep => letter[l].task = "redact" \/ letter[l].auto
  /\ at[l] \in RenderStep => status[on[l]] \notin Early
  /\ at[l] # "idle" /\ letter[l].task = "redact" => status[on[l]] \notin Early
  /\ at[l] # "idle" /\ Sent(letter[l].message) => queue[letter[l].message].says = <<on[l], letter[l].task>>
  /\ reading[l] # "nothing" => at[l] \in LoopUpdating
  /\ reading[l] = "fresh" => status[on[l]] \in LoopUpdate(l).from

MessageKnows(m) == Sent(m) =>
  /\ status[queue[m].says[1]] # "none"
  /\ queue[m].says[2] = "redact" => status[queue[m].says[1]] \notin Early

ControlInv ==
  /\ \A c \in Client : CallKnows(c)
  /\ \A l \in Loop : LoopKnows(l)
  /\ \A m \in Message : MessageKnows(m)

\* A job is not forgotten, its reading is not undone, and neither is its deletion.
Turns(j) ==
  /\ status'[j] = "none" => status[j] = "none"
  /\ status'[j] \in Early => status[j] \in Early
  /\ status[j] = "deleted" => status'[j] = "deleted"

\* Nobody comes by a fresh reading from a step of somebody else.
ReadingKept(q) ==
  /\ reading'[q] # "nothing" => reading[q] # "nothing"
  /\ reading'[q] = "fresh" => reading[q] = "fresh" /\ status'[on[q]] = status[on[q]]

\* What a call that puts the row found in it.
LEMMA CallFinds ==
  ASSUME NEW c \in Client, CallKnows(c), reading[c] = "fresh"
  PROVE  /\ at[c] \in {"submit", "reject"} => status[on[c]] = "awaiting_upload"
         /\ at[c] = "finalize" => status[on[c]] = was[c] /\ was[c] \in Reviewable
         /\ at[c] = "undo" => \/ was[c] = "awaiting_upload" /\ status[on[c]] = "queued_detection"
                              \/ was[c] \in Reviewable /\ status[on[c]] = "queued_redaction"
         /\ at[c] = "bury" => status[on[c]] \in JobStatus
<1>1. CASE at[c] = "submit"
  BY <1>1 DEF CallKnows, CallUpdate
<1>2. CASE at[c] = "finalize"
  BY <1>2 DEF CallKnows, CallUpdate
<1>3. CASE at[c] = "undo"
  BY <1>3 DEF CallKnows, CallUpdate, Reviewable
<1>4. CASE at[c] = "bury"
  BY <1>4 DEF CallKnows, CallUpdate
<1>5. CASE at[c] = "reject"
  BY <1>5 DEF CallKnows, CallUpdate
<1> QED
  BY <1>1, <1>2, <1>3, <1>4, <1>5 DEF CallKnows, CallUpdating

LEMMA LoopFrom ==
  ASSUME TypeInv, NEW l \in Loop, at[l] \in LoopUpdating
  PROVE  /\ at[l] = "claim" /\ letter[l].task = "detect" => LoopUpdate(l).from = {"queued_detection", "detecting"}
         /\ at[l] = "claim" /\ letter[l].task = "redact" => LoopUpdate(l).from = {"queued_redaction", "redacting"}
         /\ at[l] \in DetectStep => LoopUpdate(l).from = {"detecting"}
         /\ at[l] = "release" /\ letter[l].task = "detect" => LoopUpdate(l).from = {"detecting"}
         /\ at[l] \in {"complete", "review"} => LoopUpdate(l).from = {"redacting"}
         /\ at[l] = "failed" => LoopUpdate(l).from = InFlight
<1> USE DEF LoopUpdate
<1>1. CASE at[l] \in {"claim", "release"}
  BY <1>1 DEF QueuedFor, InFlightFor, DetectStep
<1>2. CASE at[l] \in {"pages", "progress", "findings"}
  BY <1>2 DEF DetectStep
<1>3. CASE at[l] \in {"complete", "review", "failed"}
  BY <1>3 DEF DetectStep
<1>4. CASE at[l] = "handoff"
  BY <1>4 DEF DetectStep
<1> QED
  BY <1>1, <1>2, <1>3, <1>4 DEF LoopUpdating

\* What a put of a loop makes of what it found.
Advances(l, j) ==
  LET s == status[j]
      t == status'[j]
  IN \/ /\ at[l] = "claim" /\ letter[l].task = "detect" /\ s \in {"queued_detection", "detecting"}
        /\ t = "detecting" /\ at'[l] = "pages"
     \/ /\ at[l] = "claim" /\ letter[l].task = "redact" /\ s \in {"queued_redaction", "redacting"}
        /\ t = "redacting" /\ at'[l] = "fetch"
     \/ /\ at[l] \in {"pages", "progress", "findings"} /\ s = "detecting" /\ t = "detecting"
        /\ at'[l] \in {"detect", "draft"}
     \/ at[l] = "handoff" /\ letter[l].auto /\ s = "detecting" /\ t = "redacting" /\ at'[l] = "render"
     \/ at[l] = "handoff" /\ ~letter[l].auto /\ s = "detecting" /\ t = "review_required" /\ at'[l] = "ack"
     \/ at[l] = "complete" /\ s = "redacting" /\ t = "complete" /\ at'[l] = "ack"
     \/ at[l] = "review" /\ s = "redacting" /\ t = "review_required" /\ at'[l] = "ack"
     \/ at[l] = "failed" /\ s \in InFlight /\ t = "failed" /\ at'[l] = "ack"
     \/ at[l] = "release" /\ s = "detecting" /\ t = "queued_detection" /\ at'[l] = "return"

LEMMA LoopFinds ==
  ASSUME TypeInv, NEW l \in Loop, LoopKnows(l), LoopPut(l, on[l])
  PROVE  Advances(l, on[l])
<1>1. /\ at[l] \in LoopUpdating /\ status[on[l]] \in LoopUpdate(l).from /\ LoopTurns(l, on[l])
      /\ at[l] \in DetectStep \cup {"release"} => letter[l].task = "detect"
  BY DEF LoopPut, LoopKnows
<1>2. CASE at[l] = "claim"
  BY <1>1, <1>2, LoopFrom DEF LoopTurns, Advances
<1>3. CASE at[l] \in {"pages", "progress", "findings"}
  BY <1>1, <1>3, LoopFrom DEF LoopTurns, Advances, DetectStep
<1>4. CASE at[l] = "handoff"
  BY <1>1, <1>4, LoopFrom DEF LoopTurns, Advances, DetectStep
<1>5. CASE at[l] \in {"complete", "review", "failed"}
  BY <1>1, <1>5, LoopFrom DEF LoopTurns, Advances
<1>6. CASE at[l] = "release"
  BY <1>1, <1>6, LoopFrom DEF LoopTurns, Advances
<1> QED
  BY <1>1, <1>2, <1>3, <1>4, <1>5, <1>6 DEF LoopUpdating

LEMMA CallTurns ==
  ASSUME TypeInv, ControlInv, NEW c \in Client, ClientNext(c)
  PROVE  /\ \A j \in Job : Turns(j)
         /\ \A q \in (Client \cup Loop) \ {c} : ReadingKept(q)
<1>0. CallKnows(c) /\ (\A q \in Client \cup Loop : at[q] # "idle" => on[q] \in Job /\ status[on[q]] # "none")
      /\ (\A q \in Client \cup Loop : reading[q] # "nothing" => at[q] # "idle")
      /\ Client \cup Loop \subseteq Proc
  BY DEF ControlInv, CallKnows, LoopKnows, TypeInv, ProcTypeOK, BusyWithJob, CallUpdating, LoopUpdating
<1>s. ASSUME \A j \in Job : status'[j] = status[j], \A q \in Proc \ {c} : reading'[q] = reading[q]
      PROVE  /\ \A j \in Job : Turns(j)
             /\ \A q \in (Client \cup Loop) \ {c} : ReadingKept(q)
  BY <1>0, <1>s DEF Turns, ReadingKept
<1>1. ASSUME NEW j \in Job, Creates(c, j)
      PROVE  /\ \A k \in Job : Turns(k)
             /\ \A q \in (Client \cup Loop) \ {c} : ReadingKept(q)
  <2>1. \A k \in Job : status'[k] = status[k] \/ (status[k] = "none" /\ status'[k] = "awaiting_upload")
    BY <1>1 DEF Creates, Elsewhere, Same, OnlyStatus
  <2>2. \A p \in Proc : reading'[p] = reading[p]
    BY <1>1 DEF Creates
  <2> QED
    BY <1>0, <2>1, <2>2 DEF Turns, ReadingKept, Early
<1>2. ASSUME NEW j \in Job, StartsSubmit(c, j) \/ StartsReview(c, j) \/ StartsDelete(c, j)
      PROVE  /\ \A k \in Job : status'[k] = status[k]
             /\ \A q \in Proc \ {c} : reading'[q] = reading[q]
  BY <1>2 DEF StartsSubmit, StartsReview, StartsDelete, Starts, Elsewhere, Same, OnlyStatus
<1>3. ASSUME CallGoesOn(c) \/ WritesReview(c, on[c]) \/ PurgesFiles(c, on[c])
      PROVE  /\ \A k \in Job : status'[k] = status[k]
             /\ \A q \in Proc \ {c} : reading'[q] = reading[q]
  BY <1>3 DEF CallGoesOn, WritesReview, PurgesFiles, Elsewhere, Same, OnlyStatus, ReadingsStay
<1>4. ASSUME \/ PutsSubmitted(c, on[c]) \/ PutsRejected(c, on[c]) \/ PutsReviewed(c, on[c])
             \/ PutsBack(c, on[c]) \/ PutsDeleted(c, on[c]),
             on[c] \in Job
      PROVE  /\ \A k \in Job : Turns(k)
             /\ \A q \in (Client \cup Loop) \ {c} : ReadingKept(q)
  <2>0. PICK j \in Job : j = on[c]
    BY <1>4
  <2>1. /\ reading[c] = "fresh" /\ ReadingsAge(c) /\ (\A k \in Job \ {j} : status'[k] = status[k])
    BY <1>4, <2>0 DEF PutsSubmitted, PutsRejected, PutsReviewed, PutsBack, PutsDeleted, CallPut, Elsewhere, Same,
       OnlyStatus
  <2>2. Turns(j)
    <3>1. CASE PutsSubmitted(c, j)
      BY <1>0, <2>0, <2>1, <3>1, CallFinds DEF PutsSubmitted, CallPut, Turns, Early
    <3>r. CASE PutsRejected(c, j)
      BY <1>0, <2>0, <2>1, <3>r, CallFinds DEF PutsRejected, CallPut, Turns, Early
    <3>2. CASE PutsReviewed(c, j)
      BY <1>0, <2>0, <2>1, <3>2, CallFinds DEF PutsReviewed, CallPut, Turns, Early, Reviewable
    <3>3. CASE PutsBack(c, j)
      BY <1>0, <2>0, <2>1, <3>3, CallFinds DEF PutsBack, CallPut, Turns, Early, Reviewable
    <3>4. CASE PutsDeleted(c, j)
      BY <1>0, <2>0, <2>1, <3>4 DEF PutsDeleted, CallPut, Turns, Early
    <3> QED
      BY <1>4, <2>0, <3>1, <3>r, <3>2, <3>3, <3>4
  <2>3. ASSUME NEW q \in (Client \cup Loop) \ {c} PROVE ReadingKept(q)
    BY <1>0, <2>0, <2>1 DEF ReadingKept, ReadingsAge
  <2> QED
    BY <2>1, <2>2, <2>3 DEF Turns
<1> QED
  BY <1>1, <1>2, <1>3, <1>4, <1>s, CallSteps DEF CallDoes

LEMMA LoopTurnsRows ==
  ASSUME TypeInv, ControlInv, NEW l \in Loop, LoopNext(l)
  PROVE  /\ \A j \in Job : Turns(j)
         /\ \A q \in (Client \cup Loop) \ {l} : ReadingKept(q)
<1>0. LoopKnows(l) /\ (\A q \in Client \cup Loop : reading[q] # "nothing" => on[q] \in Job)
      /\ Client \cup Loop \subseteq Proc
  BY DEF ControlInv, CallKnows, LoopKnows, TypeInv, ProcTypeOK, BusyWithJob, CallUpdating, LoopUpdating
<1>s. ASSUME \A j \in Job : status'[j] = status[j], \A q \in Proc \ {l} : reading'[q] = reading[q]
      PROVE  /\ \A j \in Job : Turns(j)
             /\ \A q \in (Client \cup Loop) \ {l} : ReadingKept(q)
  BY <1>0, <1>s DEF Turns, ReadingKept
<1>1. ASSUME (\E m \in Message : Receives(l, m)) \/ LoopGoesOn(l) \/ Leaves(l)
      PROVE  /\ \A j \in Job : status'[j] = status[j]
             /\ \A q \in Proc \ {l} : reading'[q] = reading[q]
  BY <1>1 DEF Receives, LoopGoesOn, Leaves, Same, OnlyStatus, ReadingsStay
<1>2. ASSUME \/ Erases(l, on[l]) \/ WritesManifests(l, on[l]) \/ Fetches(l, on[l]) \/ StoresOutput(l, on[l])
      PROVE  /\ \A j \in Job : status'[j] = status[j]
             /\ \A q \in Proc \ {l} : reading'[q] = reading[q]
  BY <1>2 DEF Erases, WritesManifests, Fetches, StoresOutput, Elsewhere, Same, OnlyStatus, ReadingsStay
<1>3. ASSUME LoopPut(l, on[l]), on[l] \in Job
      PROVE  /\ \A k \in Job : Turns(k)
             /\ \A q \in (Client \cup Loop) \ {l} : ReadingKept(q)
  <2>0. PICK j \in Job : j = on[l]
    BY <1>3
  <2>1. ReadingsAge(l) /\ (\A k \in Job \ {j} : status'[k] = status[k]) /\ Advances(l, j)
    BY <1>0, <1>3, <2>0, LoopFinds DEF LoopPut, Elsewhere, Same, OnlyStatus
  <2>2. Turns(j)
    BY <2>1 DEF Advances, Turns, Early, InFlight
  <2>3. ASSUME NEW q \in (Client \cup Loop) \ {l} PROVE ReadingKept(q)
    BY <1>0, <2>0, <2>1 DEF ReadingKept, ReadingsAge
  <2> QED
    BY <2>1, <2>2, <2>3 DEF Turns
<1> QED
  BY <1>1, <1>2, <1>3, <1>s, LoopSteps DEF LoopDoes

LEMMA CallStaysKnown ==
  ASSUME NEW c \in Client, CallKnows(c), CallSame(c), ReadingKept(c), at[c] # "idle" => Turns(on[c])
  PROVE  CallKnows(c)'
<1>1. CallUpdate(c)' = CallUpdate(c)
  BY DEF CallSame, PlaceSame, CallUpdate
<1>2. reading'[c] = "fresh" => status'[on'[c]] \in CallUpdate(c)'.from
  BY <1>1 DEF CallKnows, CallSame, PlaceSame, ReadingKept
<1>3. /\ at'[c] # "idle" => status'[on'[c]] # "none"
      /\ at'[c] = "submit" => was'[c] = "awaiting_upload"
      /\ at'[c] \in {"write", "finalize"} => was'[c] \in Reviewable
      /\ at'[c] \in {"send", "undo"} => was'[c] \in {"awaiting_upload"} \cup Reviewable
      /\ at'[c] \in {"send", "undo"} /\ was'[c] # "awaiting_upload" => status'[on'[c]] \notin Early
      /\ at'[c] = "purge" => status'[on'[c]] = "deleted"
      /\ reading'[c] # "nothing" => at'[c] \in CallUpdating
  BY DEF CallKnows, CallSame, PlaceSame, ReadingKept, Turns
<1> QED
  BY <1>2, <1>3 DEF CallKnows

LEMMA LoopStaysKnown ==
  ASSUME NEW l \in Loop, LoopKnows(l), LoopSame(l), ReadingKept(l), at[l] # "idle" => Turns(on[l]),
         at[l] # "idle" /\ queue'[letter[l].message] # NoMessage =>
           Sent(letter[l].message) /\ queue'[letter[l].message].says = queue[letter[l].message].says
  PROVE  LoopKnows(l)'
<1>1. LoopUpdate(l)' = LoopUpdate(l)
  BY DEF LoopSame, PlaceSame, LoopUpdate, AfterClaim, AfterHandOff
<1>2. reading'[l] = "fresh" => status'[on'[l]] \in LoopUpdate(l)'.from
  BY <1>1 DEF LoopKnows, LoopSame, PlaceSame, ReadingKept
<1>3. /\ at'[l] # "idle" => status'[on'[l]] # "none"
      /\ at'[l] \in DetectStep \cup {"release"} => letter'[l].task = "detect"
      /\ at'[l] = "fetch" => letter'[l].task = "redact"
      /\ at'[l] \in RenderStep => letter'[l].task = "redact" \/ letter'[l].auto
      /\ at'[l] \in RenderStep => status'[on'[l]] \notin Early
      /\ at'[l] # "idle" /\ letter'[l].task = "redact" => status'[on'[l]] \notin Early
      /\ reading'[l] # "nothing" => at'[l] \in LoopUpdating
  <2>1. "idle" \notin RenderStep
    BY DEF RenderStep
  <2> QED
    BY <2>1 DEF LoopKnows, LoopSame, PlaceSame, ReadingKept, Turns
<1>4. at'[l] # "idle" /\ queue'[letter'[l].message] # NoMessage =>
        queue'[letter'[l].message].says = <<on'[l], letter'[l].task>>
  BY DEF LoopKnows, LoopSame, PlaceSame
<1> QED
  BY <1>2, <1>3, <1>4 DEF LoopKnows, Sent

LEMMA MessageStaysKnown ==
  ASSUME TypeInv, NEW m \in Message, MessageKnows(m), \A j \in Job : Turns(j),
         Sent(m)' => Sent(m) /\ queue'[m].says = queue[m].says
  PROVE  MessageKnows(m)'
<1>1. Sent(m) => queue[m].says[1] \in Job
  BY DEF TypeInv, QueueTypeOK, Sent
<1> QED
  BY <1>1 DEF MessageKnows, Turns, Sent

LEMMA CallKeepsControl ==
  ASSUME TypeInv, TypeInv', MessageInv, ControlInv, NEW c \in Client, ClientNext(c)
  PROVE  ControlInv'
<1>0. /\ CallKnows(c) /\ \A q \in Client \cup Loop : at[q] # "idle" => on[q] \in Job
      /\ \A j \in Job : Turns(j)
      /\ \A q \in (Client \cup Loop) \ {c} : ReadingKept(q)
      /\ (\A d \in Client \ {c} : CallSame(d)) /\ (\A l \in Loop : LoopSame(l))
      /\ Client \cap Loop = {} /\ Client \cup Loop \subseteq Proc
  BY CallTurns, CallSteps DEF ControlInv, TypeInv, ProcTypeOK, BusyWithJob
<1>1. ASSUME NEW m \in Message PROVE MessageKnows(m)'
  <2>1. CASE queue'[m] = queue[m]
    BY <1>0, <2>1, MessageStaysKnown DEF ControlInv, Sent
  <2>2. CASE SentBy(c, m)
    <3>1. /\ on[c] \in Job /\ queue'[m].says[1] = on[c] /\ queue'[m].says[2] = TaskOf(c)
          /\ status[on[c]] # "none" /\ (TaskOf(c) = "redact" => status[on[c]] \notin Early)
      BY <1>0, <2>2 DEF SentBy, CallKnows, TaskOf
    <3> QED
      BY <1>0, <3>1 DEF MessageKnows, Turns
  <2> QED
    BY <2>1, <2>2, CallMessages
<1>2. ASSUME NEW d \in Client, d # c PROVE CallKnows(d)'
  BY <1>0, <1>2, CallStaysKnown DEF ControlInv
<1>3. ASSUME NEW l \in Loop PROVE LoopKnows(l)'
  <2>1. at[l] # "idle" => letter[l].message \in Message
    BY Hidden DEF MessageInv
  <2>2. at[l] # "idle" /\ queue'[letter[l].message] # NoMessage =>
           Sent(letter[l].message) /\ queue'[letter[l].message].says = queue[letter[l].message].says
    <3> SUFFICES ASSUME at[l] # "idle", queue'[letter[l].message] # NoMessage
                 PROVE  Sent(letter[l].message) /\ queue'[letter[l].message].says = queue[letter[l].message].says
      OBVIOUS
    <3>1. PICK m \in Message : m = letter[l].message
      BY <2>1
    <3> QED
      BY <3>1, CallMessages DEF Sent, SentBy
  <2> QED
    BY <1>0, <2>2, LoopStaysKnown DEF ControlInv
<1>4. CallKnows(c)'
  <2>n. ASSUME reading'[c] = "nothing", at'[c] \in {"idle", "bury", "not_found"},
               at'[c] # "idle" => on'[c] \in Job /\ status'[on'[c]] # "none"
        PROVE  CallKnows(c)'
    BY <2>n DEF CallKnows
  <2>i. at[c] = "idle" => reading[c] = "nothing"
    BY <1>0 DEF CallKnows, CallUpdating, TypeInv, ProcTypeOK
  <2>1. ASSUME NEW j \in Job, Creates(c, j) PROVE CallKnows(c)'
    <3>1. CASE CallSame(c)
      <4>1. ReadingKept(c)
        BY <1>0, <2>1, <3>1 DEF Creates, ReadingKept, CallKnows, Elsewhere, Same, OnlyStatus, CallUpdating
      <4> QED
        BY <1>0, <3>1, <4>1, CallStaysKnown
    <3>2. CASE at[c] = "idle" /\ at'[c] = "reject" /\ on'[c] = j
      BY <1>0, <2>1, <2>i, <3>2 DEF Creates, CallKnows
    <3> QED
      BY <2>1, <3>1, <3>2 DEF Creates
  <2>2. ASSUME NEW j \in Job, StartsSubmit(c, j) PROVE CallKnows(c)'
    BY <1>0, <2>2, <2>i DEF StartsSubmit, Starts, Same, OnlyStatus, CallKnows
  <2>3. ASSUME NEW j \in Job, StartsReview(c, j) PROVE CallKnows(c)'
    BY <1>0, <2>3, <2>i DEF StartsReview, Starts, CallKnows, Reviewable
  <2>4. ASSUME NEW j \in Job, StartsDelete(c, j) PROVE CallKnows(c)'
    BY <1>0, <2>4, <2>i DEF StartsDelete, Starts, Same, OnlyStatus, CallKnows
  <2>5. ASSUME WritesReview(c, on[c]) PROVE CallKnows(c)'
    BY <1>0, <2>5 DEF WritesReview, MovesTo, CallKnows
  <2>6. ASSUME PutsSubmitted(c, on[c]) PROVE CallKnows(c)'
    BY <1>0, <2>6 DEF PutsSubmitted, CallPut, MovesTo, CallKnows
  <2>r. ASSUME PutsRejected(c, on[c]) PROVE CallKnows(c)'
    BY <1>0, <2>r DEF PutsRejected, CallPut, MovesTo, CallKnows
  <2>7. ASSUME PutsReviewed(c, on[c]) PROVE CallKnows(c)'
    BY <1>0, <2>7 DEF PutsReviewed, CallPut, MovesTo, CallKnows, Early
  <2>8. ASSUME PutsBack(c, on[c]) PROVE CallKnows(c)'
    BY <1>0, <2>8 DEF PutsBack, CallPut, MovesTo, CallKnows
  <2>9. ASSUME PutsDeleted(c, on[c]) PROVE CallKnows(c)'
    BY <1>0, <2>9 DEF PutsDeleted, CallPut, MovesTo, CallKnows
  <2>10. ASSUME PurgesFiles(c, on[c]) PROVE CallKnows(c)'
    BY <1>0, <2>10 DEF PurgesFiles, MovesTo, CallKnows
  <2>11. ASSUME CallGoesOn(c), at[c] # "idle" PROVE CallKnows(c)'
    <3>0. on[c] \in Job /\ status'[on[c]] = status[on[c]]
      BY <1>0, <2>11 DEF CallGoesOn, Same, OnlyStatus
    <3>1. CASE /\ at[c] \in CallUpdating /\ PlaceSame(c) /\ was'[c] = was[c] /\ before'[c] = before[c]
               /\ reading'[c] = "fresh" /\ status[on[c]] \in CallUpdate(c).from
      <4>1. CallUpdate(c)' = CallUpdate(c)
        BY <3>1 DEF PlaceSame, CallUpdate
      <4> QED
        BY <1>0, <3>0, <3>1, <4>1 DEF CallKnows, PlaceSame
    <3>2. CASE reading'[c] = "nothing" /\ (MovesTo(c, "idle") \/ MovesTo(c, "not_found"))
      BY <1>0, <2>11, <3>0, <3>2 DEF MovesTo, CallKnows
    <3>3. CASE reading'[c] = "nothing" /\ at[c] = "send" /\ MovesTo(c, "undo")
      BY <1>0, <2>11, <3>0, <3>3 DEF CallGoesOn, MovesTo, CallKnows
    <3> QED
      BY <2>11, <3>1, <3>2, <3>3 DEF CallGoesOn
  <2> QED
    BY <2>1, <2>2, <2>3, <2>4, <2>5, <2>6, <2>r, <2>7, <2>8, <2>9, <2>10, <2>11, CallSteps DEF CallDoes
<1> QED
  BY <1>1, <1>2, <1>3, <1>4 DEF ControlInv

LEMMA LoopKeepsControl ==
  ASSUME TypeInv, TypeInv', MessageInv, ControlInv, NEW l \in Loop, LoopNext(l)
  PROVE  ControlInv'
<1>0. /\ LoopKnows(l) /\ \A q \in Client \cup Loop : at[q] # "idle" => on[q] \in Job
      /\ \A j \in Job : Turns(j)
      /\ \A q \in (Client \cup Loop) \ {l} : ReadingKept(q)
      /\ (\A c \in Client : CallSame(c)) /\ (\A k \in Loop \ {l} : LoopSame(k))
      /\ Client \cap Loop = {} /\ Client \cup Loop \subseteq Proc
  BY LoopTurnsRows, LoopSteps DEF ControlInv, TypeInv, ProcTypeOK, BusyWithJob
<1>1. ASSUME NEW m \in Message PROVE MessageKnows(m)'
  BY <1>0, LoopMessages, MessageStaysKnown DEF ControlInv
<1>2. ASSUME NEW c \in Client PROVE CallKnows(c)'
  BY <1>0, CallStaysKnown DEF ControlInv
<1>m. ASSUME NEW k \in Loop, at[k] # "idle", queue'[letter[k].message] # NoMessage
      PROVE  Sent(letter[k].message) /\ queue'[letter[k].message].says = queue[letter[k].message].says
  <2>1. PICK m \in Message : m = letter[k].message
    BY <1>m, Hidden DEF MessageInv
  <2> QED
    BY <1>m, <2>1, LoopMessages DEF Sent
<1>3. ASSUME NEW k \in Loop, k # l PROVE LoopKnows(k)'
  BY <1>0, <1>3, <1>m, LoopStaysKnown DEF ControlInv
<1>4. LoopKnows(l)'
  <2>0. letter[l].task \in {"detect", "redact"} /\ on[l] \in Job \cup {None}
    BY <1>0 DEF TypeInv, CloudWorkerTypeOK, Task, ProcTypeOK
  <2>m. ASSUME at'[l] # "idle", letter'[l].message = letter[l].message, letter'[l].task = letter[l].task,
               on'[l] = on[l], at[l] # "idle"
        PROVE  queue'[letter'[l].message] # NoMessage => queue'[letter'[l].message].says = <<on'[l], letter'[l].task>>
    BY <1>0, <1>m, <2>m DEF LoopKnows
  \* The loop goes on with its letter, and what it read is used up.
  <2>g. ASSUME at[l] # "idle", on[l] \in Job, at'[l] # "idle", on'[l] = on[l], reading'[l] = "nothing",
               letter'[l].message = letter[l].message, letter'[l].task = letter[l].task,
               at'[l] \in DetectStep \cup {"release"} => letter[l].task = "detect",
               at'[l] = "fetch" => letter[l].task = "redact",
               at'[l] \in RenderStep => letter[l].task = "redact" \/ letter'[l].auto,
               at'[l] \in RenderStep => status'[on[l]] \notin Early
        PROVE  LoopKnows(l)'
    <3>1. letter[l].task = "redact" => status'[on[l]] \notin Early
      BY <1>0, <2>g DEF LoopKnows, Turns
    <3>2. status'[on[l]] # "none"
      BY <1>0, <2>g DEF LoopKnows, Turns
    <3> QED
      BY <2>g, <2>m, <3>1, <3>2 DEF LoopKnows, Sent
  <2>s. ASSUME LoopSame(l), at[l] # "idle", on[l] \in Job, \A j \in Job : Same(j),
               \/ reading'[l] = reading[l]
               \/ at[l] \in LoopUpdating /\ status[on[l]] \in LoopUpdate(l).from
        PROVE  LoopKnows(l)'
    <3>1. LoopUpdate(l)' = LoopUpdate(l)
      BY <2>s DEF LoopSame, PlaceSame, LoopUpdate, AfterClaim, AfterHandOff
    <3>2. status'[on[l]] = status[on[l]]
      BY <2>s DEF Same, OnlyStatus
    <3>3. queue'[letter'[l].message] # NoMessage => queue'[letter'[l].message].says = <<on'[l], letter'[l].task>>
      BY <2>m, <2>s DEF LoopSame, PlaceSame
    <3>4. reading'[l] = "fresh" => status'[on'[l]] \in LoopUpdate(l)'.from
      BY <1>0, <2>s, <3>1, <3>2 DEF LoopKnows, LoopSame, PlaceSame
    <3> QED
      BY <1>0, <2>s, <3>2, <3>3, <3>4 DEF LoopKnows, LoopSame, PlaceSame, Sent
  <2>1. ASSUME NEW m \in Message, Receives(l, m) PROVE LoopKnows(l)'
    <3>1. /\ Sent(m) /\ queue[m].says \in Job \X Task
          /\ reading'[l] = "nothing" /\ at'[l] = "look" /\ on'[l] = queue[m].says[1]
          /\ letter'[l].message = m /\ letter'[l].task = queue[m].says[2]
          /\ \A j \in Job : status'[j] = status[j]
      BY <1>0, <2>1 DEF Receives, Visible, Sent, TypeInv, QueueTypeOK, ProcTypeOK, LoopKnows, LoopUpdating, Same, OnlyStatus
    <3>2. queue'[m].says = queue[m].says
      <4>1. Sent(m)'
        BY <2>1, ReceiveType DEF Receives, TypeInv, Envelope, Sent
      <4> QED
        BY <4>1, LoopMessages
    <3>3. MessageKnows(m)
      BY DEF ControlInv
    <3> QED
      BY <3>1, <3>2, <3>3 DEF LoopKnows, MessageKnows, DetectStep, RenderStep
  <2>2. ASSUME Erases(l, on[l]), at[l] # "idle", on[l] \in Job PROVE LoopKnows(l)'
    BY <2>2, <2>g DEF Erases, MovesTo, DetectStep, RenderStep
  <2>3. ASSUME WritesManifests(l, on[l]), at[l] # "idle", on[l] \in Job PROVE LoopKnows(l)'
    BY <1>0, <2>3, <2>g DEF WritesManifests, MovesTo, DetectStep, RenderStep, LoopKnows
  <2>4. ASSUME Fetches(l, on[l]), at[l] # "idle", on[l] \in Job PROVE LoopKnows(l)'
    BY <1>0, <2>4, <2>g DEF Fetches, MovesTo, DetectStep, RenderStep, LoopKnows, Same, OnlyStatus
  <2>5. ASSUME StoresOutput(l, on[l]), at[l] # "idle", on[l] \in Job PROVE LoopKnows(l)'
    BY <1>0, <2>5, <2>g DEF StoresOutput, MovesTo, DetectStep, RenderStep, LoopKnows
  <2>6. ASSUME LoopPut(l, on[l]), at[l] # "idle", on[l] \in Job PROVE LoopKnows(l)'
    <3>1. /\ Advances(l, on[l]) /\ on'[l] = on[l] /\ reading'[l] = "nothing"
          /\ letter'[l].message = letter[l].message /\ letter'[l].task = letter[l].task
          /\ at[l] = "handoff" => letter'[l].auto = letter[l].auto
          /\ at[l] \in DetectStep => letter[l].task = "detect"
      BY <1>0, <2>6, LoopFinds DEF LoopPut, LoopKnows
    <3> QED
      BY <2>6, <2>g, <3>1 DEF Advances, DetectStep, RenderStep, Early
  <2>7. ASSUME LoopGoesOn(l), at[l] # "idle", on[l] \in Job PROVE LoopKnows(l)'
    <3>0. /\ letter'[l] = letter[l] /\ (\A j \in Job : Same(j)) /\ status'[on[l]] = status[on[l]]
          /\ reading'[l] \in {"nothing", "fresh", "stale"}
      BY <1>0, <2>7 DEF LoopGoesOn, Same, OnlyStatus, TypeInv, ProcTypeOK
    <3>1. CASE LoopSame(l) /\ reading'[l] = reading[l]
      BY <2>7, <2>s, <3>0, <3>1
    <3>2. CASE /\ at[l] \in LoopUpdating /\ LoopSame(l) /\ reading'[l] = "fresh"
               /\ status[on[l]] \in LoopUpdate(l).from
      BY <2>7, <2>s, <3>0, <3>2
    <3>3. CASE /\ at[l] \in LoopUpdating /\ reading'[l] = "nothing" /\ MovesTo(l, LoopUpdate(l).lost)
      <4>1. /\ LoopUpdate(l).lost \in {"ack", "fail", "lost", "return", "detect"}
            /\ LoopUpdate(l).lost = "detect" => at[l] = "progress"
        <5> USE DEF LoopUpdate
        <5>1. CASE at[l] \in {"claim", "release"}
          BY <5>1
        <5>2. CASE at[l] \in {"pages", "progress", "findings"}
          BY <5>2
        <5>3. CASE at[l] \in {"complete", "review", "failed"}
          BY <5>3
        <5>4. CASE at[l] = "handoff"
          BY <5>4
        <5> QED
          BY <3>3, <5>1, <5>2, <5>3, <5>4 DEF LoopUpdating
      <4> QED
        BY <1>0, <2>7, <2>g, <3>0, <3>3, <4>1 DEF MovesTo, LoopKnows, DetectStep, RenderStep
    <3>4. CASE Walks(l) /\ reading'[l] = "nothing"
      BY <1>0, <2>7, <2>g, <3>0, <3>4 DEF Walks, MovesTo, LoopKnows, DetectStep, RenderStep
    <3> QED
      BY <2>7, <3>1, <3>2, <3>3, <3>4 DEF LoopGoesOn
  <2>8. ASSUME Leaves(l), at[l] # "idle" PROVE LoopKnows(l)'
    BY <2>8 DEF Leaves, MovesTo, LoopKnows, DetectStep, RenderStep
  <2> QED
    BY <2>1, <2>2, <2>3, <2>4, <2>5, <2>6, <2>7, <2>8, LoopSteps DEF LoopDoes
<1> QED
  BY <1>1, <1>2, <1>3, <1>4 DEF ControlInv

LEMMA ControlKept == Spec => []ControlInv
<1>1. Init => ControlInv
  BY DEF Init, TableInit, QueueInit, CloudWorkerInit, ControlInv, CallKnows, LoopKnows, MessageKnows,
     Sent, DetectStep, RenderStep
<1>2. TypeInv /\ TypeInv' /\ MessageInv /\ ControlInv /\ [Next]_vars => ControlInv'
  <2> SUFFICES ASSUME TypeInv, TypeInv', MessageInv, ControlInv, [Next]_vars PROVE ControlInv'
    OBVIOUS
  <2>1. ASSUME SqsNext \/ Tick \/ UNCHANGED vars PROVE ControlInv'
    <3>1. /\ \A j \in Job : Turns(j)
          /\ \A p \in Proc : ReadingKept(p)
          /\ \A c \in Client : CallSame(c)
          /\ \A l \in Loop : LoopSame(l)
      BY <2>1 DEF SqsNext, Tick, vars, tableVars, processVars, callVars, loopVars, Turns, ReadingKept,
         CallSame, LoopSame, PlaceSame
    <3>2. Client \cup Loop \subseteq Proc /\ \A p \in Proc : at[p] # "idle" => on[p] \in Job
      BY DEF TypeInv, ProcTypeOK, BusyWithJob
    <3>3. \A c \in Client : CallKnows(c)'
      BY <3>1, <3>2, CallStaysKnown DEF ControlInv
    <3>4. \A m \in Message : MessageKnows(m)'
      BY <2>1, <3>1, OtherMessages, MessageStaysKnown DEF ControlInv
    <3>5. ASSUME NEW l \in Loop PROVE LoopKnows(l)'
      <4>1. ASSUME at[l] # "idle", queue'[letter[l].message] # NoMessage
            PROVE  Sent(letter[l].message) /\ queue'[letter[l].message].says = queue[letter[l].message].says
        <5>1. PICK m \in Message : m = letter[l].message
          BY <4>1, Hidden DEF MessageInv
        <5> QED
          BY <2>1, <4>1, <5>1, OtherMessages DEF Sent
      <4> QED
        BY <3>1, <3>2, <4>1, LoopStaysKnown DEF ControlInv
    <3> QED
      BY <3>3, <3>4, <3>5 DEF ControlInv
  <2> QED
    BY <2>1, CallKeepsControl, LoopKeepsControl DEF Next
<1> QED
  BY <1>1, <1>2, TypesKept, MessagesKept, PTL DEF Spec

-----------------------------------------------------------------------------
(* The numbers of the reviews, in doubt or not, as long as the reviews of  *)
(* a job come one at a time.                                               *)

Waits == {"queued_redaction", "redacting"}

\* From the manifest it writes until its message is sent, or taken back.
Reviewing(c) == \/ at[c] \in {"write", "finalize"}
                \/ at[c] \in {"send", "undo"} /\ was[c] # "awaiting_upload"

OneReviewAtATime ==
  \A c, d \in Client : Reviewing(c) /\ Reviewing(d) /\ on[c] = on[d] => c = d

RowFiles(j) ==
  /\ accepted[j] <= reviews[j]
  /\ status[j] \in Early => reviews[j] = 0
  /\ status[j] \in Waits => auto[j] \/ accepted[j] > 0
  /\ approved[j] # None => approved[j] <= reviews[j]
  /\ output[j] # None => output[j] <= accepted[j]
  /\ status[j] \in Waits => approved[j] # None /\ approved[j] <= accepted[j]
  /\ status[j] = "complete" => output[j] # None

\* A call that may still be undone.
Undoable(c) == at[c] \in {"send", "undo"} /\ was[c] # "awaiting_upload" /\ status[on[c]] = "queued_redaction"

CallFiles(c) ==
  /\ Reviewing(c) => reviews[on[c]] > 0
  /\ at[c] \in {"write", "finalize"} =>
       /\ status[on[c]] \in {was[c], "deleted"}
       /\ carries[c] = reviews[on[c]] /\ accepted[on[c]] < carries[c]
  /\ at[c] = "finalize" /\ status[on[c]] # "deleted" => approved[on[c]] # None
  /\ Undoable(c) =>
       /\ before[c] <= accepted[on[c]]
       /\ output[on[c]] # None => output[on[c]] <= before[c]
       /\ was[c] = "complete" => output[on[c]] # None
  /\ at[c] \in {"send", "undo"} /\ was[c] = "awaiting_upload" => before[c] = 0

LoopFiles(l) ==
  /\ at[l] # "idle" /\ letter[l].task = "redact" => reviews[on[l]] > 0
  /\ at[l] \in RenderStep => manifest[l] # None /\ manifest[l] <= reviews[on[l]]
  /\ at[l] = "handoff" => manifest[l] = 0
  /\ at[l] = "render" /\ status[on[l]] \in Waits => manifest[l] <= accepted[on[l]]
  /\ at[l] \in {"output", "complete"} => manifest[l] <= accepted[on[l]]
  /\ at[l] = "complete" /\ status[on[l]] # "deleted" => output[on[l]] # None
  /\ at[l] \in DetectStep /\ status[on[l]] \in Early => letter[l].auto = auto[on[l]]
  /\ at[l] = "handoff" /\ status[on[l]] \in Early /\ letter[l].auto => approved[on[l]] = 0
  /\ at[l] = "review" => ~auto[on[l]]

MessageReviewed(m) ==
  Sent(m) /\ queue[m].says[2] = "redact" => reviews[queue[m].says[1]] > 0

\* Whoever has rendered before an undo has rendered what the undo leads back to.
UndoFiles(c, l) ==
  Undoable(c) /\ on[l] = on[c] /\ at[l] \in {"output", "complete"} => manifest[l] <= before[c]

ReviewInv ==
  /\ \A j \in Job : RowFiles(j)
  /\ \A c \in Client : CallFiles(c)
  /\ \A l \in Loop : LoopFiles(l)
  /\ \A m \in Message : MessageReviewed(m)
  /\ \A c \in Client, l \in Loop : UndoFiles(c, l)

LEMMA RowFilesStay ==
  ASSUME NEW j \in Job, RowFiles(j), Same(j)
  PROVE  RowFiles(j)'
BY DEF RowFiles, Same, OnlyStatus

LEMMA CallFilesStay ==
  ASSUME NEW c \in Client, CallFiles(c), CallSame(c), at[c] # "idle" => Same(on[c])
  PROVE  CallFiles(c)'
<1>1. CASE at[c] = "idle"
  BY <1>1 DEF CallFiles, CallSame, PlaceSame, Reviewing, Undoable
<1>2. CASE at[c] # "idle"
  BY <1>2 DEF CallFiles, CallSame, PlaceSame, Reviewing, Undoable, Same, OnlyStatus
<1> QED
  BY <1>1, <1>2

LEMMA LoopFilesStay ==
  ASSUME NEW l \in Loop, LoopFiles(l), LoopSame(l), at[l] # "idle" => Same(on[l])
  PROVE  LoopFiles(l)'
<1>1. CASE at[l] = "idle"
  BY <1>1 DEF LoopFiles, LoopSame, PlaceSame, RenderStep, DetectStep
<1>2. CASE at[l] # "idle"
  BY <1>2 DEF LoopFiles, LoopSame, PlaceSame, Same, OnlyStatus
<1> QED
  BY <1>1, <1>2

LEMMA UndoFilesStay ==
  ASSUME NEW c \in Client, NEW l \in Loop, UndoFiles(c, l), CallSame(c), LoopSame(l),
         at[c] # "idle" /\ status'[on[c]] = "queued_redaction" => status[on[c]] = "queued_redaction"
  PROVE  UndoFiles(c, l)'
BY DEF UndoFiles, Undoable, CallSame, LoopSame, PlaceSame

LEMMA MessageStaysReviewed ==
  ASSUME TypeInv, TypeInv', NEW m \in Message, MessageReviewed(m),
         \A j \in Job : reviews[j] > 0 => reviews'[j] > 0,
         Sent(m)' => Sent(m) /\ queue'[m].says = queue[m].says
  PROVE  MessageReviewed(m)'
<1>1. Sent(m) => queue[m].says[1] \in Job
  BY DEF TypeInv, QueueTypeOK, Sent
<1> QED
  BY <1>1 DEF MessageReviewed, Sent

\* The reviews are numbered.
LEMMA Numbers ==
  ASSUME TypeInv
  PROVE  /\ \A j \in Job : /\ reviews[j] \in Nat /\ accepted[j] \in Nat
                           /\ approved[j] \in Nat \cup {None} /\ output[j] \in Nat \cup {None}
                           /\ auto[j] \in BOOLEAN
         /\ \A c \in Client : carries[c] \in Nat /\ before[c] \in Nat
         /\ \A l \in Loop : /\ manifest[l] \in Nat \cup {None} /\ letter[l].auto \in BOOLEAN
                            /\ letter[l].task \in {"detect", "redact"}
         /\ 0 # None
BY DEF TypeInv, CallTypeOK, FileTypeOK, CloudWorkerTypeOK, RowTypeOK, Review, Task

LEMMA CallKeepsReviews ==
  ASSUME TypeInv, TypeInv', MessageInv, ControlInv, ReviewInv, OneReviewAtATime, OneReviewAtATime',
         NEW c \in Client, ClientNext(c)
  PROVE  ReviewInv'
<1>0. /\ CallKnows(c) /\ CallFiles(c)
      /\ \A q \in Client \cup Loop : at[q] # "idle" => on[q] \in Job /\ status[on[q]] # "none"
      /\ \A q \in Client \cup Loop : at'[q] # "idle" => on'[q] \in Job
      /\ (\A d \in Client \ {c} : CallSame(d)) /\ (\A l \in Loop : LoopSame(l))
      /\ Client \cap Loop = {} /\ Client \cup Loop \subseteq Proc
  BY CallSteps DEF ControlInv, ReviewInv, CallKnows, LoopKnows, TypeInv, ProcTypeOK, BusyWithJob
<1>n. /\ \A j \in Job : /\ reviews[j] \in Nat /\ accepted[j] \in Nat
                        /\ approved[j] \in Nat \cup {None} /\ output[j] \in Nat \cup {None}
                        /\ auto[j] \in BOOLEAN
      /\ carries[c] \in Nat /\ before[c] \in Nat /\ 0 # None
      /\ \A d \in Client : before[d] \in Nat
  BY Numbers

\* The calls and loops of other jobs, and those jobs.
<1>e. ASSUME NEW j \in Job, Elsewhere(j)
      PROVE  /\ \A k \in Job \ {j} : RowFiles(k)'
             /\ \A d \in Client \ {c} : on[d] # j => CallFiles(d)'
             /\ \A l \in Loop : on[l] # j => LoopFiles(l)'
             /\ \A d \in Client \ {c}, l \in Loop : on[d] # j => UndoFiles(d, l)'
  <2>1. \A k \in Job \ {j} : Same(k) /\ status'[k] = status[k]
    BY <1>e DEF Elsewhere, Same, OnlyStatus
  <2>2. \A k \in Job \ {j} : RowFiles(k)'
    BY <2>1, RowFilesStay DEF ReviewInv
  <2>3. \A d \in Client \ {c} : on[d] # j => CallFiles(d)'
    BY <1>0, <2>1, CallFilesStay DEF ReviewInv
  <2>4. \A l \in Loop : on[l] # j => LoopFiles(l)'
    BY <1>0, <2>1, LoopFilesStay DEF ReviewInv
  <2>5. \A d \in Client \ {c}, l \in Loop : on[d] # j => UndoFiles(d, l)'
    BY <1>0, <2>1, UndoFilesStay DEF ReviewInv
  <2> QED
    BY <2>2, <2>3, <2>4, <2>5
<1>m. ASSUME \A j \in Job : reviews[j] > 0 => reviews'[j] > 0
      PROVE  \A m \in Message : MessageReviewed(m)'
  <2> SUFFICES ASSUME NEW m \in Message PROVE MessageReviewed(m)'
    OBVIOUS
  <2>1. CASE queue'[m] = queue[m]
    BY <1>m, <2>1, MessageStaysReviewed DEF ReviewInv, Sent
  <2>2. CASE SentBy(c, m)
    BY <1>0, <1>m, <2>2 DEF SentBy, MessageReviewed, CallFiles, Reviewing, TaskOf
  <2> QED
    BY <2>1, <2>2, CallMessages

\* What is left to show of a step on job j.
<1>j. ASSUME NEW j \in Job, Elsewhere(j), RowFiles(j)', CallFiles(c)', \A l \in Loop : UndoFiles(c, l)',
             \A d \in Client \ {c} : at[d] # "idle" /\ on[d] = j => CallFiles(d)',
             \A l \in Loop : at[l] # "idle" /\ on[l] = j => LoopFiles(l)',
             \A d \in Client \ {c}, l \in Loop : at[d] # "idle" /\ on[d] = j => UndoFiles(d, l)',
             reviews'[j] >= reviews[j]
      PROVE  ReviewInv'
  <2>1. \A d \in Client \ {c} : at[d] = "idle" => CallFiles(d)'
    BY <1>0, CallFilesStay DEF ReviewInv
  <2>2. \A l \in Loop : at[l] = "idle" => LoopFiles(l)'
    BY <1>0, LoopFilesStay DEF ReviewInv
  <2>3. \A d \in Client \ {c}, l \in Loop : at[d] = "idle" => UndoFiles(d, l)'
    BY <1>0, UndoFilesStay DEF ReviewInv
  <2>4. \A k \in Job : reviews[k] > 0 => reviews'[k] > 0
    BY <1>j, <1>n DEF Elsewhere, Same, OnlyStatus, TypeInv, CallTypeOK, Review
  <2>5. \A m \in Message : MessageReviewed(m)'
    BY <1>m, <2>4
  <2>6. \A k \in Job : RowFiles(k)'
    BY <1>e, <1>j
  <2>7. \A d \in Client : CallFiles(d)'
    BY <1>e, <1>j, <2>1
  <2>8. \A l \in Loop : LoopFiles(l)'
    BY <1>e, <1>j, <2>2
  <2>9. \A d \in Client, l \in Loop : UndoFiles(d, l)'
    BY <1>e, <1>j, <2>3
  <2> QED
    BY <2>5, <2>6, <2>7, <2>8, <2>9 DEF ReviewInv

\* A step that changes no row and no file.
<1>q. ASSUME \A j \in Job : Same(j), CallFiles(c)', \A l \in Loop : UndoFiles(c, l)'
      PROVE  ReviewInv'
  <2>1. \A j \in Job : RowFiles(j)' /\ status'[j] = status[j] /\ reviews'[j] = reviews[j]
    BY <1>q, RowFilesStay DEF ReviewInv, Same, OnlyStatus
  <2>2. \A d \in Client \ {c} : CallFiles(d)'
    BY <1>0, <1>q, CallFilesStay DEF ReviewInv
  <2>3. \A l \in Loop : LoopFiles(l)'
    BY <1>0, <1>q, LoopFilesStay DEF ReviewInv
  <2>4. \A d \in Client \ {c}, l \in Loop : UndoFiles(d, l)'
    BY <1>0, <2>1, UndoFilesStay DEF ReviewInv
  <2>5. \A m \in Message : MessageReviewed(m)'
    BY <1>m, <2>1
  <2> QED
    BY <1>q, <2>1, <2>2, <2>3, <2>4, <2>5 DEF ReviewInv
<1>f. /\ \A j \in Job : RowFiles(j)
      /\ \A d \in Client : CallFiles(d) /\ CallKnows(d)
      /\ \A l \in Loop : LoopFiles(l) /\ LoopKnows(l)
      /\ \A d \in Client, l \in Loop : UndoFiles(d, l)
  BY DEF ReviewInv, ControlInv
<1>u. /\ \A l \in Loop : at'[l] = at[l] /\ on'[l] = on[l] /\ manifest'[l] = manifest[l] /\ letter'[l] = letter[l]
      /\ \A d \in Client \ {c} : /\ at'[d] = at[d] /\ on'[d] = on[d] /\ was'[d] = was[d]
                                 /\ carries'[d] = carries[d] /\ before'[d] = before[d]
  BY <1>0 DEF LoopSame, CallSame, PlaceSame

\* Nobody else is reviewing the job.
<1>o. /\ \A d \in Client \ {c} : Reviewing(c) /\ on[d] = on[c] => ~Reviewing(d) /\ ~Undoable(d)
      /\ \A d \in Client \ {c} : Reviewing(c)' /\ on[d] = on'[c] => ~Reviewing(d) /\ ~Undoable(d)
  BY <1>u DEF OneReviewAtATime, Reviewing, Undoable
<1>1. ASSUME NEW j \in Job, Creates(c, j) PROVE ReviewInv'
  <2>1. /\ status[j] = "none" /\ status'[j] = "awaiting_upload" /\ Elsewhere(j)
        /\ accepted'[j] = accepted[j] /\ reviews'[j] = reviews[j] /\ approved'[j] = approved[j] /\ output'[j] = output[j]
    BY <1>1 DEF Creates
  <2>2. RowFiles(j)'
    BY <1>f, <2>1 DEF RowFiles, Early, Waits
  <2>3. \A d \in Client : at[d] # "idle" => on[d] # j
    BY <1>0, <2>1
  <2>4. \A l \in Loop : at[l] # "idle" => on[l] # j
    BY <1>0, <2>1
  <2>5. CallFiles(c)' /\ \A l \in Loop : UndoFiles(c, l)'
    <3>1. CASE CallSame(c)
      <4>1. CallFiles(c)'
        BY <1>0, <2>1, <2>3, <3>1, CallFilesStay DEF Elsewhere
      <4>2. \A l \in Loop : UndoFiles(c, l)'
        BY <1>0, <1>f, <2>1, <2>3, <3>1, UndoFilesStay DEF Elsewhere, Same, OnlyStatus
      <4> QED
        BY <4>1, <4>2
    <3>2. CASE at[c] = "idle" /\ at'[c] = "reject" /\ on'[c] = j
      BY <3>2 DEF CallFiles, Reviewing, Undoable, UndoFiles
    <3> QED
      BY <1>1, <3>1, <3>2 DEF Creates
  <2> QED
    BY <1>j, <1>n, <2>1, <2>2, <2>3, <2>4, <2>5
<1>2. ASSUME NEW j \in Job, StartsSubmit(c, j) \/ StartsDelete(c, j) PROVE ReviewInv'
  <2>1. at'[c] \in {"submit", "reject", "bury", "purge"} /\ \A k \in Job : Same(k)
    BY <1>2 DEF StartsSubmit, StartsDelete, Starts, Elsewhere
  <2>2. CallFiles(c)' /\ \A l \in Loop : UndoFiles(c, l)'
    BY <2>1 DEF CallFiles, Reviewing, Undoable, UndoFiles
  <2> QED
    BY <1>q, <2>1, <2>2
<1>3. ASSUME NEW j \in Job, StartsReview(c, j) PROVE ReviewInv'
  <2>1. /\ status[j] \in Reviewable /\ was'[c] = status[j] /\ at'[c] = "write" /\ on'[c] = j
        /\ reviews'[j] = reviews[j] + 1 /\ carries'[c] = reviews'[j]
        /\ status'[j] = status[j] /\ auto'[j] = auto[j] /\ accepted'[j] = accepted[j]
        /\ approved'[j] = approved[j] /\ output'[j] = output[j] /\ Elsewhere(j)
    BY <1>3 DEF StartsReview, Starts
  <2>2. RowFiles(j)'
    BY <1>f, <1>n, <2>1 DEF RowFiles, Early, Waits, Reviewable
  <2>3. CallFiles(c)' /\ \A l \in Loop : UndoFiles(c, l)'
    BY <1>f, <1>n, <2>1 DEF CallFiles, Reviewing, Undoable, UndoFiles, RowFiles
  <2>4. ASSUME NEW d \in Client \ {c}, at[d] # "idle", on[d] = j PROVE CallFiles(d)'
    <3>1. ~Reviewing(d)
      BY <1>o, <2>1, <2>4 DEF Reviewing
    <3> QED
      BY <1>f, <1>u, <2>1, <2>4, <3>1 DEF CallFiles, Reviewing, Undoable
  <2>5. ASSUME NEW l \in Loop, on[l] = j PROVE LoopFiles(l)'
    BY <1>f, <1>n, <1>u, <2>1, <2>5, Numbers DEF LoopFiles
  <2>6. ASSUME NEW d \in Client \ {c}, NEW l \in Loop, on[d] = j PROVE UndoFiles(d, l)'
    BY <1>0, <1>f, <2>1, <2>6, UndoFilesStay
  <2> QED
    BY <1>j, <1>n, <2>1, <2>2, <2>3, <2>4, <2>5, <2>6
<1>4. ASSUME WritesReview(c, on[c]), on[c] \in Job PROVE ReviewInv'
  <2>0. PICK j \in Job : j = on[c]
    BY <1>4
  <2>1. /\ at[c] = "write" /\ at'[c] = "finalize" /\ on'[c] = j
        /\ was'[c] = was[c] /\ carries'[c] = carries[c]
        /\ approved'[j] = carries[c]
        /\ status'[j] = status[j] /\ auto'[j] = auto[j] /\ accepted'[j] = accepted[j]
        /\ reviews'[j] = reviews[j] /\ output'[j] = output[j] /\ Elsewhere(j)
    BY <1>4, <2>0 DEF WritesReview, MovesTo
  <2>2. status[j] \in {was[c], "deleted"} /\ was[c] \in Reviewable /\ carries[c] = reviews[j] /\ carries[c] # None
    BY <1>0, <1>n, <2>0, <2>1 DEF CallFiles, CallKnows, TypeInv, CallTypeOK
  <2>3. RowFiles(j)'
    BY <1>f, <1>n, <2>1, <2>2 DEF RowFiles, Early, Waits, Reviewable
  <2>4. CallFiles(c)' /\ \A l \in Loop : UndoFiles(c, l)'
    BY <1>0, <2>0, <2>1, <2>2 DEF CallFiles, Reviewing, Undoable, UndoFiles
  <2>5. ASSUME NEW d \in Client \ {c}, at[d] # "idle", on[d] = j PROVE CallFiles(d)'
    <3>1. ~Reviewing(d)
      BY <1>o, <2>0, <2>1, <2>5 DEF Reviewing
    <3> QED
      BY <1>f, <1>u, <2>1, <2>5, <3>1 DEF CallFiles, Reviewing, Undoable
  <2>6. ASSUME NEW l \in Loop, on[l] = j PROVE LoopFiles(l)'
    BY <1>f, <1>u, <2>1, <2>2, <2>6 DEF LoopFiles, Early, Reviewable
  <2>7. ASSUME NEW d \in Client \ {c}, NEW l \in Loop, on[d] = j PROVE UndoFiles(d, l)'
    BY <1>0, <1>f, <2>1, <2>7, UndoFilesStay
  <2> QED
    BY <1>j, <1>n, <2>1, <2>3, <2>4, <2>5, <2>6, <2>7
<1>5. ASSUME PutsSubmitted(c, on[c]), on[c] \in Job PROVE ReviewInv'
  <2>0. PICK j \in Job : j = on[c]
    BY <1>5
  <2>1. /\ at[c] = "submit" /\ at'[c] = "send" /\ on'[c] = j /\ was'[c] = was[c] /\ before'[c] = 0
        /\ status'[j] = "queued_detection"
        /\ auto'[j] = auto[j] /\ accepted'[j] = accepted[j]
        /\ reviews'[j] = reviews[j] /\ output'[j] = output[j] /\ approved'[j] = approved[j] /\ Elsewhere(j)
    BY <1>5, <2>0 DEF PutsSubmitted, CallPut, MovesTo
  <2>2. status[j] = "awaiting_upload" /\ was[c] = "awaiting_upload"
    BY <1>0, <1>5, <2>0, <2>1, CallFinds DEF CallKnows, PutsSubmitted, CallPut
  <2>3. RowFiles(j)'
    BY <1>f, <2>1, <2>2 DEF RowFiles, Early, Waits
  <2>4. CallFiles(c)' /\ \A l \in Loop : UndoFiles(c, l)'
    BY <2>1, <2>2 DEF CallFiles, Reviewing, Undoable, UndoFiles
  <2>5. ASSUME NEW d \in Client \ {c}, at[d] # "idle", on[d] = j PROVE CallFiles(d)'
    BY <1>f, <1>u, <2>1, <2>2, <2>5 DEF CallFiles, CallKnows, Reviewing, Undoable, Early, Reviewable
  <2>6. ASSUME NEW l \in Loop, on[l] = j PROVE LoopFiles(l)'
    BY <1>f, <1>u, <2>1, <2>2, <2>6 DEF LoopFiles, Early, Waits
  <2>7. ASSUME NEW d \in Client \ {c}, NEW l \in Loop, on[d] = j PROVE UndoFiles(d, l)'
    BY <1>0, <1>f, <2>1, <2>7, UndoFilesStay
  <2> QED
    BY <1>j, <1>n, <2>1, <2>3, <2>4, <2>5, <2>6, <2>7
<1>r. ASSUME PutsRejected(c, on[c]), on[c] \in Job PROVE ReviewInv'
  <2>0. PICK j \in Job : j = on[c]
    BY <1>r
  <2>1. /\ at[c] = "reject" /\ at'[c] = "idle" /\ status'[j] = "failed"
        /\ auto'[j] = auto[j] /\ accepted'[j] = accepted[j]
        /\ reviews'[j] = reviews[j] /\ output'[j] = output[j] /\ approved'[j] = approved[j] /\ Elsewhere(j)
    BY <1>r, <2>0 DEF PutsRejected, CallPut, MovesTo
  <2>2. status[j] = "awaiting_upload"
    BY <1>0, <1>r, <2>0, <2>1, CallFinds DEF CallKnows, PutsRejected, CallPut
  <2>3. RowFiles(j)'
    BY <1>f, <2>1, <2>2 DEF RowFiles, Early, Waits
  <2>4. CallFiles(c)' /\ \A l \in Loop : UndoFiles(c, l)'
    BY <2>1, <2>2 DEF CallFiles, Reviewing, Undoable, UndoFiles
  <2>5. ASSUME NEW d \in Client \ {c}, at[d] # "idle", on[d] = j PROVE CallFiles(d)'
    BY <1>f, <1>u, <2>1, <2>2, <2>5 DEF CallFiles, CallKnows, Reviewing, Undoable, Early, Reviewable
  <2>6. ASSUME NEW l \in Loop, on[l] = j PROVE LoopFiles(l)'
    BY <1>f, <1>u, <2>1, <2>2, <2>6 DEF LoopFiles, Early, Waits
  <2>7. ASSUME NEW d \in Client \ {c}, NEW l \in Loop, on[d] = j PROVE UndoFiles(d, l)'
    BY <1>0, <1>f, <2>1, <2>7, UndoFilesStay
  <2> QED
    BY <1>j, <1>n, <2>1, <2>3, <2>4, <2>5, <2>6, <2>7
<1>6. ASSUME PutsReviewed(c, on[c]), on[c] \in Job PROVE ReviewInv'
  <2>0. PICK j \in Job : j = on[c]
    BY <1>6
  <2>1. /\ at[c] = "finalize" /\ at'[c] = "send" /\ on'[c] = j /\ was'[c] = was[c]
        /\ before'[c] = accepted[j] /\ accepted'[j] = carries[c] /\ auto'[j] = FALSE
        /\ status'[j] = "queued_redaction"
        /\ reviews'[j] = reviews[j] /\ output'[j] = output[j] /\ approved'[j] = approved[j] /\ Elsewhere(j)
    BY <1>6, <2>0 DEF PutsReviewed, CallPut, MovesTo
  <2>2. /\ status[j] = was[c] /\ was[c] \in Reviewable /\ carries[c] = reviews[j] /\ accepted[j] < carries[c]
        /\ approved[j] # None
    BY <1>0, <1>6, <2>0, <2>1, CallFinds DEF CallFiles, PutsReviewed, CallPut, Reviewable
  <2>3. RowFiles(j)'
    BY <1>f, <1>n, <2>1, <2>2 DEF RowFiles, Early, Waits
  <2>4. CallFiles(c)'
    BY <1>0, <1>f, <1>n, <2>0, <2>1, <2>2 DEF CallFiles, RowFiles, Reviewing, Undoable, Reviewable
  <2>5. \A l \in Loop : UndoFiles(c, l)'
    BY <1>f, <1>u, <2>1 DEF UndoFiles, LoopFiles
  <2>6. ASSUME NEW d \in Client \ {c}, at[d] # "idle", on[d] = j PROVE CallFiles(d)'
    <3>1. ~Reviewing(d)
      BY <1>o, <2>0, <2>1, <2>6 DEF Reviewing
    <3> QED
      BY <1>f, <1>u, <2>1, <2>6, <3>1 DEF CallFiles, Reviewing, Undoable
  <2>7. ASSUME NEW l \in Loop, on[l] = j PROVE LoopFiles(l)'
    BY <1>f, <1>n, <1>u, <2>1, <2>2, <2>7, Numbers DEF LoopFiles, Early, Waits, Reviewable, RenderStep
  <2>8. ASSUME NEW d \in Client \ {c}, NEW l \in Loop, on[d] = j PROVE UndoFiles(d, l)'
    <3>1. ~Reviewing(d)
      BY <1>o, <2>0, <2>1, <2>8 DEF Reviewing
    <3> QED
      BY <1>u, <3>1 DEF UndoFiles, Undoable, Reviewing
  <2> QED
    BY <1>j, <1>n, <2>1, <2>3, <2>4, <2>5, <2>6, <2>7, <2>8
<1>7. ASSUME PutsBack(c, on[c]), on[c] \in Job PROVE ReviewInv'
  <2>0. PICK j \in Job : j = on[c]
    BY <1>7
  <2>1. /\ at[c] = "undo" /\ at'[c] = "idle" /\ was'[c] = was[c]
        /\ accepted'[j] = before[c] /\ auto'[j] = auto[j]
        /\ status'[j] = was[c]
        /\ reviews'[j] = reviews[j] /\ output'[j] = output[j] /\ approved'[j] = approved[j] /\ Elsewhere(j)
    BY <1>7, <2>0 DEF PutsBack, CallPut, MovesTo
  <2>2. \/ was[c] = "awaiting_upload" /\ status[j] = "queued_detection" /\ before[c] = 0
        \/ was[c] \in Reviewable /\ status[j] = "queued_redaction" /\ Undoable(c) /\ Reviewing(c)
    BY <1>0, <1>7, <2>0, <2>1, CallFinds DEF CallFiles, PutsBack, CallPut, Reviewable, Undoable, Reviewing
  <2>a. /\ before[c] <= accepted[j]
        /\ output[j] # None => output[j] <= before[c]
        /\ was[c] = "complete" => output[j] # None
        /\ \A l \in Loop : on[l] = j /\ at[l] \in {"output", "complete"} => manifest[l] <= before[c]
    <3>1. CASE was[c] = "awaiting_upload" /\ status[j] = "queued_detection" /\ before[c] = 0
      BY <1>f, <1>n, <3>1 DEF RowFiles, LoopFiles, LoopKnows, Early, RenderStep
    <3>2. CASE Undoable(c)
      BY <1>f, <2>0, <3>2 DEF CallFiles, UndoFiles
    <3> QED
      BY <2>2, <3>1, <3>2
  <2>3. RowFiles(j)'
    BY <1>f, <1>n, <2>1, <2>2, <2>a DEF RowFiles, Early, Waits, Reviewable
  <2>4. CallFiles(c)' /\ \A l \in Loop : UndoFiles(c, l)'
    BY <2>1 DEF CallFiles, Reviewing, Undoable, UndoFiles
  <2>5. ASSUME NEW d \in Client \ {c}, at[d] # "idle", on[d] = j PROVE CallFiles(d)'
    <3>1. ~Reviewing(d)
      <4>1. CASE was[c] = "awaiting_upload" /\ status[j] = "queued_detection"
        BY <1>f, <2>5, <4>1 DEF CallFiles, CallKnows, Reviewing, Early, Reviewable
      <4>2. CASE Reviewing(c)
        BY <1>o, <2>0, <2>5, <4>2
      <4> QED
        BY <2>2, <4>1, <4>2
    <3> QED
      BY <1>f, <1>u, <2>1, <2>5, <3>1 DEF CallFiles, Reviewing, Undoable
  <2>6. ASSUME NEW l \in Loop, on[l] = j PROVE LoopFiles(l)'
    BY <1>f, <1>n, <1>u, <2>1, <2>2, <2>a, <2>6 DEF LoopFiles, Early, Waits, Reviewable, RenderStep
  <2>7. ASSUME NEW d \in Client \ {c}, NEW l \in Loop, on[d] = j PROVE UndoFiles(d, l)'
    BY <1>u, <2>1, <2>2, <2>7 DEF UndoFiles, Undoable, Reviewable
  <2> QED
    BY <1>j, <1>n, <2>1, <2>3, <2>4, <2>5, <2>6, <2>7
<1>8. ASSUME PutsDeleted(c, on[c]) \/ PurgesFiles(c, on[c]), on[c] \in Job PROVE ReviewInv'
  <2>0. PICK j \in Job : j = on[c]
    BY <1>8
  <2>1. /\ at'[c] \in {"idle", "purge"}
        /\ accepted'[j] = accepted[j] /\ auto'[j] = auto[j] /\ reviews'[j] = reviews[j]
        /\ status'[j] = "deleted" /\ output'[j] \in {output[j], None} /\ approved'[j] \in {approved[j], None}
        /\ Elsewhere(j)
    BY <1>0, <1>8, <2>0 DEF PutsDeleted, CallPut, PurgesFiles, MovesTo, CallKnows
  <2>3. RowFiles(j)'
    BY <1>f, <1>n, <2>1 DEF RowFiles, Early, Waits
  <2>4. CallFiles(c)' /\ \A l \in Loop : UndoFiles(c, l)'
    BY <2>1 DEF CallFiles, Reviewing, Undoable, UndoFiles
  <2>5. ASSUME NEW d \in Client \ {c}, at[d] # "idle", on[d] = j PROVE CallFiles(d)'
    BY <1>f, <1>u, <2>1, <2>5 DEF CallFiles, Reviewing, Undoable
  <2>6. ASSUME NEW l \in Loop, on[l] = j PROVE LoopFiles(l)'
    BY <1>f, <1>u, <2>1, <2>6 DEF LoopFiles, Early, Waits
  <2>7. ASSUME NEW d \in Client \ {c}, NEW l \in Loop, on[d] = j PROVE UndoFiles(d, l)'
    BY <1>u, <2>1, <2>7 DEF UndoFiles, Undoable
  <2> QED
    BY <1>j, <1>n, <2>1, <2>3, <2>4, <2>5, <2>6, <2>7
<1>9. ASSUME CallGoesOn(c), at[c] # "idle", on[c] \in Job PROVE ReviewInv'
  <2>0. (\A j \in Job : Same(j)) /\ was'[c] = was[c] /\ carries'[c] = carries[c]
    BY <1>9 DEF CallGoesOn
  <2>1. CASE PlaceSame(c) /\ before'[c] = before[c]
    <3>1. CallSame(c)
      BY <2>0, <2>1 DEF CallSame
    <3>2. Same(on[c]) /\ status'[on[c]] = status[on[c]]
      BY <1>9, <2>0 DEF Same, OnlyStatus
    <3> QED
      BY <1>0, <1>f, <1>q, <2>0, <3>1, <3>2, CallFilesStay, UndoFilesStay
  <2>2. CASE at'[c] \in {"idle", "not_found"}
    BY <1>q, <2>0, <2>2 DEF CallFiles, Reviewing, Undoable, UndoFiles
  <2>3. CASE at[c] = "send" /\ MovesTo(c, "undo") /\ before'[c] = before[c]
    <3>1. Same(on[c])
      BY <1>9, <2>0
    <3>2. CallFiles(c)'
      BY <1>0, <2>0, <2>3, <3>1 DEF MovesTo, CallFiles, Reviewing, Undoable, Same, OnlyStatus
    <3>3. \A l \in Loop : UndoFiles(c, l)'
      BY <1>f, <1>u, <2>0, <2>3, <3>1 DEF MovesTo, UndoFiles, Undoable, Same, OnlyStatus
    <3> QED
      BY <1>q, <2>0, <3>2, <3>3
  <2> QED
    BY <1>9, <2>1, <2>2, <2>3 DEF CallGoesOn, MovesTo
<1> QED
  BY <1>1, <1>2, <1>3, <1>4, <1>5, <1>r, <1>6, <1>7, <1>8, <1>9, CallSteps DEF CallDoes

LEMMA LoopKeepsReviews ==
  ASSUME TypeInv, TypeInv', MessageInv, ControlInv, ReviewInv, NEW l \in Loop, LoopNext(l)
  PROVE  ReviewInv'
<1>0. /\ LoopKnows(l) /\ LoopFiles(l)
      /\ \A q \in Client \cup Loop : at[q] # "idle" => on[q] \in Job /\ status[on[q]] # "none"
      /\ \A q \in Client \cup Loop : at'[q] # "idle" => on'[q] \in Job
      /\ (\A c \in Client : CallSame(c)) /\ (\A k \in Loop \ {l} : LoopSame(k))
      /\ Client \cap Loop = {} /\ Client \cup Loop \subseteq Proc
  BY LoopSteps DEF ControlInv, ReviewInv, CallKnows, LoopKnows, TypeInv, ProcTypeOK, BusyWithJob
<1>n. /\ \A j \in Job : /\ reviews[j] \in Nat /\ accepted[j] \in Nat
                        /\ approved[j] \in Nat \cup {None} /\ output[j] \in Nat \cup {None}
                        /\ auto[j] \in BOOLEAN
      /\ \A k \in Loop : manifest[k] \in Nat \cup {None} /\ letter[k].auto \in BOOLEAN
      /\ \A c \in Client : before[c] \in Nat
      /\ 0 # None
  BY Numbers
<1>f. /\ \A j \in Job : RowFiles(j)
      /\ \A c \in Client : CallFiles(c) /\ CallKnows(c)
      /\ \A k \in Loop : LoopFiles(k) /\ LoopKnows(k)
      /\ \A c \in Client, k \in Loop : UndoFiles(c, k)
  BY DEF ReviewInv, ControlInv
<1>u. /\ \A k \in Loop \ {l} : at'[k] = at[k] /\ on'[k] = on[k] /\ manifest'[k] = manifest[k] /\ letter'[k] = letter[k]
      /\ \A c \in Client : /\ at'[c] = at[c] /\ on'[c] = on[c] /\ was'[c] = was[c]
                           /\ carries'[c] = carries[c] /\ before'[c] = before[c]
  BY <1>0 DEF LoopSame, CallSame, PlaceSame
<1>m. ASSUME \A j \in Job : reviews[j] > 0 => reviews'[j] > 0
      PROVE  \A m \in Message : MessageReviewed(m)'
  BY <1>m, LoopMessages, MessageStaysReviewed DEF ReviewInv

\* A step that changes no row and no file.
<1>q. ASSUME \A j \in Job : Same(j), LoopFiles(l)', \A c \in Client : UndoFiles(c, l)'
      PROVE  ReviewInv'
  <2>1. \A j \in Job : RowFiles(j)' /\ status'[j] = status[j] /\ reviews'[j] = reviews[j]
    BY <1>q, RowFilesStay DEF ReviewInv, Same, OnlyStatus
  <2>2. \A c \in Client : CallFiles(c)'
    BY <1>0, <1>q, CallFilesStay DEF ReviewInv
  <2>3. \A k \in Loop \ {l} : LoopFiles(k)'
    BY <1>0, <1>q, LoopFilesStay DEF ReviewInv
  <2>4. \A c \in Client, k \in Loop \ {l} : UndoFiles(c, k)'
    BY <1>0, <2>1, UndoFilesStay DEF ReviewInv
  <2>5. \A m \in Message : MessageReviewed(m)'
    BY <1>m, <2>1
  <2> QED
    BY <1>q, <2>1, <2>2, <2>3, <2>4, <2>5 DEF ReviewInv

\* What is left to show of a step on job j, which makes no put of a call undoable.
<1>j. ASSUME NEW j \in Job, Elsewhere(j), RowFiles(j)', LoopFiles(l)', \A c \in Client : UndoFiles(c, l)',
             \A c \in Client : at[c] # "idle" /\ on[c] = j => CallFiles(c)',
             \A k \in Loop \ {l} : at[k] # "idle" /\ on[k] = j => LoopFiles(k)',
             status'[j] = "queued_redaction" => status[j] = "queued_redaction",
             reviews'[j] = reviews[j]
      PROVE  ReviewInv'
  <2>1. \A k \in Job \ {j} : Same(k) /\ status'[k] = status[k] /\ reviews'[k] = reviews[k]
    BY <1>j DEF Elsewhere, Same, OnlyStatus
  <2>2. \A k \in Job : RowFiles(k)'
    BY <1>j, <2>1, RowFilesStay DEF ReviewInv
  <2>3. \A c \in Client : CallFiles(c)'
    <3>1. \A c \in Client : at[c] = "idle" \/ on[c] # j => CallFiles(c)'
      BY <1>0, <2>1, CallFilesStay DEF ReviewInv
    <3> QED
      BY <1>j, <3>1
  <2>4. \A k \in Loop : LoopFiles(k)'
    <3>1. \A k \in Loop \ {l} : at[k] = "idle" \/ on[k] # j => LoopFiles(k)'
      BY <1>0, <2>1, LoopFilesStay DEF ReviewInv
    <3> QED
      BY <1>j, <3>1
  <2>5. \A c \in Client, k \in Loop \ {l} : UndoFiles(c, k)'
    <3>1. \A c \in Client : at[c] # "idle" /\ status'[on[c]] = "queued_redaction" => status[on[c]] = "queued_redaction"
      BY <1>0, <1>j, <2>1
    <3> QED
      BY <1>0, <3>1, UndoFilesStay DEF ReviewInv
  <2>6. \A m \in Message : MessageReviewed(m)'
    BY <1>j, <1>m, <2>1
  <2> QED
    BY <1>j, <2>2, <2>3, <2>4, <2>5, <2>6 DEF ReviewInv
<1>t. letter[l].task \in {"detect", "redact"}
  BY Numbers
<1>1. ASSUME NEW m \in Message, Receives(l, m) PROVE ReviewInv'
  <2>1. /\ Sent(m) /\ at'[l] = "look" /\ on'[l] = queue[m].says[1] /\ letter'[l].task = queue[m].says[2]
        /\ \A j \in Job : Same(j)
    BY <1>1 DEF Receives, Visible
  <2>2. MessageReviewed(m) /\ on'[l] \in Job /\ reviews'[on'[l]] = reviews[on'[l]]
    BY <1>0, <2>1 DEF ReviewInv, Same, OnlyStatus
  <2>3. LoopFiles(l)'
    BY <2>1, <2>2 DEF LoopFiles, MessageReviewed, RenderStep, DetectStep
  <2>4. \A c \in Client : UndoFiles(c, l)'
    BY <2>1 DEF UndoFiles
  <2> QED
    BY <1>q, <2>1, <2>3, <2>4
<1>2. ASSUME Erases(l, on[l]), at[l] # "idle", on[l] \in Job PROVE ReviewInv'
  <2>0. PICK j \in Job : j = on[l]
    BY <1>2
  <2>1. /\ status[j] = "deleted" /\ at'[l] \in {"fail", "ack"} /\ on'[l] = j
        /\ approved'[j] = None /\ output'[j] = None /\ Elsewhere(j)
        /\ status'[j] = status[j] /\ auto'[j] = auto[j] /\ accepted'[j] = accepted[j] /\ reviews'[j] = reviews[j]
        /\ letter'[l] = letter[l]
    BY <1>2, <2>0 DEF Erases, MovesTo
  <2>2. RowFiles(j)'
    BY <1>f, <2>1 DEF RowFiles, Early, Waits
  <2>3. LoopFiles(l)' /\ \A c \in Client : UndoFiles(c, l)'
    BY <1>2, <1>f, <2>0, <2>1 DEF LoopFiles, UndoFiles, RenderStep, DetectStep
  <2>4. ASSUME NEW c \in Client, on[c] = j PROVE CallFiles(c)'
    BY <1>f, <1>u, <2>1, <2>4 DEF CallFiles, Reviewing, Undoable
  <2>5. ASSUME NEW k \in Loop \ {l}, on[k] = j PROVE LoopFiles(k)'
    BY <1>f, <1>u, <2>1, <2>5 DEF LoopFiles, Early, Waits
  <2> QED
    BY <1>j, <2>1, <2>2, <2>3, <2>4, <2>5
<1>3. ASSUME WritesManifests(l, on[l]), at[l] # "idle", on[l] \in Job PROVE ReviewInv'
  <2>0. PICK j \in Job : j = on[l]
    BY <1>3
  <2>1. /\ at[l] = "draft" /\ at'[l] = "handoff" /\ on'[l] = j
        /\ approved'[j] = (IF letter[l].auto THEN 0 ELSE approved[j]) /\ manifest'[l] = 0 /\ Elsewhere(j)
        /\ status'[j] = status[j] /\ auto'[j] = auto[j] /\ accepted'[j] = accepted[j] /\ reviews'[j] = reviews[j]
        /\ output'[j] = output[j] /\ letter'[l] = letter[l]
    BY <1>3, <2>0 DEF WritesManifests, MovesTo
  <2>2. RowFiles(j)'
    BY <1>f, <1>n, <2>1 DEF RowFiles
  <2>3. LoopFiles(l)' /\ \A c \in Client : UndoFiles(c, l)'
    BY <1>3, <1>f, <1>n, <2>0, <2>1 DEF LoopFiles, UndoFiles, RenderStep, DetectStep
  <2>4. ASSUME NEW c \in Client, on[c] = j PROVE CallFiles(c)'
    BY <1>f, <1>n, <1>u, <2>1, <2>4 DEF CallFiles, Reviewing, Undoable
  <2>5. ASSUME NEW k \in Loop \ {l}, on[k] = j PROVE LoopFiles(k)'
    BY <1>f, <1>u, <2>1, <2>5 DEF LoopFiles
  <2> QED
    BY <1>j, <2>1, <2>2, <2>3, <2>4, <2>5
<1>4. ASSUME Fetches(l, on[l]), at[l] # "idle", on[l] \in Job PROVE ReviewInv'
  <2>0. PICK j \in Job : j = on[l]
    BY <1>4
  <2>1. /\ at[l] = "fetch" /\ at'[l] = "render" /\ on'[l] = j
        /\ approved[j] # None /\ manifest'[l] = approved[j]
        /\ Same(j) /\ letter'[l] = letter[l] /\ \A k \in Job : Same(k)
    BY <1>4, <2>0 DEF Fetches, MovesTo, Elsewhere
  <2>2. LoopFiles(l)'
    BY <1>4, <1>f, <2>0, <2>1 DEF LoopFiles, RowFiles, RenderStep, DetectStep, Same, OnlyStatus
  <2>3. \A c \in Client : UndoFiles(c, l)'
    BY <2>1 DEF UndoFiles
  <2> QED
    BY <1>q, <2>1, <2>2, <2>3
<1>5. ASSUME StoresOutput(l, on[l]), at[l] # "idle", on[l] \in Job PROVE ReviewInv'
  <2>0. PICK j \in Job : j = on[l]
    BY <1>5
  <2>1. /\ at[l] = "output" /\ at'[l] = "complete" /\ on'[l] = j
        /\ output'[j] = manifest[l] /\ manifest'[l] = manifest[l] /\ Elsewhere(j)
        /\ status'[j] = status[j] /\ auto'[j] = auto[j] /\ accepted'[j] = accepted[j] /\ reviews'[j] = reviews[j]
        /\ approved'[j] = approved[j] /\ letter'[l] = letter[l]
    BY <1>5, <2>0 DEF StoresOutput, MovesTo
  <2>2. manifest[l] # None /\ manifest[l] <= accepted[j] /\ manifest[l] <= reviews[j]
    BY <1>f, <2>0, <2>1 DEF LoopFiles, RenderStep
  <2>3. RowFiles(j)'
    BY <1>f, <1>n, <2>1, <2>2 DEF RowFiles
  <2>4. LoopFiles(l)'
    BY <1>5, <1>f, <2>0, <2>1, <2>2 DEF LoopFiles, RenderStep, DetectStep
  <2>5. \A c \in Client : UndoFiles(c, l)'
    <3>1. ASSUME NEW c \in Client, Undoable(c)', on'[l] = on'[c] PROVE manifest'[l] <= before'[c]
      <4>1. on[c] = j /\ Undoable(c)
        BY <1>u, <2>0, <2>1, <3>1 DEF Undoable
      <4>2. UndoFiles(c, l)
        BY <1>f
      <4> QED
        BY <1>u, <2>0, <2>1, <4>1, <4>2 DEF UndoFiles
    <3> QED
      BY <3>1 DEF UndoFiles
  <2>6. ASSUME NEW c \in Client, on[c] = j PROVE CallFiles(c)'
    <3>1. Undoable(c) => manifest[l] <= before[c]
      BY <1>f, <2>0, <2>1, <2>6 DEF UndoFiles
    <3> QED
      BY <1>f, <1>u, <2>1, <2>2, <2>6, <3>1 DEF CallFiles, Reviewing, Undoable
  <2>7. ASSUME NEW k \in Loop \ {l}, on[k] = j PROVE LoopFiles(k)'
    BY <1>f, <1>u, <2>1, <2>2, <2>7 DEF LoopFiles
  <2> QED
    BY <1>j, <2>1, <2>3, <2>4, <2>5, <2>6, <2>7
<1>6. ASSUME LoopPut(l, on[l]), at[l] # "idle", on[l] \in Job PROVE ReviewInv'
  <2>0. PICK j \in Job : j = on[l]
    BY <1>6
  <2>1. /\ Advances(l, j) /\ on'[l] = j /\ Elsewhere(j)
        /\ auto'[j] = auto[j] /\ accepted'[j] = accepted[j] /\ reviews'[j] = reviews[j]
        /\ approved'[j] = approved[j] /\ output'[j] = output[j]
        /\ letter'[l].task = letter[l].task /\ manifest'[l] = manifest[l]
        /\ letter'[l].auto = IF at[l] = "claim" THEN auto[j] ELSE letter[l].auto
    BY <1>0, <1>6, <2>0, LoopFinds DEF LoopPut
  <2>2. RowFiles(j)'
    <3>1. CASE at[l] = "handoff"
      BY <1>f, <1>n, <2>0, <2>1, <3>1 DEF RowFiles, LoopFiles, Advances, Early, Waits, DetectStep
    <3>2. CASE at[l] = "complete"
      BY <1>f, <1>n, <2>0, <2>1, <3>2 DEF RowFiles, LoopFiles, Advances, Early, Waits
    <3>3. CASE at[l] \notin {"handoff", "complete"}
      BY <1>f, <1>n, <2>1, <3>3 DEF RowFiles, Advances, Early, Waits, InFlight
    <3> QED
      BY <3>1, <3>2, <3>3
  <2>3. LoopFiles(l)'
    <3>1. letter'[l].task = "redact" => reviews'[j] > 0
      BY <1>6, <1>f, <2>0, <2>1 DEF LoopFiles
    <3>2. CASE at'[l] = "render"
      BY <1>f, <1>n, <2>0, <2>1, <3>1, <3>2 DEF LoopFiles, Advances, RenderStep, DetectStep
    <3>3. CASE at'[l] \in DetectStep
      <4>1. letter'[l].auto = auto[j] /\ at'[l] # "handoff"
        BY <1>f, <2>0, <2>1, <3>3 DEF LoopFiles, Advances, DetectStep, Early
      <4> QED
        BY <2>1, <3>1, <3>3, <4>1 DEF LoopFiles, RenderStep, DetectStep
    <3>4. CASE at'[l] \in {"fetch", "ack", "return"}
      BY <2>1, <3>1, <3>4 DEF LoopFiles, RenderStep, DetectStep
    <3> QED
      BY <2>1, <3>2, <3>3, <3>4 DEF Advances, DetectStep
  <2>4. \A c \in Client : UndoFiles(c, l)'
    BY <2>1 DEF UndoFiles, Advances
  <2>5. ASSUME NEW c \in Client, at[c] # "idle", on[c] = j PROVE CallFiles(c)'
    <3>1. status[j] \notin {"review_required", "complete", "deleted"} /\ status'[j] # "queued_redaction"
      BY <2>1 DEF Advances, InFlight
    <3> QED
      BY <1>f, <1>u, <2>1, <2>5, <3>1 DEF CallFiles, CallKnows, Reviewing, Undoable, Reviewable
  <2>6. ASSUME NEW k \in Loop \ {l}, at[k] # "idle", on[k] = j PROVE LoopFiles(k)'
    <3>1. /\ status[j] # "deleted"
          /\ status'[j] \in Waits => status[j] \in Waits \cup Early
          /\ status'[j] \in Early => status[j] \in Early
      BY <2>1 DEF Advances, InFlight, Early, Waits
    <3> QED
      BY <1>f, <1>u, <2>1, <2>6, <3>1 DEF LoopFiles, LoopKnows, RenderStep
  <2> QED
    BY <1>j, <2>1, <2>2, <2>3, <2>4, <2>5, <2>6 DEF Advances
<1>7. ASSUME LoopGoesOn(l), at[l] # "idle", on[l] \in Job PROVE ReviewInv'
  <2>0. /\ (\A j \in Job : Same(j)) /\ Same(on[l]) /\ letter'[l] = letter[l] /\ manifest'[l] = manifest[l]
    BY <1>7 DEF LoopGoesOn
  <2>1. CASE LoopSame(l)
    <3>1. Same(on[l]) /\ \A c \in Client : at[c] # "idle" => status'[on[c]] = status[on[c]]
      BY <1>0, <2>0 DEF Same, OnlyStatus
    <3> QED
      BY <1>0, <1>f, <1>q, <2>0, <2>1, <3>1, LoopFilesStay, UndoFilesStay
  <2>2. CASE at[l] \in LoopUpdating /\ MovesTo(l, LoopUpdate(l).lost)
    <3>1. /\ LoopUpdate(l).lost \in {"ack", "fail", "lost", "return", "detect"}
          /\ LoopUpdate(l).lost = "detect" => at[l] = "progress"
      <4> USE DEF LoopUpdate
      <4>1. CASE at[l] \in {"claim", "release"}
        BY <4>1
      <4>2. CASE at[l] \in {"pages", "progress", "findings"}
        BY <4>2
      <4>3. CASE at[l] \in {"complete", "review", "failed"}
        BY <4>3
      <4>4. CASE at[l] = "handoff"
        BY <4>4
      <4> QED
        BY <2>2, <4>1, <4>2, <4>3, <4>4 DEF LoopUpdating
    <3>2. LoopFiles(l)' /\ \A c \in Client : UndoFiles(c, l)'
      BY <1>7, <1>f, <2>0, <2>2, <3>1 DEF MovesTo, LoopFiles, UndoFiles, RenderStep, DetectStep, Same, OnlyStatus
    <3> QED
      BY <1>q, <2>0, <3>2
  <2>3. CASE Walks(l)
    <3>1. LoopFiles(l)'
      BY <1>7, <1>f, <2>0, <2>3 DEF Walks, MovesTo, LoopFiles, RenderStep, DetectStep, Waits, Same, OnlyStatus
    <3>2. \A c \in Client : UndoFiles(c, l)'
      BY <1>u, <2>0, <2>3 DEF Walks, MovesTo, UndoFiles, Undoable, Same, OnlyStatus
    <3> QED
      BY <1>q, <2>0, <3>1, <3>2
  <2> QED
    BY <1>7, <2>1, <2>2, <2>3 DEF LoopGoesOn
<1>8. ASSUME Leaves(l) PROVE ReviewInv'
  <2>1. at'[l] = "idle" /\ \A j \in Job : Same(j)
    BY <1>8 DEF Leaves, MovesTo
  <2>2. LoopFiles(l)' /\ \A c \in Client : UndoFiles(c, l)'
    BY <2>1 DEF LoopFiles, UndoFiles, RenderStep, DetectStep
  <2> QED
    BY <1>q, <2>1, <2>2
<1> QED
  BY <1>1, <1>2, <1>3, <1>4, <1>5, <1>6, <1>7, <1>8, LoopSteps DEF LoopDoes

LEMMA ReviewsKept == Spec /\ []OneReviewAtATime => []ReviewInv
<1>1. Init => ReviewInv
  <2> SUFFICES ASSUME Init PROVE ReviewInv
    OBVIOUS
  <2>1. \A p \in Client \cup Loop : at[p] = "idle"
    BY DEF Init, TableInit
  <2>2. \A j \in Job : RowFiles(j)
    <3> SUFFICES ASSUME NEW j \in Job PROVE RowFiles(j)
      OBVIOUS
    <3>1. /\ status[j] = "none" /\ accepted[j] = 0 /\ reviews[j] = 0
          /\ approved[j] = None /\ output[j] = None
      BY DEF Init, TableInit, CloudServiceInit
    <3>2. 0 <= 0 /\ "none" \notin Waits /\ "none" # "complete"
      BY DEF Waits
    <3> QED
      BY <3>1, <3>2, Zenon DEF RowFiles
  <2>3. \A c \in Client : CallFiles(c) /\ \A l \in Loop : UndoFiles(c, l)
    BY <2>1 DEF CallFiles, UndoFiles, Reviewing, Undoable
  <2>4. \A l \in Loop : LoopFiles(l)
    BY <2>1 DEF LoopFiles, RenderStep, DetectStep
  <2>5. \A m \in Message : MessageReviewed(m)
    BY DEF Init, QueueInit, MessageReviewed, Sent
  <2> QED
    BY <2>2, <2>3, <2>4, <2>5 DEF ReviewInv
<1>2. /\ TypeInv /\ TypeInv' /\ MessageInv /\ ControlInv /\ ReviewInv
      /\ OneReviewAtATime /\ OneReviewAtATime' /\ [Next]_vars
      => ReviewInv'
  <2> SUFFICES ASSUME TypeInv, TypeInv', MessageInv, ControlInv, ReviewInv, OneReviewAtATime, OneReviewAtATime',
                      [Next]_vars
               PROVE  ReviewInv'
    OBVIOUS
  <2>1. ASSUME SqsNext \/ Tick \/ UNCHANGED vars PROVE ReviewInv'
    <3>1. /\ \A j \in Job : Same(j) /\ reviews'[j] = reviews[j]
          /\ \A c \in Client : CallSame(c)
          /\ \A l \in Loop : LoopSame(l)
          /\ status' = status /\ on' = on
      BY <2>1 DEF SqsNext, Tick, vars, tableVars, processVars, callVars, fileVars, loopVars,
         CallSame, LoopSame, PlaceSame, Same, OnlyStatus
    <3>2. Client \cup Loop \subseteq Proc /\ \A p \in Proc : at[p] # "idle" => on[p] \in Job
      BY DEF TypeInv, ProcTypeOK, BusyWithJob
    <3>3. \A j \in Job : RowFiles(j)'
      BY <3>1, RowFilesStay DEF ReviewInv
    <3>4. \A c \in Client : CallFiles(c)'
      BY <3>1, <3>2, CallFilesStay DEF ReviewInv
    <3>5. \A l \in Loop : LoopFiles(l)'
      BY <3>1, <3>2, LoopFilesStay DEF ReviewInv
    <3>6. \A m \in Message : MessageReviewed(m)'
      BY <2>1, <3>1, OtherMessages, MessageStaysReviewed DEF ReviewInv
    <3>7. \A c \in Client, l \in Loop : UndoFiles(c, l)'
      BY <3>1, UndoFilesStay DEF ReviewInv
    <3> QED
      BY <3>3, <3>4, <3>5, <3>6, <3>7 DEF ReviewInv
  <2> QED
    BY <2>1, CallKeepsReviews, LoopKeepsReviews DEF Next
<1> QED
  BY <1>1, <1>2, TypesKept, MessagesKept, ControlKept, PTL DEF Spec

-----------------------------------------------------------------------------
(* The receipt of a loop from its message to the end of run_once, while    *)
(* the heartbeat is on time.                                               *)

Steady == ~Happened("delivered_twice") /\ ~AnswersLate

\* Done with the pipeline, or never in it.
Later(l) == at[l] \notin {"idle", "look", "claim"} \cup Pipeline

\* Its message is still hidden for longer than the loop may take.
Hides(l) ==
  Holds(l) /\ queue[letter[l].message].hidden + (Slack + Lag) >= beat[l] + Visibility

HoldInv == Steady => \A l \in Loop : Later(l) => Hides(l)

LEMMA SteadyFits ==
  ASSUME TypeInv, Steady
  PROVE  Undisturbed /\ Slack \in Nat /\ Lag \in Nat /\ Lag + Cycle <= Slack /\ Slack + Lag < Visibility
<1>2. Slack \in Nat /\ Lag + Cycle <= Slack
  <2>1. /\ (faults["renewal_fails"] + 1) * Cycle \in Nat
    BY Products DEF TypeInv, FaultTypeOK, FaultKind
  <2> QED
    BY <2>1, SlackAtLeast DEF Slack, TypeInv
<1>3. Lag + Slack < Visibility
  <2>1. (faults["renewal_fails"] + 1) * Cycle \in Nat
    BY Products DEF TypeInv, FaultTypeOK, FaultKind
  <2> QED
    BY <2>1 DEF Steady, AnswersLate, Slack
<1>4. ~RenewalsLate
  BY <1>2, <1>3 DEF RenewalsLate, Slack
<1> QED
  BY <1>2, <1>3, <1>4 DEF Steady, Undisturbed

LEMMA SteadyBefore ==
  ASSUME TypeInv, TypeInv', Grows, Steady'
  PROVE  Steady /\ Undisturbed' /\ Slack \in Nat /\ Slack' \in Nat /\ Slack <= Slack'
<1>1. Undisturbed' /\ Slack' \in Nat /\ Slack' + Lag < Visibility
  <2>1. (faults'["renewal_fails"] + 1) * Cycle \in Nat
    BY Products DEF TypeInv, FaultTypeOK, FaultKind
  <2>2. Slack' \in Nat /\ Slack' + Lag < Visibility
    BY <2>1 DEF Steady, AnswersLate, Slack
  <2>3. ~RenewalsLate'
    BY <2>1 DEF Steady, AnswersLate, RenewalsLate
  <2> QED
    BY <2>2, <2>3 DEF Steady, Undisturbed
<1>2. Slack \in Nat /\ Slack <= Slack' /\ Undisturbed
  BY <1>1, SlackGrows DEF TypeInv
<1>3. ~AnswersLate
  <2>1. (faults["renewal_fails"] + 1) * Cycle \in Nat
    BY Products DEF TypeInv, FaultTypeOK, FaultKind
  <2> QED
    BY <1>1, <1>2, <2>1 DEF AnswersLate, Slack
<1> QED
  BY <1>1, <1>2, <1>3 DEF Steady, Undisturbed

\* So a loop holds its receipt, unseen by the others, until it lets it go.
LEMMA Holding ==
  ASSUME TypeInv, MessageInv, HoldInv, Steady, NEW l \in Loop, at[l] # "idle"
  PROVE  /\ Hides(l) /\ letter[l].message \in Message /\ queue[letter[l].message] \in Envelope
         /\ queue[letter[l].message].hidden \in 1 .. Visibility
         /\ at[l] \in Pipeline => queue[letter[l].message].hidden + Slack >= beat[l] + Visibility
<1>1. /\ Undisturbed /\ Slack \in Nat /\ Lag \in Nat /\ Lag + Cycle <= Slack /\ Slack + Lag < Visibility
      /\ beat[l] \in 0 .. Cycle
  BY SteadyFits DEF TypeInv, CloudWorkerTypeOK
<1>2. Holds(l)
  BY <1>1 DEF HoldInv, Hides, Later, MessageInv, StaysHidden
<1>3. letter[l].message \in Message /\ queue[letter[l].message] \in Envelope
  BY <1>2, Hidden DEF MessageInv, Holds, Handled
<1>4. queue[letter[l].message].hidden \in 0 .. Visibility
  BY <1>3, EnvelopeParts
<1>5. /\ queue[letter[l].message].hidden + (Slack + Lag) >= beat[l] + Visibility
      /\ at[l] \in Pipeline => queue[letter[l].message].hidden + Slack >= beat[l] + Visibility
  <2>1. CASE Later(l)
    BY <2>1 DEF HoldInv, Hides, Later
  <2>2. CASE at[l] \in {"look", "claim"}
    <3>1. queue[letter[l].message].hidden + Lag >= beat[l] + Visibility /\ at[l] \notin Pipeline
      BY <1>1, <2>2 DEF MessageInv, StaysHidden, Pipeline
    <3> QED
      BY <1>1, <1>4, <3>1
  <2>3. CASE at[l] \in Pipeline
    <3>1. queue[letter[l].message].hidden + Slack >= beat[l] + Visibility
      BY <1>1, <2>3 DEF MessageInv, StaysHidden
    <3> QED
      BY <1>1, <1>4, <3>1
  <2> QED
    BY <2>1, <2>2, <2>3 DEF Later
<1>6. queue[letter[l].message].hidden > 0
  BY <1>1, <1>4, <1>5
<1> QED
  BY <1>2, <1>3, <1>4, <1>5, <1>6 DEF Hides

\* Two loops at work have two messages.
LEMMA TwoMessages ==
  ASSUME TypeInv, MessageInv, HoldInv, Steady, NEW k \in Loop, NEW l \in Loop, k # l,
         at[k] # "idle", at[l] # "idle"
  PROVE  letter[k].message # letter[l].message
BY Holding DEF Hides, Holds, Handled, MessageInv, ReceiptsDiffer

\* The others' messages, receipts and heartbeats are left alone by every step but the clock's.
Untouched(k) ==
  /\ at'[k] = at[k] /\ letter'[k] = letter[k] /\ beat'[k] = beat[k]
  /\ at[k] # "idle" /\ Hides(k) => queue'[letter[k].message] = queue[letter[k].message]

LEMMA UntouchedHides ==
  ASSUME TypeInv, TypeInv', MessageInv, HoldInv, Grows, Steady', NEW k \in Loop, Untouched(k), Later(k)'
  PROVE  Hides(k)'
<1>1. /\ Steady /\ Slack \in Nat /\ Slack' \in Nat /\ Slack <= Slack' /\ Lag \in Nat
      /\ beat[k] \in 0 .. Cycle
  BY SteadyBefore DEF TypeInv, CloudWorkerTypeOK
<1>2. Later(k) /\ at[k] # "idle"
  BY DEF Later, Untouched
<1>3. Hides(k) /\ queue[letter[k].message].hidden \in 0 .. Visibility
  BY <1>1, <1>2, Holding
<1> QED
  BY <1>1, <1>2, <1>3 DEF Hides, Holds, Handled, Sent, Untouched

LEMMA LoopRests ==
  ASSUME TypeInv, NEW l \in Loop, LoopContinues(l) \/ LoopFaults(l), at'[l] # "idle"
  PROVE  UNCHANGED beat \/ Rests(l, at'[l])
<1>0. l \in Proc /\ at \in [Proc -> Step]
  BY DEF TypeInv, ProcTypeOK
<1>a. ASSUME NEW step, Goto(l, step) PROVE at'[l] = step
  BY <1>0, <1>a DEF Goto
<1>1. CASE LoopReads(l)
  BY <1>1 DEF LoopReads
<1>2. CASE LoopPuts(l)
  BY <1>2, <1>a DEF LoopPuts, Puts
<1>3. CASE LoopLoses(l)
  BY <1>3, <1>a DEF LoopLoses, PutFails
<1>4. CASE LooksAtRow(l) \/ ReportsPage(l) \/ Detected(l) \/ PutsManifests(l) \/ FetchesManifest(l) \/ Rendered(l)
             \/ PutsOutput(l) \/ Fails(l)
  BY <1>4 DEF LooksAtRow, ReportsPage, Detected, PutsManifests, FetchesManifest, Rendered, PutsOutput, Fails, loopVars
<1>5. CASE LostRace(l) \/ Cancelled(l) \/ ManifestGone(l) \/ DocumentFails(l) \/ ModelDown(l)
  BY <1>5, <1>a DEF LostRace, Cancelled, ManifestGone, DocumentFails, ModelDown, Raises, Proceeds
<1>6. CASE AcknowledgesMessage(l) \/ ReturnsMessage(l) \/ LoopCrashes(l)
  BY <1>6, <1>a DEF AcknowledgesMessage, ReturnsMessage, LoopCrashes, Proceeds, Dies
<1> QED
  BY <1>1, <1>2, <1>3, <1>4, <1>5, <1>6 DEF LoopContinues, LoopFaults

LEMMA LoopKeepsHold ==
  ASSUME TypeInv, TypeInv', MessageInv, HoldInv, NEW l \in Loop, LoopNext(l), Grows, Steady'
  PROVE  HoldInv'
<1>0. /\ Steady /\ Slack \in Nat /\ Slack' \in Nat /\ Slack <= Slack' /\ Lag \in Nat
      /\ \A k \in Loop \ {l} : at'[k] = at[k] /\ letter'[k] = letter[k]
      /\ l \in Proc /\ at \in [Proc -> Step]
  BY SteadyBefore, LoopSteps DEF TypeInv, CloudWorkerTypeOK, ProcTypeOK, LoopSame, PlaceSame
<1>h. ASSUME NEW k \in Loop, at[k] # "idle"
      PROVE  Holds(k) /\ queue[letter[k].message].hidden \in 1 .. Visibility /\ letter[k].message \in Message
  BY <1>0, <1>h, Holding DEF Hides
<1>g. ASSUME \A k \in Loop \ {l} : Untouched(k), Later(l)' => Hides(l)' PROVE HoldInv'
  BY <1>g, UntouchedHides DEF HoldInv
<1>1. CASE LoopStarts(l)
  <2>1. PICK m \in Message : ReceiveMessage(l, m)
    BY <1>1 DEF LoopStarts
  <2>2. at'[l] = "look" /\ queue[m].hidden = 0
    BY <1>0, <2>1 DEF ReceiveMessage, Begins, Receive, Visible
  <2>3. ASSUME NEW k \in Loop \ {l} PROVE Untouched(k)
    <3>1. beat'[k] = beat[k]
      BY <2>1 DEF ReceiveMessage, TypeInv, CloudWorkerTypeOK
    <3>2. ASSUME at[k] # "idle" PROVE queue'[letter[k].message] = queue[letter[k].message]
      BY <1>h, <2>1, <2>2, <3>2 DEF ReceiveMessage, Receive, TypeInv, QueueTypeOK
    <3> QED
      BY <1>0, <3>1, <3>2 DEF Untouched
  <2> QED
    BY <1>g, <2>2, <2>3 DEF Later
<1>2. CASE AcknowledgesMessage(l) \/ ReturnsMessage(l) \/ LoopCrashes(l) \/ Heartbeat(l)
  <2>1. at[l] # "idle" /\ (at'[l] = "idle" \/ at'[l] \in Pipeline) /\ \A k \in Loop \ {l} : beat'[k] = beat[k]
    BY <1>0, <1>2 DEF AcknowledgesMessage, ReturnsMessage, LoopCrashes, Heartbeat, PutsDown, Proceeds, Dies, Goto,
       Pipeline, processVars, TypeInv, CloudWorkerTypeOK
  <2>2. PICK time : \/ Hide(letter[l].message, letter[l].handle, time)
                    \/ Acknowledge(letter[l].message, letter[l].handle)
                    \/ UNCHANGED queue
    BY <1>2 DEF AcknowledgesMessage, ReturnsMessage, LoopCrashes, Heartbeat, Release, Renew
  <2>3. ASSUME NEW k \in Loop \ {l} PROVE Untouched(k)
    <3>1. ASSUME at[k] # "idle" PROVE queue'[letter[k].message] = queue[letter[k].message]
      BY <1>h, <2>1, <2>2, <3>1, OthersKeepTheirs
    <3> QED
      BY <1>0, <2>1, <3>1 DEF Untouched
  <2> QED
    BY <1>g, <2>1, <2>3 DEF Later
<1>3. CASE /\ LoopContinues(l) \/ LoopFaults(l)
           /\ ~(AcknowledgesMessage(l) \/ ReturnsMessage(l) \/ LoopCrashes(l))
  <2>1. at[l] \notin {"ack", "return"}
    BY <1>3 DEF LoopContinues, LoopFaults, LoopReads, LoopPuts, LoopLoses, LooksAtRow, LoopUpdating,
       ReportsPage, Detected, PutsManifests, FetchesManifest, Rendered, PutsOutput, LostRace,
       Cancelled, ManifestGone, Fails, DocumentFails, ModelDown
  <2>2. WorksOn(l)
    BY <1>3, <2>1, LoopWorks
  <2>3. \A k \in Loop \ {l} : Untouched(k)
    BY <1>0, <2>2 DEF Untouched, WorksOn
  <2>4. ASSUME Later(l)' PROVE Hides(l)'
    <3>1. at[l] # "idle" /\ at'[l] # "idle" /\ UNCHANGED queue
          /\ letter'[l].message = letter[l].message /\ letter'[l].handle = letter[l].handle
      BY <2>2 DEF WorksOn
    <3>2. /\ Hides(l) /\ queue[letter[l].message].hidden \in 1 .. Visibility
          /\ at[l] \in Pipeline => queue[letter[l].message].hidden + Slack >= beat[l] + Visibility
          /\ beat[l] \in 0 .. Cycle /\ beat \in [Loop -> 0 .. Cycle] /\ at'[l] \notin Pipeline
      BY <1>0, <2>4, <3>1, Holding DEF TypeInv, CloudWorkerTypeOK, Later
    <3>3. beat'[l] = beat[l] \/ (at[l] \in Pipeline /\ beat'[l] = Lag)
      BY <1>3, <3>1, <3>2, LoopRests DEF Rests
    <3>4. Holds(l)'
      BY <3>1, <3>2 DEF Hides, Holds, Handled, Sent
    <3>5. queue[letter[l].message].hidden + (Slack' + Lag) >= beat'[l] + Visibility
      BY <1>0, <3>2, <3>3 DEF Hides
    <3> QED
      BY <3>1, <3>4, <3>5 DEF Hides
  <2> QED
    BY <1>g, <2>3, <2>4
<1> QED
  BY <1>1, <1>2, <1>3 DEF LoopNext

LEMMA ClientKeepsHold ==
  ASSUME TypeInv, TypeInv', MessageInv, HoldInv, NEW c \in Client, ClientNext(c), Grows, Steady'
  PROVE  HoldInv'
<1>1. Steady
  BY SteadyBefore
<1>2. ASSUME NEW k \in Loop PROVE Untouched(k)
  <2>1. at'[k] = at[k] /\ letter'[k] = letter[k] /\ beat'[k] = beat[k]
    BY CallSteps DEF LoopSame, PlaceSame, ClientNext, loopVars
  <2>2. ASSUME at[k] # "idle" PROVE queue'[letter[k].message] = queue[letter[k].message]
    <3>1. PICK m \in Message : m = letter[k].message
      BY <1>1, <2>2, Holding
    <3>2. Sent(m)
      BY <1>1, <2>2, <3>1, Holding DEF Hides, Holds, Handled
    <3> QED
      BY <3>1, <3>2, CallMessages DEF SentBy
  <2> QED
    BY <2>1, <2>2 DEF Untouched
<1> QED
  BY <1>2, UntouchedHides DEF HoldInv

LEMMA OthersKeepHold ==
  ASSUME TypeInv, TypeInv', MessageInv, HoldInv, SqsNext \/ Tick, Grows, Steady'
  PROVE  HoldInv'
<1>0. /\ Steady /\ Slack \in Nat /\ Slack' \in Nat /\ Slack <= Slack' /\ Lag \in Nat /\ Slack + Lag < Visibility
      /\ beat \in [Loop -> 0 .. Cycle] /\ queue \in [Message -> {NoMessage} \cup Envelope]
  BY SteadyBefore, SteadyFits DEF TypeInv, CloudWorkerTypeOK, QueueTypeOK, Envelope
<1>1. CASE SqsNext
  <2>1. PICK m \in Message : DeadLetter(m)
    <3>1. ~Happened("delivered_twice")'
      BY DEF Steady
    <3> QED
      BY <1>1, <3>1, FaultHappens DEF SqsNext, TypeInv
  <2>2. ASSUME NEW k \in Loop PROVE Untouched(k)
    <3>1. ASSUME at[k] # "idle" PROVE queue'[letter[k].message] = queue[letter[k].message]
      BY <1>0, <2>1, <3>1, Holding DEF DeadLetter, Visible
    <3> QED
      BY <1>1, <3>1 DEF Untouched, SqsNext, processVars, loopVars
  <2> QED
    BY <2>2, UntouchedHides DEF HoldInv
<1>2. CASE Tick
  <2> SUFFICES ASSUME NEW k \in Loop, Later(k)' PROVE Hides(k)'
    BY DEF HoldInv
  <2>1. /\ at[k] # "idle" /\ at' = at /\ letter' = letter /\ Slack' = Slack
        /\ beat'[k] = beat[k] - 1 /\ beat[k] > 0
    BY <1>2 DEF Tick, StepInTime, processVars, Later, Slack
  <2>2. PICK m \in Message : m = letter[k].message
    BY <1>0, <2>1, Holding
  <2>3. Hides(k) /\ queue[m] \in Envelope /\ queue[m].hidden \in 1 .. Visibility /\ Sent(m)
    BY <1>0, <2>1, <2>2, Holding DEF Hides, Holds, Handled
  <2>4. queue'[m] = [queue[m] EXCEPT !.hidden = @ - 1]
    BY <1>0, <1>2, <2>3 DEF Tick, QueueAges
  <2>5. queue'[m].hidden = queue[m].hidden - 1 /\ queue'[m].received = queue[m].received /\ Sent(m)'
    BY <1>0, <2>3, <2>4, OtherMessages DEF Envelope, Sent
  <2> QED
    BY <1>0, <2>1, <2>2, <2>3, <2>5 DEF Hides, Holds, Handled
<1> QED
  BY <1>1, <1>2

LEMMA HoldKept == Spec => []HoldInv
<1>1. Init => HoldInv
  BY DEF Init, TableInit, HoldInv, Later
<1>2. TypeInv /\ TypeInv' /\ MessageInv /\ HoldInv /\ [Next]_vars => HoldInv'
  <2> SUFFICES ASSUME TypeInv, TypeInv', MessageInv, HoldInv, [Next]_vars, Steady' PROVE HoldInv'
    BY DEF HoldInv
  <2>1. Grows
    BY GrowsAlways
  <2>2. CASE UNCHANGED vars
    <3>1. ASSUME NEW k \in Loop PROVE Untouched(k)
      BY <2>2 DEF vars, processVars, loopVars, Untouched
    <3> QED
      BY <2>1, <3>1, UntouchedHides DEF HoldInv
  <2> QED
    BY <2>1, <2>2, LoopKeepsHold, ClientKeepsHold, OthersKeepHold DEF Next
<1> QED
  BY <1>1, <1>2, TypesKept, MessagesKept, PTL DEF Spec

-----------------------------------------------------------------------------
(* The messages of a job, while none is in doubt: one for its detection,   *)
(* and one that still counts for its last review.                          *)

Told(m, j, task) == Sent(m) /\ queue[m].says = <<j, task>>

\* Its loop is about to acknowledge it.
Spent(m) == \E l \in Loop : at[l] = "ack" /\ letter[l].message = m

Sending(c, j, task) == at[c] = "send" /\ on[c] = j /\ TaskOf(c) = task

DetectTokens(j) ==
  /\ status[j] \in {"none", "awaiting_upload"} =>
       /\ \A m \in Message : ~Told(m, j, "detect")
       /\ \A c \in Client : ~Sending(c, j, "detect")
  /\ \A m, n \in Message : Told(m, j, "detect") /\ Told(n, j, "detect") => m = n
  /\ \A c \in Client : Sending(c, j, "detect") =>
       /\ status[j] \in {"queued_detection", "deleted"}
       /\ \A m \in Message : ~Told(m, j, "detect")
       /\ \A d \in Client : Sending(d, j, "detect") => c = d

RedactTokens(j) == status[j] # "deleted" =>
  /\ \A m, n \in Message : Told(m, j, "redact") /\ Told(n, j, "redact") => m = n \/ Spent(m) \/ Spent(n)
  /\ \A c \in Client : Sending(c, j, "redact") =>
       status[j] = "queued_redaction" /\ \A m \in Message : Told(m, j, "redact") => Spent(m)
  /\ status[j] \notin Waits /\ ~Happened("worker_crash") =>
       \A m \in Message : Told(m, j, "redact") => Spent(m)
  /\ reviews[j] <= 1 =>
       /\ \A m, n \in Message : Told(m, j, "redact") /\ Told(n, j, "redact") => m = n
       /\ \A c \in Client : Reviewing(c) /\ on[c] = j => \A m \in Message : ~Told(m, j, "redact")

\* From the claim until the row is let go.
AtWork == Pipeline \cup {"fail", "review", "failed", "release"}

Stage(l) == at[l] \in AtWork /\ status[on[l]] # "deleted" =>
  /\ letter[l].task = "redact" => status[on[l]] = "redacting"
  /\ at[l] \in DetectStep \cup {"release"} => status[on[l]] = "detecting"
  /\ at[l] \in RenderStep \cup {"review"} => status[on[l]] = "redacting"
  /\ status[on[l]] \in InFlight
  /\ letter[l].task = "detect" => reviews[on[l]] = 0

\* The manifest a redaction starts from, the one it has, and what it leaves are
\* those of the last accepted review.
RowDelivers(j) ==
  /\ status[j] \in Waits => approved[j] = accepted[j]
  /\ status[j] = "complete" => output[j] = accepted[j]

LoopDelivers(l) == status[on[l]] # "deleted" =>
  /\ at[l] \in RenderStep => manifest[l] = accepted[on[l]]
  /\ at[l] = "complete" => output[on[l]] = accepted[on[l]]

CallDelivers(c) ==
  /\ at[c] # "undo"
  /\ at[c] = "finalize" /\ status[on[c]] # "deleted" => approved[on[c]] = carries[c]

TokenInv == \A j \in Job : DetectTokens(j) /\ RedactTokens(j)
StageInv == \A l \in Loop : Stage(l)
DeliveryInv ==
  /\ \A j \in Job : RowDelivers(j)
  /\ \A l \in Loop : LoopDelivers(l)
  /\ \A c \in Client : CallDelivers(c)

WorkInv == ~InDoubt => TokenInv /\ StageInv /\ DeliveryInv

\* Everything that is known of the states before a step.
Known == TypeInv /\ MessageInv /\ ControlInv /\ ReviewInv /\ HoldInv /\ ~InDoubt /\ TokenInv /\ StageInv /\ DeliveryInv

LEMMA DoubtBefore ==
  ASSUME TypeInv, TypeInv', Grows, ~InDoubt', \A j \in Job : reviews'[j] >= reviews[j]
  PROVE  ~InDoubt /\ Steady /\ Steady' /\ ~Happened("send_fails")'
<1>1. Steady' /\ ~Happened("send_fails")'
  BY DEF InDoubt, Steady
<1>2. Steady
  BY <1>1, SteadyBefore
<1>3. ~Happened("send_fails")
  BY <1>1, HappenedStays DEF TypeInv, FaultKind
<1>4. ASSUME Happened("worker_crash"), NEW j \in Job, reviews[j] > 1 PROVE FALSE
  <2>1. Happened("worker_crash")'
    BY <1>4, HappenedStays DEF TypeInv, FaultKind
  <2>2. reviews'[j] > 1
    BY <1>4 DEF TypeInv, CallTypeOK, Review
  <2> QED
    BY <2>1, <2>2 DEF InDoubt
<1> QED
  BY <1>1, <1>2, <1>3, <1>4 DEF InDoubt, Steady

\* The message of a loop is still there, and says what the loop is at.
LEMMA LoopTold ==
  ASSUME Known, NEW l \in Loop, at[l] # "idle"
  PROVE  /\ Told(letter[l].message, on[l], letter[l].task) /\ letter[l].message \in Message /\ on[l] \in Job
         /\ at[l] # "ack" => ~Spent(letter[l].message)
         /\ letter[l].task = "redact" => reviews[on[l]] > 0 /\ status[on[l]] \notin Early
         /\ letter[l].task \in {"detect", "redact"}
         /\ Holds(l)
<1>1. Steady
  BY DEF Known, InDoubt, Steady
<1>2. Sent(letter[l].message) /\ letter[l].message \in Message /\ Holds(l)
  BY <1>1, Holding DEF Known, Hides, Holds, Handled
<1>3. LoopKnows(l) /\ LoopFiles(l) /\ on[l] \in Job
  BY DEF Known, ControlInv, ReviewInv, TypeInv, ProcTypeOK, BusyWithJob
<1>4. at[l] # "ack" => ~Spent(letter[l].message)
  BY <1>1, TwoMessages DEF Known, Spent
<1> QED
  BY <1>2, <1>3, <1>4, Numbers DEF Told, LoopKnows, LoopFiles, Known

\* Whoever puts the row of a job is the only loop at work on it.
LEMMA Alone ==
  ASSUME Known, NEW l \in Loop, NEW k \in Loop, k # l, LoopPut(l, on[l]), on[k] = on[l], on[l] \in Job
  PROVE  at[k] \notin AtWork
<1>0. SUFFICES ASSUME at[k] \in AtWork PROVE FALSE
  OBVIOUS
<1>1. LoopKnows(l) /\ Advances(l, on[l]) /\ at[l] \in LoopUpdating /\ at[l] \notin {"idle", "ack"}
  BY LoopFinds DEF Known, ControlInv, LoopPut, LoopUpdating
<1>2. at[k] \notin {"idle", "ack"} /\ status[on[l]] # "deleted"
  BY <1>0, <1>1 DEF AtWork, Pipeline, Advances, InFlight
<1>3. Stage(k) /\ Stage(l) /\ RowFiles(on[l]) /\ DetectTokens(on[l]) /\ RedactTokens(on[l])
  BY DEF Known, StageInv, ReviewInv, TokenInv
<1>4. letter[k].message # letter[l].message
  BY <1>1, <1>2, TwoMessages DEF Known, InDoubt, Steady
<1>5. /\ Told(letter[l].message, on[l], letter[l].task) /\ letter[l].message \in Message
      /\ ~Spent(letter[l].message) /\ letter[l].task \in {"detect", "redact"}
      /\ letter[l].task = "redact" => reviews[on[l]] > 0 /\ status[on[l]] \notin Early
  BY <1>1, LoopTold
<1>6. /\ Told(letter[k].message, on[l], letter[k].task) /\ letter[k].message \in Message
      /\ ~Spent(letter[k].message) /\ letter[k].task \in {"detect", "redact"}
      /\ letter[k].task = "redact" => reviews[on[l]] > 0 /\ status[on[l]] \notin Early
  BY <1>2, LoopTold
<1>7. letter[k].task # letter[l].task
  BY <1>2, <1>3, <1>4, <1>5, <1>6 DEF DetectTokens, RedactTokens
<1>8. CASE letter[l].task = "redact" /\ letter[k].task = "detect"
  <2>1. reviews[on[l]] = 0
    BY <1>0, <1>2, <1>3, <1>8 DEF Stage
  <2> QED
    BY <1>5, <1>8, <2>1
<1>9. CASE letter[l].task = "detect" /\ letter[k].task = "redact"
  <2>1. at[l] # "claim" => reviews[on[l]] = 0
    <3>1. at[l] # "claim" => at[l] \in AtWork
      BY <1>1 DEF AtWork, Pipeline, LoopUpdating
    <3> QED
      BY <1>2, <1>3, <1>9, <3>1 DEF Stage
  <2>2. at[l] = "claim" => status[on[l]] \in Early
    BY <1>1, <1>9 DEF Advances, Early
  <2> QED
    BY <1>6, <1>9, <2>1, <2>2
<1> QED
  BY <1>5, <1>6, <1>7, <1>8, <1>9

\* A message that was spent is gone with its loop, unless that was interrupted.
LEMMA SpentStays ==
  ASSUME Known, TypeInv', NEW l \in Loop, LoopNext(l), ~Happened("worker_crash")',
         NEW m \in Message, Spent(m), Sent(m)'
  PROVE  Spent(m)'
<1>1. PICK k \in Loop : at[k] = "ack" /\ letter[k].message = m
  BY DEF Spent
<1>2. CASE k # l
  BY <1>1, <1>2, LoopSteps DEF Known, LoopSame, PlaceSame, Spent
<1>3. CASE k = l
  <2>1. AcknowledgesMessage(l) \/ LoopCrashes(l)
    BY <1>1, <1>3 DEF LoopNext, LoopStarts, LoopContinues, LoopFaults, Heartbeat, ReceiveMessage, LoopReads,
        LoopPuts, LoopLoses, LooksAtRow, ReportsPage, Detected, PutsManifests, FetchesManifest, Rendered,
        PutsOutput, LostRace, Cancelled, ManifestGone, Fails, ReturnsMessage,
        DocumentFails, ModelDown, Raises, LoopUpdating, Pipeline, Begins
  <2>2. ~LoopCrashes(l)
    BY FaultHappens DEF LoopCrashes, Known, TypeInv
  <2>3. Acknowledge(m, letter[l].handle) /\ Handled(m, letter[l].handle)
    BY <1>1, <1>3, <2>1, <2>2, LoopTold DEF AcknowledgesMessage, Holds
  <2>4. queue'[m] = NoMessage
    BY <2>3 DEF Acknowledge, Known, TypeInv, QueueTypeOK
  <2> QED
    BY <2>4 DEF Sent
<1> QED
  BY <1>2, <1>3

\* A step that sends nothing and puts no job before its senders.
LEMMA DetectTokensStay ==
  ASSUME NEW j \in Job, DetectTokens(j),
         \A m \in Message : Told(m, j, "detect")' => Told(m, j, "detect"),
         \A c \in Client : Sending(c, j, "detect")' => Sending(c, j, "detect"),
         status'[j] \in {"none", "awaiting_upload"} => status[j] \in {"none", "awaiting_upload"},
         \/ status'[j] \in {status[j], "deleted"}
         \/ \A c \in Client : ~Sending(c, j, "detect")
  PROVE  DetectTokens(j)'
BY DEF DetectTokens

LEMMA RedactTokensStay ==
  ASSUME NEW j \in Job, RedactTokens(j), status'[j] # "deleted" => status[j] # "deleted",
         \A m \in Message : Told(m, j, "redact")' => Told(m, j, "redact"),
         \/ Happened("worker_crash")' /\ reviews'[j] <= 1
         \/ /\ ~Happened("worker_crash")' /\ ~Happened("worker_crash")
            /\ \A m \in Message : Told(m, j, "redact")' /\ Spent(m) => Spent(m)'
            /\ \/ status'[j] \in Waits \/ status[j] \notin Waits
               \/ status'[j] # "deleted" => \A m \in Message : Told(m, j, "redact")' => Spent(m)',
         \A c \in Client : Sending(c, j, "redact")' => Sending(c, j, "redact") /\ Reviewing(c)' /\ on'[c] = j,
         \A c \in Client : Reviewing(c)' /\ on'[c] = j =>
           \/ Reviewing(c) /\ on[c] = j
           \/ \A m \in Message : ~Told(m, j, "redact")
           \/ reviews'[j] # 1,
         reviews[j] \in Nat, reviews'[j] \in Nat, reviews'[j] >= reviews[j],
         \A c \in Client : Reviewing(c)' /\ on'[c] = j => reviews'[j] > 0,
         \/ status'[j] \in {status[j], "deleted"}
         \/ \A c \in Client : ~Sending(c, j, "redact")
  PROVE  RedactTokens(j)'
<1> SUFFICES ASSUME status'[j] # "deleted" PROVE RedactTokens(j)'
  BY DEF RedactTokens
<1>1. status[j] # "deleted"
  OBVIOUS
<1>2. ASSUME reviews'[j] <= 1
      PROVE  /\ \A m, n \in Message : Told(m, j, "redact")' /\ Told(n, j, "redact")' => m = n
             /\ \A c \in Client : Reviewing(c)' /\ on'[c] = j => \A m \in Message : ~Told(m, j, "redact")'
  <2>1. reviews[j] <= 1
    BY <1>2
  <2> QED
    BY <1>1, <1>2, <2>1 DEF RedactTokens
<1>3. ASSUME Happened("worker_crash")', reviews'[j] <= 1 PROVE RedactTokens(j)'
  <2>1. \A c \in Client : Sending(c, j, "redact")' =>
          status'[j] = "queued_redaction" /\ \A m \in Message : ~Told(m, j, "redact")'
    BY <1>1, <1>2, <1>3 DEF RedactTokens
  <2> QED
    BY <1>2, <1>3, <2>1 DEF RedactTokens
<1>4. ASSUME ~Happened("worker_crash")', ~Happened("worker_crash"),
             \A m \in Message : Told(m, j, "redact")' /\ Spent(m) => Spent(m)',
             \/ status'[j] \in Waits \/ status[j] \notin Waits
             \/ \A m \in Message : Told(m, j, "redact")' => Spent(m)'
      PROVE  RedactTokens(j)'
  <2>1. \A m, n \in Message : Told(m, j, "redact")' /\ Told(n, j, "redact")' => m = n \/ Spent(m)' \/ Spent(n)'
    BY <1>1, <1>4 DEF RedactTokens
  <2>2. \A c \in Client : Sending(c, j, "redact")' =>
          status'[j] = "queued_redaction" /\ \A m \in Message : Told(m, j, "redact")' => Spent(m)'
    BY <1>1, <1>4 DEF RedactTokens
  <2>3. status'[j] \notin Waits => \A m \in Message : Told(m, j, "redact")' => Spent(m)'
    BY <1>1, <1>4 DEF RedactTokens
  <2> QED
    BY <1>2, <2>1, <2>2, <2>3 DEF RedactTokens
<1> QED
  BY <1>3, <1>4

\* The puts of a loop on the row of its job, as far as messages go.
LEMMA LoopKeepsTokens ==
  ASSUME Known, TypeInv', ReviewInv', NEW l \in Loop, LoopNext(l), ~InDoubt'
  PROVE  TokenInv'
<1>0. /\ \A c \in Client : CallSame(c)
      /\ \A j \in Job : Turns(j) /\ reviews'[j] = reviews[j]
      /\ \A m \in Message : Sent(m)' => Sent(m) /\ queue'[m].says = queue[m].says
      /\ LoopKnows(l)
  <2>1. \A j \in Job : reviews'[j] = reviews[j]
    BY LoopSteps DEF Known, Receives, LoopDoes, Erases, WritesManifests, Fetches, StoresOutput, LoopPut,
       LoopGoesOn, Leaves, Elsewhere, Same, OnlyStatus
  <2> QED
    BY <2>1, LoopSteps, LoopTurnsRows, LoopMessages DEF Known, ControlInv
<1>1. ASSUME NEW m \in Message, NEW j \in Job, NEW task, Told(m, j, task)' PROVE Told(m, j, task)
  BY <1>0, <1>1 DEF Told
<1>2. ASSUME NEW c \in Client, NEW j \in Job, NEW task
      PROVE  (Sending(c, j, task)' <=> Sending(c, j, task)) /\ (Reviewing(c)' <=> Reviewing(c)) /\ on'[c] = on[c]
  BY <1>0 DEF Sending, TaskOf, Reviewing, CallSame, PlaceSame
<1>3. ASSUME NEW j \in Job, status'[j] # status[j]
      PROVE  LoopPut(l, j) /\ Advances(l, j) /\ j = on[l] /\ at[l] # "idle"
  <2>1. TypeInv
    BY DEF Known
  <2>2. ~Same(j)
    BY <1>3 DEF Same, OnlyStatus
  <2>3. at[l] # "idle" /\ on[l] \in Job /\ LoopDoes(l, on[l])
    BY <2>1, <2>2, LoopSteps DEF Receives, LoopGoesOn, Leaves
  <2>4. j = on[l]
    BY <2>2, <2>3 DEF LoopDoes, Erases, WritesManifests, Fetches, StoresOutput, LoopPut, Elsewhere
  <2>5. LoopPut(l, j)
    BY <1>3, <2>3, <2>4 DEF LoopDoes, Erases, WritesManifests, Fetches, StoresOutput, Same, OnlyStatus
  <2> QED
    BY <1>0, <2>1, <2>3, <2>4, <2>5, LoopFinds
<1>4. ASSUME NEW j \in Job PROVE DetectTokens(j)'
  <2>1. DetectTokens(j)
    BY DEF Known, TokenInv
  <2>2. status'[j] \in {"none", "awaiting_upload"} => status[j] \in {"none", "awaiting_upload"}
    BY <1>3 DEF Advances
  <2>3. \/ status'[j] \in {status[j], "deleted"}
        \/ \A c \in Client : ~Sending(c, j, "detect")
    <3> SUFFICES ASSUME status'[j] # status[j], NEW c \in Client, Sending(c, j, "detect") PROVE FALSE
      OBVIOUS
    <3>1. status[j] \in {"queued_detection", "deleted"} /\ \A m \in Message : ~Told(m, j, "detect")
      BY <2>1 DEF DetectTokens
    <3>2. at[l] = "claim" /\ letter[l].task = "detect" /\ j = on[l]
      BY <1>3, <3>1 DEF Advances, InFlight
    <3> QED
      BY <3>1, <3>2, LoopTold
  <2> QED
    BY <1>1, <1>2, <2>1, <2>2, <2>3, DetectTokensStay
<1>5. ASSUME NEW j \in Job PROVE RedactTokens(j)'
  <2>0. RedactTokens(j) /\ (status'[j] # "deleted" => status[j] # "deleted")
    BY <1>0 DEF Known, TokenInv, Turns
  <2>1. \/ status'[j] \in {status[j], "deleted"}
        \/ \A c \in Client : ~Sending(c, j, "redact")
    <3> SUFFICES ASSUME status'[j] # status[j], status'[j] # "deleted",
                        NEW c \in Client, Sending(c, j, "redact") PROVE FALSE
      OBVIOUS
    <3>1. status[j] = "queued_redaction" /\ \A m \in Message : Told(m, j, "redact") => Spent(m)
      BY <2>0 DEF RedactTokens
    <3>2. at[l] = "claim" /\ letter[l].task = "redact" /\ j = on[l]
      BY <1>3, <3>1 DEF Advances, InFlight
    <3> QED
      BY <3>1, <3>2, LoopTold
  <2>2. reviews[j] \in Nat /\ reviews'[j] = reviews[j] /\ (Happened("worker_crash")' => reviews'[j] <= 1)
    <3>1. reviews[j] \in Nat
      BY Numbers DEF Known
    <3> QED
      BY <1>0, <3>1 DEF InDoubt
  <2>3. ~Happened("worker_crash")' => ~Happened("worker_crash")
    BY GrowsAlways, HappenedStays DEF Known, TypeInv, FaultKind, Next
  <2>4. ASSUME ~Happened("worker_crash")', NEW m \in Message, Told(m, j, "redact")', Spent(m) PROVE Spent(m)'
    BY <2>4, SpentStays DEF Told
  <2>5. ASSUME ~Happened("worker_crash")', status'[j] \notin Waits, status[j] \in Waits,
               NEW m \in Message, Told(m, j, "redact")'
        PROVE  Spent(m)'
    <3>1. Told(m, j, "redact") /\ reviews[j] > 0
      <4>1. MessageReviewed(m) /\ Told(m, j, "redact")
        BY <1>1, <2>5 DEF Known, ReviewInv
      <4> QED
        BY <4>1 DEF MessageReviewed, Told
    <3>2. /\ j = on[l] /\ at'[l] = "ack" /\ at[l] \in {"complete", "review", "failed"}
          /\ letter'[l].message = letter[l].message /\ status[j] # "deleted"
      BY <1>3, <2>5 DEF Advances, Waits, LoopPut, InFlight
    <3>3. letter[l].task # "detect"
      BY <3>1, <3>2 DEF Known, StageInv, Stage, AtWork, Pipeline
    <3>4. Told(letter[l].message, j, "redact") /\ letter[l].message \in Message /\ ~Spent(letter[l].message)
      BY <3>2, <3>3, LoopTold
    <3>5. m = letter[l].message \/ Spent(m)
      BY <2>0, <3>1, <3>2, <3>4 DEF RedactTokens
    <3> QED
      BY <2>4, <2>5, <3>2, <3>5 DEF Spent
  <2>6. \A c \in Client : Reviewing(c)' /\ on'[c] = j => reviews'[j] > 0
    BY DEF ReviewInv, CallFiles
  <2>7. \A c \in Client : Sending(c, j, "redact")' => Sending(c, j, "redact") /\ Reviewing(c)' /\ on'[c] = j
    BY <1>2 DEF Sending, Reviewing, TaskOf
  <2> QED
    BY <1>1, <1>2, <2>0, <2>1, <2>2, <2>3, <2>4, <2>5, <2>6, <2>7, RedactTokensStay
<1> QED
  BY <1>4, <1>5 DEF TokenInv

LEMMA OneSent ==
  ASSUME TypeInv, TypeInv', NEW c \in Client, ClientNext(c),
         NEW m \in Message, NEW n \in Message, SentBy(c, m), SentBy(c, n)
  PROVE  m = n
<1>1. \/ UNCHANGED queue
      \/ \E k \in Message : \E what : Enqueue(k, what)
  BY DEF ClientNext, CallStarts, CreateJob, Submit, Finalize, Delete, CallContinues,
     FinalizeWrites, CallReads, CallPuts, CallLoses, Sends, SendFails, DeletePurges,
     DeleteAnswersNotFound, CallDies
<1>2. queue'[m] # queue[m] /\ queue'[n] # queue[n]
  <2>1. queue'[m] \in {NoMessage} \cup Envelope /\ queue'[n] \in {NoMessage} \cup Envelope
    BY DEF TypeInv, QueueTypeOK, Envelope
  <2>2. on[c] \in Job
    BY DEF SentBy, TypeInv, ProcTypeOK, BusyWithJob
  <2>3. [says |-> <<on[c], TaskOf(c)>>, hidden |-> 0, received |-> 0] \in Envelope
    BY <2>2 DEF Envelope, TaskOf, Task
  <2>4. NoMessage \notin Envelope
    BY DEF Envelope
  <2> QED
    BY <2>3, <2>4 DEF SentBy, Sent
<1> QED
  BY <1>1, <1>2 DEF Enqueue, TypeInv, QueueTypeOK

\* What a call does to what the messages of a job are counted by.
LEMMA CallEffects ==
  ASSUME Known, TypeInv', NEW c \in Client, ClientNext(c), ~InDoubt', NEW j \in Job
  PROVE  /\ reviews'[j] \in Nat /\ reviews[j] \in Nat /\ reviews'[j] >= reviews[j]
         /\ Happened("worker_crash")' => reviews'[j] <= 1
         /\ ~Happened("worker_crash")' => ~Happened("worker_crash")
         /\ \A m \in Message : Spent(m)' <=> Spent(m)
         /\ \A d \in Client \ {c}, task \in Task :
              /\ Sending(d, j, task)' <=> Sending(d, j, task)
              /\ Reviewing(d)' <=> Reviewing(d)
              /\ on'[d] = on[d]
         /\ at[c] # "undo" /\ at'[c] # "undo"
         /\ \/ StartsReview(c, j)
            \/ at[c] # "idle" /\ on[c] = j /\ (PutsSubmitted(c, j) \/ PutsReviewed(c, j))
            \/ /\ reviews'[j] = reviews[j]
               /\ \/ status'[j] \in {status[j], "deleted"}
                  \/ status[j] = "none" /\ status'[j] = "awaiting_upload"
                  \/ status[j] = "awaiting_upload" /\ status'[j] = "failed"
               /\ at'[c] = "send" /\ on'[c] = j => at[c] = "send" /\ on[c] = j /\ was'[c] = was[c]
               /\ Reviewing(c)' /\ on'[c] = j => Reviewing(c) /\ on[c] = j
<1>0. /\ \A d \in Client \ {c} : CallSame(d)
      /\ \A l \in Loop : LoopSame(l)
      /\ \A k \in Job : reviews[k] \in Nat /\ reviews'[k] \in Nat
      /\ at[c] # "undo" /\ CallKnows(c)
      /\ Grows
  BY CallSteps, GrowsAlways DEF Known, TypeInv, CallTypeOK, Review, DeliveryInv, CallDelivers, ControlInv, Next
<1>1. at'[c] # "undo"
  <2>1. ~Happened("send_fails")'
    BY DEF InDoubt
  <2> QED
    BY <1>0, <2>1, CallSteps
    DEF Known, Creates, StartsSubmit, StartsReview, StartsDelete, Starts, CallSame, CallDoes, CallGoesOn, MovesTo,
        WritesReview, PutsSubmitted, PutsRejected, PutsReviewed, PutsBack, PutsDeleted, CallPut, PurgesFiles, PlaceSame
<1>2. /\ ~Happened("worker_crash")' => ~Happened("worker_crash")
      /\ Happened("worker_crash")' => reviews'[j] <= 1
  BY <1>0, HappenedStays DEF Known, TypeInv, FaultKind, InDoubt
<1>3. \A m \in Message : Spent(m)' <=> Spent(m)
  BY <1>0 DEF LoopSame, PlaceSame, Spent
<1>4. \A d \in Client \ {c}, task \in Task :
         (Sending(d, j, task)' <=> Sending(d, j, task)) /\ (Reviewing(d)' <=> Reviewing(d)) /\ on'[d] = on[d]
  BY <1>0 DEF CallSame, PlaceSame, Sending, TaskOf, Reviewing
<1> DEFINE Rest == /\ reviews'[j] = reviews[j]
                   /\ \/ status'[j] \in {status[j], "deleted"}
                      \/ status[j] = "none" /\ status'[j] = "awaiting_upload"
                      \/ status[j] = "awaiting_upload" /\ status'[j] = "failed"
                   /\ at'[c] = "send" /\ on'[c] = j => at[c] = "send" /\ on[c] = j /\ was'[c] = was[c]
                   /\ Reviewing(c)' /\ on'[c] = j => Reviewing(c) /\ on[c] = j
           Goal == \/ StartsReview(c, j)
                   \/ at[c] # "idle" /\ on[c] = j /\ (PutsSubmitted(c, j) \/ PutsReviewed(c, j))
                   \/ Rest
<1>5. ASSUME NEW k \in Job, Creates(c, k) PROVE Rest
  BY <1>5 DEF Creates, Elsewhere, Same, OnlyStatus, CallSame, PlaceSame, Reviewing
<1>6. ASSUME NEW k \in Job, StartsSubmit(c, k) \/ StartsDelete(c, k) PROVE Rest
  BY <1>6 DEF StartsSubmit, StartsDelete, Starts, Elsewhere, Same, OnlyStatus, Reviewing
<1>7. ASSUME NEW k \in Job, StartsReview(c, k) PROVE StartsReview(c, j) \/ Rest
  BY <1>7 DEF StartsReview, Starts, Elsewhere, Same, OnlyStatus, Reviewing
<1>8. ASSUME WritesReview(c, on[c]) \/ PurgesFiles(c, on[c]), on[c] \in Job PROVE Rest
  BY <1>8 DEF WritesReview, PurgesFiles, MovesTo, Elsewhere, Same, OnlyStatus, Reviewing
<1>9. ASSUME PutsRejected(c, on[c]) \/ PutsDeleted(c, on[c]), on[c] \in Job PROVE Rest
  BY <1>0, <1>9, CallFinds DEF PutsRejected, PutsDeleted, CallPut, MovesTo, Elsewhere, Same, OnlyStatus, Reviewing
<1>10. ASSUME PutsSubmitted(c, on[c]) \/ PutsReviewed(c, on[c]), on[c] \in Job, on[c] # j PROVE Rest
  BY <1>10 DEF PutsSubmitted, PutsReviewed, CallPut, MovesTo, Elsewhere, Same, OnlyStatus, Reviewing
<1>11. ASSUME CallGoesOn(c), at[c] # "idle" PROVE Rest
  BY <1>1, <1>11 DEF CallGoesOn, PlaceSame, MovesTo, Same, OnlyStatus, Reviewing, CallUpdating
<1>12. Goal
  <2> HIDE DEF Rest
  <2>1. ~PutsBack(c, on[c])
    BY <1>0 DEF PutsBack, CallPut
  <2> QED
    BY <1>5, <1>6, <1>7, <1>8, <1>9, <1>10, <1>11, <2>1, CallSteps DEF Known, CallDoes, PutsSubmitted, PutsReviewed
<1>13. reviews'[j] >= reviews[j]
  <2>1. ASSUME StartsReview(c, j) PROVE reviews'[j] >= reviews[j]
    BY <1>0, <2>1 DEF StartsReview
  <2>2. ASSUME PutsSubmitted(c, j) \/ PutsReviewed(c, j) PROVE reviews'[j] = reviews[j]
    BY <2>2 DEF PutsSubmitted, PutsReviewed, CallPut
  <2>3. Rest => reviews'[j] = reviews[j]
    OBVIOUS
  <2> HIDE DEF Rest
  <2> QED
    BY <1>0, <1>12, <2>1, <2>2, <2>3
<1>14. reviews'[j] \in Nat /\ reviews[j] \in Nat
  BY <1>0
<1> HIDE DEF Rest
<1>15. at[c] # "undo" /\ at'[c] # "undo"
  BY <1>0, <1>1
<1>16. StartsReview(c, j) \/ (at[c] # "idle" /\ on[c] = j /\ (PutsSubmitted(c, j) \/ PutsReviewed(c, j))) \/ Rest
  BY <1>12
<1> QED
  BY <1>2, <1>3, <1>4, <1>13, <1>14, <1>15, <1>16 DEF Rest

LEMMA CallKeepsDetectTokens ==
  ASSUME Known, TypeInv', NEW c \in Client, ClientNext(c), ~InDoubt', NEW j \in Job
  PROVE  DetectTokens(j)'
<1>0. DetectTokens(j) /\ CallKnows(c)
  BY DEF Known, TokenInv, ControlInv
<1>m. ASSUME NEW m \in Message, Told(m, j, "detect")'
      PROVE  Told(m, j, "detect") \/ (SentBy(c, m) /\ Sending(c, j, "detect"))
  BY <1>m, CallMessages DEF Known, Told, Sent, SentBy, Sending
<1>d. \A d \in Client \ {c} : Sending(d, j, "detect")' <=> Sending(d, j, "detect")
  BY CallEffects DEF Task
<1>1. CASE on[c] = j /\ PutsSubmitted(c, j)
  <2>1. status[j] = "awaiting_upload" /\ at[c] = "submit" /\ status'[j] = "queued_detection"
    BY <1>0, <1>1, CallFinds DEF PutsSubmitted, CallPut
  <2>2. /\ \A m \in Message : ~Told(m, j, "detect")'
        /\ \A d \in Client \ {c} : ~Sending(d, j, "detect")'
    BY <1>0, <1>m, <1>d, <2>1 DEF DetectTokens, SentBy
  <2> QED
    BY <2>1, <2>2 DEF DetectTokens
<1>2. CASE \E m \in Message : SentBy(c, m) /\ Sending(c, j, "detect")
  <2>1. PICK m \in Message : SentBy(c, m) /\ Sending(c, j, "detect")
    BY <1>2
  <2>2. /\ \A n \in Message : ~Told(n, j, "detect")
        /\ \A d \in Client \ {c} : ~Sending(d, j, "detect")
        /\ status[j] \in {"queued_detection", "deleted"}
    BY <1>0, <2>1 DEF DetectTokens
  <2>3. at[c] = "send" /\ at'[c] \in {"idle", "undo"}
    BY <2>1 DEF SentBy
  <2>4. status'[j] \in {status[j], "deleted"}
    BY <2>2, <2>3, CallEffects DEF StartsReview, Starts, PutsSubmitted, PutsReviewed, CallPut
  <2>5. \A d \in Client : ~Sending(d, j, "detect")'
    BY <1>d, <2>2, <2>3 DEF Sending
  <2>6. \A n \in Message : Told(n, j, "detect")' => n = m
    BY <1>m, <2>1, <2>2, OneSent DEF Known
  <2> QED
    BY <2>2, <2>4, <2>5, <2>6 DEF DetectTokens
<1>3. CASE ~(on[c] = j /\ PutsSubmitted(c, j)) /\ ~\E m \in Message : SentBy(c, m) /\ Sending(c, j, "detect")
  <2>1. \A m \in Message : Told(m, j, "detect")' => Told(m, j, "detect")
    BY <1>3, <1>m
  <2>2. Sending(c, j, "detect")' => Sending(c, j, "detect")
    <3>1. PutsReviewed(c, j) /\ on[c] = j => TaskOf(c)' # "detect"
      BY <1>0 DEF PutsReviewed, CallPut, TaskOf, CallKnows, Reviewable
    <3>2. StartsReview(c, j) => at'[c] # "send"
      BY DEF StartsReview, Starts
    <3> QED
      BY <1>3, <3>1, <3>2, CallEffects DEF Sending, TaskOf
  <2>3. status'[j] \in {"none", "awaiting_upload"} => status[j] \in {"none", "awaiting_upload"}
    BY <1>3, CallEffects DEF StartsReview, PutsReviewed, CallPut
  <2>4. \/ status'[j] \in {status[j], "deleted"}
        \/ \A d \in Client : ~Sending(d, j, "detect")
    <3>1. ASSUME PutsReviewed(c, j), on[c] = j PROVE status[j] \in Reviewable
      BY <1>0, <3>1, CallFinds DEF PutsReviewed, CallPut
    <3>2. status[j] \in Reviewable \cup {"none", "awaiting_upload"} => \A d \in Client : ~Sending(d, j, "detect")
      BY <1>0 DEF DetectTokens, Reviewable
    <3> QED
      BY <1>3, <3>1, <3>2, CallEffects DEF StartsReview
  <2> QED
    BY <1>0, <1>d, <2>1, <2>2, <2>3, <2>4, DetectTokensStay
<1> QED
  BY <1>1, <1>2, <1>3

LEMMA CallKeepsRedactTokens ==
  ASSUME Known, TypeInv', ReviewInv', OneReviewAtATime, NEW c \in Client, ClientNext(c), ~InDoubt', NEW j \in Job
  PROVE  RedactTokens(j)'
<1> SUFFICES ASSUME status'[j] # "deleted" PROVE RedactTokens(j)'
  BY DEF RedactTokens
<1>0. /\ RedactTokens(j) /\ CallKnows(c) /\ CallFiles(c) /\ status[j] # "deleted"
      /\ \A m \in Message : MessageReviewed(m)
      /\ \A d \in Client : Reviewing(d)' /\ on'[d] = j => reviews'[j] > 0
  BY CallTurns DEF Known, TokenInv, ControlInv, ReviewInv, Turns, CallFiles
<1>e. /\ reviews'[j] \in Nat /\ reviews[j] \in Nat /\ reviews'[j] >= reviews[j]
      /\ Happened("worker_crash")' => reviews'[j] <= 1
      /\ ~Happened("worker_crash")' => ~Happened("worker_crash")
      /\ \A m \in Message : Spent(m)' <=> Spent(m)
      /\ at'[c] # "undo"
  BY CallEffects
<1>d. ASSUME NEW d \in Client \ {c}
      PROVE  /\ Sending(d, j, "redact")' <=> Sending(d, j, "redact")
             /\ Reviewing(d)' <=> Reviewing(d)
             /\ on'[d] = on[d]
  BY CallEffects DEF Task
<1>m. ASSUME NEW m \in Message, Told(m, j, "redact")'
      PROVE  Told(m, j, "redact") \/ (SentBy(c, m) /\ Sending(c, j, "redact"))
  BY <1>m, CallMessages DEF Known, Told, Sent, SentBy, Sending
<1>r. \A d \in Client, k \in Job : Sending(d, k, "redact") => Reviewing(d) /\ on[d] = k
  BY DEF Sending, Reviewing, TaskOf
<1>1. CASE on[c] = j /\ PutsReviewed(c, j)
  <2>1. /\ at[c] = "finalize" /\ status'[j] = "queued_redaction" /\ reviews'[j] = reviews[j]
        /\ status[j] \in Reviewable /\ status[j] \notin Waits
    BY <1>0, <1>1, CallFinds DEF PutsReviewed, CallPut, Reviewable, Waits
  <2>2. \A m \in Message : Told(m, j, "redact")' => Told(m, j, "redact")
    BY <1>m, <2>1 DEF SentBy
  <2>3. reviews[j] <= 1 => \A m \in Message : ~Told(m, j, "redact")'
    BY <1>0, <1>1, <2>1, <2>2 DEF RedactTokens, Reviewing
  <2>4. \A m \in Message : Told(m, j, "redact")' => Spent(m)'
    BY <1>0, <1>e, <2>1, <2>2, <2>3 DEF RedactTokens
  <2> QED
    BY <2>1, <2>3, <2>4 DEF RedactTokens
<1>2. CASE \E m \in Message : SentBy(c, m) /\ Sending(c, j, "redact")
  <2>1. PICK m \in Message : SentBy(c, m) /\ Sending(c, j, "redact")
    BY <1>2
  <2>2. /\ status[j] = "queued_redaction" /\ \A n \in Message : Told(n, j, "redact") => Spent(n)
        /\ Reviewing(c) /\ on[c] = j /\ at[c] = "send" /\ at'[c] = "idle"
    BY <1>0, <1>e, <1>r, <2>1 DEF RedactTokens, SentBy
  <2>3. \A n \in Message : Told(n, j, "redact")' => Told(n, j, "redact") \/ n = m
    BY <1>m, <2>1, OneSent DEF Known
  <2>4. status'[j] = "queued_redaction" /\ reviews'[j] = reviews[j]
    BY <2>2, CallEffects DEF StartsReview, Starts, PutsSubmitted, PutsReviewed, CallPut
  <2>5. \A d \in Client : ~Sending(d, j, "redact")' /\ ~(Reviewing(d)' /\ on'[d] = j)
    BY <1>d, <1>r, <2>2 DEF OneReviewAtATime, Sending, Reviewing
  <2>6. reviews[j] <= 1 => \A n \in Message : ~Told(n, j, "redact")
    BY <1>0, <2>2 DEF RedactTokens
  <2>7. \A n \in Message : Told(n, j, "redact")' => n = m \/ Spent(n)'
    BY <1>e, <2>2, <2>3
  <2> QED
    BY <2>3, <2>4, <2>5, <2>6, <2>7 DEF RedactTokens, Waits
<1>3. CASE ~(on[c] = j /\ PutsReviewed(c, j)) /\ ~\E m \in Message : SentBy(c, m) /\ Sending(c, j, "redact")
  <2>1. \A m \in Message : Told(m, j, "redact")' => Told(m, j, "redact")
    BY <1>3, <1>m
  <2>2. \/ StartsReview(c, j)
        \/ at[c] # "idle" /\ on[c] = j /\ PutsSubmitted(c, j)
        \/ /\ reviews'[j] = reviews[j]
           /\ \/ status'[j] = status[j]
              \/ status[j] = "none" /\ status'[j] = "awaiting_upload"
              \/ status[j] = "awaiting_upload" /\ status'[j] = "failed"
           /\ at'[c] = "send" /\ on'[c] = j => at[c] = "send" /\ on[c] = j /\ was'[c] = was[c]
           /\ Reviewing(c)' /\ on'[c] = j => Reviewing(c) /\ on[c] = j
    BY <1>3, CallEffects
  <2>3. PutsSubmitted(c, j) /\ on[c] = j =>
          /\ status[j] = "awaiting_upload" /\ status'[j] = "queued_detection" /\ at'[c] = "send"
          /\ was'[c] = "awaiting_upload"
    <3> SUFFICES ASSUME PutsSubmitted(c, j), on[c] = j
                 PROVE  /\ status[j] = "awaiting_upload" /\ status'[j] = "queued_detection" /\ at'[c] = "send"
                        /\ was'[c] = "awaiting_upload"
      OBVIOUS
    <3>1. /\ at[c] = "submit" /\ reading[c] = "fresh" /\ status'[j] = "queued_detection" /\ MovesTo(c, "send")
          /\ was'[c] = was[c]
      BY DEF PutsSubmitted, CallPut
    <3>2. was[c] = "awaiting_upload"
      BY <1>0, <3>1 DEF CallKnows
    <3>3. status[j] = "awaiting_upload"
      BY <1>0, <3>1, CallFinds
    <3> QED
      BY <3>1, <3>2, <3>3 DEF MovesTo
  <2>4. StartsReview(c, j) => status'[j] = status[j] /\ at'[c] = "write" /\ reviews'[j] = reviews[j] + 1
    BY DEF StartsReview, Starts
  <2>5. Sending(c, j, "redact")' => Sending(c, j, "redact") /\ Reviewing(c)' /\ on'[c] = j
    BY <2>2, <2>3, <2>4 DEF Sending, TaskOf, Reviewing
  <2>6. Reviewing(c)' /\ on'[c] = j =>
          (Reviewing(c) /\ on[c] = j) \/ (\A m \in Message : ~Told(m, j, "redact")) \/ reviews'[j] # 1
    <3>1. reviews[j] = 0 => \A m \in Message : ~Told(m, j, "redact")
      BY <1>0 DEF MessageReviewed, Told
    <3>2. PutsSubmitted(c, j) /\ on[c] = j => ~Reviewing(c)'
      BY <2>3 DEF Reviewing
    <3> QED
      BY <1>e, <2>2, <2>4, <3>1, <3>2
  <2>7. \/ status'[j] \in Waits
        \/ status[j] \notin Waits
    BY <2>2, <2>3, <2>4 DEF Waits
  <2>8. status'[j] = status[j] \/ \A d \in Client : ~Sending(d, j, "redact")
    BY <1>0, <2>2, <2>3, <2>4 DEF RedactTokens
  <2>9. \A d \in Client : Sending(d, j, "redact")' => Sending(d, j, "redact") /\ Reviewing(d)' /\ on'[d] = j
    BY <1>d, <1>r, <2>5
  <2>10. \A d \in Client : Reviewing(d)' /\ on'[d] = j =>
           (Reviewing(d) /\ on[d] = j) \/ (\A m \in Message : ~Told(m, j, "redact")) \/ reviews'[j] # 1
    BY <1>d, <2>6
  <2> QED
    BY <1>0, <1>e, <2>1, <2>7, <2>8, <2>9, <2>10, RedactTokensStay
<1> QED
  BY <1>1, <1>2, <1>3

\* Time, SQS and a step of nobody send nothing.
LEMMA OthersKeepTokens ==
  ASSUME Known, TypeInv', SqsNext \/ Tick \/ UNCHANGED vars, ~InDoubt', Grows
  PROVE  TokenInv'
<1>1. /\ at' = at /\ on' = on /\ was' = was /\ status' = status /\ reviews' = reviews /\ letter' = letter
  BY DEF SqsNext, Tick, vars, tableVars, processVars, callVars, fileVars, loopVars
<1>2. ASSUME NEW m \in Message, NEW j \in Job, NEW task, Told(m, j, task)' PROVE Told(m, j, task)
  BY <1>2, OtherMessages DEF Told, Known
<1>3. ~Happened("worker_crash")' => ~Happened("worker_crash")
  BY HappenedStays DEF Known, TypeInv, FaultKind
<1>4. \A c \in Client, j \in Job, task \in Task :
         (Sending(c, j, task)' <=> Sending(c, j, task)) /\ (Reviewing(c)' <=> Reviewing(c))
  BY <1>1 DEF Sending, Reviewing, TaskOf
<1>5. \A m \in Message : Spent(m)' <=> Spent(m)
  BY <1>1 DEF Spent
<1>6. ASSUME NEW j \in Job PROVE DetectTokens(j)' /\ RedactTokens(j)'
  <2>1. DetectTokens(j) /\ RedactTokens(j) /\ reviews[j] \in Nat
    BY Numbers DEF Known, TokenInv
  <2>2. DetectTokens(j)'
    BY <1>1, <1>2, <1>4, <2>1 DEF DetectTokens, Task
  <2>3. RedactTokens(j)'
    BY <1>1, <1>2, <1>3, <1>4, <1>5, <2>1 DEF RedactTokens, Task
  <2> QED
    BY <2>2, <2>3
<1> QED
  BY <1>6 DEF TokenInv

LEMMA TokensKept ==
  ASSUME Known, TypeInv', ReviewInv', OneReviewAtATime, [Next]_vars, Grows, ~InDoubt'
  PROVE  TokenInv'
BY CallKeepsDetectTokens, CallKeepsRedactTokens, LoopKeepsTokens, OthersKeepTokens DEF Next, TokenInv

-----------------------------------------------------------------------------
(* The row of a loop at work is at the stage of its work.                  *)

LEMMA StageStays ==
  ASSUME NEW k \in Loop, Stage(k), LoopSame(k),
         at[k] \in AtWork => \/ status'[on[k]] = status[on[k]] /\ reviews'[on[k]] = reviews[on[k]]
                             \/ status'[on[k]] = "deleted"
  PROVE  Stage(k)'
BY DEF Stage, LoopSame, PlaceSame

LEMMA CallKeepsStages ==
  ASSUME Known, TypeInv', NEW c \in Client, ClientNext(c), ~InDoubt'
  PROVE  StageInv'
<1> SUFFICES ASSUME NEW k \in Loop PROVE Stage(k)'
  BY DEF StageInv
<1>1. Stage(k) /\ LoopSame(k) /\ CallKnows(c) /\ (at[k] # "idle" => on[k] \in Job)
  BY CallSteps DEF Known, StageInv, ControlInv, TypeInv, ProcTypeOK, BusyWithJob
<1>2. CASE at[k] \in AtWork /\ status[on[k]] # "deleted"
  <2>0. PICK j \in Job : j = on[k]
    BY <1>1, <1>2 DEF AtWork, Pipeline
  <2>1. status[j] \in InFlight
    BY <1>1, <1>2, <2>0 DEF Stage
  <2>2. ~StartsReview(c, j)
    BY <2>1 DEF StartsReview, Reviewable, InFlight
  <2>3. ~(on[c] = j /\ (PutsSubmitted(c, j) \/ PutsReviewed(c, j)))
    BY <1>1, <2>1, CallFinds DEF PutsSubmitted, PutsReviewed, CallPut, Reviewable, InFlight
  <2>4. reviews'[j] = reviews[j] /\ status'[j] \in {status[j], "deleted"}
    BY <2>1, <2>2, <2>3, CallEffects DEF InFlight
  <2> QED
    BY <1>1, <2>0, <2>4, StageStays
<1>3. CASE at[k] \in AtWork /\ status[on[k]] = "deleted"
  <2>1. status'[on[k]] = "deleted"
    BY <1>1, <1>3, CallTurns DEF Known, Turns, AtWork, Pipeline
  <2> QED
    BY <1>1, <2>1, StageStays
<1> QED
  BY <1>1, <1>2, <1>3, StageStays

LEMMA LoopKeepsStages ==
  ASSUME Known, TypeInv', NEW l \in Loop, LoopNext(l)
  PROVE  StageInv'
<1> SUFFICES ASSUME NEW k \in Loop PROVE Stage(k)'
  BY DEF StageInv
<1>1. /\ Stage(k) /\ Stage(l) /\ LoopKnows(l) /\ (k # l => LoopSame(k))
      /\ \A j \in Job : RowFiles(j)
  BY LoopSteps DEF Known, StageInv, ControlInv, ReviewInv
<1>2. ASSUME NEW m \in Message, Receives(l, m) PROVE Stage(k)'
  <2>1. \A j \in Job : status'[j] = status[j] /\ reviews'[j] = reviews[j]
    BY <1>2 DEF Receives, Same, OnlyStatus
  <2>2. at'[l] \notin AtWork
    BY <1>2 DEF Receives, AtWork, Pipeline
  <2>3. at[k] \in AtWork => on[k] \in Job
    BY DEF Known, TypeInv, ProcTypeOK, BusyWithJob, AtWork, Pipeline
  <2> QED
    BY <1>1, <2>1, <2>2, <2>3, StageStays DEF Stage
<1>3. ASSUME at[l] # "idle", on[l] \in Job,
             LoopGoesOn(l) \/ Leaves(l) \/ Erases(l, on[l]) \/ WritesManifests(l, on[l]) \/ Fetches(l, on[l])
               \/ StoresOutput(l, on[l])
      PROVE  Stage(k)'
  <2>1. \A j \in Job : status'[j] = status[j] /\ reviews'[j] = reviews[j]
    BY <1>3 DEF LoopGoesOn, Leaves, Erases, WritesManifests, Fetches, StoresOutput, Elsewhere, Same, OnlyStatus
  <2>2. CASE k # l
    <3>1. at[k] \in AtWork => on[k] \in Job
      BY DEF Known, TypeInv, ProcTypeOK, BusyWithJob, AtWork, Pipeline
    <3> QED
      BY <1>1, <2>1, <2>2, <3>1, StageStays
  <2>3. ASSUME Leaves(l) \/ Erases(l, on[l]) PROVE Stage(l)'
    BY <1>3, <2>1, <2>3 DEF Leaves, Erases, MovesTo, Stage, AtWork, Pipeline
  <2>4. ASSUME WritesManifests(l, on[l]) \/ Fetches(l, on[l]) \/ StoresOutput(l, on[l]) PROVE Stage(l)'
    <3>1. on'[l] = on[l] /\ letter'[l] = letter[l]
      BY <2>4 DEF WritesManifests, Fetches, StoresOutput, MovesTo
    <3>2. at[l] \in {"draft", "fetch", "output"} /\ at'[l] \in {"handoff", "render", "complete"}
          /\ (at[l] = "draft" <=> at'[l] = "handoff")
      BY <2>4 DEF WritesManifests, Fetches, StoresOutput, MovesTo
    <3> QED
      BY <1>1, <1>3, <2>1, <3>1, <3>2 DEF Stage, AtWork, Pipeline, DetectStep, RenderStep, LoopKnows
  <2>5. ASSUME LoopGoesOn(l) PROVE Stage(l)'
    <3>1. CASE LoopSame(l)
      BY <1>1, <1>3, <2>1, <3>1, StageStays
    <3>2. CASE at[l] \in LoopUpdating /\ MovesTo(l, LoopUpdate(l).lost)
      <4>1. /\ at[l] = "claim" => LoopUpdate(l).lost = "ack"
            /\ at[l] \in {"pages", "findings", "handoff"} => LoopUpdate(l).lost = "fail"
            /\ at[l] = "progress" => LoopUpdate(l).lost = "detect"
            /\ at[l] = "complete" => LoopUpdate(l).lost = "lost"
            /\ at[l] \in {"review", "failed"} => LoopUpdate(l).lost = "ack"
            /\ at[l] = "release" => LoopUpdate(l).lost = "return"
        BY <3>2 DEF LoopUpdate
      <4>2. letter'[l] = letter[l] /\ on'[l] \in {on[l], None} /\ at'[l] = LoopUpdate(l).lost
        BY <2>5, <3>2 DEF LoopGoesOn, MovesTo
      <4>3. CASE at[l] \in {"claim", "review", "failed", "release"}
        BY <4>1, <4>2, <4>3 DEF Stage, AtWork, Pipeline
      <4>4. CASE at[l] \in {"pages", "findings", "handoff", "complete", "progress"}
        <5>1. at'[l] \in {"fail", "detect", "lost"} /\ (at'[l] = "detect" => at[l] \in DetectStep) /\ on'[l] = on[l]
          BY <3>2, <4>1, <4>2, <4>4 DEF MovesTo, DetectStep
        <5> QED
          BY <1>1, <1>3, <2>1, <4>2, <4>4, <5>1 DEF Stage, AtWork, Pipeline, DetectStep, RenderStep
      <4> QED
        BY <3>2, <4>3, <4>4 DEF LoopUpdating
    <3>3. CASE Walks(l)
      <4>1. letter'[l] = letter[l]
        BY <2>5 DEF LoopGoesOn
      <4>2. \/ at'[l] \notin AtWork
            \/ /\ on'[l] = on[l] /\ at[l] \in AtWork
               /\ at'[l] \in DetectStep \cup {"release"} => at[l] \in DetectStep
               /\ at'[l] \in RenderStep => at[l] \in RenderStep
               /\ at'[l] = "review" => status[on[l]] = "redacting"
        BY <3>3 DEF Walks, MovesTo, AtWork, Pipeline, DetectStep, RenderStep
      <4> QED
        BY <1>1, <1>3, <2>1, <4>1, <4>2 DEF Stage
    <3> QED
      BY <2>5, <3>1, <3>2, <3>3 DEF LoopGoesOn
  <2> QED
    BY <1>3, <2>2, <2>3, <2>4, <2>5
<1>4. ASSUME at[l] # "idle", on[l] \in Job, LoopPut(l, on[l]) PROVE Stage(k)'
  <2>0. PICK j \in Job : j = on[l]
    BY <1>4
  <2>1. /\ Advances(l, j) /\ reviews'[j] = reviews[j] /\ on'[l] = on[l] /\ letter'[l].task = letter[l].task
        /\ \A i \in Job \ {j} : status'[i] = status[i] /\ reviews'[i] = reviews[i]
    BY <1>1, <1>4, <2>0, LoopFinds DEF Known, LoopPut, Elsewhere, Same, OnlyStatus
  <2>2. CASE k # l
    <3>1. at[k] \in AtWork => on[k] \in Job \ {j}
      BY <1>4, <2>0, <2>2, Alone DEF Known, TypeInv, ProcTypeOK, BusyWithJob, AtWork, Pipeline
    <3> QED
      BY <1>1, <2>1, <2>2, <3>1, StageStays
  <2>3. Stage(l)'
    <3>1. CASE at'[l] \in {"ack", "return"}
      BY <3>1 DEF Stage, AtWork, Pipeline
    <3>2. CASE at[l] = "claim"
      <4>1. letter[l].task = "detect" => status[j] \in Early
        BY <2>1, <3>2 DEF Advances, Early
      <4> QED
        BY <1>1, <2>0, <2>1, <3>2, <4>1 DEF Advances, Stage, RowFiles, DetectStep, RenderStep, InFlight
    <3>3. CASE at[l] \in {"pages", "progress", "findings"} \/ (at[l] = "handoff" /\ at'[l] = "render")
      <4>1. letter[l].task = "detect" /\ at[l] \in AtWork /\ status[j] = "detecting"
        BY <1>1, <2>1, <3>3 DEF Advances, LoopKnows, DetectStep, AtWork, Pipeline
      <4>2. reviews[j] = 0
        BY <1>1, <2>0, <4>1 DEF Stage
      <4>3. /\ at[l] # "handoff" => status'[j] = "detecting" /\ at'[l] \in {"detect", "draft"}
            /\ at[l] = "handoff" => status'[j] = "redacting" /\ at'[l] = "render"
        BY <2>1, <3>3 DEF Advances
      <4> QED
        BY <2>0, <2>1, <4>1, <4>2, <4>3 DEF Stage, DetectStep, RenderStep, InFlight
    <3> QED
      BY <2>1, <3>1, <3>2, <3>3 DEF Advances
  <2> QED
    BY <2>2, <2>3
<1> QED
  BY <1>2, <1>3, <1>4, LoopSteps DEF Known, LoopDoes

LEMMA StagesKept ==
  ASSUME Known, TypeInv', [Next]_vars, ~InDoubt'
  PROVE  StageInv'
<1>1. ASSUME SqsNext \/ Tick \/ UNCHANGED vars PROVE StageInv'
  <2>1. at' = at /\ on' = on /\ letter' = letter /\ status' = status /\ reviews' = reviews
    BY <1>1 DEF SqsNext, Tick, vars, tableVars, processVars, callVars, fileVars, loopVars
  <2> QED
    BY <2>1 DEF Known, StageInv, Stage
<1> QED
  BY <1>1, CallKeepsStages, LoopKeepsStages DEF Next

-----------------------------------------------------------------------------
(* What is approved, rendered and stored is what was accepted last.        *)

LEMMA CallKeepsDelivery ==
  ASSUME Known, TypeInv', OneReviewAtATime, NEW c \in Client, ClientNext(c), ~InDoubt'
  PROVE  DeliveryInv'
<1>0. /\ CallKnows(c) /\ CallFiles(c) /\ CallDelivers(c)
      /\ (\A d \in Client \ {c} : CallSame(d)) /\ (\A l \in Loop : LoopSame(l))
      /\ \A j \in Job : RowDelivers(j) /\ Turns(j)
      /\ \A p \in Client \cup Loop : at[p] # "idle" => on[p] \in Job /\ status[on[p]] # "none"
  BY CallSteps, CallTurns
  DEF Known, ControlInv, CallKnows, LoopKnows, ReviewInv, DeliveryInv, TypeInv, ProcTypeOK, BusyWithJob
<1> DEFINE Rewrites(j) == on[c] = j /\ at[c] = "write" /\ at'[c] = "finalize"
                          /\ approved'[j] = carries[c] /\ carries'[c] = carries[c]
           Kept(j) == /\ accepted'[j] = accepted[j] \/ (on[c] = j /\ PutsReviewed(c, j))
                      /\ status'[j] # "deleted" => output'[j] = output[j]
                      /\ status'[j] # "deleted" => approved'[j] = approved[j] \/ Rewrites(j)
                      /\ status'[j] \in {status[j], "awaiting_upload", "queued_detection", "failed", "deleted"}
                           \/ (on[c] = j /\ PutsReviewed(c, j))
                      /\ at'[c] = "finalize" /\ on'[c] = j =>
                           \/ at[c] = "finalize" /\ on[c] = j /\ carries'[c] = carries[c] /\ approved'[j] = approved[j]
                           \/ Rewrites(j)
<1>1. ASSUME NEW j \in Job PROVE Kept(j)
  <2>1. ASSUME NEW k \in Job, Creates(c, k) PROVE Kept(j)
    BY <2>1 DEF Creates, Elsewhere, Same, OnlyStatus, CallSame, PlaceSame
  <2>2. ASSUME NEW k \in Job, StartsSubmit(c, k) \/ StartsReview(c, k) \/ StartsDelete(c, k) PROVE Kept(j)
    BY <2>2 DEF StartsSubmit, StartsReview, StartsDelete, Starts, Elsewhere, Same, OnlyStatus
  <2>3. ASSUME WritesReview(c, on[c]), on[c] \in Job PROVE Kept(j)
    BY <2>3 DEF WritesReview, MovesTo, Elsewhere, Same, OnlyStatus
  <2>4. ASSUME PurgesFiles(c, on[c]), on[c] \in Job PROVE Kept(j)
    <3>1. status[on[c]] = "deleted"
      BY <1>0, <2>4 DEF PurgesFiles, CallKnows
    <3> QED
      BY <2>4, <3>1 DEF PurgesFiles, MovesTo, Elsewhere, Same, OnlyStatus
  <2>5. ASSUME PutsSubmitted(c, on[c]) \/ PutsRejected(c, on[c]) \/ PutsDeleted(c, on[c]), on[c] \in Job
        PROVE  Kept(j)
    BY <2>5 DEF PutsSubmitted, PutsRejected, PutsDeleted, CallPut, MovesTo, Elsewhere, Same, OnlyStatus
  <2>6. ASSUME PutsReviewed(c, on[c]), on[c] \in Job PROVE Kept(j)
    BY <2>6 DEF PutsReviewed, CallPut, MovesTo, Elsewhere, Same, OnlyStatus
  <2>7. ASSUME CallGoesOn(c), at[c] # "idle" PROVE Kept(j)
    BY <2>7 DEF CallGoesOn, PlaceSame, MovesTo, Same, OnlyStatus
  <2>8. ~PutsBack(c, on[c])
    BY <1>0 DEF PutsBack, CallPut, CallDelivers
  <2> HIDE DEF Kept
  <2> QED
    BY <2>1, <2>2, <2>3, <2>4, <2>5, <2>6, <2>7, <2>8, CallSteps DEF Known, CallDoes
<1>2. ASSUME NEW j \in Job, on[c] = j, PutsReviewed(c, j)
      PROVE  /\ status[j] \in Reviewable /\ status'[j] = "queued_redaction"
             /\ approved'[j] = accepted'[j] /\ ~Rewrites(j)
  <2>1. at[c] = "finalize" /\ status[j] \in Reviewable
    BY <1>0, <1>2, CallFinds DEF PutsReviewed, CallPut
  <2>2. approved[j] = carries[c]
    BY <1>0, <1>2, <2>1 DEF CallDelivers, Reviewable
  <2> QED
    BY <1>2, <2>1, <2>2 DEF PutsReviewed, CallPut
<1>3. ASSUME NEW j \in Job, Rewrites(j)
      PROVE  status[j] \in Reviewable \cup {"deleted"} /\ ~PutsReviewed(c, j)
  BY <1>0, <1>3 DEF CallFiles, CallKnows, PutsReviewed, CallPut
<1>4. ASSUME NEW j \in Job PROVE RowDelivers(j)'
  <2>1. CASE on[c] = j /\ PutsReviewed(c, j)
    BY <1>2, <2>1 DEF RowDelivers
  <2>2. CASE Rewrites(j)
    <3>1. /\ status[j] \in Reviewable \cup {"deleted"} /\ accepted'[j] = accepted[j]
          /\ status'[j] # "deleted" => output'[j] = output[j]
          /\ status'[j] \in {status[j], "awaiting_upload", "queued_detection", "failed", "deleted"}
      BY <1>1, <1>3, <2>2
    <3> QED
      BY <1>0, <3>1 DEF RowDelivers, Waits, Reviewable
  <2>3. CASE ~(on[c] = j /\ PutsReviewed(c, j)) /\ ~Rewrites(j)
    <3>1. /\ accepted'[j] = accepted[j] /\ (status'[j] # "deleted" => output'[j] = output[j] /\ approved'[j] = approved[j])
          /\ status'[j] \in {status[j], "awaiting_upload", "queued_detection", "failed", "deleted"}
      BY <1>1, <2>3
    <3> QED
      BY <1>0, <3>1 DEF RowDelivers, Waits
  <2> QED
    BY <2>1, <2>2, <2>3
<1>5. ASSUME NEW l \in Loop PROVE LoopDelivers(l)'
  <2> SUFFICES ASSUME at[l] \in RenderStep, status'[on[l]] # "deleted" PROVE LoopDelivers(l)'
    BY <1>0 DEF LoopDelivers, LoopSame, PlaceSame, RenderStep
  <2>0. PICK j \in Job : j = on[l]
    BY <1>0 DEF RenderStep
  <2>1. status[j] = "redacting" /\ LoopDelivers(l)
    <3>1. status[j] # "deleted"
      BY <1>0, <2>0 DEF Turns
    <3> QED
      BY <2>0, <3>1 DEF Known, StageInv, Stage, DeliveryInv, AtWork, Pipeline, RenderStep
  <2>2. accepted'[j] = accepted[j] /\ output'[j] = output[j]
    BY <1>1, <1>2, <2>0, <2>1 DEF Reviewable
  <2> QED
    BY <1>0, <2>0, <2>1, <2>2 DEF LoopDelivers, LoopSame, PlaceSame
<1>6. ASSUME NEW d \in Client PROVE CallDelivers(d)'
  <2>1. at'[d] # "undo"
    <3>1. d # c => at[d] # "undo" /\ at'[d] = at[d]
      BY <1>0 DEF Known, DeliveryInv, CallDelivers, CallSame, PlaceSame
    <3>2. at'[c] # "undo"
      BY CallEffects, CallSteps DEF Known
    <3> QED
      BY <3>1, <3>2
  <2>2. ASSUME at'[d] = "finalize", status'[on'[d]] # "deleted" PROVE approved'[on'[d]] = carries'[d]
    <3>0. PICK j \in Job : j = on'[d]
      BY <2>2 DEF Known, TypeInv, ProcTypeOK, BusyWithJob
    <3>1. status[j] # "deleted" /\ CallDelivers(d)
      BY <1>0, <2>2, <3>0 DEF Turns, Known, DeliveryInv
    <3>2. CASE d = c
      BY <1>1, <2>2, <3>0, <3>1, <3>2 DEF CallDelivers
    <3>3. CASE d # c
      <4>1. at[d] = "finalize" /\ on[d] = j /\ carries'[d] = carries[d]
        BY <1>0, <2>2, <3>0, <3>3 DEF CallSame, PlaceSame
      <4>2. ~Rewrites(j)
        BY <3>3, <4>1 DEF OneReviewAtATime, Reviewing
      <4>3. approved'[j] = approved[j]
        BY <1>1, <2>2, <3>0, <4>2
      <4> QED
        BY <3>0, <3>1, <4>1, <4>3 DEF CallDelivers
    <3> QED
      BY <3>2, <3>3
  <2> QED
    BY <2>1, <2>2 DEF CallDelivers
<1> QED
  BY <1>4, <1>5, <1>6 DEF DeliveryInv

LEMMA LoopKeepsDelivery ==
  ASSUME Known, TypeInv', NEW l \in Loop, LoopNext(l)
  PROVE  DeliveryInv'
<1>0. /\ LoopKnows(l) /\ LoopFiles(l) /\ Stage(l) /\ LoopDelivers(l)
      /\ (\A c \in Client : CallSame(c)) /\ (\A k \in Loop \ {l} : LoopSame(k))
      /\ \A j \in Job : RowDelivers(j) /\ Turns(j) /\ RowFiles(j)
      /\ \A p \in Client \cup Loop : at[p] # "idle" => on[p] \in Job
  BY LoopSteps, LoopTurnsRows
  DEF Known, ControlInv, ReviewInv, DeliveryInv, StageInv, TypeInv, ProcTypeOK, BusyWithJob
<1> DEFINE Alive(j) == status'[j] # "deleted"
           Stores(j) == on[l] = j /\ at[l] = "output" /\ at'[l] = "complete" /\ output'[j] = manifest[l]
           Drafts(j) == on[l] = j /\ at[l] = "draft"
           Kept(j) == /\ accepted'[j] = accepted[j]
                      /\ Alive(j) => (output'[j] = output[j] \/ Stores(j))
                      /\ Alive(j) => (approved'[j] = approved[j] \/ Drafts(j))
                      /\ status'[j] = status[j] \/ (on[l] = j /\ LoopPut(l, j))
           Renders(j) == \/ at[l] = at'[l] /\ manifest'[l] = manifest[l] /\ output'[j] = output[j]
                         \/ at[l] = "fetch" /\ manifest'[l] = approved[j] /\ status'[j] = status[j] /\ at'[l] = "render"
                         \/ at[l] = "render" /\ manifest'[l] = manifest[l] /\ at'[l] = "output"
                         \/ Stores(j) /\ manifest'[l] = manifest[l]
                         \/ LoopPut(l, j) /\ at'[l] = "render"
           Goal(j) == Kept(j) /\ (at'[l] \in RenderStep /\ on'[l] = j /\ Alive(j) => on[l] = j /\ Renders(j))
<1>1. ASSUME NEW j \in Job PROVE Goal(j)
  <2>1. ASSUME NEW m \in Message, Receives(l, m) PROVE Goal(j)
    BY <2>1 DEF Receives, Same, OnlyStatus, RenderStep
  <2>2. ASSUME Erases(l, on[l]), on[l] \in Job PROVE Goal(j)
    BY <2>2 DEF Erases, MovesTo, Elsewhere, Same, OnlyStatus, RenderStep
  <2>3. ASSUME WritesManifests(l, on[l]), on[l] \in Job PROVE Goal(j)
    BY <2>3 DEF WritesManifests, MovesTo, Elsewhere, Same, OnlyStatus, RenderStep
  <2>4. ASSUME Fetches(l, on[l]), on[l] \in Job PROVE Goal(j)
    BY <2>4 DEF Fetches, MovesTo, Elsewhere, Same, OnlyStatus, RenderStep
  <2>5. ASSUME StoresOutput(l, on[l]), on[l] \in Job PROVE Goal(j)
    BY <2>5 DEF StoresOutput, MovesTo, Elsewhere, Same, OnlyStatus, RenderStep
  <2>6. ASSUME LoopPut(l, on[l]), on[l] \in Job PROVE Goal(j)
    <3>1. at'[l] \in RenderStep => at'[l] = "render"
      BY <1>0, <2>6, LoopFinds DEF Known, Advances, RenderStep
    <3> QED
      BY <2>6, <3>1 DEF LoopPut, Elsewhere, Same, OnlyStatus
  <2>7. ASSUME LoopGoesOn(l), on[l] \in Job PROVE Goal(j)
    <3>1. Kept(j) /\ on'[l] \in {on[l], None} /\ output'[j] = output[j]
      BY <2>7 DEF LoopGoesOn, Walks, MovesTo, Same, OnlyStatus, LoopSame, PlaceSame
    <3>2. at'[l] \in RenderStep => \/ LoopSame(l)
                                   \/ at[l] = "render" /\ manifest'[l] = manifest[l] /\ at'[l] = "output"
      <4>1. at[l] \in LoopUpdating => LoopUpdate(l).lost \in {"ack", "fail", "detect", "lost", "return"}
        BY DEF LoopUpdate, LoopUpdating
      <4> QED
        BY <2>7, <4>1 DEF LoopGoesOn, Walks, MovesTo, RenderStep
    <3>3. at'[l] \in RenderStep => on'[l] = on[l]
      BY <2>7, <3>2 DEF LoopGoesOn, LoopSame, PlaceSame, Walks, MovesTo, RenderStep
    <3> QED
      BY <3>1, <3>2, <3>3 DEF LoopSame, PlaceSame
  <2>8. ASSUME Leaves(l) PROVE Goal(j)
    BY <2>8 DEF Leaves, MovesTo, Same, OnlyStatus, RenderStep
  <2> HIDE DEF Goal
  <2> QED
    BY <2>1, <2>2, <2>3, <2>4, <2>5, <2>6, <2>7, <2>8, LoopSteps DEF Known, LoopDoes
<1>2. ASSUME NEW j \in Job, Alive(j), Stores(j)
      PROVE  status[j] = "redacting" /\ output'[j] = accepted[j]
  BY <1>0, <1>2 DEF Turns, Stage, LoopDelivers, AtWork, Pipeline, RenderStep
<1>3. ASSUME NEW j \in Job, Alive(j), Drafts(j) PROVE status[j] = "detecting"
  BY <1>0, <1>3 DEF Turns, Stage, AtWork, Pipeline, DetectStep
<1>4. ASSUME NEW j \in Job, on[l] = j, LoopPut(l, j)
      PROVE  /\ Advances(l, j) /\ output'[j] = output[j] /\ approved'[j] = approved[j]
             /\ at'[l] = "render" =>
                  approved[j] = 0 /\ accepted[j] = 0 /\ manifest[l] = 0 /\ manifest'[l] = 0
  <2>1. Advances(l, j) /\ output'[j] = output[j] /\ approved'[j] = approved[j] /\ manifest'[l] = manifest[l]
    BY <1>0, <1>4, LoopFinds DEF Known, LoopPut
  <2>2. ASSUME at'[l] = "render" PROVE approved[j] = 0 /\ accepted[j] = 0 /\ manifest[l] = 0
    <3>1. at[l] = "handoff" /\ letter[l].auto /\ status[j] \in Early
      BY <2>1, <2>2 DEF Advances, Early
    <3>2. accepted[j] <= 0 /\ accepted[j] \in Nat
      BY <1>0, <3>1, Numbers DEF RowFiles, Known
    <3> QED
      BY <1>0, <1>4, <3>1, <3>2 DEF LoopFiles
  <2> QED
    BY <2>1, <2>2
<1>5. ASSUME NEW j \in Job PROVE RowDelivers(j)'
  <2>1. CASE on[l] = j /\ LoopPut(l, j)
    <3>1. status'[j] = "complete" => output[j] = accepted[j]
      BY <1>0, <1>4, <2>1 DEF Advances, LoopDelivers
    <3>2. status'[j] \in Waits => at'[l] = "render" \/ status[j] \in Waits
      BY <1>4, <2>1 DEF Advances, Waits
    <3> QED
      BY <1>0, <1>1, <1>4, <2>1, <3>1, <3>2 DEF RowDelivers
  <2>2. CASE ~(on[l] = j /\ LoopPut(l, j))
    <3>1. status'[j] = status[j] /\ accepted'[j] = accepted[j]
      BY <1>1, <2>2
    <3>2. status[j] = "complete" => output'[j] = output[j]
      BY <1>1, <1>2, <3>1
    <3>3. status[j] \in Waits => approved'[j] = approved[j]
      BY <1>1, <1>3, <3>1 DEF Waits
    <3> QED
      BY <1>0, <3>1, <3>2, <3>3 DEF RowDelivers
  <2> QED
    BY <2>1, <2>2
<1>6. ASSUME NEW k \in Loop PROVE LoopDelivers(k)'
  <2> SUFFICES ASSUME at'[k] \in RenderStep, status'[on'[k]] # "deleted" PROVE LoopDelivers(k)'
    BY DEF LoopDelivers, RenderStep
  <2>0. PICK j \in Job : j = on'[k]
    BY DEF Known, TypeInv, ProcTypeOK, BusyWithJob, RenderStep
  <2>1. status[j] # "deleted" /\ accepted'[j] = accepted[j] /\ LoopDelivers(k)
    BY <1>0, <1>1, <2>0 DEF Turns, Known, DeliveryInv
  <2>2. CASE k # l
    <3>1. at[k] = at'[k] /\ on[k] = j /\ manifest'[k] = manifest[k]
      BY <1>0, <2>0, <2>2 DEF LoopSame, PlaceSame
    <3>2. output'[j] = output[j] \/ output'[j] = accepted[j]
      BY <1>1, <1>2, <2>0
    <3> QED
      BY <2>0, <2>1, <3>1, <3>2 DEF LoopDelivers
  <2>3. CASE k = l
    <3>1. on[l] = j /\ Renders(j)
      BY <1>1, <2>0, <2>3
    <3>2. CASE at[l] = at'[l] /\ manifest'[l] = manifest[l] /\ output'[j] = output[j]
      BY <2>0, <2>1, <2>3, <3>1, <3>2 DEF LoopDelivers
    <3>3. CASE at[l] = "fetch" /\ manifest'[l] = approved[j] /\ status'[j] = status[j] /\ at'[l] = "render"
      <4>1. status[j] = "redacting"
        BY <1>0, <2>1, <3>1, <3>3 DEF Stage, LoopKnows, AtWork, Pipeline
      <4>2. approved[j] = accepted[j]
        BY <1>0, <4>1 DEF RowDelivers, Waits
      <4> QED
        BY <2>0, <2>1, <2>3, <3>3, <4>2 DEF LoopDelivers
    <3>4. CASE at[l] = "render" /\ manifest'[l] = manifest[l] /\ at'[l] = "output"
      BY <2>0, <2>1, <2>3, <3>1, <3>4 DEF LoopDelivers, RenderStep
    <3>5. CASE Stores(j) /\ manifest'[l] = manifest[l]
      BY <1>2, <2>0, <2>1, <2>3, <3>1, <3>5 DEF LoopDelivers, RenderStep
    <3>6. CASE LoopPut(l, j) /\ at'[l] = "render"
      BY <1>4, <2>0, <2>1, <2>3, <3>1, <3>6 DEF LoopDelivers
    <3> QED
      BY <3>1, <3>2, <3>3, <3>4, <3>5, <3>6
  <2> QED
    BY <2>2, <2>3
<1>7. ASSUME NEW d \in Client PROVE CallDelivers(d)'
  <2>1. CallSame(d) /\ CallDelivers(d) /\ CallKnows(d) /\ CallFiles(d)
    BY <1>0 DEF Known, DeliveryInv, ControlInv, ReviewInv
  <2>2. ASSUME at[d] = "finalize", status'[on[d]] # "deleted" PROVE approved'[on[d]] = carries[d]
    <3>0. PICK j \in Job : j = on[d]
      BY <1>0, <2>2
    <3>1. status[j] \in Reviewable
      BY <1>0, <2>1, <2>2, <3>0 DEF Turns, CallFiles, CallKnows
    <3>2. approved'[j] = approved[j]
      BY <1>1, <1>3, <2>2, <3>0, <3>1 DEF Reviewable
    <3> QED
      BY <2>1, <2>2, <3>0, <3>1, <3>2 DEF CallDelivers, Reviewable
  <2> QED
    BY <2>1, <2>2 DEF CallDelivers, CallSame, PlaceSame
<1> QED
  BY <1>5, <1>6, <1>7 DEF DeliveryInv

LEMMA DeliveryKept ==
  ASSUME Known, TypeInv', OneReviewAtATime, [Next]_vars, ~InDoubt'
  PROVE  DeliveryInv'
<1>1. ASSUME SqsNext \/ Tick \/ UNCHANGED vars PROVE DeliveryInv'
  <2>1. /\ at' = at /\ on' = on /\ status' = status /\ accepted' = accepted /\ approved' = approved
        /\ output' = output /\ manifest' = manifest /\ carries' = carries
    BY <1>1 DEF SqsNext, Tick, vars, tableVars, processVars, callVars, fileVars, loopVars
  <2> QED
    BY <2>1 DEF Known, DeliveryInv, RowDelivers, LoopDelivers, CallDelivers
<1> QED
  BY <1>1, CallKeepsDelivery, LoopKeepsDelivery DEF Next

-----------------------------------------------------------------------------
(* The invariant, all told.                                                *)

LEMMA ReviewsGrow ==
  ASSUME TypeInv, [Next]_vars, NEW j \in Job
  PROVE  reviews'[j] >= reviews[j]
<1>0. reviews[j] \in Nat
  BY Numbers
<1>1. ASSUME NEW c \in Client, ClientNext(c) PROVE reviews'[j] >= reviews[j]
  <2>1. reviews'[j] = reviews[j] \/ reviews'[j] = reviews[j] + 1
    BY <1>1, CallSteps DEF Creates, StartsSubmit, StartsReview, StartsDelete, Starts, CallDoes, WritesReview,
       PutsSubmitted, PutsRejected, PutsReviewed, PutsBack, PutsDeleted, CallPut, PurgesFiles, CallGoesOn,
       Elsewhere, Same, OnlyStatus
  <2> QED
    BY <1>0, <2>1
<1>2. ASSUME NEW l \in Loop, LoopNext(l) PROVE reviews'[j] >= reviews[j]
  <2>1. reviews'[j] = reviews[j]
    BY <1>2, LoopSteps DEF Receives, LoopDoes, Erases, WritesManifests, Fetches, StoresOutput, LoopPut,
       LoopGoesOn, Leaves, Elsewhere, Same, OnlyStatus
  <2> QED
    BY <1>0, <2>1
<1>3. ASSUME SqsNext \/ Tick \/ UNCHANGED vars PROVE reviews'[j] >= reviews[j]
  BY <1>0, <1>3 DEF SqsNext, Tick, vars, callVars
<1> QED
  BY <1>1, <1>2, <1>3 DEF Next

LEMMA KnownBefore ==
  ASSUME TypeInv, TypeInv', MessageInv, ControlInv, ReviewInv, HoldInv, WorkInv, [Next]_vars, ~InDoubt'
  PROVE  Known /\ Grows
<1>1. Grows /\ \A j \in Job : reviews'[j] >= reviews[j]
  BY GrowsAlways, ReviewsGrow
<1> QED
  BY <1>1, DoubtBefore DEF Known, WorkInv

LEMMA WorkKept == Spec /\ []OneReviewAtATime => []WorkInv
<1>1. Init => WorkInv
  <2> SUFFICES ASSUME Init PROVE TokenInv /\ StageInv /\ DeliveryInv
    BY DEF WorkInv
  <2>1. /\ \A p \in Client \cup Loop : at[p] = "idle"
        /\ \A m \in Message : ~Sent(m)
        /\ \A j \in Job : status[j] = "none"
    BY DEF Init, TableInit, QueueInit, Sent
  <2>2. TokenInv
    BY <2>1 DEF TokenInv, DetectTokens, RedactTokens, Told, Sending, Reviewing
  <2>3. StageInv
    BY <2>1 DEF StageInv, Stage, AtWork, Pipeline
  <2>4. DeliveryInv
    BY <2>1 DEF DeliveryInv, RowDelivers, LoopDelivers, CallDelivers, Waits, RenderStep
  <2> QED
    BY <2>2, <2>3, <2>4
<1>2. /\ TypeInv /\ TypeInv' /\ MessageInv /\ ControlInv /\ ReviewInv /\ ReviewInv' /\ HoldInv /\ WorkInv
      /\ OneReviewAtATime /\ [Next]_vars
      => WorkInv'
  <2> SUFFICES ASSUME TypeInv, TypeInv', MessageInv, ControlInv, ReviewInv, ReviewInv', HoldInv, WorkInv,
                      OneReviewAtATime, [Next]_vars, ~InDoubt'
               PROVE  (TokenInv /\ StageInv /\ DeliveryInv)'
    BY DEF WorkInv
  <2>1. Known /\ Grows
    BY KnownBefore
  <2> QED
    BY <2>1, TokensKept, StagesKept, DeliveryKept
<1> QED
  BY <1>1, <1>2, TypesKept, MessagesKept, ControlKept, ReviewsKept, HoldKept, PTL DEF Spec

\* A completed job delivers the boxes of the last accepted review: for any jobs,
\* calls, loops, faults and settings, while the reviews of a job come one at a
\* time and no message is in doubt.  In doubt it delivers an earlier review, and
\* never one that was not accepted.
THEOREM AwsDeliversAcceptedReviews == Spec /\ []OneReviewAtATime => []AcceptedReviewDelivered
<1>1. TypeInv /\ ReviewInv /\ WorkInv => AcceptedReviewDelivered
  <2> SUFFICES ASSUME TypeInv, ReviewInv, WorkInv, NEW j \in Job, status[j] = "complete", output[j] # accepted[j]
               PROVE  InDoubt /\ output[j] \in Review /\ output[j] < accepted[j]
    BY DEF AcceptedReviewDelivered
  <2>1. InDoubt
    BY DEF WorkInv, DeliveryInv, RowDelivers
  <2>2. output[j] \in Review /\ output[j] <= accepted[j]
    BY DEF ReviewInv, RowFiles, TypeInv, FileTypeOK
  <2>3. output[j] \in Nat /\ accepted[j] \in Nat
    BY <2>2, Numbers DEF Review
  <2> QED
    BY <2>1, <2>2, <2>3
<1> QED
  BY <1>1, TypesKept, ReviewsKept, WorkKept, PTL

-----------------------------------------------------------------------------
(* The contract.  A step that moves one job is the contract's step of that *)
(* job; every other step is a stutter.                                     *)

Result(j) == IF status[j] = "complete" THEN output[j] ELSE None

Unmoved(j) ==
  /\ PhaseOf(status'[j]) = PhaseOf(status[j]) /\ auto'[j] = auto[j] /\ accepted'[j] = accepted[j]
  /\ Result(j)' = Result(j)

\* What may become of a row that moves, in the service's words.
Moved(j) ==
  \/ status[j] = "none" /\ status'[j] = "awaiting_upload" /\ accepted'[j] = accepted[j]
  \/ /\ status[j] \in Reviewable /\ status'[j] = "queued_redaction"
     /\ ~auto'[j] /\ accepted'[j] > accepted[j]
  \/ /\ auto'[j] = auto[j] /\ accepted'[j] = accepted[j]
     /\ \/ status[j] = "awaiting_upload" /\ status'[j] = "queued_detection"
        \/ status[j] \in InFlight /\ status'[j] = "review_required" /\ ~auto[j]
        \/ /\ status[j] \in InFlight /\ status'[j] = "complete"
           /\ auto[j] \/ accepted[j] > 0
           /\ output'[j] = accepted[j]
        \/ status[j] \in InFlight \cup {"awaiting_upload"} /\ status'[j] = "failed"
        \/ status[j] \notin {"none", "deleted"} /\ status'[j] = "deleted"

OneMoves == \E j \in Job : Moved(j) /\ \A i \in Job \ {j} : Unmoved(i)

LEMMA PhasesOf ==
  /\ PhaseOf("none") = "absent" /\ PhaseOf("awaiting_upload") = "open"
  /\ PhaseOf("queued_detection") = "working" /\ PhaseOf("queued_redaction") = "working"
  /\ PhaseOf("detecting") = "working" /\ PhaseOf("redacting") = "working"
  /\ PhaseOf("review_required") = "review" /\ PhaseOf("complete") = "complete"
  /\ PhaseOf("failed") = "failed" /\ PhaseOf("deleted") = "erased"
BY DEF PhaseOf, Queued, InFlight

LEMMA SameUnmoved ==
  ASSUME NEW j \in Job, Same(j)
  PROVE  Unmoved(j)
BY DEF Same, OnlyStatus, Unmoved, Result

LEMMA CallMoves ==
  ASSUME Known, TypeInv', NEW c \in Client, ClientNext(c)
  PROVE  OneMoves \/ \A j \in Job : Unmoved(j)
<1>0. CallKnows(c) /\ CallFiles(c) /\ at[c] # "undo"
  BY DEF Known, ControlInv, ReviewInv, DeliveryInv, CallDelivers
<1>1. ASSUME NEW j \in Job, Creates(c, j) PROVE OneMoves
  BY <1>1, SameUnmoved DEF Creates, Elsewhere, Moved, OneMoves
<1>2. ASSUME NEW j \in Job, StartsSubmit(c, j) \/ StartsReview(c, j) \/ StartsDelete(c, j)
      PROVE  \A k \in Job : Unmoved(k)
  BY <1>2, SameUnmoved DEF StartsSubmit, StartsReview, StartsDelete, Starts, Elsewhere, Unmoved, Result
<1>3. ASSUME CallGoesOn(c) PROVE \A k \in Job : Unmoved(k)
  BY <1>3, SameUnmoved DEF CallGoesOn
<1>4. ASSUME NEW j \in Job, j = on[c], WritesReview(c, j) \/ PurgesFiles(c, j)
      PROVE  \A k \in Job : Unmoved(k)
  <2>1. PurgesFiles(c, j) => status[j] = "deleted"
    BY <1>0, <1>4 DEF PurgesFiles, CallKnows
  <2> QED
    BY <1>4, <2>1, SameUnmoved DEF WritesReview, PurgesFiles, Elsewhere, Unmoved, Result
<1>5. ASSUME NEW j \in Job, j = on[c], PutsSubmitted(c, j) PROVE OneMoves
  <2>1. status[j] = "awaiting_upload"
    BY <1>0, <1>5, CallFinds DEF PutsSubmitted, CallPut
  <2> QED
    BY <1>5, <2>1, SameUnmoved DEF PutsSubmitted, CallPut, Elsewhere, Moved, OneMoves
<1>6. ASSUME NEW j \in Job, j = on[c], PutsReviewed(c, j) PROVE OneMoves
  <2>1. status[j] \in Reviewable /\ accepted[j] < carries[c]
    BY <1>0, <1>6, CallFinds DEF PutsReviewed, CallPut, CallFiles
  <2>2. accepted'[j] > accepted[j]
    BY <1>6, <2>1, Numbers DEF PutsReviewed, Known
  <2> QED
    BY <1>6, <2>1, <2>2, SameUnmoved DEF PutsReviewed, CallPut, Elsewhere, Moved, OneMoves
<1>7. ASSUME NEW j \in Job, j = on[c], PutsDeleted(c, j) PROVE OneMoves \/ \A k \in Job : Unmoved(k)
  <2>1. status[j] # "none"
    BY <1>0, <1>7 DEF PutsDeleted, CallPut, CallKnows
  <2>2. CASE status[j] = "deleted"
    BY <1>7, <2>2, SameUnmoved DEF PutsDeleted, CallPut, Elsewhere, Unmoved, Result
  <2>3. CASE status[j] # "deleted"
    BY <1>7, <2>1, <2>3, SameUnmoved DEF PutsDeleted, CallPut, Elsewhere, Moved, OneMoves
  <2> QED
    BY <2>2, <2>3
<1>8. ~PutsBack(c, on[c])
  BY <1>0 DEF PutsBack, CallPut
<1>9. ASSUME NEW j \in Job, j = on[c], PutsRejected(c, j) PROVE OneMoves
  <2>1. status[j] = "awaiting_upload"
    BY <1>0, <1>9, CallFinds DEF PutsRejected, CallPut
  <2> QED
    BY <1>9, <2>1, SameUnmoved DEF PutsRejected, CallPut, Elsewhere, Moved, OneMoves
<1> QED
  BY <1>1, <1>2, <1>3, <1>4, <1>5, <1>6, <1>7, <1>8, <1>9, CallSteps DEF Known, CallDoes

LEMMA LoopMoves ==
  ASSUME Known, TypeInv', NEW l \in Loop, LoopNext(l)
  PROVE  OneMoves \/ \A j \in Job : Unmoved(j)
<1>0. LoopKnows(l) /\ LoopFiles(l) /\ Stage(l) /\ LoopDelivers(l) /\ \A j \in Job : RowFiles(j)
  BY DEF Known, ControlInv, ReviewInv, StageInv, DeliveryInv
<1>1. ASSUME LoopGoesOn(l) \/ Leaves(l) \/ \E m \in Message : Receives(l, m)
      PROVE  \A j \in Job : Unmoved(j)
  BY <1>1, SameUnmoved DEF LoopGoesOn, Leaves, Receives
<1>2. ASSUME NEW j \in Job, j = on[l], Erases(l, j) \/ WritesManifests(l, j) \/ Fetches(l, j) \/ StoresOutput(l, j)
      PROVE  \A k \in Job : Unmoved(k)
  <2>1. StoresOutput(l, j) => status[j] # "complete"
    BY <1>0, <1>2 DEF StoresOutput, Stage, AtWork, Pipeline, RenderStep
  <2>2. Unmoved(j)
    BY <1>2, <2>1 DEF Erases, WritesManifests, Fetches, StoresOutput, Same, OnlyStatus, Unmoved, Result
  <2>3. \A k \in Job \ {j} : Unmoved(k)
    BY <1>2, SameUnmoved DEF Erases, WritesManifests, Fetches, StoresOutput, Elsewhere
  <2> QED
    BY <2>2, <2>3
<1>3. ASSUME NEW j \in Job, j = on[l], LoopPut(l, j)
      PROVE  OneMoves \/ \A k \in Job : Unmoved(k)
  <2>1. /\ Advances(l, j) /\ auto'[j] = auto[j] /\ accepted'[j] = accepted[j] /\ output'[j] = output[j]
        /\ \A k \in Job \ {j} : Unmoved(k)
    BY <1>0, <1>3, LoopFinds, SameUnmoved DEF Known, LoopPut, Elsewhere
  <2>2. ASSUME at[l] \in {"claim", "pages", "progress", "findings", "release"} \/ at'[l] = "render" PROVE Unmoved(j)
    <3>1. /\ status[j] \in {"queued_detection", "detecting", "queued_redaction", "redacting"}
          /\ status'[j] \in {"queued_detection", "detecting", "queued_redaction", "redacting"}
      BY <2>1, <2>2 DEF Advances
    <3>2. PhaseOf(status[j]) = "working" /\ PhaseOf(status'[j]) = "working"
      BY <3>1, PhasesOf
    <3> QED
      BY <2>1, <3>1, <3>2 DEF Unmoved, Result
  <2>3. ASSUME at[l] \in {"review", "failed", "complete"} \/ (at[l] = "handoff" /\ at'[l] # "render") PROVE Moved(j)
    <3>1. at[l] = "complete" => output[j] = accepted[j] /\ (auto[j] \/ accepted[j] > 0)
      BY <1>0, <1>3, <2>1 DEF Advances, LoopDelivers, RowFiles, Waits
    <3>2. at[l] = "review" => ~auto[j]
      BY <1>0, <1>3 DEF LoopFiles
    <3>3. at[l] = "handoff" /\ at'[l] # "render" => ~auto[j]
      <4>1. at[l] = "handoff" /\ at'[l] # "render" => ~letter[l].auto /\ status[j] \in Early
        BY <2>1 DEF Advances, Early
      <4> QED
        BY <1>0, <1>3, <4>1 DEF LoopFiles, DetectStep
    <3> QED
      BY <2>1, <2>3, <3>1, <3>2, <3>3 DEF Advances, Moved, InFlight
  <2> QED
    BY <2>1, <2>2, <2>3 DEF Advances, OneMoves
<1> QED
  BY <1>1, <1>2, <1>3, LoopSteps DEF Known, LoopDoes

LEMMA NextMoves ==
  ASSUME Known, TypeInv', [Next]_vars
  PROVE  OneMoves \/ \A j \in Job : Unmoved(j)
<1>1. ASSUME SqsNext \/ Tick \/ UNCHANGED vars PROVE \A j \in Job : Unmoved(j)
  BY <1>1 DEF SqsNext, Tick, vars, tableVars, fileVars, callVars, Unmoved, Result
<1> QED
  BY <1>1, CallMoves, LoopMoves DEF Next

LEMMA ContractNext ==
  ASSUME TypeInv, TypeInv', NEW j \in Job, Moved(j), \A i \in Job \ {j} : Unmoved(i)
  PROVE  Contract!Next
<1> DEFINE P == [i \in Job |-> PhaseOf(status[i])]
           R == [i \in Job |-> IF status[i] = "complete" THEN output[i] ELSE None]
<1>t. /\ auto \in [Job -> BOOLEAN] /\ auto' \in [Job -> BOOLEAN]
      /\ accepted \in [Job -> Review] /\ accepted' \in [Job -> Review]
      /\ status[j] \in JobStatus \cup {"none"}
  BY DEF TypeInv, RowTypeOK, CallTypeOK
<1>0. /\ P' = [P EXCEPT ![j] = PhaseOf(status'[j])] /\ P[j] = PhaseOf(status[j])
      /\ auto' = [auto EXCEPT ![j] = auto'[j]]
      /\ accepted' = [accepted EXCEPT ![j] = accepted'[j]]
      /\ R' = [R EXCEPT ![j] = Result(j)'] /\ R[j] = Result(j)
      /\ auto'[j] \in BOOLEAN /\ accepted'[j] \in Review
  <2>1. P' = [P EXCEPT ![j] = PhaseOf(status'[j])] /\ P[j] = PhaseOf(status[j])
    BY DEF Unmoved
  <2>2. R' = [R EXCEPT ![j] = Result(j)'] /\ R[j] = Result(j)
    BY DEF Unmoved, Result
  <2>3. auto' = [auto EXCEPT ![j] = auto'[j]] /\ accepted' = [accepted EXCEPT ![j] = accepted'[j]]
    BY <1>t DEF Unmoved
  <2> QED
    BY <1>t, <2>1, <2>2, <2>3
<1>1. /\ auto = [auto EXCEPT ![j] = auto[j]]
      /\ accepted = [accepted EXCEPT ![j] = accepted[j]]
      /\ R = [R EXCEPT ![j] = R[j]]
  BY <1>t
<1> HIDE DEF P, R
<1>2. /\ auto'[j] = auto[j] => auto' = auto
      /\ accepted'[j] = accepted[j] => accepted' = accepted
      /\ Result(j)' = Result(j) => R' = R
  BY <1>0, <1>1
<1>3. ASSUME status[j] = "none", status'[j] = "awaiting_upload", accepted'[j] = accepted[j]
      PROVE  Contract!Begin(j)
  <2>1. P[j] = "absent" /\ PhaseOf(status'[j]) = "open" /\ Result(j)' = Result(j)
    BY <1>0, <1>3, PhasesOf DEF Result
  <2> QED
    BY <1>0, <1>2, <1>3, <2>1 DEF Contract!Begin, Contract!Moves, P, R
<1>4. ASSUME status[j] = "awaiting_upload", status'[j] = "queued_detection",
             auto'[j] = auto[j], accepted'[j] = accepted[j]
      PROVE  Contract!Accept(j)
  <2>1. P[j] = "open" /\ PhaseOf(status'[j]) = "working" /\ Result(j)' = Result(j)
    BY <1>0, <1>4, PhasesOf DEF Result
  <2> QED
    BY <1>0, <1>2, <1>4, <2>1 DEF Contract!Accept, Contract!Moves, P, R
<1>5. ASSUME status[j] \in InFlight \cup {"awaiting_upload"}, status'[j] = "failed",
             auto'[j] = auto[j], accepted'[j] = accepted[j]
      PROVE  Contract!Fail(j)
  <2>1. P[j] \in {"open", "working"} /\ PhaseOf(status'[j]) = "failed" /\ Result(j)' = Result(j)
    BY <1>0, <1>5, PhasesOf DEF Result, InFlight
  <2> QED
    BY <1>0, <1>2, <1>5, <2>1 DEF Contract!Fail, Contract!Moves, P, R
<1>6. ASSUME status[j] \in InFlight, status'[j] = "review_required", ~auto[j],
             auto'[j] = auto[j], accepted'[j] = accepted[j]
      PROVE  Contract!Ask(j)
  <2>1. P[j] = "working" /\ PhaseOf(status'[j]) = "review" /\ Result(j)' = Result(j)
    BY <1>0, <1>6, PhasesOf DEF Result, InFlight
  <2> QED
    BY <1>0, <1>2, <1>6, <2>1 DEF Contract!Ask, Contract!Moves, P, R
<1>7. ASSUME status[j] \in Reviewable, status'[j] = "queued_redaction", ~auto'[j], accepted'[j] > accepted[j]
      PROVE  Contract!Approve(j)
  <2>1. P[j] \in {"review", "complete"} /\ PhaseOf(status'[j]) = "working" /\ Result(j)' = None
    BY <1>0, <1>7, PhasesOf DEF Result, Reviewable
  <2>2. auto' = [auto EXCEPT ![j] = FALSE]
    BY <1>0, <1>7
  <2> QED
    BY <1>0, <1>7, <2>1, <2>2 DEF Contract!Approve, Contract!Moves, P, R
<1>8. ASSUME status[j] \in InFlight, status'[j] = "complete", auto[j] \/ accepted[j] > 0,
             output'[j] = accepted[j], auto'[j] = auto[j], accepted'[j] = accepted[j]
      PROVE  Contract!Deliver(j)
  <2>1. P[j] = "working" /\ PhaseOf(status'[j]) = "complete" /\ Result(j)' = accepted[j]
    BY <1>0, <1>8, PhasesOf DEF Result, InFlight
  <2> QED
    BY <1>0, <1>2, <1>8, <2>1 DEF Contract!Deliver, Contract!Moves, P, R
<1>9. ASSUME status[j] \notin {"none", "deleted"}, status'[j] = "deleted",
             auto'[j] = auto[j], accepted'[j] = accepted[j]
      PROVE  Contract!Erase(j)
  <2>1. P[j] \in {"open", "working", "review", "complete", "failed"}
    BY <1>0, <1>9, <1>t, PhasesOf DEF JobStatus, Queued, InFlight
  <2>2. PhaseOf(status'[j]) = "erased" /\ Result(j)' = None
    BY <1>9, PhasesOf DEF Result
  <2> QED
    BY <1>0, <1>2, <1>9, <2>1, <2>2 DEF Contract!Erase, Contract!Moves, P, R
<1> QED
  BY <1>3, <1>4, <1>5, <1>6, <1>7, <1>8, <1>9 DEF Contract!Next, Moved

\* Over table, bucket and queue every step of the service is a step of the
\* contract or none: for any jobs, calls, loops, faults and settings, while the
\* reviews of a job come one at a time, until a message is in doubt.
THEOREM AwsKeepsContract == Spec /\ []OneReviewAtATime => KeepsContract
<1>1. Init => Contract!Init
  BY PhasesOf DEF Init, TableInit, CloudServiceInit, Contract!Init
<1>2. /\ TypeInv /\ TypeInv' /\ MessageInv /\ ControlInv /\ ReviewInv /\ HoldInv /\ WorkInv /\ [Next]_vars
      => [InDoubt' \/ Contract!Next]_(Contract!contractVars)
  <2> SUFFICES ASSUME TypeInv, TypeInv', MessageInv, ControlInv, ReviewInv, HoldInv, WorkInv, [Next]_vars, ~InDoubt'
               PROVE  Contract!Next \/ UNCHANGED Contract!contractVars
    OBVIOUS
  <2>1. OneMoves \/ \A j \in Job : Unmoved(j)
    BY KnownBefore, NextMoves
  <2>2. ASSUME \A j \in Job : Unmoved(j) PROVE UNCHANGED Contract!contractVars
    <3>1. UNCHANGED auto /\ UNCHANGED accepted
      BY <2>2 DEF Unmoved, TypeInv, RowTypeOK, CallTypeOK
    <3> QED
      BY <2>2, <3>1 DEF Unmoved, Result, Contract!contractVars
  <2> QED
    BY <2>1, <2>2, ContractNext DEF OneMoves
<1> QED
  BY <1>1, <1>2, TypesKept, MessagesKept, ControlKept, ReviewsKept, HoldKept, WorkKept, PTL DEF Spec, KeepsContract

-----------------------------------------------------------------------------
(* One editor.  Reviews overlap only where two callers make them.          *)

\* One caller at most reviews.
OneEditor == \A c, d \in Client : c # d => ~("finalize" \in Calls[c] /\ "finalize" \in Calls[d])

ReviewersReview == \A c \in Client : Reviewing(c) => "finalize" \in Calls[c]

LEMMA ReviewsBegin ==
  ASSUME TypeInv, NEW c \in Client, ClientNext(c), at[c] = "idle", at'[c] = "write"
  PROVE  "finalize" \in Calls[c]
<1>0. c \in Proc /\ at \in [Proc -> Step]
  BY DEF TypeInv, ProcTypeOK
<1>1. CallStarts(c)
  BY <1>0 DEF ClientNext, CallContinues, FinalizeWrites, CallReads, CallPuts, CallLoses, Sends, SendFails,
     DeletePurges, DeleteAnswersNotFound, CallDies, CallUpdating
<1> QED
  BY <1>0, <1>1 DEF CallStarts, CreateJob, Submit, Finalize, Delete, Begins, processVars

LEMMA OneEditorReviewsOneAtATime ==
  ASSUME OneEditor
  PROVE  Spec => []OneReviewAtATime
<1>1. Init => ReviewersReview
  BY DEF Init, TableInit, ReviewersReview, Reviewing
<1>2. TypeInv /\ ControlInv /\ ReviewersReview /\ [Next]_vars => ReviewersReview'
  <2> SUFFICES ASSUME TypeInv, ControlInv, ReviewersReview, [Next]_vars PROVE ReviewersReview'
    OBVIOUS
  <2>1. ASSUME NEW d \in Client, ClientNext(d), NEW c \in Client, Reviewing(c)', c # d PROVE Reviewing(c)
    BY <2>1, CallSteps DEF CallSame, PlaceSame, Reviewing
  <2>2. ASSUME NEW c \in Client, ClientNext(c), Reviewing(c)' PROVE Reviewing(c) \/ "finalize" \in Calls[c]
    <3>1. CallKnows(c)
      BY DEF ControlInv
    <3>2. ASSUME NEW j \in Job, Creates(c, j) \/ StartsSubmit(c, j) \/ StartsReview(c, j) \/ StartsDelete(c, j)
          PROVE  Reviewing(c) \/ "finalize" \in Calls[c]
      BY <2>2, <3>2, ReviewsBegin
      DEF Creates, CallSame, PlaceSame, StartsSubmit, StartsReview, StartsDelete, Starts, Reviewing
    <3>3. ASSUME NEW j, CallDoes(c, j) PROVE Reviewing(c)
      BY <2>2, <3>1, <3>3
      DEF CallDoes, WritesReview, PutsSubmitted, PutsRejected, PutsReviewed, PutsBack, PutsDeleted, CallPut,
          PurgesFiles, MovesTo, Reviewing, CallKnows
    <3>4. ASSUME CallGoesOn(c) PROVE Reviewing(c)
      BY <2>2, <3>4 DEF CallGoesOn, PlaceSame, MovesTo, Reviewing
    <3> QED
      BY <2>2, <3>2, <3>3, <3>4, CallSteps
  <2>3. ASSUME NEW l \in Loop, LoopNext(l), NEW c \in Client, Reviewing(c)' PROVE Reviewing(c)
    BY <2>3, LoopSteps DEF CallSame, PlaceSame, Reviewing
  <2>4. ASSUME SqsNext \/ Tick \/ UNCHANGED vars, NEW c \in Client, Reviewing(c)' PROVE Reviewing(c)
    BY <2>4 DEF SqsNext, Tick, vars, processVars, callVars, Reviewing
  <2> QED
    BY <2>1, <2>2, <2>3, <2>4 DEF Next, ReviewersReview
<1>3. ReviewersReview => OneReviewAtATime
  BY DEF ReviewersReview, OneReviewAtATime, OneEditor
<1> QED
  BY <1>1, <1>2, <1>3, TypesKept, ControlKept, PTL DEF Spec

\* With one caller to review, and any number that create, submit and delete, the
\* deployment implements the contract and delivers the last accepted review,
\* whatever fails, until a message is in doubt.
THEOREM AwsServesOneEditor ==
  ASSUME OneEditor
  PROVE  Spec => KeepsContract /\ []AcceptedReviewDelivered
BY OneEditorReviewsOneAtATime, AwsKeepsContract, AwsDeliversAcceptedReviews, PTL
=============================================================================
