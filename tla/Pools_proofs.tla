---------------------------- MODULE Pools_proofs ----------------------------
(***************************************************************************)
(* The two pools of threads of the service.                                *)
(*                                                                         *)
(* Detection is safe for any number of pages and threads, any texts and    *)
(* whatever the model answers: the failure raised is that of the first     *)
(* page that failed, nothing is left at work, and the boxes are complete.  *)
(*                                                                         *)
(* The checkpoint and the completion marker of an evaluation tell the      *)
(* truth, for any documents, configurations, threads and number of starts. *)
(***************************************************************************)
EXTENDS DetectDocument, EvaluationRun, FiniteSetTheorems, TLAPS

-----------------------------------------------------------------------------
(* Detection over the pages of a document.                                 *)

USE DetectAssumption

\* The document as it came.
DocumentOK ==
  /\ text \in [Index -> [{"pdf", "ocr"} -> SUBSET Value]]
  /\ shaped \in [Index -> BOOLEAN]

\* The pages that were collected are done, and the one after them is raised for.
InPageOrder ==
  /\ \A p \in 1 .. collected : stage[p] = "done"
  /\ \A p \in Index : stage[p] = "failed" => failure[p] \in Failures
  /\ raising # 0 => /\ raising = collected + 1 /\ stage[raising] = "failed"
                    /\ \A p \in Index : stage[p] # "waiting"

\* Once there is a result no page is open any more, so that nothing can happen.
Over ==
  /\ result # "none" =>
       \A p \in Index : stage[p] \notin {"waiting", "asking", "rereading", "reasking"}
  /\ result \in Failures => raising # 0 /\ result = failure[raising]
  /\ result \in {"detections", "detection_unanchored"} => collected = PageCount
  /\ result = "detections" =>
       boxed = [p \in Index |-> Boxes(p)] /\ \A p \in Index : ~ Uncovered(p)

DetectInv == DetectTypeOK /\ DocumentOK /\ InPageOrder /\ Over

Done == {p \in Index : stage[p] = "done"}

LEMMA DoneFinite == IsFiniteSet(Done) /\ Cardinality(Done) \in Nat
<1>1. IsFiniteSet(Index)
  BY FS_Interval DEF Index
<1> QED BY <1>1, FS_Subset, FS_CardinalityType DEF Done

\* One more page is done.
LEMMA DoneGrows ==
  ASSUME DetectTypeOK, NEW p \in Index, stage[p] # "done",
         stage' = [stage EXCEPT ![p] = "done"]
  PROVE  progress + 1 = Cardinality({q \in Index : stage'[q] = "done"})
<1>1. {q \in Index : stage'[q] = "done"} = Done \cup {p}
  BY DEF Done, DetectTypeOK
<1>2. p \notin Done
  BY DEF Done
<1>3. progress = Cardinality(Done)
  BY DEF DetectTypeOK, Done
<1> QED BY <1>1, <1>2, <1>3, DoneFinite, FS_AddElement

\* A page moves without being done before or after.
LEMMA DoneStays ==
  ASSUME DetectTypeOK, stage' \in [Index -> Stages],
         \A q \in Index : stage'[q] = "done" <=> stage[q] = "done"
  PROVE  progress = Cardinality({q \in Index : stage'[q] = "done"})
<1>1. {q \in Index : stage'[q] = "done"} = {q \in Index : stage[q] = "done"}
  OBVIOUS
<1> QED BY <1>1 DEF DetectTypeOK

LEMMA InitDetect == DetectInit => DetectInv
<1> SUFFICES ASSUME DetectInit PROVE DetectInv
  OBVIOUS
<1>1. {p \in Index : stage[p] = "done"} = {}
  BY DEF DetectInit
<1>2. progress = Cardinality({p \in Index : stage[p] = "done"})
  BY <1>1, FS_EmptySet DEF DetectInit
<1>3. words \in [Index -> {"none", "pdf", "ocr"}]
  BY DEF DetectInit
<1>4. DetectTypeOK
  BY <1>2, <1>3 DEF DetectInit, DetectTypeOK, Stages, Results
<1>5. DocumentOK
  <2>1. shaped \in [Index -> IF NetVaries THEN BOOLEAN ELSE {FALSE}]
    BY DEF DetectInit
  <2>2. shaped \in [Index -> BOOLEAN]
    BY <2>1, Zenon
  <2> QED BY <2>2 DEF DetectInit, DocumentOK
<1>6. InPageOrder /\ Over
  BY DEF DetectInit, InPageOrder, Over, Failures, Index
<1> QED BY <1>4, <1>5, <1>6 DEF DetectInv

-----------------------------------------------------------------------------

\* A thread that was taken, answered or failed had an open page: there is no
\* result yet, and its page was not collected.
LEMMA OpenPage ==
  ASSUME DetectInv, NEW p \in Index,
         stage[p] \in {"waiting", "asking", "rereading", "reasking"}
  PROVE  /\ result = "none" /\ p > collected /\ p # raising
         /\ stage[p] = "waiting" => raising = 0
BY DEF DetectInv, DetectTypeOK, InPageOrder, Over, Index

\* What such a step leaves of the invariant: only the stage of its page.
LEMMA PageMoves ==
  ASSUME DetectInv, NEW p \in Index, NEW s \in Stages \ {"waiting"},
         stage[p] \in {"waiting", "asking", "rereading", "reasking"},
         stage' = [stage EXCEPT ![p] = s],
         failure' \in [Index -> Failures \cup {"none"}],
         s = "failed" => failure'[p] \in Failures,
         \A q \in Index \ {p} : failure'[q] = failure[q],
         UNCHANGED <<text, shaped, collected, raising, result>>
  PROVE  DocumentOK' /\ InPageOrder' /\ Over'
<1>1. result = "none" /\ p > collected /\ p # raising
  BY OpenPage
<1>2. DocumentOK'
  BY DEF DetectInv, DocumentOK
<1>3. InPageOrder'
  BY <1>1 DEF DetectInv, DetectTypeOK, InPageOrder, Index, Stages
<1>4. Over'
  BY <1>1 DEF Over, Failures
<1> QED BY <1>2, <1>3, <1>4

LEMMA TakeKept ==
  ASSUME DetectInv, NEW p \in Index, TakePage(p)
  PROVE  DetectInv'
<1>1. CASE words[p] = "none"
  <2>1. stage' = [stage EXCEPT ![p] = "done"] /\ progress' = progress + 1
    BY <1>1 DEF TakePage
  <2>2. DetectTypeOK'
    BY <2>1, DoneGrows DEF DetectInv, DetectTypeOK, TakePage, MayTake, Stages
  <2> QED BY <2>1, <2>2, PageMoves DEF DetectInv, DetectTypeOK, TakePage, MayTake, Stages
<1>2. CASE words[p] # "none"
  <2>1. stage' = [stage EXCEPT ![p] = "asking"] /\ progress' = progress
    BY <1>2 DEF TakePage
  <2>2. DetectTypeOK'
    BY <2>1, DoneStays DEF DetectInv, DetectTypeOK, TakePage, MayTake, Stages
  <2> QED BY <2>1, <2>2, PageMoves DEF DetectInv, DetectTypeOK, TakePage, MayTake, Stages
<1> QED BY <1>1, <1>2

LEMMA AnswerKept ==
  ASSUME DetectInv, NEW p \in Index, NEW named \in SUBSET Value, Answer(p, named)
  PROVE  DetectInv'
<1>1. CASE stage[p] = "asking" /\ Doubtful(p, named)
  <2>1. stage' = [stage EXCEPT ![p] = "rereading"] /\ progress' = progress
    BY <1>1 DEF Answer
  <2>2. DetectTypeOK'
    BY <2>1, DoneStays DEF DetectInv, DetectTypeOK, Answer, Stages
  <2> QED BY <2>1, <2>2, PageMoves DEF DetectInv, DetectTypeOK, Answer, Stages
<1>2. CASE ~ (stage[p] = "asking" /\ Doubtful(p, named))
  <2>1. stage' = [stage EXCEPT ![p] = "done"] /\ progress' = progress + 1
    BY <1>2 DEF Answer
  <2>2. DetectTypeOK'
    BY <2>1, DoneGrows DEF DetectInv, DetectTypeOK, Answer, Stages
  <2> QED BY <2>1, <2>2, PageMoves DEF DetectInv, DetectTypeOK, Answer, Stages
<1> QED BY <1>1, <1>2

LEMMA RereadKept ==
  ASSUME DetectInv, NEW p \in Index, Reread(p)
  PROVE  DetectInv'
<1>1. DetectTypeOK'
  BY DoneStays DEF DetectInv, DetectTypeOK, Reread, Stages
<1> QED BY <1>1, PageMoves DEF DetectInv, DetectTypeOK, Reread, Stages

LEMMA FailKept ==
  ASSUME DetectInv, NEW p \in Index, NEW kind \in Failures, FailPage(p, kind)
  PROVE  DetectInv'
<1>1. stage[p] \in {"waiting", "asking", "rereading", "reasking"}
  BY DEF FailPage, MayTake
<1>2. DetectTypeOK'
  BY <1>1, DoneStays DEF DetectInv, DetectTypeOK, FailPage, Stages
<1>3. /\ stage' = [stage EXCEPT ![p] = "failed"] /\ failure' = [failure EXCEPT ![p] = kind]
      /\ UNCHANGED <<text, shaped, collected, raising, result>>
  BY DEF FailPage
<1>4. /\ failure' \in [Index -> Failures \cup {"none"}] /\ failure'[p] \in Failures
      /\ \A q \in Index \ {p} : failure'[q] = failure[q]
  BY <1>3 DEF DetectInv, DetectTypeOK
<1> QED BY <1>1, <1>2, <1>3, <1>4, PageMoves DEF DetectInv, Stages

LEMMA CollectKept ==
  ASSUME DetectInv, NEW p \in Index, Collect(p)
  PROVE  DetectInv'
<1> USE DEF DetectInv
<1>1. result = "none"
  BY DEF Collect, InPageOrder, Over, DetectTypeOK, Results, Index
<1>2. DocumentOK'
  BY DEF Collect, DocumentOK
<1>3. Over'
  BY <1>1 DEF Collect, Over, Failures
<1>4. CASE stage[p] = "done"
  <2>1. UNCHANGED <<stage, raising>> /\ collected' = p
    BY <1>4 DEF Collect
  <2>2. DetectTypeOK'
    BY <2>1 DEF Collect, DetectTypeOK, Index
  <2>3. InPageOrder'
    BY <1>4, <2>1 DEF Collect, InPageOrder, DetectTypeOK, Index
  <2> QED BY <1>2, <1>3, <2>2, <2>3
<1>5. CASE stage[p] = "failed"
  <2>1. /\ stage' = [q \in Index |-> IF stage[q] = "waiting" THEN "cancelled" ELSE stage[q]]
        /\ raising' = p /\ UNCHANGED collected
    BY <1>5 DEF Collect
  <2>2. stage' \in [Index -> Stages] /\ \A q \in Index : stage'[q] = "done" <=> stage[q] = "done"
    BY <2>1 DEF DetectTypeOK, Stages
  <2>3. DetectTypeOK'
    BY <2>1, <2>2, DoneStays DEF Collect, DetectTypeOK, Index
  <2>4. InPageOrder'
    BY <1>5, <2>1 DEF Collect, InPageOrder, DetectTypeOK, Index
  <2> QED BY <1>2, <1>3, <2>3, <2>4
<1> QED BY <1>4, <1>5 DEF Collect

LEMMA RaiseKept ==
  ASSUME DetectInv, Raise
  PROVE  DetectInv'
<1> USE DEF DetectInv
<1>1. failure[raising] \in Failures
  BY DEF Raise, InPageOrder, DetectTypeOK, Index
<1>2. DetectTypeOK'
  BY <1>1 DEF Raise, DetectTypeOK, Results
<1>3. DocumentOK' /\ InPageOrder'
  BY DEF Raise, DocumentOK, InPageOrder
<1>4. Over'
  BY <1>1 DEF Raise, Over, InPageOrder, AtWork, Failures
<1> QED BY <1>2, <1>3, <1>4

LEMMA BoxesTyped ==
  ASSUME DetectInv, NEW p \in Index
  PROVE  Boxes(p) \subseteq Value \cup {"net"}
<1>1. Located(p) \subseteq Value
  BY DEF DetectInv, DetectTypeOK, DocumentOK, Located
<1> QED BY <1>1 DEF Boxes

LEMMA AssembleKept ==
  ASSUME DetectInv, Assemble
  PROVE  DetectInv'
<1> USE DEF DetectInv
<1>1. \A p \in Index : stage[p] = "done"
  BY DEF Assemble, InPageOrder, Index
<1>2. DocumentOK' /\ InPageOrder'
  BY DEF Assemble, DocumentOK, InPageOrder
<1>3. \A p \in Index : Boxes(p)' = Boxes(p) /\ (Uncovered(p)' <=> Uncovered(p))
  BY DEF Assemble, Boxes, Uncovered, DocValues, Located
<1>4. CASE \E p \in Index : Uncovered(p)
  <2>1. result' = "detection_unanchored" /\ boxed' = boxed
    BY <1>4 DEF Assemble
  <2>2. DetectTypeOK'
    BY <2>1 DEF Assemble, DetectTypeOK, Results
  <2>3. Over'
    BY <1>1, <2>1 DEF Assemble, Over, Failures
  <2> QED BY <1>2, <2>2, <2>3
<1>5. CASE ~ \E p \in Index : Uncovered(p)
  <2>1. result' = "detections" /\ boxed' = [p \in Index |-> Boxes(p)]
    BY <1>5 DEF Assemble
  <2>2. DetectTypeOK'
    BY <2>1, BoxesTyped DEF Assemble, DetectTypeOK, Results
  <2>3. Over'
    BY <1>1, <1>3, <1>5, <2>1 DEF Assemble, Over, Failures
  <2> QED BY <1>2, <2>2, <2>3
<1> QED BY <1>4, <1>5

LEMMA DetectKept == DetectInv /\ [DetectNext]_detectVars => DetectInv'
<1> SUFFICES ASSUME DetectInv, [DetectNext]_detectVars PROVE DetectInv'
  OBVIOUS
<1>1. CASE UNCHANGED detectVars
  BY <1>1 DEF detectVars, DetectInv, DetectTypeOK, DocumentOK, InPageOrder, Over,
              Boxes, Uncovered, DocValues, Located
<1> QED
  BY <1>1, RaiseKept, AssembleKept, TakeKept, RereadKept, CollectKept, AnswerKept, FailKept
  DEF DetectNext

-----------------------------------------------------------------------------

\* However its threads are scheduled and whatever the model answers,
\* detect_document fails for its first failing page only, leaves no thread at
\* work, and returns all the boxes it owes.
THEOREM DetectionSafe == DetectSpec => []DetectSafe
<1>1. DetectInv => DetectSafe
  <2> SUFFICES ASSUME DetectInv PROVE DetectSafe
    OBVIOUS
  <2> USE DEF DetectInv
  <2>1. FirstFailureCounts
    BY DEF FirstFailureCounts, InPageOrder, Over, DetectTypeOK, Index
  <2>2. NothingLeftRunning
    BY DEF NothingLeftRunning, Over, AtWork
  <2>3. NamedOnceBoxedEverywhere
    BY DEF NamedOnceBoxedEverywhere, Over, Boxes, DocValues
  <2>4. NetAlwaysCast
    BY DEF NetAlwaysCast, Over, Boxes
  <2>5. UnlocatedTinIsNearABox
    BY DEF UnlocatedTinIsNearABox, Over, Uncovered
  <2> QED BY <2>1, <2>2, <2>3, <2>4, <2>5 DEF DetectSafe
<1> QED BY <1>1, InitDetect, DetectKept, PTL DEF DetectSpec

-----------------------------------------------------------------------------
(* Evaluation over the documents of a split.                               *)

HIDE DetectAssumption
USE EvaluationAssumption, NoneAssumption

\* The files of a document are in the bucket, from configuration c.
Filed(d, c, o) ==
  /\ stored[d].result = [by |-> c, outcome |-> o]
  /\ o = "redacted" => stored[d].pdf = c

\* A task that does not run remembers nothing; one that runs has one
\* configuration, which is that of the checkpoint.
Sober ==
  /\ ~ task.running => \A d \in Doc : step[d] = "todo" /\ listed[d] = None /\ results[d] = None
  /\ task.running => /\ task.config \in Config
                     /\ checkpoint # None => checkpoint.by = task.config

\* What a thread has uploaded by the step it is at.
StepsFiled == \A d \in Doc :
  /\ step[d] \in {"judged", "pdf", "result", "checkpoint"} => outcome[d] # None
  /\ step[d] = "result" /\ outcome[d] = "redacted" => stored[d].pdf = task.config
  /\ step[d] = "checkpoint" => Filed(d, task.config, outcome[d])

\* The two lists of the task against the bucket and the checkpoint: no document
\* that is listed is worked on any more.
ListsTrue == \A d \in Doc :
  /\ listed[d] # None => step[d] \in {"done", "dropped"} /\ Filed(d, task.config, listed[d])
  /\ results[d] # None => checkpoint # None /\ checkpoint.results[d] = results[d]
  /\ task.running /\ checkpoint # None /\ checkpoint.results[d] # None
       => listed[d] = checkpoint.results[d]

\* With the completion marker the checkpoint has every document.
CompletionTrue ==
  completion # None =>
    /\ checkpoint # None /\ \A d \in Doc : checkpoint.results[d] # None
    /\ completion.failures = Cardinality({d \in Doc : checkpoint.results[d] = "error"})

EvaluationInv ==
  /\ EvaluationTypeOK /\ CheckpointStored
  /\ Sober /\ StepsFiled /\ ListsTrue /\ CompletionTrue

LEMMA FailuresCounted == \A f \in Notes :
  Cardinality({d \in Doc : f[d] = "error"}) \in 0 .. Cardinality(Doc)
<1> SUFFICES ASSUME NEW f \in Notes
             PROVE  Cardinality({d \in Doc : f[d] = "error"}) \in 0 .. Cardinality(Doc)
  OBVIOUS
<1> DEFINE failed == {d \in Doc : f[d] = "error"}
<1>1. failed \subseteq Doc
  OBVIOUS
<1>2. IsFiniteSet(failed) /\ Cardinality(failed) <= Cardinality(Doc)
  BY <1>1, FS_Subset
<1> QED BY <1>2, FS_CardinalityType

LEMMA InitEvaluation == EvaluationInit => EvaluationInv
<1> SUFFICES ASSUME EvaluationInit PROVE EvaluationInv
  OBVIOUS
<1>1. NoOutput \in Output /\ NoNotes \in Notes
  BY DEF NoOutput, NoNotes, Output, Notes
<1>2. task \in [running : BOOLEAN, config : Config \cup {None}, starts : 0 .. MaxStarts]
  BY DEF EvaluationInit
<1>3. EvaluationTypeOK
  BY <1>1, <1>2 DEF EvaluationInit, EvaluationTypeOK, Step
<1> QED
  BY <1>3 DEF EvaluationInit, EvaluationInv, CheckpointStored, Sober, StepsFiled, ListsTrue,
              CompletionTrue, NoNotes

-----------------------------------------------------------------------------
(* The steps of a task that leave bucket and lists alone.                  *)

\* A thread goes on without a word to anyone.
LEMMA Onward ==
  ASSUME EvaluationInv, NEW d \in Doc, task.running, listed[d] = None,
         EvaluationTypeOK', UNCHANGED <<remote, task, listed, results>>,
         \A e \in Doc \ {d} : step'[e] = step[e] /\ outcome'[e] = outcome[e],
         step'[d] \in {"judged", "pdf", "result", "checkpoint"} => outcome'[d] # None,
         step'[d] = "result" => outcome'[d] # "redacted",
         step'[d] # "checkpoint"
  PROVE  EvaluationInv'
BY DEF remote, EvaluationInv, CheckpointStored, Sober, StepsFiled, ListsTrue, CompletionTrue, Filed

\* A document whose thread is at work is not listed, and its task runs.
LEMMA AtWorkUnlisted ==
  ASSUME EvaluationInv, NEW d \in Doc, step[d] \notin {"done", "dropped"}
  PROVE  /\ step[d] # "todo" => task.running
         /\ listed[d] = None
         /\ task.running /\ checkpoint # None => checkpoint.results[d] = None
BY DEF EvaluationInv, ListsTrue, Sober, EvaluationTypeOK, Checkpoint, Notes

LEMMA ThinkingKept ==
  ASSUME EvaluationInv, NEW d \in Doc,
         BeginDocument(d) \/ EvaluateEntry(d) \/ RunOutOfMemory(d) \/ TakeLock(d)
  PROVE  EvaluationInv'
<1>1. CASE BeginDocument(d)
  <2>1. EvaluationTypeOK'
    BY <1>1 DEF BeginDocument, Goes, remote, EvaluationInv, EvaluationTypeOK, Step
  <2> QED BY <1>1, <2>1, AtWorkUnlisted, Onward
          DEF BeginDocument, Goes, EvaluationInv, EvaluationTypeOK
<1>2. CASE EvaluateEntry(d)
  <2>1. PICK o \in Outcome : outcome' = [outcome EXCEPT ![d] = o]
    BY <1>2 DEF EvaluateEntry
  <2>2. EvaluationTypeOK'
    BY <1>2, <2>1 DEF EvaluateEntry, Goes, remote, EvaluationInv, EvaluationTypeOK, Step, Notes
  <2> QED BY <1>2, <2>1, <2>2, AtWorkUnlisted, Onward
          DEF EvaluateEntry, Goes, EvaluationInv, EvaluationTypeOK, Notes
<1>3. CASE RunOutOfMemory(d)
  <2>1. EvaluationTypeOK'
    BY <1>3 DEF RunOutOfMemory, Goes, Raised, remote, EvaluationInv, EvaluationTypeOK, Step
  <2> QED BY <1>3, <2>1, AtWorkUnlisted, Onward
          DEF RunOutOfMemory, Goes, EvaluationInv, EvaluationTypeOK
<1>4. CASE TakeLock(d)
  <2>1. EvaluationTypeOK'
    BY <1>4 DEF TakeLock, Goes, remote, EvaluationInv, EvaluationTypeOK, Step
  <2>2. outcome[d] # None
    BY <1>4 DEF TakeLock, EvaluationInv, StepsFiled
  <2> QED BY <1>4, <2>1, <2>2, AtWorkUnlisted, Onward
          DEF TakeLock, Goes, EvaluationInv, EvaluationTypeOK
<1> QED BY <1>1, <1>2, <1>3, <1>4

LEMMA UploadFailsKept ==
  ASSUME EvaluationInv, NEW d \in Doc, UploadFails(d)
  PROVE  EvaluationInv'
<1>1. EvaluationTypeOK'
  BY DEF UploadFails, Drop, Goes, Raised, remote, EvaluationInv, EvaluationTypeOK, Step
<1> QED BY <1>1, AtWorkUnlisted, Onward
        DEF UploadFails, Drop, Goes, EvaluationInv, EvaluationTypeOK

-----------------------------------------------------------------------------
(* The steps that write to the bucket or to the lists.                     *)

LEMMA UploadPdfKept ==
  ASSUME EvaluationInv, NEW d \in Doc, UploadPdf(d)
  PROVE  EvaluationInv'
<1> USE DEF EvaluationInv
<1>1. /\ task.running /\ listed[d] = None /\ task.config \in Config
      /\ checkpoint # None => checkpoint.results[d] = None
  BY AtWorkUnlisted DEF UploadPdf, Sober
<1>2. /\ \A e \in Doc \ {d} : stored'[e] = stored[e] /\ step'[e] = step[e]
      /\ stored'[d] = [stored[d] EXCEPT !.pdf = task.config] /\ step'[d] = "result"
      /\ stored[d] \in Output
      /\ UNCHANGED <<checkpoint, completion, task, outcome, listed, results>>
  BY DEF UploadPdf, Goes, EvaluationTypeOK
<1>3. stored'[d] \in Output /\ stored'[d].pdf = task.config
  BY <1>1, <1>2 DEF Output
<1>4. EvaluationTypeOK'
  BY <1>1, <1>3 DEF UploadPdf, Goes, EvaluationTypeOK, Step
<1>5. CheckpointStored' /\ CompletionTrue' /\ Sober'
  BY <1>1, <1>2 DEF CheckpointStored, CompletionTrue, Sober
<1>6. StepsFiled' /\ ListsTrue'
  BY <1>1, <1>2, <1>3 DEF UploadPdf, StepsFiled, ListsTrue, Filed
<1> QED BY <1>4, <1>5, <1>6

LEMMA UploadResultKept ==
  ASSUME EvaluationInv, NEW d \in Doc, UploadResult(d)
  PROVE  EvaluationInv'
<1> USE DEF EvaluationInv
<1> DEFINE new == [by |-> task.config, outcome |-> outcome[d]]
<1>1. /\ task.running /\ listed[d] = None /\ task.config \in Config
      /\ checkpoint # None => checkpoint.results[d] = None
  BY AtWorkUnlisted DEF UploadResult, Sober
<1>2. /\ \A e \in Doc \ {d} : stored'[e] = stored[e] /\ step'[e] = step[e]
      /\ stored'[d] = [stored[d] EXCEPT !.result = new] /\ step'[d] = "checkpoint"
      /\ stored[d] \in Output
      /\ UNCHANGED <<checkpoint, completion, task, outcome, listed, results>>
  BY DEF UploadResult, Goes, EvaluationTypeOK
<1>3. outcome[d] \in Outcome
  BY DEF UploadResult, StepsFiled, EvaluationTypeOK, Notes
<1>4. new \in Result
  BY <1>1, <1>3 DEF Result
<1>5. stored'[d] \in Output /\ stored'[d].result = new /\ stored'[d].pdf = stored[d].pdf
  BY <1>2, <1>4 DEF Output
<1>6. EvaluationTypeOK'
  BY <1>1, <1>5 DEF UploadResult, Goes, EvaluationTypeOK, Step
<1>7. CheckpointStored' /\ CompletionTrue' /\ Sober'
  BY <1>1, <1>2 DEF CheckpointStored, CompletionTrue, Sober
<1>8. StepsFiled' /\ ListsTrue'
  BY <1>1, <1>2, <1>3, <1>5 DEF UploadResult, StepsFiled, ListsTrue, Filed
<1> QED BY <1>6, <1>7, <1>8

\* What both ends of a checkpoint have in common: the document is listed.
LEMMA ListedNow ==
  ASSUME EvaluationInv, NEW d \in Doc, step[d] = "checkpoint",
         listed' = [listed EXCEPT ![d] = outcome[d]]
  PROVE  /\ task.running /\ task.config \in Config /\ outcome[d] \in Outcome
         /\ listed[d] = None /\ completion = None
         /\ listed' \in Notes /\ listed'[d] = outcome[d]
         /\ \A e \in Doc : e # d => listed'[e] = listed[e]
         /\ \A e \in Doc : listed'[e] # None => Filed(e, task.config, listed'[e])
<1> USE DEF EvaluationInv
<1>1. task.running /\ listed[d] = None /\ (checkpoint # None => checkpoint.results[d] = None)
  BY AtWorkUnlisted
<1>2. outcome[d] \in Outcome /\ Filed(d, task.config, outcome[d])
  BY DEF StepsFiled, EvaluationTypeOK, Notes
<1>3. completion = None
  BY <1>1 DEF CompletionTrue
<1>4. listed' \in Notes
  BY <1>2 DEF EvaluationTypeOK, Notes
<1>5. listed'[d] = outcome[d] /\ \A e \in Doc : e # d => listed'[e] = listed[e]
  BY DEF EvaluationTypeOK, Notes
<1>6. \A e \in Doc : listed[e] # None => Filed(e, task.config, listed[e])
  BY DEF ListsTrue
<1> QED BY <1>1, <1>2, <1>3, <1>4, <1>5, <1>6 DEF Sober

LEMMA WriteCheckpointKept ==
  ASSUME EvaluationInv, NEW d \in Doc, WriteCheckpoint(d)
  PROVE  EvaluationInv'
<1> USE DEF EvaluationInv
<1>1. /\ step[d] = "checkpoint" /\ listed' = [listed EXCEPT ![d] = outcome[d]]
      /\ checkpoint' = [by |-> task.config, results |-> listed']
      /\ results' = [results EXCEPT ![d] = outcome[d]]
      /\ step' = [step EXCEPT ![d] = "done"] /\ lock' = None
      /\ UNCHANGED <<staged, manifest, stored, completion, task, outcome, failing>>
  BY DEF WriteCheckpoint, Goes
<1>2. /\ task.running /\ task.config \in Config /\ outcome[d] \in Outcome
      /\ listed[d] = None /\ completion = None /\ listed' \in Notes /\ listed'[d] = outcome[d]
      /\ \A e \in Doc : e # d => listed'[e] = listed[e]
      /\ \A e \in Doc : listed'[e] # None => Filed(e, task.config, listed'[e])
  BY <1>1, ListedNow
<1>3. checkpoint' \in Checkpoint /\ checkpoint'.by = task.config /\ checkpoint'.results = listed'
  BY <1>1, <1>2 DEF Checkpoint
<1>4. results' \in Notes /\ results'[d] = outcome[d] /\ \A e \in Doc : e # d => results'[e] = results[e]
  BY <1>1, <1>2 DEF EvaluationTypeOK, Notes
<1>5. EvaluationTypeOK'
  BY <1>1, <1>2, <1>3, <1>4 DEF EvaluationTypeOK, Step
<1>6. CheckpointStored' /\ Sober' /\ CompletionTrue'
  BY <1>1, <1>2, <1>3 DEF CheckpointStored, Filed, Sober, CompletionTrue
<1>7. StepsFiled'
  BY <1>1 DEF StepsFiled, Filed, EvaluationTypeOK
<1>8. ListsTrue'
  <2> SUFFICES ASSUME NEW e \in Doc
               PROVE  /\ listed'[e] # None => /\ step'[e] \in {"done", "dropped"}
                                              /\ Filed(e, task.config, listed[e])'
                      /\ results'[e] # None => /\ checkpoint' # None
                                               /\ checkpoint'.results[e] = results'[e]
                      /\ checkpoint'.results[e] # None => listed'[e] = checkpoint'.results[e]
    BY <1>1 DEF ListsTrue
  <2>1. listed'[e] # None => step'[e] \in {"done", "dropped"} /\ Filed(e, task.config, listed[e])'
    BY <1>1, <1>2 DEF ListsTrue, Filed, EvaluationTypeOK
  <2>2. results'[e] # None => listed'[e] = results'[e]
    BY <1>2, <1>4 DEF ListsTrue
  <2> QED BY <2>1, <2>2, <1>3
<1> QED BY <1>5, <1>6, <1>7, <1>8

LEMMA CheckpointFailsKept ==
  ASSUME EvaluationInv, NEW d \in Doc, CheckpointFails(d)
  PROVE  EvaluationInv'
<1> USE DEF EvaluationInv
<1>1. /\ step[d] = "checkpoint" /\ listed' = [listed EXCEPT ![d] = outcome[d]]
      /\ step' = [step EXCEPT ![d] = "dropped"] /\ lock' = None /\ failing' = Raised
      /\ UNCHANGED <<staged, manifest, stored, checkpoint, completion, task, outcome, results>>
  BY DEF CheckpointFails, Drop, Goes, remote
<1>2. /\ task.running /\ task.config \in Config /\ outcome[d] \in Outcome
      /\ listed[d] = None /\ completion = None /\ listed' \in Notes /\ listed'[d] = outcome[d]
      /\ \A e \in Doc : e # d => listed'[e] = listed[e]
      /\ \A e \in Doc : listed'[e] # None => Filed(e, task.config, listed'[e])
  BY <1>1, ListedNow
<1>3. checkpoint # None => checkpoint.results[d] = None
  BY <1>1, <1>2, AtWorkUnlisted
<1>4. EvaluationTypeOK'
  BY <1>1, <1>2 DEF EvaluationTypeOK, Step, Raised
<1>5. CheckpointStored' /\ Sober' /\ CompletionTrue'
  BY <1>1, <1>2 DEF CheckpointStored, Sober, CompletionTrue
<1>6. StepsFiled'
  BY <1>1 DEF StepsFiled, Filed, EvaluationTypeOK
<1>7. ListsTrue'
  BY <1>1, <1>2, <1>3 DEF ListsTrue, Filed, EvaluationTypeOK
<1> QED BY <1>4, <1>5, <1>6, <1>7

-----------------------------------------------------------------------------
(* The task as a whole, and the operator.                                  *)

LEMMA StartKept ==
  ASSUME EvaluationInv, NEW c \in Config, StartTask(c)
  PROVE  EvaluationInv'
<1> USE DEF EvaluationInv
<1>1. /\ task' = [running |-> TRUE, config |-> c, starts |-> task.starts + 1]
      /\ listed' = LoadedResults /\ results' = LoadedResults
      /\ step' = [d \in Doc |-> IF d \in LeftToDo(LoadedResults) THEN "todo" ELSE "done"]
      /\ outcome' = NoNotes /\ lock' = None /\ failing' = "no"
      /\ UNCHANGED <<staged, manifest, stored, checkpoint, completion>>
      /\ task.starts < MaxStarts /\ CheckpointUsable(c)
  BY DEF StartTask, remote
<1>2. task.starts + 1 \in 0 .. MaxStarts
  BY <1>1 DEF EvaluationTypeOK
<1>3. LoadedResults \in Notes /\ (checkpoint # None => LoadedResults = checkpoint.results)
  BY DEF LoadedResults, EvaluationTypeOK, Checkpoint, Notes, NoNotes
<1>4. EvaluationTypeOK'
  BY <1>1, <1>2, <1>3 DEF EvaluationTypeOK, Step, NoNotes, Notes
<1>5. \A d \in Doc : LoadedResults[d] # None =>
        checkpoint # None /\ step'[d] = "done" /\ Filed(d, c, LoadedResults[d])
  BY <1>1, <1>3 DEF LoadedResults, NoNotes, LeftToDo, CheckpointStored, CheckpointUsable, Filed
<1>6. CheckpointStored' /\ Sober' /\ CompletionTrue'
  BY <1>1 DEF CheckpointStored, Sober, CompletionTrue, CheckpointUsable
<1>7. StepsFiled'
  BY <1>1 DEF StepsFiled
<1>8. ListsTrue'
  BY <1>1, <1>3, <1>5 DEF ListsTrue, Filed
<1> QED BY <1>4, <1>6, <1>7, <1>8

\* A task that stops leaves the bucket to the next one.
LEMMA StopKept ==
  ASSUME EvaluationInv, TaskStops, UNCHANGED <<staged, manifest, stored, checkpoint>>,
         completion' \in [failures : 0 .. Cardinality(Doc)] \cup {None},
         CompletionTrue'
  PROVE  EvaluationInv'
<1> USE DEF EvaluationInv, TaskStops, Forgets
<1>1. task' \in [running : BOOLEAN, config : Config \cup {None}, starts : 0 .. MaxStarts] /\ ~ task'.running
  BY DEF EvaluationTypeOK
<1>2. EvaluationTypeOK'
  BY <1>1 DEF EvaluationTypeOK, Step, NoNotes, Notes
<1>3. Sober' /\ StepsFiled' /\ ListsTrue'
  BY <1>1 DEF Sober, StepsFiled, ListsTrue, NoNotes
<1>4. CheckpointStored'
  BY DEF CheckpointStored
<1> QED BY <1>2, <1>3, <1>4

LEMMA CompleteKept ==
  ASSUME EvaluationInv, Complete
  PROVE  EvaluationInv'
<1> USE DEF EvaluationInv
<1>1. \A d \in Doc : checkpoint # None /\ checkpoint.results[d] = results[d] /\ results[d] # None
  BY DEF Complete, AllDone, ListsTrue
<1>2. completion' = [failures |-> Cardinality({d \in Doc : results[d] = "error"})]
      /\ checkpoint' = checkpoint
  BY DEF Complete
<1>3. {d \in Doc : results[d] = "error"} = {d \in Doc : checkpoint.results[d] = "error"}
  BY <1>1
<1>4. CompletionTrue'
  BY <1>1, <1>2, <1>3 DEF CompletionTrue
<1>5. completion' \in [failures : 0 .. Cardinality(Doc)]
  BY <1>2, FailuresCounted DEF EvaluationTypeOK
<1> QED BY <1>4, <1>5, StopKept DEF Complete

LEMMA NoticeKept ==
  ASSUME EvaluationInv, Notice
  PROVE  EvaluationInv'
BY DEF Notice, remote, EvaluationInv, EvaluationTypeOK, CheckpointStored, Sober, StepsFiled,
       ListsTrue, CompletionTrue, Filed

LEMMA AbandonKept ==
  ASSUME EvaluationInv, GiveUp \/ TaskDies
  PROVE  EvaluationInv'
<1>1. TaskStops /\ UNCHANGED remote
  BY DEF GiveUp, TaskDies
<1>2. CompletionTrue' /\ completion' \in [failures : 0 .. Cardinality(Doc)] \cup {None}
  BY <1>1 DEF remote, EvaluationInv, CompletionTrue, EvaluationTypeOK
<1> QED BY <1>1, <1>2, StopKept DEF remote

LEMMA StagingKept ==
  ASSUME EvaluationInv, (\E d \in Doc : StageInput(d)) \/ StageManifest
  PROVE  EvaluationInv'
<1> USE DEF EvaluationInv
<1>1. /\ UNCHANGED <<stored, checkpoint, completion, task, step, outcome, listed, results, lock, failing>>
      /\ staged' \subseteq Doc /\ manifest' \in BOOLEAN
  BY DEF StageInput, StageManifest, memory, EvaluationTypeOK
<1>2. EvaluationTypeOK'
  BY <1>1 DEF EvaluationTypeOK
<1>3. CheckpointStored' /\ Sober' /\ StepsFiled' /\ ListsTrue' /\ CompletionTrue'
  BY <1>1 DEF CheckpointStored, Sober, StepsFiled, ListsTrue, CompletionTrue, Filed
<1> QED BY <1>2, <1>3

LEMMA DropsKept ==
  ASSUME EvaluationInv, ResetOutput \/ Fetch
  PROVE  EvaluationInv'
<1> USE DEF EvaluationInv
<1>1. /\ ~ task.running /\ UNCHANGED <<task, step, outcome, listed, results, lock, failing>>
      /\ stored' = [d \in Doc |-> NoOutput] /\ checkpoint' = None /\ completion' = None
      /\ staged' \subseteq Doc /\ manifest' \in BOOLEAN
  BY DEF ResetOutput, Fetch, DropsOutput, memory, EvaluationTypeOK
<1>2. EvaluationTypeOK'
  BY <1>1 DEF EvaluationTypeOK, NoOutput, Output
<1>3. CheckpointStored' /\ Sober' /\ StepsFiled' /\ ListsTrue' /\ CompletionTrue'
  BY <1>1 DEF CheckpointStored, Sober, StepsFiled, ListsTrue, CompletionTrue
<1> QED BY <1>2, <1>3

LEMMA EvaluationKept == EvaluationInv /\ [EvaluationNext]_evaluationVars => EvaluationInv'
<1> SUFFICES ASSUME EvaluationInv, [EvaluationNext]_evaluationVars PROVE EvaluationInv'
  OBVIOUS
<1>1. ASSUME NEW d \in Doc, DocumentNext(d) PROVE EvaluationInv'
  BY <1>1, ThinkingKept, UploadPdfKept, UploadResultKept, UploadFailsKept, WriteCheckpointKept,
     CheckpointFailsKept DEF DocumentNext
<1>2. CASE TaskNext
  BY <1>1, <1>2, CompleteKept, NoticeKept, AbandonKept DEF TaskNext
<1>3. CASE OperatorNext
  BY <1>3, StagingKept, DropsKept, StartKept DEF OperatorNext
<1>4. CASE UNCHANGED evaluationVars
  BY <1>4 DEF evaluationVars, remote, memory, EvaluationInv, EvaluationTypeOK, CheckpointStored,
              Sober, StepsFiled, ListsTrue, CompletionTrue, Filed
<1> QED BY <1>2, <1>3, <1>4, AbandonKept DEF EvaluationNext

LEMMA EvaluationInvariant == EvaluationSpec => []EvaluationInv
BY InitEvaluation, EvaluationKept, PTL DEF EvaluationSpec

-----------------------------------------------------------------------------

\* After any sequence of failing uploads, crashes, restarts and resets the
\* checkpoint and the completion marker say no more than the bucket holds.
THEOREM EvaluationTrue == EvaluationSpec => []EvaluationSafe
<1>1. EvaluationInv => EvaluationSafe
  <2> SUFFICES ASSUME EvaluationInv PROVE EvaluationSafe
    OBVIOUS
  <2> USE DEF EvaluationInv
  <2>1. ASSUME completion # None
        PROVE  \A d \in Doc : /\ stored[d].result = [by |-> checkpoint.by, outcome |-> checkpoint.results[d]]
                              /\ stored[d].result # None
    <3>1. checkpoint \in Checkpoint /\ \A d \in Doc : checkpoint.results[d] \in Outcome
      BY <2>1 DEF CompletionTrue, EvaluationTypeOK, Checkpoint, Notes
    <3>2. \A d \in Doc : [by |-> checkpoint.by, outcome |-> checkpoint.results[d]] \in Result
      BY <3>1 DEF Checkpoint, Result
    <3> QED BY <2>1, <3>2 DEF CompletionTrue, CheckpointStored
  <2>2. ASSUME completion # None
        PROVE  {d \in Doc : stored[d].result.outcome = "error"} = {d \in Doc : checkpoint.results[d] = "error"}
    <3>1. ASSUME NEW d \in Doc PROVE stored[d].result.outcome = checkpoint.results[d]
      <4>1. stored[d].result = [by |-> checkpoint.by, outcome |-> checkpoint.results[d]]
        BY <2>1, <2>2
      <4> QED BY <4>1
    <3> QED BY <3>1
  <2>3. CompletionCovers
    BY <2>1, <2>2 DEF CompletionCovers, CompletionTrue
  <2> QED BY <2>3 DEF EvaluationSafe
<1> QED BY <1>1, EvaluationInvariant, PTL

\* No restart touches a document the checkpoint has.
THEOREM CheckpointKept == EvaluationSpec => CheckpointedStays
<1>1. EvaluationInv /\ [EvaluationNext]_evaluationVars =>
        [\A d \in Doc :
           checkpoint # None /\ checkpoint' # None /\ checkpoint.results[d] # None
             => checkpoint'.results[d] = checkpoint.results[d] /\ stored'[d] = stored[d]]_evaluationVars
  <2> SUFFICES ASSUME EvaluationInv, EvaluationNext, NEW d \in Doc,
                      checkpoint # None, checkpoint' # None, checkpoint.results[d] # None
               PROVE  checkpoint'.results[d] = checkpoint.results[d] /\ stored'[d] = stored[d]
    BY DEF evaluationVars, remote
  <2> USE DEF EvaluationInv
  <2>1. ASSUME NEW e \in Doc, UploadPdf(e) \/ UploadResult(e)
        PROVE  checkpoint' = checkpoint /\ stored'[d] = stored[d]
    <3>1. d # e
      BY <2>1, AtWorkUnlisted DEF UploadPdf, UploadResult
    <3> QED BY <2>1, <3>1 DEF UploadPdf, UploadResult, EvaluationTypeOK
  <2>2. ASSUME NEW e \in Doc, WriteCheckpoint(e)
        PROVE  checkpoint'.results[d] = checkpoint.results[d] /\ stored'[d] = stored[d]
    <3>1. step[e] = "checkpoint" /\ listed' = [listed EXCEPT ![e] = outcome[e]]
          /\ checkpoint' = [by |-> task.config, results |-> listed'] /\ stored' = stored
      BY <2>2 DEF WriteCheckpoint
    <3>2. task.running /\ d # e /\ listed'[d] = listed[d]
      BY <3>1, AtWorkUnlisted, ListedNow
    <3> QED BY <3>1, <3>2 DEF ListsTrue
  <2>3. ASSUME UNCHANGED <<stored, checkpoint>>
        PROVE  checkpoint'.results[d] = checkpoint.results[d] /\ stored'[d] = stored[d]
    BY <2>3
  <2>4. ASSUME ResetOutput \/ Fetch PROVE FALSE
    BY <2>4 DEF ResetOutput, Fetch, DropsOutput
  <2> QED
    BY <2>1, <2>2, <2>3, <2>4
    DEF EvaluationNext, TaskNext, OperatorNext, DocumentNext, BeginDocument, EvaluateEntry,
        RunOutOfMemory, TakeLock, UploadFails, CheckpointFails, Complete, Notice, GiveUp, TaskDies,
        StageInput, StageManifest, StartTask, remote
<1> QED BY <1>1, EvaluationInvariant, PTL DEF EvaluationSpec, CheckpointedStays
=============================================================================
