--------------------------- MODULE EvaluationRun ----------------------------
(***************************************************************************)
(* A private evaluation on AWS (evaluation/aws_runner.py over runner.py):  *)
(* one split is staged under an opaque prefix; a task evaluates its        *)
(* documents on a few threads and, under one lock, uploads each document's *)
(* files and then a checkpoint; a task that stopped is started again and   *)
(* resumes; the results are fetched or reset once no task runs.            *)
(***************************************************************************)
EXTENDS Naturals, FiniteSets

CONSTANTS
  Doc,         \* documents of the split
  Config,      \* model, revision, prompt and detector versions of a task
  Concurrency, \* document_concurrency
  MaxStarts,   \* bound: tasks started
  None         \* no object, no outcome, no holder

ASSUME EvaluationAssumption ==
  /\ Concurrency \in Nat \ {0} /\ MaxStarts \in Nat
  /\ IsFiniteSet(Doc) /\ Doc # {}
  /\ None \notin Config /\ None \notin Doc

VARIABLES
  staged,     \* inputs under the prefix
  manifest,   \* manifest.json is under the prefix
  stored,     \* the output of each document: redacted.pdf and result.json
  checkpoint, \* checkpoint.json
  completion, \* completion.json
  task,       \* the task: running or not, its configuration, its starts
  step,       \* how far the task is with each document
  outcome,    \* what evaluate_entry returned for it
  listed,     \* checkpoint_results, by document
  results,    \* results_by_id
  lock,       \* the document whose thread holds state_lock
  failing     \* a thread has raised; the task has noticed, and cancelled what had not begun

remote == <<staged, manifest, stored, checkpoint, completion>>
memory == <<step, outcome, listed, results, lock, failing>>
evaluationVars == <<remote, task, memory>>

Outcome == {"redacted", "error"}
Step == {"todo", "working", "judged", "pdf", "result", "checkpoint", "done", "dropped"}
Notes == [Doc -> Outcome \cup {None}]
NoNotes == [d \in Doc |-> None]

Result == [by : Config, outcome : Outcome]
Checkpoint == [by : Config, results : Notes]
Output == [pdf : Config \cup {None}, result : Result \cup {None}]
NoOutput == [pdf |-> None, result |-> None]

ASSUME NoneAssumption == None \notin Outcome /\ None \notin Result /\ None \notin Checkpoint

EvaluationTypeOK ==
  /\ staged \subseteq Doc /\ manifest \in BOOLEAN
  /\ stored \in [Doc -> Output]
  /\ checkpoint \in Checkpoint \cup {None}
  /\ completion \in [failures : 0 .. Cardinality(Doc)] \cup {None}
  /\ task \in [running : BOOLEAN, config : Config \cup {None}, starts : 0 .. MaxStarts]
  /\ step \in [Doc -> Step] /\ outcome \in Notes
  /\ listed \in Notes /\ results \in Notes
  /\ lock \in Doc \cup {None} /\ failing \in {"no", "raised", "noticed"}

Forgets ==
  /\ step' = [d \in Doc |-> "todo"] /\ outcome' = NoNotes
  /\ listed' = NoNotes /\ results' = NoNotes
  /\ lock' = None /\ failing' = "no"

EvaluationInit ==
  /\ staged = {} /\ manifest = FALSE
  /\ stored = [d \in Doc |-> NoOutput]
  /\ checkpoint = None /\ completion = None
  /\ task = [running |-> FALSE, config |-> None, starts |-> 0]
  /\ step = [d \in Doc |-> "todo"] /\ outcome = NoNotes
  /\ listed = NoNotes /\ results = NoNotes
  /\ lock = None /\ failing = "no"

-----------------------------------------------------------------------------
(* stage_private_evaluation: each source is uploaded, the manifest last.   *)

StageInput(d) ==
  /\ task.starts = 0 /\ d \notin staged
  /\ staged' = staged \cup {d}
  /\ UNCHANGED <<manifest, stored, checkpoint, completion, task, memory>>

StageManifest ==
  /\ task.starts = 0 /\ staged = Doc /\ ~ manifest
  /\ manifest' = TRUE
  /\ UNCHANGED <<staged, stored, checkpoint, completion, task, memory>>

-----------------------------------------------------------------------------
(* run_private_evaluation and run_evaluation.                              *)

\* _load_checkpoint: a checkpoint of another configuration is refused.
CheckpointUsable(c) == checkpoint # None => checkpoint.by = c

LoadedResults == IF checkpoint = None THEN NoNotes ELSE checkpoint.results

\* Mutant: the documents of the checkpoint are evaluated once more.
LeftToDoAll(notes) == Doc

\* The pending entries.
LeftToDo(notes) == {d \in Doc : notes[d] = None}

StartTask(c) ==
  /\ ~ task.running /\ task.starts < MaxStarts /\ manifest
  /\ CheckpointUsable(c)
  /\ task' = [running |-> TRUE, config |-> c, starts |-> task.starts + 1]
  /\ listed' = LoadedResults /\ results' = LoadedResults
  /\ step' = [d \in Doc |-> IF d \in LeftToDo(LoadedResults) THEN "todo" ELSE "done"]
  /\ outcome' = NoNotes /\ lock' = None /\ failing' = "no"
  /\ UNCHANGED remote

Busy == {d \in Doc : step[d] \notin {"todo", "done", "dropped"}}

Goes(d, to) == step' = [step EXCEPT ![d] = to]

BeginDocument(d) ==
  /\ task.running /\ failing # "noticed" /\ step[d] = "todo" /\ Cardinality(Busy) < Concurrency
  /\ Goes(d, "working")
  /\ UNCHANGED <<remote, task, outcome, listed, results, lock, failing>>

\* evaluate_entry turns what went wrong into a result with an error code.
EvaluateEntry(d) ==
  /\ step[d] = "working" /\ Goes(d, "judged")
  /\ \E o \in Outcome : outcome' = [outcome EXCEPT ![d] = o]
  /\ UNCHANGED <<remote, task, listed, results, lock, failing>>

Raised == IF failing = "no" THEN "raised" ELSE failing

\* MemoryError and ImportError are raised instead.
RunOutOfMemory(d) ==
  /\ step[d] = "working" /\ Goes(d, "dropped") /\ failing' = Raised
  /\ UNCHANGED <<remote, task, outcome, listed, results, lock>>

\* What went wrong may have gone wrong before or after redacted.pdf was written.
TakeLock(d) ==
  /\ step[d] = "judged" /\ lock = None /\ lock' = d
  /\ \/ Goes(d, "pdf")
     \/ outcome[d] = "error" /\ Goes(d, "result")
  /\ UNCHANGED <<remote, task, outcome, listed, results, failing>>

UploadPdf(d) ==
  /\ step[d] = "pdf" /\ Goes(d, "result")
  /\ stored' = [stored EXCEPT ![d].pdf = task.config]
  /\ UNCHANGED <<staged, manifest, checkpoint, completion, task,
                 outcome, listed, results, lock, failing>>

\* Mutant: the checkpoint is written before the files are uploaded.
UploadResultLater(d) ==
  /\ step[d] = "result" /\ Goes(d, "checkpoint")
  /\ UNCHANGED <<remote, task, outcome, listed, results, lock, failing>>

UploadResult(d) ==
  /\ step[d] = "result" /\ Goes(d, "checkpoint")
  /\ stored' = [stored EXCEPT ![d].result = [by |-> task.config, outcome |-> outcome[d]]]
  /\ UNCHANGED <<staged, manifest, checkpoint, completion, task,
                 outcome, listed, results, lock, failing>>

\* Mutant: the lock is taken and given back by hand, and a raise skips that.
DropKeepingLock(d) == Goes(d, "dropped") /\ failing' = Raised /\ UNCHANGED lock

\* The callback raises inside "with state_lock".
Drop(d) == Goes(d, "dropped") /\ failing' = Raised /\ lock' = None

UploadFails(d) ==
  /\ step[d] \in {"pdf", "result"} /\ Drop(d)
  /\ UNCHANGED <<remote, task, outcome, listed, results>>

\* The list has the result before the checkpoint is written, so that a later
\* checkpoint has it even if this one failed.
WriteCheckpoint(d) ==
  /\ step[d] = "checkpoint"
  /\ listed' = [listed EXCEPT ![d] = outcome[d]]
  /\ checkpoint' = [by |-> task.config, results |-> listed']
  /\ results' = [results EXCEPT ![d] = outcome[d]]
  /\ Goes(d, "done") /\ lock' = None
  /\ UNCHANGED <<staged, manifest, stored, completion, task, outcome, failing>>

CheckpointFails(d) ==
  /\ step[d] = "checkpoint" /\ Drop(d)
  /\ listed' = [listed EXCEPT ![d] = outcome[d]]
  /\ UNCHANGED <<remote, task, outcome, results>>

TaskStops == task' = [task EXCEPT !.running = FALSE] /\ Forgets

AllDone == task.running /\ \A d \in Doc : results[d] # None

\* The summary and then the completion are uploaded, at the end.
Complete ==
  /\ AllDone
  /\ completion' = [failures |-> Cardinality({d \in Doc : results[d] = "error"})]
  /\ TaskStops
  /\ UNCHANGED <<staged, manifest, stored, checkpoint>>

\* pool.map hands on the results in the order of the documents: when it comes
\* to one that raised, early or late, it cancels those that have not begun.
Notice ==
  /\ task.running /\ failing = "raised" /\ failing' = "noticed"
  /\ UNCHANGED <<remote, task, step, outcome, listed, results, lock>>

\* The pool waits for the threads at work and raises again.
GiveUp ==
  /\ task.running /\ failing = "noticed" /\ Busy = {}
  /\ TaskStops
  /\ UNCHANGED remote

\* The instance or the container goes away.
TaskDies == task.running /\ TaskStops /\ UNCHANGED remote

-----------------------------------------------------------------------------
(* The operator, once no task runs.                                        *)

DropsOutput ==
  stored' = [d \in Doc |-> NoOutput] /\ checkpoint' = None /\ completion' = None

\* reset_private_evaluation_output, also of a split that is complete.
ResetOutput ==
  /\ ~ task.running
  /\ stored # [d \in Doc |-> NoOutput]
  /\ DropsOutput
  /\ UNCHANGED <<staged, manifest, task, memory>>

\* fetch_private_evaluation, with delete_remote.
Fetch ==
  /\ ~ task.running /\ completion # None
  /\ DropsOutput /\ staged' = {} /\ manifest' = FALSE
  /\ UNCHANGED <<task, memory>>

DocumentNext(d) ==
  \/ BeginDocument(d) \/ EvaluateEntry(d) \/ RunOutOfMemory(d) \/ TakeLock(d)
  \/ UploadPdf(d) \/ UploadResult(d) \/ UploadFails(d)
  \/ WriteCheckpoint(d) \/ CheckpointFails(d)

TaskNext == (\E d \in Doc : DocumentNext(d)) \/ Complete \/ Notice \/ GiveUp

OperatorNext ==
  \/ \E d \in Doc : StageInput(d)
  \/ StageManifest \/ ResetOutput \/ Fetch
  \/ \E c \in Config : StartTask(c)

EvaluationNext == TaskNext \/ TaskDies \/ OperatorNext

EvaluationSpec == EvaluationInit /\ [][EvaluationNext]_evaluationVars

\* The threads of a running task are scheduled.
EvaluationFairness == WF_evaluationVars(TaskNext)

-----------------------------------------------------------------------------

\* What the checkpoint lists, a later task will not evaluate again: its files
\* are in the bucket, and from the configuration the checkpoint names.
CheckpointStored ==
  checkpoint # None => \A d \in Doc : LET o == checkpoint.results[d] IN
    o # None =>
      /\ stored[d].result = [by |-> checkpoint.by, outcome |-> o]
      /\ o = "redacted" => stored[d].pdf = checkpoint.by

\* The completion marker, on which the fetch deletes the whole prefix, is only
\* there when every document has its result, and counts their failures.
CompletionCovers ==
  completion # None =>
    /\ \A d \in Doc : stored[d].result # None
    /\ completion.failures = Cardinality({d \in Doc : stored[d].result.outcome = "error"})

\* What a task may rely on after any sequence of crashes, restarts and resets:
\* the checkpoint and the completion marker say no more than the bucket holds.
EvaluationSafe == EvaluationTypeOK /\ CheckpointStored /\ CompletionCovers

\* A restarted task leaves the documents of the checkpoint as they are.
CheckpointedStays ==
  [][\A d \in Doc :
       checkpoint # None /\ checkpoint' # None /\ checkpoint.results[d] # None
         => checkpoint'.results[d] = checkpoint.results[d] /\ stored'[d] = stored[d]]_evaluationVars

\* Whatever its threads raise, a task comes to an end.
TaskEnds == task.running ~> ~ task.running

=============================================================================
