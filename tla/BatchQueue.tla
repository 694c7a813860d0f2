----------------------------- MODULE BatchQueue -----------------------------
(***************************************************************************)
(* The batch a browser tab works through (frontend/src/batch.ts,           *)
(* BatchQueue; BatchWorkspace.tsx): one row per document, a few tasks that *)
(* each take a document through the service, sweeps that delete server     *)
(* copies, and a reload of the tab.  The service is reduced to what it     *)
(* answers; a call may be lost before or after it took effect.             *)
(***************************************************************************)
EXTENDS Naturals, FiniteSets

CONSTANTS
  Documents,   \* rows of the batch
  MaxAttempts, \* bound: server jobs created for a row
  Allowances   \* bounds: tasks at a time (CONCURRENCY), calls lost or denied,
               \*   reloads of the tab, times the batch is paused or refused for capacity

ASSUME BatchAssumption ==
  /\ {Documents, MaxAttempts} \subseteq Nat \ {0}
  /\ Allowances \subseteq [tasks : Nat \ {0}, lost : Nat, reloads : Nat, pauses : Nat]

VARIABLES
  rows,       \* per row: status, credentials (the number of its job, 0 without),
              \*   result, cleanupError, and whether the tab still has its file
  tasks,      \* per row: what its task does next and the task's own variables
  queue,      \* paused; cancelled, which is also what the abort signal says
  sweep,      \* removeMany: what it does next, the rows left, the rows as it read them
  closed,     \* the batch was cleared and the workspace left
  stored,     \* the credentials in sessionStorage, 0 where there are none
  copies,     \* per row and job: its status on the server
  unanswered, \* jobs whose creation was never answered
  denied,     \* jobs that lived on when their deletion was answered "not found"
  allowance   \* what is left of the bounds

batchVars == <<rows, tasks, queue, sweep, closed, stored, copies, unanswered, denied, allowance>>

Row == 1 .. Documents
Attempt == 1 .. MaxAttempts

NoTask == [at |-> "idle", mine |-> 0, created |-> FALSE, job |-> "none"]
NoSweep == [at |-> "idle", kind |-> "release", left |-> {}, read |-> [r \in Row |-> 0],
            failed |-> FALSE]

BatchTypeOK ==
  /\ rows \in [Row -> [status : {"waiting", "uploading", "processing", "receiving", "ready", "failed"},
                       credentials : 0 .. MaxAttempts, result : BOOLEAN, cleanupError : BOOLEAN,
                       file : BOOLEAN]]
  /\ tasks \in [Row -> [at : {"idle", "get", "removeOld", "create", "upload", "submit",
                              "poll", "fetch", "removeFailed"},
                        mine : 0 .. MaxAttempts, created : BOOLEAN,
                        job : {"none", "awaiting", "working", "complete", "failed"}]]
  /\ Cardinality({r \in Row : tasks[r].at # "idle"}) <= allowance.tasks
  /\ queue \in [paused : BOOLEAN, cancelled : BOOLEAN]
  /\ sweep.left \subseteq Row /\ sweep.at \in {"idle", "settling", "next", "deleted", "lost"}
  /\ closed \in BOOLEAN
  /\ stored \in [Row -> 0 .. MaxAttempts]
  /\ copies \in [Row -> [Attempt -> {"none", "awaiting", "working", "complete", "failed", "gone"}]]
  /\ {unanswered, denied} \subseteq SUBSET (Row \X Attempt)

Active == {r \in Row : tasks[r].at # "idle"}
Busy == sweep.at # "idle"

\* BatchQueue.emit, after every change of a row: the credentials are stored.
Emitted(rs) == [r \in Row |-> rs[r].credentials]

SetRows(rs) == rows' = rs /\ stored' = Emitted(rs)

\* BatchQueue.pump: the first waiting rows get the tasks that are free.
Pumped(rs, ts, q) ==
  LET free == allowance.tasks - Cardinality({r \in Row : ts[r].at # "idle"})
      able == {r \in Row : rs[r].status = "waiting" /\ ts[r].at = "idle"}
  IN IF q.paused \/ q.cancelled THEN {}
     ELSE {r \in able : Cardinality({o \in able : o < r}) < free}

\* The rows become rs and the tasks ts, and the queue q is pumped: a row that is
\* taken starts with its job, if it has one, or with a new one. process begins
\* before the browser does anything else.
Pump(rs, ts, q) ==
  LET taken == Pumped(rs, ts, q) IN
    /\ SetRows([r \in Row |-> IF r \notin taken THEN rs[r]
         ELSE [rs[r] EXCEPT !.status = IF rs[r].credentials # 0
                                       THEN "processing" ELSE "uploading"]])
    /\ tasks' = [r \in Row |-> IF r \notin taken THEN ts[r]
         ELSE [NoTask EXCEPT !.at = IF rs[r].credentials # 0 THEN "get" ELSE "create",
                             !.mine = rs[r].credentials]]
    /\ queue' = q

Running == [paused |-> FALSE, cancelled |-> FALSE]

BatchInit ==
  /\ allowance \in Allowances
  /\ rows = [r \in Row |-> [status |-> IF r <= allowance.tasks THEN "uploading" ELSE "waiting",
                            credentials |-> 0, result |-> FALSE, cleanupError |-> FALSE,
                            file |-> TRUE]]
  /\ tasks = [r \in Row |->
                [NoTask EXCEPT !.at = IF r <= allowance.tasks THEN "create" ELSE "idle"]]
  /\ stored = [r \in Row |-> 0]
  /\ queue = Running /\ sweep = NoSweep
  /\ closed = FALSE
  /\ copies = [r \in Row |-> [k \in Attempt |-> "none"]]
  /\ unanswered = {} /\ denied = {}

-----------------------------------------------------------------------------

SetRow(r, row) == SetRows([rows EXCEPT ![r] = row])

\* Mutant: the next rows are not taken.
EndTaskQuietly(r, row) ==
  /\ SetRow(r, row)
  /\ tasks' = [tasks EXCEPT ![r] = NoTask]
  /\ UNCHANGED queue

\* The task of row r ends, which becomes row, and the queue takes the next ones.
EndTask(r, row) == Pump([rows EXCEPT ![r] = row], [tasks EXCEPT ![r] = NoTask], queue)

Fail(r, row) == EndTask(r, [row EXCEPT !.status = "failed"])

\* The task of row r goes on with t.
Go(r, row, t) == SetRow(r, row) /\ tasks' = [tasks EXCEPT ![r] = t] /\ UNCHANGED queue

\* The catch clause of process for anything but a capacity code: a job that
\* failed, or that this attempt created and never saw, is removed.
Catch(r, t, notFound) ==
  IF queue.cancelled THEN Fail(r, rows[r])
  ELSE IF notFound THEN Fail(r, [rows[r] EXCEPT !.credentials = 0])
  ELSE IF t.mine # 0 /\ (t.job = "failed" \/ (t.created /\ t.job = "none"))
    THEN Go(r, rows[r], [t EXCEPT !.at = "removeFailed"])
  ELSE Fail(r, rows[r])

LoseCall == allowance.lost > 0 /\ allowance' = [allowance EXCEPT !.lost = @ - 1]
Still == UNCHANGED <<sweep, closed>>
Quiet == UNCHANGED <<sweep, closed, copies, unanswered, denied>>

\* A deletion that is answered. The service answers "not found" as well when its
\* put of the row loses to one of the worker, or to one of a submission that no
\* task waits for any more, and then the job lives on.
Deletes(r, k) ==
  \/ copies' = [copies EXCEPT ![r][k] = "gone"] /\ UNCHANGED <<denied, allowance>>
  \/ /\ copies[r][k] \in {"awaiting", "working"} /\ LoseCall
     /\ copies' = [copies EXCEPT ![r][k] = "working"]
     /\ denied' = denied \cup {<<r, k>>}

\* One whose answer is lost.
DeletesInDoubt(r, k) ==
  /\ LoseCall /\ UNCHANGED denied
  /\ \E s \in {"gone", copies[r][k]} : copies' = [copies EXCEPT ![r][k] = s]

\* A row whose file is gone cannot be created again.
NoSource(r) ==
  /\ tasks[r].at = "create" /\ ~ rows[r].file
  /\ Catch(r, tasks[r], FALSE)
  /\ Quiet /\ UNCHANGED allowance

\* Mutant: the wait between two polls does not hear the signal.
GiveUpCalls(r) ==
  /\ tasks[r].at \in {"get", "fetch"} /\ queue.cancelled
  /\ Fail(r, rows[r])
  /\ Quiet /\ UNCHANGED allowance

\* A read is given up when the batch is cancelled, whatever it would answer.
GiveUp(r) ==
  /\ tasks[r].at \in {"get", "poll", "fetch"} /\ queue.cancelled
  /\ Fail(r, rows[r])
  /\ Quiet /\ UNCHANGED allowance

\* getJob, for a row that has credentials and while its job is at work.
Read(r) ==
  /\ tasks[r].at \in {"get", "poll"} /\ ~ queue.cancelled
  /\ LET t == tasks[r]  s == copies[r][t.mine]  u == [t EXCEPT !.job = s] IN
       \/ s = "gone" /\ Catch(r, t, TRUE)
       \/ /\ t.at = "get" /\ s \in {"failed", "awaiting"}
          /\ Go(r, rows[r], [u EXCEPT !.at = "removeOld"])
       \/ t.at = "poll" /\ s = "failed" /\ Catch(r, u, FALSE)
       \/ /\ s = "working" /\ t.at = "get"
          /\ Go(r, [rows[r] EXCEPT !.status = "processing"], [u EXCEPT !.at = "poll"])
       \/ /\ s = "complete"
          /\ Go(r, [rows[r] EXCEPT !.status = "receiving"], [u EXCEPT !.at = "fetch"])
  /\ Quiet /\ UNCHANGED allowance

\* getResultBlob.
Fetch(r) ==
  /\ tasks[r].at = "fetch" /\ ~ queue.cancelled
  /\ IF copies[r][tasks[r].mine] = "gone" THEN Catch(r, tasks[r], TRUE)
     ELSE EndTask(r, [rows[r] EXCEPT !.status = "ready", !.result = TRUE, !.cleanupError = FALSE])
  /\ Quiet /\ UNCHANGED allowance

ReadLost(r) ==
  /\ tasks[r].at \in {"get", "poll", "fetch"} /\ ~ queue.cancelled /\ LoseCall
  /\ Catch(r, tasks[r], FALSE)
  /\ Quiet

\* removeRemote of a job that cannot be used any more; "404" is as good.
RemoveOld(r) ==
  /\ tasks[r].at = "removeOld"
  /\ Deletes(r, tasks[r].mine)
  /\ LET row == [rows[r] EXCEPT !.credentials = 0] IN
       IF queue.cancelled THEN Fail(r, row)
       ELSE Go(r, row, [tasks[r] EXCEPT !.at = "create", !.mine = 0])
  /\ Still /\ UNCHANGED unanswered

RemoveOldLost(r) ==
  /\ tasks[r].at = "removeOld" /\ DeletesInDoubt(r, tasks[r].mine)
  /\ Catch(r, tasks[r], FALSE)
  /\ Still /\ UNCHANGED unanswered

FreeAttempt(r, k) == copies[r][k] = "none" /\ \A o \in 1 .. k - 1 : copies[r][o] # "none"

CreateCopy(r) ==
  /\ tasks[r].at = "create" /\ rows[r].file
  /\ \E k \in Attempt :
       /\ FreeAttempt(r, k)
       /\ copies' = [copies EXCEPT ![r][k] = "awaiting"]
       /\ LET row == [rows[r] EXCEPT !.credentials = k, !.status = "uploading", !.cleanupError = FALSE]
          IN IF queue.cancelled THEN Fail(r, row)
             ELSE Go(r, row, [tasks[r] EXCEPT !.at = "upload", !.mine = k, !.created = TRUE])
  /\ Still /\ UNCHANGED <<unanswered, denied, allowance>>

\* A capacity code pauses the batch; any other refusal fails the row.
CreateRefused(r) ==
  /\ tasks[r].at = "create" /\ rows[r].file
  /\ IF queue.cancelled THEN Fail(r, rows[r]) /\ UNCHANGED allowance
     ELSE \/ Fail(r, rows[r]) /\ UNCHANGED allowance
          \/ /\ allowance.pauses > 0 /\ allowance' = [allowance EXCEPT !.pauses = @ - 1]
             /\ SetRow(r, [rows[r] EXCEPT !.status = "waiting"])
             /\ tasks' = [tasks EXCEPT ![r] = NoTask]
             /\ queue' = [queue EXCEPT !.paused = TRUE]
  /\ Quiet

CreateLost(r) ==
  /\ tasks[r].at = "create" /\ rows[r].file /\ LoseCall
  /\ \/ UNCHANGED <<copies, unanswered>>
     \/ \E k \in Attempt : /\ FreeAttempt(r, k)
                       /\ copies' = [copies EXCEPT ![r][k] = "awaiting"]
                       /\ unanswered' = unanswered \cup {<<r, k>>}
  /\ Catch(r, tasks[r], FALSE)
  /\ Still /\ UNCHANGED denied

Upload(r) ==
  /\ tasks[r].at = "upload"
  /\ IF copies[r][tasks[r].mine] = "gone" THEN Catch(r, tasks[r], TRUE)
     ELSE IF queue.cancelled THEN Fail(r, rows[r])
     ELSE Go(r, rows[r], [tasks[r] EXCEPT !.at = "submit"])
  /\ Quiet /\ UNCHANGED allowance

\* The document is refused, or the connection breaks half way.
UploadBreaks(r) ==
  /\ tasks[r].at = "upload" /\ LoseCall
  /\ Catch(r, tasks[r], FALSE)
  /\ Quiet

Submit(r) ==
  /\ tasks[r].at = "submit"
  /\ LET t == tasks[r] IN
       IF copies[r][t.mine] = "gone" THEN Catch(r, t, TRUE) /\ UNCHANGED copies
       ELSE /\ copies' = [copies EXCEPT ![r][t.mine] = "working"]
            /\ IF queue.cancelled THEN Fail(r, rows[r])
               ELSE Go(r, [rows[r] EXCEPT !.status = "processing"],
                       [t EXCEPT !.at = "poll", !.job = "working"])
  /\ Still /\ UNCHANGED <<unanswered, denied, allowance>>

SubmitLost(r) ==
  /\ tasks[r].at = "submit" /\ LoseCall
  /\ \/ UNCHANGED copies
     \/ /\ copies[r][tasks[r].mine] = "awaiting"
        /\ copies' = [copies EXCEPT ![r][tasks[r].mine] = "working"]
  /\ Catch(r, tasks[r], FALSE)
  /\ Still /\ UNCHANGED <<unanswered, denied>>

RemoveFailed(r) ==
  /\ tasks[r].at = "removeFailed"
  /\ Deletes(r, tasks[r].mine)
  /\ Fail(r, [rows[r] EXCEPT !.credentials = 0])
  /\ Still /\ UNCHANGED unanswered

RemoveFailedLost(r) ==
  /\ tasks[r].at = "removeFailed" /\ DeletesInDoubt(r, tasks[r].mine)
  /\ Fail(r, [rows[r] EXCEPT !.cleanupError = TRUE])
  /\ Still /\ UNCHANGED unanswered

TaskStep(r) ==
  \/ NoSource(r) \/ GiveUp(r) \/ Read(r) \/ Fetch(r) \/ RemoveOld(r) \/ CreateCopy(r)
  \/ CreateRefused(r) \/ Upload(r) \/ Submit(r) \/ RemoveFailed(r)

TaskLoses(r) ==
  \/ ReadLost(r) \/ RemoveOldLost(r) \/ CreateLost(r) \/ UploadBreaks(r)
  \/ SubmitLost(r) \/ RemoveFailedLost(r)

-----------------------------------------------------------------------------

\* removeMany over rows rs, which it reads once, before its first deletion.
Sweeping(kind, rs, failed) ==
  [at |-> "next", kind |-> kind, left |-> {r \in rs : rows[r].credentials # 0},
   read |-> [r \in Row |-> rows[r].credentials], failed |-> failed]

ClickClear ==
  /\ ~ Busy /\ ~ closed
  /\ queue' = [paused |-> TRUE, cancelled |-> TRUE]
  /\ SetRows([r \in Row |-> IF rows[r].status = "waiting"
                            THEN [rows[r] EXCEPT !.status = "failed"] ELSE rows[r]])
  /\ sweep' = [NoSweep EXCEPT !.at = "settling", !.kind = "clear"]
  /\ UNCHANGED <<tasks, closed, copies, unanswered, denied, allowance>>

\* Mutant: the tasks are not waited for.
SettleAtOnce ==
  /\ sweep.at = "settling"
  /\ sweep' = Sweeping("clear", Row, FALSE)
  /\ UNCHANGED <<rows, tasks, queue, closed, stored, copies, unanswered, denied, allowance>>

\* cleanup waits for every task before it reads the rows.
Settle ==
  /\ sweep.at = "settling" /\ Active = {}
  /\ sweep' = Sweeping("clear", Row, FALSE)
  /\ UNCHANGED <<rows, tasks, queue, closed, stored, copies, unanswered, denied, allowance>>

ClickRetryCleanup ==
  /\ ~ Busy /\ ~ closed
  /\ \A r \in Row : rows[r].status \notin {"uploading", "processing", "receiving"}
  /\ LET due == {r \in Row : rows[r].cleanupError} IN
       due # {} /\ sweep' = Sweeping("cleanup", due, FALSE)
  /\ UNCHANGED <<rows, tasks, queue, closed, stored, copies, unanswered, denied, allowance>>

\* The PDFs of rs are saved, then released.
ClickDownload(rs) ==
  /\ ~ Busy /\ ~ closed
  /\ rs # {} /\ \A r \in rs : rows[r].status = "ready"
  /\ sweep' = Sweeping("release", rs, FALSE)
  /\ UNCHANGED <<rows, tasks, queue, closed, stored, copies, unanswered, denied, allowance>>

Swept(r) == r \in sweep.left /\ \A o \in sweep.left : r <= o

\* A row a task is at work on is left to the task.
SweepDelete(r) ==
  /\ sweep.at = "next" /\ Swept(r)
  /\ \/ /\ r \in Active /\ sweep' = [sweep EXCEPT !.left = @ \ {r}]
        /\ UNCHANGED <<copies, denied, allowance>>
     \/ /\ r \notin Active /\ sweep' = [sweep EXCEPT !.at = "deleted"]
        /\ Deletes(r, sweep.read[r])
     \/ /\ r \notin Active /\ sweep' = [sweep EXCEPT !.at = "lost", !.failed = TRUE]
        /\ DeletesInDoubt(r, sweep.read[r])
  /\ UNCHANGED <<rows, tasks, queue, closed, stored, unanswered>>

SweepAnswered(r) ==
  /\ sweep.at \in {"deleted", "lost"} /\ Swept(r)
  /\ SetRow(r, IF sweep.at = "deleted"
                  THEN [rows[r] EXCEPT !.credentials = 0, !.cleanupError = FALSE]
                  ELSE [rows[r] EXCEPT !.cleanupError = TRUE])
  /\ sweep' = [sweep EXCEPT !.at = "next", !.left = @ \ {r}]
  /\ UNCHANGED <<tasks, queue, closed, copies, unanswered, denied, allowance>>

SweepEnds ==
  /\ sweep.at = "next" /\ sweep.left = {} /\ sweep' = NoSweep
  /\ IF sweep.kind = "clear" /\ ~ sweep.failed
       THEN closed' = TRUE /\ stored' = [r \in Row |-> 0]
       ELSE UNCHANGED <<closed, stored>>
  /\ UNCHANGED <<rows, tasks, queue, copies, unanswered, denied, allowance>>

SweepStep ==
  \/ Settle \/ SweepEnds
  \/ \E r \in Row : SweepDelete(r) \/ SweepAnswered(r)

-----------------------------------------------------------------------------

Pause ==
  /\ ~ Busy /\ ~ closed /\ ~ queue.cancelled /\ ~ queue.paused
  /\ \E r \in Row : rows[r].status \notin {"ready", "failed"}
  /\ allowance.pauses > 0 /\ allowance' = [allowance EXCEPT !.pauses = @ - 1]
  /\ queue' = [queue EXCEPT !.paused = TRUE]
  /\ UNCHANGED <<rows, tasks, sweep, closed, stored, copies, unanswered, denied>>

Resume ==
  /\ ~ Busy /\ ~ closed /\ ~ queue.cancelled /\ queue.paused
  /\ Pump(rows, tasks, [queue EXCEPT !.paused = FALSE])
  /\ UNCHANGED <<sweep, closed, copies, unanswered, denied, allowance>>

\* Mutant: every row is tried again.
RetriableAny(r) == (rows[r].file \/ rows[r].credentials # 0) /\ rows[r].status \in {"failed", "ready"}

Retriable(r) == (rows[r].file \/ rows[r].credentials # 0) /\ rows[r].status = "failed"

\* Bound: a row is tried again as long as a job can be created for it.
Retry(rs) ==
  /\ ~ Busy /\ ~ closed /\ ~ queue.cancelled
  /\ rs # {} /\ \A r \in rs : Retriable(r) /\ \E k \in Attempt : copies[r][k] = "none"
  /\ LET next == [r \in Row |-> IF r \in rs THEN [rows[r] EXCEPT !.status = "waiting"] ELSE rows[r]]
     IN Pump(next, tasks, queue)
  /\ UNCHANGED <<sweep, closed, copies, unanswered, denied, allowance>>

\* The tab is reloaded: the credentials are left of the batch. A row that has
\* them is taken up again, the others have lost their file.
ReloadBatch ==
  /\ ~ closed /\ allowance.reloads > 0 /\ allowance' = [allowance EXCEPT !.reloads = @ - 1]
  /\ LET next == [r \in Row |->
                    [status |-> IF stored[r] # 0 THEN "waiting" ELSE "failed",
                     credentials |-> stored[r], result |-> FALSE, cleanupError |-> FALSE,
                     file |-> FALSE]]
     IN Pump(next, [r \in Row |-> NoTask], Running)
  /\ sweep' = NoSweep
  /\ UNCHANGED <<closed, copies, unanswered, denied>>

UserStep ==
  \/ ClickClear \/ ClickRetryCleanup \/ Pause \/ Resume \/ ReloadBatch
  \/ \E rs \in SUBSET Row : ClickDownload(rs) \/ Retry(rs)

\* What the service does with a job it was given, and the end of its hour.
CopyEnds(r, k) ==
  /\ copies[r][k] = "working"
  /\ \E s \in {"complete", "failed"} : copies' = [copies EXCEPT ![r][k] = s]
  /\ UNCHANGED <<rows, tasks, queue, sweep, closed, stored, unanswered, denied, allowance>>

CopyExpires(r, k) ==
  /\ copies[r][k] \notin {"none", "gone"}
  /\ copies' = [copies EXCEPT ![r][k] = "gone"]
  /\ UNCHANGED <<rows, tasks, queue, sweep, closed, stored, unanswered, denied, allowance>>

BatchNext ==
  \/ SweepStep \/ UserStep
  \/ \E r \in Row : \/ TaskStep(r) \/ TaskLoses(r)
                    \/ \E k \in Attempt : CopyEnds(r, k) \/ CopyExpires(r, k)

BatchSpec == BatchInit /\ [][BatchNext]_batchVars

\* A call is answered or fails, a job ends. The user owes nothing.
BatchFairness ==
  /\ WF_batchVars(SweepStep)
  /\ \A r \in Row : /\ WF_batchVars(TaskStep(r))
                    /\ \A k \in Attempt : WF_batchVars(CopyEnds(r, k))

-----------------------------------------------------------------------------

\* A server copy the tab cannot know of: its creation was never answered, or the
\* service denied it while it lived on.
Unknowable(r, k) == <<r, k>> \in unanswered \cup denied

\* The tab knows every other server copy there is: its row or its task holds the
\* credentials.
CopiesKnown ==
  \A r \in Row, k \in Attempt :
    copies[r][k] \notin {"none", "gone"} /\ ~ Unknowable(r, k) =>
      rows[r].credentials = k \/ tasks[r].mine = k

\* A batch that was cleared has left nothing else on the server and nothing in the
\* tab, and nothing it had under way writes it back.
ClearedIsGone ==
  closed => /\ \A r \in Row, k \in Attempt :
                 copies[r][k] \in {"none", "gone"} \/ Unknowable(r, k)
            /\ \A r \in Row : stored[r] = 0

\* What holds of a batch at any time: its types, that the tab knows its copies but
\* those the service never told it of or denied, and that clearing leaves no other.
BatchSafe == BatchTypeOK /\ CopiesKnown /\ ClearedIsGone

\* A PDF that was received stays, until the batch is closed or the tab reloaded.
ReceivedStays ==
  [][allowance'.reloads = allowance.reloads =>
       \A r \in Row : rows[r].result => rows'[r].result /\ rows'[r].status = "ready"]_batchVars

\* A row that waits in a batch that goes on is received or fails in the end.
RowsSettle ==
  \A r \in Row :
    rows[r].status = "waiting" ~>
      rows[r].status \in {"ready", "failed"} \/ queue.paused

\* Clearing ends, however many documents were under way.
ClearEnds == sweep.kind = "clear" /\ Busy ~> ~ Busy

=============================================================================
