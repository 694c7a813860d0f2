# Specifications of the PII redaction service

TLA+ modules for this repository: the job service over its two sets of stores
(one machine; AWS), the worker, the two browser clients, the algorithms that
decide what is blacked out, the abuse limits and the evaluation harness, with
the TLC runs that check them and theorems that TLAPS proves for every value of
the constants. `PROJECT.json` maps every definition to the lines it models.

## The system

A client creates a job, uploads a document, submits it; a worker detects
identifiers; a person reviews the boxes (or the job was created with
`auto_finalize`); the worker renders the redacted PDF; the client downloads it
and deletes the job; whatever is left is erased at most an hour after creation.

| Component | State | Operations | Modules |
|---|---|---|---|
| Jobs table, `repository.py` (SQLite) | a row per job: status, created_at, expires_at, auto_finalize, page_count | create, conditional update, claim_local_task, requeue_in_flight, list_expired | `JobStore` |
| Blob directory, `storage.py` (local) | the files under `jobs/<id>/`: input, previews, draft and approved manifest, output | put_bytes, put_file, head, reads, delete_prefix | `JobStore` |
| Job API, `api/main.py`, `service.py` | none of its own; every call is a sequence of accesses to the stores | create, upload, submit, status / manifest / previews / results, finalize, delete, expiry | `JobService`; over AWS `CloudService` |
| Worker, `worker/main.py`, `worker/pipeline.py` | per loop: the job, the stage, the manifest in hand, the error; per process: running, stopping, down | claim, detect, review hand-off, render, complete, fail, release, stop, crash, restart with requeueing; cleaner thread | `JobWorker`; over AWS `CloudWorker` |
| A deployment, `docker-compose.yml` | all of the above and the clock | composition | `LocalRuntime` |
| DynamoDB repository, `repository.py` | rows with a version | create, read followed by a conditional put | `CloudTable` |
| Task queue, `task_queue.py` | messages, their visibility and receive count | enqueue, receive, renew, release, acknowledge, redelivery, dead letters | `CloudQueue` |
| The AWS deployment | table, bucket, queue, leases, heartbeats | composition | `CloudRuntime` |
| Abuse limits in `create_job` | counts over the rows | count, compare, insert | `AbuseLimits` |
| Detector, `worker/detector.py` | a thread and an answer per page | ask, re-read by OCR, ask again, collect, propagate, refuse | `DetectDocument` |
| Document loading, `redaction/document.py`, `textgate.py` | pixel budget, text layers | count, extract, render, decide on OCR | `LoadDocument` |
| Anchoring, net and merge, `redaction/anchor.py` | none | anchor_value, ssn_safety_net, merge_page_detections | `PageAnchors`, `SsnNet`, `MergeDetections` |
| Painting, `redaction/renderer.py` | none | boxes to pixels, turning, the check of the output | `RedactionGeometry`, `PixelMath` |
| Batch client, `frontend/src/batch.ts` | rows, tasks, sessionStorage | pump, upload, poll, receive, pause, retry, clear, restore | `BatchQueue` |
| Document client, `frontend/src/App.tsx` | the job shown, boxes, edits, credentials | start, poll, review, approve, download, delete, reload | `DocumentClient` |
| Evaluation, `evaluation/` | checkpoint, completion marker, results per document | stage, run, checkpoint, resume, reset, fetch; sample; shard | `EvaluationRun`, `CorpusSample`, `ShardPlan` |

The components of a deployment interact through the stores only. The status of a
row hands the job over: from the client to the worker, from the worker to the
reviewer and back, and from anyone to the erasure. On AWS a message accompanies
each hand-over to a worker. Nothing is locked across two accesses, so the hard
behaviours are

- a delete or an expiry between any two steps of an upload, a submit, a finalize
  or a run of the pipeline, which then writes after the erasure;
- calls of several tabs, or a retry of a call that timed out, on the same job;
- crashes between two writes, of the API half way through a call and of the
  worker half way through a document, and what brings the job back;
- file operations that are not atomic (`shutil.copyfile`, `write_bytes`,
  `shutil.rmtree`), and row and message, which are two services;
- messages that come twice or late, sends whose answer is lost, leases and
  heartbeats that disagree with them by a little time;
- in the browser, answers that arrive after the page went on to something else,
  calls lost after they took effect, and a reload in between;
- thread pools in which one page or document fails while others are under way;
- rounding, matching and merging, where one pixel or one character decides
  whether an identifier is visible.

Not modelled, and why, is listed at the end.

## The modules

### One machine

`JobStore` holds the variables of the two stores and one operator per
transaction or file operation; that is the granularity of interleaving.
`JobService` extends it with the calls: `calls[c]` is the call caller `c` is in
(the step it is at, the job, the status `finalize` read, the review it carries),
and every action is the code between one store access and the next. The cleaner
runs the same `_expire` steps and is a caller too. `JobWorker` adds the loops
and the process. `LocalRuntime` composes them, states the fairness and the
properties. `JobContract` is what the service promises a client about a job, whatever
it is made of; `LocalRuntime` gives the refinement mapping (`Contract`). `MCLocalRuntime` gives the runs their clients and starting points.

How state corresponds to the code:

| Model | Code |
|---|---|
| `status`, `born`, `auto`, `paged` | columns `status` and `created_at_epoch`, payload fields `auto_finalize` and `page_count is not None` |
| `due[j]` | `expires_at <= now`; set by the clock and by the updates that bring `expires_at` forward |
| `store[j][k]` | the file `k` of job `j`: `None`, `Partial` (a copy under way or cut short), `Invalid` (wrong magic bytes), or the number of the review it carries; 0 is what the detector found and stands for the uploaded document |
| `calls[c].at` | where the handler thread is in `service.py` / `api/main.py` |
| `loops[l].at`, `.page`, `.review`, `.error` | where the loop is in `pipeline.py`, how many previews it stored, the manifest it renders, the exception it raised |
| `worker` | the process: `running`, `stopping` (the global `stopping`), `down` |
| `reviews`, `accepted` | history: the number of finalize calls of a job, the last one answered with success |

Abstractions, each chosen so that no property can tell the difference or so that
the model allows more than the code:

- A manifest is the number of the finalize call that sent it. Requests that are
  refused on the first read (wrong token, unknown job, wrong state) change
  nothing and are no step. `head`, the size comparison and the magic bytes of
  `submit` are read at once.
- `put_bytes` is split into truncate and fill for the approved manifest, which
  others read while it is written. The previews and manifests the worker writes
  are only read by others after a status change that follows the write; they are
  one step. `put_file` is two steps always. A copy whose file is unlinked goes on
  into nothing, as on POSIX. Two uploads never copy at once because the handler
  is a coroutine that does not await while it copies.
- A write or a database access that raises (disk full, database locked) is not
  modelled, except where the code deletes: there `rmtree` may fail part of the way.
- Progress reports, metrics, `completed_once`, `version` and finding counts
  decide nothing in the modelled code and are left out. `LocalTaskQueue` does
  nothing, so the rollbacks around `enqueue` cannot run.
- `list_expired` is taken without its limit of 100 rows.
- `claim_local_task` takes any job of the oldest second, as SQLite may.
- The limits of `create_job` only make it refuse; here it never does.

### AWS

`CloudTable` is the table and the optimistic update: a consistent read, then a put
on the condition that the version is unchanged. The condition holds just when
nobody else has put in between, so a read is `fresh` until someone puts and
`stale` from then on, and no version has to be counted. `CloudQueue` is the queue as
`task_queue.py` uses it; a receipt handle is the receive count, since a later
delivery outdates the handle of an earlier one. `CloudService` has `submit`,
`finalize` and `delete` with their send and their rollback, `CloudWorker` a
document loop from the message to its acknowledgement with the thread that
renews it, `CloudRuntime` the composition. Each extends the one before.

| Model | Code |
|---|---|
| `status`, `auto`, `silent` | the row's `status` and `auto_finalize`, the age of `updated_at` |
| `at[p]`, `on[p]`, `reading[p]` | where a call or loop is, its job, and whether the version it read is still the row's |
| `queue[m]` | a message: job and task, how long it stays hidden, its receive count |
| `approved`, `output` | the review carried by the approved manifest and shown by the output object |
| `letter`, `beat`, `unread`, `manifest`, `why` | the delivery, the time to the next heartbeat, pages not yet reported, the manifest being rendered, the exception |
| `reviews`, `accepted`, `before`, `gone`, `faults` | history: finalize calls, the one whose update won and was not rolled back, the one before it, answered deletes, the faults so far |

Time advances by `Tick`, only when no heartbeat is overdue (`StepInTime`). The code
hides a message for 1800 s (`config.py:59`), renews it every 600 s, a third of that
(`worker/main.py:64`), and respects a lease for the 1200 s between; a message that is
handed back comes again after 30 s. `Lag` is by how much a heartbeat may be late, and
how long the instructions between the receipt and the pipeline, and after it, may
take. In `cloud_work` these are 9, 3, 6, 3 and 1 units: a row may then be put later
than its message was received or renewed, and a redelivery after a crash may meet a
lease that is not over, be handed back and cost one more delivery. In
`cloud`, which asks about the order of writes, they are 3, 1, 2, 1 and 0. `Patience`
ends the counting of a silence, `Message` the messages that exist at a time; a slot is
not reused while a loop still holds its receipt. A rejected upload, and a job whose
upload plan cannot be made, is one that goes from `awaiting_upload` to `failed`
(`reject`). Expiry, the TTL and the cleaner are
left to the local model, which has the same `_expire`; objects in S3 appear whole.

### Detection and redaction

`DetectDocument` runs the pool of `detect_document`: a page is asked about, read
again by OCR where the answer is doubtful, asked about again, and may fail in four
ways, of which one is that the progress callback raises; the failure of the first page in
order is raised once the pool has drained;
values are propagated over all pages. What each of its steps does to words is
specified by itself in `PageAnchors` (a value against the words of a page, whose
letters are members of a small alphabet and whose thresholds are constants; `long` are
its fragments that have the length the code asks for, punctuation included),
`SsnNet` (with the two separators of the pattern, hyphen and en dash), `MergeDetections` and `LoadDocument`. `RedactionGeometry` follows a box
from the raster, where a word of the text layer may begin and end at a fraction of a
pixel (`Grain`), to thousandths of the page (`Units`), back to pixels, through the
rotation, and to the raster of the check. All of these are loops or pipelines of the
code with one action per round, so that what holds half way is checked too.

### The clients

`BatchQueue` has one task per row with its position in `process()` and the local
variables it keeps across awaits (`mine`, `created`, `job`), the sweeps of
`removeMany`, and what sessionStorage holds. `DocumentClient` has the page, the
refresh under way with the credentials it was sent for, the start of a file and
the action under way. In both, a call takes effect on the server and is answered in
two steps, or is lost before or after the effect; the server is a status per job. A
deletion may also be answered with 404 though the job lives on, when on AWS its update
loses to another (`service.py:282`); the clients take that for deleted. Such copies are
remembered in `denied` and `disowned`, which the clients cannot see.

### Limits and evaluation

`AbuseLimits` has a thread per `create_job`, which counts three times and then
inserts, while jobs move on and the hour passes. `EvaluationRun` has the bucket
(`staged`, `stored`, `checkpoint`, `completion`), the task's memory and the lock of
its state; the task may die at any step and be started again, with another
configuration too. `CorpusSample` is `_allocate`, twice; `ShardPlan` is
`shard_manifest`.

## The runs

| Run | What it asks |
|---|---|
| `lifecycle` (1 job, 1 loop, tabs for upload, review and clearing, 2 reviews, one call may die) | Does every stage find its files, is what a reviewer approved what is delivered, is nothing delivered unreviewed, does erasure stay final, is a completed output stable, does the worker clean up after itself? Does every step implement a step of `JobContract` or none (`KeepsContract`)? |
| `retention` (1 job, one tab that does everything, 2 loops, every kind of fault once, fair) | Is every job in flight on exactly one loop, or on its way to one? Is every overdue job erased for good in the end? |
| `work` (2 jobs, 1 loop, two stops, crashes or outages, a reviewer, fair, the clock stands) | Does all work end without the help of a deadline? |
| `cloud` (1 job, 2 loops, one tab that takes it through a review, one that deletes it, one fault of any of seven kinds) | Does the AWS deployment keep `JobContract` too? Is the accepted review delivered, and a deleted job's output removed, whichever of several writers comes last? |
| `cloud_work` (a reviewed job, 2 loops that lag, an interruption or outage, fair) | Do visibility timeout, heartbeat and lease keep one loop per message, the job's message in the queue, and its last delivery from being turned away? Does its work end? |
| `clients` (a batch of 2 documents with one task through a reload and a pause, or two tasks without; or a page with 2 jobs; one call lost, or one deletion denied) | Is every server copy known to the tab, is a cleared batch gone, does what was received or edited stay, does the page show the document it is about, do rows settle and does clearing end? |
| `pools` (2 pages on 2 threads; or 2 documents on 2 threads in up to 3 task starts of 2 configurations) | Does the pool fail for the first page that failed, with nothing left running? Is a value named once boxed everywhere? Are checkpoint and completion marker true, and does every task end? |
| `parts` (each algorithm over all small inputs) | Is the pixel budget held, painted text read, every exact occurrence boxed and nothing else, every SSN at a cut caught, every detection covered by the merge, every word painted and found painted, every overshoot of a limit bounded, every sample and shard plan exact? |
| `two_reviewers` (violation) | Does an accepted review stay the stored one? It does not: see below. |
| `late_upload` (violation) | Is nothing left of an expired job? Something is. |
| `detector_down` (violation) | Does the worker remove what it wrote late, when the model server fails? It does not. |
| `leftover_message` (violation) | Is a row in flight claimed again only after its loop fell silent? Not always. |

`clients`, `pools` and `parts` each hold components that share no variable. A
variable of the MC module (`client`, `pool`, `part`) says which of them a behaviour
is about; the others rest in a final state. Nothing is lost by checking them
together, and no product of their state spaces arises. Their invariants are one
conjunction per component (`BatchSafe`, `PageSafe`, `DetectSafe`, `EvaluationSafe`,
`LoadSafe`, `AnchorSafe`, `NetSafe`, `MergeSafe`, `GeometrySafe`, `LimitsSafe`,
`SampleSafe`, `ShardSafe`): the component's type invariant and its safety properties,
each a definition with a name and a comment of its own.

Bounds on one machine. One job is enough for the properties of a job, since nothing but
`claim_local_task` relates two jobs; the run that asks about starvation has two. `MaxReview` bounds the finalize calls of a job: two let a
completed job be reopened, and two concurrent reviews collide. `Pages` is 1: the
loop over pages is then still entered, checked and left, and the type proof covers
every number. `MaxTick` bounds the distinct seconds in which jobs are created.
`MaxFaults` bounds faults: one or two, of any kind the run lists, at any point.
The next-state relations have no other bound. Deadlock is not an error: once every
job is expired and nobody calls, nothing is left to do.

Bounds on AWS. Rows and messages of two jobs do not touch; one job is enough. Two
loops are what a redelivery needs to collide. `cloud` has one review and one fault:
an automatic job that is completed and then reviewed has an old and a new output,
and a message of each; `leftover_message` has two reviews, since it takes a
second one to bring two claimable messages of one task together without a repeated
delivery. `cloud_work` has one fault, which three deliveries surely survive even when
a redelivery is handed back; two faults and one that is handed back exhaust them, as
TLC shows with `MaxFaults = 2`, and with `MaxReceive = 5` it passes. Loops, and
slots for messages, are interchangeable, and `cloud`, which has no liveness
property, uses that symmetry.

Bounds of the clients. Two rows show one task going on while another is retried or
swept; two attempts per row, or two jobs on the page, show an old copy beside a new
one; one lost call suffices for every disagreement of tab and server that the code
handles, since it treats each call by itself. `Allowances` couples the bounds of the
batch: two tasks at a time without reload and pause, or one with both. `Budgets` does so
for the page: one call lost or denied, or one reload.

Bounds of the pools. Two pages distinguish the first failing page in order from the
first in time, two values a named one from a located one; the net finds something on
the last page only (`FewShapes`), as it looks at each page by itself. Two documents let one fail
while the other holds the lock; three starts let a resumed task be resumed again.

Bounds of the parts. Words of up to 2 letters of 2, up to 3 on a page, and values of
up to 4, with thresholds scaled down so that each is met from both sides; identifiers
with either separator in each place, cut among their digits and on both sides of the
first separator into up to 3 words; three detections of two groups on a 2 by 2
grid, which is what a chain needs; a page of 11 by 3 and one of 4 by 10 pixels
with words on half pixels, in thirds of the page instead of thousandths and with a
padding of 2, so that a third is 3.7 pixels wide where a thousandth of the largest
pages has some 5 to 7, and every rounding goes either way; three jobs and two calls
against limits of one; strata of up to 5 documents; 5 documents of up to 4 pages on
3 shards. Files have up to 3 pages
against a limit of 2; those of 3, which are refused for their number, have equal pages
(`FewDocuments`), and of 3 words of the net one has no digit at most (`FewMasks`).
Letters are interchangeable (`Symmetry`).

Fairness on one machine (`Scheduled`, `TimePasses`). Weak fairness of a call that has begun, of
every loop, of the cleaner and of the exit of a stopping process: each is a thread
of its own that the system schedules and that waits for nobody. Weak fairness of
the start: `restart: unless-stopped` in `docker-compose.yml` (lines 24, 43, 85),
provided the model server answers the preflight eventually. In `retention` time
passes. No client is obliged to call, no fault to happen, and a fault that may
happen only finitely often is the assumption both liveness runs rest on: with a
disk on which `rmtree` fails forever no job is ever erased.

Fairness elsewhere, all of it weak. AWS (`Fairness`): a call that was started goes on, a
loop goes on and polls, its heartbeat thread runs, and time passes; a crashed loop
polls again because the instance is replaced. Clients (`BatchFairness`,
`ClientFairness`): a call is answered or fails, a timer fires, a job the server works
on ends; the user owes nothing, so `RowsSettle` excepts a paused batch.
`DetectFairness`: a request ends, by its timeout if by nothing else, and each thread of
the pool is scheduled. `EvaluationFairness`: a running task takes steps; it need not
be started again.

### What the violation runs show

- **Two reviewers** (`service.py:241`). `finalize` stores the approved manifest
  and only then moves the row. Of two calls that both read `REVIEW_REQUIRED` one
  is accepted and one refused, and the refused one may have written last: the
  worker renders boxes nobody was told were accepted. The tests ask that a finalize
  while the redaction is queued leaves the stored manifest alone.
- **Late upload** (`api/main.py:243`). The row is checked before the body is
  streamed. When the job expires meanwhile the document is stored under a row that
  `list_expired` no longer returns, against the one-hour retention of the README.
- **Detector down** (`worker/main.py:138`). `pipeline.fail` erases late writes of
  a deleted job; the outage path calls `_release_job` instead, which does not.

- **Leftover message** (`worker/main.py:90`). `_claim_aws` judges the lease by one
  read of the row and claims it by another. A loop that is interrupted between the
  completion of a job and the acknowledgement leaves its message behind; when the job
  is reviewed again, that message and the new one may both be received while the row is
  queued, and the second claims a job the first has just begun, which the comment at
  `worker/main.py:82` excludes.

`WorkerLeavesNothing` is checked in `lifecycle` for the paths that go through
`fail` and `_mark_complete`, and refuted in `detector_down` for the one that does
not. The same leftovers follow a crash of the worker or a storage error while it
erases; the retention pass does not return to a row that is `EXPIRED`.

### What the properties except

`AcceptedReviewDelivered` of `cloud` and the contract except what follows a message in
doubt (`InDoubt`): when a send fails after SQS took the message, SQS delivers one twice,
so many renewals are lost that a message reappears before its loop is through with it
(`AnswersLate`), or a crash leaves a message over to a later review, two loops may run
one job, and the slower one may put the boxes of an earlier review back, never others.
`LastDeliveryTaken` speaks of the last delivery only: an earlier one may be turned away
for the lease of its row, which costs nothing but time. `BatchSafe` and `PageSafe`
except exactly the copies whose creation or deletion was never answered and those whose
deletion was denied while they lived (`Unknowable`, `orphans`, `disowned`): the client
cannot know of them, and the deadline has to erase them.
`OneLoopPerMessage` excepts the repeated delivery and renewals so late that the message
reappears under the pipeline (`RenewalsLate`), the two ways to receive a message whose
loop is at work. `DeletedOutputRemoved` excepts a crash of the loop that would have
removed the output. `ActiveOvershootBounded` does not count reopened jobs,
`RecentOvershootBounded` not those whose rows the TTL took. `ExactRunsBoxed` is about
runs within the window and without empty words, `NetCatches` about identifiers in one word or
cut in two beside a hyphen (not beside an en dash), `PaintedTextRead` about a deployment with OCR. The
run's pages satisfy the bound of `WordPainted` that the theorem about it names. The
exceptions are what the code does, as the next section says.

### Statements that do not hold

While modelling, these statements of the repository turned out to be stronger than
the code. The models have the behaviour; no run is spent on showing it.

| Statement | What the code does |
|---|---|
| Interruptions are absorbed by the visibility timeout (`docs/OPERATIONS.md:41`) | One surely is. Two, and a redelivery that is handed back because the lease is not over, use up the three deliveries (`MaxFaults = 2` in `CloudWork.cfg`). And an automatic job is redacted under its DETECT message, which `_claim_aws` (`worker/main.py:89`) refuses for a row that is `REDACTING`; after an interruption then the message is acknowledged and the job stays in flight until it expires. |
| Where the lease is held, this is a duplicate delivery for a job another worker is still processing (`worker/main.py:84`) | It may be the delivery after a crash: the message has been hidden since it was received or renewed, the row's lease counts from a put after that. The redelivery is handed back, which costs one of three deliveries; `cloud_work` has such behaviours. |
| The output of another worker stays untouched (`worker/pipeline.py:209`) | The output is put (`pipeline.py:189`) before the update that tells whether the loop still owns the job. |
| A missing job is already deleted (`frontend/src/App.tsx:539`) | `delete` answers 404 when its update loses to any put, a progress report for one (`service.py:282`), and the job lives on. `batch.ts:215` reads the 404 in the same way. Page and batch then drop the credentials, and nobody can delete the copy before its deadline. |
| Five active jobs per network (`README.md:58`) | `finalize` takes a completed job back among the active ones without a look at the limit (`service.py:246`). |
| 100 jobs per hour (`docs/THREAT_MODEL.md:30`) | `delete` gives the row to the TTL (`service.py:280`), and its part of the count with it. |
| Artifacts of two configurations cannot be mixed (`docs/ARCHITECTURE.md:55`) | The artifacts of the first document are stored before the first checkpoint that names the configuration (`aws_runner.py:206`). |
| Overlapping boxes are merged (`docs/ARCHITECTURE.md:40`) | A widened box is not compared again, so two boxes that a third joins still overlap (`anchor.py:133`); nothing is uncovered. |
| An SSN-shaped value is always covered (`docs/REDACTION_POLICY.md:38`) | Not when it is cut into three words, or in two away from a hyphen (`anchor.py:114`). Nor in two at an en dash, which the pattern admits (`anchor.py:90`) and the join does not look for (`anchor.py:116`). |
| Every occurrence on the page is boxed (`anchor.py:5`) | Not one with a word of mere punctuation in it, when another is found (`anchor.py:45`). |
| Pixel-accurate by construction (`docs/ARCHITECTURE.md:54`) | Where a side has 7000 pixels or more, which the budget of 24 million admits, half a thousandth of it is more than the padding of three pixels makes up for (`document.py:84`); for words of the text layer, whose edges are fractions of a pixel, already from 5000 on. A page of 14 inches has 5600 at the largest `render_dpi` of 400 and 2800 at the default of 200. |
| A minimum box keeps a rendered pixel (`renderer.py:130`) | Not on a page of less than 250 points, where it may round to none and the document is refused (`renderer.py:136`). |
| Form text does not ship unread without OCR (`document.py:263`) | One page that cannot be extracted makes `_pdf_words` forget the marks of all (`document.py:143`). |
| A taxpayer identifier that cannot be located never ships silently (`detector.py:38`) | It does when the page has a box of another one (`detector.py:214`). |
| A batch cleans up a partial upload (`App.test.tsx:306`) | Not for a row retried while its earlier job still waits for an upload: `job` is the answer about the earlier one (`batch.ts:306`). |
| Review, then download (`README.md:31`) | A refresh sent before approve and answered after it takes the page back to the review, from which it does not poll (`App.tsx:198`, `235`). |

## The theorems

Every theorem holds for any sets of jobs, clients, loops, pages, documents and so on,
any calls, faults and bounds, from the assumptions the modules state on their constants
(`StoreAssumption`, `CloudWorkerAssumption`, `LimitsAssumption`, ...: natural bounds,
distinct markers, finite sets where something is counted). Where a theorem has a
hypothesis of its own it is named below, with the run that shows why it is needed.
The invariants were checked with TLC before they were proved, those of one machine on
the instances of `lifecycle` and `retention`, those of AWS on `cloud` and `cloud_work`.

### One machine

`LocalRuntime_proofs`: `TypeCorrect` (`Spec => []TypeOK`). Not inductive
alone: that the page counter stays within the document needs `PagesLeft`, a loop about
to store a preview has a page left.

In the same module: `SingleOwnerAlways`, `NoOrphanAlways`, `TombstoneStays`. They share the inductive invariant `OwnerInv`. A loop does not lock its
row, so what it knows of it is what no other step can undo: the row is in the
loop's stage or a tombstone (`Owns`), an error of kind "cancelled" was raised on a
tombstone or an overdue row, and a validation error is amended on a row that is
still being redacted. The proof has one lemma for the steps outside the worker
(`OutsideStep`: they bury rows, or move rows that no loop is on), one for the
steps of a loop (`LoopStepEffect`: its own job only, and on leaving, the row is
out of flight or overdue) and one for the process. `FinalizeRead` carries the
status `finalize` read from its first look to its update; without it the update
could name a tombstone.

`LocalRuntimeFiles_proofs` builds on these, in four steps.

- `PlaceInv` adds that a call is on a job that has a row, and one that erases on a
  job that was buried.
- `ManualJobsAreReviewed`: no manual job is delivered unreviewed. `ReviewInv`
  adds that the `auto_finalize` a loop read when it claimed is still the row's
  (`AutoAsClaimed`): only a `finalize` changes it, under a status no loop works under.
- `LateWritesAreErased`: a worker leaves nothing behind, `WorkerLeavesNothing`, if
  no erasure fails half way and no loop is cut short (`NothingCutShort`; the run
  `detector_down` shows it fails otherwise). What is swept and has no loop that may
  still write for it is clean (`CleanInv`).
- `StagesHaveTheirFiles`, `AcceptedReviewsAreDelivered`, `CompletedOutputsAreStable`
  and the refinement `DeploymentKeepsContract`. `FilesInv` says what is behind the
  status of a row (`JobFiles`), and what a call (`CallFiles`) and a loop (`LoopFiles`)
  may rely on at each step as long as the job is not buried. A step changes the files
  or the row of one job at most, so a step lemma gives either nothing of the contract
  (`Unmoved`) or one of its steps (`Moved`), and the refinement follows from
  the same case distinction as the invariant.

The last four hold of the behaviours in which no two uploads of a job and no two reviews
of a job overlap (`OneAtATime`, a hypothesis on the states and not on the constants);
`late_upload` and `two_reviewers` are what happens when they do. `OneEditorIsServed`
discharges it: with at most one client that uploads and submits and at most one that
reviews (`OneEditor`, on `Calls`), any other clients and all faults, the overlap does
not arise, so that the deployment implements `JobContract` without further ado.

### AWS

`CloudRuntime_proofs` has the first three theorems.

- `CloudTypeCorrect`. The types need that a process that is not idle is busy with a
  job, and that a call has read the row by the time it updates it (`TypeInv`).
- `OneLoopPerMessageAlways`: a message has one loop, for any visibility longer than a
  heartbeat and what a loop may dawdle (`CloudWorkerAssumption`). The clock
  enters as an inequality: while a loop is at work, it holds the current receipt, and
  the message stays hidden for at least `beat + Visibility - Slack`, where `Slack` is
  `Lag` and a `Beat` for the renewal due and for each that was lost (`StaysHidden`).
  Two loops with the current receipt would have received the same delivery, which
  `ReceiptsDiffer` excludes. A renewal sets the time anew, a lost one adds to
  `Slack`, and time passes for the message and the heartbeat alike. `StaysHidden` is
  claimed only until SQS delivers twice or renewals are late.
- `DeletedOutputsRemoved`: whichever of several writers comes last, no output stays for
  a deleted job. `RemovalComes` names, for every deleted job with an output, the
  process that is going to remove it. The hypothesis is that calls are not cut off
  or that one client deletes: of two deleters one may be answered "not found" while
  the other has buried the row and dies before it removes the files, and then nobody is
  left who would.

`CloudFiles_proofs` proves what the deployment delivers: `AwsDeliversAcceptedReviews`
(`[]AcceptedReviewDelivered`) and `AwsKeepsContract` (`KeepsContract`, the refinement of
`JobContract`). Their hypothesis `OneReviewAtATime` is on the states: no two calls review
one job at a time; without it two callers can both write the approved manifest, which
`two_reviewers` shows on one machine. `AwsServesOneEditor` discharges it by `OneEditor`,
an assumption on `Calls` alone. First every action is given the form of its effect on
one job, one process and one message (`CallSteps`, `LoopSteps`, `CallMessages`,
`LoopMessages`); the invariant then grows in layers, each proved from those below.

- Control (`ControlInv`): which status a process may still find, from what it read and
  whether that is fresh. A put is allowed only on a fresh read, so `CallFinds` and
  `LoopFinds` say what it found.
- Reviews (`ReviewInv`), in doubt or not: no output carries a review later than the
  accepted one, nor does what a job waiting to be rendered has approved, which gives the
  second half of `AcceptedReviewDelivered`.
- Hold (`HoldInv`): from its receipt to its acknowledgement a loop holds the current
  delivery, as long as `AnswersLate` is false. That goes beyond `StaysHidden`, which
  ends with the pipeline, and is the reason why `InDoubt` speaks of `AnswersLate`: the
  way from the pipeline to the acknowledgement takes a second lag, which the bound of
  `RenewalsLate` leaves out.
- Tokens, stages and delivery (`WorkInv`), while nothing is in doubt. A job has one
  message for its detection, and one for its last review besides those that
  are about to be acknowledged (`DetectTokens`, `RedactTokens`); so whoever puts a row
  is the only loop at work on it (`Alone`), the row is at the stage of its loop (`Stage`),
  and manifest, rendering and output are those of the accepted review (`DeliveryInv`).

`CloudWork_proofs` is about interruptions, and assumes calm weather otherwise (`Calm`):
sends, renewals and deliveries do not fail, and a job has one review or loops do not
crash. Loops crash, calls die, documents are bad and the model is down. Loops may lag:
three lags (`Margin`) are no longer than the delay of a message that is handed back, and
with a heartbeat shorter than the visibility timeout. With the 30 s, 600 s and
1800 s of the code these hold for heartbeats, and ways from the receipt to the pipeline,
late by up to ten seconds. Then no message is ever in doubt, and all of the above is
available.

- `AwsLastDeliveryTaken` (`LastDeliveryTaken`), if a message has more than two deliveries
  for each fault (`2 * MaxFaults < MaxReceive`). The invariant relates two clocks: the
  lease of a row in flight outlasts the hiding of a message that nobody holds by no more
  than the margin (`LeaseInv`), since every put of a row is one under its message
  (`PutsUnderMessage`). So a redelivery may be handed back, but by the time it comes
  again the lease is over (`ReturnInv`): a fault spends the delivery it ends and at
  most one that is handed back, and a message is received at most `2 * FaultsSoFar + 1`
  times (`CountInv`).
- `AwsWorkHasMessage` (`[]WorkHasMessage`), from the same bound, if no call dies before it
  sends and jobs are manual (`ManualJobs`). By `CountInv` nothing becomes a
  dead letter; a loop gives up only on a deleted job (`LostInv`) and acknowledges only when
  the row has left the message's statuses (`AcksAreDone`); so the message that
  carries a row stays until a later one does (`CarryInv`). `cloud_work` is an instance of
  these hypotheses, with a lag. The excepted automatic job is the one whose redaction runs
  under its detection's message, a call that dies leaves a queued row without one, and
  three deliveries do not surely outlast two faults: TLC refutes `WorkHasMessage` with
  `MaxFaults = 2`.
- `AwsSurvivesInterruptions` states both with `OneEditor` for `OneReviewAtATime`.

### Detection and redaction

`Pools_proofs` proves `DetectionSafe` (`[]DetectSafe`) for any number of pages
and threads and any texts. The pages collected so far are done, a raise is for the
page after them and comes when no page is waiting any more (`InPageOrder`); once
there is a result, no page is open, so that nothing can change what the result was
drawn from (`Over`). That `progress` counts the pages that are done is part of the
types and goes through `DoneGrows` and `DoneStays`.

`Parts_proofs` has a section for each of the algorithms below.

- `DocumentsLoadSafely` (`[]LoadSafe`): the budget of pixels is held, no page is
  rendered that the budget does not cover, and painted text was read, for any files, pages, budgets and
  settings. `LoadInv` follows the pages through the passes of loading: those a pass
  is through are counted, extracted, rendered or read.
- `NetIsSafe` (`[]NetSafe`): the net catches every identifier in one word or cut into
  two beside a hyphen, boxes nothing else, and uses no word for two identifiers. That the
  code's test on the ends of two words says where the identifier is cut is `PairIsCut`,
  from the letters of the shape (`TwoParts`, `CutBesideHyphen`); at an en dash
  that test fails. Of a pair the
  net joins, the second word is used up and is passed over next; nothing is missed
  by that because the tail of an identifier cut at a hyphen neither is one nor begins
  another (`CutTailStandsAlone`).
- `MergedSafely` (`[]MergeSafe`), for any number of detections on any grid: `Covered`,
  `NothingBeyondHull` and `IdsDistinct` with the types, by the hull of two boxes
  (`HullAround`) and the fact that an id in the result has been processed (`IdsDone`).
- `WordsAreHidden` (`[]GeometrySafe`): the painted pixels cover the word, and the pixels
  the check looks at are painted, for any boxes, rotations and resolutions and any
  sizes within two bounds. `UnitsFine`: sides shorter than `(2 * Padding - 1 + 2 / Grain) *
  Units` pixels, 7000 in the code for words on whole pixels and 5000 for any others. `CheckFine`: `Dpi <= (2 * Padding - 1) * CheckDpi`; in the code 400 is the
  largest `render_dpi` (`config.py:56`) and `5 * 144` the bound. The first one the code does
  not guarantee (see the statements that do not hold). Rounding is off by
  half a unit at most in each of the two directions; the
  lemmas bound each rounding by itself and carry them through the four rotations.

### Clients, limits and evaluation

`Clients_proofs` proves both clients, for any number of jobs, lost calls and reloads.

- The page. `PageIsSafe` (`[]PageSafe`): an answer that is still on its way may
  outlive what it was asked about, so the invariant says what it may say: a 404 to a
  refresh is of a job that is gone (`AnswersTrue`), what an action reports as deleted is
  gone or was denied (`Acting`), nothing counts while a file is being started
  (`Starting`), and an action is about the job of the page unless that was lost
  meanwhile. `EditsAreKept` (the action property `EditsKept`) adds that a
  refresh that counts and goes on to load boxes began when the page had none, and that
  it still has none (`EditInv`): its answer can replace nothing that was edited.
- The batch, for any number of rows, attempts and parallel tasks. `BatchIsSafe`
  (`[]BatchSafe`) and `ResultsAreKept` (the action property `ReceivedStays`): a row
  with a task is at work and has the credentials its task uses (`Agree`), so at every
  step of a task the row alone has those of every copy the tab was told of and was not denied
  (`CopiesHeld`; `CopiesKnown` would let the task have them). A sweep finds what it read,
  because its rows have no task and get none (`SweepTrue`), and a batch that was
  cleared is at rest (`ClosedTrue`). A step of a task is reduced to one form, the
  row and task it leaves and the copies it touches (`TaskEffect`), which keeps the
  invariant (`MovesKeep`). That the queue starts no more tasks than are free is counted
  (`PumpEffect`): the waiting rows it takes are the first few (`FirstFew`).

`LimitsHold` in `Parts_proofs` (`[]LimitsSafe`, from `ActiveLimit` and `RecentLimit`),
for any networks, jobs, threads and limits. The limit
alone is not inductive: what is, is that jobs and the calls on their way to become
jobs together stay within the limit and the other threads (`ActiveRoom`,
`RecentRoom`). A count that finds room says that the jobs alone are below the
limit, which, with any set of threads let through, gives the bound (`RoomFound`); an
insertion turns a call into a job and leaves the sum (`Exchanged`).

`ShardsPlanned` in `Parts_proofs` (`[]ShardSafe`), for any documents, page counts and
no more shards than documents. The placed documents are at
least as long as those that are left (`LongestFirst`), so the last document of a
shard is its shortest, and the shard that got it was the lightest then; while a
shard is empty no other has two documents (`OneEachWhileEmpty`), so that with no
fewer documents than shards none stays empty.

`Pools_proofs` also proves `EvaluationTrue` (`[]EvaluationSafe`) and
`CheckpointKept` (the action property `CheckpointedStays`) for any finite set of
documents, any configurations, threads and starts, from `EvaluationAssumption` and
`NoneAssumption` (the marker for "no object" is no object). The task keeps in memory
what the bucket holds, so the invariant relates both: what a thread has uploaded by
the step it is at (`StepsFiled`), that a listed document is not worked on any more and
its files are there (`ListsTrue`), and what the marker counts (`CompletionTrue`).

### Only model-checked

- `AnchorSafe` and `SampleSafe`: they rest on sequences and sums built by folds over
  data of any size, which take induction over data.
- Liveness (`WorkEnds`, `RetentionHonoured`, `RowsSettle`, `ClearEnds`, `ReviewReached`,
  `DetectionEnds`, `TaskEnds`) is beyond the prover.

## Not modelled

- Expiry, deadlines and the cleaner over the AWS stores; the eventual consistency
  of the client index the counts use there; the presigned upload and the lifecycle
  rule of the bucket. A job that is stuck on AWS is ended by its deadline.
- The HTTP client of the detector and the supervision of the model server
  (`worker/vllm_server.py`): their outcomes are a choice in `DetectDocument` and the
  worker modules. The prompt is text.
- `redaction/layout.py` (words as lines for the model) and the encoding of PDF and
  previews: no state, and no property of the models is about them.
- `ReviewDialog.tsx`, the undo history, `batchDownload.ts`, the review canvas and
  the previews: state of one dialog, archive or gesture.
- Evaluation: the CLI, scoring and contact sheets; two tasks at once; the deletion
  in batches of 1000 within a reset; an outage of the model server, which counts as
  a result, as in the code.
- Analytics and the owner dashboard read logs and metrics only. Configuration,
  logging and infrastructure are start-up wiring and declarations; the settings of
  queue and table appear as constants of the AWS modules.

## Plan

What is left: expiry over the AWS stores, and the review dialog with its undo history.

## Running

    tlc -config Lifecycle.cfg MCLocalRuntime
    tlc -config Cloud.cfg MCCloudRuntime
    tlc -config Parts.cfg MCParts
    tlapm LocalRuntime_proofs.tla
    tlapm LocalRuntimeFiles_proofs.tla
    tlapm CloudRuntime_proofs.tla
    tlapm CloudFiles_proofs.tla
    tlapm CloudWork_proofs.tla
    tlapm Parts_proofs.tla
    tlapm Clients_proofs.tla
    tlapm Pools_proofs.tla

Each proof module is checked from nothing in one to seven minutes.

The longest runs are `cloud`, `clients`, `parts` and `pools`: one to three minutes
each with two workers. The violation runs stop at their counterexample.
