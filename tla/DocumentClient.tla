--------------------------- MODULE DocumentClient ---------------------------
(***************************************************************************)
(* The page of a single document (frontend/src/App.tsx): starting a file,  *)
(* polling its job, loading its boxes once, approving them, downloading    *)
(* and deleting, with the answers of calls that were sent earlier arriving *)
(* later. The service is reduced to what it answers.                       *)
(***************************************************************************)
EXTENDS Naturals

CONSTANTS
  MaxJobs, \* bound: jobs created
  Budgets  \* bounds: calls lost or denied, reloads of the tab

ASSUME ClientAssumption == MaxJobs \in Nat \ {0} /\ Budgets \subseteq [lost : Nat, reloads : Nat]

VARIABLES
  server,   \* per job: its status
  orphans,  \* jobs whose creation was never answered
  disowned, \* jobs that lived on when their deletion was answered "not found"
  page,     \* credentials, the job shown and its status, whose boxes are loaded,
            \*   whether they were edited, retryFile, loadFailure, and whether the
            \*   effect that refreshes has to run
  start,    \* startFile: what it does next
  action,   \* the action in flight: what it is, what it does next, what it found
  refresh,  \* per job: its refresh, whether it is the current request, whether
            \*   the boxes were loaded when it began, the answer on its way
  budget    \* what is left of the bounds

clientVars == <<server, orphans, disowned, page, start, action, refresh, budget>>

Job == 1 .. MaxJobs
Processing == {"detecting", "redacting"}
Status == Processing \cup {"awaiting", "review", "complete", "failed", "gone"}

NoRefresh == [at |-> "idle", current |-> FALSE, loaded |-> FALSE, answer |-> "none"]
NoAction == [kind |-> "none", at |-> "idle", of |-> 0, ok |-> FALSE]
Empty == [credentials |-> 0, job |-> 0, status |-> "none", boxes |-> 0, dirty |-> FALSE,
          file |-> FALSE, loadFailed |-> FALSE, effect |-> FALSE]

PageRecord ==
  [credentials : 0 .. MaxJobs, job : 0 .. MaxJobs, status : Status \cup {"none"},
   boxes : 0 .. MaxJobs, dirty : BOOLEAN, file : BOOLEAN, loadFailed : BOOLEAN, effect : BOOLEAN]
ActionRecord ==
  [kind : {"none", "approve", "remove", "retry", "download", "status"},
   at : {"idle", "sent", "answered", "fetch"}, of : 0 .. MaxJobs, ok : BOOLEAN]
RefreshRecord ==
  [at : {"idle", "job", "jobAnswered", "boxes", "boxesAnswered"},
   current : BOOLEAN, loaded : BOOLEAN, answer : Status \cup {"none", "lost"}]

ClientTypeOK ==
  /\ server \in [Job -> Status \cup {"none"}]
  /\ {orphans, disowned} \subseteq SUBSET Job
  /\ page \in PageRecord /\ action \in ActionRecord /\ refresh \in [Job -> RefreshRecord]
  /\ start \in {"idle", "create", "upload", "submit"}
  /\ \A k \in Job : refresh[k].current => k = page.credentials

ClientInit ==
  /\ server = [k \in Job |-> "none"] /\ orphans = {} /\ disowned = {}
  /\ page = Empty /\ start = "idle" /\ action = NoAction
  /\ refresh = [k \in Job |-> NoRefresh]
  /\ budget \in Budgets

Lose == budget.lost > 0 /\ budget' = [budget EXCEPT !.lost = @ - 1]

\* clearCurrentJob: nothing that was sent for this job counts any more. The
\* file that can be retried is not part of it.
Outdated == [k \in Job |-> [refresh[k] EXCEPT !.current = FALSE]]

FreeJob(k) == server[k] = "none" /\ \A o \in 1 .. k - 1 : server[o] # "none"

-----------------------------------------------------------------------------

\* startFile, from beginBatch; the intake is shown when there is no job.
ChooseFile ==
  /\ start = "idle" /\ action = NoAction
  /\ page.credentials = 0 /\ page.job = 0 /\ ~ page.file
  /\ \E k \in Job : FreeJob(k)
  /\ start' = "create" /\ page' = [Empty EXCEPT !.file = TRUE]
  /\ UNCHANGED <<server, orphans, disowned, action, refresh, budget>>

StartEnds == start' = "idle" /\ action' = NoAction

Create ==
  /\ start = "create"
  /\ \E k \in Job : FreeJob(k) /\ server' = [server EXCEPT ![k] = "awaiting"]
                    /\ page' = [page EXCEPT !.credentials = k]
  /\ start' = "upload"
  /\ UNCHANGED <<orphans, disowned, action, refresh, budget>>

CreateFails ==
  /\ start = "create" /\ StartEnds
  /\ \/ UNCHANGED <<server, orphans, budget>>
     \/ /\ Lose
        /\ \E k \in Job : /\ FreeJob(k) /\ server' = [server EXCEPT ![k] = "awaiting"]
                          /\ orphans' = orphans \cup {k}
  /\ page' = [Empty EXCEPT !.file = TRUE]
  /\ refresh' = Outdated /\ UNCHANGED disowned

UploadStep ==
  /\ start = "upload"
  /\ \/ /\ server[page.credentials] = "awaiting" /\ start' = "submit"
        /\ UNCHANGED <<action, budget>>
     \/ server[page.credentials] = "gone" /\ StartEnds /\ UNCHANGED budget
     \/ Lose /\ StartEnds
  /\ UNCHANGED <<server, orphans, disowned, page, refresh>>

SubmitStep ==
  /\ start = "submit" /\ StartEnds
  /\ LET k == page.credentials IN
       \/ /\ server[k] = "awaiting" /\ server' = [server EXCEPT ![k] = "detecting"]
          /\ page' = [page EXCEPT !.job = k, !.status = "detecting", !.file = FALSE]
          /\ UNCHANGED budget
       \/ server[k] = "gone" /\ UNCHANGED <<server, page, budget>>
       \/ Lose /\ UNCHANGED <<server, page>>
       \/ /\ Lose /\ server[k] = "awaiting" /\ server' = [server EXCEPT ![k] = "detecting"]
          /\ UNCHANGED page
  /\ UNCHANGED <<orphans, disowned, refresh>>

-----------------------------------------------------------------------------

\* refresh, up to its first await: nothing while a file is being started or a
\* refresh of the same job is under way.
MayRefresh ==
  /\ page.credentials # 0 /\ start = "idle"
  /\ ~ (refresh[page.credentials].at # "idle" /\ refresh[page.credentials].current)

RefreshBegins ==
  refresh' = [Outdated EXCEPT ![page.credentials] =
                [at |-> "job", current |-> TRUE, loaded |-> page.boxes # 0, answer |-> "none"]]

\* The effect runs when the credentials or the boxes changed.
Effect ==
  /\ page.effect /\ page' = [page EXCEPT !.effect = FALSE]
  /\ IF MayRefresh THEN RefreshBegins ELSE UNCHANGED refresh
  /\ UNCHANGED <<server, orphans, disowned, start, action, budget>>

\* Mutant: only a job that is being rendered is polled.
PollRedaction ==
  /\ page.status = "redacting" /\ MayRefresh /\ RefreshBegins
  /\ UNCHANGED <<server, orphans, disowned, page, start, action, budget>>

Poll ==
  /\ page.status \in Processing /\ MayRefresh /\ RefreshBegins
  /\ UNCHANGED <<server, orphans, disowned, page, start, action, budget>>

\* The service answers getJob or getManifest; the answer travels.
RefreshRead(k) ==
  /\ refresh[k].at \in {"job", "boxes"}
  /\ \E a \in {server[k], "lost"} :
       /\ IF a = "lost" THEN Lose ELSE UNCHANGED budget
       /\ refresh' = [refresh EXCEPT ![k].answer = a,
            ![k].at = IF @ = "job" THEN "jobAnswered" ELSE "boxesAnswered"]
  /\ UNCHANGED <<server, orphans, disowned, page, start, action>>

Idle(k) == [refresh EXCEPT ![k] = NoRefresh]

\* Mutant: the answer is taken whatever was begun in between.
CurrentAnyway(k) == refresh[k].current \in BOOLEAN

\* isCurrentRequest.
Current(k) == refresh[k].current

\* Mutant: the boxes are loaded at every refresh of a review.
LoadsEveryTime(k) == refresh[k].answer = "review"

LoadsBoxes(k) == refresh[k].answer = "review" /\ ~ refresh[k].loaded

\* "404": clearSession, which outdates what is in flight.
SessionGone(k) ==
  /\ page' = Empty
  /\ refresh' = [Outdated EXCEPT ![k] = NoRefresh]

JobArrives(k) ==
  /\ refresh[k].at = "jobAnswered"
  /\ LET a == refresh[k].answer IN
       \/ ~ Current(k) /\ refresh' = Idle(k) /\ UNCHANGED page
       \/ Current(k) /\ a = "gone" /\ SessionGone(k)
       \/ /\ Current(k) /\ a = "lost" /\ refresh' = Idle(k)
          /\ page' = [page EXCEPT !.loadFailed = @ \/ page.job = 0]
       \/ /\ Current(k) /\ a \notin {"gone", "lost"}
          /\ page' = [page EXCEPT !.job = k, !.status = a,
                                  !.loadFailed = @ /\ LoadsBoxes(k)]
          /\ refresh' = IF LoadsBoxes(k) THEN [refresh EXCEPT ![k].at = "boxes"] ELSE Idle(k)
  /\ UNCHANGED <<server, orphans, disowned, start, action, budget>>

BoxesArrive(k) ==
  /\ refresh[k].at = "boxesAnswered"
  /\ LET a == refresh[k].answer IN
       \/ ~ Current(k) /\ refresh' = Idle(k) /\ UNCHANGED page
       \/ Current(k) /\ a = "gone" /\ SessionGone(k)
       \/ /\ Current(k) /\ a = "lost" /\ refresh' = Idle(k)
          /\ page' = [page EXCEPT !.loadFailed = TRUE]
       \/ /\ Current(k) /\ a \notin {"gone", "lost"} /\ refresh' = Idle(k)
          /\ page' = [page EXCEPT !.boxes = k, !.dirty = FALSE, !.loadFailed = FALSE,
                                  !.effect = TRUE]
  /\ UNCHANGED <<server, orphans, disowned, start, action, budget>>

RefreshStep(k) == RefreshRead(k) \/ JobArrives(k) \/ BoxesArrive(k)

-----------------------------------------------------------------------------

Free == action = NoAction /\ start = "idle"
Reviewing == page.status = "review" /\ page.boxes # 0

Edit ==
  /\ Free /\ Reviewing /\ page' = [page EXCEPT !.dirty = TRUE]
  /\ UNCHANGED <<server, orphans, disowned, start, action, refresh, budget>>

\* What the page offers, by what it shows.
Offered(kind) ==
  \/ kind = "approve" /\ page.credentials # 0 /\ Reviewing
  \/ kind = "remove" /\ (page.credentials # 0 \/ page.job # 0 \/ page.file)
  \/ kind = "retry" /\ page.file /\ \E k \in Job : FreeJob(k)
  \/ kind = "download" /\ page.credentials # 0 /\ page.status = "complete"

Click(kind) ==
  /\ Free /\ Offered(kind)
  /\ action' = [kind |-> kind, of |-> page.credentials, ok |-> page.credentials = 0,
                at |-> IF page.credentials = 0 THEN "answered"
                       ELSE IF kind = "download" THEN "fetch" ELSE "sent"]
  /\ UNCHANGED <<server, orphans, disowned, page, start, refresh, budget>>

\* retryStatus is a refresh the user asks for; the other buttons wait for it.
RetryStatus ==
  /\ Free /\ page.loadFailed /\ MayRefresh /\ RefreshBegins
  /\ action' = [NoAction EXCEPT !.kind = "status", !.of = page.credentials, !.at = "answered"]
  /\ UNCHANGED <<server, orphans, disowned, page, start, budget>>

\* The PDF is fetched before anything is deleted.
FetchResult ==
  /\ action.at = "fetch"
  /\ \/ server[action.of] = "complete" /\ action' = [action EXCEPT !.at = "sent"] /\ UNCHANGED budget
     \/ server[action.of] # "complete" /\ action' = NoAction /\ UNCHANGED budget
     \/ Lose /\ action' = NoAction
  /\ UNCHANGED <<server, orphans, disowned, page, start, refresh>>

\* What finalize or delete does, if it gets there.
Effected(kind, status) ==
  IF kind # "approve" THEN "gone"
  ELSE IF status \in {"review", "complete"} THEN "redacting" ELSE status

\* What a submission or an approval makes of the job that the page gave up
\* waiting for, and that is still on its way.
Overtaken(status) == IF status = "awaiting" THEN "detecting" ELSE Effected("approve", status)

\* A deletion whose put of the row loses to one of the worker, or to such a call, is
\* answered "not found", which the page takes for deleted; the job lives on.
Denied ==
  /\ action.kind # "approve" /\ server[action.of] \notin {"none", "gone", "failed"}
  /\ server' = [server EXCEPT ![action.of] = Overtaken(@)]
  /\ action' = [action EXCEPT !.at = "answered", !.ok = TRUE]
  /\ disowned' = disowned \cup {action.of} /\ Lose

ActionEffect ==
  /\ action.at = "sent"
  /\ LET k == action.of  s == Effected(action.kind, server[k]) IN
       \/ /\ server' = [server EXCEPT ![k] = s] /\ UNCHANGED <<disowned, budget>>
          /\ action' = [action EXCEPT !.at = "answered",
                                      !.ok = action.kind # "approve" \/ s # server[k]]
       \/ Denied
       \/ /\ Lose /\ action' = [action EXCEPT !.at = "answered"] /\ UNCHANGED disowned
          /\ \E after \in {s, server[k]} : server' = [server EXCEPT ![k] = after]
  /\ UNCHANGED <<orphans, page, start, refresh>>

LetsGo(ok) == ok

ActionAnswered ==
  /\ action.at = "answered" /\ start = "idle" /\ action.kind # "status"
  /\ \/ /\ action.kind = "approve" /\ action' = NoAction
        /\ page' = IF action.ok THEN [page EXCEPT !.job = action.of, !.status = "redacting"] ELSE page
        /\ UNCHANGED <<start, refresh>>
     \/ /\ action.kind \in {"remove", "download"} /\ LetsGo(action.ok)
        /\ page' = Empty /\ refresh' = Outdated /\ action' = NoAction /\ UNCHANGED start
     \/ /\ action.kind = "retry" /\ LetsGo(action.ok)
        /\ page' = [Empty EXCEPT !.file = TRUE] /\ refresh' = Outdated /\ start' = "create"
        /\ UNCHANGED action
     \/ /\ action.kind # "approve" /\ ~ LetsGo(action.ok) /\ action' = NoAction
        /\ UNCHANGED <<page, start, refresh>>
  /\ UNCHANGED <<server, orphans, disowned, budget>>

StatusAnswered ==
  /\ action.kind = "status" /\ action' = NoAction
  /\ \A k \in Job : refresh[k].at = "idle" \/ ~ refresh[k].current
  /\ UNCHANGED <<server, orphans, disowned, page, start, refresh, budget>>

Reload ==
  /\ budget.reloads > 0 /\ budget' = [budget EXCEPT !.reloads = @ - 1]
  /\ page' = [Empty EXCEPT !.credentials = page.credentials, !.effect = page.credentials # 0]
  /\ start' = "idle" /\ action' = NoAction /\ refresh' = [k \in Job |-> NoRefresh]
  /\ UNCHANGED <<server, orphans, disowned>>

Work(k) ==
  /\ \E s \in CASE server[k] = "detecting" -> {"review", "failed"}
                [] server[k] = "redacting" -> {"complete", "review", "failed"}
                [] OTHER -> {} :
       server' = [server EXCEPT ![k] = s]
  /\ UNCHANGED <<orphans, disowned, page, start, action, refresh, budget>>

Expire(k) ==
  /\ server[k] \notin {"none", "gone"} /\ server' = [server EXCEPT ![k] = "gone"]
  /\ UNCHANGED <<orphans, disowned, page, start, action, refresh, budget>>

StartStep == Create \/ CreateFails \/ UploadStep \/ SubmitStep
ActionStep == FetchResult \/ ActionEffect \/ ActionAnswered \/ StatusAnswered

ClientNext ==
  \/ ChooseFile \/ StartStep \/ Effect \/ Poll \/ Edit \/ RetryStatus \/ ActionStep \/ Reload
  \/ \E kind \in {"approve", "remove", "retry", "download"} : Click(kind)
  \/ \E k \in Job : RefreshStep(k) \/ Work(k) \/ Expire(k)

ClientSpec == ClientInit /\ [][ClientNext]_clientVars

\* A call is answered or fails, a timer fires, a job ends. The user owes nothing.
ClientFairness ==
  /\ WF_clientVars(StartStep) /\ WF_clientVars(ActionStep) /\ WF_clientVars(Effect) /\ WF_clientVars(Poll)
  /\ \A k \in Job : WF_clientVars(RefreshStep(k)) /\ WF_clientVars(Work(k))

-----------------------------------------------------------------------------

\* What the page shows belongs to the document it holds the credentials of,
\* whichever answer of an earlier document still arrives.
ShownIsCurrent ==
  page.credentials # 0 => page.job \in {0, page.credentials} /\ page.boxes \in {0, page.credentials}

\* The page holds the credentials of every server copy until that is deleted, but
\* of one the service never told it of, or denied while it lived on.
CopyKnown ==
  \A k \in Job :
    server[k] \notin {"none", "gone"} /\ k \notin orphans \cup disowned => page.credentials = k

\* What holds of the page at any time: its types, that it shows one document,
\* and that it knows every copy it can know of.
PageSafe == ClientTypeOK /\ ShownIsCurrent /\ CopyKnown

\* Boxes that were edited are never replaced by those the server has.
EditsKept ==
  [][budget'.reloads = budget.reloads =>
       (page.dirty /\ page'.credentials # 0 => page'.dirty)]_clientVars

\* A document that is being detected is shown for review in the end, or what
\* became of it is.
ReviewReached ==
  page.status = "detecting" ~>
    page.boxes # 0 \/ page.loadFailed \/ page.job = 0 \/ page.status = "failed"

=============================================================================
