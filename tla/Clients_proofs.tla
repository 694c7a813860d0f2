--------------------------- MODULE Clients_proofs ---------------------------
(***************************************************************************)
(* The two browser clients, for any number of jobs, rows, lost calls and   *)
(* reloads: the page shows one document, knows every server copy it was    *)
(* told of and not denied, and keeps what was edited; no row of the batch  *)
(* is cancelled, closed or reloaded without its job being deleted, as far  *)
(* as the service says.                                                    *)
(***************************************************************************)
EXTENDS DocumentClient, BatchQueue, FiniteSetTheorems, WellFoundedInduction, TLAPS

-----------------------------------------------------------------------------
(***************************************************************************)
(* The page of one document.                                               *)
(***************************************************************************)
USE ClientAssumption

\* A job whose refresh was answered with 404 is gone for good.
AnswersTrue == \A k \in Job : refresh[k].answer = "gone" => server[k] = "gone"

\* While a file is being started the page shows nothing, no refresh counts, and
\* the credentials are those of the job that was created, once it is.
Starting ==
  start # "idle" =>
    /\ page.job = 0 /\ page.boxes = 0 /\ \A k \in Job : ~ refresh[k].current
    /\ IF start = "create" THEN page.credentials = 0 ELSE page.credentials \in Job

\* An action is about the job of the page, unless the page has lost its job
\* meanwhile; and what it reports as deleted is gone, or was denied.
Acting ==
  /\ action.at # "idle" /\ start = "idle" => page.credentials \in {0, action.of}
  /\ action.at \in {"sent", "fetch"} => ~ action.ok /\ action.of \in Job /\ start = "idle"
  /\ action.at = "answered" /\ action.ok /\ action.kind # "approve" /\ action.of # 0
       => server[action.of] = "gone" \/ action.of \in disowned

PageInv == ClientTypeOK /\ ShownIsCurrent /\ CopyKnown /\ AnswersTrue /\ Starting /\ Acting

LEMMA JobRange == ASSUME NEW k \in Job PROVE k \in 0 .. MaxJobs
<1>1. MaxJobs \in Nat
  OBVIOUS
<1> QED BY <1>1 DEF Job

\* The records a page starts from are records of their kind.
LEMMA Blank ==
  /\ Empty \in PageRecord /\ [Empty EXCEPT !.file = TRUE] \in PageRecord
  /\ NoAction \in ActionRecord /\ NoRefresh \in RefreshRecord
<1> 0 \in 0 .. MaxJobs
  OBVIOUS
<1> QED BY DEF Empty, NoAction, NoRefresh, PageRecord, ActionRecord, RefreshRecord

\* What outdating a refresh leaves of it.
LEMMA OutdatedKeeps ==
  ASSUME refresh \in [Job -> RefreshRecord]
  PROVE  /\ Outdated \in [Job -> RefreshRecord]
         /\ \A k \in Job : ~ Outdated[k].current /\ Outdated[k].answer = refresh[k].answer
<1>1. ASSUME NEW k \in Job
      PROVE  /\ Outdated[k] = [refresh[k] EXCEPT !.current = FALSE]
             /\ Outdated[k] \in RefreshRecord /\ ~ Outdated[k].current
             /\ Outdated[k].answer = refresh[k].answer
  <2>1. Outdated[k] = [refresh[k] EXCEPT !.current = FALSE] /\ refresh[k] \in RefreshRecord
    BY DEF Outdated
  <2> QED BY <2>1 DEF RefreshRecord
<1>2. Outdated = [k \in Job |-> Outdated[k]]
  BY DEF Outdated
<1> QED BY <1>1, <1>2

LEMMA InitPage == ClientInit => PageInv
<1> SUFFICES ASSUME ClientInit PROVE PageInv
  OBVIOUS
<1>1. page = Empty /\ action = NoAction /\ start = "idle" /\ orphans = {} /\ disowned = {}
      /\ server = [k \in Job |-> "none"] /\ refresh = [k \in Job |-> NoRefresh]
  BY DEF ClientInit
<1>2. ClientTypeOK
  BY <1>1, Blank DEF ClientTypeOK, NoRefresh
<1> QED BY <1>1, <1>2 DEF PageInv, ShownIsCurrent, CopyKnown, AnswersTrue, Starting, Acting,
                          Empty, NoAction, NoRefresh

LEMMA ChooseKept == ASSUME PageInv, ChooseFile PROVE PageInv'
<1> USE DEF PageInv
<1>1. /\ page.credentials = 0 /\ page' = [Empty EXCEPT !.file = TRUE] /\ start' = "create"
      /\ action = NoAction /\ UNCHANGED <<server, orphans, disowned, action, refresh>>
  BY DEF ChooseFile
<1>2. \A k \in Job : ~ refresh[k].current
  BY <1>1 DEF ClientTypeOK, Job
<1>3. page'.credentials = 0 /\ page'.job = 0 /\ page'.boxes = 0
  BY <1>1 DEF Empty
<1>4. ClientTypeOK'
  BY <1>1, <1>2, Blank DEF ClientTypeOK
<1> QED BY <1>1, <1>2, <1>3, <1>4
        DEF ShownIsCurrent, CopyKnown, AnswersTrue, Starting, Acting, NoAction

LEMMA CreateKept == ASSUME PageInv, Create PROVE PageInv'
<1> USE DEF PageInv
<1>1. PICK k \in Job :
        /\ server[k] = "none" /\ server' = [server EXCEPT ![k] = "awaiting"]
        /\ page' = [page EXCEPT !.credentials = k]
  BY DEF Create, FreeJob
<1>2. start = "create" /\ start' = "upload" /\ UNCHANGED <<orphans, disowned, action, refresh, budget>>
  BY DEF Create
<1>3. page.credentials = 0 /\ page.job = 0 /\ page.boxes = 0 /\ \A o \in Job : ~ refresh[o].current
  BY <1>2 DEF Starting
<1>4. page'.credentials = k /\ page'.job = 0 /\ page'.boxes = 0
  BY <1>1, <1>3 DEF ClientTypeOK, PageRecord
<1>5. ClientTypeOK'
  <2>1. server' \in [Job -> Status \cup {"none"}]
    BY <1>1 DEF ClientTypeOK, Status
  <2>2. page' \in PageRecord
    BY <1>1, JobRange DEF ClientTypeOK, PageRecord
  <2> QED BY <1>2, <1>3, <2>1, <2>2 DEF ClientTypeOK
<1>6. ShownIsCurrent' /\ Starting'
  BY <1>1, <1>2, <1>3, <1>4 DEF ShownIsCurrent, Starting
<1>7. CopyKnown' /\ AnswersTrue'
  BY <1>1, <1>2, <1>3, <1>4 DEF CopyKnown, AnswersTrue, ClientTypeOK, Job
<1>8. Acting'
  BY <1>1, <1>2 DEF Acting, ClientTypeOK, Job
<1> QED BY <1>5, <1>6, <1>7, <1>8

LEMMA CreateFailsKept == ASSUME PageInv, CreateFails PROVE PageInv'
<1> USE DEF PageInv
<1>1. /\ start = "create" /\ start' = "idle" /\ action' = NoAction
      /\ page' = [Empty EXCEPT !.file = TRUE] /\ refresh' = Outdated /\ disowned' = disowned
  BY DEF CreateFails, StartEnds
<1>2. page.credentials = 0
  BY <1>1 DEF Starting
<1>3. \/ UNCHANGED <<server, orphans>>
      \/ \E k \in Job : /\ server[k] = "none" /\ server' = [server EXCEPT ![k] = "awaiting"]
                        /\ orphans' = orphans \cup {k}
  BY DEF CreateFails, FreeJob
<1>4. ClientTypeOK'
  <2>1. server' \in [Job -> Status \cup {"none"}] /\ orphans' \subseteq Job
    BY <1>3 DEF ClientTypeOK, Status
  <2> QED BY <1>1, <2>1, Blank, OutdatedKeeps DEF ClientTypeOK
<1>5. CopyKnown'
  BY <1>1, <1>2, <1>3 DEF CopyKnown, ClientTypeOK, Job
<1>6. AnswersTrue'
  BY <1>1, <1>3, OutdatedKeeps DEF AnswersTrue, ClientTypeOK
<1>7. page'.credentials = 0
  BY <1>1 DEF Empty
<1> QED BY <1>1, <1>4, <1>5, <1>6, <1>7 DEF ShownIsCurrent, Starting, Acting, NoAction

LEMMA UploadKept == ASSUME PageInv, UploadStep PROVE PageInv'
<1> USE DEF PageInv
<1>1. /\ start = "upload" /\ UNCHANGED <<server, orphans, disowned, page, refresh>>
      /\ \/ start' = "submit" /\ action' = action
         \/ start' = "idle" /\ action' = NoAction
  BY DEF UploadStep, StartEnds
<1>2. ClientTypeOK'
  BY <1>1, Blank DEF ClientTypeOK
<1> QED BY <1>1, <1>2 DEF ShownIsCurrent, CopyKnown, AnswersTrue, Starting, Acting, NoAction

LEMMA SubmitKept == ASSUME PageInv, SubmitStep PROVE PageInv'
<1> USE DEF PageInv
<1>1. /\ start = "submit" /\ start' = "idle" /\ action' = NoAction /\ UNCHANGED <<orphans, disowned, refresh>>
      /\ page.credentials \in Job
  BY DEF SubmitStep, StartEnds, Starting
<1>2. \/ server' = server
      \/ /\ server[page.credentials] = "awaiting"
         /\ server' = [server EXCEPT ![page.credentials] = "detecting"]
  BY DEF SubmitStep
<1>3. \/ page' = page
      \/ page' = [page EXCEPT !.job = page.credentials, !.status = "detecting", !.file = FALSE]
  BY DEF SubmitStep
<1>4. /\ page' \in PageRecord /\ page'.credentials = page.credentials
      /\ page'.job \in {page.job, page.credentials} /\ page'.boxes = page.boxes
  <2>1. CASE page' = page
    BY <2>1 DEF ClientTypeOK
  <2>2. CASE page' = [page EXCEPT !.job = page.credentials, !.status = "detecting", !.file = FALSE]
    BY <1>1, <2>2 DEF ClientTypeOK, PageRecord, Job, Status, Processing
  <2> QED BY <1>3, <2>1, <2>2
<1>5. ClientTypeOK'
  <2>1. server' \in [Job -> Status \cup {"none"}]
    BY <1>1, <1>2 DEF ClientTypeOK, Status, Processing
  <2> QED BY <1>1, <1>4, <2>1, Blank DEF ClientTypeOK
<1>6. ShownIsCurrent'
  BY <1>4 DEF ShownIsCurrent
<1>7. CopyKnown' /\ AnswersTrue'
  BY <1>1, <1>2, <1>4 DEF CopyKnown, AnswersTrue, ClientTypeOK
<1> QED BY <1>1, <1>5, <1>6, <1>7 DEF Starting, Acting, NoAction

-----------------------------------------------------------------------------

\* A refresh that begins is the only one that counts.
LEMMA BeginsKept ==
  ASSUME PageInv, MayRefresh, RefreshBegins, UNCHANGED server
  PROVE  /\ refresh' \in [Job -> RefreshRecord]
         /\ \A k \in Job : refresh'[k].current => k = page.credentials
         /\ AnswersTrue'
<1> USE DEF PageInv
<1> DEFINE c == page.credentials
           begun == [at |-> "job", current |-> TRUE, loaded |-> page.boxes # 0, answer |-> "none"]
<1>1. c \in Job
  BY DEF ClientTypeOK, PageRecord, MayRefresh, Job
<1>2. begun \in RefreshRecord
  BY DEF RefreshRecord
<1>3. refresh' = [Outdated EXCEPT ![c] = begun]
  BY DEF RefreshBegins
<1>4. \A k \in Job : refresh'[k] = IF k = c THEN begun ELSE Outdated[k]
  BY <1>3, OutdatedKeeps DEF ClientTypeOK
<1>5. refresh' \in [Job -> RefreshRecord]
  BY <1>1, <1>2, <1>3, OutdatedKeeps DEF ClientTypeOK
<1>6. begun.answer = "none"
  OBVIOUS
<1> HIDE DEF begun
<1> QED BY <1>4, <1>5, <1>6, OutdatedKeeps DEF ClientTypeOK, AnswersTrue

LEMMA EffectKept == ASSUME PageInv, Effect \/ Poll PROVE PageInv'
<1> USE DEF PageInv
<1>1. /\ UNCHANGED <<server, orphans, disowned, start, action>> /\ page' \in {page, [page EXCEPT !.effect = FALSE]}
      /\ (MayRefresh /\ RefreshBegins) \/ refresh' = refresh
  BY DEF Effect, Poll
<1>2. /\ page'.credentials = page.credentials /\ page'.job = page.job /\ page'.boxes = page.boxes
      /\ page' \in PageRecord
  BY <1>1 DEF ClientTypeOK, PageRecord
<1>3. /\ refresh' \in [Job -> RefreshRecord]
      /\ \A k \in Job : refresh'[k].current => k = page.credentials
      /\ AnswersTrue'
  <2>1. CASE refresh' = refresh
    BY <1>1, <2>1 DEF ClientTypeOK, AnswersTrue
  <2>2. CASE MayRefresh /\ RefreshBegins
    BY <1>1, <2>2, BeginsKept
  <2> QED BY <1>1, <2>1, <2>2
<1>4. start # "idle" => refresh' = refresh
  BY <1>1 DEF MayRefresh
<1> QED BY <1>1, <1>2, <1>3, <1>4 DEF ClientTypeOK, ShownIsCurrent, CopyKnown, Starting, Acting

LEMMA RetryStatusKept == ASSUME PageInv, RetryStatus PROVE PageInv'
<1> USE DEF PageInv
<1>1. /\ UNCHANGED <<server, orphans, disowned, start, page>> /\ MayRefresh /\ RefreshBegins /\ start = "idle"
      /\ action' = [NoAction EXCEPT !.kind = "status", !.of = page.credentials, !.at = "answered"]
  BY DEF RetryStatus, Free
<1>2. action' = [kind |-> "status", at |-> "answered", of |-> page.credentials, ok |-> FALSE]
  BY <1>1 DEF NoAction
<1>3. action' \in ActionRecord
  BY <1>2 DEF ActionRecord, ClientTypeOK, PageRecord
<1>4. ClientTypeOK' /\ AnswersTrue'
  BY <1>1, <1>3, BeginsKept DEF ClientTypeOK
<1>5. action'.at = "answered" /\ action'.of = page.credentials /\ ~ action'.ok
  BY <1>2
<1>6. Acting'
  BY <1>1, <1>5 DEF Acting
<1> QED BY <1>1, <1>4, <1>6 DEF ShownIsCurrent, CopyKnown, Starting

LEMMA ReadKept ==
  ASSUME PageInv, NEW k \in Job, RefreshRead(k)
  PROVE  PageInv'
<1> USE DEF PageInv
<1>1. PICK a \in {server[k], "lost"} :
        refresh' = [refresh EXCEPT ![k].answer = a,
                                   ![k].at = IF @ = "job" THEN "jobAnswered" ELSE "boxesAnswered"]
  BY DEF RefreshRead
<1>2. UNCHANGED <<server, orphans, disowned, page, start, action>>
  BY DEF RefreshRead
<1>3. /\ \A o \in Job : o # k => refresh'[o] = refresh[o]
      /\ refresh'[k].answer = a /\ refresh'[k].current = refresh[k].current
      /\ refresh'[k] \in RefreshRecord
  BY <1>1 DEF ClientTypeOK, RefreshRecord
<1>4. ClientTypeOK'
  BY <1>1, <1>2, <1>3 DEF ClientTypeOK
<1> QED BY <1>2, <1>3, <1>4 DEF ShownIsCurrent, CopyKnown, AnswersTrue, Starting, Acting

\* What the arrival of an answer does: it is not taken, or it ends the session
\* of a job that is gone, or it is about the job of the page.
LEMMA ArrivalKept ==
  ASSUME PageInv, NEW k \in Job, UNCHANGED <<server, orphans, disowned, start, action>>,
         \/ page' = page /\ refresh' \in {Idle(k)}
         \/ refresh[k].current /\ refresh[k].answer = "gone" /\ SessionGone(k)
         \/ /\ refresh[k].current
            /\ refresh' \in {Idle(k), [refresh EXCEPT ![k].at = "boxes"]}
            /\ \E s \in Status \cup {"none"}, d, l, e \in BOOLEAN :
                 \/ page' = [page EXCEPT !.loadFailed = l]
                 \/ page' = [page EXCEPT !.job = k, !.status = s, !.loadFailed = l]
                 \/ page' = [page EXCEPT !.boxes = k, !.dirty = d, !.loadFailed = l, !.effect = e]
  PROVE  PageInv'
<1> USE DEF PageInv
<1>1. ASSUME refresh' \in {Idle(k), [refresh EXCEPT ![k].at = "boxes"]}
      PROVE  /\ refresh' \in [Job -> RefreshRecord]
             /\ \A o \in Job : /\ refresh'[o].current => refresh[o].current
                               /\ refresh'[o].answer \in {"none", refresh[o].answer}
  <2>1. CASE refresh' = Idle(k)
    <3>1. refresh' = [refresh EXCEPT ![k] = NoRefresh]
      BY <2>1 DEF Idle
    <3>2. ~ NoRefresh.current /\ NoRefresh.answer = "none"
      BY DEF NoRefresh
    <3> QED BY <3>1, <3>2, Blank DEF ClientTypeOK
  <2>2. CASE refresh' = [refresh EXCEPT ![k].at = "boxes"]
    <3>1. refresh[k] \in RefreshRecord
      BY DEF ClientTypeOK
    <3> DEFINE next == [refresh[k] EXCEPT !.at = "boxes"]
    <3>2. next \in RefreshRecord /\ next.current = refresh[k].current /\ next.answer = refresh[k].answer
      BY <3>1 DEF RefreshRecord
    <3>3. refresh' = [refresh EXCEPT ![k] = next]
      BY <2>2
    <3> HIDE DEF next
    <3> QED BY <3>2, <3>3 DEF ClientTypeOK
  <2> QED BY <1>1, <2>1, <2>2
<1>2. CASE page' = page /\ refresh' \in {Idle(k)}
  <2>1. refresh' \in {Idle(k), [refresh EXCEPT ![k].at = "boxes"]}
    BY <1>2
  <2> QED BY <1>1, <1>2, <2>1
          DEF ClientTypeOK, ShownIsCurrent, CopyKnown, AnswersTrue, Starting, Acting
<1>3. CASE refresh[k].current /\ refresh[k].answer = "gone" /\ SessionGone(k)
  <2>1. k = page.credentials /\ server[k] = "gone" /\ start = "idle"
    BY <1>3 DEF ClientTypeOK, AnswersTrue, Starting
  <2>2. page' = Empty /\ refresh' = [Outdated EXCEPT ![k] = NoRefresh]
    BY <1>3 DEF SessionGone
  <2>3. ~ NoRefresh.current /\ NoRefresh.answer = "none"
    BY DEF NoRefresh
  <2>4. /\ refresh' \in [Job -> RefreshRecord]
        /\ \A o \in Job : ~ refresh'[o].current /\ refresh'[o].answer \in {"none", refresh[o].answer}
    BY <2>2, <2>3, Blank, OutdatedKeeps DEF ClientTypeOK
  <2>5. ClientTypeOK'
    BY <2>2, <2>4, Blank DEF ClientTypeOK
  <2>6. AnswersTrue'
    BY <2>4 DEF AnswersTrue
  <2>7. page'.credentials = 0
    BY <2>2 DEF Empty
  <2> QED BY <2>1, <2>5, <2>6, <2>7 DEF ShownIsCurrent, CopyKnown, Starting, Acting
<1>4. CASE /\ refresh[k].current
           /\ refresh' \in {Idle(k), [refresh EXCEPT ![k].at = "boxes"]}
           /\ \E s \in Status \cup {"none"}, d, l, e \in BOOLEAN :
                \/ page' = [page EXCEPT !.loadFailed = l]
                \/ page' = [page EXCEPT !.job = k, !.status = s, !.loadFailed = l]
                \/ page' = [page EXCEPT !.boxes = k, !.dirty = d, !.loadFailed = l, !.effect = e]
  <2>1. k = page.credentials /\ start = "idle"
    BY <1>4 DEF ClientTypeOK, Starting
  <2>2. /\ page' \in PageRecord
        /\ page'.credentials = k /\ page'.job \in {page.job, k} /\ page'.boxes \in {page.boxes, k}
    <3>1. page \in PageRecord
      BY DEF ClientTypeOK
    <3>2. k \in 0 .. MaxJobs
      BY JobRange
    <3> QED BY <1>4, <2>1, <3>1, <3>2 DEF PageRecord
  <2>3. ClientTypeOK' /\ AnswersTrue'
    BY <1>1, <1>4, <2>1, <2>2 DEF ClientTypeOK, AnswersTrue
  <2> QED BY <2>1, <2>2, <2>3 DEF ShownIsCurrent, CopyKnown, Starting, Acting
<1> QED BY <1>2, <1>3, <1>4

LEMMA JobArrivesKept ==
  ASSUME PageInv, NEW k \in Job, JobArrives(k)
  PROVE  PageInv'
<1> DEFINE a == refresh[k].answer
<1>1. a \in Status \cup {"none", "lost"} /\ page.loadFailed \in BOOLEAN
  BY DEF PageInv, ClientTypeOK, PageRecord, RefreshRecord
<1>2. CASE ~ Current(k)
  BY <1>2, ArrivalKept DEF JobArrives, Current
<1>3. CASE Current(k) /\ a = "gone"
  BY <1>3, ArrivalKept DEF JobArrives, Current
<1>4. CASE Current(k) /\ a = "lost"
  <2>1. (page.loadFailed \/ page.job = 0) \in BOOLEAN
    BY Zenon
  <2> QED BY <1>4, <2>1, ArrivalKept DEF JobArrives, Current
<1>5. CASE Current(k) /\ a \notin {"gone", "lost"}
  <2>1. (page.loadFailed /\ LoadsBoxes(k)) \in BOOLEAN
    BY Zenon
  <2>2. /\ page' = [page EXCEPT !.job = k, !.status = a, !.loadFailed = (page.loadFailed /\ LoadsBoxes(k))]
        /\ refresh' \in {Idle(k), [refresh EXCEPT ![k].at = "boxes"]}
        /\ UNCHANGED <<server, orphans, disowned, start, action>>
    BY <1>5 DEF JobArrives
  <2>3. a \in Status \cup {"none"}
    BY <1>1, <1>5
  <2> QED BY <1>5, <2>1, <2>2, <2>3, ArrivalKept DEF Current
<1> QED BY <1>2, <1>3, <1>4, <1>5

LEMMA BoxesArriveKept ==
  ASSUME PageInv, NEW k \in Job, BoxesArrive(k)
  PROVE  PageInv'
<1> DEFINE a == refresh[k].answer
<1>1. CASE ~ Current(k)
  BY <1>1, ArrivalKept DEF BoxesArrive, Current
<1>2. CASE Current(k) /\ a = "gone"
  BY <1>2, ArrivalKept DEF BoxesArrive, Current
<1>3. CASE Current(k) /\ a = "lost"
  BY <1>3, ArrivalKept DEF BoxesArrive, Current
<1>4. CASE Current(k) /\ a \notin {"gone", "lost"}
  <2>1. /\ page' = [page EXCEPT !.boxes = k, !.dirty = FALSE, !.loadFailed = FALSE, !.effect = TRUE]
        /\ refresh' = Idle(k) /\ UNCHANGED <<server, orphans, disowned, start, action>>
    BY <1>4 DEF BoxesArrive
  <2> QED BY <1>4, <2>1, ArrivalKept DEF Current
<1> QED BY <1>1, <1>2, <1>3, <1>4

-----------------------------------------------------------------------------

LEMMA EditKept == ASSUME PageInv, Edit PROVE PageInv'
<1> USE DEF PageInv
<1>1. page' = [page EXCEPT !.dirty = TRUE] /\ UNCHANGED <<server, orphans, disowned, start, action, refresh>>
  BY DEF Edit
<1>2. /\ page' \in PageRecord /\ page'.credentials = page.credentials
      /\ page'.job = page.job /\ page'.boxes = page.boxes
  BY <1>1 DEF ClientTypeOK, PageRecord
<1> QED BY <1>1, <1>2 DEF ClientTypeOK, ShownIsCurrent, CopyKnown, AnswersTrue, Starting, Acting

LEMMA ClickKept ==
  ASSUME PageInv, NEW kind \in {"approve", "remove", "retry", "download"}, Click(kind)
  PROVE  PageInv'
<1> USE DEF PageInv
<1>1. /\ start = "idle" /\ UNCHANGED <<server, orphans, disowned, page, start, refresh, budget>>
      /\ action' = [kind |-> kind, of |-> page.credentials, ok |-> page.credentials = 0,
                    at |-> IF page.credentials = 0 THEN "answered"
                           ELSE IF kind = "download" THEN "fetch" ELSE "sent"]
  BY DEF Click, Free
<1>2. page.credentials \in 0 .. MaxJobs /\ (page.credentials # 0 => page.credentials \in Job)
  BY DEF ClientTypeOK, PageRecord, Job
<1>3. ClientTypeOK'
  BY <1>1, <1>2 DEF ClientTypeOK, ActionRecord
<1> QED BY <1>1, <1>2, <1>3 DEF ShownIsCurrent, CopyKnown, AnswersTrue, Starting, Acting

LEMMA FetchKept == ASSUME PageInv, FetchResult PROVE PageInv'
<1> USE DEF PageInv
<1>1. /\ action.at = "fetch" /\ UNCHANGED <<server, orphans, disowned, page, start, refresh>>
      /\ action' \in {[action EXCEPT !.at = "sent"], NoAction}
  BY DEF FetchResult
<1>2. action.of \in Job /\ start = "idle" /\ page.credentials \in {0, action.of} /\ ~ action.ok
  BY <1>1 DEF Acting
<1>3. /\ action' \in ActionRecord
      /\ \/ action'.at = "idle"
         \/ action'.at = "sent" /\ action'.of = action.of /\ ~ action'.ok
  <2>1. CASE action' = NoAction
    <3>1. NoAction.at = "idle"
      BY DEF NoAction
    <3> QED BY <2>1, <3>1, Blank
  <2>2. CASE action' = [action EXCEPT !.at = "sent"]
    BY <1>2, <2>2 DEF ClientTypeOK, ActionRecord
  <2> QED BY <1>1, <2>1, <2>2
<1>4. ClientTypeOK'
  BY <1>1, <1>3 DEF ClientTypeOK
<1> QED BY <1>1, <1>2, <1>3, <1>4 DEF ShownIsCurrent, CopyKnown, AnswersTrue, Starting, Acting

LEMMA EffectedKept == ASSUME PageInv, ActionEffect PROVE PageInv'
<1> USE DEF PageInv
<1> DEFINE k == action.of
           s == Effected(action.kind, server[k])
<1>1. k \in Job /\ ~ action.ok /\ action.at = "sent" /\ start = "idle"
      /\ UNCHANGED <<orphans, page, start, refresh>>
  BY DEF ActionEffect, Acting
<1>2. /\ \E after \in Status \cup {"none"} : server' = [server EXCEPT ![k] = after]
      /\ disowned \subseteq disowned' /\ disowned' \subseteq Job
      /\ server'[k] \in {s, server[k]} \/ (server[k] # "gone" /\ k \in disowned')
  <2>1. server[k] \in Status \cup {"none"} /\ s \in Status \cup {"none"} /\ disowned \subseteq Job
    BY <1>1 DEF Effected, ClientTypeOK, Status, Processing
  <2>2. CASE Denied
    <3>1. Overtaken(server[k]) \in Status \cup {"none"}
      BY <2>1 DEF Overtaken, Effected, Status, Processing
    <3> QED BY <1>1, <2>1, <2>2, <3>1 DEF Denied
  <2>3. CASE ~ Denied
    <3>1. disowned' = disowned /\ \E after \in {s, server[k]} : server' = [server EXCEPT ![k] = after]
      BY <2>3 DEF ActionEffect
    <3> QED BY <1>1, <2>1, <3>1 DEF ClientTypeOK
  <2> QED BY <2>2, <2>3
<1>3. s \in Status \cup {"none"} /\ (s # server[k] => s = "gone" \/ server[k] \in {"review", "complete"})
      /\ (action.kind # "approve" => s = "gone") /\ (server[k] = "gone" => s = "gone")
  BY <1>1 DEF Effected, ClientTypeOK, Status, Processing
<1>4. server' \in [Job -> Status \cup {"none"}] /\ \A o \in Job : o # k => server'[o] = server[o]
  BY <1>1, <1>2, <1>3 DEF ClientTypeOK
<1>6. /\ action'.of = k /\ action'.kind = action.kind /\ action'.at = "answered" /\ action'.ok \in BOOLEAN
      /\ action' \in ActionRecord
      /\ action.kind # "approve" /\ action'.ok => s = server'[k] \/ k \in disowned'
  <2>1. action \in ActionRecord /\ server \in [Job -> Status \cup {"none"}]
    BY DEF ClientTypeOK
  <2>2. CASE /\ server' = [server EXCEPT ![k] = s]
             /\ action' = [action EXCEPT !.at = "answered",
                                         !.ok = (action.kind # "approve" \/ s # server[k])]
    <3>1. (action.kind # "approve" \/ s # server[k]) \in BOOLEAN
      BY Zenon
    <3> QED BY <1>1, <2>1, <2>2, <3>1 DEF ActionRecord
  <2>3. CASE action' = [action EXCEPT !.at = "answered"]
    BY <1>1, <2>1, <2>3 DEF ActionRecord
  <2>4. CASE Denied
    <3>1. action' = [action EXCEPT !.at = "answered", !.ok = TRUE] /\ k \in disowned'
      BY <2>4 DEF Denied
    <3> QED BY <1>1, <2>1, <3>1 DEF ActionRecord
  <2> QED BY <2>2, <2>3, <2>4 DEF ActionEffect
<1>7. action'.ok /\ action.kind # "approve" => server'[k] = "gone" \/ k \in disowned'
  BY <1>3, <1>6
<1>8. ClientTypeOK'
  BY <1>1, <1>2, <1>4, <1>6 DEF ClientTypeOK
<1>9. CopyKnown' /\ AnswersTrue'
  BY <1>1, <1>2, <1>3, <1>4 DEF CopyKnown, AnswersTrue
<1> QED BY <1>1, <1>6, <1>7, <1>8, <1>9 DEF ShownIsCurrent, Starting, Acting

\* A page that lets its job go knows that there is no copy left.
LEMMA LetGo ==
  ASSUME PageInv, action.at = "answered", start = "idle", action.kind # "approve", action.ok
  PROVE  \A k \in Job : server[k] \notin {"none", "gone"} => k \in orphans \cup disowned
BY DEF PageInv, Acting, CopyKnown, ClientTypeOK, Job

LEMMA AnsweredKept == ASSUME PageInv, ActionAnswered PROVE PageInv'
<1> USE DEF PageInv
<1>1. /\ action.at = "answered" /\ start = "idle" /\ UNCHANGED <<server, orphans, disowned, budget>>
      /\ page.credentials \in {0, action.of}
  BY DEF ActionAnswered, Acting
<1>2. CASE action' = NoAction /\ page' = page /\ UNCHANGED <<start, refresh>>
  <2>1. ClientTypeOK'
    BY <1>1, <1>2, Blank DEF ClientTypeOK
  <2> QED BY <1>1, <1>2, <2>1 DEF ShownIsCurrent, CopyKnown, AnswersTrue, Starting, Acting, NoAction
<1>3. CASE /\ action' = NoAction /\ UNCHANGED <<start, refresh>>
           /\ page' = [page EXCEPT !.job = action.of, !.status = "redacting"]
  <2>1. /\ page' \in PageRecord /\ page'.credentials = page.credentials
        /\ page'.job = action.of /\ page'.boxes = page.boxes
    BY <1>3 DEF ClientTypeOK, PageRecord, ActionRecord, Status, Processing
  <2>2. ClientTypeOK'
    BY <1>1, <1>3, <2>1, Blank DEF ClientTypeOK
  <2> QED BY <1>1, <1>3, <2>1, <2>2
          DEF ShownIsCurrent, CopyKnown, AnswersTrue, Starting, Acting, NoAction
<1>4. CASE /\ action.kind # "approve" /\ action.ok /\ refresh' = Outdated
           /\ \/ page' = Empty /\ action' = NoAction /\ start' = start
              \/ page' = [Empty EXCEPT !.file = TRUE] /\ start' = "create" /\ action' = action
  <2>1. \A k \in Job : server[k] \notin {"none", "gone"} => k \in orphans \cup disowned
    BY <1>1, <1>4, LetGo
  <2>2. \A k \in Job : ~ refresh'[k].current /\ refresh'[k].answer = refresh[k].answer
    BY <1>4, OutdatedKeeps DEF ClientTypeOK
  <2>3. ClientTypeOK'
    BY <1>1, <1>4, <2>2, Blank, OutdatedKeeps DEF ClientTypeOK
  <2>4. CopyKnown' /\ AnswersTrue' /\ ShownIsCurrent'
    BY <1>1, <1>4, <2>1, <2>2 DEF CopyKnown, AnswersTrue, ShownIsCurrent, Empty
  <2>5. Starting' /\ Acting'
    BY <1>1, <1>4, <2>2 DEF Starting, Acting, Empty, NoAction
  <2> QED BY <2>3, <2>4, <2>5
<1> QED BY <1>1, <1>2, <1>3, <1>4 DEF ActionAnswered, LetsGo

LEMMA StatusKept == ASSUME PageInv, StatusAnswered PROVE PageInv'
<1> USE DEF PageInv
<1>1. action' = NoAction /\ UNCHANGED <<server, orphans, disowned, page, start, refresh>>
  BY DEF StatusAnswered
<1>2. ClientTypeOK'
  BY <1>1, Blank DEF ClientTypeOK
<1> QED BY <1>1, <1>2 DEF ShownIsCurrent, CopyKnown, AnswersTrue, Starting, Acting, NoAction

LEMMA ReloadKept == ASSUME PageInv, Reload PROVE PageInv'
<1> USE DEF PageInv
<1>1. /\ page' = [Empty EXCEPT !.credentials = page.credentials, !.effect = page.credentials # 0]
      /\ start' = "idle" /\ action' = NoAction /\ refresh' = [k \in Job |-> NoRefresh]
      /\ UNCHANGED <<server, orphans, disowned>>
  BY DEF Reload
<1>2. page'.credentials = page.credentials /\ page'.job = 0 /\ page'.boxes = 0
  BY <1>1 DEF Empty
<1>3. page' \in PageRecord
  <2>1. (page.credentials # 0) \in BOOLEAN /\ page.credentials \in 0 .. MaxJobs /\ 0 \in 0 .. MaxJobs
    BY DEF ClientTypeOK, PageRecord
  <2> QED BY <1>1, <2>1 DEF Empty, PageRecord
<1>4. ClientTypeOK'
  BY <1>1, <1>3, Blank DEF ClientTypeOK, NoRefresh
<1> QED BY <1>1, <1>2, <1>4
        DEF ShownIsCurrent, CopyKnown, AnswersTrue, Starting, Acting, NoAction, NoRefresh

LEMMA ServerKept ==
  ASSUME PageInv, NEW k \in Job, Work(k) \/ Expire(k)
  PROVE  PageInv'
<1> USE DEF PageInv
<1>1. PICK s \in Status : server' = [server EXCEPT ![k] = s]
  BY DEF Work, Expire, Status, Processing
<1>2. server[k] \notin {"none", "gone"} /\ UNCHANGED <<orphans, disowned, page, start, action, refresh, budget>>
  BY DEF Work, Expire
<1>3. /\ server' \in [Job -> Status \cup {"none"}]
      /\ \A o \in Job : server[o] = "gone" => server'[o] = "gone"
      /\ \A o \in Job : o # k => server'[o] = server[o]
  BY <1>1, <1>2 DEF ClientTypeOK
<1>4. action.of # 0 => action.of \in Job
  BY DEF ClientTypeOK, ActionRecord, Job
<1>5. ClientTypeOK'
  BY <1>2, <1>3 DEF ClientTypeOK
<1> QED BY <1>2, <1>3, <1>4, <1>5 DEF ShownIsCurrent, CopyKnown, AnswersTrue, Starting, Acting

LEMMA PageKept == PageInv /\ [ClientNext]_clientVars => PageInv'
<1> SUFFICES ASSUME PageInv, [ClientNext]_clientVars PROVE PageInv'
  OBVIOUS
<1>1. ASSUME StartStep PROVE PageInv'
  BY <1>1, CreateKept, CreateFailsKept, UploadKept, SubmitKept DEF StartStep
<1>2. ASSUME ActionStep PROVE PageInv'
  BY <1>2, FetchKept, EffectedKept, AnsweredKept, StatusKept DEF ActionStep
<1>3. ASSUME NEW k \in Job, RefreshStep(k) \/ Work(k) \/ Expire(k) PROVE PageInv'
  BY <1>3, ReadKept, JobArrivesKept, BoxesArriveKept, ServerKept DEF RefreshStep
<1>4. CASE UNCHANGED clientVars
  BY <1>4 DEF clientVars, PageInv, ClientTypeOK, ShownIsCurrent, CopyKnown, AnswersTrue, Starting, Acting
<1> QED
  BY <1>1, <1>2, <1>3, <1>4, ChooseKept, EffectKept, EditKept, RetryStatusKept, ReloadKept, ClickKept
  DEF ClientNext

\* Whatever is lost, answered late or reloaded, the page shows the document it
\* has the credentials of, and has those of every copy on the server that it was
\* told of and that was not denied when it was to be deleted.
THEOREM PageIsSafe == ClientSpec => []PageSafe
<1>1. PageInv => PageSafe
  BY DEF PageInv, PageSafe
<1> QED BY <1>1, InitPage, PageKept, PTL DEF ClientSpec

-----------------------------------------------------------------------------
\* Edited boxes are boxes that are shown, and a refresh that counts and does not
\* know of any boxes began when there were none and there still are none.
EditInv ==
  /\ PageInv /\ budget \in [lost : Nat, reloads : Nat]
  /\ page.dirty => page.boxes # 0
  /\ \A k \in Job : refresh[k].current /\ refresh[k].at # "idle" =>
       /\ ~ refresh[k].loaded => page.boxes = 0
       /\ refresh[k].at \in {"boxes", "boxesAnswered"} => ~ refresh[k].loaded

EditStays == page.dirty /\ page'.credentials # 0 => page'.dirty

LEMMA OutdatedEdits ==
  ASSUME EditInv, refresh' = Outdated \/ \A k \in Job : ~ refresh'[k].current,
         page' = Empty \/ page' = [Empty EXCEPT !.file = TRUE],
         budget' \in [lost : Nat, reloads : Nat], PageInv'
  PROVE  EditInv' /\ EditStays
<1>1. \A k \in Job : ~ refresh'[k].current
  BY OutdatedKeeps DEF EditInv, PageInv, ClientTypeOK
<1>2. page'.credentials = 0 /\ ~ page'.dirty
  BY DEF Empty
<1> QED BY <1>1, <1>2 DEF EditInv, EditStays

\* The page keeps its boxes, and the refreshes stay as they are.
LEMMA SameEdits ==
  ASSUME EditInv, refresh' = refresh, page'.boxes = page.boxes, page'.dirty = page.dirty,
         budget' \in [lost : Nat, reloads : Nat], PageInv'
  PROVE  EditInv' /\ EditStays
BY DEF EditInv, EditStays

LEMMA RefreshEdits ==
  ASSUME EditInv, MayRefresh, RefreshBegins, page'.boxes = page.boxes, page'.dirty = page.dirty,
         budget' = budget, PageInv'
  PROVE  EditInv' /\ EditStays
<1>1. page.credentials \in Job /\ refresh \in [Job -> RefreshRecord]
  BY DEF EditInv, PageInv, ClientTypeOK, PageRecord, MayRefresh, Job
<1>2. /\ refresh'[page.credentials].at = "job"
      /\ refresh'[page.credentials].loaded = (page.boxes # 0)
      /\ \A k \in Job \ {page.credentials} : ~ refresh'[k].current
  BY <1>1, OutdatedKeeps DEF RefreshBegins
<1> QED BY <1>1, <1>2 DEF EditInv, EditStays

LEMMA BudgetKept ==
  ASSUME EditInv, Lose \/ budget' = budget
  PROVE  budget' \in [lost : Nat, reloads : Nat]
BY DEF EditInv, Lose

LEMMA JobEdits ==
  ASSUME EditInv, PageInv', NEW k \in Job, JobArrives(k) \/ BoxesArrive(k)
  PROVE  EditInv' /\ EditStays
<1>1. refresh \in [Job -> RefreshRecord] /\ budget' = budget /\ refresh[k].at # "idle"
      /\ page \in PageRecord
  BY DEF EditInv, PageInv, ClientTypeOK, JobArrives, BoxesArrive
<1>2. budget' \in [lost : Nat, reloads : Nat]
  BY <1>1 DEF EditInv
<1>3. CASE SessionGone(k)
  <2>1. \A o \in Job : ~ refresh'[o].current
    BY <1>1, <1>3, OutdatedKeeps DEF SessionGone, NoRefresh
  <2> QED BY <1>2, <1>3, <2>1, OutdatedEdits DEF SessionGone
<1>4. CASE refresh' = Idle(k) /\ page'.boxes = page.boxes /\ page'.dirty = page.dirty
  <2>1. ~ refresh'[k].current /\ \A o \in Job \ {k} : refresh'[o] = refresh[o]
    BY <1>1, <1>4 DEF Idle, NoRefresh
  <2> QED BY <1>2, <1>4, <2>1 DEF EditInv, EditStays
<1>5. CASE /\ refresh' = [refresh EXCEPT ![k].at = "boxes"] /\ ~ refresh[k].loaded
           /\ page'.boxes = page.boxes /\ page'.dirty = page.dirty
  <2>1. /\ refresh'[k].loaded = refresh[k].loaded /\ refresh'[k].current = refresh[k].current
        /\ \A o \in Job \ {k} : refresh'[o] = refresh[o]
    BY <1>1, <1>5 DEF RefreshRecord
  <2> QED BY <1>1, <1>2, <1>5, <2>1 DEF EditInv, EditStays
<1>6. CASE /\ refresh' = Idle(k) /\ refresh[k].current /\ refresh[k].at = "boxesAnswered"
           /\ page' = [page EXCEPT !.boxes = k, !.dirty = FALSE, !.loadFailed = FALSE, !.effect = TRUE]
  <2>1. page.boxes = 0 /\ ~ page.dirty
    BY <1>1, <1>6 DEF EditInv
  <2>2. k = page.credentials /\ \A o \in Job : refresh[o].current => o = k
    BY <1>6 DEF EditInv, PageInv, ClientTypeOK
  <2>3. \A o \in Job : ~ refresh'[o].current
    BY <1>1, <1>6, <2>2 DEF Idle, NoRefresh
  <2>4. ~ page'.dirty
    BY <1>1, <1>6 DEF PageRecord
  <2> QED BY <1>2, <2>1, <2>3, <2>4 DEF EditInv, EditStays
<1>7. CASE JobArrives(k)
  <2>1. \/ refresh' = Idle(k) /\ page' = page
        \/ SessionGone(k)
        \/ refresh' = Idle(k) /\ page' = [page EXCEPT !.loadFailed = @ \/ page.job = 0]
        \/ /\ page' = [page EXCEPT !.job = k, !.status = refresh[k].answer,
                                   !.loadFailed = @ /\ LoadsBoxes(k)]
           /\ \/ LoadsBoxes(k) /\ refresh' = [refresh EXCEPT ![k].at = "boxes"]
              \/ refresh' = Idle(k)
    BY <1>7 DEF JobArrives
  <2>2. page' = [page EXCEPT !.loadFailed = @ \/ page.job = 0] =>
          page'.boxes = page.boxes /\ page'.dirty = page.dirty
    BY <1>1 DEF PageRecord
  <2>3. page' = [page EXCEPT !.job = k, !.status = refresh[k].answer, !.loadFailed = @ /\ LoadsBoxes(k)] =>
          page'.boxes = page.boxes /\ page'.dirty = page.dirty
    BY <1>1 DEF PageRecord
  <2> QED BY <1>3, <1>4, <1>5, <2>1, <2>2, <2>3 DEF LoadsBoxes
<1>8. CASE BoxesArrive(k)
  <2>1. page' = [page EXCEPT !.loadFailed = TRUE] => page'.boxes = page.boxes /\ page'.dirty = page.dirty
    BY <1>1 DEF PageRecord
  <2> QED BY <1>3, <1>4, <1>6, <1>8, <2>1 DEF BoxesArrive, Current
<1> QED BY <1>7, <1>8

LEMMA StartEdits ==
  ASSUME EditInv, PageInv', ChooseFile \/ StartStep
  PROVE  EditInv' /\ EditStays
<1>1. page \in PageRecord
  BY DEF EditInv, PageInv, ClientTypeOK
<1>2. CASE ChooseFile
  <2>1. \A k \in Job : ~ refresh'[k].current
    BY <1>2 DEF ChooseFile, EditInv, PageInv, ClientTypeOK, Job
  <2> QED BY <1>2, <2>1, OutdatedEdits DEF ChooseFile, EditInv
<1>3. CASE CreateFails
  BY <1>3, BudgetKept, OutdatedEdits DEF CreateFails
<1>4. CASE Create \/ UploadStep \/ SubmitStep
  <2>1. /\ refresh' = refresh /\ page'.boxes = page.boxes /\ page'.dirty = page.dirty
        /\ Lose \/ budget' = budget
    BY <1>1, <1>4 DEF Create, UploadStep, SubmitStep, PageRecord
  <2> QED BY <2>1, BudgetKept, SameEdits
<1> QED BY <1>2, <1>3, <1>4 DEF StartStep

LEMMA ActionEdits ==
  ASSUME EditInv, PageInv', ActionStep \/ Edit \/ \E kind \in {"approve", "remove", "retry", "download"} : Click(kind)
  PROVE  EditInv' /\ EditStays
<1>1. page \in PageRecord
  BY DEF EditInv, PageInv, ClientTypeOK
<1>2. CASE Edit
  <2>1. page'.dirty /\ page'.boxes = page.boxes /\ page.boxes # 0 /\ refresh' = refresh /\ budget' = budget
    BY <1>1, <1>2 DEF Edit, Reviewing, PageRecord
  <2> QED BY <2>1 DEF EditInv, EditStays
<1>3. CASE ActionAnswered
  <2>1. CASE page'.boxes = page.boxes /\ page'.dirty = page.dirty /\ refresh' = refresh
    BY <1>3, <2>1, BudgetKept, SameEdits DEF ActionAnswered
  <2>2. CASE (page' = Empty \/ page' = [Empty EXCEPT !.file = TRUE]) /\ refresh' = Outdated
    BY <1>3, <2>2, BudgetKept, OutdatedEdits DEF ActionAnswered
  <2>3. [page EXCEPT !.job = action.of, !.status = "redacting"].boxes = page.boxes
        /\ [page EXCEPT !.job = action.of, !.status = "redacting"].dirty = page.dirty
    BY <1>1 DEF PageRecord
  <2> QED BY <1>3, <2>1, <2>2, <2>3 DEF ActionAnswered
<1>4. CASE FetchResult \/ ActionEffect \/ StatusAnswered \/ \E kind \in {"approve", "remove", "retry", "download"} : Click(kind)
  <2>1. page' = page /\ refresh' = refresh /\ (Lose \/ budget' = budget)
    BY <1>4 DEF FetchResult, ActionEffect, Denied, StatusAnswered, Click
  <2> QED BY <2>1, BudgetKept, SameEdits
<1> QED BY <1>2, <1>3, <1>4 DEF ActionStep

LEMMA OtherEdits ==
  ASSUME EditInv, PageInv', NEW k \in Job, RefreshRead(k) \/ Work(k) \/ Expire(k)
  PROVE  EditInv' /\ EditStays
<1>1. CASE Work(k) \/ Expire(k)
  BY <1>1, BudgetKept, SameEdits DEF Work, Expire
<1>2. CASE RefreshRead(k)
  <2>1. refresh \in [Job -> RefreshRecord] /\ page' = page /\ (Lose \/ budget' = budget)
    BY <1>2 DEF RefreshRead, EditInv, PageInv, ClientTypeOK
  <2>2. /\ refresh[k].at \in {"job", "boxes"}
        /\ refresh'[k].at = IF refresh[k].at = "job" THEN "jobAnswered" ELSE "boxesAnswered"
        /\ refresh'[k].current = refresh[k].current /\ refresh'[k].loaded = refresh[k].loaded
        /\ \A o \in Job \ {k} : refresh'[o] = refresh[o]
    BY <1>2, <2>1 DEF RefreshRead, RefreshRecord
  <2>3. budget' \in [lost : Nat, reloads : Nat]
    BY <2>1, BudgetKept
  <2> QED BY <2>1, <2>2, <2>3 DEF EditInv, EditStays
<1> QED BY <1>1, <1>2

LEMMA RefreshesEdits ==
  ASSUME EditInv, PageInv', Effect \/ Poll \/ RetryStatus
  PROVE  EditInv' /\ EditStays
<1>1. page'.boxes = page.boxes /\ page'.dirty = page.dirty /\ budget' = budget
  BY DEF Effect, Poll, RetryStatus, EditInv, PageInv, ClientTypeOK, PageRecord
<1>2. (MayRefresh /\ RefreshBegins) \/ refresh' = refresh
  BY DEF Effect, Poll, RetryStatus
<1> QED BY <1>1, <1>2, RefreshEdits, BudgetKept, SameEdits

LEMMA ReloadEdits ==
  ASSUME EditInv, PageInv', Reload
  PROVE  EditInv' /\ budget'.reloads # budget.reloads
<1>1. budget' \in [lost : Nat, reloads : Nat] /\ budget'.reloads # budget.reloads
  BY DEF Reload, EditInv
<1>2. ~ page'.dirty /\ \A k \in Job : ~ refresh'[k].current
  BY DEF Reload, Empty, NoRefresh
<1> QED BY <1>1, <1>2 DEF EditInv

LEMMA EditsNext ==
  ASSUME EditInv, [ClientNext]_clientVars
  PROVE  EditInv' /\ (budget'.reloads = budget.reloads => EditStays)
<1>1. PageInv'
  BY PageKept DEF EditInv
<1>2. CASE UNCHANGED clientVars
  BY <1>1, <1>2, SameEdits, BudgetKept DEF clientVars
<1> QED
  BY <1>1, <1>2, StartEdits, RefreshesEdits, ActionEdits, JobEdits, OtherEdits, ReloadEdits
  DEF ClientNext, RefreshStep

\* Boxes that were edited stay until the page is reloaded or shows no document:
\* no answer of an earlier refresh brings back those of the server.
THEOREM EditsAreKept == ClientSpec => EditsKept
<1>1. ClientInit => EditInv
  <2> SUFFICES ASSUME ClientInit PROVE EditInv
    OBVIOUS
  <2>1. PageInv
    BY InitPage
  <2>2. budget \in [lost : Nat, reloads : Nat]
    BY ClientAssumption DEF ClientInit
  <2>3. ~ page.dirty
    BY DEF ClientInit, Empty
  <2>4. ASSUME NEW k \in Job PROVE ~ refresh[k].current
    BY DEF ClientInit, NoRefresh
  <2> QED BY <2>1, <2>2, <2>3, <2>4 DEF EditInv
<1>2. EditInv /\ [ClientNext]_clientVars => EditInv'
  BY EditsNext
<1>3. ASSUME EditInv, [ClientNext]_clientVars
      PROVE  [budget'.reloads = budget.reloads =>
                (page.dirty /\ page'.credentials # 0 => page'.dirty)]_clientVars
  BY <1>3, EditsNext DEF EditStays
<1> QED BY <1>1, <1>2, <1>3, PTL DEF ClientSpec, EditsKept

-----------------------------------------------------------------------------
(***************************************************************************)
(* The batch of documents.                                                 *)
(***************************************************************************)
HIDE ClientAssumption
USE BatchAssumption

\* A finite set of numbers that is not empty has a last one.
LEMMA LastOne ==
  ASSUME NEW S, IsFiniteSet(S), S \subseteq Nat, S # {}
  PROVE  \E m \in S : \A r \in S : r <= m
<1> DEFINE Up(r) == {o \in S : o >= r}
           Ups == {Up(r) : r \in S}
<1>1. Ups \subseteq FiniteSubsetsOf(S) /\ Ups # {}
  <2>1. ASSUME NEW r \in S PROVE Up(r) \in SUBSET S /\ IsFiniteSet(Up(r))
    <3>1. Up(r) \in SUBSET S
      OBVIOUS
    <3> QED BY <3>1, FS_Subset
  <2> HIDE DEF Up
  <2> QED BY <2>1 DEF FiniteSubsetsOf
<1>2. IsWellFoundedOn(StrictSubsetOrdering(S), FiniteSubsetsOf(S))
  BY FS_StrictSubsetOrderingWellFounded, Zenon
<1>3. ASSUME NEW r \in S, NEW m \in S, ~ (r <= m)
      PROVE  <<Up(r), Up(m)>> \in StrictSubsetOrdering(S)
  <2>1. r \in Nat /\ m \in Nat /\ m < r
    BY <1>3
  <2>2. m \in Up(m) /\ m \notin Up(r)
    BY <2>1
  <2>3. Up(r) \subseteq Up(m)
    <3>1. ASSUME NEW o \in S, o >= r PROVE o >= m
      <4>1. o \in Nat
        OBVIOUS
      <4> QED BY <2>1, <3>1, <4>1
    <3> QED BY <3>1
  <2>4. Up(r) \in SUBSET S /\ Up(m) \in SUBSET S
    OBVIOUS
  <2> HIDE DEF Up
  <2> QED BY <2>2, <2>3, <2>4, Zenon DEF StrictSubsetOrdering
<1> HIDE DEF Ups
<1>4. PICK U \in Ups : \A V \in Ups : ~ (<<V, U>> \in StrictSubsetOrdering(S))
  BY <1>1, <1>2, WFMin, Zenon
<1> HIDE DEF Up
<1>5. PICK m \in S : U = Up(m)
  BY DEF Ups
<1>6. \A r \in S : Up(r) \in Ups
  BY DEF Ups
<1>7. ASSUME NEW r \in S PROVE r <= m
  BY <1>3, <1>4, <1>5, <1>6
<1> QED BY <1>7

\* What pump takes of the waiting rows fits the tasks that are free.
LEMMA FirstFew ==
  ASSUME NEW S, S \subseteq Nat, IsFiniteSet(S), NEW n \in Nat,
         NEW T \in SUBSET S, \A r \in T : Cardinality({o \in S : o < r}) < n
  PROVE  IsFiniteSet(T) /\ Cardinality(T) <= n
<1>1. IsFiniteSet(T) /\ Cardinality(T) \in Nat
  BY FS_Subset, FS_CardinalityType
<1>2. CASE T = {}
  <2>1. Cardinality(T) = 0
    BY <1>2, FS_EmptySet, Zenon
  <2> QED BY <1>1, <2>1
<1>3. CASE T # {}
  <2>1. PICK m \in T : \A r \in T : r <= m
    BY <1>1, <1>3, LastOne
  <2> DEFINE Before == {o \in S : o < m}
  <2>2. T \ {m} \in SUBSET Before
    BY <2>1
  <2>3. Cardinality(Before) < n /\ Before \in SUBSET S
    BY <2>1
  <2> HIDE DEF Before
  <2>4. IsFiniteSet(Before) /\ Cardinality(Before) \in Nat /\ Cardinality(T \ {m}) <= Cardinality(Before)
    BY <2>2, <2>3, FS_Subset, FS_CardinalityType
  <2>5. Cardinality(T \ {m}) = Cardinality(T) - 1
    BY <1>1, <2>1, FS_RemoveElement
  <2> QED BY <1>1, <2>3, <2>4, <2>5
<1> QED BY <1>2, <1>3

-----------------------------------------------------------------------------
AtWork == {"uploading", "processing", "receiving"}
RowStatus == AtWork \cup {"waiting", "ready", "failed"}
CopyStatus == {"none", "awaiting", "working", "complete", "failed", "gone"}

RowRecord ==
  [status : RowStatus, credentials : 0 .. MaxAttempts, result : BOOLEAN,
   cleanupError : BOOLEAN, file : BOOLEAN]
TaskRecord ==
  [at : {"idle", "get", "removeOld", "create", "upload", "submit", "poll", "fetch", "removeFailed"},
   mine : 0 .. MaxAttempts, created : BOOLEAN,
   job : {"none", "awaiting", "working", "complete", "failed"}]

\* A row and its task agree: the row is at work while it has a task, and the task
\* is about the job the row has the credentials of.
Agree(row, t) ==
  /\ t.at = "idle" => t.mine = 0
  /\ t.at = "create" => t.mine = 0 /\ row.credentials = 0
  /\ t.at \notin {"idle", "create"} => t.mine # 0 /\ row.credentials = t.mine
  /\ t.at # "idle" => row.status \in AtWork
  /\ row.result => row.status = "ready"

Underway(ts) == {r \in Row : ts[r].at # "idle"}

Fits(rs, ts, n) ==
  /\ rs \in [Row -> RowRecord] /\ ts \in [Row -> TaskRecord]
  /\ \A r \in Row : Agree(rs[r], ts[r])
  /\ Cardinality(Underway(ts)) <= n

AllowanceOK ==
  allowance \in [tasks : Nat \ {0}, lost : Nat, reloads : Nat, pauses : Nat]

\* Rows and attempts are finitely many.
LEMMA RowsFinite ==
  /\ Row \subseteq Nat /\ IsFiniteSet(Row)
  /\ 0 \in 0 .. MaxAttempts /\ Attempt \subseteq 0 .. MaxAttempts
  /\ \A k \in 0 .. MaxAttempts : k # 0 => k \in Attempt
  /\ NoTask \in TaskRecord
<1>1. Documents \in Nat /\ MaxAttempts \in Nat
  OBVIOUS
<1>2. IsFiniteSet(Row)
  BY <1>1, FS_Interval DEF Row
<1> QED BY <1>1, <1>2 DEF Row, Attempt, NoTask, TaskRecord

\* Pump gives free tasks to waiting rows, and leaves all other rows as they are.
LEMMA PumpEffect ==
  ASSUME NEW rs, NEW ts, NEW q, Fits(rs, ts, allowance.tasks), AllowanceOK, Pump(rs, ts, q)
  PROVE  /\ Fits(rows', tasks', allowance.tasks) /\ stored' = Emitted(rows') /\ queue' = q
         /\ \A r \in Row :
              /\ rows'[r].credentials = rs[r].credentials
              /\ rs[r].status # "waiting" \/ q.cancelled => rows'[r] = rs[r] /\ tasks'[r] = ts[r]
<1> DEFINE free == allowance.tasks - Cardinality(Underway(ts))
           able == {r \in Row : rs[r].status = "waiting" /\ ts[r].at = "idle"}
           taken == Pumped(rs, ts, q)
           Row1(r) == [rs[r] EXCEPT !.status = IF rs[r].credentials # 0 THEN "processing" ELSE "uploading"]
           Task1(r) == [NoTask EXCEPT !.at = IF rs[r].credentials # 0 THEN "get" ELSE "create",
                                      !.mine = rs[r].credentials]
<1>1. /\ rows' = [r \in Row |-> IF r \notin taken THEN rs[r] ELSE Row1(r)]
      /\ tasks' = [r \in Row |-> IF r \notin taken THEN ts[r] ELSE Task1(r)]
      /\ stored' = Emitted(rows') /\ queue' = q
  BY DEF Pump, SetRows
<1>2. IsFiniteSet(Underway(ts)) /\ Underway(ts) \subseteq Row /\ free \in Nat
  <2>1. Underway(ts) \in SUBSET Row
    BY DEF Underway
  <2>2. IsFiniteSet(Underway(ts)) /\ Cardinality(Underway(ts)) \in Nat
    BY <2>1, RowsFinite, FS_Subset, FS_CardinalityType
  <2>3. Cardinality(Underway(ts)) <= allowance.tasks /\ allowance.tasks \in Nat
    BY DEF Fits, AllowanceOK
  <2> QED BY <2>1, <2>2, <2>3
<1>3. /\ taken \in SUBSET able /\ able \in SUBSET Row
      /\ \A r \in taken : ~ q.cancelled /\ Cardinality({o \in able : o < r}) < free
  BY DEF Pumped, Underway
<1> HIDE DEF free, able, taken
<1>4. IsFiniteSet(taken) /\ Cardinality(taken) <= free
  <2>1. able \subseteq Nat /\ IsFiniteSet(able)
    BY <1>3, RowsFinite, FS_Subset
  <2> QED BY <1>2, <1>3, <2>1, FirstFew
<1>5. ASSUME NEW r \in Row
      PROVE  IF r \in taken
               THEN /\ rows'[r] = Row1(r) /\ tasks'[r] = Task1(r)
                    /\ rs[r].status = "waiting" /\ ts[r].at = "idle" /\ ~ q.cancelled
               ELSE rows'[r] = rs[r] /\ tasks'[r] = ts[r]
  BY <1>1, <1>3 DEF able
<1>6. ASSUME NEW r \in Row
      PROVE  /\ rows'[r] \in RowRecord /\ tasks'[r] \in TaskRecord /\ Agree(rows'[r], tasks'[r])
             /\ rows'[r].credentials = rs[r].credentials
             /\ tasks'[r].at # "idle" => r \in taken \/ ts[r].at # "idle"
  <2>1. rs[r] \in RowRecord /\ ts[r] \in TaskRecord /\ Agree(rs[r], ts[r])
    BY DEF Fits
  <2>2. CASE r \notin taken
    BY <1>5, <2>1, <2>2
  <2>3. CASE r \in taken
    <3>1. /\ Row1(r) \in RowRecord /\ Row1(r).credentials = rs[r].credentials
          /\ Row1(r).result = rs[r].result /\ Row1(r).status \in AtWork
      BY <2>1 DEF RowRecord, RowStatus, AtWork
    <3>2. /\ Task1(r) \in TaskRecord /\ Task1(r).mine = rs[r].credentials
          /\ Task1(r).at = IF rs[r].credentials # 0 THEN "get" ELSE "create"
      BY <2>1 DEF RowRecord, TaskRecord, NoTask
    <3>3. ~ rs[r].result
      BY <1>5, <2>1, <2>3 DEF Agree
    <3> HIDE DEF Row1, Task1
    <3> QED BY <1>5, <2>3, <3>1, <3>2, <3>3 DEF Agree
  <2> QED BY <2>2, <2>3
<1>7. Cardinality(Underway(tasks')) <= allowance.tasks
  <2>1. Underway(tasks') \in SUBSET (Underway(ts) \cup taken)
    BY <1>6 DEF Underway
  <2>2. /\ IsFiniteSet(Underway(ts) \cup taken)
        /\ Cardinality(Underway(ts) \cup taken) <= Cardinality(Underway(ts)) + Cardinality(taken)
    <3>1. /\ IsFiniteSet(Underway(ts) \cup taken)
          /\ Cardinality(Underway(ts) \cup taken) =
               Cardinality(Underway(ts)) + Cardinality(taken) - Cardinality(Underway(ts) \cap taken)
          /\ IsFiniteSet(Underway(ts) \cap taken)
      BY <1>2, <1>4, FS_Union, FS_Intersection
    <3>2. /\ Cardinality(Underway(ts)) \in Nat /\ Cardinality(taken) \in Nat
          /\ Cardinality(Underway(ts) \cap taken) \in Nat
      BY <1>2, <1>4, <3>1, FS_CardinalityType
    <3> QED BY <3>1, <3>2
  <2>3. /\ Cardinality(Underway(tasks')) <= Cardinality(Underway(ts) \cup taken)
        /\ Cardinality(Underway(tasks')) \in Nat /\ Cardinality(Underway(ts) \cup taken) \in Nat
        /\ Cardinality(Underway(ts)) \in Nat /\ Cardinality(taken) \in Nat
    BY <1>2, <1>4, <2>1, <2>2, FS_Subset, FS_CardinalityType
  <2>4. allowance.tasks \in Nat
    BY DEF AllowanceOK
  <2> QED BY <1>4, <2>2, <2>3, <2>4 DEF free
<1>8. rows' \in [Row -> RowRecord] /\ tasks' \in [Row -> TaskRecord]
  BY <1>1, <1>6
<1>9. Fits(rows', tasks', allowance.tasks)
  BY <1>6, <1>7, <1>8 DEF Fits, Underway
<1>10. ASSUME NEW r \in Row, rs[r].status # "waiting" \/ q.cancelled
       PROVE  rows'[r] = rs[r] /\ tasks'[r] = ts[r]
  BY <1>5, <1>10
<1> QED BY <1>1, <1>6, <1>9, <1>10
-----------------------------------------------------------------------------
Deleting == {"next", "deleted", "lost"}

SweepRecord ==
  [at : Deleting \cup {"idle", "settling"}, kind : {"clear", "cleanup", "release"},
   left : SUBSET Row, read : [Row -> 0 .. MaxAttempts], failed : BOOLEAN]

StoresOK ==
  /\ AllowanceOK
  /\ queue \in [paused : BOOLEAN, cancelled : BOOLEAN] /\ closed \in BOOLEAN
  /\ copies \in [Row -> [Attempt -> CopyStatus]] /\ {unanswered, denied} \subseteq SUBSET (Row \X Attempt)
  /\ stored = Emitted(rows)

\* A copy the tab has to answer for.
Owed(r, k) == copies[r][k] \notin {"none", "gone"} /\ ~ Unknowable(r, k)

\* The row has the credentials of every copy that is owed, at every step of its task.
CopiesHeld == \A r \in Row, k \in Attempt : Owed(r, k) => rows[r].credentials = k

\* A sweep that deletes finds what it read: its rows have no task and get none.
SweepTrue ==
  /\ sweep \in SweepRecord
  /\ sweep.at = "settling" => sweep.kind = "clear"
  /\ sweep.at # "idle" /\ sweep.kind = "clear" => queue.cancelled
  /\ sweep.at \in Deleting =>
       /\ sweep.kind # "release" => Active = {}
       /\ sweep.kind = "release" => \A r \in sweep.left : rows[r].status = "ready"
       /\ \A r \in sweep.left : sweep.read[r] = rows[r].credentials /\ sweep.read[r] # 0
       /\ sweep.kind = "clear" /\ ~ sweep.failed =>
            \A r \in Row \ sweep.left : rows[r].credentials = 0
  /\ sweep.at = "deleted" => \A r \in Row : Swept(r) => ~ Owed(r, sweep.read[r])
  /\ sweep.at = "lost" => sweep.failed

\* A batch that was cleared is at rest.
ClosedTrue ==
  closed => sweep.at = "idle" /\ Active = {} /\ \A r \in Row : rows[r].credentials = 0

BatchInv == Fits(rows, tasks, allowance.tasks) /\ StoresOK /\ CopiesHeld /\ SweepTrue /\ ClosedTrue

ResultsStay == \A r \in Row : rows[r].result => rows'[r].result /\ rows'[r].status = "ready"

\* How the task of row r goes on or ends.
Moves(r, row, t) ==
  \/ Pump([rows EXCEPT ![r] = row], [tasks EXCEPT ![r] = t], queue) /\ t.at = "idle"
  \/ /\ SetRow(r, row) /\ tasks' = [tasks EXCEPT ![r] = t]
     /\ queue' \in {queue, [queue EXCEPT !.paused = TRUE]}

\* What happens to the copies when the row of r becomes row.
CopiesMove(r, row) ==
  /\ copies' \in [Row -> [Attempt -> CopyStatus]]
  /\ unanswered \subseteq unanswered' /\ denied \subseteq denied'
  /\ {unanswered', denied'} \subseteq SUBSET (Row \X Attempt)
  /\ \A o \in Row \ {r} : copies'[o] = copies[o]
  /\ \A k \in Attempt : Owed(r, k)' => row.credentials = k

\* A step of a task leaves the batch well formed, and every other row its credentials.
LEMMA MovesEffect ==
  ASSUME BatchInv, NEW r \in Row, tasks[r].at # "idle",
         NEW row \in RowRecord, NEW t \in TaskRecord, Agree(row, t), Moves(r, row, t)
  PROVE  /\ Fits(rows', tasks', allowance.tasks) /\ stored' = Emitted(rows')
         /\ queue' \in {queue, [queue EXCEPT !.paused = TRUE]}
         /\ rows'[r].credentials = row.credentials
         /\ \A o \in Row \ {r} :
              /\ rows'[o].credentials = rows[o].credentials
              /\ rows[o].status = "ready" => rows'[o] = rows[o] /\ tasks'[o] = tasks[o]
<1> DEFINE rs == [rows EXCEPT ![r] = row]
           ts == [tasks EXCEPT ![r] = t]
<1>1. /\ rows \in [Row -> RowRecord] /\ tasks \in [Row -> TaskRecord]
      /\ \A o \in Row : Agree(rows[o], tasks[o])
      /\ Cardinality(Underway(tasks)) <= allowance.tasks /\ AllowanceOK
  BY DEF BatchInv, Fits, StoresOK
<1>2. /\ rs \in [Row -> RowRecord] /\ ts \in [Row -> TaskRecord]
      /\ rs[r] = row /\ ts[r] = t
      /\ \A o \in Row \ {r} : rs[o] = rows[o] /\ ts[o] = tasks[o]
  BY <1>1
<1> HIDE DEF rs, ts
<1>3. Cardinality(Underway(ts)) <= allowance.tasks
  <2>1. Underway(ts) \in SUBSET Underway(tasks)
    BY <1>2 DEF Underway
  <2>2. Underway(tasks) \in SUBSET Row /\ IsFiniteSet(Row)
    BY RowsFinite DEF Underway
  <2>3. IsFiniteSet(Underway(tasks))
    BY <2>2, FS_Subset
  <2>4. /\ Cardinality(Underway(ts)) <= Cardinality(Underway(tasks))
        /\ Cardinality(Underway(ts)) \in Nat /\ Cardinality(Underway(tasks)) \in Nat
    BY <2>1, <2>3, FS_Subset, FS_CardinalityType
  <2>5. allowance.tasks \in Nat
    BY <1>1 DEF AllowanceOK
  <2> QED BY <1>1, <2>4, <2>5
<1>4. Fits(rs, ts, allowance.tasks)
  <2>1. \A o \in Row : Agree(rs[o], ts[o])
    BY <1>1, <1>2
  <2> QED BY <1>2, <1>3, <2>1 DEF Fits
<1>5. CASE Pump(rs, ts, queue)
  <2>1. /\ Fits(rows', tasks', allowance.tasks) /\ stored' = Emitted(rows') /\ queue' = queue
        /\ \A o \in Row :
              /\ rows'[o].credentials = rs[o].credentials
              /\ rs[o].status # "waiting" \/ queue.cancelled => rows'[o] = rs[o] /\ tasks'[o] = ts[o]
    BY <1>1, <1>4, <1>5, PumpEffect
  <2> QED BY <1>2, <2>1
<1>6. CASE /\ rows' = rs /\ stored' = Emitted(rs) /\ tasks' = ts
           /\ queue' \in {queue, [queue EXCEPT !.paused = TRUE]}
  BY <1>2, <1>4, <1>6
<1> QED BY <1>5, <1>6 DEF Moves, SetRow, SetRows, rs, ts

\* A step of a task keeps the invariant, and no result is touched.
LEMMA MovesKeep ==
  ASSUME BatchInv, NEW r \in Row, tasks[r].at # "idle",
         NEW row \in RowRecord, NEW t \in TaskRecord, Agree(row, t), Moves(r, row, t),
         CopiesMove(r, row), UNCHANGED <<sweep, closed>>,
         AllowanceOK', allowance'.tasks = allowance.tasks
  PROVE  BatchInv' /\ ResultsStay
<1>1. /\ Fits(rows', tasks', allowance.tasks) /\ stored' = Emitted(rows')
      /\ queue' \in {queue, [queue EXCEPT !.paused = TRUE]}
      /\ rows'[r].credentials = row.credentials
      /\ \A o \in Row \ {r} :
              /\ rows'[o].credentials = rows[o].credentials
              /\ rows[o].status = "ready" => rows'[o] = rows[o] /\ tasks'[o] = tasks[o]
  BY MovesEffect
<1>2. rows[r].status \in AtWork /\ ~ rows[r].result
  BY DEF BatchInv, Fits, Agree, AtWork
<1>3. queue' \in [paused : BOOLEAN, cancelled : BOOLEAN] /\ queue'.cancelled = queue.cancelled
  BY <1>1 DEF BatchInv, StoresOK
<1>4. Fits(rows, tasks, allowance.tasks)' /\ StoresOK'
  BY <1>1, <1>3 DEF CopiesMove, BatchInv, StoresOK
<1>5. CopiesHeld'
  BY <1>1 DEF CopiesMove, BatchInv, CopiesHeld, Owed, Unknowable
<1>6. ~ closed /\ Active # {}
  BY DEF BatchInv, ClosedTrue, Active
<1>7. SweepTrue'
  <2>1. sweep' = sweep /\ sweep \in SweepRecord
    BY DEF BatchInv, SweepTrue
  <2>2. CASE sweep.at \notin Deleting
    BY <1>3, <2>1, <2>2 DEF BatchInv, SweepTrue, Deleting
  <2>3. CASE sweep.at \in Deleting
    <3>1. sweep.kind = "release" /\ \A o \in sweep.left : rows[o].status = "ready"
      BY <1>6, <2>3 DEF BatchInv, SweepTrue
    <3>2. sweep.left \subseteq Row /\ r \notin sweep.left
      BY <1>2, <2>1, <3>1 DEF SweepRecord, AtWork
    <3>3. \A o \in sweep.left : rows'[o] = rows[o] /\ copies'[o] = copies[o]
      BY <1>1, <3>1, <3>2 DEF CopiesMove
    <3>4. \A o \in Row : Swept(o)' <=> Swept(o)
      BY <2>1 DEF Swept
    <3>5. \A o \in Row : Swept(o) => o \in sweep.left
      BY DEF Swept
    <3>6. \A o \in sweep.left : Owed(o, sweep.read[o])' => Owed(o, sweep.read[o])
      BY <2>1, <3>3 DEF CopiesMove, Owed, Unknowable
    <3> QED BY <2>1, <2>3, <3>1, <3>3, <3>4, <3>5, <3>6 DEF BatchInv, SweepTrue
  <2> QED BY <2>2, <2>3
<1>8. ClosedTrue'
  BY <1>6 DEF ClosedTrue
<1>9. ResultsStay
  <2>1. ASSUME NEW o \in Row, rows[o].result PROVE rows'[o].result /\ rows'[o].status = "ready"
    <3>1. o # r /\ rows[o].status = "ready"
      BY <1>2, <2>1 DEF BatchInv, Fits, Agree
    <3> QED BY <1>1, <2>1, <3>1
  <2> QED BY <2>1 DEF ResultsStay
<1> QED BY <1>4, <1>5, <1>7, <1>8, <1>9 DEF BatchInv
-----------------------------------------------------------------------------
\* What every step of a task does to its row, its own variables and the copies.
TaskEffect(r) ==
  \E row \in RowRecord, t \in TaskRecord :
    Agree(row, t) /\ Moves(r, row, t) /\ CopiesMove(r, row)

\* A task touches neither a sweep nor how many tasks there may be.
LEMMA TaskFrame ==
  ASSUME BatchInv, NEW r \in Row, TaskStep(r) \/ TaskLoses(r)
  PROVE  /\ tasks[r].at # "idle" /\ UNCHANGED <<sweep, closed>>
         /\ AllowanceOK' /\ allowance'.tasks = allowance.tasks
         /\ allowance'.reloads = allowance.reloads
<1>1. AllowanceOK
  BY DEF BatchInv, StoresOK
<1>2. /\ tasks[r].at # "idle" /\ UNCHANGED <<sweep, closed>>
      /\ \/ UNCHANGED allowance
         \/ LoseCall
         \/ allowance.pauses > 0 /\ allowance' = [allowance EXCEPT !.pauses = @ - 1]
  <2>1. CASE TaskStep(r)
    BY <2>1 DEF TaskStep, NoSource, GiveUp, Read, Fetch, RemoveOld, CreateCopy, CreateRefused,
       Upload, Submit, RemoveFailed, Deletes, Quiet, Still
  <2>2. CASE TaskLoses(r)
    BY <2>2 DEF TaskLoses, ReadLost, RemoveOldLost, CreateLost, UploadBreaks, SubmitLost,
       RemoveFailedLost, DeletesInDoubt, Quiet, Still
  <2> QED BY <2>1, <2>2
<1> QED BY <1>1, <1>2 DEF LoseCall, AllowanceOK

\* What is known of a row with a task.
LEMMA RowOfTask ==
  ASSUME BatchInv, NEW r \in Row, tasks[r].at # "idle"
  PROVE  /\ rows[r] \in RowRecord /\ tasks[r] \in TaskRecord /\ Agree(rows[r], tasks[r])
         /\ ~ rows[r].result
         /\ tasks[r].at # "create" => /\ tasks[r].mine \in Attempt
                                      /\ rows[r].credentials = tasks[r].mine
         /\ copies[r] \in [Attempt -> CopyStatus]
         /\ UNCHANGED <<copies, unanswered, denied>> => CopiesMove(r, rows[r])
<1>1. /\ rows[r] \in RowRecord /\ tasks[r] \in TaskRecord /\ Agree(rows[r], tasks[r])
      /\ copies[r] \in [Attempt -> CopyStatus]
  BY DEF BatchInv, Fits, StoresOK
<1>2. ~ rows[r].result
  BY <1>1 DEF Agree, AtWork
<1>3. tasks[r].at # "create" => /\ tasks[r].mine \in Attempt
                                /\ rows[r].credentials = tasks[r].mine
  BY <1>1, RowsFinite DEF Agree, TaskRecord
<1>4. UNCHANGED <<copies, unanswered, denied>> => CopiesMove(r, rows[r])
  BY DEF BatchInv, StoresOK, CopiesHeld, CopiesMove, Owed, Unknowable
<1> QED BY <1>1, <1>2, <1>3, <1>4

\* A task that ends pumps the queue.
LEMMA EndMoves ==
  ASSUME NEW r \in Row, NEW row \in RowRecord, EndTask(r, row), CopiesMove(r, row),
         row.result => row.status = "ready"
  PROVE  TaskEffect(r)
<1>1. NoTask \in TaskRecord /\ Agree(row, NoTask) /\ Moves(r, row, NoTask)
  BY RowsFinite DEF Agree, Moves, NoTask, EndTask
<1> QED BY <1>1 DEF TaskEffect

\* A task that fails ends with its row failed or cancelled.
LEMMA FailMoves ==
  ASSUME NEW r \in Row, NEW row \in RowRecord, ~ row.result, Fail(r, row), CopiesMove(r, row)
  PROVE  TaskEffect(r)
<1> DEFINE failed == [row EXCEPT !.status = "failed"]
<1>1. failed \in RowRecord /\ ~ failed.result /\ failed.credentials = row.credentials
  BY DEF RowRecord, RowStatus
<1>2. EndTask(r, failed)
  BY DEF Fail
<1> HIDE DEF failed
<1>3. CopiesMove(r, failed)
  BY <1>1 DEF CopiesMove
<1> QED BY <1>1, <1>2, <1>3, EndMoves

\* A task that goes on changes its own row only.
LEMMA GoMoves ==
  ASSUME NEW r \in Row, NEW row \in RowRecord, NEW t \in TaskRecord, Agree(row, t), Go(r, row, t),
         CopiesMove(r, row)
  PROVE  TaskEffect(r)
<1>1. Moves(r, row, t)
  BY DEF Go, Moves
<1> QED BY <1>1 DEF TaskEffect

\* The credentials are given up for a copy that is not owed any more.
LEMMA Forgotten ==
  ASSUME BatchInv, NEW r \in Row, tasks[r].at \notin {"idle", "create"},
         CopiesMove(r, rows[r]), NEW k \in Attempt, k = tasks[r].mine, ~ Owed(r, k)',
         NEW row \in RowRecord, row = [rows[r] EXCEPT !.credentials = 0]
  PROVE  CopiesMove(r, row)
<1>1. rows[r].credentials = tasks[r].mine
  BY RowOfTask
<1>2. \A i \in Attempt : ~ Owed(r, i)'
  BY <1>1 DEF CopiesMove
<1> QED BY <1>2 DEF CopiesMove

\* A row that gives up its credentials is otherwise the same row.
LEMMA Emptied ==
  ASSUME NEW row \in RowRecord, NEW none, none = [row EXCEPT !.credentials = 0]
  PROVE  none \in RowRecord /\ none.credentials = 0 /\ none.result = row.result
                            /\ none.status = row.status
BY RowsFinite DEF RowRecord

\* The catch block of a task ends it.
LEMMA CatchMoves ==
  ASSUME BatchInv, NEW r \in Row, tasks[r].at # "idle",
         NEW t \in TaskRecord, t.mine = tasks[r].mine, NEW notFound \in BOOLEAN,
         Catch(r, t, notFound), CopiesMove(r, rows[r]),
         notFound => tasks[r].at # "create" /\ copies'[r][t.mine] = "gone"
  PROVE  TaskEffect(r)
<1>1. /\ rows[r] \in RowRecord /\ ~ rows[r].result /\ Agree(rows[r], tasks[r])
  BY RowOfTask
<1> DEFINE none == [rows[r] EXCEPT !.credentials = 0]
           u == [t EXCEPT !.at = "removeFailed"]
<1>2. CASE Fail(r, rows[r])
  BY <1>1, <1>2, FailMoves
<1>3. CASE notFound /\ Fail(r, none)
  <2>1. none \in RowRecord /\ ~ none.result
    BY <1>1, Emptied
  <2> HIDE DEF none
  <2>2. PICK k \in Attempt : k = tasks[r].mine /\ copies'[r][k] = "gone"
    BY <1>3, RowOfTask
  <2>3. ~ Owed(r, k)'
    BY <2>2 DEF Owed
  <2>4. CopiesMove(r, none)
    BY <1>3, <2>1, <2>2, <2>3, Forgotten DEF none
  <2> QED BY <1>3, <2>1, <2>4, FailMoves
<1>4. CASE t.mine # 0 /\ Go(r, rows[r], u)
  <2>1. u \in TaskRecord /\ u.mine = t.mine /\ u.at = "removeFailed"
    BY DEF TaskRecord
  <2> HIDE DEF u
  <2>2. tasks[r].at # "create"
    BY <1>1, <1>4 DEF Agree
  <2>3. Agree(rows[r], u)
    BY <1>1, <1>4, <2>1, <2>2 DEF Agree
  <2> QED BY <1>1, <1>4, <2>1, <2>3, GoMoves
<1> QED BY <1>2, <1>3, <1>4 DEF Catch

\* One copy of row r is set to s.
LEMMA CopySet ==
  ASSUME BatchInv, NEW r \in Row, NEW k \in Attempt, NEW s \in CopyStatus,
         copies' = [copies EXCEPT ![r][k] = s]
  PROVE  /\ copies' \in [Row -> [Attempt -> CopyStatus]]
         /\ copies'[r][k] = s
         /\ \A o \in Row \ {r} : copies'[o] = copies[o]
         /\ \A i \in Attempt \ {k} : copies'[r][i] = copies[r][i]
BY DEF BatchInv, StoresOK

\* The copy the row has the credentials of changes, or another one goes.
LEMMA CopyChanges ==
  ASSUME BatchInv, NEW r \in Row, NEW k \in Attempt, NEW s \in CopyStatus,
         copies' = [copies EXCEPT ![r][k] = s],
         s \in {"none", "gone"} \/ k = rows[r].credentials,
         unanswered' = unanswered, denied \subseteq denied', denied' \subseteq Row \X Attempt
  PROVE  CopiesMove(r, rows[r])
<1>1. /\ copies' \in [Row -> [Attempt -> CopyStatus]]
      /\ copies'[r][k] = s
      /\ \A o \in Row \ {r} : copies'[o] = copies[o]
      /\ \A i \in Attempt \ {k} : copies'[r][i] = copies[r][i]
  BY CopySet
<1>2. ASSUME NEW i \in Attempt, Owed(r, i)' PROVE rows[r].credentials = i
  BY <1>1, <1>2 DEF Owed, Unknowable, BatchInv, CopiesHeld
<1> QED BY <1>1, <1>2 DEF CopiesMove, BatchInv, StoresOK

\* A deletion touches the one copy; when it was answered, that copy is gone or was
\* denied, and nobody has to answer for it.
LEMMA DeletionMoves ==
  ASSUME BatchInv, NEW r \in Row, NEW k \in Attempt, k = rows[r].credentials,
         Deletes(r, k) \/ DeletesInDoubt(r, k), unanswered' = unanswered
  PROVE  /\ CopiesMove(r, rows[r])
         /\ Deletes(r, k) => ~ Owed(r, k)'
         /\ AllowanceOK' /\ allowance'.tasks = allowance.tasks
<1>1. /\ copies \in [Row -> [Attempt -> CopyStatus]] /\ AllowanceOK
      /\ {unanswered, denied} \subseteq SUBSET (Row \X Attempt)
  BY DEF BatchInv, StoresOK
<1>2. PICK s \in CopyStatus : copies' = [copies EXCEPT ![r][k] = s]
  <2>1. {"gone", "working", copies[r][k]} \subseteq CopyStatus
    BY <1>1 DEF CopyStatus
  <2> QED BY <2>1 DEF Deletes, DeletesInDoubt
<1>3. denied' \in {denied, denied \cup {<<r, k>>}} /\ (UNCHANGED allowance \/ LoseCall)
  BY DEF Deletes, DeletesInDoubt
<1>4. CopiesMove(r, rows[r])
  <2>1. denied \subseteq denied' /\ denied' \subseteq Row \X Attempt
    BY <1>1, <1>3
  <2> QED BY <1>2, <2>1, CopyChanges
<1>5. ASSUME Deletes(r, k) PROVE ~ Owed(r, k)'
  <2>1. copies' = [copies EXCEPT ![r][k] = "gone"] \/ <<r, k>> \in denied'
    BY <1>5 DEF Deletes
  <2>2. copies' = [copies EXCEPT ![r][k] = "gone"] => copies'[r][k] = "gone"
    BY CopySet DEF CopyStatus
  <2> QED BY <2>1, <2>2 DEF Owed, Unknowable
<1>6. AllowanceOK' /\ allowance'.tasks = allowance.tasks
  BY <1>1, <1>3 DEF LoseCall, AllowanceOK
<1> QED BY <1>4, <1>5, <1>6

\* Steps of a task that touch no copy: no file, a lost read, an upload that breaks, giving up.
LEMMA SourceMoves ==
  ASSUME BatchInv, NEW r \in Row, NoSource(r) \/ GiveUp(r) \/ ReadLost(r) \/ UploadBreaks(r)
  PROVE  TaskEffect(r)
<1>1. tasks[r].at # "idle" /\ UNCHANGED <<copies, unanswered, denied>>
  BY DEF NoSource, GiveUp, ReadLost, UploadBreaks, Quiet
<1>2. /\ rows[r] \in RowRecord /\ tasks[r] \in TaskRecord /\ ~ rows[r].result
      /\ CopiesMove(r, rows[r])
  BY <1>1, RowOfTask
<1>3. CASE Catch(r, tasks[r], FALSE)
  BY <1>1, <1>2, <1>3, CatchMoves
<1>4. CASE Fail(r, rows[r])
  BY <1>2, <1>4, FailMoves
<1> QED BY <1>3, <1>4 DEF NoSource, GiveUp, ReadLost, UploadBreaks

\* The status of the job is read back.
LEMMA ReadMoves ==
  ASSUME BatchInv, NEW r \in Row, Read(r)
  PROVE  TaskEffect(r)
<1> DEFINE t == tasks[r]
           s == copies[r][t.mine]
           u == [t EXCEPT !.job = s]
<1>1. t.at \in {"get", "poll"} /\ UNCHANGED <<copies, unanswered, denied>>
  BY DEF Read, Quiet
<1>2. /\ rows[r] \in RowRecord /\ t \in TaskRecord /\ Agree(rows[r], t) /\ ~ rows[r].result
      /\ t.mine \in Attempt /\ rows[r].credentials = t.mine
      /\ copies[r] \in [Attempt -> CopyStatus] /\ CopiesMove(r, rows[r])
  BY <1>1, RowOfTask
<1>3. s \in CopyStatus
  BY <1>2
<1>4. CASE s = "gone" /\ Catch(r, t, TRUE)
  BY <1>1, <1>2, <1>4, CatchMoves
<1>5. ASSUME NEW status \in AtWork, NEW at \in {"removeOld", "poll", "fetch"}, s \notin {"none", "gone"},
             NEW row, row = [rows[r] EXCEPT !.status = status], Go(r, row, [u EXCEPT !.at = at])
      PROVE  TaskEffect(r)
  <2>1. row \in RowRecord /\ row.credentials = rows[r].credentials /\ row.result = rows[r].result
        /\ row.status \in AtWork
    BY <1>2, <1>5 DEF RowRecord, RowStatus
  <2>2. [u EXCEPT !.at = at] \in TaskRecord
        /\ [u EXCEPT !.at = at].at = at /\ [u EXCEPT !.at = at].mine = t.mine
    BY <1>2, <1>3, <1>5 DEF TaskRecord, CopyStatus
  <2>3. Agree(row, [u EXCEPT !.at = at])
    BY <1>1, <1>2, <2>1, <2>2 DEF Agree
  <2>4. CopiesMove(r, row)
    BY <1>2, <2>1 DEF CopiesMove
  <2> QED BY <1>5, <2>1, <2>2, <2>3, <2>4, GoMoves
<1>6. CASE s = "failed" /\ Catch(r, u, FALSE)
  <2>1. u \in TaskRecord /\ u.mine = t.mine
    BY <1>2, <1>6 DEF TaskRecord
  <2> HIDE DEF u
  <2> QED BY <1>1, <1>2, <1>6, <2>1, CatchMoves
<1>7. CASE s \in {"failed", "awaiting"} /\ Go(r, rows[r], [u EXCEPT !.at = "removeOld"])
  <2>1. rows[r].status \in AtWork /\ rows[r] = [rows[r] EXCEPT !.status = rows[r].status]
    BY <1>1, <1>2 DEF Agree, RowRecord
  <2> QED BY <1>5, <1>7, <2>1
<1>8. CASE s = "working" /\ Go(r, [rows[r] EXCEPT !.status = "processing"], [u EXCEPT !.at = "poll"])
  BY <1>5, <1>8 DEF AtWork
<1>9. CASE s = "complete" /\ Go(r, [rows[r] EXCEPT !.status = "receiving"], [u EXCEPT !.at = "fetch"])
  BY <1>5, <1>9 DEF AtWork
<1> QED BY <1>4, <1>6, <1>7, <1>8, <1>9 DEF Read

\* The result of the job is downloaded.
LEMMA FetchMoves ==
  ASSUME BatchInv, NEW r \in Row, Fetch(r)
  PROVE  TaskEffect(r)
<1>1. tasks[r].at = "fetch" /\ UNCHANGED <<copies, unanswered, denied>>
  BY DEF Fetch, Quiet
<1>2. /\ rows[r] \in RowRecord /\ tasks[r] \in TaskRecord /\ CopiesMove(r, rows[r])
  BY <1>1, RowOfTask
<1>3. CASE copies[r][tasks[r].mine] = "gone" /\ Catch(r, tasks[r], TRUE)
  BY <1>1, <1>2, <1>3, CatchMoves
<1> DEFINE row == [rows[r] EXCEPT !.status = "ready", !.result = TRUE, !.cleanupError = FALSE]
<1>4. CASE EndTask(r, row)
  <2>1. row \in RowRecord /\ row.status = "ready" /\ row.credentials = rows[r].credentials
    BY <1>2 DEF RowRecord, RowStatus
  <2> HIDE DEF row
  <2>2. CopiesMove(r, row)
    BY <1>2, <2>1 DEF CopiesMove
  <2> QED BY <1>4, <2>1, <2>2, EndMoves
<1> QED BY <1>3, <1>4 DEF Fetch

\* The job of the earlier attempt is deleted before the next one is created.
LEMMA RemoveOldMoves ==
  ASSUME BatchInv, NEW r \in Row, RemoveOld(r) \/ RemoveOldLost(r)
  PROVE  TaskEffect(r)
<1>1. tasks[r].at = "removeOld" /\ unanswered' = unanswered
  BY DEF RemoveOld, RemoveOldLost
<1>2. /\ rows[r] \in RowRecord /\ tasks[r] \in TaskRecord /\ Agree(rows[r], tasks[r])
      /\ ~ rows[r].result /\ tasks[r].mine \in Attempt /\ rows[r].credentials = tasks[r].mine
      /\ copies[r] \in [Attempt -> CopyStatus]
  BY <1>1, RowOfTask
<1>3. PICK k \in Attempt :
        /\ k = tasks[r].mine /\ (Deletes(r, k) \/ DeletesInDoubt(r, k))
        /\ RemoveOld(r) => Deletes(r, k)
  BY <1>2 DEF RemoveOld, RemoveOldLost
<1>4. CopiesMove(r, rows[r]) /\ (RemoveOld(r) => ~ Owed(r, k)')
  BY <1>1, <1>2, <1>3, DeletionMoves
<1>5. CASE RemoveOldLost(r)
  <2>1. Catch(r, tasks[r], FALSE)
    BY <1>5 DEF RemoveOldLost
  <2> QED BY <1>1, <1>2, <1>4, <2>1, CatchMoves
<1>6. CASE RemoveOld(r)
  <2> DEFINE row == [rows[r] EXCEPT !.credentials = 0]
             t == [tasks[r] EXCEPT !.at = "create", !.mine = 0]
  <2>3. row \in RowRecord /\ row.credentials = 0 /\ row.result = rows[r].result /\ row.status = rows[r].status
    BY <1>2, Emptied
  <2>4. t \in TaskRecord /\ t.at = "create" /\ t.mine = 0
    BY <1>2, RowsFinite DEF TaskRecord
  <2>5. Fail(r, row) \/ Go(r, row, t)
    BY <1>6 DEF RemoveOld
  <2> HIDE DEF row, t
  <2>6. CopiesMove(r, row)
    BY <1>1, <1>3, <1>4, <1>6, <2>3, Forgotten DEF row
  <2>7. Agree(row, t)
    BY <1>1, <1>2, <2>3, <2>4 DEF Agree
  <2> QED BY <1>2, <2>3, <2>4, <2>5, <2>6, <2>7, FailMoves, GoMoves
<1> QED BY <1>5, <1>6

\* A row whose task is to create has no copy to answer for.
LEMMA NoneOwed ==
  ASSUME BatchInv, NEW r \in Row, tasks[r].at = "create", NEW k \in Attempt
  PROVE  ~ Owed(r, k)
<1>1. rows[r].credentials = 0
  BY RowOfTask DEF Agree
<1>2. k # 0
  BY DEF Attempt
<1> QED BY <1>1, <1>2 DEF BatchInv, CopiesHeld

\* The job is created and its credentials are kept by the row.
LEMMA CreateMoves ==
  ASSUME BatchInv, NEW r \in Row, CreateCopy(r)
  PROVE  TaskEffect(r)
<1>1. tasks[r].at = "create" /\ unanswered' = unanswered /\ denied' = denied
  BY DEF CreateCopy
<1>2. rows[r] \in RowRecord /\ tasks[r] \in TaskRecord /\ Agree(rows[r], tasks[r]) /\ ~ rows[r].result
  BY <1>1, RowOfTask
<1> DEFINE row(k) == [rows[r] EXCEPT !.credentials = k, !.status = "uploading", !.cleanupError = FALSE]
           t(k) == [tasks[r] EXCEPT !.at = "upload", !.mine = k, !.created = TRUE]
<1>3. PICK k \in Attempt :
        /\ copies' = [copies EXCEPT ![r][k] = "awaiting"]
        /\ Fail(r, row(k)) \/ Go(r, row(k), t(k))
  BY DEF CreateCopy
<1>4. k \in 0 .. MaxAttempts /\ k # 0
  BY RowsFinite DEF Attempt
<1>5. /\ row(k) \in RowRecord /\ row(k).credentials = k /\ row(k).result = rows[r].result
      /\ row(k).status = "uploading"
  BY <1>2, <1>4 DEF RowRecord, RowStatus, AtWork
<1>6. t(k) \in TaskRecord /\ t(k).at = "upload" /\ t(k).mine = k
  BY <1>2, <1>4 DEF TaskRecord
<1> HIDE DEF row, t
<1>7. /\ copies' \in [Row -> [Attempt -> CopyStatus]]
      /\ \A o \in Row \ {r} : copies'[o] = copies[o]
      /\ \A i \in Attempt \ {k} : copies'[r][i] = copies[r][i]
  BY <1>3, CopySet DEF CopyStatus
<1>8. CopiesMove(r, row(k))
  <2>1. ASSUME NEW i \in Attempt, Owed(r, i)' PROVE i = k
    BY <1>1, <1>7, <2>1, NoneOwed DEF Owed, Unknowable
  <2> QED BY <1>1, <1>5, <1>7, <2>1 DEF CopiesMove, BatchInv, StoresOK
<1>9. Agree(row(k), t(k))
  BY <1>2, <1>4, <1>5, <1>6 DEF Agree, AtWork
<1> QED BY <1>2, <1>3, <1>5, <1>6, <1>8, <1>9, FailMoves, GoMoves

\* The creation is refused, or its answer is lost.
LEMMA CreateFailsMoves ==
  ASSUME BatchInv, NEW r \in Row, CreateRefused(r) \/ CreateLost(r)
  PROVE  TaskEffect(r)
<1>1. tasks[r].at = "create"
  BY DEF CreateRefused, CreateLost
<1>2. rows[r] \in RowRecord /\ tasks[r] \in TaskRecord /\ ~ rows[r].result
  BY <1>1, RowOfTask
<1>3. CASE CreateRefused(r)
  <2>1. CopiesMove(r, rows[r])
    BY <1>1, <1>3, RowOfTask DEF CreateRefused, Quiet
  <2> DEFINE row == [rows[r] EXCEPT !.status = "waiting"]
  <2>2. CASE Fail(r, rows[r])
    BY <1>2, <2>1, <2>2, FailMoves
  <2>3. CASE /\ SetRow(r, row) /\ tasks' = [tasks EXCEPT ![r] = NoTask]
             /\ queue' = [queue EXCEPT !.paused = TRUE]
    <3>1. row \in RowRecord /\ ~ row.result /\ row.credentials = rows[r].credentials
      BY <1>2 DEF RowRecord, RowStatus
    <3> HIDE DEF row
    <3>2. Moves(r, row, NoTask) /\ Agree(row, NoTask)
      BY <2>3, <3>1 DEF Moves, Agree, NoTask
    <3>3. CopiesMove(r, row)
      BY <2>1, <3>1 DEF CopiesMove
    <3> QED BY <3>1, <3>2, <3>3, RowsFinite DEF TaskEffect
  <2> QED BY <1>3, <2>2, <2>3 DEF CreateRefused
<1>4. CASE CreateLost(r)
  <2>1. Catch(r, tasks[r], FALSE)
    BY <1>4 DEF CreateLost
  <2>2. CASE UNCHANGED <<copies, unanswered, denied>>
    BY <1>1, <1>2, <2>1, <2>2, RowOfTask, CatchMoves
  <2>3. ASSUME NEW k \in Attempt, copies' = [copies EXCEPT ![r][k] = "awaiting"],
               unanswered' = unanswered \cup {<<r, k>>}, denied' = denied
        PROVE  CopiesMove(r, rows[r])
    <3>1. /\ copies' \in [Row -> [Attempt -> CopyStatus]]
          /\ \A o \in Row \ {r} : copies'[o] = copies[o]
          /\ \A i \in Attempt \ {k} : copies'[r][i] = copies[r][i]
      BY <2>3, CopySet DEF CopyStatus
    <3>2. ASSUME NEW i \in Attempt, Owed(r, i)' PROVE FALSE
      <4>1. i # k /\ copies'[r][i] = copies[r][i] /\ ~ Unknowable(r, i)
        BY <2>3, <3>1, <3>2 DEF Owed, Unknowable
      <4> QED BY <1>1, <3>2, <4>1, NoneOwed DEF Owed, Unknowable
    <3>3. {unanswered', denied'} \subseteq SUBSET (Row \X Attempt)
      BY <2>3 DEF BatchInv, StoresOK
    <3> QED BY <2>3, <3>1, <3>2, <3>3 DEF CopiesMove
  <2>4. CopiesMove(r, rows[r])
    BY <1>1, <1>4, <2>2, <2>3, RowOfTask DEF CreateLost
  <2> QED BY <1>1, <1>2, <2>1, <2>4, CatchMoves
<1> QED BY <1>3, <1>4

\* The file is uploaded.
LEMMA UploadMoves ==
  ASSUME BatchInv, NEW r \in Row, Upload(r)
  PROVE  TaskEffect(r)
<1>1. tasks[r].at = "upload" /\ UNCHANGED <<copies, unanswered, denied>>
  BY DEF Upload, Quiet
<1>2. /\ rows[r] \in RowRecord /\ tasks[r] \in TaskRecord /\ Agree(rows[r], tasks[r])
      /\ ~ rows[r].result /\ CopiesMove(r, rows[r])
  BY <1>1, RowOfTask
<1>3. CASE copies[r][tasks[r].mine] = "gone" /\ Catch(r, tasks[r], TRUE)
  BY <1>1, <1>2, <1>3, CatchMoves
<1>4. CASE Fail(r, rows[r])
  BY <1>2, <1>4, FailMoves
<1> DEFINE t == [tasks[r] EXCEPT !.at = "submit"]
<1>5. CASE Go(r, rows[r], t)
  <2>1. t \in TaskRecord /\ t.at = "submit" /\ t.mine = tasks[r].mine
    BY <1>2 DEF TaskRecord
  <2> HIDE DEF t
  <2>2. Agree(rows[r], t)
    BY <1>1, <1>2, <2>1 DEF Agree
  <2> QED BY <1>2, <1>5, <2>1, <2>2, GoMoves
<1> QED BY <1>3, <1>4, <1>5 DEF Upload

\* The job is submitted.
LEMMA SubmitMoves ==
  ASSUME BatchInv, NEW r \in Row, Submit(r) \/ SubmitLost(r)
  PROVE  TaskEffect(r)
<1>1. tasks[r].at = "submit" /\ unanswered' = unanswered /\ denied' = denied
  BY DEF Submit, SubmitLost
<1>2. /\ rows[r] \in RowRecord /\ tasks[r] \in TaskRecord /\ Agree(rows[r], tasks[r])
      /\ ~ rows[r].result /\ tasks[r].mine \in Attempt /\ rows[r].credentials = tasks[r].mine
      /\ UNCHANGED <<copies, unanswered, denied>> => CopiesMove(r, rows[r])
  BY <1>1, RowOfTask
<1>3. CASE copies' = copies /\ copies[r][tasks[r].mine] = "gone" /\ Catch(r, tasks[r], TRUE)
  BY <1>1, <1>2, <1>3, CatchMoves
<1>4. ASSUME copies' = copies \/ copies' = [copies EXCEPT ![r][tasks[r].mine] = "working"]
      PROVE  CopiesMove(r, rows[r])
  <2>1. CASE copies' = copies
    BY <1>1, <1>2, <2>1
  <2>2. CASE copies' = [copies EXCEPT ![r][tasks[r].mine] = "working"]
    <3>1. "working" \in CopyStatus
      BY DEF CopyStatus
    <3>2. denied \subseteq denied' /\ denied' \subseteq Row \X Attempt
      BY <1>1 DEF BatchInv, StoresOK
    <3> QED BY <1>1, <1>2, <2>2, <3>1, <3>2, CopyChanges
  <2> QED BY <1>4, <2>1, <2>2
<1>5. CASE SubmitLost(r)
  <2>1. Catch(r, tasks[r], FALSE) /\ CopiesMove(r, rows[r])
    BY <1>4, <1>5 DEF SubmitLost
  <2> QED BY <1>1, <1>2, <2>1, CatchMoves
<1> DEFINE row == [rows[r] EXCEPT !.status = "processing"]
           t == [tasks[r] EXCEPT !.at = "poll", !.job = "working"]
<1>6. CASE copies' = [copies EXCEPT ![r][tasks[r].mine] = "working"] /\ (Fail(r, rows[r]) \/ Go(r, row, t))
  <2>1. row \in RowRecord /\ row.status \in AtWork /\ row.credentials = rows[r].credentials
        /\ row.result = rows[r].result
    BY <1>2 DEF RowRecord, RowStatus, AtWork
  <2>2. t \in TaskRecord /\ t.at = "poll" /\ t.mine = tasks[r].mine
    BY <1>2 DEF TaskRecord
  <2> HIDE DEF row, t
  <2>3. Agree(row, t)
    BY <1>1, <1>2, <2>1, <2>2 DEF Agree
  <2>4. CopiesMove(r, rows[r]) /\ CopiesMove(r, row)
    BY <1>4, <1>6, <2>1 DEF CopiesMove
  <2> QED BY <1>2, <1>6, <2>1, <2>2, <2>3, <2>4, FailMoves, GoMoves
<1> QED BY <1>3, <1>5, <1>6 DEF Submit

\* The job of a failed attempt is deleted.
LEMMA RemoveFailedMoves ==
  ASSUME BatchInv, NEW r \in Row, RemoveFailed(r) \/ RemoveFailedLost(r)
  PROVE  TaskEffect(r)
<1>1. tasks[r].at = "removeFailed" /\ unanswered' = unanswered
  BY DEF RemoveFailed, RemoveFailedLost
<1>2. /\ rows[r] \in RowRecord /\ ~ rows[r].result
      /\ tasks[r].mine \in Attempt /\ rows[r].credentials = tasks[r].mine
      /\ copies[r] \in [Attempt -> CopyStatus]
  BY <1>1, RowOfTask
<1>3. PICK k \in Attempt :
        /\ k = tasks[r].mine /\ (Deletes(r, k) \/ DeletesInDoubt(r, k))
        /\ RemoveFailed(r) => Deletes(r, k)
  BY <1>2 DEF RemoveFailed, RemoveFailedLost
<1>4. CopiesMove(r, rows[r]) /\ (RemoveFailed(r) => ~ Owed(r, k)')
  BY <1>1, <1>2, <1>3, DeletionMoves
<1>5. CASE RemoveFailedLost(r)
  <2> DEFINE row == [rows[r] EXCEPT !.cleanupError = TRUE]
  <2>1. row \in RowRecord /\ ~ row.result /\ row.credentials = rows[r].credentials
    BY <1>2 DEF RowRecord
  <2>2. Fail(r, row)
    BY <1>5 DEF RemoveFailedLost
  <2> HIDE DEF row
  <2>3. CopiesMove(r, row)
    BY <1>4, <2>1 DEF CopiesMove
  <2> QED BY <2>1, <2>2, <2>3, FailMoves
<1>6. CASE RemoveFailed(r)
  <2> DEFINE row == [rows[r] EXCEPT !.credentials = 0]
  <2>1. row \in RowRecord /\ ~ row.result
    BY <1>2, Emptied
  <2>2. Fail(r, row)
    BY <1>6 DEF RemoveFailed
  <2> HIDE DEF row
  <2>4. CopiesMove(r, row)
    BY <1>1, <1>3, <1>4, <1>6, <2>1, Forgotten DEF row
  <2> QED BY <2>1, <2>2, <2>4, FailMoves
<1> QED BY <1>5, <1>6

\* Every step of a task keeps the invariant and the results.
LEMMA TasksKept ==
  ASSUME BatchInv, NEW r \in Row, TaskStep(r) \/ TaskLoses(r)
  PROVE  BatchInv' /\ ResultsStay
<1>1. TaskEffect(r)
  BY SourceMoves, ReadMoves, FetchMoves, RemoveOldMoves, CreateMoves, CreateFailsMoves,
     UploadMoves, SubmitMoves, RemoveFailedMoves DEF TaskStep, TaskLoses
<1>2. PICK row \in RowRecord, t \in TaskRecord :
        Agree(row, t) /\ Moves(r, row, t) /\ CopiesMove(r, row)
  BY <1>1 DEF TaskEffect
<1>3. /\ tasks[r].at # "idle" /\ UNCHANGED <<sweep, closed>>
      /\ AllowanceOK' /\ allowance'.tasks = allowance.tasks
  BY TaskFrame
<1> QED BY <1>2, <1>3, MovesKeep
-----------------------------------------------------------------------------
\* With the same rows the stored credentials are the same.
LEMMA SameRows ==
  ASSUME BatchInv, rows' = rows
  PROVE  ResultsStay
BY DEF BatchInv, Fits, Agree, ResultsStay

\* Where rows and tasks stay as they are.
LEMMA RestStays ==
  ASSUME BatchInv, UNCHANGED <<rows, tasks, stored>>, AllowanceOK', allowance'.tasks = allowance.tasks,
         queue' \in [paused : BOOLEAN, cancelled : BOOLEAN], closed' \in BOOLEAN,
         copies' \in [Row -> [Attempt -> CopyStatus]], unanswered' = unanswered,
         denied' \subseteq Row \X Attempt
  PROVE  /\ Fits(rows, tasks, allowance.tasks)' /\ StoresOK' /\ ResultsStay
         /\ Active' = Active
BY SameRows DEF BatchInv, Fits, StoresOK, Underway, Emitted, Active

\* What a sweep is about to delete.
Reads(s, kind, rs) ==
  /\ s \in SweepRecord /\ s.at = "next" /\ s.kind = kind /\ s.left \subseteq rs
  /\ \A r \in s.left : s.read[r] = rows[r].credentials /\ s.read[r] # 0
  /\ \A r \in rs \ s.left : rows[r].credentials = 0

\* A sweep that reads its rows knows their credentials.
LEMMA SweepReads ==
  ASSUME BatchInv, NEW kind \in {"clear", "cleanup", "release"}, NEW rs \in SUBSET Row
  PROVE  Reads(Sweeping(kind, rs, FALSE), kind, rs)
<1>1. \A r \in Row : rows[r].credentials \in 0 .. MaxAttempts
  BY DEF BatchInv, Fits, RowRecord
<1> QED BY <1>1 DEF Reads, Sweeping, SweepRecord, Deleting

\* A sweep begins when no task runs, or only ready rows are released.
LEMMA SweepBegins ==
  ASSUME BatchInv, NEW kind \in {"clear", "cleanup", "release"}, NEW rs \in SUBSET Row,
         sweep' = Sweeping(kind, rs, FALSE), ~ closed,
         kind # "release" => Active = {},
         kind = "release" => \A r \in rs : rows[r].status = "ready",
         kind = "clear" => rs = Row /\ queue.cancelled,
         UNCHANGED <<rows, tasks, queue, closed, stored, copies, unanswered, denied, allowance>>
  PROVE  BatchInv' /\ ResultsStay
<1>1. /\ sweep' \in SweepRecord /\ sweep'.at = "next" /\ sweep'.kind = kind /\ sweep'.left \subseteq rs
      /\ \A r \in sweep'.left : sweep'.read[r] = rows[r].credentials /\ sweep'.read[r] # 0
      /\ \A r \in rs \ sweep'.left : rows[r].credentials = 0
  <2>1. Reads(Sweeping(kind, rs, FALSE), kind, rs)
    BY SweepReads
  <2>2. Reads(sweep', kind, rs)
    BY <2>1
  <2> QED BY <2>2 DEF Reads
<1>2. Fits(rows, tasks, allowance.tasks)' /\ StoresOK' /\ ResultsStay /\ Active' = Active
  BY RestStays DEF BatchInv, StoresOK, AllowanceOK
<1>3. SweepTrue'
  BY <1>1, <1>2 DEF SweepTrue
<1>4. CopiesHeld' /\ ClosedTrue'
  BY DEF BatchInv, CopiesHeld, Owed, Unknowable, ClosedTrue
<1> QED BY <1>2, <1>3, <1>4 DEF BatchInv

\* Clearing that settled, the cleanup and the release of one row each begin so.
LEMMA SweepsBegin ==
  ASSUME BatchInv, Settle \/ ClickRetryCleanup \/ \E rs \in SUBSET Row : ClickDownload(rs)
  PROVE  BatchInv' /\ ResultsStay
<1>1. CASE Settle
  <2>1. queue.cancelled /\ ~ closed
    BY <1>1 DEF Settle, BatchInv, SweepTrue, ClosedTrue
  <2> QED BY <1>1, <2>1, SweepBegins DEF Settle
<1>2. CASE ClickRetryCleanup
  <2>1. Active = {}
    BY <1>2 DEF ClickRetryCleanup, Active, BatchInv, Fits, Agree, AtWork
  <2> DEFINE due == {r \in Row : rows[r].cleanupError}
  <2>2. due \in SUBSET Row /\ sweep' = Sweeping("cleanup", due, FALSE)
    BY <1>2 DEF ClickRetryCleanup
  <2> HIDE DEF due
  <2> QED BY <1>2, <2>1, <2>2, SweepBegins DEF ClickRetryCleanup
<1>3. ASSUME NEW rs \in SUBSET Row, ClickDownload(rs) PROVE BatchInv' /\ ResultsStay
  BY <1>3, SweepBegins DEF ClickDownload
<1> QED BY <1>1, <1>2, <1>3

\* Clearing cancels the batch and waits for its tasks.
LEMMA ClearKept == ASSUME BatchInv, ClickClear PROVE BatchInv' /\ ResultsStay
<1>1. /\ sweep.at = "idle" /\ ~ closed /\ queue' = [paused |-> TRUE, cancelled |-> TRUE]
      /\ sweep' = [NoSweep EXCEPT !.at = "settling", !.kind = "clear"]
      /\ UNCHANGED <<tasks, closed, copies, unanswered, denied, allowance>>
      /\ rows' = [r \in Row |-> IF rows[r].status = "waiting"
                                THEN [rows[r] EXCEPT !.status = "failed"] ELSE rows[r]]
      /\ stored' = Emitted(rows')
  BY DEF ClickClear, Busy, SetRows
<1>2. ASSUME NEW r \in Row
      PROVE  /\ rows'[r] \in RowRecord /\ rows'[r].credentials = rows[r].credentials
             /\ Agree(rows'[r], tasks[r])
             /\ rows[r].result => rows'[r] = rows[r]
  <2>1. rows[r] \in RowRecord /\ Agree(rows[r], tasks[r])
    BY DEF BatchInv, Fits
  <2>2. CASE rows[r].status # "waiting"
    BY <1>1, <2>1, <2>2
  <2>3. CASE rows[r].status = "waiting"
    <3>1. tasks[r].at = "idle" /\ ~ rows[r].result
      BY <2>1, <2>3 DEF Agree, AtWork
    <3>2. /\ rows'[r] \in RowRecord /\ rows'[r].credentials = rows[r].credentials
          /\ ~ rows'[r].result
      BY <1>1, <2>1, <2>3, <3>1 DEF RowRecord, RowStatus
    <3> QED BY <2>1, <3>1, <3>2 DEF Agree
  <2> QED BY <2>2, <2>3
<1>3. Fits(rows, tasks, allowance.tasks)'
  BY <1>1, <1>2 DEF BatchInv, Fits, Underway
<1>4. StoresOK'
  BY <1>1 DEF BatchInv, StoresOK, AllowanceOK
<1>5. CopiesHeld' /\ ClosedTrue'
  BY <1>1, <1>2 DEF BatchInv, CopiesHeld, Owed, Unknowable, ClosedTrue
<1>6. SweepTrue'
  <2>1. sweep' \in SweepRecord /\ sweep'.at = "settling" /\ sweep'.kind = "clear"
    BY <1>1, RowsFinite DEF NoSweep, SweepRecord, Deleting
  <2> QED BY <1>1, <2>1 DEF SweepTrue, Deleting
<1>7. ResultsStay
  BY <1>2 DEF ResultsStay, BatchInv, Fits, Agree
<1> QED BY <1>3, <1>4, <1>5, <1>6, <1>7 DEF BatchInv

\* Copies that end or go leave everything else in place.
LEMMA CopyGoes ==
  ASSUME BatchInv, NEW r \in Row, NEW k \in Attempt, NEW s \in CopyStatus,
         copies' = [copies EXCEPT ![r][k] = s], s = "gone" \/ copies[r][k] = "working",
         UNCHANGED <<unanswered, denied, rows>>
  PROVE  /\ copies' \in [Row -> [Attempt -> CopyStatus]] /\ CopiesHeld'
         /\ \A o \in Row, i \in Attempt : Owed(o, i)' => Owed(o, i)
<1>1. /\ copies' \in [Row -> [Attempt -> CopyStatus]] /\ copies'[r][k] = s
      /\ \A o \in Row \ {r} : copies'[o] = copies[o]
      /\ \A i \in Attempt \ {k} : copies'[r][i] = copies[r][i]
  BY CopySet
<1>2. ASSUME NEW o \in Row, NEW i \in Attempt, Owed(o, i)' PROVE Owed(o, i)
  <2>1. CASE o = r /\ i = k
    BY <1>1, <1>2, <2>1 DEF Owed, Unknowable
  <2>2. CASE ~ (o = r /\ i = k)
    BY <1>1, <1>2, <2>2 DEF Owed, Unknowable
  <2> QED BY <2>1, <2>2
<1> QED BY <1>1, <1>2 DEF BatchInv, CopiesHeld

\* The service works on its jobs and lets them expire.
LEMMA ServiceKept ==
  ASSUME BatchInv, NEW r \in Row, NEW k \in Attempt, CopyEnds(r, k) \/ CopyExpires(r, k)
  PROVE  BatchInv' /\ ResultsStay
<1>1. PICK s \in CopyStatus :
        copies' = [copies EXCEPT ![r][k] = s] /\ (s = "gone" \/ copies[r][k] = "working")
  BY DEF CopyEnds, CopyExpires, CopyStatus
<1>2. UNCHANGED <<rows, tasks, queue, sweep, closed, stored, unanswered, denied, allowance>>
  BY DEF CopyEnds, CopyExpires
<1>3. /\ copies' \in [Row -> [Attempt -> CopyStatus]] /\ CopiesHeld'
      /\ \A o \in Row, i \in Attempt : Owed(o, i)' => Owed(o, i)
  BY <1>1, <1>2, CopyGoes
<1>4. Fits(rows, tasks, allowance.tasks)' /\ StoresOK' /\ ResultsStay /\ Active' = Active
  BY <1>2, <1>3, RestStays DEF BatchInv, StoresOK, AllowanceOK
<1>5. \A o \in Row : Swept(o)' <=> Swept(o)
  BY <1>2 DEF Swept
<1>6. SweepTrue'
  <2>1. ASSUME sweep.at = "deleted", NEW o \in Row, Swept(o)
        PROVE  ~ Owed(o, sweep.read[o])'
    <3>1. ~ Owed(o, sweep.read[o]) /\ o \in sweep.left
      BY <2>1 DEF BatchInv, SweepTrue, Swept
    <3>2. sweep.read[o] # 0 /\ sweep.read[o] \in 0 .. MaxAttempts
      BY <2>1, <3>1 DEF BatchInv, SweepTrue, SweepRecord, Deleting
    <3>3. PICK i \in Attempt : i = sweep.read[o]
      BY <3>2, RowsFinite
    <3> QED BY <1>2, <1>3, <3>1, <3>3
  <2> QED BY <1>2, <1>4, <1>5, <2>1 DEF BatchInv, SweepTrue
<1>7. ClosedTrue'
  BY <1>2, <1>4 DEF BatchInv, ClosedTrue
<1> QED BY <1>3, <1>4, <1>6, <1>7 DEF BatchInv

\* The row a sweep is at has no task, and the sweep knows its copy.
LEMMA SweptRow ==
  ASSUME BatchInv, sweep.at \in Deleting, NEW r \in Row, Swept(r)
  PROVE  /\ r \in sweep.left /\ sweep.left \subseteq Row /\ ~ closed
         /\ sweep.read[r] \in Attempt /\ rows[r].credentials = sweep.read[r]
         /\ sweep.at \in {"deleted", "lost"} => r \notin Active \/ sweep.kind = "release"
         /\ sweep.kind = "release" => tasks[r].at = "idle"
         /\ \A o \in Row : Swept(o) => o = r
<1>1. r \in sweep.left /\ sweep \in SweepRecord /\ sweep.left \subseteq Row /\ ~ closed
  BY DEF Swept, BatchInv, SweepTrue, SweepRecord, ClosedTrue, Deleting
<1>2. sweep.read[r] = rows[r].credentials /\ sweep.read[r] # 0 /\ sweep.read[r] \in 0 .. MaxAttempts
  BY <1>1 DEF BatchInv, SweepTrue, SweepRecord
<1>3. sweep.kind = "release" => tasks[r].at = "idle"
  BY <1>1 DEF BatchInv, SweepTrue, Fits, Agree, AtWork
<1>4. sweep.kind # "release" => r \notin Active
  BY DEF BatchInv, SweepTrue
<1>5. \A o \in Row : Swept(o) => o = r
  BY RowsFinite, <1>1 DEF Swept
<1> QED BY <1>1, <1>2, <1>3, <1>4, <1>5, RowsFinite

\* The sweep asks for a row's job to be deleted.
LEMMA SweepDeleteKept ==
  ASSUME BatchInv, NEW r \in Row, SweepDelete(r)
  PROVE  BatchInv' /\ ResultsStay
<1>1. /\ sweep.at = "next" /\ sweep.at \in Deleting /\ Swept(r)
      /\ UNCHANGED <<rows, tasks, queue, closed, stored, unanswered>>
  BY DEF SweepDelete, Deleting
<1>2. /\ r \in sweep.left /\ sweep.left \subseteq Row /\ ~ closed
      /\ sweep.read[r] \in Attempt /\ rows[r].credentials = sweep.read[r]
      /\ sweep.kind = "release" => tasks[r].at = "idle"
      /\ \A o \in Row : Swept(o) => o = r
  BY <1>1, SweptRow
<1>3. sweep \in SweepRecord /\ AllowanceOK /\ copies \in [Row -> [Attempt -> CopyStatus]]
  BY DEF BatchInv, SweepTrue, StoresOK
<1>4. r \notin Active
  BY <1>1, <1>2 DEF BatchInv, SweepTrue, Active
<1>5. PICK k \in Attempt : k = sweep.read[r]
  BY <1>2
<1>6. \/ sweep' = [sweep EXCEPT !.at = "deleted"] /\ Deletes(r, k)
      \/ sweep' = [sweep EXCEPT !.at = "lost", !.failed = TRUE] /\ DeletesInDoubt(r, k)
  BY <1>4, <1>5 DEF SweepDelete
<1>7. /\ CopiesMove(r, rows[r]) /\ (Deletes(r, k) => ~ Owed(r, k)')
      /\ AllowanceOK' /\ allowance'.tasks = allowance.tasks
  BY <1>1, <1>2, <1>5, <1>6, DeletionMoves
<1>8. CopiesHeld'
  BY <1>1, <1>7 DEF CopiesMove, CopiesHeld, BatchInv, Owed, Unknowable
<1>9. Fits(rows, tasks, allowance.tasks)' /\ StoresOK' /\ ResultsStay /\ Active' = Active
  BY <1>1, <1>7, RestStays DEF BatchInv, StoresOK, CopiesMove
<1>10. SweepTrue'
  <2>1. /\ sweep' \in SweepRecord /\ sweep'.kind = sweep.kind /\ sweep'.left = sweep.left
        /\ sweep'.read = sweep.read
        /\ \/ sweep'.at = "deleted" /\ sweep'.failed = sweep.failed /\ Deletes(r, k)
           \/ sweep'.at = "lost" /\ sweep'.failed
    BY <1>3, <1>6 DEF SweepRecord, Deleting
  <2>2. \A o \in Row : Swept(o)' => o = r
    BY <1>2, <2>1 DEF Swept
  <2>3. sweep'.at = "deleted" => ~ Owed(r, sweep.read[r])'
    BY <1>5, <1>7, <2>1
  <2> QED BY <1>1, <1>9, <2>1, <2>2, <2>3 DEF BatchInv, SweepTrue, Deleting
<1>11. ClosedTrue'
  BY <1>1, <1>2 DEF ClosedTrue
<1> QED BY <1>8, <1>9, <1>10, <1>11 DEF BatchInv

\* The answer makes the row forget its credentials, or it is lost.
LEMMA SweepAnsweredKept ==
  ASSUME BatchInv, NEW r \in Row, SweepAnswered(r)
  PROVE  BatchInv' /\ ResultsStay
<1> DEFINE row == IF sweep.at = "deleted"
                    THEN [rows[r] EXCEPT !.credentials = 0, !.cleanupError = FALSE]
                    ELSE [rows[r] EXCEPT !.cleanupError = TRUE]
<1>1. /\ sweep.at \in {"deleted", "lost"} /\ sweep.at \in Deleting /\ Swept(r)
      /\ UNCHANGED <<tasks, queue, closed, copies, unanswered, denied, allowance>>
      /\ rows' = [rows EXCEPT ![r] = row] /\ stored' = Emitted(rows')
      /\ sweep' = [sweep EXCEPT !.at = "next", !.left = @ \ {r}]
  BY DEF SweepAnswered, Deleting, SetRow, SetRows
<1>2. /\ r \in sweep.left /\ sweep.left \subseteq Row /\ ~ closed
      /\ sweep.read[r] \in Attempt /\ rows[r].credentials = sweep.read[r]
      /\ sweep.kind = "release" => tasks[r].at = "idle"
  BY <1>1, SweptRow
<1>3. tasks[r].at = "idle"
  BY <1>1, <1>2 DEF BatchInv, SweepTrue, Active
<1>4. /\ rows \in [Row -> RowRecord] /\ \A o \in Row : Agree(rows[o], tasks[o])
      /\ sweep \in SweepRecord
  BY DEF BatchInv, Fits, SweepTrue
<1>5. /\ row \in RowRecord /\ row.status = rows[r].status /\ row.result = rows[r].result
      /\ row.credentials = IF sweep.at = "deleted" THEN 0 ELSE rows[r].credentials
  BY <1>4, RowsFinite DEF RowRecord
<1> HIDE DEF row
<1>6. /\ rows' \in [Row -> RowRecord] /\ rows'[r] = row
      /\ \A o \in Row \ {r} : rows'[o] = rows[o]
  BY <1>1, <1>4, <1>5
<1>7. Fits(rows, tasks, allowance.tasks)'
  <2>1. Agree(row, tasks[r])
    BY <1>3, <1>4, <1>5 DEF Agree
  <2>2. \A o \in Row : Agree(rows'[o], tasks[o])
    BY <1>4, <1>6, <2>1
  <2> QED BY <1>1, <1>6, <2>2 DEF BatchInv, Fits, Underway
<1>8. StoresOK'
  BY <1>1 DEF BatchInv, StoresOK, AllowanceOK
<1>9. CopiesHeld'
  <2>1. sweep.at = "deleted" => ~ Owed(r, sweep.read[r])
    BY <1>1 DEF BatchInv, SweepTrue
  <2>2. ASSUME NEW k \in Attempt, Owed(r, k) PROVE rows'[r].credentials = k
    BY <1>1, <1>2, <1>5, <1>6, <2>1, <2>2 DEF BatchInv, CopiesHeld
  <2> QED BY <1>1, <1>6, <2>2 DEF BatchInv, CopiesHeld, Owed, Unknowable
<1>10. SweepTrue'
  <2>1. /\ sweep' \in SweepRecord /\ sweep'.kind = sweep.kind /\ sweep'.left = sweep.left \ {r}
        /\ sweep'.read = sweep.read /\ sweep'.at = "next" /\ sweep'.failed = sweep.failed
    BY <1>1, <1>4 DEF SweepRecord, Deleting
  <2>2. \A o \in sweep'.left : o \in sweep.left /\ o \in Row /\ rows'[o] = rows[o]
    BY <1>2, <1>6, <2>1
  <2>3. Active' = Active
    BY <1>1 DEF Active
  <2>4. ~ sweep'.failed => rows'[r].credentials = 0
    BY <1>1, <1>5, <1>6, <2>1 DEF BatchInv, SweepTrue
  <2>5. ASSUME sweep'.kind = "clear", ~ sweep'.failed, NEW o \in Row \ sweep'.left
        PROVE  rows'[o].credentials = 0
    BY <1>1, <1>6, <2>1, <2>4, <2>5 DEF BatchInv, SweepTrue
  <2> QED BY <1>1, <2>1, <2>2, <2>3, <2>5 DEF BatchInv, SweepTrue
<1>11. ClosedTrue'
  BY <1>1, <1>2 DEF ClosedTrue
<1>12. ResultsStay
  BY <1>4, <1>5, <1>6 DEF ResultsStay, Agree
<1> QED BY <1>7, <1>8, <1>9, <1>10, <1>11, <1>12 DEF BatchInv

\* A clearing that deleted everything closes the batch.
LEMMA SweepEndsKept ==
  ASSUME BatchInv, SweepEnds
  PROVE  BatchInv' /\ ResultsStay
<1>1. /\ sweep.at = "next" /\ sweep.at \in Deleting /\ sweep.left = {} /\ sweep' = NoSweep
      /\ UNCHANGED <<rows, tasks, queue, copies, unanswered, denied, allowance>>
      /\ IF sweep.kind = "clear" /\ ~ sweep.failed
           THEN closed' = TRUE /\ stored' = [r \in Row |-> 0]
           ELSE UNCHANGED <<closed, stored>>
  BY DEF SweepEnds, Deleting
<1>2. ~ closed
  BY <1>1 DEF BatchInv, ClosedTrue
<1>3. closed' => Active = {} /\ \A r \in Row : rows[r].credentials = 0
  BY <1>1, <1>2 DEF BatchInv, SweepTrue
<1>4. stored' = Emitted(rows)
  BY <1>1, <1>3 DEF BatchInv, StoresOK, Emitted
<1>5. /\ Fits(rows, tasks, allowance.tasks)' /\ StoresOK' /\ ResultsStay /\ Active' = Active
  BY <1>1, <1>2, <1>4, RestStays DEF BatchInv, StoresOK, AllowanceOK
<1>6. SweepTrue'
  <2>1. sweep' \in SweepRecord /\ sweep'.at = "idle"
    BY <1>1, RowsFinite DEF NoSweep, SweepRecord, Deleting
  <2> QED BY <2>1 DEF SweepTrue, Deleting
<1>7. CopiesHeld' /\ ClosedTrue'
  BY <1>1, <1>3, <1>5 DEF BatchInv, CopiesHeld, Owed, Unknowable, ClosedTrue, NoSweep
<1> QED BY <1>5, <1>6, <1>7 DEF BatchInv
-----------------------------------------------------------------------------
\* The rows are queued again as next and pumped, while nothing is swept.
LEMMA PumpKept ==
  ASSUME BatchInv, NEW next, NEW ts, NEW q, Fits(next, ts, allowance.tasks), Pump(next, ts, q),
         q \in [paused : BOOLEAN, cancelled : BOOLEAN],
         \A r \in Row : next[r].credentials = rows[r].credentials,
         sweep' \in SweepRecord, sweep'.at = "idle", ~ closed, UNCHANGED <<closed, copies, unanswered, denied>>,
         AllowanceOK', allowance'.tasks = allowance.tasks
  PROVE  /\ BatchInv'
         /\ \A r \in Row : next[r].status = "ready" => rows'[r] = next[r]
<1>1. AllowanceOK
  BY DEF BatchInv, StoresOK
<1>2. /\ Fits(rows', tasks', allowance.tasks) /\ stored' = Emitted(rows') /\ queue' = q
      /\ \A r \in Row :
           /\ rows'[r].credentials = next[r].credentials
           /\ next[r].status # "waiting" \/ q.cancelled => rows'[r] = next[r] /\ tasks'[r] = ts[r]
  BY <1>1, PumpEffect
<1>3. Fits(rows, tasks, allowance.tasks)' /\ StoresOK'
  BY <1>2 DEF BatchInv, StoresOK
<1>4. CopiesHeld' /\ SweepTrue' /\ ClosedTrue'
  BY <1>2 DEF BatchInv, CopiesHeld, Owed, Unknowable, SweepTrue, ClosedTrue, Deleting
<1> QED BY <1>2, <1>3, <1>4 DEF BatchInv

\* Pausing stops the queue, not its tasks.
LEMMA PauseKept ==
  ASSUME BatchInv, Pause
  PROVE  BatchInv' /\ ResultsStay
<1>1. /\ queue' = [queue EXCEPT !.paused = TRUE] /\ allowance' = [allowance EXCEPT !.pauses = @ - 1]
      /\ allowance.pauses > 0 /\ sweep.at = "idle"
      /\ UNCHANGED <<rows, tasks, sweep, closed, stored, copies, unanswered, denied>>
  BY DEF Pause, Busy
<1>2. /\ AllowanceOK' /\ allowance'.tasks = allowance.tasks
      /\ queue' \in [paused : BOOLEAN, cancelled : BOOLEAN] /\ queue'.cancelled = queue.cancelled
  <2>1. AllowanceOK /\ queue \in [paused : BOOLEAN, cancelled : BOOLEAN]
    BY DEF BatchInv, StoresOK
  <2>2. AllowanceOK' /\ allowance'.tasks = allowance.tasks
    BY <1>1, <2>1 DEF AllowanceOK
  <2>3. queue' \in [paused : BOOLEAN, cancelled : BOOLEAN] /\ queue'.cancelled = queue.cancelled
    BY <1>1, <2>1
  <2> QED BY <2>2, <2>3
<1>3. Fits(rows, tasks, allowance.tasks)' /\ StoresOK' /\ ResultsStay /\ Active' = Active
  BY <1>1, <1>2, RestStays DEF BatchInv, StoresOK
<1>4. CopiesHeld' /\ SweepTrue' /\ ClosedTrue'
  BY <1>1, <1>3 DEF BatchInv, CopiesHeld, Owed, Unknowable, SweepTrue, ClosedTrue, Deleting
<1> QED BY <1>3, <1>4 DEF BatchInv

\* Resuming pumps the queue.
LEMMA ResumeKept ==
  ASSUME BatchInv, Resume
  PROVE  BatchInv' /\ ResultsStay
<1> DEFINE q == [queue EXCEPT !.paused = FALSE]
<1>1. /\ sweep.at = "idle" /\ ~ closed /\ Pump(rows, tasks, q)
      /\ UNCHANGED <<sweep, closed, copies, unanswered, denied, allowance>>
  BY DEF Resume, Busy
<1>2. q \in [paused : BOOLEAN, cancelled : BOOLEAN]
  BY DEF BatchInv, StoresOK
<1>3. Fits(rows, tasks, allowance.tasks) /\ sweep' \in SweepRecord /\ sweep'.at = "idle"
      /\ AllowanceOK' /\ allowance'.tasks = allowance.tasks
  BY <1>1 DEF BatchInv, SweepTrue, StoresOK, AllowanceOK
<1> HIDE DEF q
<1>4. BatchInv' /\ \A r \in Row : rows[r].status = "ready" => rows'[r] = rows[r]
  BY <1>1, <1>2, <1>3, PumpKept
<1> QED BY <1>4 DEF ResultsStay, BatchInv, Fits, Agree

\* A failed row is queued again with the credentials it has.
LEMMA RetryKept ==
  ASSUME BatchInv, NEW rs \in SUBSET Row, Retry(rs)
  PROVE  BatchInv' /\ ResultsStay
<1> DEFINE next == [r \in Row |-> IF r \in rs THEN [rows[r] EXCEPT !.status = "waiting"] ELSE rows[r]]
<1>1. /\ sweep.at = "idle" /\ ~ closed /\ Pump(next, tasks, queue)
      /\ \A r \in rs : rows[r].status = "failed"
      /\ UNCHANGED <<sweep, closed, copies, unanswered, denied, allowance>>
  BY DEF Retry, Retriable, Busy
<1>2. /\ queue \in [paused : BOOLEAN, cancelled : BOOLEAN]
      /\ sweep' \in SweepRecord /\ sweep'.at = "idle"
      /\ AllowanceOK' /\ allowance'.tasks = allowance.tasks
  BY <1>1 DEF BatchInv, SweepTrue, StoresOK, AllowanceOK
<1>3. ASSUME NEW r \in Row
      PROVE  /\ next[r] \in RowRecord /\ next[r].credentials = rows[r].credentials
             /\ Agree(next[r], tasks[r])
             /\ rows[r].result => next[r] = rows[r] /\ rows[r].status = "ready"
  <2>1. rows[r] \in RowRecord /\ Agree(rows[r], tasks[r])
    BY DEF BatchInv, Fits
  <2>2. CASE r \notin rs
    BY <2>1, <2>2 DEF Agree
  <2>3. CASE r \in rs
    <3>1. tasks[r].at = "idle" /\ ~ rows[r].result
      BY <1>1, <2>1, <2>3 DEF Agree, AtWork
    <3>2. next[r] \in RowRecord /\ next[r].credentials = rows[r].credentials /\ ~ next[r].result
      BY <2>1, <2>3, <3>1 DEF RowRecord, RowStatus
    <3> QED BY <2>1, <3>1, <3>2 DEF Agree
  <2> QED BY <2>2, <2>3
<1>4. Fits(next, tasks, allowance.tasks)
  BY <1>3 DEF BatchInv, Fits
<1> HIDE DEF next
<1>5. BatchInv' /\ \A r \in Row : next[r].status = "ready" => rows'[r] = next[r]
  BY <1>1, <1>2, <1>3, <1>4, PumpKept
<1> QED BY <1>3, <1>5 DEF ResultsStay

\* A reload finds the stored credentials of every copy.
LEMMA BatchReloadKept ==
  ASSUME BatchInv, ReloadBatch
  PROVE  BatchInv' /\ allowance'.reloads # allowance.reloads
<1> DEFINE next == [r \in Row |->
                      [status |-> IF stored[r] # 0 THEN "waiting" ELSE "failed",
                       credentials |-> stored[r], result |-> FALSE, cleanupError |-> FALSE,
                       file |-> FALSE]]
           none == [r \in Row |-> NoTask]
<1>1. /\ ~ closed /\ Pump(next, none, Running) /\ sweep' = NoSweep
      /\ allowance.reloads > 0 /\ allowance' = [allowance EXCEPT !.reloads = @ - 1]
      /\ UNCHANGED <<closed, copies, unanswered, denied>>
  BY DEF ReloadBatch
<1>2. AllowanceOK' /\ allowance'.tasks = allowance.tasks /\ allowance'.reloads # allowance.reloads
      /\ allowance.tasks \in Nat
  BY <1>1 DEF BatchInv, StoresOK, AllowanceOK
<1>3. Running \in [paused : BOOLEAN, cancelled : BOOLEAN]
  BY DEF Running
<1>4. sweep' \in SweepRecord /\ sweep'.at = "idle"
  BY <1>1, RowsFinite DEF NoSweep, SweepRecord
<1>5. ASSUME NEW r \in Row
      PROVE  /\ next[r] \in RowRecord /\ next[r].credentials = rows[r].credentials
             /\ none[r] = NoTask /\ Agree(next[r], none[r])
  <2>1. stored[r] = rows[r].credentials /\ rows[r].credentials \in 0 .. MaxAttempts
    BY DEF BatchInv, StoresOK, Emitted, Fits, RowRecord
  <2> QED BY <2>1 DEF RowRecord, RowStatus, Agree, NoTask
<1>6. Underway(none) = {}
  BY DEF Underway, NoTask
<1>7. Cardinality(Underway(none)) <= allowance.tasks
  BY <1>2, <1>6, FS_EmptySet
<1>8. Fits(next, none, allowance.tasks)
  BY <1>5, <1>7, RowsFinite DEF Fits
<1> HIDE DEF next, none
<1> QED BY <1>1, <1>2, <1>3, <1>4, <1>5, <1>8, PumpKept

\* A batch that was just chosen has no copies.
LEMMA BatchInitial == BatchInit => BatchInv
<1> SUFFICES ASSUME BatchInit PROVE BatchInv
  OBVIOUS
<1>1. AllowanceOK
  BY DEF BatchInit, AllowanceOK
<1>2. /\ rows = [r \in Row |-> [status |-> IF r <= allowance.tasks THEN "uploading" ELSE "waiting",
                                credentials |-> 0, result |-> FALSE, cleanupError |-> FALSE,
                                file |-> TRUE]]
      /\ tasks = [r \in Row |->
                    [NoTask EXCEPT !.at = IF r <= allowance.tasks THEN "create" ELSE "idle"]]
      /\ stored = [r \in Row |-> 0] /\ queue = Running /\ sweep = NoSweep /\ closed = FALSE
      /\ copies = [r \in Row |-> [k \in Attempt |-> "none"]] /\ unanswered = {} /\ denied = {}
  BY DEF BatchInit
<1>3. ASSUME NEW r \in Row
      PROVE  /\ rows[r] \in RowRecord /\ tasks[r] \in TaskRecord /\ Agree(rows[r], tasks[r])
             /\ rows[r].credentials = 0
             /\ tasks[r].at # "idle" => r <= allowance.tasks
  BY <1>2, RowsFinite DEF RowRecord, RowStatus, AtWork, TaskRecord, NoTask, Agree
<1>4. Cardinality(Underway(tasks)) <= allowance.tasks
  <2>1. PICK n \in Nat : n = allowance.tasks
    BY <1>1 DEF AllowanceOK
  <2>2. Underway(tasks) \in SUBSET (1 .. n)
    BY <1>3, <2>1 DEF Underway, Row
  <2>3. IsFiniteSet(1 .. n) /\ Cardinality(1 .. n) = n
    <3>1. 1 \in Int /\ n \in Int
      OBVIOUS
    <3>2. IsFiniteSet(1 .. n) /\ Cardinality(1 .. n) = IF 1 > n THEN 0 ELSE n - 1 + 1
      BY <3>1, FS_Interval, Zenon
    <3> QED BY <3>2
  <2>4. Cardinality(Underway(tasks)) <= n
    BY <2>2, <2>3, FS_Subset
  <2> QED BY <2>1, <2>4
<1>5. Fits(rows, tasks, allowance.tasks)
  BY <1>2, <1>3, <1>4 DEF Fits
<1>6. StoresOK
  BY <1>1, <1>2, <1>3 DEF StoresOK, Running, CopyStatus, Emitted
<1>7. CopiesHeld /\ ClosedTrue
  BY <1>2 DEF CopiesHeld, Owed, Unknowable, ClosedTrue
<1>8. SweepTrue
  <2>1. sweep \in SweepRecord /\ sweep.at = "idle"
    BY <1>2, RowsFinite DEF NoSweep, SweepRecord
  <2> QED BY <2>1 DEF SweepTrue, Deleting
<1> QED BY <1>5, <1>6, <1>7, <1>8 DEF BatchInv

\* Every step of the batch keeps the invariant, and only a reload loses results.
LEMMA BatchKept ==
  ASSUME BatchInv, [BatchNext]_batchVars
  PROVE  BatchInv' /\ (allowance'.reloads = allowance.reloads => ResultsStay)
<1>1. ASSUME SweepStep PROVE BatchInv' /\ ResultsStay
  BY <1>1, SweepsBegin, SweepEndsKept, SweepDeleteKept, SweepAnsweredKept DEF SweepStep
<1>2. ASSUME UserStep PROVE BatchInv' /\ (allowance'.reloads = allowance.reloads => ResultsStay)
  BY <1>2, ClearKept, SweepsBegin, PauseKept, ResumeKept, RetryKept, BatchReloadKept DEF UserStep
<1>3. CASE UNCHANGED batchVars
  <2>1. UNCHANGED <<rows, tasks, queue, sweep, closed, stored, copies, unanswered, denied, allowance>>
    BY <1>3 DEF batchVars
  <2>2. Fits(rows, tasks, allowance.tasks)' /\ StoresOK' /\ ResultsStay /\ Active' = Active
    BY <2>1, RestStays DEF BatchInv, StoresOK, AllowanceOK
  <2>3. \A r \in Row : Swept(r)' <=> Swept(r)
    BY <2>1 DEF Swept
  <2>4. CopiesHeld' /\ SweepTrue' /\ ClosedTrue'
    BY <2>1, <2>2, <2>3 DEF BatchInv, CopiesHeld, Owed, Unknowable, SweepTrue, ClosedTrue
  <2> QED BY <2>2, <2>4 DEF BatchInv
<1> QED BY <1>1, <1>2, <1>3, TasksKept, ServiceKept DEF BatchNext

\* What the invariant says of a row's copies is what safety asks for.
LEMMA BatchInvSafe == BatchInv => BatchSafe
<1> SUFFICES ASSUME BatchInv PROVE BatchSafe
  OBVIOUS
<1>1. BatchTypeOK
  <2>1. /\ rows \in [Row -> RowRecord] /\ tasks \in [Row -> TaskRecord]
        /\ Cardinality({r \in Row : tasks[r].at # "idle"}) <= allowance.tasks
    BY DEF BatchInv, Fits, Underway
  <2>2. RowStatus = {"waiting", "uploading", "processing", "receiving", "ready", "failed"}
    BY DEF RowStatus, AtWork
  <2>3. /\ queue \in [paused : BOOLEAN, cancelled : BOOLEAN] /\ closed \in BOOLEAN
        /\ copies \in [Row -> [Attempt -> CopyStatus]]         /\ {unanswered, denied} \subseteq SUBSET (Row \X Attempt)
    BY DEF BatchInv, StoresOK
  <2>4. stored \in [Row -> 0 .. MaxAttempts]
    BY <2>1 DEF BatchInv, StoresOK, Emitted, RowRecord
  <2>5. sweep.left \subseteq Row /\ sweep.at \in {"idle", "settling", "next", "deleted", "lost"}
    BY DEF BatchInv, SweepTrue, SweepRecord, Deleting
  <2> QED BY <2>1, <2>2, <2>3, <2>4, <2>5 DEF BatchTypeOK, RowRecord, TaskRecord, CopyStatus
<1>2. CopiesKnown
  BY DEF BatchInv, CopiesHeld, Owed, Unknowable, CopiesKnown
<1>3. ClearedIsGone
  <2> SUFFICES ASSUME closed PROVE ClearedIsGone
    BY DEF ClearedIsGone
  <2>1. \A r \in Row, k \in Attempt : ~ Owed(r, k)
    BY DEF BatchInv, ClosedTrue, CopiesHeld, Attempt
  <2>2. \A r \in Row : stored[r] = 0
    BY DEF BatchInv, ClosedTrue, StoresOK, Emitted
  <2> QED BY <2>1, <2>2 DEF Owed, Unknowable, ClearedIsGone
<1> QED BY <1>1, <1>2, <1>3 DEF BatchSafe

\* The tab knows every copy it was told of and not denied, and a batch that is closed has
\* none left: whatever is cancelled, retried, swept or lost on the way.
THEOREM BatchIsSafe == BatchSpec => []BatchSafe
<1>1. BatchInv /\ [BatchNext]_batchVars => BatchInv'
  BY BatchKept
<1> QED BY <1>1, BatchInitial, BatchInvSafe, PTL DEF BatchSpec

\* A result that was received stays with its row, ready, until the page is reloaded.
THEOREM ResultsAreKept == BatchSpec => ReceivedStays
<1>1. BatchInv /\ [BatchNext]_batchVars => BatchInv'
  BY BatchKept
<1>2. ASSUME BatchInv, [BatchNext]_batchVars
      PROVE  [allowance'.reloads = allowance.reloads =>
                \A r \in Row : rows[r].result => rows'[r].result /\ rows'[r].status = "ready"]_batchVars
  BY <1>2, BatchKept DEF ResultsStay
<1> QED BY <1>1, <1>2, BatchInitial, PTL DEF BatchSpec, ReceivedStays
=============================================================================
