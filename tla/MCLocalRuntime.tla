--------------------------- MODULE MCLocalRuntime ---------------------------
(***************************************************************************)
(* LocalRuntime for TLC: who calls what in each run, and where it starts.  *)
(***************************************************************************)
EXTENDS LocalRuntime, TLC

CONSTANTS c1, c2, c3

\* One tab uploads and submits, another reviews, a third watches and clears.
ThreeTabs == (c1 :> {"create", "upload", "submit"}) @@ (c2 :> {"finalize"})
               @@ (c3 :> {"delete", "poll"})

\* One tab that does everything in turn.
OneTab == c1 :> {"create", "upload", "submit", "finalize", "delete", "poll"}

\* A tab that uploads and is then left alone.
Uploader == c1 :> {"create", "upload", "submit"}

\* Tabs that review the same job.
Reviewer == c1 :> {"finalize"}
TwoReviewers == (c1 :> {"finalize"}) @@ (c2 :> {"finalize"})

\* Nobody calls.
Silent == c1 :> {}

\* A start later in the life of the system: every job is uploaded and queued.
QueuedInit ==
  /\ status = [j \in Job |-> "queued_detection"]
  /\ born \in [Job -> 0 .. MaxTick]
  /\ auto \in [Job -> BOOLEAN]
  /\ due = [j \in Job |-> FALSE]
  /\ paged = [j \in Job |-> FALSE]
  /\ store = [j \in Job |-> [NoFiles EXCEPT !["input"] = Original]]
  /\ ServiceInit /\ WorkerInit

QueuedSpec == QueuedInit /\ [][Next]_vars

\* The same start before any deadline: the clock stands, so no deadline and no
\* cleaner pass ends what the worker leaves undone.
WorkNext ==
  \/ \E c \in Client : ClientNext(c)
  \/ \E l \in Loop : LoopNext(l)
  \/ ProcessNext

WorkSpec == QueuedInit /\ [][WorkNext]_vars /\ Scheduled

Symmetry == Permutations(Job) \cup Permutations(Loop)
=============================================================================
