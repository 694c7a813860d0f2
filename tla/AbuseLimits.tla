---------------------------- MODULE AbuseLimits -----------------------------
(***************************************************************************)
(* The limits on what one network may ask of the service (service.py,      *)
(* create_job, over the counts of repository.py).  A call counts the       *)
(* network's recent jobs, its active jobs and the queue one after the      *)
(* other, and only then inserts its row, while other calls do the same and *)
(* jobs move on.                                                           *)
(***************************************************************************)
EXTENDS Naturals, FiniteSets

CONSTANTS
  Job,        \* job ids
  Network,    \* client fingerprints
  Thread,     \* server threads and Lambda instances that serve create calls
  MaxRecent,  \* max_jobs_per_ip_per_hour
  MaxActive,  \* max_active_jobs_per_ip
  MaxQueue,   \* max_queue_depth
  Hour,       \* the hour, in ticks of the clock
  None        \* no network

ASSUME LimitsAssumption ==
  /\ IsFiniteSet(Job) /\ IsFiniteSet(Thread) /\ Thread # {}
  /\ MaxRecent \in Nat \ {0} /\ MaxActive \in Nat \ {0} /\ MaxQueue \in Nat \ {0}
  /\ Hour \in Nat \ {0}
  /\ None \notin Network

VARIABLES
  stage, \* the status of each row
  owner, \* its client_hash
  age,   \* ticks since it was created, counted until the hour is over
  again, \* jobs that were reopened after they had completed
  at,    \* what each thread does next
  for    \* the network it does it for

limitVars == <<stage, owner, age, again, at, for>>

Queued == {"queued_detection", "queued_redaction"}
Active == {"awaiting_upload", "detecting", "review_required", "redacting"} \cup Queued
Stage  == {"absent", "complete", "failed", "deleted"} \cup Active

LimitsTypeOK ==
  /\ stage \in [Job -> Stage]
  /\ owner \in [Job -> Network \cup {None}]
  /\ age \in [Job -> 0 .. Hour + 1]
  /\ again \subseteq Job
  /\ at \in [Thread -> {"idle", "active", "queue", "insert"}]
  /\ for \in [Thread -> Network \cup {None}]

LimitsInit ==
  /\ stage = [j \in Job |-> "absent"]
  /\ owner = [j \in Job |-> None]
  /\ age = [j \in Job |-> 0]
  /\ again = {}
  /\ at = [t \in Thread |-> "idle"]
  /\ for = [t \in Thread |-> None]

\* Mutant: a deleted job gives its place back.
RecentKept(n) ==
  {j \in Job : owner[j] = n /\ stage[j] \notin {"absent", "deleted"} /\ age[j] <= Hour}

\* count_recent, count_active and count_queued.
Recent(n)   == {j \in Job : owner[j] = n /\ stage[j] # "absent" /\ age[j] <= Hour}
ActiveOf(n) == {j \in Job : owner[j] = n /\ stage[j] \in Active}
InQueue     == {j \in Job : stage[j] \in Queued}

-----------------------------------------------------------------------------
(* create_job.                                                             *)

\* The call goes on to the next count, or is refused with 429 or 503.
Passes(t, allowed, next) ==
  /\ at' = [at EXCEPT ![t] = IF allowed THEN next ELSE "idle"]
  /\ for' = IF allowed THEN for ELSE [for EXCEPT ![t] = None]
  /\ UNCHANGED <<stage, owner, age, again>>

CountRecent(t, n) ==
  /\ at[t] = "idle" /\ Cardinality(Recent(n)) < MaxRecent
  /\ at' = [at EXCEPT ![t] = "active"]
  /\ for' = [for EXCEPT ![t] = n]
  /\ UNCHANGED <<stage, owner, age, again>>

CountActive(t) ==
  /\ at[t] = "active"
  /\ Passes(t, Cardinality(ActiveOf(for[t])) < MaxActive, "queue")

CountQueued(t) ==
  /\ at[t] = "queue"
  /\ Passes(t, Cardinality(InQueue) < MaxQueue, "insert")

InsertJob(t, j) ==
  /\ at[t] = "insert" /\ stage[j] = "absent" /\ owner[j] = None
  /\ stage' = [stage EXCEPT ![j] = "awaiting_upload"]
  /\ owner' = [owner EXCEPT ![j] = for[t]]
  /\ at' = [at EXCEPT ![t] = "idle"]
  /\ for' = [for EXCEPT ![t] = None]
  /\ UNCHANGED <<age, again>>

-----------------------------------------------------------------------------
(* What becomes of the jobs meanwhile.                                     *)

Moves(j, from, to) ==
  /\ stage[j] \in from
  /\ stage' = [stage EXCEPT ![j] = to]
  /\ UNCHANGED <<owner, age, at, for>>

Submit(j) == Moves(j, {"awaiting_upload"}, "queued_detection") /\ UNCHANGED again

ClaimJob(j) ==
  /\ \/ Moves(j, {"queued_detection"}, "detecting")
     \/ Moves(j, {"queued_redaction"}, "redacting")
  /\ UNCHANGED again

WorkerFinishes(j) ==
  /\ \/ Moves(j, {"detecting"}, "review_required")
     \/ Moves(j, {"redacting"}, "complete")
     \/ Moves(j, {"detecting", "redacting"}, "failed")
  /\ UNCHANGED again

Finalize(j) == Moves(j, {"review_required"}, "queued_redaction") /\ UNCHANGED again

\* A completed job is finalized once more, whatever else is active.
Reopen(j) == Moves(j, {"complete"}, "queued_redaction") /\ again' = again \cup {j}

Delete(j) == Moves(j, Stage \ {"absent", "deleted"}, "deleted") /\ UNCHANGED again

\* A deleted row has expires_at = now, and the table may drop it.
DropRow(j) == Moves(j, {"deleted"}, "absent") /\ UNCHANGED again

ClockTicks ==
  /\ \E j \in Job : owner[j] # None /\ age[j] <= Hour
  /\ age' = [j \in Job |-> IF owner[j] # None /\ age[j] <= Hour THEN age[j] + 1 ELSE age[j]]
  /\ UNCHANGED <<stage, owner, again, at, for>>

CreateNext(t) ==
  \/ \E n \in Network : CountRecent(t, n)
  \/ CountActive(t) \/ CountQueued(t)
  \/ \E j \in Job : InsertJob(t, j)

JobNext(j) ==
  \/ Submit(j) \/ ClaimJob(j) \/ WorkerFinishes(j)
  \/ Finalize(j) \/ Reopen(j) \/ Delete(j) \/ DropRow(j)

LimitsNext == (\E t \in Thread : CreateNext(t)) \/ (\E j \in Job : JobNext(j)) \/ ClockTicks

LimitsSpec == LimitsInit /\ [][LimitsNext]_limitVars

-----------------------------------------------------------------------------

\* Each call that counts while others are between their counts and their
\* inserts may add one job to what the limit allows, and no more.
Late == Cardinality(Thread) - 1

\* Active jobs that have not been complete before.
FirstActive(n) == ActiveOf(n) \ again

\* A network has at most MaxActive jobs active for the first time, but for the
\* jobs of calls that counted at the same time. Jobs that are reopened come on
\* top: finalize does not count.
ActiveOvershootBounded ==
  \A n \in Network : Cardinality(FirstActive(n)) <= MaxActive + Late

\* The jobs a network created within the hour, whatever became of them, but
\* for those whose rows the table has dropped.
LastHour(n) == {j \in Job : owner[j] = n /\ age[j] <= Hour /\ stage[j] # "absent"}

\* The same of the jobs created within an hour: deleting a job does not give
\* its place back as long as the table keeps the row.
RecentOvershootBounded ==
  \A n \in Network : Cardinality(LastHour(n)) <= MaxRecent + Late

\* The limits of create_job under parallel calls.
LimitsSafe == LimitsTypeOK /\ ActiveOvershootBounded /\ RecentOvershootBounded
=============================================================================
