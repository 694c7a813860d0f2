---------------------------- MODULE Parts_proofs ----------------------------
(***************************************************************************)
(* What is proved of the self-contained parts of the service, each on its  *)
(* own: the abuse limits, the shards of a corpus, the merging of           *)
(* detections, the loading of a document, the net for identifiers and the  *)
(* geometry of painting.                                                   *)
(***************************************************************************)
EXTENDS AbuseLimits, ShardPlan, MergeDetections, LoadDocument, SsnNet, RedactionGeometry,
        FiniteSetTheorems, SequenceTheorems, TLAPS

-----------------------------------------------------------------------------
(***************************************************************************)
(* How far calls at the same time can take a network past its limits, for  *)
(* any numbers of jobs, networks and threads.                              *)
(***************************************************************************)

USE LimitsAssumption

\* The calls of a network that were let through by count_active, and those
\* that were let through by count_recent.
Through(n) == {t \in Thread : for[t] = n /\ at[t] \in {"queue", "insert"}}
Counted(n) == {t \in Thread : for[t] = n /\ at[t] # "idle"}

\* Each of them will add a job: together with the jobs there are, no more than
\* the last of them to count could have found room for.
ActiveRoom ==
  \A n \in Network : Cardinality(FirstActive(n)) + Cardinality(Through(n)) <= MaxActive + Late
RecentRoom ==
  \A n \in Network : Cardinality(LastHour(n)) + Cardinality(Counted(n)) <= MaxRecent + Late

LimitsInv == LimitsTypeOK /\ ActiveRoom /\ RecentRoom

-----------------------------------------------------------------------------
(* Counting.                                                               *)

LEMMA ThreadsCounted == Cardinality(Thread) \in Nat /\ Cardinality(Thread) >= 1 /\ Late \in Nat
<1>1. Cardinality(Thread) \in Nat /\ Cardinality(Thread) # 0
  BY FS_CardinalityType, FS_EmptySet
<1> QED BY <1>1 DEF Late

\* Jobs A and calls B keep to a bound when none is added,
LEMMA Fewer ==
  ASSUME NEW A \in SUBSET Job, NEW B \in SUBSET Thread, NEW A1 \in SUBSET A, NEW B1 \in SUBSET B,
         NEW k \in Nat, Cardinality(A) + Cardinality(B) <= k
  PROVE  Cardinality(A1) + Cardinality(B1) <= k
<1>1. IsFiniteSet(A) /\ IsFiniteSet(B)
  BY FS_Subset
<1>2. /\ IsFiniteSet(A1) /\ Cardinality(A1) <= Cardinality(A)
      /\ IsFiniteSet(B1) /\ Cardinality(B1) <= Cardinality(B)
  BY <1>1, FS_Subset
<1> QED BY <1>1, <1>2, FS_CardinalityType

\* when a call becomes a job,
LEMMA Exchanged ==
  ASSUME NEW A \in SUBSET Job, NEW B \in SUBSET Thread, NEW j \in Job, NEW t \in B,
         NEW A1 \in SUBSET (A \cup {j}), NEW k \in Nat, Cardinality(A) + Cardinality(B) <= k
  PROVE  Cardinality(A1) + Cardinality(B \ {t}) <= k
<1>1. /\ IsFiniteSet(A) /\ Cardinality(A) \in Nat
      /\ IsFiniteSet(B) /\ Cardinality(B) \in Nat
  BY FS_Subset, FS_CardinalityType
<1>2. Cardinality(B \ {t}) = Cardinality(B) - 1
  BY <1>1, FS_RemoveElement
<1>3. /\ IsFiniteSet(A \cup {j}) /\ Cardinality(A \cup {j}) \in Nat
      /\ Cardinality(A \cup {j}) <= Cardinality(A) + 1
  <2>1. /\ IsFiniteSet(A \cup {j})
        /\ Cardinality(A \cup {j}) = IF j \in A THEN Cardinality(A) ELSE Cardinality(A) + 1
    BY <1>1, FS_AddElement
  <2> QED BY <1>1, <2>1
<1>4. IsFiniteSet(A1) /\ Cardinality(A1) <= Cardinality(A \cup {j})
  BY <1>3, FS_Subset
<1>5. Cardinality(A1) \in Nat
  BY <1>4, FS_CardinalityType
<1> QED BY <1>1, <1>2, <1>3, <1>4, <1>5

\* and when the count found room, whatever calls were let through before.
LEMMA RoomFound ==
  ASSUME NEW A \in SUBSET Job, NEW A1 \in SUBSET A, NEW B1 \in SUBSET Thread,
         NEW k \in Nat, Cardinality(A) < k
  PROVE  Cardinality(A1) + Cardinality(B1) <= k + Late
<1>1. IsFiniteSet(A) /\ Cardinality(A) \in Nat
  BY FS_Subset, FS_CardinalityType
<1>2. IsFiniteSet(A1) /\ Cardinality(A1) <= Cardinality(A)
  BY <1>1, FS_Subset
<1>3. IsFiniteSet(B1) /\ Cardinality(B1) <= Cardinality(Thread)
  BY FS_Subset
<1>4. Cardinality(A1) \in Nat /\ Cardinality(B1) \in Nat
  BY <1>2, <1>3, FS_CardinalityType
<1> QED BY <1>1, <1>2, <1>3, <1>4, ThreadsCounted DEF Late

LEMMA Bounded ==
  ASSUME NEW n
  PROVE  /\ FirstActive(n) \in SUBSET Job /\ LastHour(n) \in SUBSET Job
         /\ Through(n) \in SUBSET Thread /\ Counted(n) \in SUBSET Thread
         /\ MaxActive + Late \in Nat /\ MaxRecent + Late \in Nat
BY ThreadsCounted DEF FirstActive, ActiveOf, LastHour, Through, Counted

\* A step that adds neither a job nor a call to any of the four sets.
LEMMA NothingAdded ==
  ASSUME ActiveRoom, RecentRoom,
         \A n \in Network : /\ FirstActive(n)' \subseteq FirstActive(n)
                            /\ Through(n)' \subseteq Through(n)
                            /\ LastHour(n)' \subseteq LastHour(n)
                            /\ Counted(n)' \subseteq Counted(n)
  PROVE  ActiveRoom' /\ RecentRoom'
<1>1. ASSUME NEW n \in Network
      PROVE  Cardinality(FirstActive(n)') + Cardinality(Through(n)') <= MaxActive + Late
  BY Bounded, Fewer DEF ActiveRoom
<1>2. ASSUME NEW n \in Network
      PROVE  Cardinality(LastHour(n)') + Cardinality(Counted(n)') <= MaxRecent + Late
  BY Bounded, Fewer DEF RecentRoom
<1> QED BY <1>1, <1>2 DEF ActiveRoom, RecentRoom, Late

-----------------------------------------------------------------------------
(* The steps.                                                              *)

LEMMA InitLimits == LimitsInit => LimitsInv
<1> SUFFICES ASSUME LimitsInit PROVE LimitsInv
  OBVIOUS
<1>1. LimitsTypeOK
  BY DEF LimitsInit, LimitsTypeOK, Stage
<1>2. \A n \in Network : /\ FirstActive(n) = {} /\ Through(n) = {}
                         /\ LastHour(n) = {} /\ Counted(n) = {}
  BY DEF LimitsInit, FirstActive, ActiveOf, Through, LastHour, Counted
<1>3. Cardinality({}) = 0
  BY FS_EmptySet
<1>4. MaxActive + Late \in Nat /\ MaxRecent + Late \in Nat
  BY Bounded
<1>5. ASSUME NEW n \in Network
      PROVE  /\ Cardinality(FirstActive(n)) + Cardinality(Through(n)) = 0
             /\ Cardinality(LastHour(n)) + Cardinality(Counted(n)) = 0
  BY <1>2, <1>3
<1> QED BY <1>1, <1>4, <1>5 DEF LimitsInv, ActiveRoom, RecentRoom

LEMMA CountRecentKept ==
  ASSUME LimitsInv, NEW t \in Thread, NEW m \in Network, CountRecent(t, m)
  PROVE  LimitsInv'
<1>1. LimitsTypeOK'
  BY DEF CountRecent, LimitsInv, LimitsTypeOK
<1>2. ASSUME NEW n \in Network
      PROVE  Cardinality(FirstActive(n)') + Cardinality(Through(n)') <= MaxActive + Late
  <2>1. FirstActive(n)' \subseteq FirstActive(n) /\ Through(n)' \subseteq Through(n)
    BY DEF CountRecent, FirstActive, ActiveOf, Through, LimitsInv, LimitsTypeOK
  <2> QED BY <2>1, Bounded, Fewer DEF LimitsInv, ActiveRoom
<1>3. ASSUME NEW n \in Network
      PROVE  Cardinality(LastHour(n)') + Cardinality(Counted(n)') <= MaxRecent + Late
  <2>1. LastHour(n)' = LastHour(n) /\ Counted(n)' \in SUBSET Thread
    BY DEF CountRecent, LastHour, Counted
  <2>2. CASE n = m
    <3>1. Cardinality(LastHour(n)) < MaxRecent
      BY <2>2 DEF CountRecent, Recent, LastHour
    <3> QED BY <2>1, <3>1, Bounded, RoomFound
  <2>3. CASE n # m
    <3>1. Counted(n)' \subseteq Counted(n)
      BY <2>3 DEF CountRecent, Counted, LimitsInv, LimitsTypeOK
    <3> QED BY <2>1, <3>1, Bounded, Fewer DEF LimitsInv, RecentRoom
  <2> QED BY <2>2, <2>3
<1> QED BY <1>1, <1>2, <1>3 DEF LimitsInv, ActiveRoom, RecentRoom, Late

LEMMA CountActiveKept ==
  ASSUME LimitsInv, NEW t \in Thread, CountActive(t)
  PROVE  LimitsInv'
<1>1. LimitsTypeOK'
  BY DEF CountActive, Passes, LimitsInv, LimitsTypeOK
<1>2. ASSUME NEW n \in Network
      PROVE  Cardinality(FirstActive(n)') + Cardinality(Through(n)') <= MaxActive + Late
  <2>1. FirstActive(n)' = FirstActive(n) /\ Through(n)' \in SUBSET Thread
    BY DEF CountActive, Passes, FirstActive, ActiveOf, Through
  <2>2. CASE Cardinality(ActiveOf(for[t])) < MaxActive /\ for[t] = n
    BY <2>1, <2>2, RoomFound DEF FirstActive, ActiveOf
  <2>3. CASE ~ (Cardinality(ActiveOf(for[t])) < MaxActive /\ for[t] = n)
    <3>1. Through(n)' \subseteq Through(n)
      BY <2>3 DEF CountActive, Passes, Through, LimitsInv, LimitsTypeOK
    <3> QED BY <2>1, <3>1, Bounded, Fewer DEF LimitsInv, ActiveRoom
  <2> QED BY <2>2, <2>3
<1>3. ASSUME NEW n \in Network
      PROVE  Cardinality(LastHour(n)') + Cardinality(Counted(n)') <= MaxRecent + Late
  <2>1. LastHour(n)' \subseteq LastHour(n) /\ Counted(n)' \subseteq Counted(n)
    BY DEF CountActive, Passes, LastHour, Counted, LimitsInv, LimitsTypeOK
  <2> QED BY <2>1, Bounded, Fewer DEF LimitsInv, RecentRoom
<1> QED BY <1>1, <1>2, <1>3 DEF LimitsInv, ActiveRoom, RecentRoom, Late

LEMMA CountQueuedKept ==
  ASSUME LimitsInv, NEW t \in Thread, CountQueued(t)
  PROVE  LimitsInv'
<1>1. LimitsTypeOK'
  BY DEF CountQueued, Passes, LimitsInv, LimitsTypeOK
<1>2. \A n \in Network : FirstActive(n)' = FirstActive(n) /\ LastHour(n)' = LastHour(n)
  BY DEF CountQueued, Passes, FirstActive, ActiveOf, LastHour
<1>3. \A n \in Network : Through(n)' \subseteq Through(n) /\ Counted(n)' \subseteq Counted(n)
  BY DEF CountQueued, Passes, Through, Counted, LimitsInv, LimitsTypeOK
<1> QED BY <1>1, <1>2, <1>3, NothingAdded DEF LimitsInv

LEMMA InsertKept ==
  ASSUME LimitsInv, NEW t \in Thread, NEW j \in Job, InsertJob(t, j)
  PROVE  LimitsInv'
<1>1. LimitsTypeOK'
  BY DEF InsertJob, LimitsInv, LimitsTypeOK, Stage, Active
<1>2. ASSUME NEW n \in Network
      PROVE  /\ Through(n)' = Through(n) \ {t} /\ Counted(n)' = Counted(n) \ {t}
             /\ FirstActive(n)' \subseteq FirstActive(n) \cup {j}
             /\ LastHour(n)' \subseteq LastHour(n) \cup {j}
  BY DEF InsertJob, Through, Counted, FirstActive, ActiveOf, LastHour, LimitsInv, LimitsTypeOK
<1>3. ASSUME NEW n \in Network, for[t] = n
      PROVE  /\ Cardinality(FirstActive(n)') + Cardinality(Through(n)') <= MaxActive + Late
             /\ Cardinality(LastHour(n)') + Cardinality(Counted(n)') <= MaxRecent + Late
  <2>1. t \in Through(n) /\ t \in Counted(n)
    BY <1>3 DEF InsertJob, Through, Counted
  <2>2. Cardinality(FirstActive(n)') + Cardinality(Through(n) \ {t}) <= MaxActive + Late
    BY <1>2, <2>1, Bounded, Exchanged DEF LimitsInv, ActiveRoom
  <2>3. Cardinality(LastHour(n)') + Cardinality(Counted(n) \ {t}) <= MaxRecent + Late
    BY <1>2, <2>1, Bounded, Exchanged DEF LimitsInv, RecentRoom
  <2> QED BY <1>2, <2>2, <2>3
<1>4. ASSUME NEW n \in Network, for[t] # n
      PROVE  /\ Cardinality(FirstActive(n)') + Cardinality(Through(n)') <= MaxActive + Late
             /\ Cardinality(LastHour(n)') + Cardinality(Counted(n)') <= MaxRecent + Late
  <2>1. FirstActive(n)' \subseteq FirstActive(n) /\ LastHour(n)' \subseteq LastHour(n)
    BY <1>4 DEF InsertJob, FirstActive, ActiveOf, LastHour, LimitsInv, LimitsTypeOK
  <2>2. Cardinality(FirstActive(n)') + Cardinality(Through(n)') <= MaxActive + Late
    BY <1>2, <2>1, Bounded, Fewer DEF LimitsInv, ActiveRoom
  <2>3. Cardinality(LastHour(n)') + Cardinality(Counted(n)') <= MaxRecent + Late
    BY <1>2, <2>1, Bounded, Fewer DEF LimitsInv, RecentRoom
  <2> QED BY <2>2, <2>3
<1> QED BY <1>1, <1>3, <1>4 DEF LimitsInv, ActiveRoom, RecentRoom, Late

\* No step of a job that has its row makes it active for the first time.
LEMMA JobKept ==
  ASSUME LimitsInv, NEW j \in Job, JobNext(j)
  PROVE  LimitsInv'
<1>1. PICK from \in SUBSET (Stage \ {"absent"}), to \in Stage :
        /\ to \in Active => from \subseteq Active \/ again' = again \cup {j}
        /\ Moves(j, from, to)
        /\ again \subseteq again' /\ again' \subseteq again \cup {j}
  BY DEF JobNext, Submit, ClaimJob, WorkerFinishes, Finalize, Reopen, Delete, DropRow,
         Stage, Active, Queued
<1>2. LimitsTypeOK'
  BY <1>1 DEF Moves, LimitsInv, LimitsTypeOK
<1>3. \A n \in Network : FirstActive(n)' \subseteq FirstActive(n)
  BY <1>1 DEF Moves, FirstActive, ActiveOf, LimitsInv, LimitsTypeOK
<1>4. \A n \in Network : LastHour(n)' \subseteq LastHour(n)
  BY <1>1 DEF Moves, LastHour, LimitsInv, LimitsTypeOK
<1>5. \A n \in Network : Through(n)' \subseteq Through(n) /\ Counted(n)' \subseteq Counted(n)
  BY <1>1 DEF Moves, Through, Counted
<1> QED BY <1>2, <1>3, <1>4, <1>5, NothingAdded DEF LimitsInv

LEMMA ClockKept ==
  ASSUME LimitsInv, ClockTicks
  PROVE  LimitsInv'
<1>1. LimitsTypeOK'
  BY DEF ClockTicks, LimitsInv, LimitsTypeOK
<1>2. \A n \in Network : /\ FirstActive(n)' \subseteq FirstActive(n)
                         /\ Through(n)' \subseteq Through(n) /\ Counted(n)' \subseteq Counted(n)
  BY DEF ClockTicks, FirstActive, ActiveOf, Through, Counted
<1>3. \A n \in Network : LastHour(n)' \subseteq LastHour(n)
  BY DEF ClockTicks, LastHour, LimitsInv, LimitsTypeOK
<1> QED BY <1>1, <1>2, <1>3, NothingAdded DEF LimitsInv

LEMMA LimitsKept == LimitsInv /\ [LimitsNext]_limitVars => LimitsInv'
<1> SUFFICES ASSUME LimitsInv, [LimitsNext]_limitVars PROVE LimitsInv'
  OBVIOUS
<1>1. ASSUME NEW t \in Thread, CreateNext(t) PROVE LimitsInv'
  BY <1>1, CountRecentKept, CountActiveKept, CountQueuedKept, InsertKept DEF CreateNext
<1>2. CASE UNCHANGED limitVars
  BY <1>2 DEF LimitsInv, LimitsTypeOK, ActiveRoom, RecentRoom, FirstActive, ActiveOf,
              LastHour, Through, Counted, Late, limitVars
<1> QED BY <1>1, <1>2, JobKept, ClockKept DEF LimitsNext

-----------------------------------------------------------------------------

\* The check of create_job lets a network past its limit of active jobs by at
\* most the calls that count at the same time, jobs that are reopened aside.
THEOREM ActiveLimit == LimitsSpec => []ActiveOvershootBounded
<1>1. LimitsInv => ActiveOvershootBounded
  <2> SUFFICES ASSUME LimitsInv, NEW n \in Network
               PROVE  Cardinality(FirstActive(n)) <= MaxActive + Late
    BY DEF ActiveOvershootBounded
  <2>1. Cardinality(FirstActive(n)) + Cardinality({}) <= MaxActive + Late
    BY Bounded, Fewer DEF LimitsInv, ActiveRoom
  <2>2. IsFiniteSet(FirstActive(n)) /\ Cardinality(FirstActive(n)) \in Nat
    BY Bounded, FS_Subset, FS_CardinalityType
  <2> QED BY <2>1, <2>2, FS_EmptySet, Bounded
<1> QED BY <1>1, InitLimits, LimitsKept, PTL DEF LimitsSpec

\* The same of its jobs within an hour, whose rows are still there.
THEOREM RecentLimit == LimitsSpec => []RecentOvershootBounded
<1>1. LimitsInv => RecentOvershootBounded
  <2> SUFFICES ASSUME LimitsInv, NEW n \in Network
               PROVE  Cardinality(LastHour(n)) <= MaxRecent + Late
    BY DEF RecentOvershootBounded
  <2>1. Cardinality(LastHour(n)) + Cardinality({}) <= MaxRecent + Late
    BY Bounded, Fewer DEF LimitsInv, RecentRoom
  <2>2. IsFiniteSet(LastHour(n)) /\ Cardinality(LastHour(n)) \in Nat
    BY Bounded, FS_Subset, FS_CardinalityType
  <2> QED BY <2>1, <2>2, FS_EmptySet, Bounded
<1> QED BY <1>1, InitLimits, LimitsKept, PTL DEF LimitsSpec

\* Types and both limits, whatever the calls in flight.
THEOREM LimitsHold == LimitsSpec => []LimitsSafe
<1>1. LimitsInv => LimitsTypeOK
  BY DEF LimitsInv
<1>2. LimitsTypeOK /\ ActiveOvershootBounded /\ RecentOvershootBounded => LimitsSafe
  BY DEF LimitsSafe
<1> QED
  BY <1>1, <1>2, InitLimits, LimitsKept, ActiveLimit, RecentLimit, PTL DEF LimitsSpec

-----------------------------------------------------------------------------
(***************************************************************************)
(* The shards of ShardPlan are balanced and none is empty, for any number  *)
(* of documents, pages and shards.                                         *)
(***************************************************************************)

HIDE LimitsAssumption
USE ShardAssumption DEF Shard

\* No document that waits is longer than one that has its shard.
LongestFirst ==
  \A d \in Doc, e \in Doc : placed[d] # NoShard /\ placed[e] = NoShard => pages[e] <= pages[d]

\* A shard without documents has no pages, and while there is one no other
\* shard gets a second document.
EmptyHasNone ==
  \A i \in Shard : (\A d \in Doc : placed[d] # i) => total[i] = 0

UsedHasSome ==
  \A d \in Doc : placed[d] # NoShard => total[placed[d]] > 0

OneEachWhileEmpty ==
  (\E i \in Shard : \A d \in Doc : placed[d] # i) =>
    \A d \in Doc, e \in Doc : placed[d] # NoShard /\ placed[d] = placed[e] => d = e

\* The state of the shards that every step keeps.
Plan ==
  /\ ShardTypeOK
  /\ LongestFirst /\ NoMoveHelps
  /\ EmptyHasNone /\ UsedHasSome /\ OneEachWhileEmpty

LEMMA InitPlan == ShardInit => Plan
BY DEF ShardInit, Plan, ShardTypeOK, LongestFirst, NoMoveHelps, EmptyHasNone, UsedHasSome,
       OneEachWhileEmpty

\* The type of every variable is kept by a placement.
LEMMA PlaceType ==
  ASSUME ShardTypeOK, NEW d \in Doc, NEW i \in Shard, Place(d, i)
  PROVE  ShardTypeOK'
BY DEF ShardTypeOK, Place

\* What shard_manifest's choice of a document and of a shard says of them.
LEMMA Chosen ==
  ASSUME ShardTypeOK, NEW d \in Doc, NEW i \in Shard, Place(d, i)
  PROVE  /\ placed[d] = NoShard
         /\ \A e \in Doc : placed[e] = NoShard => pages[e] <= pages[d]
         /\ \A k \in Shard : total[i] <= total[k]
<1>1. placed[d] = NoShard /\ \A e \in Doc : placed[e] = NoShard => pages[e] <= pages[d]
  <2>1. Longest(d)
    BY DEF Place
  <2> QED BY <2>1 DEF Longest, Unplaced
<1>2. \A k \in Shard : total[i] <= total[k]
  <2> SUFFICES ASSUME NEW k \in Shard PROVE total[i] <= total[k]
    OBVIOUS
  <2>1. total[i] < total[k] \/ total[i] = total[k]
    BY DEF Place, Lightest
  <2>2. total[i] \in Nat /\ total[k] \in Nat
    BY DEF ShardTypeOK
  <2> QED BY <2>1, <2>2
<1> QED BY <1>1, <1>2

LEMMA PlaceBalance ==
  ASSUME ShardTypeOK, LongestFirst, NoMoveHelps, NEW d \in Doc, NEW i \in Shard, Place(d, i)
  PROVE  LongestFirst' /\ NoMoveHelps'
<1>1. /\ placed[d] = NoShard
      /\ \A e \in Doc : placed[e] = NoShard => pages[e] <= pages[d]
      /\ \A k \in Shard : total[i] <= total[k]
  BY Chosen
<1>2. /\ pages' = pages
      /\ placed' = [placed EXCEPT ![d] = i]
      /\ total' = [total EXCEPT ![i] = @ + pages[d]]
  BY DEF Place
<1>3. LongestFirst'
  BY <1>1, <1>2 DEF LongestFirst, ShardTypeOK
<1>4. NoMoveHelps'
  <2> SUFFICES ASSUME NEW e \in Doc, placed'[e] # NoShard, NEW k \in Shard
               PROVE  total'[placed'[e]] - pages[e] <= total'[k]
    BY <1>2 DEF NoMoveHelps
  <2>1. total'[k] \in Nat /\ total[k] \in Nat /\ total[i] \in Nat /\ total'[k] >= total[k]
    BY <1>2 DEF ShardTypeOK
  <2>2. CASE e = d
    BY <1>1, <1>2, <2>1, <2>2 DEF ShardTypeOK
  <2>3. CASE e # d /\ placed[e] = i
    <3>1. pages[d] <= pages[e]
      BY <1>1, <2>3 DEF LongestFirst
    <3>2. total'[placed'[e]] = total[i] + pages[d]
      BY <1>2, <2>3 DEF ShardTypeOK
    <3> QED BY <1>1, <2>1, <3>1, <3>2 DEF ShardTypeOK
  <2>4. CASE e # d /\ placed[e] # i
    <3>1. placed'[e] = placed[e] /\ total'[placed[e]] = total[placed[e]]
      BY <1>2, <2>4 DEF ShardTypeOK
    <3>2. placed[e] \in Shard /\ total[placed[e]] - pages[e] <= total[k]
      BY <3>1 DEF NoMoveHelps, ShardTypeOK
    <3> QED BY <2>1, <3>1, <3>2 DEF ShardTypeOK
  <2> QED BY <2>2, <2>3, <2>4
<1> QED BY <1>3, <1>4

LEMMA PlaceSpread ==
  ASSUME ShardTypeOK, EmptyHasNone, UsedHasSome, OneEachWhileEmpty,
         NEW d \in Doc, NEW i \in Shard, Place(d, i)
  PROVE  EmptyHasNone' /\ UsedHasSome' /\ OneEachWhileEmpty'
<1>1. placed[d] = NoShard /\ \A k \in Shard : total[i] <= total[k]
  BY Chosen
<1>2. /\ pages' = pages
      /\ placed' = [placed EXCEPT ![d] = i]
      /\ total' = [total EXCEPT ![i] = @ + pages[d]]
  BY DEF Place
<1>3. EmptyHasNone'
  BY <1>1, <1>2 DEF EmptyHasNone, ShardTypeOK
<1>4. UsedHasSome'
  BY <1>1, <1>2 DEF UsedHasSome, ShardTypeOK
<1>5. ASSUME NEW k \in Shard, \A e \in Doc : placed'[e] # k
      PROVE  \A e \in Doc : placed[e] # i
  <2>1. \A e \in Doc : placed[e] # k
    BY <1>1, <1>2, <1>5 DEF ShardTypeOK
  <2>2. total[k] = 0 /\ total[i] = 0
    BY <1>1, <2>1 DEF EmptyHasNone, ShardTypeOK
  <2> QED BY <2>2 DEF UsedHasSome, ShardTypeOK
<1>6. OneEachWhileEmpty'
  <2> SUFFICES ASSUME NEW k \in Shard, \A e \in Doc : placed'[e] # k,
                      NEW e \in Doc, NEW f \in Doc, placed'[e] # NoShard, placed'[e] = placed'[f]
               PROVE  e = f
    BY DEF OneEachWhileEmpty
  <2>1. \A g \in Doc : placed[g] # i
    BY <1>5
  <2>2. \A g, h \in Doc : placed[g] # NoShard /\ placed[g] = placed[h] => g = h
    BY <2>1 DEF OneEachWhileEmpty
  <2> QED BY <1>2, <2>1, <2>2 DEF ShardTypeOK
<1> QED BY <1>3, <1>4, <1>6

LEMMA PlanKept == Plan /\ [ShardNext]_shardVars => Plan'
<1> SUFFICES ASSUME Plan, [ShardNext]_shardVars PROVE Plan'
  OBVIOUS
<1>1. CASE ShardNext
  <2> PICK d \in Doc, i \in Shard : Place(d, i)
    BY <1>1 DEF ShardNext
  <2> QED BY PlaceType, PlaceBalance, PlaceSpread DEF Plan
<1>2. CASE UNCHANGED shardVars
  BY <1>2 DEF Plan, ShardTypeOK, LongestFirst, NoMoveHelps, EmptyHasNone, UsedHasSome,
              OneEachWhileEmpty, shardVars
<1> QED BY <1>1, <1>2

\* An empty shard at the end would leave fewer shards than documents, two of
\* them on one shard while another is empty.
LEMMA AllPlacedAllUsed == Plan => EveryShardWorks
<1> SUFFICES ASSUME Plan, Unplaced = {}, NEW i \in Shard, \A d \in Doc : placed[d] # i
             PROVE  FALSE
  BY DEF EveryShardWorks
<1> DEFINE Used == Shard \ {i}
<1>1. placed \in [Doc -> Used]
  BY DEF Plan, ShardTypeOK, Unplaced
<1>2. IsFiniteSet(Shard) /\ Cardinality(Shard) = Shards
  BY FS_Interval
<1>3. IsFiniteSet(Used) /\ Cardinality(Used) = Shards - 1
  <2> HIDE DEF Shard
  <2> QED BY <1>2, FS_RemoveElement
<1>4. Cardinality(Doc) \in Nat
  BY FS_CardinalityType
<1>5. Cardinality(Used) < Cardinality(Doc)
  BY <1>3, <1>4
<1>6. PICK d \in Doc, e \in Doc : d # e /\ placed[d] = placed[e]
  <2> HIDE DEF Used
  <2> QED BY <1>1, <1>3, <1>5, FS_PigeonHole
<1> QED BY <1>1, <1>6 DEF Plan, OneEachWhileEmpty

\* Whatever the documents and the shards, shard_manifest's plan keeps: types,
\* the balance, and a document for every shard.
THEOREM ShardsPlanned == ShardSpec => []ShardSafe
<1>1. Plan => ShardSafe
  BY AllPlacedAllUsed DEF Plan, ShardSafe
<1> QED BY InitPlan, PlanKept, <1>1, PTL DEF ShardSpec

-----------------------------------------------------------------------------
(***************************************************************************)
(* Merging loses no detection, adds nothing and keeps the ids apart, for   *)
(* any number of detections, groups and any size of page.                  *)
(***************************************************************************)

HIDE ShardAssumption DEF Shard
USE MergeAssumption

\* A kept detection has the id of one already looked at.
IdsDone == \A k \in DOMAIN merged : merged[k].id \notin left

Merging == MergeTypeOK /\ Covered /\ NothingBeyondHull /\ IdsDistinct /\ IdsDone

\* The hull of two boxes is a box around both, and ends where they end.
LEMMA HullAround ==
  ASSUME NEW a \in Box, NEW b \in Box
  PROVE  /\ Hull(a, b) \in Box
         /\ Inside(a, Hull(a, b)) /\ Inside(b, Hull(a, b))
         /\ \A side \in {"x1", "y1", "x2", "y2"} :
              Hull(a, b)[side] = a[side] \/ Hull(a, b)[side] = b[side]
BY DEF Hull, Least, Most, Box, Inside

LEMMA InsideTrans ==
  ASSUME NEW a \in Box, NEW b \in Box, NEW c \in Box, Inside(a, b), Inside(b, c)
  PROVE  Inside(a, c)
BY DEF Box, Inside

LEMMA InsideItself == \A a \in Box : Inside(a, a)
BY DEF Box, Inside

\* What a widened detection keeps and what it gains.
LEMMA WidenedBox ==
  ASSUME NEW m \in Detection, NEW b \in Box
  PROVE  /\ Widened(m, b) \in Detection
         /\ Widened(m, b).id = m.id /\ Widened(m, b).group = m.group
         /\ Widened(m, b).box = Hull(m.box, b)
<1>1. m.box \in Box
  BY DEF Detection
<1>2. Hull(m.box, b) \in Box
  BY <1>1, HullAround
<1> QED BY <1>2 DEF Widened, Detection

LEMMA InitMerging == MergeInit => Merging
BY DEF MergeInit, Merging, MergeTypeOK, Covered, NothingBeyondHull, IdsDistinct, IdsDone

LEMMA KeepMerging ==
  ASSUME Merging, NEW i \in Id, Keep(i)
  PROVE  Merging'
<1> DEFINE new == [id |-> i, group |-> input[i].group, box |-> input[i].box]
<1> USE DEF Merging
<1>1. /\ i \in left /\ left' = left \ {i} /\ input' = input
      /\ merged' = Append(merged, new)
  BY DEF Keep, IsNext
<1>2. input[i] \in [group : 1 .. Groups, box : Box] /\ new \in Detection
  BY DEF MergeTypeOK, Detection
<1>3. merged \in Seq(Detection) /\ Len(merged) \in Nat
  BY DEF MergeTypeOK
<1>4. /\ DOMAIN merged' = 1 .. Len(merged) + 1
      /\ \A k \in DOMAIN merged : merged'[k] = merged[k]
      /\ merged'[Len(merged) + 1] = new
  BY <1>1, <1>2, <1>3
<1>5. DOMAIN merged = 1 .. Len(merged)
  BY <1>3
<1> HIDE DEF new
<1>6. new.id = i /\ new.group = input[i].group /\ new.box = input[i].box
  BY DEF new
<1>7. MergeTypeOK'
  BY <1>1, <1>2, <1>3 DEF MergeTypeOK
<1>8. Covered'
  <2> SUFFICES ASSUME NEW j \in Id \ left'
               PROVE  \E k \in DOMAIN merged' : merged'[k].group = input[j].group
                        /\ Inside(input[j].box, merged'[k].box)
    BY <1>1 DEF Covered
  <2>1. CASE j = i
    BY <1>2, <1>3, <1>4, <1>6, <2>1, InsideItself
  <2>2. CASE j # i
    <3>1. PICK k \in DOMAIN merged : merged[k].group = input[j].group
                                     /\ Inside(input[j].box, merged[k].box)
      BY <1>1, <2>2 DEF Covered
    <3> QED BY <1>3, <1>4, <1>5, <3>1
  <2> QED BY <2>1, <2>2
<1>9. NothingBeyondHull'
  <2> SUFFICES ASSUME NEW k \in DOMAIN merged', NEW side \in {"x1", "y1", "x2", "y2"}
               PROVE  \E j \in Id \ left' :
                        input[j].group = merged'[k].group /\ input[j].box[side] = merged'[k].box[side]
    BY <1>1 DEF NothingBeyondHull
  <2>1. CASE k = Len(merged) + 1
    BY <1>1, <1>4, <1>6, <2>1
  <2>2. CASE k \in DOMAIN merged
    <3>1. PICK j \in Id \ left : input[j].group = merged[k].group
                                 /\ input[j].box[side] = merged[k].box[side]
      BY <2>2 DEF NothingBeyondHull
    <3> QED BY <1>1, <1>4, <2>2, <3>1
  <2> QED BY <1>3, <1>4, <1>5, <2>1, <2>2
<1>10. IdsDistinct' /\ IdsDone'
  <2>1. \A k \in DOMAIN merged : merged[k].id # i
    BY <1>1 DEF IdsDone
  <2>2. IdsDistinct'
    BY <1>3, <1>4, <1>5, <1>6, <2>1 DEF IdsDistinct
  <2>3. IdsDone'
    BY <1>1, <1>3, <1>4, <1>5, <1>6 DEF IdsDone
  <2> QED BY <2>2, <2>3
<1> QED BY <1>7, <1>8, <1>9, <1>10

LEMMA WidenMerging ==
  ASSUME Merging, NEW i \in Id, NEW k \in DOMAIN merged, Widen(i, k)
  PROVE  Merging'
<1> DEFINE wide == Widened(merged[k], input[i].box)
<1> USE DEF Merging
<1>1. /\ i \in left /\ left' = left \ {i} /\ input' = input
      /\ merged' = [merged EXCEPT ![k] = wide]
      /\ merged[k].group = input[i].group
  BY DEF Widen, IsNext, FirstMet, Meets
<1>2. input[i].box \in Box /\ merged[k] \in Detection /\ merged[k].box \in Box
  <2>1. input[i] \in [group : 1 .. Groups, box : Box] /\ merged[k] \in Detection
    BY DEF MergeTypeOK
  <2> QED BY <2>1 DEF Detection
<1>3. /\ wide \in Detection
      /\ wide.id = merged[k].id /\ wide.group = merged[k].group
      /\ wide.box = Hull(merged[k].box, input[i].box)
  BY <1>2, WidenedBox
<1> HIDE DEF wide
<1>4. /\ DOMAIN merged' = DOMAIN merged /\ merged'[k] = wide
      /\ \A l \in DOMAIN merged : l # k => merged'[l] = merged[l]
  BY <1>1
<1>5. MergeTypeOK'
  BY <1>1, <1>3 DEF MergeTypeOK
<1>6. Inside(merged[k].box, wide.box) /\ Inside(input[i].box, wide.box) /\ wide.box \in Box
  BY <1>2, <1>3, HullAround
<1>7. Covered'
  <2> SUFFICES ASSUME NEW j \in Id \ left'
               PROVE  \E l \in DOMAIN merged' : merged'[l].group = input[j].group
                        /\ Inside(input[j].box, merged'[l].box)
    BY <1>1 DEF Covered
  <2>1. CASE j = i
    BY <1>1, <1>3, <1>4, <1>6, <2>1
  <2>2. CASE j # i
    <3>1. PICK l \in DOMAIN merged : merged[l].group = input[j].group
                                     /\ Inside(input[j].box, merged[l].box)
      BY <1>1, <2>2 DEF Covered
    <3>2. CASE l = k
      <4>1. input[j].box \in Box
        BY DEF MergeTypeOK
      <4>2. Inside(input[j].box, wide.box)
        BY <1>2, <1>6, <3>1, <3>2, <4>1, InsideTrans
      <4> QED BY <1>3, <1>4, <3>1, <3>2, <4>2
    <3> QED BY <1>4, <3>1, <3>2
  <2> QED BY <2>1, <2>2
<1>8. NothingBeyondHull'
  <2> SUFFICES ASSUME NEW l \in DOMAIN merged, NEW side \in {"x1", "y1", "x2", "y2"}
               PROVE  \E j \in Id \ left' :
                        input[j].group = merged'[l].group /\ input[j].box[side] = merged'[l].box[side]
    BY <1>1, <1>4 DEF NothingBeyondHull
  <2>1. PICK j \in Id \ left : input[j].group = merged[l].group
                               /\ input[j].box[side] = merged[l].box[side]
    BY DEF NothingBeyondHull
  <2>2. CASE l # k
    BY <1>1, <1>4, <2>1, <2>2
  <2>3. CASE l = k
    <3>1. wide.box[side] = merged[k].box[side] \/ wide.box[side] = input[i].box[side]
      BY <1>2, <1>3, HullAround
    <3>2. i \in Id \ left' /\ j \in Id \ left'
      BY <1>1
    <3> QED BY <1>1, <1>3, <1>4, <2>1, <2>3, <3>1, <3>2
  <2> QED BY <2>2, <2>3
<1>9. \A l \in DOMAIN merged' : merged'[l].id = merged[l].id
  BY <1>3, <1>4
<1>10. IdsDistinct' /\ IdsDone'
  BY <1>1, <1>4, <1>9 DEF IdsDistinct, IdsDone
<1> QED BY <1>5, <1>7, <1>8, <1>10

LEMMA MergingKept == Merging /\ [MergeNext]_mergeVars => Merging'
<1> SUFFICES ASSUME Merging, [MergeNext]_mergeVars PROVE Merging'
  OBVIOUS
<1>1. CASE MergeNext
  BY <1>1, KeepMerging, WidenMerging DEF MergeNext
<1>2. CASE UNCHANGED mergeVars
  BY <1>2 DEF Merging, MergeTypeOK, Covered, NothingBeyondHull, IdsDistinct, IdsDone, mergeVars
<1> QED BY <1>1, <1>2

\* merge_page_detections keeps every detection under a box of its page and
\* category, adds no area beyond their hulls, and leaves every id once.
THEOREM MergedSafely == MergeSpec => []MergeSafe
<1>1. Merging => MergeSafe
  BY DEF Merging, MergeSafe
<1> QED BY InitMerging, MergingKept, <1>1, PTL DEF MergeSpec

-----------------------------------------------------------------------------
(***************************************************************************)
(* Loading a document: the budget of pixels, and who reads which page, for *)
(* documents of any length.                                                *)
(***************************************************************************)

HIDE MergeAssumption
USE LoadAssumption

Sources == {"layer", "none", "ocr"}

\* Where load_document is: a PDF is extracted and rendered, an image decoded.
Stages ==
  /\ step \in {"count", "extract"} => source = <<>> /\ counted = 0 /\ toRead = {}
  /\ step = "count" => layer = [i \in Index |-> "absent"]
  /\ step \in {"extract", "render"} => file.kind = "pdf" /\ Len(file.pages) \in 1 .. MaxPages
  /\ step = "frames" => file.kind = "image" /\ Len(source) <= MaxPages
  /\ step \in {"trust", "read", "loaded"} =>
       Len(source) = Len(file.pages) /\ Len(source) \in 1 .. MaxPages

\* A page is counted as soon as it is rendered; a frame that breaks the budget
\* has been decoded before it is counted.
Pixels ==
  /\ counted <= MaxTotal /\ rendered <= counted + MaxPage + 1
  /\ file.kind = "pdf" \/ step \notin Refused => rendered = counted

\* A text layer that is taken was read whole, from a page that paints nothing.
Layers ==
  /\ file.kind = "image" => \A i \in Index : ~ file.pages[i].paints
  /\ \A i \in Index : layer[i] = "read" => ~ file.pages[i].paints /\ ~ Raises(file.pages[i])
  /\ \A i \in DOMAIN source : source[i] = "layer" => layer[i] = "read"

\* What OCR has not read yet, it will, or it need not.
ReadByOcr ==
  step \in {"read", "loaded"} /\ ocr => \A i \in Index :
    \/ source[i] = "ocr"
    \/ step = "read" /\ i \in toRead
    \/ source[i] = "layer" /\ ~ file.pages[i].garbled

LoadInv ==
  /\ file \in [kind : {"pdf", "image"}, agrees : BOOLEAN, pages : Seq(Page)]
  /\ ocr \in BOOLEAN /\ source \in Seq(Sources)
  /\ LoadTypeOK /\ Stages /\ Pixels /\ Layers /\ ReadByOcr

-----------------------------------------------------------------------------
(* The steps.                                                              *)

LEMMA LoadStarts == LoadInit => LoadInv
<1> SUFFICES ASSUME LoadInit PROVE LoadInv
  OBVIOUS
<1>1. file.pages \in Seq(Page) /\ file \in [kind : {"pdf", "image"}, agrees : BOOLEAN, pages : Seq(Page)]
  BY DEF LoadInit, File, BoundedSeq, SeqOf
<1>2. ocr \in BOOLEAN /\ source \in Seq(Sources)
  BY DEF LoadInit
<1>3. LoadTypeOK
  BY <1>1 DEF LoadInit, LoadTypeOK
<1>4. Stages /\ Pixels /\ Layers /\ ReadByOcr
  BY <1>1 DEF LoadInit, Stages, Pixels, Layers, ReadByOcr, Refused
<1> QED BY <1>1, <1>2, <1>3, <1>4 DEF LoadInv

LEMMA LoadGoesOn == LoadInv /\ [LoadNext]_loadVars => LoadInv'
<1> SUFFICES ASSUME LoadInv, [LoadNext]_loadVars PROVE LoadInv'
  OBVIOUS
<1> DEFINE Files == [kind : {"pdf", "image"}, agrees : BOOLEAN, pages : Seq(Page)]
<1>1. /\ file \in Files /\ file.pages \in Seq(Page) /\ Index = 1 .. Len(file.pages)
      /\ Len(file.pages) \in Nat /\ Len(source) \in Nat /\ DOMAIN source = 1 .. Len(source)
      /\ \A i \in Index : file.pages[i].pixels \in Nat /\ file.pages[i].pixels <= MaxPage + 1
  <2>1. file \in Files /\ file.pages \in Seq(Page) /\ source \in Seq(Sources)
    BY DEF LoadInv
  <2>2. ASSUME NEW i \in Index PROVE file.pages[i].pixels \in Nat /\ file.pages[i].pixels <= MaxPage + 1
    <3>1. file.pages[i] \in Page
      BY <2>1 DEF Index
    <3> QED BY <3>1 DEF Page
  <2> QED BY <2>1, <2>2 DEF Index
<1>2. CASE CountPages
  <2>1. LoadTypeOK'
    BY <1>1, <1>2 DEF CountPages, LoadInv, LoadTypeOK, Refused, Index
  <2>2. Stages'
    BY <1>1, <1>2 DEF CountPages, LoadInv, LoadTypeOK, Stages, Index
  <2>3. Pixels' /\ Layers' /\ ReadByOcr'
    BY <1>1, <1>2 DEF CountPages, LoadInv, Pixels, Layers, ReadByOcr, Refused, Index, Raises
  <2> QED BY <1>2, <2>1, <2>2, <2>3 DEF LoadInv, CountPages
<1>3. CASE ExtractWords
  <2>1. /\ layer' \in [Index -> {"read", "unusable", "absent"}]
        /\ \A i \in Index : layer'[i] = "read" => ~ file.pages[i].paints /\ ~ Raises(file.pages[i])
    BY <1>3 DEF ExtractWords, TextLayers, PageLayer
  <2>2. LoadTypeOK' /\ Stages'
    BY <1>1, <1>3, <2>1 DEF ExtractWords, LoadInv, LoadTypeOK, Stages, Index
  <2>3. Pixels' /\ Layers' /\ ReadByOcr'
    BY <1>1, <1>3, <2>1 DEF ExtractWords, LoadInv, Pixels, Layers, ReadByOcr, Refused, Index, Stages, Raises
  <2> QED BY <1>3, <2>2, <2>3 DEF LoadInv, ExtractWords
<1>4. ASSUME NEW i \in Index, RenderPage(i) PROVE LoadInv'
  <2>1. CASE Budget(file.pages[i].pixels) = "within"
    <3>1. /\ counted' = counted + file.pages[i].pixels /\ rendered' = rendered + file.pages[i].pixels
          /\ counted' <= MaxTotal /\ step' = step /\ step = "render" /\ i = Len(source) + 1
          /\ source' = Append(source, IF layer[i] = "read" THEN "layer" ELSE "none")
          /\ UNCHANGED <<file, ocr, layer, toRead>>
      BY <1>1, <1>4, <2>1 DEF RenderPage, Budget, LoadInv, LoadTypeOK
    <3>2. /\ source' \in Seq(Sources) /\ Len(source') = Len(source) + 1
          /\ \A k \in DOMAIN source' : source'[k] = IF k = i THEN IF layer[i] = "read" THEN "layer" ELSE "none"
                                                    ELSE source[k]
      BY <1>1, <3>1 DEF LoadInv, Sources
    <3>3. counted' \in Nat /\ rendered' \in Nat
      <4>1. counted \in Nat /\ rendered \in Nat
        BY DEF LoadInv, LoadTypeOK
      <4>2. file.pages[i].pixels \in Nat
        BY <1>1
      <4>3. counted' = counted + file.pages[i].pixels /\ rendered' = rendered + file.pages[i].pixels
        BY <3>1
      <4> QED BY <4>1, <4>2, <4>3
    <3>7. Len(source') <= Len(file.pages) /\ \A k \in DOMAIN source' : source'[k] \in Sources
      BY <1>1, <3>1, <3>2
    <3>8. LoadTypeOK'
      BY <3>1, <3>3, <3>7 DEF LoadInv, LoadTypeOK, Index, Sources
    <3>4. Stages'
      BY <1>1, <3>1, <3>2 DEF LoadInv, Stages, Index
    <3>5. Pixels'
      BY <3>1, <3>3 DEF LoadInv, LoadTypeOK, Pixels, Refused
    <3>6. Layers'
      <4>1. \A k \in DOMAIN source' : source'[k] = "layer" => layer[k] = "read"
        BY <1>1, <3>1, <3>2 DEF LoadInv, Layers
      <4> QED BY <3>1, <4>1 DEF LoadInv, Layers, Index, Raises
    <3>9. ReadByOcr'
      BY <3>1 DEF ReadByOcr
    <3> QED BY <3>1, <3>2, <3>4, <3>5, <3>6, <3>8, <3>9 DEF LoadInv
  <2>2. CASE Budget(file.pages[i].pixels) # "within"
    <3>1. step' \in Refused /\ UNCHANGED <<file, ocr, layer, toRead, counted, rendered, source>>
      BY <1>4, <2>2 DEF RenderPage, Budget, Refused
    <3> QED BY <1>1, <3>1, <1>4
      DEF LoadInv, LoadTypeOK, Stages, Pixels, Layers, ReadByOcr, Refused, Index, Raises, RenderPage
  <2> QED BY <2>1, <2>2
<1>5. ASSUME NEW i \in Index, DecodeFrame(i) PROVE LoadInv'
  <2>1. CASE /\ i <= MaxPages /\ ~ file.pages[i].broken
             /\ Budget(file.pages[i].pixels) = "within"
    <3>1. /\ counted' = counted + file.pages[i].pixels /\ rendered' = rendered + file.pages[i].pixels
          /\ counted' <= MaxTotal /\ step' = step /\ step = "frames" /\ i = Len(source) + 1
          /\ source' = Append(source, "none")
          /\ UNCHANGED <<file, ocr, layer, toRead>>
      BY <1>4, <1>5, <2>1 DEF DecodeFrame, Budget, LoadInv, LoadTypeOK
    <3>2. /\ source' \in Seq(Sources) /\ Len(source') = Len(source) + 1
          /\ \A k \in DOMAIN source' : source'[k] = IF k = i THEN "none" ELSE source[k]
      BY <1>1, <3>1 DEF LoadInv, Sources
    <3>3. counted' \in Nat /\ rendered' \in Nat
      <4>1. counted \in Nat /\ rendered \in Nat
        BY DEF LoadInv, LoadTypeOK
      <4>2. file.pages[i].pixels \in Nat
        BY <1>1
      <4>3. counted' = counted + file.pages[i].pixels /\ rendered' = rendered + file.pages[i].pixels
        BY <3>1
      <4> QED BY <4>1, <4>2, <4>3
    <3>7. Len(source') <= Len(file.pages) /\ \A k \in DOMAIN source' : source'[k] \in Sources
      BY <1>1, <3>1, <3>2
    <3>8. LoadTypeOK'
      BY <3>1, <3>3, <3>7 DEF LoadInv, LoadTypeOK, Index, Sources
    <3>4. Stages'
      BY <1>1, <2>1, <3>1, <3>2 DEF LoadInv, Stages, Index
    <3>5. Pixels'
      BY <3>1, <3>3 DEF LoadInv, LoadTypeOK, Pixels, Refused
    <3>6. Layers'
      <4>1. \A k \in DOMAIN source' : source'[k] = "layer" => layer[k] = "read"
        BY <1>1, <3>1, <3>2 DEF LoadInv, Layers
      <4> QED BY <3>1, <4>1 DEF LoadInv, Layers, Index, Raises
    <3>9. ReadByOcr'
      BY <3>1 DEF ReadByOcr
    <3> QED BY <3>1, <3>2, <3>4, <3>5, <3>6, <3>8, <3>9 DEF LoadInv
  <2>2. CASE ~ (/\ i <= MaxPages /\ ~ file.pages[i].broken
                /\ Budget(file.pages[i].pixels) = "within")
    <3>1. /\ step' \in Refused /\ UNCHANGED <<file, ocr, layer, toRead, counted, source>>
          /\ rendered' \in {rendered, rendered + file.pages[i].pixels}
      BY <1>1, <1>5, <2>2 DEF DecodeFrame, Budget, Refused, LoadInv, LoadTypeOK
    <3>2. step = "frames"
      BY <1>5 DEF DecodeFrame
    <3>9. rendered' \in Nat
      BY <1>1, <3>1 DEF LoadInv, LoadTypeOK
    <3>3. LoadTypeOK'
      BY <1>1, <3>1, <3>9 DEF LoadInv, LoadTypeOK, Index
    <3>10. Stages' /\ Layers' /\ ReadByOcr'
      BY <1>1, <3>1, <3>2 DEF LoadInv, Stages, Layers, ReadByOcr, Refused, Index, Raises
    <3>4. Pixels'
      BY <1>1, <3>1, <3>2 DEF LoadInv, LoadTypeOK, Pixels, Stages, Refused
    <3> QED BY <3>1, <3>3, <3>10, <3>4 DEF LoadInv
  <2> QED BY <2>1, <2>2
<1>6. CASE AllRendered
  <2>1. file.pages = <<>> <=> Len(file.pages) = 0
    BY <1>1
  <2>2. /\ step \in {"render", "frames"} /\ Len(source) = Len(file.pages)
        /\ step' = IF Len(file.pages) = 0 THEN "document_empty" ELSE "trust"
        /\ UNCHANGED <<file, ocr, layer, counted, rendered, toRead, source>>
    BY <1>6, <2>1 DEF AllRendered
  <2>3. LoadTypeOK' /\ Layers' /\ ReadByOcr'
    BY <2>2 DEF LoadInv, LoadTypeOK, Layers, ReadByOcr, Refused, Index, Raises
  <2>4. Stages' /\ Pixels'
    BY <1>1, <2>2 DEF LoadInv, Stages, Pixels, Refused
  <2> QED BY <2>2, <2>3, <2>4 DEF LoadInv
<1>7. CASE TrustLayers
  <2>1. /\ step = "trust" /\ step' \in {"read", "ocr_unavailable", "loaded"}
        /\ toRead' \subseteq Index /\ UNCHANGED <<file, ocr, layer, counted, rendered, source>>
        /\ step' = "read" <=> ocr
    BY <1>7 DEF TrustLayers, LoadInv
  <2>2. LoadTypeOK' /\ Stages' /\ Pixels' /\ Layers'
    BY <1>1, <2>1 DEF LoadInv, LoadTypeOK, Stages, Pixels, Layers, Refused, Index, Raises
  <2>3. ReadByOcr'
    <3> SUFFICES ASSUME ocr, step' = "read", NEW i \in Index
                 PROVE \/ source[i] = "ocr"
                       \/ i \in toRead'
                       \/ source[i] = "layer" /\ ~ file.pages[i].garbled
      BY <2>1 DEF ReadByOcr, Index
    <3>1. toRead' = {k \in Index : layer[k] = "unusable"} \cup {k \in Index : Garbage(k)}
      BY <1>7 DEF TrustLayers
    <3>2. source[i] \in Sources
      BY <1>1, <2>1 DEF LoadInv, Stages
    <3> QED BY <3>1, <3>2 DEF Garbage, Sources
  <2> QED BY <2>1, <2>2, <2>3 DEF LoadInv
<1>8. ASSUME NEW i \in Index, OcrPage(i) PROVE LoadInv'
  <2>1. CASE /\ toRead' = toRead \ {i}
             /\ source' = [source EXCEPT ![i] = "ocr"] /\ UNCHANGED step
    <3>1. step = "read" /\ UNCHANGED <<file, ocr, layer, counted, rendered>> /\ i \in DOMAIN source
      BY <1>1, <1>8 DEF OcrPage, LoadInv, Stages
    <3>2. /\ source' \in Seq(Sources) /\ Len(source') = Len(source)
          /\ \A k \in DOMAIN source' : source'[k] = IF k = i THEN "ocr" ELSE source[k]
      BY <1>1, <2>1, <3>1 DEF LoadInv, Sources
    <3>3. LoadTypeOK' /\ Stages' /\ Pixels' /\ Layers'
      BY <1>1, <2>1, <3>1, <3>2 DEF LoadInv, LoadTypeOK, Stages, Pixels, Layers, Refused, Index, Raises, Sources
    <3>4. ReadByOcr'
      BY <1>1, <2>1, <3>1, <3>2 DEF LoadInv, ReadByOcr, Stages, Index
    <3> QED BY <3>1, <3>2, <3>3, <3>4 DEF LoadInv
  <2>2. CASE step' = "ocr_unavailable" /\ UNCHANGED <<toRead, source>>
    BY <1>1, <1>8, <2>2
    DEF OcrPage, LoadInv, LoadTypeOK, Stages, Pixels, Layers, ReadByOcr, Refused, Index, Raises
  <2> QED BY <1>8, <2>1, <2>2 DEF OcrPage
<1>9. CASE AllRead
  BY <1>1, <1>9 DEF AllRead, LoadInv, LoadTypeOK, Stages, Pixels, Layers, ReadByOcr, Refused, Index, Raises
<1>10. CASE UNCHANGED loadVars
  BY <1>10 DEF loadVars, LoadInv, LoadTypeOK, Stages, Pixels, Layers, ReadByOcr, Index, Raises
<1> QED BY <1>2, <1>3, <1>4, <1>5, <1>6, <1>7, <1>8, <1>9, <1>10 DEF LoadNext

LEMMA LoadInvIsSafe == LoadInv => LoadSafe
<1> SUFFICES ASSUME LoadInv PROVE LoadSafe
  OBVIOUS
<1>1. BudgetHolds
  BY DEF LoadInv, LoadTypeOK, BudgetHolds, Pixels, Stages, Refused
<1>2. PaintedTextRead
  <2> SUFFICES ASSUME step = "loaded", ocr, NEW i \in Index,
                      file.pages[i].paints \/ file.pages[i].garbled \/ Raises(file.pages[i])
               PROVE source[i] = "ocr"
    BY DEF PaintedTextRead
  <2>1. i \in DOMAIN source
    BY DEF LoadInv, Stages, Index
  <2> QED BY <2>1 DEF LoadInv, ReadByOcr, Layers
<1> QED BY <1>1, <1>2 DEF LoadSafe, LoadInv

\* Whatever a document is like and wherever reading it stops: it is loaded within
\* its budget of pixels, and no text that is painted goes unread where there is OCR
\* (load_document).
THEOREM DocumentsLoadSafely == LoadSpec => []LoadSafe
<1>1. LoadInv /\ [LoadNext]_loadVars => LoadInv'
  BY LoadGoesOn
<1> QED BY <1>1, LoadStarts, LoadInvIsSafe, PTL DEF LoadSpec

-----------------------------------------------------------------------------
(***************************************************************************)
(* The net for SSN-shaped values, over pages of any number of words.       *)
(***************************************************************************)

HIDE LoadAssumption
USE NetAssumption

\* What FlattenSeq makes of one word, and of two.
LEMMA FlattenOne ==
  ASSUME NEW s, Len(s) = 1 PROVE FlattenSeq(s) = s[1]
<1> DEFINE Def(f) == f = [i \in 1 .. Len(s) |-> IF i = 1 THEN s[i] ELSE f[i-1] \o s[i]]
<1> DEFINE g == [i \in 1 .. Len(s) |-> s[1]]
<1>1. Def(g)
  OBVIOUS
<1>2. Def(CHOOSE f : Def(f))
  <2> HIDE DEF Def
  <2> QED BY <1>1
<1>3. (CHOOSE f : Def(f))[Len(s)] = s[1]
  <2> DEFINE h == CHOOSE f : Def(f)
  <2>1. h = [i \in 1 .. Len(s) |-> IF i = 1 THEN s[i] ELSE h[i-1] \o s[i]]
    BY <1>2
  <2> HIDE DEF h
  <2>2. h[Len(s)] = s[1]
    BY <2>1
  <2> QED BY <2>2 DEF h
<1>4. FlattenSeq(s) = (CHOOSE f : Def(f))[Len(s)]
  BY DEF FlattenSeq
<1> QED BY <1>3, <1>4

LEMMA FlattenTwo ==
  ASSUME NEW s, Len(s) = 2 PROVE FlattenSeq(s) = s[1] \o s[2]
<1> DEFINE Def(f) == f = [i \in 1 .. Len(s) |-> IF i = 1 THEN s[i] ELSE f[i-1] \o s[i]]
<1> DEFINE g == [i \in 1 .. Len(s) |-> IF i = 1 THEN s[1] ELSE s[1] \o s[2]]
<1>1. Def(g)
  <2>1. \A i \in 1 .. Len(s) : i = 1 \/ i = 2
    OBVIOUS
  <2> QED BY <2>1
<1>2. Def(CHOOSE f : Def(f))
  <2> HIDE DEF Def
  <2> QED BY <1>1
<1>3. (CHOOSE f : Def(f))[Len(s)] = s[1] \o s[2]
  <2> DEFINE h == CHOOSE f : Def(f)
  <2>1. h = [i \in 1 .. Len(s) |-> IF i = 1 THEN s[i] ELSE h[i-1] \o s[i]]
    BY <1>2
  <2> HIDE DEF h
  <2>2. h[1] = s[1] /\ h[2] = h[1] \o s[2]
    BY <2>1
  <2> QED BY <2>2 DEF h
<1>4. FlattenSeq(s) = (CHOOSE f : Def(f))[Len(s)]
  BY DEF FlattenSeq
<1> QED BY <1>3, <1>4

-----------------------------------------------------------------------------
(* The letters of an identifier, and the words it is cut into.             *)

LEMMA ShapeLetters ==
  ASSUME NEW s \in Shape
  PROVE  /\ s \in Seq({"c", "-", "dash"}) /\ Len(s) = 11
         /\ \A k \in 1 .. 11 : IF k \in {4, 7} THEN s[k] \in {"-", "dash"} ELSE s[k] = "c"
<1>1. PICK x \in {"-", "dash"}, y \in {"-", "dash"} :
        s = <<"c", "c", "c", x, "c", "c", y, "c", "c", "c", "c">>
  BY DEF Shape, Separator
<1>2. s \in Seq({"c", "-", "dash"}) /\ Len(s) = 11
  BY <1>1
<1>3. /\ s[1] = "c" /\ s[2] = "c" /\ s[3] = "c" /\ s[4] = x /\ s[5] = "c"
      /\ s[6] = "c" /\ s[7] = y /\ s[8] = "c" /\ s[9] = "c" /\ s[10] = "c" /\ s[11] = "c"
  BY <1>1
<1>4. ASSUME NEW k \in 1 .. 11 PROVE k \in {1, 2, 3, 4, 5, 6, 7, 8, 9, 10, 11}
  OBVIOUS
<1> QED BY <1>2, <1>3, <1>4

Text == Seq({"c", "-", "dash", "other"})

LEMMA WordText == ASSUME NEW w \in Word PROVE w.text \in Text /\ Len(w.text) >= 1
<1>1. CASE w = [text |-> <<"other">>, digit |-> FALSE]
  BY <1>1 DEF Text
<1>2. CASE w \in [text : Piece, digit : BOOLEAN]
  <2>1. PICK s \in Shape, p \in Cuts \X Cuts : p[1] < p[2] /\ w.text = SubSeq(s, p[1] + 1, p[2])
    BY <1>2 DEF Piece
  <2>2. p[1] \in 0 .. 11 /\ p[2] \in 0 .. 11
    BY <2>1
  <2>3. SubSeq(s, p[1] + 1, p[2]) \in Seq({"c", "-", "dash"}) /\ Len(SubSeq(s, p[1] + 1, p[2])) = p[2] - p[1]
    <3> DEFINE m == p[1] + 1
               n == p[2]
    <3>1. m \in Int /\ n \in Int /\ m <= n /\ n - m + 1 = p[2] - p[1]
      BY <2>1, <2>2
    <3>2. \A i \in m .. n : i \in 1 .. 11
      BY <2>1, <2>2
    <3>3. \A i \in m .. n : s[i] \in {"c", "-", "dash"}
      BY <3>2, ShapeLetters
    <3> HIDE DEF m, n
    <3>4. /\ SubSeq(s, m, n) \in Seq({"c", "-", "dash"})
          /\ Len(SubSeq(s, m, n)) = IF m <= n THEN n - m + 1 ELSE 0
      BY <3>1, <3>3, SubSeqProperties, Zenon
    <3>5. Len(SubSeq(s, m, n)) = p[2] - p[1]
      BY <3>1, <3>4
    <3> QED BY <3>4, <3>5 DEF m, n
  <2>4. w.text \in Seq({"c", "-", "dash"}) /\ Len(w.text) >= 1
    BY <2>1, <2>2, <2>3
  <2> QED BY <2>4 DEF Text
<1> QED BY <1>1, <1>2 DEF Word

LEMMA WholeWord ==
  ASSUME NEW i \in DOMAIN pieces, pieces \in Seq(Word), Identifier(i, i)
  PROVE  pieces[i].text \in Shape
<1> DEFINE s == [k \in 1 .. i - i + 1 |-> pieces[i + k - 1].text]
<1>1. i \in Nat /\ i - i + 1 = 1 /\ i + 1 - 1 = i
  OBVIOUS
<1>2. Len(s) = 1 /\ s[1] = pieces[i].text
  <2>1. DOMAIN s = 1 .. 1 /\ s = [k \in 1 .. 1 |-> pieces[i + k - 1].text]
    BY <1>1
  <2>2. s[1] = pieces[i + 1 - 1].text
    BY <2>1
  <2>3. Len([k \in 1 .. 1 |-> pieces[i + k - 1].text]) = 1
    OBVIOUS
  <2> QED BY <1>1, <2>1, <2>2, <2>3
<1>3. FlattenSeq(s) \in Shape
  BY DEF Identifier
<1> QED
  <2> HIDE DEF s
  <2> QED BY <1>2, <1>3, FlattenOne

LEMMA TwoWords ==
  ASSUME NEW i \in DOMAIN pieces, pieces \in Seq(Word), i < Len(pieces), Identifier(i, i + 1)
  PROVE  i + 1 \in DOMAIN pieces /\ pieces[i].text \o pieces[i + 1].text \in Shape
<1> DEFINE s == [k \in 1 .. (i + 1) - i + 1 |-> pieces[i + k - 1].text]
<1>1. i \in Nat /\ (i + 1) - i + 1 = 2 /\ i + 1 \in DOMAIN pieces
  OBVIOUS
<1>2. Len(s) = 2 /\ s[1] = pieces[i].text /\ s[2] = pieces[i + 1].text
  <2>1. DOMAIN s = 1 .. 2 /\ s = [k \in 1 .. 2 |-> pieces[i + k - 1].text]
    BY <1>1
  <2>2. s[1] = pieces[i + 1 - 1].text /\ s[2] = pieces[i + 2 - 1].text
    BY <2>1
  <2>3. i + 1 - 1 = i /\ i + 2 - 1 = i + 1
    BY <1>1
  <2> QED BY <2>1, <2>2, <2>3
<1>3. FlattenSeq(s) \in Shape
  BY DEF Identifier
<1>4. FlattenSeq(s) = pieces[i].text \o pieces[i + 1].text
  <2> HIDE DEF s
  <2> QED BY <1>2, FlattenTwo
<1> QED BY <1>1, <1>3, <1>4

\* An identifier in two parts: the letters of each part, and of where it is cut.
LEMMA TwoParts ==
  ASSUME NEW a \in Text, NEW b \in Text, Len(a) >= 1, Len(b) >= 1, a \o b \in Shape
  PROVE  /\ Len(a) \in 1 .. 10 /\ Len(b) = 11 - Len(a)
         /\ \A k \in 1 .. Len(a) : a[k] = (a \o b)[k]
         /\ \A k \in 1 .. 11 - Len(a) : b[k] = (a \o b)[Len(a) + k]
         /\ Last(a) = (a \o b)[Len(a)] /\ Head(b) = (a \o b)[Len(a) + 1]
<1>1. Len(a) \in 1 .. 10 /\ Len(b) = 11 - Len(a)
  <2>1. Len(a \o b) = Len(a) + Len(b) /\ Len(a) \in Nat /\ Len(b) \in Nat
    BY DEF Text
  <2>2. Len(a) + Len(b) = 11
    BY <2>1, ShapeLetters
  <2>3. \A p, q \in Nat : p >= 1 /\ q >= 1 /\ p + q = 11 => p \in 1 .. 10 /\ q = 11 - p
    OBVIOUS
  <2> QED BY <2>1, <2>2, <2>3, Zenon
<1>2. \A k \in 1 .. Len(a) : a[k] = (a \o b)[k]
  BY <1>1 DEF Text
<1>3. \A k \in 1 .. 11 - Len(a) : b[k] = (a \o b)[Len(a) + k]
  BY <1>1 DEF Text
<1>4. Last(a) = (a \o b)[Len(a)] /\ Head(b) = (a \o b)[Len(a) + 1]
  BY <1>1, <1>2, <1>3 DEF Last, Text
<1> QED BY <1>1, <1>2, <1>3, <1>4

\* Where the parts have a hyphen at the cut is where the cut is beside a hyphen
\* between two groups.
LEMMA CutBesideHyphen ==
  ASSUME NEW a \in Text, NEW b \in Text, Len(a) >= 1, Len(b) >= 1, a \o b \in Shape
  PROVE  (Last(a) = "-" \/ Head(b) = "-")
           <=> (\E gap \in {4, 7} : Len(a) \in {gap - 1, gap} /\ (a \o b)[gap] = "-")
<1> DEFINE w == a \o b
           n == Len(a)
<1>1. n \in 1 .. 10 /\ Last(a) = w[n] /\ Head(b) = w[n + 1]
  BY TwoParts
<1>2. \A k \in 1 .. 11 : IF k \in {4, 7} THEN w[k] \in {"-", "dash"} ELSE w[k] = "c"
  BY ShapeLetters
<1> HIDE DEF w, n
<1>3. ASSUME w[n] = "-" \/ w[n + 1] = "-"
      PROVE  \E gap \in {4, 7} : n \in {gap - 1, gap} /\ w[gap] = "-"
  <2>1. CASE w[n] = "-"
    <3>1. n \in {4, 7}
      BY <1>1, <1>2, <2>1
    <3> QED BY <2>1, <3>1
  <2>2. CASE w[n + 1] = "-"
    <3>1. n + 1 \in {4, 7} /\ n = (n + 1) - 1
      BY <1>1, <1>2, <2>2
    <3> QED BY <2>2, <3>1
  <2> QED BY <1>3, <2>1, <2>2
<1>4. ASSUME NEW gap \in {4, 7}, n \in {gap - 1, gap}, w[gap] = "-"
      PROVE  w[n] = "-" \/ w[n + 1] = "-"
  BY <1>4
<1>5. (w[n] = "-" \/ w[n + 1] = "-") <=> (\E gap \in {4, 7} : n \in {gap - 1, gap} /\ w[gap] = "-")
  BY <1>3, <1>4
<1>6. (Last(a) = "-" \/ Head(b) = "-") <=> (\E gap \in {4, 7} : n \in {gap - 1, gap} /\ w[gap] = "-")
  BY <1>1, <1>5
<1> QED BY <1>6 DEF w, n

\* An identifier cut between its groups: its tail begins no other.
LEMMA CutsApart ==
  ASSUME NEW a \in Text, NEW b \in Text, Len(a) >= 1, Len(b) >= 1, a \o b \in Shape,
         Len(a) \in {3, 4, 6, 7}
  PROVE  a \notin Shape /\ b \notin Shape /\ \A c \in Text : b \o c \notin Shape
<1> DEFINE n == Len(a)
           w == a \o b
<1>1. n \in 1 .. 10 /\ Len(b) = 11 - n /\ \A k \in 1 .. 11 - n : b[k] = w[n + k]
  BY TwoParts
<1>2. \A k \in 1 .. 11 : IF k \in {4, 7} THEN w[k] \in {"-", "dash"} ELSE w[k] = "c"
  BY ShapeLetters
<1>3. ASSUME NEW c \in Text, b \o c \in Shape PROVE FALSE
  <2> DEFINE v == b \o c
  <2>1. \A k \in 1 .. 11 : IF k \in {4, 7} THEN v[k] \in {"-", "dash"} ELSE v[k] = "c"
    BY <1>3, ShapeLetters
  <2>2. \A k \in 1 .. 11 - n : v[k] = w[n + k]
    BY <1>1 DEF Text
  <2> HIDE DEF n, v, w
  <2>3. CASE n = 3 \/ n = 6
    <3>1. v[1] = w[n + 1] /\ w[n + 1] \in {"-", "dash"}
      BY <1>2, <2>2, <2>3
    <3> QED BY <2>1, <3>1
  <2>4. CASE n = 4
    <3>1. v[4] = w[8] /\ w[8] = "c"
      BY <1>2, <2>2, <2>4
    <3> QED BY <2>1, <3>1
  <2>5. CASE n = 7
    <3>1. v[4] = w[11] /\ w[11] = "c"
      BY <1>2, <2>2, <2>5
    <3> QED BY <2>1, <3>1
  <2> QED BY <2>3, <2>4, <2>5 DEF n
<1>4. Len(a) # 11 /\ Len(b) # 11
  <2> HIDE DEF n
  <2>1. n # 11 /\ 11 - n # 11
    BY <1>1
  <2> QED BY <1>1, <2>1 DEF n
<1> QED BY <1>3, <1>4, ShapeLetters

\* A word is joined to the next where an identifier is cut in two at a hyphen.
LEMMA PairIsCut ==
  ASSUME NEW i \in DOMAIN pieces, pieces \in Seq(Word)
  PROVE  Pair(i) <=> CutInTwo(i)
<1> SUFFICES ASSUME i < Len(pieces), Identifier(i, i + 1)
             PROVE  CutAtHyphen(i) <=> CutInTwo(i)
  BY DEF Pair, CutInTwo
<1>1. i + 1 \in DOMAIN pieces /\ pieces[i].text \o pieces[i + 1].text \in Shape
  BY TwoWords
<1>2. ASSUME NEW k \in DOMAIN pieces PROVE pieces[k].text \in Text /\ Len(pieces[k].text) >= 1
  BY WordText
<1>3. (Last(pieces[i].text) = "-" \/ Head(pieces[i + 1].text) = "-")
        <=> \E gap \in {4, 7} : /\ Len(pieces[i].text) \in {gap - 1, gap}
                                /\ (pieces[i].text \o pieces[i + 1].text)[gap] = "-"
  BY <1>1, <1>2, CutBesideHyphen
<1> QED BY <1>3 DEF CutAtHyphen, CutInTwo

LEMMA CutTailStandsAlone ==
  ASSUME NEW i \in DOMAIN pieces, pieces \in Seq(Word), CutInTwo(i)
  PROVE  ~ Identifier(i, i) /\ ~ Identifier(i + 1, i + 1) /\ ~ CutInTwo(i + 1)
<1>1. i + 1 \in DOMAIN pieces /\ pieces[i].text \o pieces[i + 1].text \in Shape
  BY TwoWords DEF CutInTwo
<1>2. ASSUME NEW k \in DOMAIN pieces PROVE pieces[k].text \in Text /\ Len(pieces[k].text) >= 1
  BY WordText
<1>3. Len(pieces[i].text) \in {3, 4, 6, 7}
  <2>1. PICK gap \in {4, 7} : Len(pieces[i].text) \in {gap - 1, gap}
    BY DEF CutInTwo
  <2>2. gap - 1 \in {3, 6}
    OBVIOUS
  <2> QED BY <2>1, <2>2
<1>4. /\ pieces[i].text \notin Shape /\ pieces[i + 1].text \notin Shape
      /\ \A c \in Text : pieces[i + 1].text \o c \notin Shape
  BY <1>1, <1>2, <1>3, CutsApart
<1>5. ~ CutInTwo(i + 1)
  <2> SUFFICES ASSUME CutInTwo(i + 1) PROVE FALSE
    OBVIOUS
  <2>1. /\ (i + 1) + 1 \in DOMAIN pieces
        /\ pieces[i + 1].text \o pieces[(i + 1) + 1].text \in Shape
    BY <1>1, TwoWords DEF CutInTwo
  <2> QED BY <1>2, <1>4, <2>1
<1> QED BY <1>1, <1>4, <1>5, WholeWord

-----------------------------------------------------------------------------
(* The loop over the words.  A tail that was used is boxed, so passing it   *)
(* over loses nothing.                                                     *)

UsedTails == \A k \in used : k > 1 /\ CutInTwo(k - 1) /\ k \in boxed

Caught ==
  \A i \in 1 .. looking - 1 :
    /\ Identifier(i, i) => i \in boxed
    /\ CutInTwo(i) => {i, i + 1} \subseteq boxed

NetInv == NetTypeOK /\ UsedTails /\ Caught /\ NetSpares

LEMMA NetStarts == NetInit => NetInv
<1> SUFFICES ASSUME NetInit PROVE NetInv
  OBVIOUS
<1>1. pieces \in Seq(Word)
  BY DEF NetInit, BoundedSeq, SeqOf
<1> QED BY <1>1 DEF NetInit, NetInv, NetTypeOK, UsedTails, Caught, NetSpares

LEMMA NetGoesOn == NetInv /\ [LookAtWord]_netVars => NetInv'
<1> SUFFICES ASSUME NetInv, [LookAtWord]_netVars PROVE NetInv'
  OBVIOUS
<1> DEFINE i == looking
<1>1. pieces' = pieces
  BY DEF LookAtWord, netVars
<1>2. /\ \A m, n : Identifier(m, n)' <=> Identifier(m, n)
      /\ \A m : CutInTwo(m)' <=> CutInTwo(m)
  BY <1>1 DEF Identifier, CutInTwo
<1>3. pieces \in Seq(Word) /\ DOMAIN pieces = 1 .. Len(pieces) /\ Len(pieces) \in Nat
  BY DEF NetInv, NetTypeOK
<1>4. CASE UNCHANGED netVars
  BY <1>2, <1>4 DEF netVars, NetInv, NetTypeOK, UsedTails, Caught, NetSpares
<1>5. CASE LookAtWord
  <2>1. i \in DOMAIN pieces /\ looking' = i + 1
    BY <1>3, <1>5 DEF LookAtWord, NetInv, NetTypeOK
  <2>2. Pair(i) <=> CutInTwo(i)
    BY <1>3, <2>1, PairIsCut
  <2>3. boxed \subseteq boxed' /\ used \subseteq used'
    BY <1>5 DEF LookAtWord
  <2>4. \A k \in used' \ used : k = i + 1 /\ CutInTwo(i) /\ k \in boxed'
    BY <1>5, <2>2 DEF LookAtWord
  <2>5. \A k \in boxed' \ boxed :
          (k = i /\ Identifier(i, i)) \/ (k \in {i, i + 1} /\ CutInTwo(i))
    BY <1>5, <2>2 DEF LookAtWord
  <2>6. NetTypeOK'
    <3>1. CutInTwo(i) => i + 1 \in DOMAIN pieces
      BY <1>3, <2>1 DEF CutInTwo
    <3> QED BY <1>1, <1>3, <2>1, <2>4, <2>5, <3>1 DEF NetInv, NetTypeOK
  <2>7. UsedTails'
    <3>1. i > 0 /\ (i + 1) - 1 = i
      BY <1>3, <2>1
    <3>2. ASSUME NEW k \in used' PROVE k > 1 /\ CutInTwo(k - 1) /\ k \in boxed'
      <4>1. CASE k \in used
        BY <2>3, <4>1 DEF NetInv, UsedTails
      <4>2. CASE k \notin used
        <5>1. k = i + 1 /\ CutInTwo(i) /\ k \in boxed'
          BY <2>4, <4>2
        <5>2. k - 1 = i /\ k > 1
          BY <1>3, <2>1, <5>1
        <5> QED BY <5>1, <5>2
      <4> QED BY <4>1, <4>2
    <3> QED BY <1>2, <3>2 DEF UsedTails
  <2>8. /\ Identifier(i, i) => i \in boxed'
        /\ CutInTwo(i) => {i, i + 1} \subseteq boxed'
    <3>1. CASE i \in used
      <4>1. i - 1 \in DOMAIN pieces /\ CutInTwo(i - 1) /\ (i - 1) + 1 = i
        BY <1>3, <2>1, <3>1 DEF NetInv, UsedTails
      <4>2. ~ Identifier(i, i) /\ ~ CutInTwo(i)
        BY <1>3, <4>1, CutTailStandsAlone
      <4> QED BY <4>2
    <3>2. CASE i \notin used /\ Identifier(i, i)
      <4>1. ~ CutInTwo(i)
        BY <1>3, <2>1, <3>2, CutTailStandsAlone
      <4> QED BY <1>5, <3>2, <4>1 DEF LookAtWord
    <3>3. CASE i \notin used /\ ~ Identifier(i, i)
      BY <1>5, <2>2, <3>3 DEF LookAtWord
    <3> QED BY <3>1, <3>2, <3>3
  <2>9. Caught'
    <3>1. \A k \in 1 .. looking' - 1 : k \in 1 .. looking - 1 \/ k = i
      BY <1>3, <2>1
    <3> QED BY <1>2, <2>3, <2>8, <3>1 DEF NetInv, Caught
  <2>10. NetSpares'
    <3> SUFFICES ASSUME NEW k \in boxed'
                 PROVE Identifier(k, k) \/ CutInTwo(k) \/ (k > 1 /\ CutInTwo(k - 1))
      BY <1>2 DEF NetSpares
    <3>1. CASE k \in boxed
      BY <3>1 DEF NetInv, NetSpares
    <3>2. i > 0 /\ i + 1 > 1 /\ (i + 1) - 1 = i
      BY <1>3, <2>1
    <3> QED BY <2>5, <3>1, <3>2
  <2> QED BY <2>6, <2>7, <2>9, <2>10 DEF NetInv
<1> QED BY <1>4, <1>5

\* For any words on a page: the net boxes every identifier in one word, or cut in two
\* between its groups at a hyphen, and boxes nothing for anything else; so one cut at
\* an en dash, which the shape allows and the join does not look for, is missed
\* (ssn_safety_net).
THEOREM NetIsSafe == NetSpec => []NetSafe
<1>1. NetInv => NetSafe
  <2> SUFFICES ASSUME NetInv, AllLookedAt PROVE NetCatches
    BY DEF NetInv, NetSafe, NetCatches
  <2>1. \A i \in DOMAIN pieces : i \in 1 .. looking - 1
    BY DEF NetInv, NetTypeOK, AllLookedAt
  <2> QED BY <2>1 DEF NetInv, Caught, NetCatches
<1>2. NetInv /\ [LookAtWord]_netVars => NetInv'
  BY NetGoesOn
<1> QED BY <1>1, <1>2, NetStarts, PTL DEF NetSpec

-----------------------------------------------------------------------------
(***************************************************************************)
(* Where a box is painted and looked at, on pages of any size up to a bound. *)
(***************************************************************************)

HIDE NetAssumption
USE GeometryAssumption

\* Integer division, and Rounded and Ceiling by it.
LEMMA Division ==
  ASSUME NEW n \in Int, NEW d \in Nat, d > 0
  PROVE  /\ n \div d \in Int /\ (n % d) \in 0 .. d - 1
         /\ n = d * (n \div d) + (n % d)
<1>1. n \div d \in Int
  OBVIOUS
<1>2. (n % d) \in 0 .. d - 1
  OBVIOUS
<1>3. n = d * (n \div d) + (n % d)
  OBVIOUS
<1> QED BY <1>1, <1>2, <1>3

LEMMA RoundedNear ==
  ASSUME NEW n \in Nat, NEW d \in Nat, d > 0
  PROVE  /\ Rounded(n, d) \in Nat
         /\ 2 * (d * Rounded(n, d)) <= 2 * n + d
         /\ 2 * n <= 2 * (d * Rounded(n, d)) + d
<1> DEFINE q == n \div d
           r == n % d
<1>1. q \in Int /\ r \in 0 .. d - 1 /\ n = d * q + r
  BY Division
<1>2. Rounded(n, d) = (IF 2 * r > d \/ (2 * r = d /\ q % 2 = 1) THEN q + 1 ELSE q)
  BY DEF Rounded
<1> HIDE DEF q, r
<1>3. q >= 0
  <2>1. ASSUME q <= -1 PROVE FALSE
    <3>1. d * q <= d * (-1)
      BY <1>1, <2>1
    <3> QED BY <1>1, <3>1
  <2> QED BY <1>1, <2>1
<1>4. CASE 2 * r >= d /\ Rounded(n, d) = q + 1
  <2>1. d * (q + 1) = d * q + d
    BY <1>1
  <2> QED BY <1>1, <1>3, <1>4, <2>1
<1>5. CASE 2 * r <= d /\ Rounded(n, d) = q
  BY <1>1, <1>3, <1>5
<1> QED BY <1>1, <1>2, <1>4, <1>5

LEMMA CeilingAbove ==
  ASSUME NEW n \in Nat \ {0}, NEW d \in Nat, d > 0
  PROVE  Ceiling(n, d) \in Nat \ {0} /\ n <= d * Ceiling(n, d)
<1> DEFINE q == (-n) \div d
<1>1. q \in Int /\ ((-n) % d) \in 0 .. d - 1 /\ -n = d * q + ((-n) % d)
  BY Division
<1>2. Ceiling(n, d) = -q
  BY DEF Ceiling
<1> HIDE DEF q
<1>3. d * (-q) = -(d * q)
  BY <1>1
<1>4. n <= d * (-q)
  BY <1>1, <1>3
<1>5. ASSUME -q <= 0 PROVE FALSE
  <2>1. d * (-q) <= d * 0
    BY <1>1, <1>5
  <2>2. d * 0 = 0 /\ d * (-q) \in Int /\ n > 0
    BY <1>1
  <2> QED BY <1>4, <2>1, <2>2
<1> QED BY <1>1, <1>2, <1>4, <1>5

Scales ==
  /\ Units \in Nat \ {0} /\ Padding \in Nat /\ Dpi \in Nat \ {0} /\ CheckDpi \in Nat \ {0}
  /\ Grain \in Nat \ {0}

LEMMA ScalesHold == Scales
BY DEF Scales

-----------------------------------------------------------------------------
(* What the sizes have to keep to.                                         *)

\* Half a unit of the page and half a pixel are less than a fraction of a pixel
\* more than the padding: 7000 pixels for words on whole pixels with the padding
\* of 3, and 5000 for any others.
UnitsFine ==
  \A s \in Sizes : LET limit == (Grain * (2 * Padding - 1) + 2) * Units IN
    Grain * s.width < limit /\ Grain * s.height < limit

\* A pixel of the check is narrower than the padding and half a pixel less.
CheckFine == Dpi <= (2 * Padding - 1) * CheckDpi

LEMMA Times ==
  ASSUME NEW m \in Int, NEW n \in Int, NEW k \in Nat, m <= n
  PROVE  m * k <= n * k /\ k * m <= k * n
OBVIOUS

-----------------------------------------------------------------------------
(* One dimension of a page.                                                *)

\* The two edges of a word in thousandths,
LEMMA EdgesNormalized ==
  ASSUME NEW first \in Nat, NEW last \in Nat, NEW extent \in Nat,
         first < last, last <= extent
  PROVE  LET e == NormalizedEdge(first, last, extent) IN
         /\ e[1] \in 0 .. Units - 1 /\ e[2] \in e[1] + 1 .. Units
         /\ 2 * (extent * e[1]) <= 2 * (Units * first) + extent
         /\ 2 * (Units * last) <= 2 * (extent * e[2]) + extent
<1> DEFINE f == Rounded(Units * first, extent)
           l == Rounded(Units * last, extent)
           low == Most(0, Least(Units - 1, f))
           high == Most(low + 1, Least(Units, l))
<1> USE ScalesHold DEF Scales
<1>1. Units * first \in Nat /\ Units * last \in Nat /\ extent > 0
  OBVIOUS
<1>2. /\ f \in Nat /\ 2 * (extent * f) <= 2 * (Units * first) + extent
      /\ l \in Nat /\ 2 * (Units * last) <= 2 * (extent * l) + extent
  BY <1>1, RoundedNear
<1>3. NormalizedEdge(first, last, extent) = <<low, high>>
  BY DEF NormalizedEdge
<1> HIDE DEF f, l
<1>4. low \in 0 .. Units - 1 /\ low <= f /\ high \in low + 1 .. Units
      /\ (high >= l \/ high = Units)
  BY <1>2 DEF Least, Most
<1> HIDE DEF low, high
<1>5. 2 * (extent * low) <= 2 * (Units * first) + extent
  <2>1. extent * low <= extent * f
    BY <1>2, <1>4, Times
  <2> QED BY <1>1, <1>2, <1>4, <2>1
<1>6. 2 * (Units * last) <= 2 * (extent * high) + extent
  <2>1. CASE high >= l
    <3>1. extent * l <= extent * high
      BY <1>2, <1>4, <2>1, Times
    <3> QED BY <1>1, <1>2, <1>4, <3>1
  <2>2. CASE high = Units
    <3>1. Units * last <= Units * extent
      BY Times
    <3> QED BY <1>1, <2>2, <3>1
  <2> QED BY <1>4, <2>1, <2>2
<1> QED BY <1>3, <1>4, <1>5, <1>6

\* and where they are painted.
NearEdge(low, extent) == Most(0, Rounded(low * extent, Units) - Padding)
FarEdge(high, extent) == Least(Least(extent, Rounded(high * extent, Units) + Padding) + 1, extent)

LEMMA EdgesPainted ==
  ASSUME NEW first \in Nat, NEW last \in Nat, NEW extent \in Nat,
         first < last, last <= Grain * extent,
         Grain * extent < (Grain * (2 * Padding - 1) + 2) * Units,
         NEW low \in 0 .. Units, NEW high \in 0 .. Units,
         2 * ((Grain * extent) * low) <= 2 * (Units * first) + Grain * extent,
         2 * (Units * last) <= 2 * ((Grain * extent) * high) + Grain * extent
  PROVE  Grain * NearEdge(low, extent) <= first /\ last <= Grain * FarEdge(high, extent)
<1> DEFINE l == Rounded(low * extent, Units)
           h == Rounded(high * extent, Units)
<1> USE ScalesHold DEF Scales
<1>1. low * extent \in Nat /\ high * extent \in Nat /\ Units \in Nat /\ Units > 0
  OBVIOUS
<1>2. /\ l \in Nat /\ 2 * (Units * l) <= 2 * (low * extent) + Units
      /\ h \in Nat /\ 2 * (high * extent) <= 2 * (Units * h) + Units
  <2>1. l \in Nat /\ 2 * (Units * l) <= 2 * (low * extent) + Units
    BY <1>1, RoundedNear, Zenon
  <2>2. h \in Nat /\ 2 * (high * extent) <= 2 * (Units * h) + Units
    BY <1>1, RoundedNear, Zenon
  <2> QED BY <2>1, <2>2
<1> HIDE DEF l, h
<1> DEFINE ge == Grain * extent
           gu == Grain * Units
           gup == gu * Padding
<1>3. ge \in Nat /\ gu \in Nat /\ gup \in Nat /\ ge < 2 * gup - gu + 2 * Units
  <2>1. (Grain * (2 * Padding - 1) + 2) * Units = 2 * gup - gu + 2 * Units
    OBVIOUS
  <2>2. ge < (Grain * (2 * Padding - 1) + 2) * Units
    OBVIOUS
  <2>3. ge \in Nat /\ gu \in Nat /\ gup \in Nat
    OBVIOUS
  <2> HIDE DEF ge, gu, gup
  <2> QED BY <2>1, <2>2, <2>3
<1>4. /\ ge * low \in Nat /\ 2 * (gu * l) <= 2 * (ge * low) + gu
      /\ ge * high \in Nat /\ 2 * (ge * high) <= 2 * (gu * h) + gu
      /\ gu * l \in Nat /\ gu * h \in Nat
  <2>1. Grain * (2 * (Units * l)) <= Grain * (2 * (low * extent) + Units)
    <3>1. 2 * (Units * l) \in Int /\ 2 * (low * extent) + Units \in Int
      BY <1>2
    <3> QED BY <1>2, <3>1, Times
  <2>2. Grain * (2 * (high * extent)) <= Grain * (2 * (Units * h) + Units)
    <3>1. 2 * (Units * h) + Units \in Int /\ 2 * (high * extent) \in Int
      BY <1>2
    <3> QED BY <1>2, <3>1, Times
  <2>3. /\ Grain * (2 * (Units * l)) = 2 * (gu * l) /\ Grain * (2 * (Units * h) + Units) = 2 * (gu * h) + gu
        /\ Grain * (2 * (low * extent) + Units) = 2 * (ge * low) + gu
        /\ Grain * (2 * (high * extent)) = 2 * (ge * high)
    BY <1>2
  <2>4. ge * low \in Nat /\ ge * high \in Nat /\ gu * l \in Nat /\ gu * h \in Nat
    BY <1>2
  <2> QED BY <2>1, <2>2, <2>3, <2>4
<1>5. /\ Units * first \in Nat /\ 2 * (ge * low) <= 2 * (Units * first) + ge
      /\ Units * last \in Nat /\ 2 * (Units * last) <= 2 * (ge * high) + ge
  OBVIOUS
<1>6. Grain * (l - Padding) <= first
  <2> SUFFICES ASSUME first + 1 <= Grain * (l - Padding) PROVE FALSE
    BY <1>2
  <2>1. Units * (first + 1) <= Units * (Grain * (l - Padding))
    <3>1. Grain * (l - Padding) \in Int
      BY <1>2
    <3> QED BY <3>1, Times
  <2>2. Units * (first + 1) = Units * first + Units /\ Units * (Grain * (l - Padding)) = gu * l - gup
    BY <1>2
  <2> HIDE DEF ge, gu, gup
  <2> QED BY <1>3, <1>4, <1>5, <2>1, <2>2
<1>7. last <= Grain * (h + Padding + 1)
  <2> SUFFICES ASSUME Grain * (h + Padding + 1) + 1 <= last PROVE FALSE
    BY <1>2
  <2>1. Units * (Grain * (h + Padding + 1) + 1) <= Units * last
    <3>1. Grain * (h + Padding + 1) + 1 \in Int
      BY <1>2
    <3> QED BY <3>1, Times
  <2>2. Units * (Grain * (h + Padding + 1) + 1) = gu * h + gup + gu + Units
    BY <1>2
  <2> HIDE DEF ge, gu, gup
  <2> QED BY <1>3, <1>4, <1>5, <2>1, <2>2
<1>8. /\ NearEdge(low, extent) = 0 \/ NearEdge(low, extent) = l - Padding
      /\ FarEdge(high, extent) = extent \/ FarEdge(high, extent) = h + Padding + 1
  BY <1>2 DEF NearEdge, FarEdge, Least, Most, l, h
<1>9. Grain * 0 = 0
  OBVIOUS
<1> QED BY <1>6, <1>7, <1>8, <1>9

\* An edge of the paint and an edge of the check near the same place x of the
\* page: the paint is k half pixels beyond it.
LEMMA Below ==
  ASSUME NEW W \in Nat, NEW C \in Nat, NEW x \in Nat, NEW a \in Int, NEW c \in Int, NEW k \in Int,
         2 * (Units * a) + Units * k <= 2 * (x * W), 2 * (x * C) <= 2 * (Units * c) + Units,
         W <= k * C
  PROVE  a * C <= c * W
<1> USE ScalesHold DEF Scales
<1>1. (2 * (Units * a) + Units * k) * C <= (2 * (x * W)) * C
  <2>1. 2 * (Units * a) + Units * k \in Int /\ 2 * (x * W) \in Int
    OBVIOUS
  <2> QED BY <2>1, Times
<1>2. (2 * (x * C)) * W <= (2 * (Units * c) + Units) * W
  <2>1. 2 * (Units * c) + Units \in Int /\ 2 * (x * C) \in Int
    OBVIOUS
  <2> QED BY <2>1, Times
<1>3. Units * W <= Units * (k * C)
  <2>1. k * C \in Int
    OBVIOUS
  <2> QED BY <2>1, Times
<1>4. Units * (a * C) <= Units * (c * W)
  BY <1>1, <1>2, <1>3
<1>5. ASSUME c * W + 1 <= a * C PROVE FALSE
  <2>1. Units * (c * W + 1) <= Units * (a * C)
    <3>1. c * W + 1 \in Int /\ a * C \in Int
      OBVIOUS
    <3> QED BY <1>5, <3>1, Times
  <2>2. Units * (c * W + 1) = Units * (c * W) + Units
    OBVIOUS
  <2>3. Units * (c * W) \in Int /\ Units * (a * C) \in Int
    OBVIOUS
  <2> QED BY <1>4, <2>1, <2>2, <2>3
<1> QED BY <1>5

LEMMA Beyond ==
  ASSUME NEW W \in Nat, NEW C \in Nat, NEW x \in Nat, NEW a \in Int, NEW c \in Int, NEW k \in Int,
         2 * (x * W) + Units * k <= 2 * (Units * a), 2 * (Units * c) <= 2 * (x * C) + Units,
         W <= k * C
  PROVE  c * W <= a * C
<1> USE ScalesHold DEF Scales
<1>1. (2 * (x * W) + Units * k) * C <= (2 * (Units * a)) * C
  <2>1. 2 * (x * W) + Units * k \in Int /\ 2 * (Units * a) \in Int
    OBVIOUS
  <2> QED BY <2>1, Times
<1>2. (2 * (Units * c)) * W <= (2 * (x * C) + Units) * W
  <2>1. 2 * (x * C) + Units \in Int /\ 2 * (Units * c) \in Int
    OBVIOUS
  <2> QED BY <2>1, Times
<1>3. Units * W <= Units * (k * C)
  <2>1. k * C \in Int
    OBVIOUS
  <2> QED BY <2>1, Times
<1>4. Units * (c * W) <= Units * (a * C)
  BY <1>1, <1>2, <1>3
<1>5. ASSUME a * C + 1 <= c * W PROVE FALSE
  <2>1. Units * (a * C + 1) <= Units * (c * W)
    <3>1. a * C + 1 \in Int /\ c * W \in Int
      OBVIOUS
    <3> QED BY <1>5, <3>1, Times
  <2>2. Units * (a * C + 1) = Units * (a * C) + Units
    OBVIOUS
  <2>3. Units * (c * W) \in Int /\ Units * (a * C) \in Int
    OBVIOUS
  <2> QED BY <1>4, <2>1, <2>2, <2>3
<1> QED BY <1>5

\* The edges the check looks between, of a place x on a page of this many pixels.
SeenNear(x, pixels) == Most(0, Rounded(x * pixels, Units) - 0)
SeenFar(x, pixels)  == Least(pixels, Rounded(x * pixels, Units) + 0)

LEMMA EdgesSeen ==
  ASSUME NEW W \in Nat, NEW C \in Nat, W <= (2 * Padding - 1) * C,
         NEW low \in 0 .. Units, NEW high \in 0 .. Units
  PROVE  /\ NearEdge(low, W) * C <= SeenNear(low, C) * W
         /\ SeenFar(high, C) * W <= FarEdge(high, W) * C
         /\ (W - FarEdge(high, W)) * C <= SeenNear(Units - high, C) * W
         /\ SeenFar(Units - low, C) * W <= (W - NearEdge(low, W)) * C
<1> USE ScalesHold DEF Scales
<1> DEFINE k == 2 * Padding - 1
           l == Rounded(low * W, Units)
           h == Rounded(high * W, Units)
           near == NearEdge(low, W)
           far == FarEdge(high, W)
<1>1. \A x \in 0 .. Units, n \in Nat :
        /\ Rounded(x * n, Units) \in Nat
        /\ 2 * (Units * Rounded(x * n, Units)) <= 2 * (x * n) + Units
        /\ 2 * (x * n) <= 2 * (Units * Rounded(x * n, Units)) + Units
  <2> SUFFICES ASSUME NEW x \in 0 .. Units, NEW n \in Nat
               PROVE  /\ Rounded(x * n, Units) \in Nat
                      /\ 2 * (Units * Rounded(x * n, Units)) <= 2 * (x * n) + Units
                      /\ 2 * (x * n) <= 2 * (Units * Rounded(x * n, Units)) + Units
    OBVIOUS
  <2>1. x * n \in Nat /\ Units \in Nat /\ Units > 0
    OBVIOUS
  <2> QED BY <2>1, RoundedNear, Zenon
<1>2. \A x \in 0 .. Units :
        /\ SeenNear(x, C) \in Nat /\ 2 * (x * C) <= 2 * (Units * SeenNear(x, C)) + Units
        /\ SeenFar(x, C) \in Nat /\ SeenFar(x, C) <= C
        /\ 2 * (Units * SeenFar(x, C)) <= 2 * (x * C) + Units
  <2> SUFFICES ASSUME NEW x \in 0 .. Units
               PROVE  /\ SeenNear(x, C) \in Nat /\ 2 * (x * C) <= 2 * (Units * SeenNear(x, C)) + Units
                      /\ SeenFar(x, C) \in Nat /\ SeenFar(x, C) <= C
                      /\ 2 * (Units * SeenFar(x, C)) <= 2 * (x * C) + Units
    OBVIOUS
  <2> DEFINE r == Rounded(x * C, Units)
  <2>1. r \in Nat /\ 2 * (Units * r) <= 2 * (x * C) + Units /\ 2 * (x * C) <= 2 * (Units * r) + Units
    BY <1>1
  <2> HIDE DEF r
  <2>2. SeenNear(x, C) = r
    BY <2>1 DEF SeenNear, Most, r
  <2>3. SeenFar(x, C) \in Nat /\ SeenFar(x, C) <= C /\ SeenFar(x, C) <= r
    BY <2>1 DEF SeenFar, Least, r
  <2>4. Units * SeenFar(x, C) <= Units * r
    BY <2>1, <2>3, Times
  <2>5. Units * SeenFar(x, C) \in Int /\ Units * r \in Int /\ x * C \in Int
    BY <2>1, <2>3
  <2> QED BY <2>1, <2>2, <2>3, <2>4, <2>5
<1>3. l \in Nat /\ 2 * (Units * l) <= 2 * (low * W) + Units
  BY <1>1
<1>4. h \in Nat /\ 2 * (high * W) <= 2 * (Units * h) + Units
  BY <1>1
<1> HIDE DEF l, h
<1>5. near \in Nat /\ (near = 0 \/ near = l - Padding)
  BY <1>3 DEF NearEdge, Most, l
<1>6. far \in Nat /\ far <= W /\ (far = W \/ far = h + Padding + 1)
  BY <1>4 DEF FarEdge, Least, h
<1>7. near = l - Padding => 2 * (Units * near) + Units * k <= 2 * (low * W)
  <2> SUFFICES ASSUME near = l - Padding PROVE 2 * (Units * near) + Units * k <= 2 * (low * W)
    OBVIOUS
  <2>1. Units * (l - Padding) = Units * l - Units * Padding
    BY <1>3
  <2>2. Units * k = 2 * (Units * Padding) - Units
    OBVIOUS
  <2>3. Units * l \in Int /\ Units * Padding \in Int /\ low * W \in Int
    BY <1>3
  <2> QED BY <1>3, <2>1, <2>2, <2>3
<1>8. far = h + Padding + 1 => 2 * (high * W) + Units * k <= 2 * (Units * far)
  <2> SUFFICES ASSUME far = h + Padding + 1 PROVE 2 * (high * W) + Units * k <= 2 * (Units * far)
    OBVIOUS
  <2>1. Units * (h + Padding + 1) = Units * h + Units * Padding + Units
    BY <1>4
  <2>2. Units * k = 2 * (Units * Padding) - Units
    OBVIOUS
  <2>3. Units * h \in Int /\ Units * Padding \in Int /\ high * W \in Int
    BY <1>4
  <2> QED BY <1>4, <2>1, <2>2, <2>3
<1>9. k \in Int /\ W <= k * C /\ Units - low \in 0 .. Units /\ Units - high \in 0 .. Units
  OBVIOUS
<1> HIDE DEF k, near, far
<1>10. near * C <= SeenNear(low, C) * W
  <2>1. CASE near = 0
    <3>1. SeenNear(low, C) * W \in Nat
      BY <1>2
    <3> QED BY <2>1, <3>1
  <2>2. CASE near = l - Padding
    <3>1. low \in Nat /\ near \in Int /\ SeenNear(low, C) \in Int
      BY <1>2, <1>5
    <3>2. 2 * (low * C) <= 2 * (Units * SeenNear(low, C)) + Units
      BY <1>2
    <3> QED BY <1>7, <1>9, <2>2, <3>1, <3>2, Below, Zenon
  <2> QED BY <1>5, <2>1, <2>2
<1>11. SeenFar(high, C) * W <= far * C
  <2>1. CASE far = W
    <3>1. SeenFar(high, C) * W <= C * W
      BY <1>2, Times
    <3> QED BY <2>1, <3>1
  <2>2. CASE far = h + Padding + 1
    <3>1. high \in Nat /\ far \in Int /\ SeenFar(high, C) \in Int
      BY <1>2, <1>6
    <3>2. 2 * (Units * SeenFar(high, C)) <= 2 * (high * C) + Units
      BY <1>2
    <3> QED BY <1>8, <1>9, <2>2, <3>1, <3>2, Beyond, Zenon
  <2> QED BY <1>6, <2>1, <2>2
<1>12. (W - far) * C <= SeenNear(Units - high, C) * W
  <2>1. CASE far = W
    <3>1. SeenNear(Units - high, C) * W \in Nat
      BY <1>2, <1>9
    <3> QED BY <2>1, <3>1
  <2>2. CASE far = h + Padding + 1
    <3>1. Units * (W - far) = Units * W - Units * far /\ (Units - high) * W = Units * W - high * W
      BY <1>6
    <3>2. /\ Units * W \in Int /\ Units * far \in Int /\ high * W \in Int /\ Units * k \in Int
          /\ W - far \in Int
      BY <1>6, <1>9
    <3>3. 2 * (Units * (W - far)) + Units * k <= 2 * ((Units - high) * W)
      BY <1>8, <2>2, <3>1, <3>2
    <3>4. Units - high \in Nat /\ SeenNear(Units - high, C) \in Int
      BY <1>2, <1>9
    <3>5. 2 * ((Units - high) * C) <= 2 * (Units * SeenNear(Units - high, C)) + Units
      BY <1>2, <1>9
    <3> QED BY <1>9, <3>2, <3>3, <3>4, <3>5, Below, Zenon
  <2> QED BY <1>6, <2>1, <2>2
<1>13. SeenFar(Units - low, C) * W <= (W - near) * C
  <2>1. CASE near = 0
    <3>1. SeenFar(Units - low, C) * W <= C * W
      BY <1>2, <1>9, Times
    <3> QED BY <2>1, <3>1
  <2>2. CASE near = l - Padding
    <3>1. Units * (W - near) = Units * W - Units * near /\ (Units - low) * W = Units * W - low * W
      BY <1>5
    <3>2. /\ Units * W \in Int /\ Units * near \in Int /\ low * W \in Int /\ Units * k \in Int
          /\ W - near \in Int
      BY <1>5, <1>9
    <3>3. 2 * ((Units - low) * W) + Units * k <= 2 * (Units * (W - near))
      BY <1>7, <2>2, <3>1, <3>2
    <3>4. Units - low \in Nat /\ SeenFar(Units - low, C) \in Int
      BY <1>2, <1>9
    <3>5. 2 * (Units * SeenFar(Units - low, C)) <= 2 * ((Units - low) * C) + Units
      BY <1>2, <1>9
    <3> QED BY <1>9, <3>2, <3>3, <3>4, <3>5, Beyond, Zenon
  <2> QED BY <1>5, <2>1, <2>2
<1> QED BY <1>10, <1>11, <1>12, <1>13 DEF near, far

-----------------------------------------------------------------------------
(* Both dimensions, through the four rotations.                            *)

\* What is painted and looked at is where the box puts it.
GeometryInv ==
  /\ size \in Sizes /\ rotation \in {0, 90, 180, 270}
  /\ word \in Area(Fine(size).width, Fine(size).height) /\ box = NormalizedBox(word, Fine(size))
  /\ verdict \in {"found", "painted", "degenerate", "empty", "checked"}
  /\ verdict # "found" => painted =
       TurnPixels(Rectangle(PixelBox(box, size.width, size.height, Padding), size), size, rotation)
  /\ verdict = "checked" => crop =
       LET s == TurnedSize(size, rotation) IN
         PixelBox(RotateBox(box, rotation), CheckPixels(s.width), CheckPixels(s.height), 0)

LEMMA GeometryKept == GeometrySpec => []GeometryInv
<1>1. GeometryInit => GeometryInv
  BY DEF GeometryInit, GeometryInv
<1>2. GeometryInv /\ [GeometryNext]_geometryVars => GeometryInv'
  <2> SUFFICES ASSUME GeometryInv, [GeometryNext]_geometryVars PROVE GeometryInv'
    OBVIOUS
  <2>1. CASE Paint
    BY <2>1 DEF Paint, GeometryInv
  <2>2. CASE Check
    BY <2>2 DEF Check, GeometryInv
  <2>3. CASE UNCHANGED geometryVars
    BY <2>3 DEF geometryVars, GeometryInv
  <2> QED BY <2>1, <2>2, <2>3 DEF GeometryNext
<1> QED BY <1>1, <1>2, PTL DEF GeometrySpec

\* The paint before the page is turned.
Unturned == Rectangle(PixelBox(box, size.width, size.height, Padding), size)

LEMMA PaintHasEdges ==
  /\ Unturned.x1 = NearEdge(box.x1, size.width) /\ Unturned.x2 = FarEdge(box.x2, size.width)
  /\ Unturned.y1 = NearEdge(box.y1, size.height) /\ Unturned.y2 = FarEdge(box.y2, size.height)
<1> DEFINE p == PixelBox(box, size.width, size.height, Padding)
<1>1. /\ p.x1 = NearEdge(box.x1, size.width) /\ p.y1 = NearEdge(box.y1, size.height)
      /\ Least(p.x2 + 1, size.width) = FarEdge(box.x2, size.width)
      /\ Least(p.y2 + 1, size.height) = FarEdge(box.y2, size.height)
      /\ DOMAIN p = {"x1", "y1", "x2", "y2"}
  BY DEF PixelBox, NearEdge, FarEdge
<1>2. Unturned = [p EXCEPT !.x2 = Least(@ + 1, size.width), !.y2 = Least(@ + 1, size.height)]
  BY DEF Unturned, Rectangle
<1> HIDE DEF p
<1> QED BY <1>1, <1>2

LEMMA BoxHasEdges ==
  ASSUME GeometryInv
  PROVE  /\ size.width \in Nat \ {0} /\ size.height \in Nat \ {0} /\ size \in Sizes
         /\ word.x1 \in Nat /\ word.x2 \in Nat /\ word.x1 < word.x2 /\ word.x2 <= Grain * size.width
         /\ word.y1 \in Nat /\ word.y2 \in Nat /\ word.y1 < word.y2 /\ word.y2 <= Grain * size.height
         /\ box.x1 \in 0 .. Units - 1 /\ box.x2 \in box.x1 + 1 .. Units
         /\ box.y1 \in 0 .. Units - 1 /\ box.y2 \in box.y1 + 1 .. Units
         /\ 2 * ((Grain * size.width) * box.x1) <= 2 * (Units * word.x1) + Grain * size.width
         /\ 2 * (Units * word.x2) <= 2 * ((Grain * size.width) * box.x2) + Grain * size.width
         /\ 2 * ((Grain * size.height) * box.y1) <= 2 * (Units * word.y1) + Grain * size.height
         /\ 2 * (Units * word.y2) <= 2 * ((Grain * size.height) * box.y2) + Grain * size.height
<1>1. size.width \in Nat \ {0} /\ size.height \in Nat \ {0} /\ size \in Sizes
  BY DEF GeometryInv
<1>0. Fine(size).width = Grain * size.width /\ Fine(size).height = Grain * size.height
      /\ Grain * size.width \in Nat /\ Grain * size.height \in Nat
  BY <1>1, ScalesHold DEF Scales, Fine
<1>2. /\ word.x1 \in Nat /\ word.x2 \in Nat /\ word.x1 < word.x2 /\ word.x2 <= Grain * size.width
      /\ word.y1 \in Nat /\ word.y2 \in Nat /\ word.y1 < word.y2 /\ word.y2 <= Grain * size.height
  BY <1>0 DEF GeometryInv, Area
<1>3. /\ box.x1 = NormalizedEdge(word.x1, word.x2, Grain * size.width)[1]
      /\ box.x2 = NormalizedEdge(word.x1, word.x2, Grain * size.width)[2]
      /\ box.y1 = NormalizedEdge(word.y1, word.y2, Grain * size.height)[1]
      /\ box.y2 = NormalizedEdge(word.y1, word.y2, Grain * size.height)[2]
  BY <1>0 DEF GeometryInv, NormalizedBox
<1>4. /\ box.x1 \in 0 .. Units - 1 /\ box.x2 \in box.x1 + 1 .. Units
      /\ 2 * ((Grain * size.width) * box.x1) <= 2 * (Units * word.x1) + Grain * size.width
      /\ 2 * (Units * word.x2) <= 2 * ((Grain * size.width) * box.x2) + Grain * size.width
  BY <1>0, <1>2, <1>3, EdgesNormalized
<1>5. /\ box.y1 \in 0 .. Units - 1 /\ box.y2 \in box.y1 + 1 .. Units
      /\ 2 * ((Grain * size.height) * box.y1) <= 2 * (Units * word.y1) + Grain * size.height
      /\ 2 * (Units * word.y2) <= 2 * ((Grain * size.height) * box.y2) + Grain * size.height
  BY <1>0, <1>2, <1>3, EdgesNormalized
<1> QED BY <1>1, <1>2, <1>4, <1>5

LEMMA WordIsPainted ==
  ASSUME UnitsFine, GeometryInv PROVE WordPainted
<1> SUFFICES ASSUME verdict # "found" PROVE WordPainted
  BY DEF WordPainted
<1>1. painted = TurnPixels(Unturned, size, rotation)
  BY DEF GeometryInv, Unturned
<1>2. /\ Grain * size.width < (Grain * (2 * Padding - 1) + 2) * Units
      /\ Grain * size.height < (Grain * (2 * Padding - 1) + 2) * Units
  BY DEF UnitsFine, GeometryInv
<1>3. box.x1 \in 0 .. Units /\ box.x2 \in 0 .. Units /\ box.y1 \in 0 .. Units /\ box.y2 \in 0 .. Units
  BY BoxHasEdges, ScalesHold DEF Scales
<1>4. Grain * NearEdge(box.x1, size.width) <= word.x1 /\ word.x2 <= Grain * FarEdge(box.x2, size.width)
  BY <1>2, <1>3, BoxHasEdges, EdgesPainted
<1>5. Grain * NearEdge(box.y1, size.height) <= word.y1 /\ word.y2 <= Grain * FarEdge(box.y2, size.height)
  BY <1>2, <1>3, BoxHasEdges, EdgesPainted
<1>6. /\ Grain * Unturned.x1 <= word.x1 /\ word.x2 <= Grain * Unturned.x2
      /\ Grain * Unturned.y1 <= word.y1 /\ word.y2 <= Grain * Unturned.y2
  BY <1>4, <1>5, PaintHasEdges
<1>7. /\ Unturned.x1 \in Int /\ Unturned.x2 \in Int /\ Unturned.y1 \in Int /\ Unturned.y2 \in Int
  <2>1. \A x \in 0 .. Units, n \in Nat : Rounded(x * n, Units) \in Nat
    <3> SUFFICES ASSUME NEW x \in 0 .. Units, NEW n \in Nat PROVE Rounded(x * n, Units) \in Nat
      OBVIOUS
    <3>1. x * n \in Nat /\ Units \in Nat /\ Units > 0
      BY ScalesHold DEF Scales
    <3> QED BY <3>1, RoundedNear, Zenon
  <2> QED BY <1>3, <2>1, BoxHasEdges, PaintHasEdges, ScalesHold DEF Scales, NearEdge, FarEdge, Least, Most
<1>8. rotation \in {0, 90, 180, 270}
  BY DEF GeometryInv
<1>9. /\ Grain * size.width \in Nat /\ Grain * size.height \in Nat
      /\ Fine(size) = [width |-> Grain * size.width, height |-> Grain * size.height]
      /\ \A m \in Nat, n \in Int : Grain * n \in Int /\ Grain * (m - n) = Grain * m - Grain * n
  BY BoxHasEdges, ScalesHold DEF Scales, Fine
<1>10. /\ Grain * (size.width - Unturned.x2) <= Grain * size.width - word.x2
       /\ Grain * size.width - word.x1 <= Grain * (size.width - Unturned.x1)
       /\ Grain * (size.height - Unturned.y2) <= Grain * size.height - word.y2
       /\ Grain * size.height - word.y1 <= Grain * (size.height - Unturned.y1)
  <2>1. /\ size.width \in Nat /\ size.height \in Nat
        /\ word.x1 \in Nat /\ word.x2 \in Nat /\ word.y1 \in Nat /\ word.y2 \in Nat
    BY BoxHasEdges
  <2>2. /\ Grain * (size.width - Unturned.x2) = Grain * size.width - Grain * Unturned.x2
        /\ Grain * (size.width - Unturned.x1) = Grain * size.width - Grain * Unturned.x1
        /\ Grain * (size.height - Unturned.y2) = Grain * size.height - Grain * Unturned.y2
        /\ Grain * (size.height - Unturned.y1) = Grain * size.height - Grain * Unturned.y1
    BY <1>7, <1>9, <2>1
  <2>3. /\ Grain * Unturned.x1 \in Int /\ Grain * Unturned.x2 \in Int
        /\ Grain * Unturned.y1 \in Int /\ Grain * Unturned.y2 \in Int
        /\ Grain * size.width \in Nat /\ Grain * size.height \in Nat
    BY <1>7, <1>9, <2>1
  <2> QED BY <1>6, <2>1, <2>2, <2>3
<1> QED BY <1>1, <1>6, <1>8, <1>9, <1>10 DEF WordPainted, TurnPixels

LEMMA ChecksSharp ==
  ASSUME CheckFine, NEW n \in Nat \ {0}
  PROVE  CheckPixels(n) \in Nat \ {0} /\ n <= (2 * Padding - 1) * CheckPixels(n)
<1> USE ScalesHold DEF Scales
<1> DEFINE C == CheckPixels(n)
<1>1. n * CheckDpi \in Nat \ {0} /\ Dpi \in Nat /\ Dpi > 0
  OBVIOUS
<1>2. C \in Nat \ {0} /\ n * CheckDpi <= Dpi * C
  BY <1>1, CeilingAbove DEF CheckPixels
<1> HIDE DEF C
<1>3. Dpi * C <= ((2 * Padding - 1) * CheckDpi) * C
  BY <1>2, Times DEF CheckFine
<1>4. n * CheckDpi <= ((2 * Padding - 1) * C) * CheckDpi
  BY <1>2, <1>3
<1>5. ASSUME (2 * Padding - 1) * C + 1 <= n PROVE FALSE
  <2>1. ((2 * Padding - 1) * C + 1) * CheckDpi <= n * CheckDpi
    <3>1. (2 * Padding - 1) * C + 1 \in Int
      BY <1>2
    <3> QED BY <1>5, <3>1, Times
  <2>2. ((2 * Padding - 1) * C + 1) * CheckDpi = ((2 * Padding - 1) * C) * CheckDpi + CheckDpi
    BY <1>2
  <2>3. ((2 * Padding - 1) * C) * CheckDpi \in Int /\ n * CheckDpi \in Int
    BY <1>2
  <2> QED BY <1>4, <2>1, <2>2, <2>3
<1>6. (2 * Padding - 1) * C \in Int
  BY <1>2
<1> QED BY <1>2, <1>5, <1>6 DEF C

LEMMA CheckIsSharp ==
  ASSUME CheckFine, GeometryInv PROVE CheckSeesPaint
<1> SUFFICES ASSUME verdict = "checked" PROVE CheckSeesPaint
  BY DEF CheckSeesPaint
<1> DEFINE s == TurnedSize(size, rotation)
           b == RotateBox(box, rotation)
           cw == CheckPixels(s.width)
           ch == CheckPixels(s.height)
           W == size.width
           H == size.height
<1>1. painted = TurnPixels(Unturned, size, rotation)
  BY DEF GeometryInv, Unturned
<1>2. crop = [x1 |-> SeenNear(b.x1, cw), y1 |-> SeenNear(b.y1, ch),
              x2 |-> SeenFar(b.x2, cw), y2 |-> SeenFar(b.y2, ch)]
  BY DEF GeometryInv, PixelBox, SeenNear, SeenFar
<1>3. box.x1 \in 0 .. Units /\ box.x2 \in 0 .. Units /\ box.y1 \in 0 .. Units /\ box.y2 \in 0 .. Units
  BY BoxHasEdges, ScalesHold DEF Scales
<1>4. W \in Nat \ {0} /\ H \in Nat \ {0}
  BY BoxHasEdges
<1>5. /\ CheckPixels(W) \in Nat /\ W <= (2 * Padding - 1) * CheckPixels(W)
      /\ CheckPixels(H) \in Nat /\ H <= (2 * Padding - 1) * CheckPixels(H)
  BY <1>4, ChecksSharp
<1>6. LET C == CheckPixels(W) IN
      /\ Unturned.x1 * C <= SeenNear(box.x1, C) * W
      /\ SeenFar(box.x2, C) * W <= Unturned.x2 * C
      /\ (W - Unturned.x2) * C <= SeenNear(Units - box.x2, C) * W
      /\ SeenFar(Units - box.x1, C) * W <= (W - Unturned.x1) * C
  BY <1>3, <1>4, <1>5, EdgesSeen, PaintHasEdges
<1>7. LET C == CheckPixels(H) IN
      /\ Unturned.y1 * C <= SeenNear(box.y1, C) * H
      /\ SeenFar(box.y2, C) * H <= Unturned.y2 * C
      /\ (H - Unturned.y2) * C <= SeenNear(Units - box.y2, C) * H
      /\ SeenFar(Units - box.y1, C) * H <= (H - Unturned.y1) * C
  BY <1>3, <1>4, <1>5, EdgesSeen, PaintHasEdges
<1> DEFINE Sees ==
      /\ painted.x1 * cw <= crop.x1 * s.width  /\ crop.x2 * s.width  <= painted.x2 * cw
      /\ painted.y1 * ch <= crop.y1 * s.height /\ crop.y2 * s.height <= painted.y2 * ch
<1>8. Sees
  <2>1. CASE rotation = 0
    <3>1. painted = Unturned /\ b = box /\ s = size
      BY <1>1, <2>1 DEF TurnPixels, RotateBox, TurnedSize
    <3> QED BY <1>2, <1>6, <1>7, <3>1
  <2>2. CASE rotation = 90
    <3>1. /\ s.width = H /\ s.height = W
          /\ painted.x1 = H - Unturned.y2 /\ painted.y1 = Unturned.x1
          /\ painted.x2 = H - Unturned.y1 /\ painted.y2 = Unturned.x2
          /\ b.x1 = Units - box.y2 /\ b.y1 = box.x1 /\ b.x2 = Units - box.y1 /\ b.y2 = box.x2
      BY <1>1, <2>2 DEF TurnPixels, RotateBox, TurnedSize
    <3> QED BY <1>2, <1>6, <1>7, <3>1
  <2>3. CASE rotation = 180
    <3>1. /\ s = size
          /\ painted.x1 = W - Unturned.x2 /\ painted.y1 = H - Unturned.y2
          /\ painted.x2 = W - Unturned.x1 /\ painted.y2 = H - Unturned.y1
          /\ b.x1 = Units - box.x2 /\ b.y1 = Units - box.y2
          /\ b.x2 = Units - box.x1 /\ b.y2 = Units - box.y1
      BY <1>1, <2>3 DEF TurnPixels, RotateBox, TurnedSize
    <3> QED BY <1>2, <1>6, <1>7, <3>1
  <2>4. CASE rotation = 270
    <3>1. /\ s.width = H /\ s.height = W
          /\ painted.x1 = Unturned.y1 /\ painted.y1 = W - Unturned.x2
          /\ painted.x2 = Unturned.y2 /\ painted.y2 = W - Unturned.x1
          /\ b.x1 = box.y1 /\ b.y1 = Units - box.x2 /\ b.x2 = box.y2 /\ b.y2 = Units - box.x1
      BY <1>1, <2>4 DEF TurnPixels, RotateBox, TurnedSize
    <3> QED BY <1>2, <1>6, <1>7, <3>1
  <2> QED BY <2>1, <2>2, <2>3, <2>4 DEF GeometryInv
<1> QED BY <1>8 DEF CheckSeesPaint

\* On any page of less than (2 * Padding + 1) * Units pixels a side, at any rotation
\* and with a check of a resolution near the raster's: the painted pixels cover the
\* word its box was made for, and what the check looks at is painted (_normalized_box,
\* redact_image, validate_flattened_pdf).
THEOREM WordsAreHidden ==
  ASSUME UnitsFine, CheckFine PROVE GeometrySpec => []GeometrySafe
<1>1. GeometryInv => GeometrySafe
  <2> SUFFICES ASSUME GeometryInv PROVE GeometryTypeOK
    BY WordIsPainted, CheckIsSharp DEF GeometrySafe
  <2> QED BY BoxHasEdges DEF GeometryTypeOK, GeometryInv
<1> QED BY <1>1, GeometryKept, PTL

=============================================================================
