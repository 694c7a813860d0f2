---------------------------- MODULE CorpusSample ----------------------------
(***************************************************************************)
(* The fixed sample of the evaluation (evaluation/corpus.py, build_sample):*)
(* the readable documents of the corpus fall into strata; _allocate shares *)
(* the sample out among the strata, and then the tuning split among the    *)
(* strata of the sample.  Both times each stratum first gets its share     *)
(* rounded down, and what remains is given one by one.                     *)
(***************************************************************************)
EXTENDS Integers, FiniteSets, Functions

CONSTANTS
  Stratum, \* a page band and a kind of text
  MaxSize  \* bound: documents in a stratum

ASSUME SampleAssumption ==
  IsFiniteSet(Stratum) /\ Stratum # {} /\ MaxSize \in Nat \ {0}

VARIABLES
  count,       \* documents to sample
  tuning,      \* documents of the sample to tune on
  phase,       \* what is being shared out, or how it ended
  stratumSize, \* what each stratum could give
  allocated,   \* what it gives so far
  visited      \* strata the present round has been through

sampleVars == <<count, tuning, phase, stratumSize, allocated, visited>>

SampleTypeOK ==
  /\ count \in 1 .. MaxSize * Cardinality(Stratum) /\ tuning \in 1 .. count - 1
  /\ phase \in {"sample", "split", "done", "failed"}
  /\ stratumSize \in [Stratum -> 0 .. MaxSize] /\ allocated \in [Stratum -> 0 .. MaxSize]
  /\ visited \subseteq Stratum

Total == IF phase = "sample" THEN count ELSE tuning
Remaining == Total - SumFunction(allocated)

\* A share is its whole part and what is left over, in units of 1/population.
Whole(s, sizes, total)    == (total * sizes[s]) \div SumFunction(sizes)
Leftover(s, sizes, total) == (total * sizes[s]) % SumFunction(sizes)

Floors(sizes, total) == [s \in Stratum |-> Whole(s, sizes, total)]

SampleInit ==
  /\ stratumSize \in [Stratum -> 0 .. MaxSize]
  /\ count \in 1 .. SumFunction(stratumSize) /\ tuning \in 1 .. count - 1
  /\ phase = "sample"
  /\ allocated = Floors(stratumSize, count)
  /\ visited = {}

\* The strata by what is left over of their shares.  Shares are floating-point
\* numbers, so those left with the same come in any order.
NextInOrder(s) ==
  /\ s \notin visited
  /\ \A r \in Stratum \ visited : Leftover(r, stratumSize, Total) <= Leftover(s, stratumSize, Total)

Room(s) == allocated[s] < stratumSize[s]

\* One document more for the next stratum, if it has one.  After the last the
\* round starts again, unless no stratum has any left.
VisitStratum(s) ==
  /\ phase \in {"sample", "split"} /\ Remaining # 0 /\ NextInOrder(s)
  /\ allocated' = [allocated EXCEPT ![s] = IF Room(s) THEN @ + 1 ELSE @]
  /\ LET over == visited \cup {s} = Stratum IN
       /\ visited' = IF over THEN {} ELSE visited \cup {s}
       /\ phase' = IF over /\ Remaining' # 0 /\ \A r \in Stratum : ~ Room(r)'
                    THEN "failed" ELSE phase
  /\ UNCHANGED <<count, tuning, stratumSize>>

\* Mutant: the split is taken from the corpus and not from the sample.
SplitCorpus ==
  /\ phase = "sample" /\ Remaining = 0
  /\ phase' = "split"
  /\ allocated' = Floors(stratumSize, tuning) /\ visited' = {}
  /\ UNCHANGED <<count, tuning, stratumSize>>

\* The sample is taken; its strata are what the split is taken from.
Split ==
  /\ phase = "sample" /\ Remaining = 0
  /\ phase' = "split" /\ stratumSize' = allocated
  /\ allocated' = Floors(allocated, tuning) /\ visited' = {}
  /\ UNCHANGED <<count, tuning>>

Finish ==
  /\ phase = "split" /\ Remaining = 0
  /\ phase' = "done"
  /\ UNCHANGED <<count, tuning, stratumSize, allocated, visited>>

SampleNext == (\E s \in Stratum : VisitStratum(s)) \/ Split \/ Finish

SampleSpec == SampleInit /\ [][SampleNext]_sampleVars

-----------------------------------------------------------------------------

\* No stratum is asked for more documents than it has, and the tuning split is
\* neither too large nor too small.
SplitExact ==
  /\ \A s \in Stratum : allocated[s] <= stratumSize[s]
  /\ phase = "done" => SumFunction(allocated) = tuning /\ SumFunction(stratumSize) = count

\* Every stratum gets its share rounded down or up: one round is enough, and
\* the error at the end of the loop is never raised.
Proportional ==
  /\ phase # "failed"
  /\ \A s \in Stratum :
       /\ allocated[s] >= Whole(s, stratumSize, Total)
       /\ allocated[s] <= Whole(s, stratumSize, Total) + (IF Leftover(s, stratumSize, Total) = 0 THEN 0 ELSE 1)

\* build_sample and its split: the sizes asked for, each stratum with its share.
SampleSafe == SampleTypeOK /\ SplitExact /\ Proportional
=============================================================================
