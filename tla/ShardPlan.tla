----------------------------- MODULE ShardPlan ------------------------------
(***************************************************************************)
(* Shards of one split of the evaluation (evaluation/corpus.py,            *)
(* shard_manifest): the documents, longest first, each go to the shard     *)
(* with the fewest pages so far.                                           *)
(***************************************************************************)
EXTENDS Integers, FiniteSets

CONSTANTS
  Doc,         \* documents of the split
  Shards,      \* shard_count
  MaxDocPages, \* pages of the longest document
  NoShard      \* no shard

ASSUME ShardAssumption ==
  /\ IsFiniteSet(Doc)
  /\ Shards \in Nat \ {0} /\ Shards <= Cardinality(Doc)
  /\ MaxDocPages \in Nat \ {0}
  /\ NoShard \notin 1 .. Shards

Shard == 1 .. Shards

VARIABLES
  pages,  \* the page count of each document
  placed, \* the shard of each document
  total   \* page_totals

shardVars == <<pages, placed, total>>

ShardTypeOK ==
  /\ pages \in [Doc -> 1 .. MaxDocPages]
  /\ placed \in [Doc -> Shard \cup {NoShard}]
  /\ total \in [Shard -> Nat]

\* build_sample left out the documents without a page.
ShardInit ==
  /\ pages \in [Doc -> 1 .. MaxDocPages]
  /\ placed = [d \in Doc |-> NoShard]
  /\ total = [i \in Shard |-> 0]

Unplaced == {d \in Doc : placed[d] = NoShard}

\* Mutant: the documents come in the order of the manifest.
LongestAny(d) == d \in Unplaced

\* Documents as long as each other come in the order of their opaque ids.
Longest(d) == d \in Unplaced /\ \A e \in Unplaced : pages[e] <= pages[d]

Lightest(i) ==
  \A k \in Shard : total[i] < total[k] \/ (total[i] = total[k] /\ i <= k)

Place(d, i) ==
  /\ Longest(d) /\ Lightest(i)
  /\ placed' = [placed EXCEPT ![d] = i]
  /\ total' = [total EXCEPT ![i] = @ + pages[d]]
  /\ UNCHANGED pages

ShardNext == \E d \in Doc, i \in Shard : Place(d, i)

ShardSpec == ShardInit /\ [][ShardNext]_shardVars

-----------------------------------------------------------------------------

\* No document could be moved to another shard so that the fuller of the two
\* gets lighter: what shard_manifest balances by page count stays balanced.
NoMoveHelps ==
  \A d \in Doc : placed[d] # NoShard =>
    \A i \in Shard : total[placed[d]] - pages[d] <= total[i]

\* Every shard is a task of its own to pay for, and each has a document to do.
EveryShardWorks ==
  Unplaced = {} => \A i \in Shard : \E d \in Doc : placed[d] = i

\* shard_manifest: a balanced plan without an idle shard.
ShardSafe == ShardTypeOK /\ NoMoveHelps /\ EveryShardWorks
=============================================================================
