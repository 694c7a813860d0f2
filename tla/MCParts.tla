------------------------------- MODULE MCParts -------------------------------
(***************************************************************************)
(* The self-contained parts of the service for TLC: loading a document,    *)
(* anchoring a value, the SSN net, merging, painting, the abuse limits,    *)
(* sampling and sharding a corpus.  They share nothing: a behaviour is one *)
(* of one part while the others rest.                                      *)
(***************************************************************************)
EXTENDS LoadDocument, PageAnchors, SsnNet, MergeDetections, RedactionGeometry,
        AbuseLimits, CorpusSample, ShardPlan

VARIABLE part \* whose behaviour it is

\* Sizes of pages, small enough that every word on them is tried.
Portrait == {[width |-> 11, height |-> 3], [width |-> 4, height |-> 10]}

\* Letters are interchangeable.
Symmetry == Permutations(Letter)

\* Documents of too many pages, which are refused for their number, have pages
\* that are all alike; those of no more have any.
FewDocuments ==
  Len(file.pages) > MaxPages => \A i \in Index : file.pages[i] = file.pages[1]

\* Of as many words as a page may have one has no digit at most.
FewMasks ==
  Len(pieces) = MaxNetWords => Cardinality({i \in DOMAIN pieces : ~ pieces[i].digit}) <= 1

-----------------------------------------------------------------------------
(* Where the parts rest.                                                   *)

LoadRests ==
  /\ file = [kind |-> "image", agrees |-> TRUE, pages |-> <<>>] /\ ocr = TRUE
  /\ step = "document_empty" /\ layer = <<>> /\ counted = 0 /\ rendered = 0
  /\ toRead = {} /\ source = <<>>

AnchorRests ==
  words = <<>> /\ value = <<>> /\ long = {} /\ trying = "done" /\ index = 1 /\ found = {}

NetRests == pieces = <<>> /\ looking = 1 /\ used = {} /\ boxed = {}

MergeRests ==
  /\ input = [i \in Id |-> [group |-> 1, box |-> [x1 |-> 0, y1 |-> 0, x2 |-> 1, y2 |-> 1]]]
  /\ left = Id /\ merged = <<>>

GeometryRests ==
  /\ size = CHOOSE s \in Sizes : TRUE
  /\ word = [x1 |-> 0, y1 |-> 0, x2 |-> 1, y2 |-> 1] /\ box = NormalizedBox(word, Fine(size))
  /\ rotation = 0 /\ painted = Nothing /\ crop = Nothing /\ verdict = "found"

SampleRests ==
  /\ stratumSize = [s \in Stratum |-> 1] /\ count = 2 /\ tuning = 1 /\ phase = "sample"
  /\ allocated = [s \in Stratum |-> 0] /\ visited = {}

ShardRests ==
  /\ pages = [d \in Doc |-> 1] /\ placed = [d \in Doc |-> NoShard]
  /\ total = [i \in Shard |-> 0]

-----------------------------------------------------------------------------

Init ==
  /\ part \in {"load", "anchors", "net", "merge", "geometry", "limits", "sample", "shards"}
  /\ IF part = "load" THEN LoadInit /\ FewDocuments ELSE LoadRests
  /\ IF part = "anchors" THEN AnchorInit ELSE AnchorRests
  /\ IF part = "net" THEN NetInit /\ FewMasks ELSE NetRests
  /\ IF part = "merge" THEN MergeInit ELSE MergeRests
  /\ IF part = "geometry" THEN GeometryInit ELSE GeometryRests
  /\ IF part = "sample" THEN SampleInit ELSE SampleRests
  /\ IF part = "shards" THEN ShardInit ELSE ShardRests
  /\ LimitsInit

\* One part goes on, and the seven others rest.
Next ==
  \/ /\ part = "load" /\ LoadNext
     /\ UNCHANGED <<part, anchorVars, netVars, mergeVars, geometryVars, limitVars, sampleVars, shardVars>>
  \/ /\ part = "anchors" /\ AnchorNext
     /\ UNCHANGED <<part, loadVars, netVars, mergeVars, geometryVars, limitVars, sampleVars, shardVars>>
  \/ /\ part = "net" /\ LookAtWord
     /\ UNCHANGED <<part, loadVars, anchorVars, mergeVars, geometryVars, limitVars, sampleVars, shardVars>>
  \/ /\ part = "merge" /\ MergeNext
     /\ UNCHANGED <<part, loadVars, anchorVars, netVars, geometryVars, limitVars, sampleVars, shardVars>>
  \/ /\ part = "geometry" /\ GeometryNext
     /\ UNCHANGED <<part, loadVars, anchorVars, netVars, mergeVars, limitVars, sampleVars, shardVars>>
  \/ /\ part = "limits" /\ LimitsNext
     /\ UNCHANGED <<part, loadVars, anchorVars, netVars, mergeVars, geometryVars, sampleVars, shardVars>>
  \/ /\ part = "sample" /\ SampleNext
     /\ UNCHANGED <<part, loadVars, anchorVars, netVars, mergeVars, geometryVars, limitVars, shardVars>>
  \/ /\ part = "shards" /\ ShardNext
     /\ UNCHANGED <<part, loadVars, anchorVars, netVars, mergeVars, geometryVars, limitVars, sampleVars>>

Spec ==
  Init /\ [][Next]_<<part, loadVars, anchorVars, netVars, mergeVars, geometryVars, limitVars,
                    sampleVars, shardVars>>
=============================================================================
