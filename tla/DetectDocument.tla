---------------------------- MODULE DetectDocument ----------------------------
(***************************************************************************)
(* Detection over a document (worker/detector.py, TextAnchoredDetector):   *)
(* a pool of threads asks the model page by page what is personal, the     *)
(* pages' answers are taken in page order, the first page that failed      *)
(* fails the document, and what every page named is boxed on all of them.  *)
(* Which words a value is boxed at is PageAnchors' subject, the SSN net    *)
(* SsnNet's, overlapping boxes MergeDetections'.                           *)
(***************************************************************************)
EXTENDS Naturals, FiniteSets

CONSTANTS
  PageCount,   \* pages of the document
  Threads,     \* detector_concurrency
  Value,       \* texts the model may name
  Category,    \* PiiCategory of each
  WordSources, \* what the words of a page may be: "none", "pdf", "ocr"
  SameText,    \* bound: OCR finds on a page what its text layer has
  NetVaries    \* bound: a page may hold an SSN-shaped text nobody names

ASSUME DetectAssumption ==
  /\ PageCount \in Nat /\ Threads \in Nat \ {0}
  /\ Category \in [Value -> {"SSN", "ITIN", "PERSON_NAME", "STREET_ADDRESS", "EMAIL"}]
  /\ WordSources \subseteq {"none", "pdf", "ocr"}
  /\ SameText \in BOOLEAN /\ NetVaries \in BOOLEAN

VARIABLES
  text,      \* per page and source: the values that can be located there
  shaped,    \* per page: the SSN net finds something in its words
  words,     \* per page: where its words come from
  stage,     \* per page: what its thread does
  items,     \* per page: the values the model named in its last answer
  failure,   \* per page: why it failed
  progress,  \* calls of the progress callback that returned
  collected, \* pages whose result has been taken
  raising,   \* the page whose failure fails the document, 0 if there is none
  result,    \* what detect_document returned or raised
  boxed      \* per page: the values boxed, and "net" for a box of the SSN net

detectVars == <<text, shaped, words, stage, items, failure, progress, collected,
          raising, result, boxed>>

Index == 1 .. PageCount
Propagated == {v \in Value : Category[v] \in {"PERSON_NAME", "SSN", "STREET_ADDRESS"}}
Tin == {v \in Value : Category[v] \in {"SSN", "ITIN"}}

Stages == {"waiting", "asking", "rereading", "reasking", "done", "failed", "cancelled"}
Failures == {"DetectorError", "DetectorUnavailable", "DocumentError", "progress"}
Results == {"none", "detections", "detection_unanchored"} \cup Failures

DetectTypeOK ==
  /\ words \in [Index -> {"none", "pdf", "ocr"}]
  /\ stage \in [Index -> Stages]
  /\ items \in [Index -> SUBSET Value]
  /\ failure \in [Index -> Failures \cup {"none"}]
  /\ progress = Cardinality({p \in Index : stage[p] = "done"})
  /\ collected \in 0 .. PageCount /\ raising \in 0 .. PageCount
  /\ result \in Results
  /\ boxed \in [Index -> SUBSET (Value \cup {"net"})]

DetectInit ==
  /\ words \in [Index -> WordSources]
  /\ text \in [Index -> [{"pdf", "ocr"} -> SUBSET Value]]
  /\ SameText => \A p \in Index : text[p]["pdf"] = text[p]["ocr"]
  /\ shaped \in [Index -> IF NetVaries THEN BOOLEAN ELSE {FALSE}]
  /\ \A p \in Index : words[p] = "none" => text[p]["pdf"] = {} /\ text[p]["ocr"] = {} /\ ~ shaped[p]
  /\ stage = [p \in Index |-> "waiting"]
  /\ items = [p \in Index |-> {}]
  /\ failure = [p \in Index |-> "none"]
  /\ progress = 0 /\ collected = 0 /\ raising = 0
  /\ result = "none" /\ boxed = [p \in Index |-> {}]

\* anchor_value over the words the page has now.
Located(p) == IF words[p] = "none" THEN {} ELSE text[p][words[p]]

\* Mutant: a thread whose page failed is at work for good.
AtWorkWhenFailed == {p \in Index : stage[p] \in {"asking", "rereading", "reasking", "failed"}}

AtWork == {p \in Index : stage[p] \in {"asking", "rereading", "reasking"}}

-----------------------------------------------------------------------------

\* A thread of the pool is free for the page.
MayTake(p) ==
  /\ stage[p] = "waiting" /\ Cardinality(AtWork) < Threads
  /\ \A q \in 1 .. p - 1 : stage[q] # "waiting"

\* It takes the next page; one without words needs no model.
TakePage(p) ==
  /\ MayTake(p)
  /\ IF words[p] = "none"
       THEN stage' = [stage EXCEPT ![p] = "done"] /\ progress' = progress + 1
       ELSE stage' = [stage EXCEPT ![p] = "asking"] /\ UNCHANGED progress
  /\ UNCHANGED <<text, shaped, words, items, failure, collected, raising, result, boxed>>

\* Too little of a text layer's answer can be located: OCR may read better.
Doubtful(p, named) ==
  /\ words[p] = "pdf" /\ named # {}
  /\ Cardinality(named \cap Located(p)) * 2 < Cardinality(named)

Answer(p, named) ==
  /\ stage[p] \in {"asking", "reasking"}
  /\ items' = [items EXCEPT ![p] = named]
  /\ IF stage[p] = "asking" /\ Doubtful(p, named)
       THEN stage' = [stage EXCEPT ![p] = "rereading"] /\ UNCHANGED progress
       ELSE stage' = [stage EXCEPT ![p] = "done"] /\ progress' = progress + 1
  /\ UNCHANGED <<text, shaped, words, failure, collected, raising, result, boxed>>

Reread(p) ==
  /\ stage[p] = "rereading"
  /\ words' = [words EXCEPT ![p] = "ocr"]
  /\ stage' = [stage EXCEPT ![p] = "reasking"]
  /\ UNCHANGED <<text, shaped, items, failure, progress, collected, raising, result, boxed>>

\* An answer cut off, unreadable or refused; no server; no OCR; or the page
\* was answered, or has no words, and the progress callback raises.
FailPage(p, kind) ==
  /\ \/ stage[p] \in {"asking", "reasking"} /\ kind \in {"DetectorError", "DetectorUnavailable", "progress"}
     \/ stage[p] = "rereading" /\ kind = "DocumentError"
     \/ MayTake(p) /\ words[p] = "none" /\ kind = "progress"
  /\ stage' = [stage EXCEPT ![p] = "failed"]
  /\ failure' = [failure EXCEPT ![p] = kind]
  /\ UNCHANGED <<text, shaped, words, items, progress, collected, raising, result, boxed>>

\* pool.map yields in page order; the pages no thread has taken are cancelled.
Collect(p) ==
  /\ raising = 0 /\ p = collected + 1
  /\ \/ /\ stage[p] = "done" /\ collected' = p
        /\ UNCHANGED <<stage, raising>>
     \/ /\ stage[p] = "failed" /\ raising' = p
        /\ stage' = [q \in Index |-> IF stage[q] = "waiting" THEN "cancelled" ELSE stage[q]]
        /\ UNCHANGED collected
  /\ UNCHANGED <<text, shaped, words, items, failure, progress, result, boxed>>

\* Leaving the pool waits for the threads that are still at work.
Raise ==
  /\ raising # 0 /\ result = "none" /\ AtWork = {}
  /\ result' = failure[raising]
  /\ UNCHANGED <<text, shaped, words, stage, items, failure, progress, collected, raising, boxed>>

-----------------------------------------------------------------------------

\* Mutant: a page knows what the pages before it named.
DocValuesBefore(p) == Propagated \cap UNION {items[q] : q \in 1 .. p}

\* doc_values.
DocValues(p) == Propagated \cap UNION {items[q] : q \in Index}

Boxes(p) ==
  ((items[p] \cup DocValues(p)) \cap Located(p))
  \cup (IF words[p] # "none" /\ shaped[p] THEN {"net"} ELSE {})

\* _check_unanchored: it names a taxpayer identifier that cannot be located,
\* and no box of the page is one. Boxes of the net have the category SSN.
Uncovered(p) ==
  /\ (items[p] \ Located(p)) \cap Tin # {}
  /\ Boxes(p) \cap (Tin \cup {"net"}) = {}

Assemble ==
  /\ raising = 0 /\ collected = PageCount /\ result = "none"
  /\ IF \E p \in Index : Uncovered(p)
       THEN result' = "detection_unanchored" /\ UNCHANGED boxed
       ELSE result' = "detections" /\ boxed' = [p \in Index |-> Boxes(p)]
  /\ UNCHANGED <<text, shaped, words, stage, items, failure, progress, collected, raising>>

DetectNext ==
  \/ Raise \/ Assemble
  \/ \E p \in Index :
       \/ TakePage(p) \/ Reread(p) \/ Collect(p)
       \/ \E named \in SUBSET Value : Answer(p, named)
       \/ \E kind \in Failures : FailPage(p, kind)

DetectSpec == DetectInit /\ [][DetectNext]_detectVars

\* A request ends, if only by its timeout; a thread that may run does.
DetectFairness ==
  /\ WF_detectVars(Raise \/ Assemble)
  /\ \A p \in Index :
       /\ WF_detectVars(TakePage(p)) /\ WF_detectVars(Collect(p))
       /\ WF_detectVars(Reread(p) \/ FailPage(p, "DocumentError"))
       /\ WF_detectVars((\E named \in SUBSET Value : Answer(p, named))
                  \/ \E kind \in Failures : FailPage(p, kind))

-----------------------------------------------------------------------------

\* The job is retried or failed for what happened to its first failing page,
\* whichever page failed first in time.
FirstFailureCounts ==
  result \in Failures =>
    \E p \in Index : /\ failure[p] = result
                     /\ \A q \in 1 .. p - 1 : stage[q] = "done"

\* When detect_document is over no thread is at work: nothing reports progress
\* on the job, or reads its pages, behind the worker's back.
NothingLeftRunning == result # "none" => AtWork = {}

\* A name, SSN or address the model saw on one page is boxed wherever it can
\* be located, on pages for which the model said nothing too.
NamedOnceBoxedEverywhere ==
  result = "detections" => \A p, q \in Index :
    items[p] \cap Propagated \cap Located(q) \subseteq boxed[q]

\* The net does not depend on the model.
NetAlwaysCast ==
  result = "detections" => \A p \in Index :
    words[p] # "none" /\ shaped[p] => "net" \in boxed[p]

\* A taxpayer identifier that was named and cannot be located goes on only on
\* a page with a box of its kind.
UnlocatedTinIsNearABox ==
  result = "detections" => \A p \in Index :
    (items[p] \cap Tin) \ Located(p) # {} => boxed[p] \cap (Tin \cup {"net"}) # {}

\* What detect_document guarantees of its threads, of the failure it raises and
\* of the boxes it returns.
DetectSafe ==
  /\ DetectTypeOK
  /\ FirstFailureCounts /\ NothingLeftRunning
  /\ NamedOnceBoxedEverywhere /\ NetAlwaysCast /\ UnlocatedTinIsNearABox

\* detect_document returns or raises, whatever its pages meet.
DetectionEnds == <>(result # "none")
=============================================================================
