------------------------------- MODULE MCPools -------------------------------
(***************************************************************************)
(* The two pools of threads of the service for TLC: detection over the     *)
(* pages of a document, evaluation over the documents of a split.  They    *)
(* share nothing: a behaviour is one of the one while the other rests.     *)
(***************************************************************************)
EXTENDS DetectDocument, EvaluationRun

VARIABLE pool \* whose behaviour it is

MCCategory == [v \in {"ssn", "name"} |-> IF v = "ssn" THEN "SSN" ELSE "PERSON_NAME"]

\* A document without words, over which detection has ended.
DetectRests ==
  /\ words = [p \in Index |-> "none"] /\ text = [p \in Index |-> [s \in {"pdf", "ocr"} |-> {}]]
  /\ shaped = [p \in Index |-> FALSE] /\ stage = [p \in Index |-> "done"]
  /\ items = [p \in Index |-> {}] /\ failure = [p \in Index |-> "none"]
  /\ progress = PageCount /\ collected = PageCount /\ raising = 0
  /\ result = "detections" /\ boxed = [p \in Index |-> {}]

\* The net finds an identifier on the last page only, if at all.
FewShapes == \A p \in Index : shaped[p] => p = PageCount

Init ==
  \/ pool = "detection" /\ DetectInit /\ FewShapes /\ EvaluationInit
  \/ pool = "evaluation" /\ DetectRests /\ EvaluationInit

Next ==
  \/ pool = "detection" /\ DetectNext /\ UNCHANGED <<pool, evaluationVars>>
  \/ pool = "evaluation" /\ EvaluationNext /\ UNCHANGED <<pool, detectVars>>

FairSpec ==
  Init /\ [][Next]_<<pool, detectVars, evaluationVars>> /\ DetectFairness /\ EvaluationFairness
=============================================================================
