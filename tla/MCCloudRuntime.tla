--------------------------- MODULE MCCloudRuntime ---------------------------
(***************************************************************************)
(* CloudRuntime for TLC: who calls what in each run, and where it starts.  *)
(***************************************************************************)
EXTENDS CloudRuntime, TLC

CONSTANTS c1, c2, l1, l2, m1, m2

Everybody == {c1, c2, l1, l2}
Says      == Job \X Task

\* One tab takes the job through the service, another deletes it.
TwoTabs == (c1 :> {"create", "submit", "finalize"}) @@ (c2 :> {"delete"})

\* One tab that never deletes.
OneTab == c1 :> {"submit", "finalize"}

OneTabTwoLoops == {c1, l1, l2}

\* The job is uploaded and will be reviewed.
UploadedInit ==
  /\ status = [j \in Job |-> "awaiting_upload"]
  /\ auto = [j \in Job |-> FALSE]
  /\ silent = [j \in Job |-> 0]
  /\ at = [p \in Proc |-> "idle"]
  /\ on = [p \in Proc |-> None]
  /\ reading = [p \in Proc |-> "nothing"]
  /\ QueueInit /\ CloudServiceInit /\ CloudWorkerInit

ManualSpec     == UploadedInit /\ [][Next]_vars
FairManualSpec == ManualSpec /\ Fairness

\* Loops are alike, and so are the slots for messages.
Symmetry == Permutations({l1, l2}) \cup Permutations({m1, m2})
=============================================================================
