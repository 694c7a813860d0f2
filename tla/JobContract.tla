---------------------------- MODULE JobContract ----------------------------
(***************************************************************************)
(* What the service promises about a job, whatever stores, threads and     *)
(* processes it is made of: one line of phases, a delivery that carries    *)
(* the last accepted review, no delivery of a job nobody reviewed unless   *)
(* that was asked for, and an erasure that nothing undoes.                 *)
(***************************************************************************)
EXTENDS Naturals

CONSTANTS
  Job,    \* jobs
  Number, \* the numbers of reviews
  None    \* nothing delivered

VARIABLES
  phase,     \* where the job is
  automatic, \* the job is to be redacted without a review
  review,    \* the number of the last accepted review, 0 before the first
  result     \* the review the delivered document shows

contractVars == <<phase, automatic, review, result>>

Init ==
  /\ phase = [j \in Job |-> "absent"]
  /\ automatic = [j \in Job |-> FALSE]
  /\ review = [j \in Job |-> 0]
  /\ result = [j \in Job |-> None]

Moves(j, from, to) ==
  /\ phase[j] \in from
  /\ phase' = [phase EXCEPT ![j] = to]

Begin(j) ==
  /\ Moves(j, {"absent"}, "open")
  /\ \E wish \in BOOLEAN : automatic' = [automatic EXCEPT ![j] = wish]
  /\ UNCHANGED <<review, result>>

Accept(j) == Moves(j, {"open"}, "working") /\ UNCHANGED <<automatic, review, result>>

\* The boxes are put before a person, for the first time or once more.
Ask(j) ==
  /\ ~automatic[j]
  /\ Moves(j, {"working"}, "review")
  /\ UNCHANGED <<automatic, review, result>>

Approve(j) ==
  /\ Moves(j, {"review", "complete"}, "working")
  /\ \E n \in Number : n > review[j] /\ review' = [review EXCEPT ![j] = n]
  /\ automatic' = [automatic EXCEPT ![j] = FALSE]
  /\ result' = [result EXCEPT ![j] = None]

Deliver(j) ==
  /\ automatic[j] \/ review[j] > 0
  /\ Moves(j, {"working"}, "complete")
  /\ result' = [result EXCEPT ![j] = review[j]]
  /\ UNCHANGED <<automatic, review>>

Fail(j) == Moves(j, {"open", "working"}, "failed") /\ UNCHANGED <<automatic, review, result>>

Erase(j) ==
  /\ Moves(j, {"open", "working", "review", "complete", "failed"}, "erased")
  /\ result' = [result EXCEPT ![j] = None]
  /\ UNCHANGED <<automatic, review>>

Next == \E j \in Job :
  \/ Begin(j) \/ Accept(j) \/ Ask(j) \/ Approve(j) \/ Deliver(j) \/ Fail(j) \/ Erase(j)

Spec == Init /\ [][Next]_contractVars
=============================================================================
