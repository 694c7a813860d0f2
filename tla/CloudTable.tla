----------------------------- MODULE CloudTable -----------------------------
(***************************************************************************)
(* The jobs table of the AWS deployment (repository.py,                    *)
(* DynamoJobRepository).  An update is not one transaction, as in SQLite,  *)
(* but a consistent read followed by a put on the condition that the       *)
(* version read is still the row's.  Every put raises the version, so the  *)
(* condition holds just when no other put came between: a read is "fresh"  *)
(* until the row is written and "stale" from then on, and no version       *)
(* number has to be counted.                                               *)
(***************************************************************************)
EXTENDS Naturals

CONSTANTS
  Job,   \* job ids
  Proc,  \* whoever updates rows: API calls and document loops
  Step,  \* the steps of their code
  Patience, \* bound: how long a row's silence is counted
  None   \* no job

ASSUME TableAssumption == Patience \in Nat /\ None \notin Job

VARIABLES
  status,  \* the status of the row; "none" before it is created
  auto,    \* auto_finalize
  silent,  \* the age of updated_at, counted up to Patience
  at,      \* the step a process is at
  on,      \* the job it is busy with
  reading  \* what the read its update began with is worth

tableVars   == <<status, auto, silent>>
processVars == <<at, on, reading>>

Queued    == {"queued_detection", "queued_redaction"}
InFlight  == {"detecting", "redacting"}
JobStatus == {"awaiting_upload", "review_required", "complete", "failed", "deleted"}
               \cup Queued \cup InFlight

TableTypeOK ==
  /\ status \in [Job -> JobStatus \cup {"none"}]
  /\ auto \in [Job -> BOOLEAN]
  /\ silent \in [Job -> 0 .. Patience]
  /\ at \in [Proc -> Step]
  /\ on \in [Proc -> Job \cup {None}]
  /\ reading \in [Proc -> {"nothing", "fresh", "stale"}]

TableInit ==
  /\ status = [j \in Job |-> "none"]
  /\ auto = [j \in Job |-> FALSE]
  /\ silent = [j \in Job |-> 0]
  /\ at = [p \in Proc |-> "idle"]
  /\ on = [p \in Proc |-> None]
  /\ reading = [p \in Proc |-> "nothing"]

Insert(j, automatic) ==
  /\ status[j] = "none"
  /\ status' = [status EXCEPT ![j] = "awaiting_upload"]
  /\ auto' = [auto EXCEPT ![j] = automatic]
  /\ silent' = [silent EXCEPT ![j] = 0]

-----------------------------------------------------------------------------
(* Processes.                                                              *)

Goto(p, step) ==
  /\ at' = [at EXCEPT ![p] = step]
  /\ on' = IF step = "idle" THEN [on EXCEPT ![p] = None] ELSE on

Begins(p, j, step) ==
  /\ at[p] = "idle"
  /\ at' = [at EXCEPT ![p] = step]
  /\ on' = [on EXCEPT ![p] = j]

\* A step that is not an update's.
Proceeds(p, step) == reading[p] = "nothing" /\ Goto(p, step) /\ UNCHANGED reading

\* A process that dies takes what it read with it.
Dies(p) == Goto(p, "idle") /\ reading' = [reading EXCEPT ![p] = "nothing"]

-----------------------------------------------------------------------------
(* Updates.  An update u names the statuses it may start from, the status  *)
(* it sets, the step after it and the step after a StateConflict.          *)

\* update reads the row and refuses a status it was not given.
UpdateReads(p, u) ==
  /\ reading[p] = "nothing"
  /\ IF status[on[p]] \in u.from
       THEN reading' = [reading EXCEPT ![p] = "fresh"] /\ UNCHANGED <<at, on>>
       ELSE Goto(p, u.lost) /\ UNCHANGED reading
  /\ UNCHANGED tableVars

\* What p puts is news to everybody else who had read the row.
Outdates(p) ==
  reading' = [q \in Proc |->
    CASE q = p -> "nothing"
      [] q # p /\ on[q] = on[p] /\ reading[q] = "fresh" -> "stale"
      [] OTHER -> reading[q]]

\* Mutant: the put is not conditional.
PutsBlindly(p, u) ==
  /\ reading[p] # "nothing"
  /\ Outdates(p)
  /\ status' = [status EXCEPT ![on[p]] = u.to]
  /\ silent' = [silent EXCEPT ![on[p]] = 0]
  /\ Goto(p, u.done)

\* The conditional put, which also stamps updated_at.
Puts(p, u) ==
  /\ reading[p] = "fresh"
  /\ Outdates(p)
  /\ status' = [status EXCEPT ![on[p]] = u.to]
  /\ silent' = [silent EXCEPT ![on[p]] = 0]
  /\ Goto(p, u.done)

\* The condition failed.
PutFails(p, u) ==
  /\ reading[p] = "stale"
  /\ reading' = [reading EXCEPT ![p] = "nothing"]
  /\ Goto(p, u.lost)
  /\ UNCHANGED tableVars

\* Time passes for the row.
Ages == silent' = [j \in Job |-> IF silent[j] < Patience THEN silent[j] + 1 ELSE Patience]
=============================================================================
