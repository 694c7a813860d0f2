------------------------------ MODULE MCClients ------------------------------
(***************************************************************************)
(* The two clients of the browser for TLC.  They share nothing: a          *)
(* behaviour is one of the batch while the page rests, or the other way    *)
(* around.                                                                 *)
(***************************************************************************)
EXTENDS BatchQueue, DocumentClient

VARIABLE client \* whose behaviour it is

\* One task at a time through a reload and a pause, or two tasks without.
MCAllowances == {[tasks |-> 1, lost |-> 1, reloads |-> 1, pauses |-> 1],
                 [tasks |-> 2, lost |-> 1, reloads |-> 0, pauses |-> 0]}

\* A reload of the page, or a call that is lost.
MCBudgets == {[lost |-> 1, reloads |-> 0], [lost |-> 0, reloads |-> 1]}

\* A batch that was closed before anything was created.
BatchRests ==
  /\ rows = [r \in Row |-> [status |-> "failed", credentials |-> 0, result |-> FALSE,
                            cleanupError |-> FALSE, file |-> FALSE]]
  /\ tasks = [r \in Row |-> NoTask] /\ stored = [r \in Row |-> 0]
  /\ queue = [paused |-> TRUE, cancelled |-> TRUE] /\ sweep = NoSweep /\ closed = TRUE
  /\ copies = [r \in Row |-> [k \in Attempt |-> "none"]] /\ unanswered = {} /\ denied = {}
  /\ allowance = [tasks |-> 1, lost |-> 0, reloads |-> 0, pauses |-> 0]

Init ==
  \/ client = "batch" /\ BatchInit /\ ClientInit /\ budget.reloads = 0
  \/ client = "page" /\ BatchRests /\ ClientInit

Next ==
  \/ client = "batch" /\ BatchNext /\ UNCHANGED <<client, clientVars>>
  \/ client = "page" /\ ClientNext /\ UNCHANGED <<client, batchVars>>

FairSpec == Init /\ [][Next]_<<client, batchVars, clientVars>> /\ BatchFairness /\ ClientFairness
=============================================================================
