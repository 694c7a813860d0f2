----------------------------- MODULE CloudQueue -----------------------------
(***************************************************************************)
(* The task queue of the AWS deployment: what task_queue.py asks of SQS    *)
(* and what SQS makes of it.  A message that was received is hidden for    *)
(* the visibility timeout and is delivered again when that runs out; each  *)
(* delivery has a receipt handle of its own and outdates the one before;   *)
(* after maxReceiveCount deliveries the message goes to the dead letters,  *)
(* which nothing reads.  A standard queue may deliver a message twice.     *)
(***************************************************************************)
EXTENDS Naturals

CONSTANTS
  Message,    \* slots for messages: bounds how many exist at a time
  Content,    \* what a message says: a job and a task
  NoMessage,  \* an empty slot
  Visibility, \* the visibility timeout
  Delay,      \* the delay release gives
  MaxReceive  \* maxReceiveCount of the queue (infra/storage.tf)

ASSUME QueueAssumption ==
  /\ Visibility \in Nat \ {0}
  /\ Delay \in 1 .. Visibility
  /\ MaxReceive \in Nat \ {0}
  /\ NoMessage \notin [says : Content, hidden : 0 .. Visibility, received : 0 .. MaxReceive]

VARIABLE queue \* the messages

QueueTypeOK ==
  queue \in [Message -> {NoMessage} \cup
               [says : Content, hidden : 0 .. Visibility, received : 0 .. MaxReceive]]

QueueInit == queue = [m \in Message |-> NoMessage]

Sent(m) == queue[m] # NoMessage

Visible(m) == Sent(m) /\ queue[m].hidden = 0

\* The receipt handle of a delivery is the count SQS gave it; an older one
\* no longer does anything.
Handled(m, handle) == Sent(m) /\ queue[m].received = handle

Enqueue(m, what) ==
  /\ ~Sent(m)
  /\ queue' = [queue EXCEPT ![m] = [says |-> what, hidden |-> 0, received |-> 0]]

Receive(m) ==
  /\ Visible(m) /\ queue[m].received < MaxReceive
  /\ queue' = [queue EXCEPT ![m].hidden = Visibility, ![m].received = @ + 1]

Hide(m, handle, time) ==
  queue' = IF Handled(m, handle) THEN [queue EXCEPT ![m].hidden = time] ELSE queue

\* Mutant: a heartbeat hides the message no longer than a release does.
RenewBriefly(m, handle) == Hide(m, handle, Delay)

Renew(m, handle) == Hide(m, handle, Visibility)

Release(m, handle) == Hide(m, handle, Delay)

Acknowledge(m, handle) ==
  queue' = IF Handled(m, handle) THEN [queue EXCEPT ![m] = NoMessage] ELSE queue

\* SQS would deliver the message once more than it may.
DeadLetter(m) ==
  /\ Visible(m) /\ queue[m].received = MaxReceive
  /\ queue' = [queue EXCEPT ![m] = NoMessage]

\* SQS forgets that the message is hidden.
DeliverTwice(m) ==
  /\ Sent(m) /\ queue[m].hidden > 0
  /\ queue' = [queue EXCEPT ![m].hidden = 0]

QueueAges ==
  queue' = [m \in Message |->
    IF Sent(m) /\ queue[m].hidden > 0 THEN [queue[m] EXCEPT !.hidden = @ - 1] ELSE queue[m]]
=============================================================================
