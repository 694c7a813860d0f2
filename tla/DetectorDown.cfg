\* The model server fails while a job is being deleted.
SPECIFICATION QueuedSpec
CONSTANTS
  c1 = c1
  c2 = c2
  c3 = c3
  Job = {j1}
  Client = {c1}
  Cleaner = cleaner
  Loop = {l1}
  Calls <- Silent
  Faults = {"detector_down"}
  MaxFaults = 1
  MaxReview = 1
  MaxTick = 0
  Pages = 1
  None = None
  Partial = Partial
  Invalid = Invalid
INVARIANTS WorkerLeavesNothing
\* Once every job is expired and no client calls, the system is at rest.
CHECK_DEADLOCK FALSE
