\* Two tabs approve different boxes for the same job.
SPECIFICATION QueuedSpec
CONSTANTS
  c1 = c1
  c2 = c2
  c3 = c3
  Job = {j1}
  Client = {c1, c2}
  Cleaner = cleaner
  Loop = {l1}
  Calls <- TwoReviewers
  Faults = {}
  MaxFaults = 0
  MaxReview = 2
  MaxTick = 0
  Pages = 1
  None = None
  Partial = Partial
  Invalid = Invalid
INVARIANTS AcceptedReviewStored
\* Once every job is expired and no client calls, the system is at rest.
CHECK_DEADLOCK FALSE
