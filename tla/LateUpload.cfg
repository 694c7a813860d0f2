\* An upload that is still streaming when the job expires.
SPECIFICATION Spec
CONSTANTS
  c1 = c1
  c2 = c2
  c3 = c3
  Job = {j1}
  Client = {c1}
  Cleaner = cleaner
  Loop = {l1}
  Calls <- Uploader
  Faults = {}
  MaxFaults = 0
  MaxReview = 1
  MaxTick = 0
  Pages = 1
  None = None
  Partial = Partial
  Invalid = Invalid
INVARIANTS ErasedJobHoldsNothing
\* Once every job is expired and no client calls, the system is at rest.
CHECK_DEADLOCK FALSE
