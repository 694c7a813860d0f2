\* Three tabs on one job; calls may die half way.
SPECIFICATION Spec
CONSTANTS
  c1 = c1
  c2 = c2
  c3 = c3
  Job = {j1}
  Client = {c1, c2, c3}
  Cleaner = cleaner
  Loop = {l1}
  Calls <- ThreeTabs
  Faults = {"call_dies"}
  MaxFaults = 1
  MaxReview = 2
  MaxTick = 0
  Pages = 1
  None = None
  Partial = Partial
  Invalid = Invalid
INVARIANTS TypeOK StageHasItsFiles AcceptedReviewDelivered ManualJobReviewed WorkerLeavesNothing
PROPERTIES TombstoneForever CompletedOutputStable KeepsContract
\* Once every job is expired and no client calls, the system is at rest.
CHECK_DEADLOCK FALSE
