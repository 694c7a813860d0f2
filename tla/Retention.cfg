\* One tab, two loops, every kind of fault, time passes.
SPECIFICATION FairSpec
CONSTANTS
  c1 = c1
  c2 = c2
  c3 = c3
  Job = {j1}
  Client = {c1}
  Cleaner = cleaner
  Loop = {l1, l2}
  Calls <- OneTab
  Faults = {"call_dies", "storage_error", "detector_down", "worker_stops", "worker_crash"}
  MaxFaults = 1
  MaxReview = 1
  MaxTick = 0
  Pages = 1
  None = None
  Partial = Partial
  Invalid = Invalid
INVARIANTS SingleOwner NoOrphan
PROPERTIES RetentionHonoured
\* Once every job is expired and no client calls, the system is at rest.
CHECK_DEADLOCK FALSE
