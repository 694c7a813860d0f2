\* Two jobs, one loop, and no clock to end what the worker does not.
SPECIFICATION WorkSpec
CONSTANTS
  c1 = c1
  c2 = c2
  c3 = c3
  Job = {j1, j2}
  Client = {c1}
  Cleaner = cleaner
  Loop = {l1}
  Calls <- Reviewer
  Faults = {"detector_down", "worker_stops", "worker_crash"}
  MaxFaults = 2
  MaxReview = 1
  MaxTick = 1
  Pages = 1
  None = None
  Partial = Partial
  Invalid = Invalid
PROPERTIES WorkEnds
\* Once every job is expired and no client calls, the system is at rest.
CHECK_DEADLOCK FALSE
