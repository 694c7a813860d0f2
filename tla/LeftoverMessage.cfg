\* Two reviews of a job, and a loop that is interrupted before it acknowledges.
SPECIFICATION ManualSpec
CONSTANTS
  c1 = c1
  c2 = c2
  l1 = l1
  l2 = l2
  m1 = m1
  m2 = m2
  Job = {j1}
  Client = {c1}
  Loop = {l1, l2}
  Proc <- OneTabTwoLoops
  Step <- CloudStep
  Content <- Says
  Message = {m1, m2}
  NoMessage = NoMessage
  None = None
  Calls <- OneTab
  Faults = {"worker_crash"}
  MaxFaults = 1
  MaxReview = 2
  MaxReceive = 3
  Pages = 0
  Visibility = 3
  Beat = 1
  Lag = 0
  Delay = 1
  Patience = 3
INVARIANTS OneLoopPerJob
CHECK_DEADLOCK FALSE
