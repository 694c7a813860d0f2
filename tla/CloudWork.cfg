\* A manual job through an interruption: a loop crashes or cannot reach the model.
SPECIFICATION FairManualSpec
CONSTANTS
  c1 = c1
  c2 = c2
  l1 = l1
  l2 = l2
  m1 = m1
  m2 = m2
  Job = {j1}
  Client = {c1}
  Loop = {l1, l2}
  Proc <- OneTabTwoLoops
  Step <- CloudStep
  Content <- Says
  Message = {m1, m2}
  NoMessage = NoMessage
  None = None
  Calls <- OneTab
  Faults = {"worker_crash", "model_down"}
  MaxFaults = 1
  MaxReview = 1
  MaxReceive = 3
  Pages = 1
  Visibility = 9
  Beat = 3
  Lag = 1
  Delay = 3
  Patience = 9
INVARIANTS OneLoopPerMessage WorkHasMessage
PROPERTIES LastDeliveryTaken WorkEnds
CHECK_DEADLOCK FALSE
