\* A job from creation to deletion, reviewed once, with one fault of any kind.
SPECIFICATION Spec
CONSTANTS
  c1 = c1
  c2 = c2
  l1 = l1
  l2 = l2
  m1 = m1
  m2 = m2
  Job = {j1}
  Client = {c1, c2}
  Loop = {l1, l2}
  Proc <- Everybody
  Step <- CloudStep
  Content <- Says
  Message = {m1, m2}
  NoMessage = NoMessage
  None = None
  Calls <- TwoTabs
  Faults = {"call_dies", "send_fails", "worker_crash", "model_down", "bad_document",
            "renewal_fails", "delivered_twice"}
  MaxFaults = 1
  MaxReview = 1
  MaxReceive = 3
  Pages = 1
  Visibility = 3
  Beat = 1
  Lag = 0
  Delay = 1
  Patience = 3
INVARIANTS TypeOK AcceptedReviewDelivered DeletedOutputRemoved
PROPERTIES KeepsContract
SYMMETRY Symmetry
CHECK_DEADLOCK FALSE
