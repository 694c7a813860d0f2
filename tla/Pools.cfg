\* Two pages on two threads; two documents on two threads, by up to three tasks.
SPECIFICATION FairSpec
CONSTANTS
  PageCount = 2
  Threads = 2
  Value = {"ssn", "name"}
  Category <- MCCategory
  WordSources = {"none", "pdf"}
  SameText = FALSE
  NetVaries = TRUE
  Doc = {d1, d2}
  Config = {A, B}
  None = None
  Concurrency = 2
  MaxStarts = 3
INVARIANTS DetectSafe EvaluationSafe
PROPERTIES CheckpointedStays DetectionEnds TaskEnds
\* A document that was detected and an evaluation that was fetched are done with.
CHECK_DEADLOCK FALSE
