\* Each self-contained part in turn.
SPECIFICATION Spec
CONSTANTS
  \* LoadDocument
  MaxPages = 2
  MaxPage = 2
  MaxTotal = 3
  MorePages = 1
  OcrModes = {TRUE, FALSE}
  \* PageAnchors
  Letter = {a, b}
  MaxWords = 3
  MaxWord = 2
  MaxValue = 4
  Window = 2
  WordPrefix = 2
  JoinPrefix = 3
  MinFragment = 2
  WordLength = 2
  Threshold = 85
  \* SsnNet: a cut among digits, and before and after a hyphen or an en dash
  MaxNetWords = 3
  Cuts = {0, 2, 3, 4, 11}
  \* MergeDetections
  Detections = 3
  Groups = 2
  Side = 2
  \* RedactionGeometry
  Units = 3
  Sizes <- Portrait
  Grain = 2
  Dpi = 400
  CheckDpi = 144
  Padding = 2
  MinBox = 2
  \* AbuseLimits
  Job = {j1, j2, j3}
  Network = {n1}
  Thread = {t1, t2}
  MaxRecent = 1
  MaxActive = 1
  MaxQueue = 1
  Hour = 1
  None = None
  \* CorpusSample
  Stratum = {digital, scanned, mixed}
  MaxSize = 5
  \* ShardPlan
  Doc = {d1, d2, d3, d4, d5}
  Shards = 3
  MaxDocPages = 4
  NoShard = None
INVARIANTS LoadSafe AnchorSafe NetSafe MergeSafe GeometrySafe LimitsSafe SampleSafe ShardSafe
SYMMETRY Symmetry
\* Each part comes to an end of its own.
CHECK_DEADLOCK FALSE
