SPECIFICATION Spec
CONSTANTS
  w1 = w1
  w2 = w2
  Workers <- TwoWorkers
  InitHead = 1
  MaxHead = 5
  MaxFaults = 2
  StartBlock = 0
  BatchSize = 2
  TipBuffer = 1
  TwoTo64 = 16
  HeadersCap = 1
  Mode = "blocks-list"
  ManualBlocks <- NoManualBlocks
  ForceReindex = FALSE
  EpochSize = 2
  RetryAttempts = 2
  MaxRetries = 10
  CollectData = TRUE
  Poison = {}
  Publishers = {"backfill"}
SYMMETRY WorkerSymmetry
INVARIANTS
  TypeOK
  CursorCovered
  SavedCursorBehind
  QueueBounded
  BackfillBehindTip
  IndexedAreWritten
PROPERTY SavedCursorNeverRetreats
