SPECIFICATION Spec
CONSTANTS
  w1 = w1
  w2 = w2
  Workers <- OneWorker
  InitHead = 1
  MaxHead = 3
  MaxFaults = 1
  StartBlock = 0
  BatchSize = 1
  TipBuffer = 1
  TwoTo64 = 16
  HeadersCap = 1
  Mode = "blocks-list"
  ManualBlocks <- ListWithTypo
  ForceReindex = TRUE
  EpochSize = 2
  RetryAttempts = 1
  MaxRetries = 10
  CollectData = TRUE
  Poison = {}
  Publishers = {"backfill", "chainTip", "manual"}
PROPERTY ImplementsLog
INVARIANT CursorCovered
