SPECIFICATION FairSpec
CONSTANTS
  w1 = w1
  w2 = w2
  Workers <- OneWorker
  InitHead = 2
  MaxHead = 3
  MaxFaults = 2
  StartBlock = 0
  BatchSize = 1
  TipBuffer = 0
  TwoTo64 = 16
  HeadersCap = 1
  Mode = "epoch-blocks"
  ManualBlocks <- NoManualBlocks
  ForceReindex = TRUE
  EpochSize = 2
  RetryAttempts = 1
  MaxRetries = 10
  CollectData <- Data
  Poison = {}
  Publishers = {"backfill", "chainTip", "manual"}
PROPERTIES
  Backfilled
