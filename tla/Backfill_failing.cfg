SPECIFICATION FairSpec
CONSTANTS
  w1 = w1
  w2 = w2
  Workers <- OneWorker
  InitHead = 1
  MaxHead = 4
  MaxFaults = 1
  StartBlock = 0
  BatchSize = 3
  TipBuffer = 0
  TwoTo64 = 16
  HeadersCap = 1
  Mode = "epoch-blocks"
  ManualBlocks <- NoManualBlocks
  ForceReindex = TRUE
  EpochSize = 2
  RetryAttempts = 1
  MaxRetries = 10
  CollectData <- Data
  Poison = {1}
  Publishers = {"backfill", "manual"}
PROPERTIES
  Backfilled
  FailingBlocksRequeued
