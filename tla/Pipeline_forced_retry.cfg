SPECIFICATION FairSpec
CONSTANTS
  w1 = w1
  w2 = w2
  Workers <- OneWorker
  InitHead = 2
  MaxHead = 3
  MaxFaults = 1
  StartBlock = 0
  BatchSize = 1
  TipBuffer = 1
  TwoTo64 = 16
  HeadersCap = 1
  Mode = "blocks-list"
  ManualBlocks <- OneOldBlock
  ForceReindex = TRUE
  EpochSize = 2
  RetryAttempts = 2
  MaxRetries = 10
  CollectData = TRUE
  Poison = {}
  Publishers = {"backfill", "manual"}
PROPERTY ForcedBlocksIndexed
