SPECIFICATION FairSpec
CONSTANTS
  chaindata = chaindata
  exchange = exchange
  oracles = oracles
  Tasks <- ThreeTasks
  RowCount <- ThreeRowCounts
  RowsCap = 3
  Concurrency = 2
  GroupSize = 1
  Attempts = 2
  CollectData = TRUE
  MaxFailures = 2
CHECK_DEADLOCK FALSE
INVARIANT NotStuck
PROPERTY BlockEnds
