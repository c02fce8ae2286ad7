SPECIFICATION FairSpec
CONSTANTS
  chaindata = chaindata
  exchange = exchange
  oracles = oracles
  Tasks <- ThreeTasks
  RowCount <- ThreeRowCounts
  RowsCap = 1
  Concurrency = 2
  GroupSize = 2
  Attempts = 2
  CollectData = TRUE
  MaxFailures = 2
CHECK_DEADLOCK FALSE
INVARIANTS
  TypeOK
  MarkedComplete
  NoSendAfterClose
  NotStuck
PROPERTIES
  ImplementsOutcome
  BlockEnds
