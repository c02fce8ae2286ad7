SPECIFICATION Spec
CONSTANTS
  a1 = a1
  a2 = a2
  Attempts <- TwoAttempts
  MaxSecond = 1
  MaxFaults = 2
  FaultyBlocks = {1, 2}
  Chain <- SmallChain
  Factories <- AllFactories
  EpochSize = 4
  BlocksPerHour = 2
  DebugEnabled = TRUE
  TokenID <- TokenIDs
  ExchangeID <- ExchangeIDs
SYMMETRY AttemptSymmetry
CHECK_DEADLOCK FALSE
INVARIANTS
  TypeOK
  MarkedHasRows
  IdsIdentify
  OwnIdsStable
