SPECIFICATION Spec
CONSTANTS
  Chain <- SmallChain
  Observers <- AllObservers
  CollectMetrics <- Metrics
  CollectData <- Data
  MinSellAmount = 2
  Modulus = 16
  MaxRuns = 2
  MaxFaults = 1
CHECK_DEADLOCK FALSE
INVARIANTS
  TypeOK
  ObservedTogether
  Finite
  AgeInRange
  OfEvents
