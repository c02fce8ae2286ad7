SPECIFICATION FairSpec
CONSTANTS
  Parts <- PublisherParts
  Optional = {"backfill", "chainTip", "manual"}
  Finite = {"manual"}
CHECK_DEADLOCK FALSE
INVARIANTS
  TypeOK
  CleanExit
  NoneCutOff
  WayOut
PROPERTIES
  ExitsWhenTold
  ExitsWhenBroken
