SPECIFICATION FairSpec
CONSTANTS
  InitHead = 1
  MaxHead = 8
  MaxFaults = 2
CHECK_DEADLOCK FALSE
INVARIANTS
  TypeOK
  InOrder
  FirstSinceTaken
PROPERTY DueIsTaken
