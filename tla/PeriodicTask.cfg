SPECIFICATION FairSpec
CONSTANTS
  Period = 3
  MaxTime = 12
INVARIANTS
  TypeOK
  NoDrift
  StopHeard
PROPERTIES
  StopEnds
  CatchesUp
CHECK_DEADLOCK FALSE
