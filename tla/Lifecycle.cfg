SPECIFICATION FairSpec
CONSTANT MaxFaults = 1
INVARIANTS
  ProcessTypeOK
  AliveWhileUsed
  ServedInFull
PROPERTIES
  ClientServed
  ShutdownEnds
CHECK_DEADLOCK FALSE
