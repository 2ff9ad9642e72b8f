SPECIFICATION FairSpec
CONSTANTS
  w1 = w1
  w2 = w2
  Workers <- TwoWorkers
  Requests <- Enable
  MatchActions <- AllVerbs
  HelperWrites = {}
  MaxInputs = 2
  MaxSeconds = 1
  IntModulus = 32
INVARIANTS
  NoStaleMatchTime
  WireValid
PROPERTIES
  MatchShown
  StopIsFinal
