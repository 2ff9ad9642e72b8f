SPECIFICATION FairSpec
CONSTANTS
  w1 = w1
  w2 = w2
  Workers <- TwoWorkers
  Requests <- ManualRequests
  MatchActions = {}
  HelperWrites <- HelperManual
  MaxInputs = 3
  MaxSeconds = 1
  IntModulus = 32
INVARIANT TypeOK
PROPERTIES
  ManualControlSticks
  LastWordIsSent
  HelperHeard
