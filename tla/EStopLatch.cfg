SPECIFICATION FairSpec
CONSTANTS
  w1 = w1
  w2 = w2
  Workers <- OneWorker
  Requests = {}
  MatchActions = {}
  HelperWrites <- HelperEStop
  MaxInputs = 2
  MaxSeconds = 1
  IntModulus = 32
PROPERTY EStopLatched
