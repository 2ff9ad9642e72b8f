SPECIFICATION MCPageSpec
CONSTANTS
  w1 = w1
  Workers <- OneWorker
  Requests <- EStopButtons
  MatchActions = {}
  HelperWrites = {}
  MaxInputs = 2
  MaxSeconds = 1
  IntModulus = 32
  Refreshes = {1, 2}
  MaxFailures = 1
INVARIANTS
  PageTypeOK
  PressShown
PROPERTIES
  PageSettles
  PhaseSeen
