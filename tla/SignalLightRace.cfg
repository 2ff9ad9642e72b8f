SPECIFICATION FairSpec
CONSTANTS
  N = 1
  HalTypes <- MCTypes
  HalValues <- MCValues
  IntModulus = 1024
  RaceOutcomes = {"done", "lost"}
  MaxWrites = 1
  MaxToggles = 2
  MaxFaults = 0
PROPERTY DisabledIsSolid
