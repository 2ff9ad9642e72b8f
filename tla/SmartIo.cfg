SPECIFICATION FairSpec
CONSTANTS
  N = 2
  HalTypes <- MCTypes
  HalValues <- MCValues
  IntModulus = 1024
  RaceOutcomes = {"done", "lost"}
  MaxWrites = 3
  MaxToggles = 1
  MaxFaults = 1
INVARIANTS
  TypeOK
  PinFollowsWords
PROPERTIES
  KeepsPinRules
  SampledIsInput
  HalObeyed
