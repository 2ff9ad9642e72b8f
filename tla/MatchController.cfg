SPECIFICATION FairSpec
CONSTANTS
  w1 = w1
  w2 = w2
  Callers <- MCCallers
  AutoPeriod = 2
  AutoTeleopGap = 2
  TeleopPeriod = 4
  Second = 4
  Millisecond = 2
  LastCommand = 3
  MaxClock = 12
INVARIANTS
  TypeOK
  OnSchedule
  TimeLeftNotHidden
  NoStaleMatchTime
PROPERTIES
  FollowsTimetable
  MatchTerminates
