SPECIFICATION Spec
CONSTANTS
  Capacity = 3
  Intervals <- MCIntervals
  Readers = {"diagnostics", "healthz", "state"}
  Exclusive = TRUE
  MaxRecords = 5
INVARIANTS
  TypeOK
  RingIsLastN
  ReportedWasRecorded
PROPERTY AnswersExactly
