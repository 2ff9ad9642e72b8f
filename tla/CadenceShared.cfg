SPECIFICATION Spec
CONSTANTS
  Capacity = 3
  Intervals <- MCIntervals
  Readers = {"diagnostics"}
  Exclusive = FALSE
  MaxRecords = 3
INVARIANT ReportedWasRecorded
