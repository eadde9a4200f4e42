\* One call at a time outlives its caller.
CONSTANTS
  Args <- MCArgs
  IdRange = 10
  MaxLate = 1
  BlockLimit = 2
  MaxBlock = 4
SPECIFICATION MCSpec
INVARIANTS
  BenchTypeOK
  CountedIsRecorded
  RefusedAfterLimit
  SendersFunded
  LocalBuildsFresh
  TotalsTellRecords
PROPERTY RunEnds
\* A run ends.
CHECK_DEADLOCK FALSE
