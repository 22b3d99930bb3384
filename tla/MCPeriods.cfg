SPECIFICATION LogsSpec
CONSTANTS
  PageSize = 1
  PeriodSize = 2
  MaxTime = 2
  MaxRows = 3
  MaxDeletes = 1
  MaxRequests = 3
INVARIANT PeriodsAreFound
CHECK_DEADLOCK FALSE
