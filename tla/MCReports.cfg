CONSTANTS
  Names = {1, 2}
  Models = {1, 2}
  MaxProviders = 2
  MaxProbes = 2
  MaxResults = 3
  InitProviders <- OneProvider
  InitProbes <- OneProbe
  InitSeq <- Ids
  SecLen = 2
  HourLen = 4
  DayLen = 8
  Start = 4
  End = 11
  Changes = {9}
  Recorded = {"success", "error"}
  Retention = 4
  MaxEdits = 1
SPECIFICATION Spec
CHECK_DEADLOCK FALSE
INVARIANTS SummariesAgree DowntimeIsExact
