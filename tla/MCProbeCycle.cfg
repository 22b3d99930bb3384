CONSTANTS
  Names = {1, 2}
  Models = {1, 2}
  MaxProviders = 3
  MaxProbes = 3
  MaxResults = 6
  InitProviders <- TwoProviders
  InitProbes <- TwoProbes
  InitSeq <- TwoIds
  Cycles = {k1, k2}
  ProbeConcurrency = 1
  Outcomes = {"success"}
  DbErrors = TRUE
  MaxEdits = 2
SPECIFICATION FairSpec
CHECK_DEADLOCK FALSE
INVARIANTS CycleInv CycleConcurrency ResultsAreAboutTheirProbe
PROPERTIES RecordedWhileRunning CyclesEnd
