CONSTANTS
  Names = {1, 2}
  Models = {1, 2}
  MaxProviders = 2
  MaxProbes = 4
  MaxResults = 6
  InitProviders <- TwoProviders
  InitProbes <- ThreeProbes
  InitSeq <- ThreeIds
  Cycles = {k1}
  ProbeConcurrency = 2
  Outcomes = {"success", "error", "timeout", "empty_content"}
  DbErrors = FALSE
  MaxEdits = 2
SPECIFICATION FairSpec
CHECK_DEADLOCK FALSE
PROPERTIES CyclesEnd AnswersAreRecorded
