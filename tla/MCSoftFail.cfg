CONSTANTS
  Names = {1, 2}
  Models = {1, 2}
  MaxProviders = 2
  MaxProbes = 3
  MaxResults = 3
  InitProviders <- TwoProviders
  InitProbes <- ThreeProbes
  InitSeq <- ThreeIds
  Cycles = {k1}
  ProbeConcurrency = 2
  Outcomes = {"success", "error", "timeout", "empty_content", "soft_fail"}
  DbErrors = FALSE
  MaxEdits = 0
SPECIFICATION Spec
CHECK_DEADLOCK FALSE
PROPERTIES AnswersAreRecorded
