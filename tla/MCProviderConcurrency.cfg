CONSTANTS
  Names = {1, 2}
  Models = {1, 2}
  MaxProviders = 2
  MaxProbes = 3
  MaxResults = 6
  InitProviders <- TwoProviders
  InitProbes <- ThreeProbes
  InitSeq <- ThreeIds
  Cycles = {k1, k2}
  ProbeConcurrency = 1
  Outcomes = {"success", "error", "timeout", "empty_content"}
  DbErrors = FALSE
  MaxEdits = 0
SPECIFICATION Spec
CHECK_DEADLOCK FALSE
INVARIANTS ProviderConcurrency
