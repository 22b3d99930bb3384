SPECIFICATION Spec
CONSTANTS
  Names = {1, 2, 3}
  Models = {1}
  MaxProviders = 3
  MaxProbes = 0
  MaxResults = 0
  InitProviders <- Two
  InitProbes <- NoProbes
  InitSeq <- Ids
  InitConf <- TwoConfs
  KeyValues = {1}
  NameInputs = {2, 3}
  TokenInputs = {0}
  WebConfs <- OneConf
  MaxTyped = 2
  MaxDialogs = 2
  MaxKeys = 3
  MaxEdits = 1

PROPERTY UpdatedIsThere
CHECK_DEADLOCK FALSE
