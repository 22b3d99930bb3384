CONSTANTS
  Names = {1}
  Models = {1, 2, 3}
  MaxProviders = 1
  MaxProbes = 3
  MaxResults = 1
  InitProviders <- OneProvider
  InitProbes <- TwoProbes
  InitSeq <- Ids
  Fetches = {g1}
  Offered <- First
  Typed = {1}
  MaxDialogs = 2
  MaxKeys = 2
  MaxEdits = 2
SPECIFICATION Spec
CHECK_DEADLOCK FALSE
INVARIANT StaleListsAreSafe
