SPECIFICATION ProbingSpec
CONSTANTS
  Retries = 1
  Timeout = 2
  MaxChunks = 2
  ChunkIds = {1}
  Usages <- OneUsage
INVARIANT EmptyBodyIsEmptyResponse
CHECK_DEADLOCK FALSE
