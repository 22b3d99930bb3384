SPECIFICATION ProbingSpec
CONSTANTS
  Retries = 1
  Timeout = 2
  MaxChunks = 3
  ChunkIds = {1}
  Usages <- OneUsage
CHECK_DEADLOCK FALSE
INVARIANTS VerdictIsExact TimeoutsAreReal AnswerIsNamed
PROPERTY ProbeEnds
