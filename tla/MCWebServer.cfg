CONSTANTS
  WebCallers = {c1, c2, c3}
  Requests = {r1, r2}
  MaxServers = 3
SPECIFICATION FairSpec
CHECK_DEADLOCK FALSE
INVARIANTS WebTypeOK StoppedServesNobody OneShutdown
PROPERTIES WebStopReturns PortIsFreed
