CONSTANTS
  WebCallers = {"main", "tui"}
  Requests = {r1}
  MaxServers = 2
  Triggers = {"t1"}
SPECIFICATION MainFairSpec
CHECK_DEADLOCK FALSE
INVARIANTS NoProbeAfterClose WebStaysDown RestartsAreHeard
PROPERTIES PortComesBack SignalsEnd
