CONSTANTS
  Callers = {c1, c2, c3}
  Manual = {m1}
  MaxStarts = 2
  MaxStops = 2
SPECIFICATION FairSpec
CHECK_DEADLOCK FALSE
INVARIANTS IInv StoppedIsQuiet
PROPERTIES StopReturns ImplementsContract
