CONSTANTS
  Callers = {c1, c2}
  NoCaller = NoCaller
  MaxToken = 2
  MaxUnsolicited = 0
SPECIFICATION FairSpec
CHECK_DEADLOCK FALSE
PROPERTIES StopReturns
