CONSTANTS
  Slots = {s1, s2}
  MaxRequests = 7
  MaxStops = 2
  AllowRepl = FALSE
  Watches = {}
  AllowRefusal = FALSE
SPECIFICATION Spec
CHECK_DEADLOCK FALSE
INVARIANTS SetHitsThisStop
CONSTRAINT Requested
