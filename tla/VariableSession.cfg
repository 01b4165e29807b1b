CONSTANTS
  Slots = {s1, s2}
  MaxRequests = 4
  MaxStops = 3
  AllowRepl = TRUE
  Watches = {2}
  AllowRefusal = TRUE
SPECIFICATION FairSpec
CHECK_DEADLOCK FALSE
INVARIANTS TypeOK NoOrphanVarobj RefsDenote
PROPERTIES LeakIsBounded HandlersFinish
