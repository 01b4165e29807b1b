CONSTANTS
  Callers = {c1, c2}
  NoCaller = NoCaller
  MaxToken = 2
  MaxUnsolicited = 1
SPECIFICATION FairSpec
CHECK_DEADLOCK FALSE
INVARIANTS TypeOK PendingIsWaiting OwnReply CliHearsItself
PROPERTIES StopLeavesNoDebugger CallsReturn ChannelSpec
