CONSTANTS
  Modes = {"launch", "attach"}
  CanTerminate = TRUE
  MaxLines = 2
SPECIFICATION FairSpec
CHECK_DEADLOCK FALSE
INVARIANTS TypeOK EndedOnce DisconnectOutcome
PROPERTIES LaunchAnswered EndReported DisconnectAnswered
