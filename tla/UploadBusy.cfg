CONSTANTS
  Hosts = {"h1"}
  KeyHosts = {}
  Passwords = {"p1", "p2"}
  NoPassword = "none"
  MaxFlows = 1
  Kinds = {"deploy"}
  OtherTypes = FALSE
SPECIFICATION Spec
CHECK_DEADLOCK FALSE
INVARIANTS NothingRunsOnUpload
