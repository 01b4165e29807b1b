CONSTANTS
  Hosts = {"h1", "h2"}
  KeyHosts = {"h2"}
  Passwords = {p1, p2}
  NoPassword = NoPassword
  MaxFlows = 2
  Kinds = {"deploy", "simulate", "test", "save"}
  OtherTypes = TRUE
SYMMETRY Alike
SPECIFICATION Spec
CHECK_DEADLOCK FALSE
INVARIANTS TypeOK OnlyTrustedHosts FormComesBack
PROPERTIES LaunchesTheUpload LaunchHasCredentials
