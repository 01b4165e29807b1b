CONSTANTS
  Sources = {src}
  Lists = {fn}
  Specs = {p, q}
  Slots = {s1, s2}
  MaxRequests = 3
  Letters = {"d"}
  Folders <- MCFolders
  Hosts <- MCHosts
  Files <- MCFiles
  MaxMaps = 2
SPECIFICATION SourceSpec
CHECK_DEADLOCK FALSE
INVARIANTS TypeOK Agreement LastWins FoundBack
PROPERTIES OnlyOwnDeleted RequestsAnswered
CONSTRAINT OneThing
