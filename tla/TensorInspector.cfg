CONSTANTS
  Widths = {3, 12}
  Counts = {1, 3}
  MaxFields = 2
  MaxBits = 33
  MaxReads = 2
  MaxMessages = 1
  Windows = {0, 8}
SPECIFICATION Spec
CHECK_DEADLOCK FALSE
INVARIANTS TypeOK LaidOut ReadComesBack
PROPERTIES DrawsLatest
CONSTRAINT ShortUnlessStill
