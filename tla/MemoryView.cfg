CONSTANTS
  MaxAddress = 3
  Size = 2
  Slots = {1, 2}
  MaxWrites = 2
  MaxReads = 1
SPECIFICATION Spec
CHECK_DEADLOCK FALSE
INVARIANTS TypeOK EditorFresh
PROPERTIES GridIsMemory WriteIsWhole
