CONSTANTS
  Frames = {f}
  Groups = {g1, g2}
  Values = {1, 2}
  Slots = {s}
  MaxReads = 3
  MaxStops = 3
SPECIFICATION Spec
CHECK_DEADLOCK FALSE
INVARIANTS WasIsLastDifferent
CONSTRAINT AnsweredBeforeResume
