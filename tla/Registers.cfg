CONSTANTS
  Frames = {f1}
  Groups = {g1, g2}
  Values = {1, 2}
  Slots = {s1, s2}
  MaxReads = 3
  MaxStops = 3
SPECIFICATION Spec
CHECK_DEADLOCK FALSE
INVARIANTS TypeOK StableWhenStill MappingIsCurrent
SYMMETRY Alike
