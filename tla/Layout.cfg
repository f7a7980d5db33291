SPECIFICATION Spec
CONSTANTS
  Windows = {1, 2, 3}
  Spaces = {s1, s2}
  None = None
  Size = 1000
  Ratios = {0, 7}
  Deltas = {4}
  MaxEdits = 2
  MaxRefresh = 2
  MaxMissed = 1
SYMMETRY Symmetry
CHECK_DEADLOCK FALSE
INVARIANTS
  TreesMatch
  Tiling
PROPERTIES
  EdgeMoves
  KeepsOrder
