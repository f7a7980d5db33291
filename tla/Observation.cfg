SPECIFICATION Spec
CONSTANTS
  None = None
  a = a
  b = b
  Apps <- MCApps
  Owner <- MCOwner
  Windows = {1, 2, 3}
  Surfaces = {2}
  MaxChanges = 1
  Moved = {a}
  MaxMoves = 2
INVARIANT
  AckedIsApplied
PROPERTIES
  MovesInOrder
  FreshWhenHeard
  
