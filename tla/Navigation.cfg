SPECIFICATION Spec
CONSTANTS
  None = None
  Displays = {1, 2}
  Spaces = {11, 12, 13, 21}
  Strip <- MCStrip
  MaxCommands = 3
  MaxChanges = 2
  MaxFlying = 2
INVARIANTS
  
  ChainedSteps
  
PROPERTY
  Settles
