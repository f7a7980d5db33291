SPECIFICATION Spec
CONSTANTS
  None = None
  Clients = {c1, c2}
  Installed = 1
  Packaged = FALSE
  MaxBuilds = 3
  MaxRuns = 4
  MaxFaults = 2
CHECK_DEADLOCK FALSE
INVARIANTS
  
  UninstallUnloads
PROPERTY
  Answers
