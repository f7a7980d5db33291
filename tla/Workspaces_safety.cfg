SPECIFICATION FairSpec
CONSTANTS
  None = None
  Elsewhere = Elsewhere
  Windows = {1}
  FsSpaces = {9}
  MaxName = 3
  Configs <- MCConfigs
  Kinds = {"focus", "move", "newspace", "space", "reload", "add", "remove", "reorder", "windows", "fullscreen", "dock", "sa"}
  MaxSpace = 4
  MaxUser = 2
  MaxFail = 1
  MaxLanding = 2
  Reliable = FALSE
INVARIANTS
  TopologyMutex
  
PROPERTY
  NeverWedged
