SPECIFICATION Spec
CONSTANTS
  None = None
  Elsewhere = Elsewhere
  Windows = {1}
  FsSpaces = {9}
  MaxName = 3
  Configs <- MCConfigs
  Kinds = {"focus", "add", "remove", "reorder"}
  MaxSpace = 4
  MaxUser = 3
  MaxFail = 1
  MaxLanding = 2
  Reliable = FALSE
INVARIANTS
  OrderedStrip
  NoDoubleDestroy
PROPERTY
  DestroysIdle
