SPECIFICATION FairSpec
CONSTANTS
  None = None
  Elsewhere = Elsewhere
  Windows = {1}
  FsSpaces = {9}
  MaxName = 4
  Configs <- MCStrip
  Kinds = {"focus", "move", "newspace", "windows", "fullscreen", "sa"}
  MaxSpace = 6
  MaxUser = 3
  MaxFail = 1
  MaxLanding = 2
  Reliable = TRUE
PROPERTY Converges
