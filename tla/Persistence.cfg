SPECIFICATION Spec
CONSTANTS
  None = None
  SpaceIds = {1, 2, 3}
  FirstStrip <- MCStrip
  FirstConfig <- MCConfig
  Configs <- MCConfigs
  MaxChanges = 2
  MaxTrees = 1
  MaxFaults = 2
INVARIANTS
  SavedOrSaving
  OneHome
  
PROPERTY
  TreesStay
