SPECIFICATION Spec
CONSTANTS
  None = None
  Windows = {1, 2, 3}
  AppOf <- MCAppOf
  DisplayOf <- MCDisplayOf
  NameOf <- MCNameOf
  FrameOf <- MCFrameOf
  ConfigOf <- MCConfigOf
  Malformed = {"("}
  Disks <- MCDisks
  Titles = {"plain", "dialog"}
  Untitled = "plain"
  Answers = {"good", "short", "far", "error"}
  Orders <- MCOrders
  Loose <- MCLoose
  Centered <- MCCentered
  MaxUser = 2
  MaxFaults = 1
PROPERTIES
  OnlyTiledMoved
  RulesLetGo
  
  Settles
