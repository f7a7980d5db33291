\* Two Dock processes and three attempts for each.
CONSTANTS
  BackoffLen = 2
  MaxDock = 2
  None = None
SPECIFICATION FairSpec
INVARIANTS
  HealthyIsCurrent
  ResultIsOwn
PROPERTY
  Settles
