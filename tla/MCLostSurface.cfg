SPECIFICATION FairSpec
CONSTANTS
  MaxHosts = 2
  Timeout = 2
  MaxPresses = 1
PROPERTY LostSurfaceLeaves
CHECK_DEADLOCK FALSE
