SPECIFICATION FairSpec
CONSTANTS
  MaxHosts = 3
  Timeout = 2
  MaxPresses = 2
INVARIANTS
  TypeOK
  ImageIsWholeSession
  CheckpointAfterSuspend
  WaitIsBounded
PROPERTIES
  CtrlCSuspends
  UsesLinksByContract
CHECK_DEADLOCK FALSE
