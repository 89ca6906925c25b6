SPECIFICATION FairSpec
CONSTANTS
  StreamCap = 1
  InCap = 1
  FrameCap = 1
  Native = TRUE
  CtlCap = 1
  Sends = {"Input"}
  MaxSends = 5
PROPERTY SuspendResolves
CHECK_DEADLOCK FALSE
