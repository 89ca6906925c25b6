SPECIFICATION FairSpec
CONSTANTS
  StreamCap = 1
  InCap = 1
  FrameCap = 1
  Native = TRUE
  CtlCap = 1
  Sends = {"Input"}
  MaxSends = 1
PROPERTY FramesClosedWhenDropped
CHECK_DEADLOCK FALSE
