SPECIFICATION FairSpec
CONSTANTS
  StreamCap = 1
  InCap = 1
  FrameCap = 1
  Native = FALSE
  CtlCap = 1
  Sends = {"Input", "Resize", "Disconnect"}
  MaxSends = 5
INVARIANTS
  TypeOK
  AckMeansFlushed
  InputInOrder
  HostOutlivesSuspend
  NothingHeldAfterReturn
PROPERTIES
  KeepsLinkContract
  SuspendResolves
  HostReleasesCapture
CHECK_DEADLOCK FALSE
