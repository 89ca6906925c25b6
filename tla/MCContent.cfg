SPECIFICATION ContentSpec
CONSTANTS
  StreamCap = 1
  InCap = 1
  FrameCap = 1
  Native = TRUE
  CtlCap = 1
  Sends = {"Input"}
  MaxSends = 1
  EventCap = 1
  MaxFrames = 2
  Resumes = {FALSE}
  NoSurface = NoSurface
INVARIANTS
  FramesAccountedFor
  OnlyEarlyFramesAreMissed
  SuspendedSurfacesStream
PROPERTY
  FramesAreSettled

CHECK_DEADLOCK FALSE
