SPECIFICATION Spec
CONSTANTS
  NoSurface = NoSurface
  a = a
  b = b
  Ids <- MCIds
  Widths <- MCWidths
  Viewports <- MCViewports
  Deltas <- MCDeltas
  Points <- MCPoints
  MaxSurfaces = 4
  MaxFrames = 1
SYMMETRY MCSymmetry
INVARIANTS
  TypeOK
  LayoutFitsTheStrip
  VisibleIsClickable
PROPERTIES
  ArrivalsKeepTheView
  RemovalClosesTheGap
  ResumeRestoresTheSession
