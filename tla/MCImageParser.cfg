CONSTANTS
  s1 = s1
  s2 = s2
  tidy = tidy
  padded = padded
  None = None
  Unknown = Unknown
  Blank = Blank
  SurfaceIds <- MCIds
  Texts <- MCTexts
  OsNames <- MCOsNames
  CodecNames <- MCCodecNames
  Trim <- MCTrim
  Sources <- MCSources
  DamagedSources <- MCDamagedSources
SPECIFICATION Spec
INVARIANTS
  ParserTypeOK
  RoundTrip
  IdentitySurvivesTheText
  NothingBlended
  CoefficientsAreInvisible
  ReadImagesObeyTheLaws
