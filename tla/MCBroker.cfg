CONSTANTS
  v1 = v1
  v2 = v2
  Visitors <- MCVisitors
  Strangers <- MCStrangers
  Surfaces = 1
SPECIFICATION Spec
INVARIANTS
  BrokerTypeOK
  ResumesTheWholeSession
  AnswersAreTakenUp
PROPERTIES
  CtrlCStops
  FetchSucceeds
