SPECIFICATION FairLoopSpec
CONSTANTS
  modeElem = 1
  depCommandElem = 2
  tDepTimeElem = 3
  missionTimeElem = 4
  igniterControlElem = 5
  recArmedElem = 6
  tDepBoundLowNs = 2
  tDepBoundHighNs = 5
  IGNITION_DURATION_NS = 3
  MaxTime = 9
  MaxErrorCount = 2
  Elem <- MCElem
  Type <- MCType
  Modulus <- MCModulus
  InitialDv <- MCInitialDv
INVARIANTS
  HighIsJustified
  PinFollowsOrIsReported
PROPERTIES
  PinRisesOnlyWhenAllowed
  ImplementsOneShot
  DeploysAfterWindow
