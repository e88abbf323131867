SPECIFICATION FairSpec
CONSTANTS
  cmd = 1
  cmdReq = 2
  cmdWriteElem = 3
  cmdWriteVal = 4
  cmdReqNum = 5
  lastCmdProcNum = 6
  stateElem = 7
  modeElem = 8
  depCommandElem = 9
  tDepTimeElem = 10
  missionTimeElem = 11
  igniterControlElem = 12
  recArmedElem = 13
  errorCount = 16
  loopCount = 17
  commsMissCount = 18
  loopMissCount = 19
  tDepBoundLowNs = 2
  tDepBoundHighNs = 3
  IGNITION_DURATION_NS = 1
  Elem <- MCElem
  Type <- MCType
  Modulus <- MCModulus
  States <- MCStates
  Transitions <- MCTransitions
  Actions <- MCActions
  DeviceNodes <- MCDeviceNodes
  regionFromDn <- MCRegionFromDn
  rxMissCount <- MCRxMissCount
  Requests <- MCRequests
  InitialDv <- MCInitialDv
  MaxRequests = 2
  MaxTime = 4
  MaxClockFailures = 1
INVARIANTS
  NoCommandOverwritten
  SafeStateHoldsIgniterLow
  FreezesOnlyAfterClockFailure
PROPERTIES
  RequestsAreHandled
  ArmedStateDeploys
