SPECIFICATION Spec
CONSTANTS
  cmd = 1
  cmdReq = 2
  cmdWriteElem = 3
  cmdWriteVal = 4
  cmdReqNum = 5
  lastCmdProcNum = 6
  Elem <- MCElem
  Type <- MCType
  Modulus <- MCModulus
  Requests <- MCRequests
  InitialDv <- MCInitialDv
  MaxRequests = 3
  MaxRestarts = 1
INVARIANTS
  HandledInOrder
  WritesInEffect
PROPERTIES
  CommandClearedAfterOneLoop
  ImplementsCommandService
