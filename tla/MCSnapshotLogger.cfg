SPECIFICATION LogFairSpec
CONSTANTS
  Threads = {t1, logger}
  NoThread = NoThread
  Logger = logger
  NoRow = NoRow
  ReadAll <- MCReadAll
  Bytes = {0, 1}
  ByteSize = 2
  Elem = {"z"}
  Region = {"whole"}
  At <- MCAt
  Integer = {"z"}
  Signed = {"z"}
  NoElem = "none"
  NoRegion = "noRegion"
  Calls <- MCCalls
PROPERTIES
  CallsAreAtomic
  RowsAreSnapshots
  LogReturns
