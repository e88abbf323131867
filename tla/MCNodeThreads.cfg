SPECIFICATION NodeFairSpec
CONSTANTS
  PeriodMs = 10
  MaxExpirations = 2
  MaxMissCount = 1
  MaxErrorCount = 1
  MaxFaults = 1
  Ids = {loop, t1}
  LoopThread = loop
  Priorities = {1, 2, 13}
  MaxManagerFaults = 2
INVARIANTS
  MissesAreCounted
  EndsForGoodReason
  ThreadsRunBelowTheKernel
  ArgumentsFollowThreads
PROPERTIES
  StartsOnItsExpiration
  KeepsRunning
CHECK_DEADLOCK FALSE
