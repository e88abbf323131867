SPECIFICATION FairSpec
CONSTANTS
  DeviceNodes <- MCTwoNodes
  Reachable <- MCSecondOnly
  MaxVersion = 1
  QueueSize = 1
  MaxFailures = 0
PROPERTIES
  ChangesAreConfirmed
