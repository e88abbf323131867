SPECIFICATION StartupFairSpec
CONSTANTS
  Clients <- MCClients
  OneByte <- MCLastClient
  MaxStarts = 2
  MaxFaults = 2
  QueueSize = 1
  Setups <- MCSetups
  ValidRegions <- MCRegions
  ValidElems <- MCElems
  MaxRecvBytes = 44
INVARIANTS
  DaemonIsStopped
  FlyTogether
  WaitsInVainOnlyForMissed
  SocketsHaveOneSender
  RegionsTravelWhole
PROPERTIES
  EntersLoopSynchronized
  SyncsOnlyWhenServerIsReady
  ServerDecides
CHECK_DEADLOCK FALSE
