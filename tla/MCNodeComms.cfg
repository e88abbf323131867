SPECIFICATION Spec
CONSTANTS
  DeviceNodes <- MCOneNode
  Reachable <- MCOneNode
  MaxVersion = 2
  QueueSize = 3
  MaxFailures = 1
INVARIANTS
  FeedbackIsTrue
PROPERTIES
  CommandsAreMirrored
  ReportsAreMirrored
  CopiesAreNewest
  DrainAppliesNewest
