SPECIFICATION PortSpec
CONSTANTS
  Confs <- MCConfs
  MaxHeard = 1
INVARIANTS
  FailureReportedOnce
PROPERTIES
  CommsPointExact
  SilentChannelRestarted
  EventuallyScanned
  PublishedExact
CHECK_DEADLOCK FALSE
