SPECIFICATION PortSpec
CONSTANTS
  Confs <- OnDemand
  MaxHeard = 1
PROPERTIES
  FollowsDemand
CHECK_DEADLOCK FALSE
