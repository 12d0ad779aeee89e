SPECIFICATION RoutingSpec
CONSTANTS
  c1 = c1
  c2 = c2
  r1 = r1
  r2 = r2
  SUCCESS = SUCCESS
  BLOCKED = BLOCKED
  UNDEFINED = UNDEFINED
  NULL = NULL
  None = None
  Publisher = Publisher
  UINT16_MAX = 5
  RandValues = {0, 1}
  Subscribers <- MCSubscribers
  Receivers <- MCReceivers
  Connections <- MCConnections
  SenderTransforms <- DropsFirst
  Events <- MCEvents
  Status <- MCStatus
PROPERTIES
  DropIsAnswered
CHECK_DEADLOCK FALSE
