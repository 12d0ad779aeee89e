SPECIFICATION MCSpec
CONSTANTS
  c1 = c1
  c2 = c2
  r1 = r1
  r2 = r2
  SUCCESS = SUCCESS
  BLOCKED = BLOCKED
  UNDEFINED = UNDEFINED
  NULL = NULL
  None = None
  Publisher = Publisher
  UINT16_MAX = 5
  RandValues = {0, 1}
  Subscribers <- MCSubscribers
  Receivers <- MCReceivers
  Connections <- MCConnections
  SenderTransforms <- MCTransforms
  Events <- MCEvents
  Status <- MCStatus
  Socks = {1, 2, 3}
  Setups <- MCSetups
INVARIANTS
  PublisherCalledAtMostOnce
  VerdictReachesAllReceivers
  ReceivedIsComposed
  OneWriteAtATime
  EachByteOnce
PROPERTIES
  EventuallyAnswered
  EventuallyTries
  StaysListening
  NoWriteOnceClosed
CHECK_DEADLOCK FALSE
