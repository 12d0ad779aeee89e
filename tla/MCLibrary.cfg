SPECIFICATION MCSpec
CONSTANTS
  t1 = t1
  t2 = t2
  t3 = t3
  s1 = s1
  s2 = s2
  r1 = r1
  r2 = r2
  r3 = r3
  SUCCESS = SUCCESS
  BLOCKED = BLOCKED
  UNDEFINED = UNDEFINED
  NoReply = NoReply
  Callers <- MCCallers
  Status <- MCStatus
  Threads <- MCThreads
  MaxServices = 3
  Senders <- MCSenders
  Receivers <- MCReceivers
  Connected <- MCConnected
  Workers <- MCWorkers
  MaxPublished = 4
  Updaters <- MCUpdaters
  outputRateLimit = 2
  updatePeriodms = 1
  updatePeriodMultiplier = 2
  Modulus = 16
  MaxTime = 4
  maxsize = 3
  MaxPushes = 5
  MaxToggles = 1
  MayReenable = FALSE
INVARIANTS
  CalledAtMostOnce
  OneService
  NoDanglingService
  DemandExact
  NoDemandLeft
  BurstBounded
PROPERTIES
  EventuallyCalledBack
  GivesOneSoundVerdict
  ImplementsFIFO
CHECK_DEADLOCK FALSE
