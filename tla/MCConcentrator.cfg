SPECIFICATION MCSpec
CONSTANTS
  p = p
  q = q
  r = r
  c = c
  d = d
  m = m
  t1 = t1
  t2 = t2
  e1 = e1
  e2 = e2
  Ports <- MCPorts
  Connectors <- MCConnectors
  Configs <- MCConfigs
  FirstConfig <- First
  MaxReloads = 2
  Workers <- MCWorkers
  Main = m
  Elements <- MCElements
  Delayed <- MCDelayed
  MaxParkings = 1
  MaxWork = 1
  MayShutdown = TRUE
INVARIANTS
  NoDangling
  SubscribedAsConnected
  RunsTheConfig
  Exclusive
PROPERTIES
  ReloadCompletes
  ParkingEnds
  ShutdownActs
CHECK_DEADLOCK FALSE
