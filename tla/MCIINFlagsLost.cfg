SPECIFICATION Spec
CONSTANTS
  t1 = t1
  t2 = t2
  Flags <- MCFlags
  Threads <- TwoThreads
  Arguments <- SingleFlags
INVARIANTS
  SetFlagsStay
