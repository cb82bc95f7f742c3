CONSTANTS
  Clients = {c1, c2}
  LineLen = 2
  MaxTime = 3
  MaxDups = 1
SPECIFICATION FairSpec
CHECK_DEADLOCK FALSE
INVARIANT TypeOK
PROPERTIES
  DaytimeSpec
  EveryClientEnds
