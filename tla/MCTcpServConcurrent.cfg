CONSTANTS
  Peers = {p1, p2}
  None = None
  MAXLINE = 2
  MaxBytes = 2
  SendSpace = 1
  ConnFds = {4, 5}
CHECK_DEADLOCK FALSE
SPECIFICATION FairSpec
INVARIANTS
  TypeOK
  SharedOwnership
PROPERTIES
  EchoSpec
  Isolated
  EveryClientGetsAWorker
