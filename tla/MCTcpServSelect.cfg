CONSTANTS
  Peers = {p1, p2}
  None = None
  MAXLINE = 2
  MaxBytes = 2
  SendSpace = 1
  listenfd = 0
  SelectFd = 3
  FD_SETSIZE = 3
SPECIFICATION FairSpec
CHECK_DEADLOCK FALSE
PROPERTIES
  EchoSpec
  EveryClientServed
