CONSTANTS
  Peers = {p1, p2, p3}
  None = None
  MAXLINE = 1
  MaxBytes = 1
  SendSpace = 1
  listenfd = 0
  PollFd = 4
  OPEN_MAX = 3
  SelectFd = 3
  FD_SETSIZE = 3
SPECIFICATION EventSpec
SYMMETRY Symmetry
CHECK_DEADLOCK FALSE
INVARIANTS
  TypeOK
  BookkeepingAgrees
  ReadyCountExact
  RecvNeverBlocks
PROPERTY EchoSpec
