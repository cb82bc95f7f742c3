CONSTANTS
  Peers = {p1, p2}
  None = None
  MAXLINE = 1
  MaxBytes = 2
  SendSpace = 1
  ConnFds = {4, 5}
CHECK_DEADLOCK FALSE
SPECIFICATION Spec
SYMMETRY Symmetry
INVARIANT BrokenConnectionIsContained
