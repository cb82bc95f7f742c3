CONSTANTS
  BufSize = 2
  SendSpace = 1
  MaxPut = 3
  MaxDirect = 1
  MaxPeer = 3
  MaxClear = 1
  MaxReopen = 1
SPECIFICATION FairSpec
CHECK_DEADLOCK FALSE
INVARIANTS
  StreamTypeOK
  OutputIntact
  NoByteSkipped
  InputIntact
PROPERTIES
  FlushDelivers
  SendingEnds
