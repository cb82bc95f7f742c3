CONSTANTS
  Clients = {c1, c2}
  Server = Server
  Stranger = Stranger
  MaxLines = 2
  MaxDups = 1
  MaxStrange = 1
SPECIFICATION FairSpec
CHECK_DEADLOCK FALSE
PROPERTY EveryClientEnds
INVARIANTS
  TypeOK
  InStep
