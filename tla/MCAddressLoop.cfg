CONSTANTS
  Hosts = {1, 2}
  MaxAddrs = 3
  MaxSets = 3
SPECIFICATION FairSpec
CHECK_DEADLOCK FALSE
INVARIANTS
  TypeOK
  NothingElseLeft
  FirstThatAnswers
  ErrnoTellsWhy
PROPERTY CallEnds
