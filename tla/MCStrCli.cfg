CONSTANTS
  Inputs <- MCInputs
  MAXLINE = 3
  Space = 3
SPECIFICATION FairSpec
CHECK_DEADLOCK FALSE
INVARIANTS
  TypeOK
  InOrder
  StopAndWait
  AllDone
PROPERTY Ends
