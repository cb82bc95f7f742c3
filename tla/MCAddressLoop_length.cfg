CONSTANTS
  Hosts = {1}
  MaxAddrs = 1
  MaxSets = 2
SPECIFICATION Spec
CHECK_DEADLOCK FALSE
INVARIANT ValidAddressIsUsable
