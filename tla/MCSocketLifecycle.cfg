CONSTANTS
  Objs = {o1, o2}
  MaxFd = 3
  MaxLost = 1
  Classes = {"TCPSocket", "TCPServerSocket", "UDPSocket", "UDPClientSocket"}
SPECIFICATION Spec
SYMMETRY Symmetry
INVARIANTS
  TypeOK
  UniqueOwnership
  NoDescriptorLeak
PROPERTIES
  OnlyTheHolderActs
  ConstructorDelivers
  OwnershipSpec
