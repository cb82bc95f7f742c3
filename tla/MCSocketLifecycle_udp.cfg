CONSTANTS
  Objs = {o1}
  MaxFd = 2
  MaxLost = 0
  Classes = {"UDPClientSocket"}
SPECIFICATION Spec
INVARIANT UdpClientIsDatagram
