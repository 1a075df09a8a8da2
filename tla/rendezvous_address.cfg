SPECIFICATION Spec
CONSTANTS
  WordBits = 4
  Loopback = 1
  near = near
  far = far
  same = same
  c1 = c1
  c2 = c2
  Clients = {c1, c2}
  Hosts = {near, far, same}
  HostInterfaces <- MCHostInterfaces
  Ports = {1}
  ServerIP = 8
  WindowSize <- MCWindowSize
  ServerInterfaces <- MCServerInterfaces
  TableSize = 1
  MaxRequests = 2
  SelectKeepsTimeout = TRUE
  BigEndian = TRUE
INVARIANT PortSuffices
CHECK_DEADLOCK FALSE
