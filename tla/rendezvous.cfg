SPECIFICATION FairSpec
CONSTANTS
  WordBits = 4
  Loopback = 1
  near = near
  far = far
  same = same
  c1 = c1
  c2 = c2
  Clients = {c1, c2}
  Hosts = {near, same}
  HostInterfaces <- MCHostInterfaces
  Ports = {1}
  ServerIP = 4
  WindowSize <- MCWindowSize
  ServerInterfaces <- MCServerInterfaces
  TableSize = 1
  MaxRequests = 2
  SelectKeepsTimeout = TRUE
  BigEndian = TRUE
INVARIANTS
  Inv
  OneChildPerClient
  TransferMeansConnected
  PromptHandshake
  PromptInv
  ClientAddressIsRight
PROPERTY HandshakeEnds
CHECK_DEADLOCK FALSE
