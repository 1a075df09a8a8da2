SPECIFICATION Spec
CONSTANTS
  FileLength = 3
  SegmentDataSize = 2
  ClientOriginalWindow = 2
  MaxRetransmits = 1
  MaxProbeTimeouts = 1
  SmallestThreshold = 2
  AlarmMasked = FALSE
  LargestWindow = 3
  UninitialisedAcks <- MCStackAcks
  Requests <- MCRequests
  SocketBuffer = 1
INVARIANTS
  TypeOK
  CycleFitsWindow
  WindowsBounded
  OverrunWithinWindow
CHECK_DEADLOCK FALSE
