SPECIFICATION FairTransfer
CONSTANTS
  FileLength = 3
  SegmentDataSize = 2
  WindowSize = 1
  Datagrams = {}
  NoSegment = NoSegment
  FullWindowReturn = "next"
  MaxRetransmits = 1
  MaxProbeTimeouts = 1
  SmallestThreshold = 2
  AlarmMasked = FALSE
  UninitialisedRequest = {0}
  Requests <- MCRequests
  SocketBuffer = 2
INVARIANTS
  CloseAfterDelivery
  AcknowledgedIsHeld
PROPERTIES
  TransferEnds
  ChildSpec
  FileInOrder
CHECK_DEADLOCK FALSE
