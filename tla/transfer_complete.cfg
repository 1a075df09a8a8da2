SPECIFICATION TransferSpec
CONSTANTS
  FileLength = 5
  SegmentDataSize = 2
  WindowSize = 2
  Datagrams = {}
  NoSegment = NoSegment
  FullWindowReturn = "next"
  MaxRetransmits = 1
  MaxProbeTimeouts = 1
  SmallestThreshold = 2
  AlarmMasked = TRUE
  UninitialisedRequest = {0}
  Requests = {}
  SocketBuffer = 2
INVARIANTS
  CompleteMeansDelivered
CHECK_DEADLOCK FALSE
