SPECIFICATION FairConnection
CONSTANTS
  FileLength = 1
  SegmentDataSize = 2
  WindowSize = 1
  Datagrams = {}
  NoSegment = NoSegment
  FullWindowReturn = "last"
  MaxRetransmits = 1
  MaxProbeTimeouts = 1
  SmallestThreshold = 1
  AlarmMasked = TRUE
  UninitialisedRequest = {0}
  Requests = {}
  SocketBuffer = 2
  ActiveRetries = 1
  PassiveRetries = 1
  TwoMSL = 1
INVARIANTS
  OrderlyCloseMeansWritten
PROPERTIES
  ActiveCloseEnds
CHECK_DEADLOCK FALSE
