SPECIFICATION ConnectionSpec
CONSTANTS
  FileLength = 3
  SegmentDataSize = 2
  WindowSize = 2
  Datagrams = {}
  NoSegment = NoSegment
  FullWindowReturn = "last"
  MaxRetransmits = 1
  MaxProbeTimeouts = 1
  SmallestThreshold = 2
  AlarmMasked = TRUE
  UninitialisedRequest = {0}
  Requests = {}
  SocketBuffer = 1
  ActiveRetries = 3
  PassiveRetries = 2
  TwoMSL = 2
INVARIANTS
  AcknowledgedFinWasSent
CHECK_DEADLOCK FALSE
