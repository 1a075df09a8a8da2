SPECIFICATION FairSpec
CONSTANTS
  FileLength = 5
  SegmentDataSize = 2
  WindowSize = 2
  Datagrams <- MCDatagrams
  NoSegment = NoSegment
  FullWindowReturn = "last"
  SocketBuffer = 2
PROPERTY
  AcksAskForMissing
CHECK_DEADLOCK FALSE
