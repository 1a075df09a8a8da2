SPECIFICATION Spec
CONSTANTS
  FileLength = 4
  SegmentDataSize = 2
  WindowSize = 2
  Datagrams <- MCDatagrams
  NoSegment = NoSegment
  FullWindowReturn = "next"
  SocketBuffer = 1
INVARIANTS
  WholeSegmentsWritten
CHECK_DEADLOCK FALSE
