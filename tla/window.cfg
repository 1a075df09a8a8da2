SPECIFICATION FairSpec
CONSTANTS
  FileLength = 5
  SegmentDataSize = 2
  WindowSize = 2
  Datagrams <- MCDatagrams
  NoSegment = NoSegment
  FullWindowReturn = "next"
  SocketBuffer = 2
INVARIANTS
  AcksAreCumulative
  LastAckMeansAllHeld
  Inv
  WrittenInOrder
  CreditWithinWindow
  ZeroWindowIsReopened
  AcksNeverGoBack
  WholeSegmentsWritten
PROPERTIES
  BothThreadsFinish
  DeliverySpec
  SlotsNotOverwritten
  OpenWindowAsksForMissing
CHECK_DEADLOCK FALSE
