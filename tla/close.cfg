SPECIFICATION FairTimed
CONSTANTS
  ActiveRetries = 3
  PassiveRetries = 2
  TwoMSL = 2
  ActiveWait = 2
  PassiveWait = 3
  LateAcks <- MCLateAcks
  LateSegments <- MCLateSegments
  StrayDescriptor = "none"
  SocketBuffer = 2
INVARIANTS
  Inv
  ServerKnows
  ClientKnows
  TimedInv
PROPERTIES
  CloseEnds
  TimeWaitCoversRetries
CHECK_DEADLOCK FALSE
