SPECIFICATION Spec
CONSTANTS
  RTT_RXTMIN = 10
  RTT_RXTMAX = 30
  RTT_MAXNREXMT = 2
  LongestTime = 40
  Word = 128
INVARIANT TimerWithinLimits
INVARIANT EstimatorsBounded
