------------------------------ MODULE RttProofs ------------------------------
(***************************************************************************)
(* The estimators of rtt.c stay within what was measured and the timer     *)
(* within its limits, whatever the limits and the times measured are.      *)
(***************************************************************************)
EXTENDS Rtt, TLAPS

(* A move of one n-th of the way, cut towards zero, stays between the      *)
(* start and the end of the way.                                           *)
LEMMA QuotientBetween ==
  ASSUME NEW d \in Int, NEW n \in {4, 8}
  PROVE  /\ Quotient(d, n) \in Int
         /\ d >= 0 => Quotient(d, n) \in 0 .. d
         /\ d <= 0 => Quotient(d, n) \in d .. 0
<1>1. CASE n = 4
  BY <1>1 DEF Quotient
<1>2. CASE n = 8
  BY <1>2 DEF Quotient
<1>. QED  BY <1>1, <1>2

(* Every timeout that rtt_minmax returns is within the limits.             *)
LEMMA MinMax ==
  ASSUME NEW rto \in Int
  PROVE  rtt_minmax(rto) \in RTT_RXTMIN .. RTT_RXTMAX
BY RttAssumption DEF rtt_minmax

(* tsend - trecv, stored in an int, is the negative of the time gone by.   *)
LEMMA NegativeSample ==
  ASSUME NEW ms \in 0 .. LongestTime
  PROVE  AsInt((-ms) % Word) = -ms
<1>1. CASE ms = 0
  <2>1. (-ms) % Word = 0
    BY <1>1, RttAssumption
  <2>. QED  BY <1>1, <2>1, RttAssumption DEF AsInt
<1>2. CASE ms # 0
  <2>1. (-ms) % Word = Word - ms
    BY <1>2, RttAssumption
  <2>. QED  BY <1>2, <2>1, RttAssumption DEF AsInt
<1>. QED  BY <1>1, <1>2

(* The inductive invariant: the timeout must be within the limits for the  *)
(* timer to be.                                                            *)
RttInv ==
  /\ rtt_srtt \in Int /\ rtt_rttvar \in Int
  /\ rtt_rto \in RTT_RXTMIN .. RTT_RXTMAX
  /\ TimerWithinLimits
  /\ EstimatorsBounded

LEMMA RttInitially == Init => RttInv
BY MinMax, RttAssumption
   DEF Init, RttInv, TimerWithinLimits, EstimatorsBounded, RTT_RTOCALC

(* A measurement moves both estimators within their bounds.                *)
LEMMA MeasureKeeps ==
  ASSUME RttInv, NEW ms \in 0 .. LongestTime, Measure(ms)
  PROVE  RttInv'
<1>. DEFINE delta == (-ms) - rtt_srtt
            dev == AbsoluteDeviation(delta)
<1>1. /\ rtt_srtt \in -LongestTime .. 0 /\ rtt_rttvar \in 0 .. LongestTime
      /\ LongestTime \in Nat
  BY RttAssumption DEF RttInv, EstimatorsBounded
<1>2. /\ delta \in Int /\ rtt_srtt + delta = -ms
      /\ dev \in 0 .. LongestTime
  BY <1>1 DEF AbsoluteDeviation
<1>3. rtt_srtt' = rtt_srtt + Quotient(delta, 8)
  BY NegativeSample DEF Measure
<1>4. rtt_rttvar' = rtt_rttvar + Quotient(dev - rtt_rttvar, 4)
  BY NegativeSample DEF Measure
<1>5. rtt_srtt' \in -LongestTime .. 0
  <2>. HIDE DEF delta, dev
  <2>. QED  BY <1>1, <1>2, <1>3, QuotientBetween
<1>6. rtt_rttvar' \in 0 .. LongestTime
  <2>. HIDE DEF delta, dev
  <2>1. dev - rtt_rttvar \in Int
    BY <1>1, <1>2
  <2>. QED  BY <1>1, <1>2, <1>4, <2>1, QuotientBetween
<1>7. rtt_rto' \in RTT_RXTMIN .. RTT_RXTMAX
  <2>1. rtt_rto' = rtt_minmax(RTT_RTOCALC(rtt_srtt', rtt_rttvar'))
    BY DEF Measure
  <2>2. RTT_RTOCALC(rtt_srtt', rtt_rttvar') \in Int
    BY <1>1, <1>5, <1>6 DEF RTT_RTOCALC
  <2>. QED  BY <2>1, <2>2, MinMax
<1>8. timer' = timer
  BY DEF Measure
<1>. QED  BY <1>1, <1>5, <1>6, <1>7, <1>8
            DEF RttInv, EstimatorsBounded, TimerWithinLimits

(* Every step keeps the invariant.                                         *)
LEMMA RttInductive == RttInv /\ [Next]_vars => RttInv'
<1>. SUFFICES ASSUME RttInv, [Next]_vars
              PROVE  RttInv'
  OBVIOUS
<1>. USE DEF RttInv, TimerWithinLimits, EstimatorsBounded
<1>1. CASE StartTimer
  BY <1>1 DEF StartTimer
<1>2. CASE StopTimer
  BY <1>2 DEF StopTimer
<1>3. CASE Timeout
  <2>1. rtt_rto' \in RTT_RXTMIN .. RTT_RXTMAX
    BY <1>3, MinMax DEF Timeout, RTT_RTOCALC
  <2>. QED  BY <1>3, <2>1 DEF Timeout
<1>4. ASSUME NEW ms \in 0 .. LongestTime, Measure(ms)
      PROVE  RttInv'
  BY <1>4, MeasureKeeps
<1>5. CASE UNCHANGED vars
  BY <1>5 DEF vars
<1>. QED  BY <1>1, <1>2, <1>3, <1>4, <1>5 DEF Next

(* rtt.c, server.c:402-432: the interval timer is never set to 0 or less   *)
(* and never beyond RTT_RXTMAX.                                            *)
THEOREM TimerIsSane == Spec => []TimerWithinLimits
<1>1. RttInv => TimerWithinLimits
  BY DEF RttInv
<1>. QED  BY <1>1, RttInitially, RttInductive, PTL DEF Spec

(* rtt_stop: cutting the fractions never carries an estimator out of the   *)
(* range of what was measured, however many measurements are made.         *)
THEOREM EstimatorsStayBounded == Spec => []EstimatorsBounded
<1>1. RttInv => EstimatorsBounded
  BY DEF RttInv
<1>. QED  BY <1>1, RttInitially, RttInductive, PTL DEF Spec
=============================================================================
