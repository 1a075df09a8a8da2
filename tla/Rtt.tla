--------------------------------- MODULE Rtt ---------------------------------
(***************************************************************************)
(* The round-trip estimator of rtt.c with the use that the server child    *)
(* makes of it: every rtt_stop of HandleFileTransmission is given          *)
(* tsend - trecv, the unsigned negative of the time that went by.  All     *)
(* fields of rtt_info are int, so that every quotient loses its fraction;  *)
(* the float in rtt_minmax holds each sum exactly.                         *)
(***************************************************************************)
EXTENDS Integers

CONSTANTS
  RTT_RXTMIN,    \* smallest timeout, in milliseconds
  RTT_RXTMAX,    \* largest timeout
  RTT_MAXNREXMT, \* retransmissions before giving up
  LongestTime,   \* most milliseconds that go by before an rtt_stop
  Word           \* 2^32, the number of values of a uint32_t

ASSUME RttAssumption ==
  /\ RTT_RXTMIN \in Nat \ {0} /\ RTT_RXTMAX \in Nat /\ RTT_RXTMIN <= RTT_RXTMAX
  /\ RTT_MAXNREXMT \in Nat
  /\ LongestTime \in Nat /\ Word \in Nat /\ 2 * LongestTime < Word

VARIABLES
  rtt_srtt,   \* smoothed round-trip time
  rtt_rttvar, \* smoothed mean deviation
  rtt_rto,    \* the timeout that the next timer gets
  rtt_nrexmt, \* timeouts since the last rtt_newpack
  timer       \* it_value of the interval timer, in milliseconds

vars == <<rtt_srtt, rtt_rttvar, rtt_rto, rtt_nrexmt, timer>>

(* The / of C: the quotient without its fraction.                          *)
Quotient(a, b) == IF a >= 0 THEN a \div b ELSE -((-a) \div b)

(* A uint32_t assigned to an int.                                          *)
AsInt(u) == IF 2 * u < Word THEN u ELSE u - Word

(* Mutation: only the lower limit.                                         *)
AtLeastMin(rto) == IF rto < RTT_RXTMIN THEN RTT_RXTMIN ELSE rto

rtt_minmax(rto) ==
  IF rto < RTT_RXTMIN THEN RTT_RXTMIN
  ELSE IF rto > RTT_RXTMAX THEN RTT_RXTMAX ELSE rto

RTT_RTOCALC(srtt, rttvar) == srtt + 4 * rttvar

(* rtt_init; the initial deviation 0.75 becomes 0 in an int.               *)
Init ==
  /\ rtt_srtt = 0 /\ rtt_rttvar = 0
  /\ rtt_rto = rtt_minmax(RTT_RTOCALC(0, 0))
  /\ rtt_nrexmt = 0
  /\ timer = 0

GaveUp == rtt_nrexmt > RTT_MAXNREXMT

(* rtt_start, and setitimer with its value.                                *)
StartTimer ==
  /\ ~GaveUp
  /\ timer' = rtt_rto
  /\ UNCHANGED <<rtt_srtt, rtt_rttvar, rtt_rto, rtt_nrexmt>>

StopTimer ==
  /\ timer' = 0
  /\ UNCHANGED <<rtt_srtt, rtt_rttvar, rtt_rto, rtt_nrexmt>>

(* Mutation: the deviation moves by the signed difference.                 *)
SignedDeviation(delta) == delta

AbsoluteDeviation(delta) == IF delta < 0 THEN -delta ELSE delta

(* rtt_stop and the rtt_newpack that follows each call of it.              *)
Measure(ms) ==
  LET delta == AsInt((-ms) % Word) - rtt_srtt
  IN  /\ ~GaveUp
      /\ rtt_srtt' = rtt_srtt + Quotient(delta, 8)
      /\ rtt_rttvar' =
           rtt_rttvar + Quotient(AbsoluteDeviation(delta) - rtt_rttvar, 4)
      /\ rtt_rto' = rtt_minmax(RTT_RTOCALC(rtt_srtt', rtt_rttvar'))
      /\ rtt_nrexmt' = 0
      /\ UNCHANGED timer

(* The timer expires: rtt_timeout doubles the timeout and computes it anew.*)
(* It gives up or the timer is started again.                              *)
Timeout ==
  /\ timer # 0 /\ ~GaveUp
  /\ rtt_rto' = rtt_minmax(RTT_RTOCALC(rtt_srtt, rtt_rttvar))
  /\ rtt_nrexmt' = rtt_nrexmt + 1
  /\ timer' = IF GaveUp' THEN 0 ELSE rtt_rto'
  /\ UNCHANGED <<rtt_srtt, rtt_rttvar>>

Next ==
  \/ StartTimer \/ StopTimer \/ Timeout
  \/ \E ms \in 0 .. LongestTime : Measure(ms)

Spec == Init /\ [][Next]_vars
-----------------------------------------------------------------------------
TypeOK ==
  /\ rtt_srtt \in Int /\ rtt_rttvar \in Int /\ rtt_rto \in Int
  /\ rtt_nrexmt \in 0 .. RTT_MAXNREXMT + 1
  /\ timer \in Int

(* The interval timer is off or set to a time between the limits: never to *)
(* 0 or less, which would disarm it for good while the child waits in its  *)
(* read (rtt_start is an int, and tv_sec and tv_usec are cut from it).     *)
TimerWithinLimits ==
  timer = 0 \/ timer \in RTT_RXTMIN .. RTT_RXTMAX

(* Although the quotients lose their fractions, the estimators stay within *)
(* what was measured: the deviation never turns negative, and neither      *)
(* estimator ever exceeds the longest time that went by.                   *)
EstimatorsBounded ==
  /\ rtt_srtt \in -LongestTime .. 0
  /\ rtt_rttvar \in 0 .. LongestTime
=============================================================================
