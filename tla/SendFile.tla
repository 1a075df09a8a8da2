------------------------------ MODULE SendFile ------------------------------
(***************************************************************************)
(* The server child during the transfer: HandleFileTransmission with its   *)
(* congestion window, fast retransmit and retransmission timer, and        *)
(* clientWindowProbe, both of server.c.  The child is one thread; what can *)
(* run between any two of its statements is the handler of SIGALRM, which  *)
(* jumps back to the sigsetjmp of the current cycle (Timeout below).       *)
(*                                                                         *)
(* The timer is armed when a cycle has sent its window and again whenever  *)
(* the handler has run, and is disarmed at the end of the cycle; so it is  *)
(* running in every place of the code but "starting", "sending" and the    *)
(* final ones, and needs no variable of its own.                           *)
(***************************************************************************)
EXTENDS Segmentation, Messages, Sequences

CONSTANTS
  ClientOriginalWindow, \* the window the client announced in the handshake
  MaxRetransmits,       \* RTT_MAXNREXMT
  MaxProbeTimeouts,     \* network_timeout at which the probing is given up
  SmallestThreshold,    \* ssthresh_min
  AlarmMasked,          \* whether the garbage in set_alarm has SIGALRM in it
  UninitialisedAcks,    \* values that ack may start with
  LargestWindow,        \* bound: no advtWindow read or found in ack is larger
  Requests,             \* bound: what the client's acknowledgements may ask for,
                        \* the reserved numbers of its FIN and ACK included
  SocketBuffer          \* bound: datagrams queued in one direction, more are lost

ASSUME SenderAssumption ==
  /\ ClientOriginalWindow \in Nat \ {0}
  /\ MaxRetransmits \in Nat /\ MaxProbeTimeouts \in Nat
  /\ SmallestThreshold \in Nat \ {0}
  /\ AlarmMasked \in BOOLEAN
  /\ UninitialisedAcks \subseteq
       [currentRequest: Int, advtWindow: 0 .. LargestWindow, lastack_sent: {0, 1}]
  /\ LargestWindow \in Nat /\ ClientOriginalWindow <= LargestWindow
  /\ Requests \subseteq Int
  /\ SocketBuffer \in Nat \ {0}

VARIABLES
  sender,          \* where the child is
  index,           \* the segment that the next cycle starts with
  i,               \* segments sent in this cycle
  totalToSend,     \* segments this cycle sends
  totalToRecv,     \* new acknowledgements counted in this cycle
  lastAdvtWindow,  \* the client's window when the last cycle ended
  cwindow,         \* congestion window
  ssthresh,        \* slow start threshold
  lastAckReceived, \* the latest request that counted as new
  duplicateAck,    \* how often it was repeated
  ack,             \* the acknowledgement read last
  rtt_nrexmt,      \* timeouts since the timer's packet was new
  network_timeout, \* probes that got no answer
  toClient,        \* data datagrams on their way to the client
  toServer         \* acknowledgements queued on the child's socket

cycleVars == <<index, i, totalToSend>>
congestionVars == <<lastAdvtWindow, cwindow, ssthresh>>
ackVars == <<totalToRecv, lastAckReceived, duplicateAck>>
childVars == <<sender, cycleVars, congestionVars, ackVars, ack, rtt_nrexmt,
               network_timeout>>
vars == <<childVars, toClient, toServer>>

AckRead == [currentRequest: Int, advtWindow: Nat, lastack_sent: {0, 1}]

(* Places from which the child does not come back: it ended as intended,   *)
(* gave the client up (two ways), or died of a bad access.                 *)
Ended == {"complete", "gaveUp", "terminated", "crashed"}
Places == {"starting", "sending", "awaiting", "counted", "accepted",
           "repeated", "cycleEnded", "probing", "probed", "closing", "closed"}
          \cup Ended

Init ==
  /\ sender = "starting"
  /\ index = 0 /\ i = 0 /\ totalToSend = 0 /\ totalToRecv = 0
  /\ lastAdvtWindow = ClientOriginalWindow
  /\ cwindow = 1 /\ ssthresh = ClientOriginalWindow
  /\ lastAckReceived = -1 /\ duplicateAck = 0
  /\ ack \in UninitialisedAcks
  /\ rtt_nrexmt = 0 /\ network_timeout = 0
  /\ toClient = << >> /\ toServer = << >>
-----------------------------------------------------------------------------
(* SendSegment: the datagram is queued unless the buffer is full.  There   *)
(* is no check that the file has such a segment: past either end of the    *)
(* table fileSegment the child sends what it finds there, or dies.         *)
SendSegment(number) ==
  toClient' = IF Len(toClient) < SocketBuffer THEN Append(toClient, DataSegment(number))
                                              ELSE toClient

CrashInSendSegment(number) ==
  /\ number \notin FileSegments
  /\ sender' = "crashed"
  /\ UNCHANGED <<cycleVars, congestionVars, ackVars, ack, rtt_nrexmt,
                 network_timeout, toClient, toServer>>

(* Mutation: one cycle more.                                               *)
NotPastEnd(number) == number <= SegmentCount

BeforeEnd(number) == number < SegmentCount

(* The top of the while loop.                                              *)
StartCycle ==
  /\ sender = "starting"
  /\ IF BeforeEnd(index)
     THEN /\ totalToSend' = IF lastAdvtWindow < cwindow THEN lastAdvtWindow
                                                        ELSE cwindow
          /\ i' = 0
          /\ sender' = "sending"
     ELSE UNCHANGED <<totalToSend, i>> /\ sender' = "complete"
  /\ UNCHANGED <<index, congestionVars, ackVars, ack, rtt_nrexmt,
                 network_timeout, toClient, toServer>>

(* One turn of the sending loop.                                           *)
SendNext ==
  /\ sender = "sending" /\ i < totalToSend
  /\ SendSegment(index)
  /\ index' = index + 1
  /\ i' = i + 1
  /\ UNCHANGED <<sender, totalToSend, congestionVars, ackVars, ack, rtt_nrexmt,
                 network_timeout, toServer>>

(* After the loop the timer is started and the handler installed.          *)
StartTimer ==
  /\ sender = "sending" /\ i >= totalToSend
  /\ sender' = "awaiting"
  /\ totalToRecv' = 0
  /\ UNCHANGED <<cycleVars, congestionVars, lastAckReceived, duplicateAck, ack,
                 rtt_nrexmt, network_timeout, toClient, toServer>>
-----------------------------------------------------------------------------
(***************************************************************************)
(* The loop that reads acknowledgements.                                   *)
(***************************************************************************)
ReadAck ==
  /\ toServer # << >>
  /\ ack' = Head(toServer)
  /\ toServer' = Tail(toServer)

(* Mutation: a test that an unsigned field cannot pass.                    *)
WindowNegative(answer) == answer.advtWindow < 0

WindowClosed(answer) == answer.advtWindow = 0

(* The end of the transfer, a closed window, a repeated request or a new   *)
(* one, tested in this order.  The timer may expire right after the        *)
(* counting: that a request was counted is not yet on record then.  (The   *)
(* code compares both counters for equality with a bound; here they stop   *)
(* one past it.)                                                           *)
HandleAck ==
  /\ \/ /\ ack'.lastack_sent = 1
        /\ sender' = "cycleEnded"
        /\ UNCHANGED <<totalToRecv, duplicateAck, network_timeout>>
     \/ /\ ack'.lastack_sent = 0 /\ WindowClosed(ack')
        /\ sender' = "probing"
        /\ network_timeout' = 0
        /\ UNCHANGED <<totalToRecv, duplicateAck>>
     \/ /\ ack'.lastack_sent = 0 /\ ~WindowClosed(ack')
        /\ lastAckReceived = ack'.currentRequest
        /\ duplicateAck' = IF duplicateAck > 2 THEN 3 ELSE duplicateAck + 1
        /\ sender' = IF duplicateAck' = 2 THEN "repeated" ELSE "awaiting"
        /\ UNCHANGED <<totalToRecv, network_timeout>>
     \/ /\ ack'.lastack_sent = 0 /\ ~WindowClosed(ack')
        /\ lastAckReceived # ack'.currentRequest
        /\ totalToRecv' = IF totalToRecv > totalToSend THEN totalToRecv
                                                       ELSE totalToRecv + 1
        /\ sender' = "counted"
        /\ UNCHANGED <<duplicateAck, network_timeout>>
  /\ UNCHANGED <<cycleVars, congestionVars, lastAckReceived, rtt_nrexmt, toClient>>

AwaitAck == sender = "awaiting" /\ ReadAck /\ HandleAck

(* read fails, for instance because the client has ended: the error is     *)
(* printed and the acknowledgement read before is handled once more, or    *)
(* what ack held before the first.                                         *)
FailedRead ==
  /\ sender = "awaiting"
  /\ UNCHANGED <<ack, toServer>>
  /\ HandleAck

(* A new acknowledgement is put on record and opens the window (slow start)*)
AcceptAck ==
  /\ sender = "counted"
  /\ rtt_nrexmt' = 0
  /\ lastAckReceived' = ack.currentRequest
  /\ duplicateAck' = 0
  /\ cwindow' = IF cwindow < ssthresh /\ cwindow < lastAdvtWindow
                THEN cwindow + 1 ELSE cwindow
  /\ sender' = "accepted"
  /\ UNCHANGED <<cycleVars, lastAdvtWindow, ssthresh, totalToRecv, ack,
                 network_timeout, toClient, toServer>>

(* Has every segment of this cycle been answered?                          *)
CheckCycle ==
  /\ sender = "accepted"
  /\ IF totalToRecv = totalToSend
     THEN lastAdvtWindow' = ack.advtWindow /\ sender' = "cycleEnded"
     ELSE UNCHANGED lastAdvtWindow /\ sender' = "awaiting"
  /\ UNCHANGED <<cycleVars, cwindow, ssthresh, ackVars, ack, rtt_nrexmt,
                 network_timeout, toClient, toServer>>

(* Mutation: the window is not halved.                                     *)
AddThree(window) == window + 3

AfterFastRetransmit(window) == window \div 2 + 3

(* The second repetition: fast retransmit.                                 *)
FastRetransmit ==
  /\ sender = "repeated"
  /\ SendSegment(lastAckReceived)
  /\ cwindow' = AfterFastRetransmit(cwindow)
  /\ rtt_nrexmt' = 0
  /\ sender' = "awaiting"
  /\ UNCHANGED <<cycleVars, lastAdvtWindow, ssthresh, ackVars, ack,
                 network_timeout, toServer>>

(* After the loop: congestion avoidance, then either PassiveClose or the   *)
(* next cycle.                                                             *)
EndCycle ==
  /\ sender = "cycleEnded"
  /\ cwindow' = IF cwindow >= ssthresh /\ cwindow < lastAdvtWindow
                THEN cwindow + 1 ELSE cwindow
  /\ IF ack.lastack_sent = 1
     THEN sender' = "closing" /\ UNCHANGED <<lastAdvtWindow, rtt_nrexmt>>
     ELSE /\ sender' = "starting"
          /\ lastAdvtWindow' = ack.advtWindow
          /\ rtt_nrexmt' = 0
  /\ UNCHANGED <<cycleVars, ssthresh, ackVars, ack, network_timeout,
                 toClient, toServer>>

(* PassiveClose, without the datagrams that it exchanges.                  *)
PassiveClose ==
  /\ sender = "closing"
  /\ sender' = "closed"
  /\ UNCHANGED <<cycleVars, congestionVars, ackVars, ack, rtt_nrexmt,
                 network_timeout, toClient, toServer>>

FinishTransfer ==
  /\ sender = "closed"
  /\ sender' = "complete"
  /\ rtt_nrexmt' = 0
  /\ UNCHANGED <<cycleVars, congestionVars, ackVars, ack, network_timeout, toClient, toServer>>
-----------------------------------------------------------------------------
(***************************************************************************)
(* clientWindowProbe: the segment last asked for is sent again until an    *)
(* answer shows an open window, which ends the cycle.                      *)
(***************************************************************************)
SendProbe ==
  /\ sender = "probing"
  /\ IF network_timeout = MaxProbeTimeouts
     THEN sender' = "terminated" /\ UNCHANGED toClient
     ELSE sender' = "probed" /\ SendSegment(ack.currentRequest)
  /\ UNCHANGED <<cycleVars, congestionVars, ackVars, ack, rtt_nrexmt,
                 network_timeout, toServer>>

ReadProbeAnswer ==
  /\ sender = "probed"
  /\ ReadAck
  /\ sender' = IF ack'.advtWindow # 0 THEN "cycleEnded" ELSE "probing"
  /\ UNCHANGED <<cycleVars, congestionVars, ackVars, rtt_nrexmt,
                 network_timeout, toClient>>

(* Mutation: probes are sent without an end.                               *)
ForgetProbe(unanswered) == unanswered

CountProbe(unanswered) == unanswered + 1

ProbeTimeout ==
  /\ sender = "probed"
  /\ network_timeout' = CountProbe(network_timeout)
  /\ sender' = "probing"
  /\ UNCHANGED <<cycleVars, congestionVars, ackVars, ack, rtt_nrexmt,
                 toClient, toServer>>
-----------------------------------------------------------------------------
(***************************************************************************)
(* The retransmission timer.                                               *)
(***************************************************************************)

(* Where SIGALRM can be delivered.  If set_alarm happens to hold it, only  *)
(* in the read and where the child unblocks the signals, at the end of a   *)
(* cycle and after PassiveClose; if not, wherever the timer is running.    *)
Interruptible ==
  \/ sender \in {"awaiting", "closed"}
  \/ sender = "cycleEnded" /\ ack.lastack_sent = 0
  \/ /\ ~AlarmMasked
     /\ sender \in {"counted", "accepted", "repeated", "cycleEnded", "probing",
                    "probed", "closing"}

(* Mutation: one timeout too many.                                         *)
GivesUpLate(retransmits) == retransmits > MaxRetransmits + 1

(* rtt_timeout returns -1.                                                 *)
GivesUp(retransmits) == retransmits > MaxRetransmits

(* signal_alarm jumps to the sigsetjmp: give up, or send the segment last  *)
(* asked for, rearm the timer, start over with a window of one segment and *)
(* go on reading, wherever the child was.                                  *)
Timeout ==
  /\ Interruptible
  /\ rtt_nrexmt' = rtt_nrexmt + 1
  /\ IF GivesUp(rtt_nrexmt')
     THEN sender' = "gaveUp" /\ UNCHANGED <<toClient, cwindow, ssthresh>>
     ELSE /\ SendSegment(ack.currentRequest)
          /\ cwindow' = 1
          /\ ssthresh' = IF ssthresh >= 2 * SmallestThreshold
                         THEN ssthresh \div 2 ELSE SmallestThreshold
          /\ sender' = "awaiting"
  /\ UNCHANGED <<cycleVars, lastAdvtWindow, ackVars, ack, network_timeout,
                 toServer>>

(* A SendSegment with a number that the file does not have may be the last *)
(* thing the child does.                                                   *)
CrashOutsideFile ==
  \/ sender = "sending" /\ i < totalToSend /\ CrashInSendSegment(index)
  \/ sender = "repeated" /\ CrashInSendSegment(lastAckReceived)
  \/ /\ sender = "probing" /\ network_timeout # MaxProbeTimeouts
     /\ CrashInSendSegment(ack.currentRequest)
  \/ /\ Interruptible
     /\ ~GivesUp(rtt_nrexmt + 1)
     /\ CrashInSendSegment(ack.currentRequest)

Child ==
  \/ StartCycle \/ SendNext \/ StartTimer \/ AwaitAck \/ AcceptAck
  \/ CheckCycle \/ FastRetransmit \/ EndCycle \/ PassiveClose
  \/ FinishTransfer \/ SendProbe \/ ReadProbeAnswer \/ ProbeTimeout

Server == Child \/ Timeout \/ CrashOutsideFile
-----------------------------------------------------------------------------
(***************************************************************************)
(* The client and the network, as much of them as the child can tell: the  *)
(* client may answer anything, and end at any time.                        *)
(***************************************************************************)
ClientAcks(answer) ==
  /\ Len(toServer) < SocketBuffer
  /\ toServer' = Append(toServer, answer)
  /\ UNCHANGED <<childVars, toClient>>

NetworkTakesSegment ==
  /\ toClient # << >>
  /\ toClient' = Tail(toClient)
  /\ UNCHANGED <<childVars, toServer>>

(* What arrives next is not always what was sent first.                    *)
NetworkReorders ==
  \/ /\ \E k \in 1 .. Len(toClient) : toClient' = Overtakes(toClient, k)
     /\ UNCHANGED <<childVars, toServer>>
  \/ /\ \E k \in 1 .. Len(toServer) : toServer' = Overtakes(toServer, k)
     /\ UNCHANGED <<childVars, toClient>>

(* Any request, with any window that the client can have open; a FIN is    *)
(* sent with zeros, an ACK with the words of what it answers.              *)
PossibleAcks ==
  [currentRequest: Requests, advtWindow: 0 .. ClientOriginalWindow,
   lastack_sent: {0, 1}]

Next ==
  \/ Server \/ FailedRead
  \/ \E answer \in PossibleAcks : ClientAcks(answer)
  \/ NetworkTakesSegment \/ NetworkReorders

Spec == Init /\ [][Next]_vars
-----------------------------------------------------------------------------
TypeOK ==
  /\ sender \in Places
  /\ index \in Nat /\ i \in Nat /\ totalToSend \in Nat /\ totalToRecv \in Nat
  /\ lastAdvtWindow \in Nat /\ cwindow \in Nat /\ ssthresh \in Nat
  /\ lastAckReceived \in Int /\ duplicateAck \in Nat
  /\ ack \in AckRead
  /\ rtt_nrexmt \in 0 .. MaxRetransmits + 1
  /\ network_timeout \in 0 .. MaxProbeTimeouts
  /\ toClient \in Seq(ServerDatagram)
  /\ toServer \in Seq(AckRead)

(* A cycle sends at least one segment and never more than the window that  *)
(* the client last advertised; one that sent none would wait for           *)
(* totalToRecv = 0, which the counting never reaches.                      *)
CycleFitsWindow ==
  /\ sender = "starting" => cwindow > 0 /\ lastAdvtWindow > 0
  /\ sender = "sending" => totalToSend \in 1 .. lastAdvtWindow /\ i <= totalToSend

(* Endless repetitions, timeouts, failing reads and congestion avoidance   *)
(* together keep the congestion window between 1 and the largest window    *)
(* read, and the threshold between 1 and the client's window; fast         *)
(* retransmit alone may exceed a window of less than 5.                    *)
WindowsBounded ==
  /\ cwindow >= 1 /\ (cwindow <= LargestWindow \/ cwindow <= 5)
  /\ ssthresh >= 1 /\ (ssthresh <= ClientOriginalWindow
                        \/ ssthresh <= SmallestThreshold)

(* The sending loop does not look for the end of the file: a cycle that    *)
(* starts before the end may run past it, but never further than the window*)
(* that the client has advertised.                                         *)
OverrunWithinWindow ==
  /\ index <= SegmentCount - 1 + LargestWindow
  /\ sender = "sending" =>
       index + totalToSend - i <= SegmentCount - 1 + lastAdvtWindow

(* Why these hold: what the last acknowledgement says in each place of the *)
(* code, and which places the give-up counters still allow.                *)
AckFitsPlace ==
  /\ sender \in {"counted", "accepted", "repeated"} =>
       ack.lastack_sent = 0 /\ ack.advtWindow > 0
  /\ sender = "cycleEnded" => ack.lastack_sent = 1 \/ ack.advtWindow > 0
  /\ ack.advtWindow <= LargestWindow
  /\ \A k \in 1 .. Len(toServer) :
       toServer[k].advtWindow <= ClientOriginalWindow
  /\ lastAdvtWindow \in 1 .. LargestWindow

CountersFitPlace ==
  /\ sender # "gaveUp" => rtt_nrexmt <= MaxRetransmits
  /\ sender = "probed" => network_timeout < MaxProbeTimeouts

Inv ==
  /\ TypeOK
  /\ CycleFitsWindow
  /\ WindowsBounded
  /\ AckFitsPlace
  /\ CountersFitPlace
=============================================================================
