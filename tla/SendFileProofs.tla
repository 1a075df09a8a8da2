--------------------------- MODULE SendFileProofs ---------------------------
(***************************************************************************)
(* Theorems about the server child, for every file, client window, limit   *)
(* of retransmissions and probes, and for both contents of set_alarm.      *)
(***************************************************************************)
EXTENDS SendFile, SequenceTheorems, TLAPS

LEMMA FileTyped == SegmentCount \in Nat /\ FileSegments \subseteq Nat
BY SizeAssumption DEF SegmentCount, GetSegmentCount, FileSegments

LEMMA SendTyped ==
  ASSUME NEW number \in Int, toClient \in Seq(ServerDatagram), SendSegment(number)
  PROVE  toClient' \in Seq(ServerDatagram)
BY AppendProperties DEF SendSegment, DataSegment, ServerDatagram

(* What ReadAck leaves behind.                                             *)
LEMMA ReadTyped ==
  ASSUME Inv, ReadAck
  PROVE  /\ ack' \in AckRead /\ ack'.advtWindow <= LargestWindow
         /\ toServer' \in Seq(AckRead)
         /\ \A k \in 1 .. Len(toServer') :
              toServer'[k].advtWindow <= ClientOriginalWindow
<1>1. toServer \in Seq(AckRead) /\ toServer # << >>
  BY DEF Inv, TypeOK, ReadAck
<1>2. /\ toServer' \in Seq(AckRead) /\ Len(toServer') = Len(toServer) - 1
      /\ \A k \in 1 .. Len(toServer') : toServer'[k] = toServer[k + 1]
      /\ Head(toServer) \in AckRead
  BY <1>1, HeadTailProperties DEF ReadAck
<1>3. Len(toServer) \in Nat /\ Len(toServer) >= 1
  BY <1>1, EmptySeq, LenProperties
<1>4. \A k \in 1 .. Len(toServer') : k + 1 \in 1 .. Len(toServer)
  BY <1>2, <1>3
<1>5. ack' = toServer[1]
  BY <1>1 DEF ReadAck
<1>6. 1 \in 1 .. Len(toServer) /\ ack' \in AckRead
  BY <1>2, <1>3, <1>5 DEF ReadAck
<1>7. ack'.advtWindow \in Nat /\ ack'.advtWindow <= ClientOriginalWindow
  BY <1>5, <1>6 DEF Inv, AckFitsPlace, AckRead
<1>8. ack'.advtWindow <= LargestWindow
  BY <1>7, SenderAssumption
<1> QED BY <1>2, <1>3, <1>4, <1>6, <1>8 DEF Inv, AckFitsPlace

LEMMA SenderInvInit == Init => Inv
<1> SUFFICES ASSUME Init PROVE Inv
  OBVIOUS
<1> USE SenderAssumption DEF Init
<1>1. Len(toServer) = 0 /\ toServer \in Seq(AckRead) /\ toClient \in Seq(ServerDatagram)
  BY EmptySeq
<1>2. ack \in AckRead /\ ack.advtWindow <= LargestWindow
  BY DEF AckRead
<1>3. TypeOK
  BY <1>1, <1>2 DEF TypeOK, Places
<1>4. CycleFitsWindow /\ WindowsBounded /\ CountersFitPlace
  BY DEF CycleFitsWindow, WindowsBounded, CountersFitPlace
<1>5. AckFitsPlace
  BY <1>1, <1>2 DEF AckFitsPlace
<1> QED BY <1>3, <1>4, <1>5 DEF Inv

(* The cycle: its start, its sending loop and its end.                     *)
LEMMA SenderInvCycle ==
  ASSUME Inv, StartCycle \/ SendNext \/ StartTimer \/ EndCycle
  PROVE  Inv'
<1> USE SenderAssumption, FileTyped DEF Inv
<1>1. CASE StartCycle
  <2> USE <1>1 DEF StartCycle, BeforeEnd, congestionVars, ackVars
  <2>1. TypeOK'
    BY DEF TypeOK, Places, Ended
  <2>2. CycleFitsWindow' /\ WindowsBounded' /\ CountersFitPlace'
    BY DEF TypeOK, CycleFitsWindow, WindowsBounded, CountersFitPlace
  <2>3. AckFitsPlace'
    BY DEF AckFitsPlace
  <2> QED BY <2>1, <2>2, <2>3
<1>2. CASE SendNext
  <2> USE <1>2 DEF SendNext, congestionVars, ackVars
  <2>1. toClient' \in Seq(ServerDatagram)
    BY SendTyped DEF TypeOK
  <2>2. TypeOK'
    BY <2>1 DEF TypeOK, Places
  <2>3. CycleFitsWindow' /\ WindowsBounded' /\ CountersFitPlace'
    BY DEF TypeOK, CycleFitsWindow, WindowsBounded, CountersFitPlace
  <2>4. AckFitsPlace'
    BY DEF AckFitsPlace
  <2> QED BY <2>2, <2>3, <2>4
<1>3. CASE StartTimer
  <2> USE <1>3 DEF StartTimer, cycleVars, congestionVars
  <2>1. TypeOK'
    BY DEF TypeOK, Places
  <2>2. CycleFitsWindow' /\ WindowsBounded' /\ CountersFitPlace'
    BY DEF TypeOK, CycleFitsWindow, WindowsBounded, CountersFitPlace
  <2>3. AckFitsPlace'
    BY DEF AckFitsPlace
  <2> QED BY <2>1, <2>2, <2>3
<1>4. CASE EndCycle
  <2> USE <1>4 DEF EndCycle, cycleVars, ackVars
  <2>1. ack.advtWindow \in Nat
    BY DEF TypeOK, AckRead
  <2>2. TypeOK'
    BY <2>1 DEF TypeOK, Places
  <2>3. AckFitsPlace'
    BY <2>1 DEF AckFitsPlace
  <2>4. CycleFitsWindow' /\ WindowsBounded' /\ CountersFitPlace'
    BY <2>1 DEF TypeOK, CycleFitsWindow, WindowsBounded, CountersFitPlace,
                AckFitsPlace
  <2> QED BY <2>2, <2>3, <2>4
<1> QED BY <1>1, <1>2, <1>3, <1>4

(* The loop that reads acknowledgements.                                   *)
LEMMA SenderInvAwaitAck ==
  ASSUME Inv, AwaitAck \/ FailedRead
  PROVE  Inv'
<1> USE SenderAssumption DEF Inv
<1>1. /\ sender = "awaiting" /\ ack' \in AckRead
      /\ ack'.advtWindow \in Nat /\ ack'.advtWindow <= LargestWindow
      /\ toServer' \in Seq(AckRead)
      /\ \A k \in 1 .. Len(toServer') :
           toServer'[k].advtWindow <= ClientOriginalWindow
  <2>1. CASE AwaitAck
    BY <2>1, ReadTyped DEF AwaitAck, AckRead
  <2>2. CASE FailedRead
    BY <2>2 DEF FailedRead, AckRead, TypeOK, AckFitsPlace
  <2> QED BY <2>1, <2>2
<1>0. HandleAck
  BY DEF AwaitAck, FailedRead
<1>2. /\ UNCHANGED <<cycleVars, congestionVars, lastAckReceived, rtt_nrexmt,
                     toClient>>
      /\ totalToRecv' \in Nat /\ duplicateAck' \in Nat
      /\ network_timeout' \in 0 .. MaxProbeTimeouts
      /\ \/ sender' = "cycleEnded" /\ ack'.lastack_sent = 1
         \/ sender' \in {"probing", "awaiting"}
         \/ /\ sender' \in {"counted", "repeated"}
            /\ ack'.lastack_sent = 0 /\ ack'.advtWindow > 0
  <2>1. /\ totalToRecv \in Nat /\ totalToSend \in Nat /\ duplicateAck \in Nat
        /\ network_timeout \in 0 .. MaxProbeTimeouts /\ 0 \in 0 .. MaxProbeTimeouts
    BY DEF TypeOK
  <2>2. /\ totalToRecv' \in Nat /\ duplicateAck' \in Nat
        /\ network_timeout' \in 0 .. MaxProbeTimeouts
    BY <1>0, <2>1 DEF HandleAck
  <2>3. \/ sender' = "cycleEnded" /\ ack'.lastack_sent = 1
        \/ sender' \in {"probing", "awaiting"}
        \/ /\ sender' \in {"counted", "repeated"}
           /\ ack'.lastack_sent = 0 /\ ack'.advtWindow # 0
    BY <1>0 DEF HandleAck, WindowClosed
  <2>4. UNCHANGED <<cycleVars, congestionVars, lastAckReceived, rtt_nrexmt, toClient>>
    BY <1>0 DEF HandleAck
  <2> QED BY <1>1, <2>2, <2>3, <2>4
<1> USE <1>2 DEF cycleVars, congestionVars
<1>3. TypeOK'
  BY <1>1 DEF TypeOK, Places
<1>4. CycleFitsWindow' /\ WindowsBounded'
  BY DEF TypeOK, CycleFitsWindow, WindowsBounded
<1>5. AckFitsPlace'
  BY <1>1 DEF AckFitsPlace
<1>6. CountersFitPlace'
  BY <1>1 DEF TypeOK, CountersFitPlace
<1> QED BY <1>3, <1>4, <1>5, <1>6

LEMMA SenderInvAccept ==
  ASSUME Inv, AcceptAck \/ CheckCycle
  PROVE  Inv'
<1> USE SenderAssumption DEF Inv
<1>1. ack.currentRequest \in Int /\ ack.advtWindow \in Nat
  BY DEF TypeOK, AckRead
<1>2. CASE AcceptAck
  <2> USE <1>2 DEF AcceptAck, cycleVars
  <2>1. TypeOK'
    BY <1>1 DEF TypeOK, Places
  <2>2. CycleFitsWindow' /\ WindowsBounded' /\ CountersFitPlace'
    BY DEF TypeOK, CycleFitsWindow, WindowsBounded, CountersFitPlace,
           AckFitsPlace
  <2>3. AckFitsPlace'
    BY DEF AckFitsPlace
  <2> QED BY <2>1, <2>2, <2>3
<1>3. CASE CheckCycle
  <2> USE <1>3 DEF CheckCycle, cycleVars, ackVars
  <2>1. TypeOK'
    BY <1>1 DEF TypeOK, Places
  <2>2. CycleFitsWindow' /\ WindowsBounded' /\ CountersFitPlace'
    BY DEF TypeOK, CycleFitsWindow, WindowsBounded, CountersFitPlace
  <2>3. AckFitsPlace'
    BY <1>1 DEF AckFitsPlace
  <2> QED BY <2>1, <2>2, <2>3
<1> QED BY <1>2, <1>3

LEMMA SenderInvFastRetransmit ==
  ASSUME Inv, FastRetransmit
  PROVE  Inv'
<1> USE SenderAssumption DEF Inv, FastRetransmit, cycleVars, ackVars
<1>1. toClient' \in Seq(ServerDatagram)
  BY SendTyped DEF TypeOK
<1>2. /\ cwindow' \in Nat /\ cwindow' >= 1
      /\ cwindow' <= LargestWindow \/ cwindow' <= 5
  BY DEF TypeOK, WindowsBounded, AfterFastRetransmit
<1>3. TypeOK'
  BY <1>1, <1>2 DEF TypeOK, Places
<1>4. CycleFitsWindow' /\ WindowsBounded' /\ CountersFitPlace'
  BY <1>2 DEF TypeOK, CycleFitsWindow, WindowsBounded, CountersFitPlace
<1>5. AckFitsPlace'
  BY DEF AckFitsPlace
<1> QED BY <1>3, <1>4, <1>5

LEMMA SenderInvClose ==
  ASSUME Inv, PassiveClose \/ FinishTransfer
  PROVE  Inv'
<1> USE SenderAssumption DEF Inv, cycleVars, congestionVars, ackVars
<1>0. /\ UNCHANGED <<cycleVars, congestionVars, ackVars, ack, network_timeout,
                     toClient, toServer>>
      /\ sender' \in {"closed", "complete"}
      /\ sender # "gaveUp" /\ rtt_nrexmt' \in {0, rtt_nrexmt}
  BY DEF PassiveClose, FinishTransfer
<1>1. TypeOK'
  BY <1>0 DEF TypeOK, Places, Ended
<1>2. CycleFitsWindow' /\ WindowsBounded' /\ CountersFitPlace'
  BY <1>0 DEF TypeOK, CycleFitsWindow, WindowsBounded, CountersFitPlace
<1>3. AckFitsPlace'
  BY <1>0 DEF AckFitsPlace
<1> QED BY <1>1, <1>2, <1>3

(* clientWindowProbe.                                                      *)
LEMMA SenderInvProbe ==
  ASSUME Inv, SendProbe \/ ReadProbeAnswer \/ ProbeTimeout
  PROVE  Inv'
<1> USE SenderAssumption DEF Inv, cycleVars, congestionVars, ackVars
<1>1. CASE SendProbe
  <2> USE <1>1 DEF SendProbe
  <2>1. toClient' \in Seq(ServerDatagram)
    BY SendTyped DEF TypeOK, AckRead
  <2>2. TypeOK'
    BY <2>1 DEF TypeOK, Places, Ended
  <2>3. CycleFitsWindow' /\ WindowsBounded' /\ CountersFitPlace'
    BY DEF TypeOK, CycleFitsWindow, WindowsBounded, CountersFitPlace
  <2>4. AckFitsPlace'
    BY DEF AckFitsPlace
  <2> QED BY <2>2, <2>3, <2>4
<1>2. CASE ReadProbeAnswer
  <2>1. /\ ack' \in AckRead
        /\ ack'.advtWindow \in Nat /\ ack'.advtWindow <= LargestWindow
        /\ toServer' \in Seq(AckRead)
        /\ \A k \in 1 .. Len(toServer') :
             toServer'[k].advtWindow <= ClientOriginalWindow
    BY <1>2, ReadTyped DEF ReadProbeAnswer, AckRead
  <2> USE <1>2 DEF ReadProbeAnswer
  <2>2. TypeOK'
    BY <2>1 DEF TypeOK, Places
  <2>3. CycleFitsWindow' /\ WindowsBounded' /\ CountersFitPlace'
    BY DEF TypeOK, CycleFitsWindow, WindowsBounded, CountersFitPlace
  <2>4. AckFitsPlace'
    BY <2>1 DEF AckFitsPlace
  <2> QED BY <2>2, <2>3, <2>4
<1>3. CASE ProbeTimeout
  <2> USE <1>3 DEF ProbeTimeout, CountProbe
  <2>1. TypeOK'
    BY DEF TypeOK, Places, CountersFitPlace
  <2>2. CycleFitsWindow' /\ WindowsBounded' /\ CountersFitPlace'
    BY DEF TypeOK, CycleFitsWindow, WindowsBounded, CountersFitPlace
  <2>3. AckFitsPlace'
    BY DEF AckFitsPlace
  <2> QED BY <2>1, <2>2, <2>3
<1> QED BY <1>1, <1>2, <1>3

(* SIGALRM: rtt_timeout and the code behind sigsetjmp.                     *)
LEMMA SenderInvTimeout ==
  ASSUME Inv, Timeout
  PROVE  Inv'
<1> USE SenderAssumption DEF Inv, Timeout, GivesUp, cycleVars, ackVars
<1>1. sender # "gaveUp"
  BY DEF Interruptible
<1>2. rtt_nrexmt' \in 0 .. MaxRetransmits + 1
  BY <1>1 DEF TypeOK, CountersFitPlace
<1>3. CASE GivesUp(rtt_nrexmt')
  <2>1. sender' = "gaveUp" /\ UNCHANGED <<toClient, cwindow, ssthresh>>
    BY <1>3
  <2>2. TypeOK'
    BY <1>2, <2>1 DEF TypeOK, Places, Ended
  <2>3. CycleFitsWindow' /\ WindowsBounded' /\ CountersFitPlace'
    BY <2>1 DEF TypeOK, CycleFitsWindow, WindowsBounded, CountersFitPlace
  <2>4. AckFitsPlace'
    BY <2>1 DEF AckFitsPlace
  <2> QED BY <2>2, <2>3, <2>4
<1>4. CASE ~GivesUp(rtt_nrexmt')
  <2>1. toClient' \in Seq(ServerDatagram)
    BY <1>4, SendTyped DEF TypeOK, AckRead
  <2>2. /\ cwindow' = 1 /\ sender' = "awaiting"
        /\ ssthresh' \in Nat /\ ssthresh' >= 1
        /\ ssthresh' <= ClientOriginalWindow \/ ssthresh' <= SmallestThreshold
    BY <1>4 DEF TypeOK, WindowsBounded
  <2>3. TypeOK'
    BY <1>2, <2>1, <2>2 DEF TypeOK, Places
  <2>4. CycleFitsWindow' /\ WindowsBounded' /\ CountersFitPlace'
    BY <1>2, <1>4, <2>2
       DEF TypeOK, CycleFitsWindow, WindowsBounded, CountersFitPlace
  <2>5. AckFitsPlace'
    BY <2>2 DEF AckFitsPlace
  <2> QED BY <2>3, <2>4, <2>5
<1> QED BY <1>3, <1>4

LEMMA SenderInvCrash ==
  ASSUME Inv, CrashOutsideFile
  PROVE  Inv'
<1> USE SenderAssumption DEF Inv
<1>1. /\ sender' = "crashed" /\ sender # "gaveUp"
      /\ UNCHANGED <<cycleVars, congestionVars, ackVars, ack, rtt_nrexmt,
                     network_timeout, toClient, toServer>>
  BY DEF CrashOutsideFile, CrashInSendSegment, Interruptible
<1> USE <1>1 DEF cycleVars, congestionVars, ackVars
<1>2. TypeOK'
  BY DEF TypeOK, Places, Ended
<1>3. CycleFitsWindow' /\ WindowsBounded' /\ CountersFitPlace'
  BY DEF TypeOK, CycleFitsWindow, WindowsBounded, CountersFitPlace
<1>4. AckFitsPlace'
  BY DEF AckFitsPlace
<1> QED BY <1>2, <1>3, <1>4

LEMMA SenderInvNetwork ==
  ASSUME Inv, NetworkTakesSegment \/ \E answer \in PossibleAcks : ClientAcks(answer)
  PROVE  Inv'
<1> USE SenderAssumption, FileTyped
        DEF Inv, childVars, cycleVars, congestionVars, ackVars
<1>1. CASE NetworkTakesSegment
  <2> USE <1>1 DEF NetworkTakesSegment
  <2>1. toClient' \in Seq(ServerDatagram)
    BY HeadTailProperties DEF TypeOK
  <2>2. TypeOK'
    BY <2>1 DEF TypeOK
  <2>3. CycleFitsWindow' /\ WindowsBounded' /\ CountersFitPlace'
    BY DEF TypeOK, CycleFitsWindow, WindowsBounded, CountersFitPlace
  <2>4. AckFitsPlace'
    BY DEF AckFitsPlace
  <2> QED BY <2>2, <2>3, <2>4
<1>2. ASSUME NEW answer \in PossibleAcks, ClientAcks(answer)
      PROVE  Inv'
  <2>1. answer \in AckRead /\ answer.advtWindow <= ClientOriginalWindow
    <3>1. PICK r \in Requests, w \in 0 .. ClientOriginalWindow, last \in {0, 1} :
            answer = [currentRequest |-> r, advtWindow |-> w, lastack_sent |-> last]
      BY DEF PossibleAcks
    <3>2. r \in Int
      OBVIOUS
    <3> QED BY <3>1, <3>2 DEF AckRead
  <2>2. /\ toServer' \in Seq(AckRead) /\ Len(toServer') = Len(toServer) + 1
        /\ \A k \in 1 .. Len(toServer) : toServer'[k] = toServer[k]
        /\ toServer'[Len(toServer) + 1] = answer
        /\ Len(toServer) \in Nat
    BY <1>2, <2>1, AppendProperties, LenProperties DEF ClientAcks, TypeOK
  <2>3. TypeOK'
    BY <1>2, <2>2 DEF TypeOK, ClientAcks
  <2>4. CycleFitsWindow' /\ WindowsBounded' /\ CountersFitPlace'
    BY <1>2 DEF TypeOK, CycleFitsWindow, WindowsBounded, CountersFitPlace,
                ClientAcks
  <2>5. AckFitsPlace'
    BY <1>2, <2>1, <2>2 DEF AckFitsPlace, ClientAcks
  <2> QED BY <2>3, <2>4, <2>5
<1> QED BY <1>1, <1>2

(* Every datagram of the one queue is one of the other.                   *)
OnlyOf(new, old) == \A m \in 1 .. Len(new) : \E n \in 1 .. Len(old) : new[m] = old[n]

(* On the way nothing changes but the order.                               *)
LEMMA ReorderedTyped ==
  ASSUME NEW S, NEW queue \in Seq(S), NEW k \in 1 .. Len(queue)
  PROVE  Overtakes(queue, k) \in Seq(S) /\ OnlyOf(Overtakes(queue, k), queue)
<1>1. /\ Len(queue) \in Nat /\ 1 \in 1 .. Len(queue)
      /\ queue \in [1 .. Len(queue) -> S]
  BY LenProperties
<1>2. Overtakes(queue, k) \in [1 .. Len(queue) -> S]
  BY <1>1 DEF Overtakes
<1>3. \A m \in 1 .. Len(queue) : Overtakes(queue, k)[m] \in {queue[m], queue[1], queue[k]}
  BY <1>1 DEF Overtakes
<1>4. Overtakes(queue, k) \in Seq(S) /\ Len(Overtakes(queue, k)) = Len(queue)
  BY <1>1, <1>2, SeqDef, LenProperties
<1>5. OnlyOf(Overtakes(queue, k), queue)
  BY <1>1, <1>3, <1>4 DEF OnlyOf
<1> QED BY <1>4, <1>5

LEMMA SenderInvReorders ==
  ASSUME Inv, NetworkReorders
  PROVE  Inv'
<1> USE DEF Inv, childVars, cycleVars, congestionVars, ackVars
<1>1. /\ UNCHANGED childVars
      /\ toClient' \in Seq(ServerDatagram) /\ toServer' \in Seq(AckRead)
      /\ \A k \in 1 .. Len(toServer') : toServer'[k].advtWindow <= ClientOriginalWindow
  <2>0. toClient \in Seq(ServerDatagram) /\ toServer \in Seq(AckRead)
    BY DEF TypeOK
  <2>1. CASE \E k \in 1 .. Len(toClient) : toClient' = Overtakes(toClient, k)
                                      /\ UNCHANGED <<childVars, toServer>>
    <3>1. PICK k \in 1 .. Len(toClient) : toClient' = Overtakes(toClient, k)
      BY <2>1
    <3>2. toClient' \in Seq(ServerDatagram)
      BY ONLY <2>0, <3>1, ReorderedTyped, Zenon
    <3> QED BY <2>0, <2>1, <3>1, <3>2 DEF AckFitsPlace
  <2>2. CASE \E k \in 1 .. Len(toServer) : toServer' = Overtakes(toServer, k)
                                      /\ UNCHANGED <<childVars, toClient>>
    <3>1. PICK k \in 1 .. Len(toServer) : toServer' = Overtakes(toServer, k)
      BY <2>2
    <3>2. toServer' \in Seq(AckRead) /\ OnlyOf(toServer', toServer)
      BY ONLY <2>0, <3>1, ReorderedTyped, Zenon
    <3>3. \A m \in 1 .. Len(toServer') : toServer'[m].advtWindow <= ClientOriginalWindow
      BY <3>2 DEF AckFitsPlace, OnlyOf
    <3> QED BY <2>0, <2>2, <3>2, <3>3
  <2> QED BY <2>1, <2>2 DEF NetworkReorders
<1>2. TypeOK'
  BY <1>1 DEF TypeOK
<1>3. CycleFitsWindow' /\ WindowsBounded' /\ CountersFitPlace'
  BY <1>1 DEF TypeOK, CycleFitsWindow, WindowsBounded, CountersFitPlace
<1>4. AckFitsPlace'
  BY <1>1 DEF AckFitsPlace
<1> QED BY <1>2, <1>3, <1>4

LEMMA SenderInvNext == Inv /\ [Next]_vars => Inv'
<1> SUFFICES ASSUME Inv, [Next]_vars PROVE Inv'
  OBVIOUS
<1>1. CASE Child
  BY <1>1, SenderInvCycle, SenderInvAwaitAck, SenderInvAccept,
     SenderInvFastRetransmit, SenderInvClose, SenderInvProbe DEF Child
<1>2. CASE Timeout \/ CrashOutsideFile \/ FailedRead
  BY <1>2, SenderInvTimeout, SenderInvCrash, SenderInvAwaitAck
<1>3. CASE NetworkTakesSegment \/ \E answer \in PossibleAcks : ClientAcks(answer)
  BY <1>3, SenderInvNetwork
<1>4. CASE NetworkReorders
  BY <1>4, SenderInvReorders
<1>5. CASE UNCHANGED vars
  BY <1>5 DEF vars, childVars, cycleVars, congestionVars, ackVars, Inv, TypeOK,
              CycleFitsWindow, WindowsBounded, AckFitsPlace, CountersFitPlace
<1> QED BY <1>1, <1>2, <1>3, <1>4, <1>5 DEF Next, Server

(* The inductive invariant of the child, whatever the client answers,      *)
(* wherever the timer interrupts and whichever reads fail.                 *)
THEOREM SenderInv == Spec => []Inv
BY SenderInvInit, SenderInvNext, PTL DEF Spec

(* Type correctness; in it, that the child gives up in time: no counter    *)
(* passes its limit (rtt.c:123, server.c:793).                             *)
THEOREM SenderTypeCorrect == Spec => []TypeOK
BY SenderInv, PTL DEF Inv

(* No cycle is empty and none exceeds the advertised window                *)
(* (server.c:391-397).                                                     *)
THEOREM SenderWithinWindow == Spec => []CycleFitsWindow
BY SenderInv, PTL DEF Inv

(* Past the end of the file the child sends less than the window that the  *)
(* client has advertised (server.c:393).                                   *)
THEOREM OverrunIsLimited == Spec => []OverrunWithinWindow
<1>1. Init => OverrunWithinWindow
  BY FileTyped, SenderAssumption DEF Init, OverrunWithinWindow
<1>2. Inv /\ OverrunWithinWindow /\ [Next]_vars => OverrunWithinWindow'
  <2> SUFFICES ASSUME Inv, OverrunWithinWindow, [Next]_vars
               PROVE  OverrunWithinWindow'
    OBVIOUS
  <2>1. /\ SegmentCount \in Nat /\ LargestWindow \in Nat
        /\ index \in Nat /\ i \in Nat /\ totalToSend \in Nat
        /\ lastAdvtWindow \in Nat /\ cwindow \in Nat
        /\ lastAdvtWindow <= LargestWindow
    BY FileTyped, SenderAssumption DEF Inv, TypeOK, AckFitsPlace
  <2>2. CASE StartCycle
    BY <2>1, <2>2 DEF StartCycle, BeforeEnd, congestionVars, OverrunWithinWindow
  <2>3. CASE SendNext
    BY <2>1, <2>3 DEF SendNext, congestionVars, OverrunWithinWindow
  <2>4. CASE ~StartCycle /\ ~SendNext
    <3>1. /\ UNCHANGED cycleVars
          /\ sender' = "sending" => sender = "sending" /\ UNCHANGED lastAdvtWindow
      BY <2>4 DEF Next, Server, Child, StartTimer, NetworkReorders, congestionVars, AwaitAck, FailedRead, HandleAck, AcceptAck,
         CheckCycle, FastRetransmit, EndCycle, PassiveClose, FinishTransfer, SendProbe,
         ReadProbeAnswer, ProbeTimeout, Timeout, CrashOutsideFile, CrashInSendSegment,
         ClientAcks, NetworkTakesSegment, childVars, vars
    <3> QED BY <3>1 DEF cycleVars, OverrunWithinWindow
  <2> QED BY <2>2, <2>3, <2>4
<1> QED BY <1>1, <1>2, SenderInv, PTL DEF Spec

(* Congestion window and threshold stay within their bounds through every  *)
(* mixture of slow start, avoidance, fast retransmit and timeouts.         *)
THEOREM SenderWindowsBounded == Spec => []WindowsBounded
BY SenderInv, PTL DEF Inv
=============================================================================
