------------------------- MODULE FileTransferProofs -------------------------
(***************************************************************************)
(* Theorems about the transfer, client and server child together: for      *)
(* every file, window, limit, build and loss, what the child takes as      *)
(* acknowledged is held by the client, and it closes only after delivery.  *)
(* What is written is the file, and the child is that of SendFile.         *)
(*                                                                         *)
(* The client's part of the invariant is that of ReceiveWindowProofs.  A   *)
(* step of the client is a step of ReceiveWindow; one of the child changes *)
(* nothing of the client but the two queues.                               *)
(***************************************************************************)
EXTENDS ReceiveWindowProofs, FileTransfer

(***************************************************************************)
(* The client's part.                                                      *)
(***************************************************************************)
OnlyFinalOutside == lastack = 1 => producer \notin {"reading", "received"}

FinalMeansAllHeld ==
  \A k \in 1 .. Len(toServer) : toServer[k].lastack_sent = 1 => AllHeld

ClientInv == AckInv /\ OnlyFinalOutside /\ FinalMeansAllHeld

LEMMA ClientInvInit == Init => ClientInv
<1> SUFFICES ASSUME Init PROVE ClientInv
  OBVIOUS
<1>1. Len(toServer) = 0
  BY EmptySeq DEF Init
<1> QED BY <1>1, AckInvInit DEF Init, ClientInv, OnlyFinalOutside, FinalMeansAllHeld

LEMMA ClientInvNext ==
  ASSUME ClientInv, Next
  PROVE  ClientInv'
<1>1. AckInv /\ AckInv' /\ Inv /\ Inv' /\ OnlyFinalOutside /\ FinalMeansAllHeld
  BY AckInvNext DEF ClientInv, AckInv
<1>2. OnlyFinalOutside'
  BY <1>1 DEF OnlyFinalOutside, Next, Producer, Consumer, Network, StoreSegment,
       DropLastAck, ComposeLastAck, SendLastAck, ReadSegment, DiscardSegment,
       LockWindow, FreeSlot, WriteSegment, UnlockWindow, EndConsumerLoop,
       NetworkDelivers, NetworkTakesAck, producerVars
<1>3. AllHeld => AllHeld'
  BY <1>1, HoldsIsStable, SizeAssumption
     DEF AllHeld, FileSegments, SegmentCount, GetSegmentCount
<1>4. FinalMeansAllHeld'
  <2>1. CASE AcksKept
    BY <1>1, <1>3, <2>1 DEF AcksKept, FinalMeansAllHeld
  <2>2. ASSUME NEW sent \in ClientAck, AckAppended(sent)
        PROVE  FinalMeansAllHeld'
    <3>1. sent.lastack_sent = 1 => AllHeld
      BY <1>1, <2>2 DEF AckAppended, OnlyFinalOutside, AckInv, LastAckMeansAllHeld, AllHeld
    <3>2. Len(toServer) \in Nat
      BY <1>1, LenProperties DEF Inv, TypeOK
    <3> SUFFICES ASSUME NEW k \in 1 .. Len(toServer) + 1, toServer'[k].lastack_sent = 1
                 PROVE  AllHeld'
      BY <2>2 DEF AckAppended, FinalMeansAllHeld
    <3>3. CASE k \in 1 .. Len(toServer)
      BY <1>1, <1>3, <2>2, <3>3 DEF AckAppended, FinalMeansAllHeld
    <3>4. CASE k = Len(toServer) + 1
      BY <1>3, <2>2, <3>1, <3>4 DEF AckAppended
    <3> QED BY <3>2, <3>3, <3>4
  <2> QED BY <1>1, <2>1, <2>2, QueuedAck
<1> QED BY <1>1, <1>2, <1>4 DEF ClientInv

(* What the child and the network may do to the two queues; the child      *)
(* leaves none when it ends.                                               *)
QueuesMove ==
  /\ toClient' \in Seq(ServerDatagram)
  /\ \/ toServer' = toServer
     \/ toServer # << >> /\ toServer' = Tail(toServer)
     \/ \E k \in 1 .. Len(toServer) : toServer' = Overtakes(toServer, k)
     \/ toServer' = << >>

(* Nothing new is queued; what is left may have changed its place.         *)
NoNewAcks ==
  \A k \in 1 .. Len(toServer') :
    \E n \in 1 .. Len(toServer) : toServer'[k] = toServer[n]

(* Every datagram of the one queue is one of the other.                   *)
OnlyOf(new, old) == \A m \in 1 .. Len(new) : \E n \in 1 .. Len(old) : new[m] = old[n]

(* Datagrams that change places are the datagrams that were there.         *)
LEMMA ReorderedTyped ==
  ASSUME NEW S, NEW queue \in Seq(S), NEW k \in 1 .. Len(queue)
  PROVE  Overtakes(queue, k) \in Seq(S) /\ OnlyOf(Overtakes(queue, k), queue)
<1>1. /\ Len(queue) \in Nat /\ 1 \in 1 .. Len(queue)
      /\ queue \in [1 .. Len(queue) -> S]
  BY LenProperties
<1>2. Overtakes(queue, k) \in [1 .. Len(queue) -> S]
  BY <1>1 DEF Overtakes
<1>3. \A m \in 1 .. Len(queue) : Overtakes(queue, k)[m] \in {queue[m], queue[1], queue[k]}
  BY <1>1 DEF Overtakes
<1>4. Overtakes(queue, k) \in Seq(S) /\ Len(Overtakes(queue, k)) = Len(queue)
  BY <1>1, <1>2, SeqDef, LenProperties
<1>5. OnlyOf(Overtakes(queue, k), queue)
  BY <1>1, <1>3, <1>4 DEF OnlyOf
<1> QED BY <1>4, <1>5

LEMMA QueuesKept ==
  ASSUME toServer \in Seq(ClientAck), QueuesMove
  PROVE  toServer' \in Seq(ClientAck) /\ NoNewAcks
<1>1. Len(toServer) \in Nat
  BY LenProperties
<1>2. CASE toServer' = toServer
  BY <1>1, <1>2 DEF NoNewAcks
<1>3. CASE toServer # << >> /\ toServer' = Tail(toServer)
  <2>1. /\ toServer' \in Seq(ClientAck) /\ Len(toServer') = Len(toServer) - 1
        /\ \A k \in 1 .. Len(toServer') : toServer'[k] = toServer[k + 1]
    BY <1>3, HeadTailProperties
  <2>2. \A k \in 1 .. Len(toServer') : k + 1 \in 1 .. Len(toServer)
    BY <1>1, <2>1
  <2> QED BY <2>1, <2>2 DEF NoNewAcks
<1>4. CASE \E k \in 1 .. Len(toServer) : toServer' = Overtakes(toServer, k)
  <2>1. PICK k \in 1 .. Len(toServer) : toServer' = Overtakes(toServer, k)
    BY <1>4
  <2>2. toServer' \in Seq(ClientAck) /\ OnlyOf(toServer', toServer)
    BY <2>1, ReorderedTyped, Zenon
  <2> QED BY <2>2 DEF NoNewAcks, OnlyOf
<1>5. CASE toServer' = << >>
  BY <1>5, EmptySeq DEF NoNewAcks
<1> QED BY <1>2, <1>3, <1>4, <1>5 DEF QueuesMove

LEMMA ClientInvQueues ==
  ASSUME ClientInv, UNCHANGED clientVars, QueuesMove
  PROVE  /\ ClientInv'
         /\ \A number \in Int : Holds(number) => Holds(number)'
<1>1. /\ UNCHANGED <<slots, currentIndex, mutex, advertised>>
      /\ UNCHANGED <<producer, segment, lastack, request>>
      /\ UNCHANGED <<consumer, isWindowFull, fetched, count, written>>
  BY DEF clientVars, producerVars, consumerVars
<1>2. toServer \in Seq(ClientAck)
  BY DEF ClientInv, AckInv, Inv, TypeOK
<1>3. toServer' \in Seq(ClientAck) /\ NoNewAcks
  BY <1>2, QueuesKept
<1>4. TypeOK' /\ ThreadsConsistent' /\ SlotsHoldWindow' /\ WrittenInOrder'
  BY <1>1, <1>3 DEF ClientInv, AckInv, Inv, TypeOK, ThreadsConsistent, SlotsHoldWindow,
                    WrittenInOrder, QueuesMove
<1>5. \A number : Holds(number)' <=> Holds(number)
  BY <1>1 DEF Holds
<1>6. AcksAreCumulative' /\ FinalMeansAllHeld'
  BY <1>3, <1>5 DEF NoNewAcks, ClientInv, AckInv, AcksAreCumulative, FinalMeansAllHeld, AllHeld
<1>7. RequestIsCumulative' /\ LastAckMeansAllHeld' /\ OnlyFinalOutside'
  BY <1>1, <1>5 DEF ClientInv, AckInv, RequestIsCumulative, LastAckMeansAllHeld,
                    OnlyFinalOutside
<1> QED BY <1>4, <1>5, <1>6, <1>7 DEF ClientInv, AckInv, Inv
-----------------------------------------------------------------------------
(***************************************************************************)
(* The child's part: what it has read it may rely on.  Only an             *)
(* acknowledgement with a window counts; what ack holds before the first   *)
(* was read has none.                                                      *)
(***************************************************************************)
ChildTyped ==
  /\ index \in Int /\ lastAckReceived \in Int
  /\ ack \in ClientAck

AckIsCovered ==
  ack.advtWindow # 0 => \A number \in 0 .. ack.currentRequest - 1 : Holds(number)

ChildInv ==
  /\ ChildTyped
  /\ AckIsCovered
  /\ AcknowledgedIsHeld
  /\ sender = "counted" => ack.advtWindow # 0
  /\ CloseAfterDelivery

TransferInv == ClientInv /\ ChildInv

LEMMA TransferInvInit == TransferInit => TransferInv
<1> SUFFICES ASSUME Init, Server!Init PROVE TransferInv
  BY DEF TransferInit
<1>1. /\ index = 0 /\ lastAckReceived = -1 /\ sender = "starting"
      /\ ack \in [currentRequest: UninitialisedRequest, advtWindow: {0}, lastack_sent: {0}]
  BY DEF Server!Init
<1>2. ack \in ClientAck /\ ack.advtWindow = 0 /\ ack.lastack_sent = 0
  <2>1. PICK stack \in UninitialisedRequest :
          ack = [currentRequest |-> stack, advtWindow |-> 0, lastack_sent |-> 0]
    BY <1>1
  <2> QED BY <2>1, StackAssumption DEF ClientAck
<1>3. ChildInv
  BY <1>1, <1>2 DEF ChildInv, ChildTyped, AckIsCovered, AcknowledgedIsHeld, CloseAfterDelivery
<1> QED BY <1>3, ClientInvInit DEF TransferInv

(* Sending, in whatever place: a datagram is appended or lost.             *)
LEMMA SendSegmentTyped ==
  ASSUME toClient \in Seq(ServerDatagram), NEW number \in Int, Server!SendSegment(number)
  PROVE  toClient' \in Seq(ServerDatagram)
<1>1. Server!DataSegment(number) \in ServerDatagram
  BY DEF Server!DataSegment, ServerDatagram
<1> QED BY <1>1 DEF Server!SendSegment

(* What a step of the child can do, as far as the invariant can tell.      *)
AckReadNow == toServer # << >> /\ ack' = Head(toServer) /\ toServer' = Tail(toServer)

ChildMoves ==
  /\ QueuesMove
  /\ index' \in Int
  /\ ack' = ack \/ AckReadNow
  /\ \/ lastAckReceived' = lastAckReceived
     \/ sender = "counted" /\ lastAckReceived' = ack.currentRequest /\ ack' = ack
  /\ sender' = "counted" => ack'.advtWindow # 0
  /\ sender' \in {"closing", "closed"} =>
       ack' = ack /\ (sender \in {"closing", "closed"} \/ ack.lastack_sent = 1)

LEMMA ServerMoves ==
  ASSUME TransferInv, Server!Server
  PROVE  ChildMoves
<1>1. toClient \in Seq(ServerDatagram) /\ index \in Int /\ lastAckReceived \in Int
      /\ ack.currentRequest \in Int
  BY DEF TransferInv, ClientInv, AckInv, Inv, TypeOK, ChildInv, ChildTyped, ClientAck
<1> USE DEF ChildMoves, QueuesMove, Server!cycleVars, Server!congestionVars, Server!ackVars
<1>2. CASE Server!StartCycle \/ Server!StartTimer
  BY <1>1, <1>2 DEF Server!StartCycle, Server!StartTimer
<1>3. CASE Server!SendNext
  <2>1. toClient' \in Seq(ServerDatagram)
    BY <1>1, <1>3, SendSegmentTyped DEF Server!SendNext
  <2> QED BY <1>1, <1>3, <2>1 DEF Server!SendNext
<1>4. CASE Server!AwaitAck
  BY <1>1, <1>4 DEF Server!AwaitAck, Server!ReadAck, Server!HandleAck, AckReadNow,
                    Server!WindowClosed
<1>5. CASE Server!AcceptAck \/ Server!CheckCycle
  BY <1>1, <1>5 DEF Server!AcceptAck, Server!CheckCycle
<1>6. CASE Server!FastRetransmit
  <2>1. toClient' \in Seq(ServerDatagram)
    BY <1>1, <1>6, SendSegmentTyped DEF Server!FastRetransmit
  <2> QED BY <1>1, <1>6, <2>1 DEF Server!FastRetransmit
<1>7. CASE Server!EndCycle \/ Server!PassiveClose \/ Server!FinishTransfer
  BY <1>1, <1>7 DEF Server!EndCycle, Server!PassiveClose, Server!FinishTransfer
<1>8. CASE Server!SendProbe
  <2>1. toClient' \in Seq(ServerDatagram)
    BY <1>1, <1>8, SendSegmentTyped DEF Server!SendProbe
  <2> QED BY <1>1, <1>8, <2>1 DEF Server!SendProbe
<1>9. CASE Server!ReadProbeAnswer \/ Server!ProbeTimeout
  BY <1>1, <1>9 DEF Server!ReadProbeAnswer, Server!ProbeTimeout, Server!ReadAck, AckReadNow
<1>10. CASE Server!Timeout
  <2>1. toClient' \in Seq(ServerDatagram)
    BY <1>1, <1>10, SendSegmentTyped DEF Server!Timeout
  <2> QED BY <1>1, <1>10, <2>1 DEF Server!Timeout
<1>11. CASE Server!CrashOutsideFile
  BY <1>1, <1>11 DEF Server!CrashOutsideFile, Server!CrashInSendSegment
<1> QED BY <1>2, <1>3, <1>4, <1>5, <1>6, <1>7, <1>8, <1>9, <1>10, <1>11
        DEF Server!Server, Server!Child

LEMMA ChildInvMoves ==
  ASSUME TransferInv, ChildMoves, UNCHANGED clientVars
  PROVE  TransferInv'
<1>1. ClientInv' /\ \A number \in Int : Holds(number) => Holds(number)'
  BY ClientInvQueues DEF ChildMoves, TransferInv
<1>2. AllHeld => AllHeld'
  BY <1>1, SizeAssumption DEF AllHeld, FileSegments, SegmentCount, GetSegmentCount
<1>3. ack \in ClientAck /\ index' \in Int /\ lastAckReceived \in Int
  BY DEF TransferInv, ChildInv, ChildTyped, ChildMoves
<1>4. CASE ack' = ack
  <2>1. AckIsCovered' /\ (ack'.lastack_sent = 1 => AllHeld')
    BY <1>1, <1>2, <1>3, <1>4 DEF TransferInv, ChildInv, AckIsCovered, AcknowledgedIsHeld,
                                  AllHeld, ClientAck
  <2>2. /\ lastAckReceived' \in Int
        /\ \A number \in 0 .. lastAckReceived' - 1 : Holds(number)'
    BY <1>1, <1>3, <1>4 DEF ChildMoves, TransferInv, ChildInv, AckIsCovered,
                            AcknowledgedIsHeld, ClientAck
  <2>3. CloseAfterDelivery'
    BY <1>2, <1>4 DEF ChildMoves, TransferInv, ChildInv, AcknowledgedIsHeld,
                      CloseAfterDelivery, AllHeld
  <2> QED BY <1>1, <1>3, <1>4, <2>1, <2>2, <2>3
          DEF TransferInv, ChildInv, ChildTyped, AcknowledgedIsHeld, ChildMoves, AllHeld
<1>5. CASE ack' # ack
  <2>1. toServer # << >> /\ ack' = Head(toServer)
    BY <1>5 DEF ChildMoves, AckReadNow
  <2>2. toServer \in Seq(ClientAck)
    BY DEF TransferInv, ClientInv, AckInv, Inv, TypeOK
  <2>3. 1 \in 1 .. Len(toServer) /\ ack' = toServer[1] /\ ack' \in ClientAck
    BY <2>1, <2>2, HeadTailProperties, LenProperties, EmptySeq
  <2>4. AckIsCovered' /\ (ack'.lastack_sent = 1 => AllHeld')
    BY <1>1, <1>2, <2>3 DEF TransferInv, ClientInv, AckInv, AcksAreCumulative,
         FinalMeansAllHeld, AckIsCovered, ClientAck
  <2>5. /\ lastAckReceived' \in Int
        /\ \A number \in 0 .. lastAckReceived' - 1 : Holds(number)'
    BY <1>1, <1>3, <1>5 DEF ChildMoves, TransferInv, ChildInv, AcknowledgedIsHeld
  <2>6. CloseAfterDelivery'
    BY <1>5 DEF ChildMoves, CloseAfterDelivery
  <2> QED BY <1>1, <1>3, <2>3, <2>4, <2>5, <2>6
          DEF TransferInv, ChildInv, ChildTyped, AcknowledgedIsHeld, ChildMoves, AllHeld
<1> QED BY <1>4, <1>5

(* What the client does while the child does nothing.                      *)
LEMMA ChildInvKept ==
  ASSUME TransferInv, ClientInv', UNCHANGED <<sender, index, lastAckReceived, ack>>,
         \A number \in Nat : Holds(number) => Holds(number)'
  PROVE  TransferInv'
<1>1. AllHeld => AllHeld'
  BY SizeAssumption DEF AllHeld, FileSegments, SegmentCount, GetSegmentCount
<1>2. ack \in ClientAck /\ lastAckReceived \in Int
  BY DEF TransferInv, ChildInv, ChildTyped
<1>3. AckIsCovered'
  BY <1>2 DEF TransferInv, ChildInv, AckIsCovered, ClientAck
<1>4. AcknowledgedIsHeld'
  BY <1>1, <1>2 DEF TransferInv, ChildInv, AcknowledgedIsHeld, AllHeld
<1>5. CloseAfterDelivery'
  BY <1>1 DEF TransferInv, ChildInv, CloseAfterDelivery, AllHeld
<1> QED BY <1>3, <1>4, <1>5 DEF TransferInv, ChildInv, ChildTyped

LEMMA TransferInvClient ==
  ASSUME TransferInv, ClientStep
  PROVE  TransferInv'
<1>1. Next /\ ClientInv /\ Inv
  BY DEF ClientStep, Next, TransferInv, ClientInv, AckInv
<1>2. ClientInv' /\ \A number \in Nat : Holds(number) => Holds(number)'
  BY <1>1, ClientInvNext, HoldsIsStable
<1>3. UNCHANGED <<sender, index, lastAckReceived, ack>>
  BY DEF ClientStep, serverVars
<1> QED BY <1>2, <1>3, ChildInvKept

LEMMA ReorderMoves ==
  ASSUME TransferInv, NetworkReorders
  PROVE  ChildMoves /\ UNCHANGED clientVars
<1>1. toClient \in Seq(ServerDatagram) /\ UNCHANGED <<sender, index, lastAckReceived, ack>>
  BY DEF NetworkReorders, Server!NetworkReorders, Server!childVars, Server!cycleVars,
         Server!ackVars, TransferInv, ClientInv, AckInv, Inv, TypeOK
<1>2. QueuesMove
  BY <1>1, ReorderedTyped
     DEF NetworkReorders, Server!NetworkReorders, Server!Overtakes, Overtakes, QueuesMove
<1> QED BY <1>1, <1>2 DEF NetworkReorders, ChildMoves, TransferInv, ChildInv, ChildTyped,
                          CloseAfterDelivery

LEMMA TransferInvNext == TransferInv /\ [TransferNext]_transferVars => TransferInv'
<1> SUFFICES ASSUME TransferInv, [TransferNext]_transferVars PROVE TransferInv'
  OBVIOUS
<1>1. CASE ServerStep
  BY <1>1, ServerMoves, ChildInvMoves DEF ServerStep
<1>2. CASE NetworkReorders
  BY <1>2, ReorderMoves, ChildInvMoves
<1>3. CASE UNCHANGED transferVars
  <2>1. UNCHANGED <<clientVars, sender, index, lastAckReceived, ack, toClient, toServer>>
    BY <1>3 DEF transferVars, serverVars
  <2>2. ChildMoves
    BY <2>1 DEF ChildMoves, QueuesMove, TransferInv, ClientInv, AckInv, Inv, TypeOK,
                ChildInv, ChildTyped, CloseAfterDelivery
  <2> QED BY <2>1, <2>2, ChildInvMoves
<1> QED BY <1>1, <1>2, <1>3, TransferInvClient DEF TransferNext
-----------------------------------------------------------------------------
(* What the child takes as acknowledged, and therefore never sends again   *)
(* (server.c:498), the client holds, whatever is lost or overtaken and     *)
(* wherever the timer interrupts.                                          *)
THEOREM Acknowledged == TransferSpec => []AcknowledgedIsHeld
<1>1. TransferInv => AcknowledgedIsHeld
  BY DEF TransferInv, ChildInv
<1> QED BY <1>1, TransferInvInit, TransferInvNext, PTL DEF TransferSpec

(* The child turns to PassiveClose (server.c:555-557) only when the client *)
(* has the file.                                                           *)
THEOREM ClosesAfterDelivery == TransferSpec => []CloseAfterDelivery
<1>1. TransferInv => CloseAfterDelivery
  BY DEF TransferInv, ChildInv
<1> QED BY <1>1, TransferInvInit, TransferInvNext, PTL DEF TransferSpec
-----------------------------------------------------------------------------
(***************************************************************************)
(* Up to the length of the file, what is written is the file.              *)
(***************************************************************************)

(* The only step of either process that writes.                            *)
LEMMA OneStepWrites == [TransferNext]_transferVars => WriteSegment \/ UNCHANGED written
BY DEF TransferNext, transferVars, clientVars, ClientStep, ServerStep, NetworkReorders,
       Producer, Consumer, ReadSegment, StoreSegment, DiscardSegment, DropLastAck, ComposeLastAck,
       SendLastAck, LockWindow, FreeSlot, UnlockWindow, EndConsumerLoop, consumerVars

(* Whatever the child sends from beyond its table (server.c:393) and in    *)
(* whatever order, the received file begins with the file (client.c:268),  *)
(* with no assumption about what is sent.                                  *)
THEOREM TransferDelivers == TransferSpec => FileInOrder
<1>1. TransferInit => Delivery!Init
  BY SizeAssumption, EmptySeq
     DEF TransferInit, Init, Delivery!Init, FilePart, SegmentCount, GetSegmentCount
<1>2. TransferInv /\ [TransferNext]_transferVars => [Delivery!WriteNext]_FilePart
  BY FilePartStep, OneStepWrites DEF TransferInv, ClientInv, AckInv
<1> QED BY <1>1, <1>2, TransferInvInit, TransferInvNext, PTL
        DEF TransferSpec, FileInOrder, DeliverySpec, Delivery!Spec
-----------------------------------------------------------------------------
(***************************************************************************)
(* The client that SendFile assumes: where Requests has every number, what *)
(* the two threads send is among what that client may send.                *)
(***************************************************************************)

(* What the threads ask for is the number of a segment, in every build.    *)
LEMMA NextAckIndexIsNat ==
  ASSUME NEW window, NEW first \in Nat
  PROVE  NextAckIndex(window, first) \in Nat
<1> DEFINE free == {n \in SlotNumbers : window[SlotOf(first + n)] = NoSegment}
<1>1. free \in SUBSET Nat
  BY WindowAssumption DEF SlotNumbers
<1>2. CASE free = {}
  BY <1>2, WindowAssumption DEF NextAckIndex, FallOffReturn
<1>3. CASE free # {}
  <2>1. Min(free) \in Nat
    BY <1>1, <1>3, MinOfNats
  <2> QED
    BY <1>3, <2>1 DEF NextAckIndex
<1> QED BY <1>2, <1>3

(* And with it goes a part of the window, unless the build returns the     *)
(* window's size for a full one.                                           *)
LEMMA AvailableIsInWindow ==
  ASSUME FullWindowReturn # "size", NEW window, NEW first \in Nat
  PROVE  AvailableWindowSize(window, first) \in 0 .. WindowSize
<1> DEFINE free == {n \in SlotNumbers : window[SlotOf(first + n)] = NoSegment}
<1>1. free \in SUBSET Nat /\ free \subseteq 0 .. WindowSize - 1 /\ WindowSize \in Nat \ {0}
  BY WindowAssumption DEF SlotNumbers
<1>2. CASE free = {}
  BY <1>1, <1>2, WindowAssumption DEF NextAckIndex, AvailableWindowSize, FallOffReturn
<1>3. CASE free # {}
  <2>1. Min(free) \in 0 .. WindowSize - 1
    BY <1>1, <1>3, MinOfNats
  <2>2. NextAckIndex(window, first) = first + Min(free)
    BY <1>3 DEF NextAckIndex
  <2> HIDE DEF free
  <2> QED
    BY <1>1, <2>1, <2>2 DEF AvailableWindowSize
<1> QED BY <1>2, <1>3

RequestIsNat == request \in Nat

LEMMA RequestIsNatNext ==
  ASSUME TransferInv, RequestIsNat, [TransferNext]_transferVars
  PROVE  RequestIsNat'
<1>1. NextAckIndex(slots, currentIndex) \in Nat
  BY NextAckIndexIsNat DEF TransferInv, ClientInv, AckInv, Inv, TypeOK
<1> QED BY <1>1 DEF RequestIsNat, TransferNext, ClientStep, ServerStep, NetworkReorders,
     transferVars, clientVars, producerVars, Producer, Consumer, StoreSegment, DropLastAck,
     ComposeLastAck, SendLastAck, ReadSegment, DiscardSegment, LockWindow, FreeSlot,
     WriteSegment, UnlockWindow, EndConsumerLoop

LEMMA ClientStepOfAnyClient ==
  ASSUME FullWindowReturn # "size", Nat \subseteq Requests,
         TransferInv, RequestIsNat, ClientStep
  PROVE  [Server!Next]_(Server!vars)
<1>1. /\ currentIndex \in Nat /\ request \in Nat /\ lastack \in {0, 1}
      /\ UNCHANGED serverVars
  BY DEF TransferInv, ClientInv, AckInv, Inv, TypeOK, RequestIsNat, ClientStep
<1>2. UNCHANGED Server!childVars
  BY <1>1 DEF serverVars, Server!childVars, Server!cycleVars, Server!congestionVars,
              Server!ackVars
<1>3. ASSUME NEW r \in Nat, NEW w \in 0 .. WindowSize, UNCHANGED toClient,
             SendClientAckWithLoss(r, w, lastack)
      PROVE  [Server!Next]_(Server!vars)
  <2> DEFINE sent == [currentRequest |-> r, advtWindow |-> w, lastack_sent |-> lastack]
  <2>1. sent \in Server!PossibleAcks
    BY <1>1 DEF Server!PossibleAcks
  <2>2. CASE UNCHANGED toServer
    BY <1>2, <1>3, <2>2 DEF Server!vars
  <2>3. CASE Len(toServer) < SocketBuffer /\ toServer' = Append(toServer, sent)
    <3>1. Server!ClientAcks(sent)
      BY <1>2, <1>3, <2>3 DEF Server!ClientAcks
    <3> QED BY <2>1, <3>1 DEF Server!Next
  <2> QED BY <1>3, <2>2, <2>3 DEF SendClientAckWithLoss
<1>4. /\ NextAckIndex(slots, currentIndex) \in Nat
      /\ NextAckIndex(slots', currentIndex) \in Nat
      /\ AvailableWindowSize(slots, currentIndex) \in 0 .. WindowSize
      /\ AvailableWindowSize(slots', currentIndex) \in 0 .. WindowSize
  BY <1>1, NextAckIndexIsNat, AvailableIsInWindow
<1>5. CASE StoreSegment
  BY <1>3, <1>4, <1>5 DEF StoreSegment
<1>6. CASE SendLastAck
  BY <1>1, <1>3, <1>4, <1>6 DEF SendLastAck
<1>7. CASE UnlockWindow
  <2>1. CASE UNCHANGED toServer
    BY <1>2, <1>7, <2>1 DEF UnlockWindow, Server!vars
  <2> QED BY <1>3, <1>4, <1>7, <2>1 DEF UnlockWindow
<1>8. CASE ReadSegment \/ DiscardSegment
  BY <1>2, <1>8 DEF ReadSegment, DiscardSegment, Server!NetworkTakesSegment, Server!Next
<1>9. CASE \/ DropLastAck \/ ComposeLastAck \/ LockWindow \/ FreeSlot \/ WriteSegment
           \/ EndConsumerLoop
  BY <1>2, <1>9 DEF DropLastAck, ComposeLastAck, LockWindow, FreeSlot, WriteSegment,
     EndConsumerLoop, Server!vars
<1> QED BY <1>5, <1>6, <1>7, <1>8, <1>9 DEF ClientStep, Producer, Consumer

(* The child of the transfer is the child of SendFile, unless the build    *)
(* returns the window's size for a full window: what holds of that one     *)
(* whatever the client answers holds here, where the client's two threads  *)
(* answer.                                                                 *)
THEOREM TransferHasTheChild ==
  ASSUME FullWindowReturn # "size", Nat \subseteq Requests
  PROVE  TransferSpec => ChildSpec
<1>1. TransferInit => Server!Init /\ RequestIsNat
  BY DEF TransferInit, Init, RequestIsNat
<1>2. TransferInv /\ RequestIsNat /\ [TransferNext]_transferVars
        => [Server!Next]_(Server!vars)
  <2> SUFFICES ASSUME TransferInv, RequestIsNat, [TransferNext]_transferVars
               PROVE  [Server!Next]_(Server!vars)
    OBVIOUS
  <2>1. CASE ClientStep
    BY <2>1, ClientStepOfAnyClient
  <2>2. CASE ServerStep
    BY <2>2 DEF ServerStep, Server!Next
  <2>3. CASE NetworkReorders
    BY <2>3 DEF NetworkReorders, Server!Next
  <2>4. CASE UNCHANGED transferVars
    BY <2>4 DEF transferVars, serverVars, Server!vars, Server!childVars,
                Server!cycleVars, Server!congestionVars, Server!ackVars
  <2> QED BY <2>1, <2>2, <2>3, <2>4 DEF TransferNext
<1>3. TransferInv /\ RequestIsNat /\ [TransferNext]_transferVars => RequestIsNat'
  BY RequestIsNatNext
<1> QED BY <1>1, <1>2, <1>3, TransferInvInit, TransferInvNext, PTL
        DEF TransferSpec, ChildSpec, Server!Spec
=============================================================================
