--------------------------- MODULE ConnectionProofs ---------------------------
(***************************************************************************)
(* Theorems about a whole connection, in which the two ways of closing     *)
(* share the sockets with the transfer and overlap with it: for every      *)
(* file, window, limit, build and loss.                                    *)
(***************************************************************************)
EXTENDS FileTransferProofs, Connection

(* PassiveClose has read a FIN as its first datagram.                      *)
Answers == {"replying", "replied", "waiting", "unanswered", "acked"}

(* ActiveClose is entered with the whole file written; only it sends FINs  *)
(* and ACKs, since the main thread's requests are never negative, and ACKs *)
(* only when it has read a FIN.                                            *)
ClosingInv ==
  /\ request \in Nat
  /\ currentState \in Closing!ActiveCloseStates
  /\ consumer = "closing" => AllWritten
  /\ \A k \in 1 .. Len(toServer) :
       /\ toServer[k].currentRequest < 0 => consumer = "closing"
       /\ toServer[k].currentRequest = ACK_REQUEST => Closing!ServerFinRead
  /\ passive \in Answers => consumer = "closing"
  /\ passive = "acked" => Closing!ServerFinRead

ConnectionInv == TransferInv /\ ClosingInv

LEMMA ConnectionInvInit == ConnectionInit => ConnectionInv
<1> SUFFICES ASSUME TransferInit, Closing!Init PROVE ConnectionInv
  BY DEF ConnectionInit
<1>1. Len(toServer) = 0 /\ request = 0 /\ consumer = "idle"
  BY EmptySeq DEF TransferInit, Init
<1>2. passive = "reading" /\ currentState \in Closing!ActiveCloseStates
  BY DEF Closing!Init, Closing!ActiveCloseStates
<1> QED BY <1>1, <1>2, TransferInvInit DEF ConnectionInv, ClosingInv, Answers
-----------------------------------------------------------------------------
(***************************************************************************)
(* The transfer goes on.                                                   *)
(***************************************************************************)

LEMMA ClientTransfersKeeps ==
  ASSUME ConnectionInv, ClientTransfers
  PROVE  ConnectionInv'
<1>1. /\ ClientStep /\ TransferInv /\ TransferInv'
      /\ UNCHANGED <<passive, currentState>>
  BY TransferInvClient DEF ClientTransfers, activeVars, passiveVars, ConnectionInv
<1>2. /\ toServer \in Seq(ClientAck) /\ currentIndex \in Nat /\ lastack \in {0, 1}
      /\ request \in Nat /\ count \in Nat /\ SegmentCount \in Int
  BY SizeAssumption DEF ConnectionInv, ClosingInv, TransferInv, ClientInv, AckInv, Inv,
     TypeOK, SegmentCount, GetSegmentCount
<1>3. /\ NextAckIndex(slots, currentIndex) \in Nat
      /\ NextAckIndex(slots', currentIndex) \in Nat
      /\ AvailableWindowSize(slots, currentIndex) \in Int
      /\ AvailableWindowSize(slots', currentIndex) \in Int
  BY <1>2, NextAckIndexIsNat, NextAckIndexType
<1>4. request' \in Nat
  BY <1>1, <1>2, <1>3 DEF ClientStep, Producer, Consumer, StoreSegment, DropLastAck,
     ComposeLastAck, SendLastAck, ReadSegment, DiscardSegment, LockWindow, FreeSlot,
     WriteSegment, UnlockWindow, EndConsumerLoop, producerVars
<1>5. /\ consumer = "closing" => consumer' = "closing"
      /\ consumer' = "closing" => AllWritten'
  BY <1>1, <1>2 DEF ClientStep, Producer, Consumer, StoreSegment, DropLastAck,
     ComposeLastAck, SendLastAck, ReadSegment, DiscardSegment, LockWindow, FreeSlot,
     WriteSegment, UnlockWindow, EndConsumerLoop, producerVars, consumerVars, AllWritten,
     ConnectionInv, ClosingInv
<1>6. ASSUME NEW r \in Nat, NEW w \in Int, SendClientAckWithLoss(r, w, lastack),
             NEW k \in 1 .. Len(toServer'), toServer'[k].currentRequest < 0
      PROVE  k \in 1 .. Len(toServer) /\ toServer'[k] = toServer[k]
  <2>1. r \in Int /\ ~(r < 0)
    OBVIOUS
  <2>2. \/ k \in 1 .. Len(toServer) /\ toServer'[k] = toServer[k]
        \/ toServer'[k].currentRequest = r
    BY <1>2, <1>6, <2>1, SentAck
  <2> QED BY <1>6, <2>1, <2>2
<1>7. \/ toServer' = toServer
      \/ \E r \in Nat, w \in Int : SendClientAckWithLoss(r, w, lastack)
  <2>1. CASE StoreSegment
    BY <1>3, <2>1 DEF StoreSegment
  <2>2. CASE SendLastAck
    BY <1>2, <1>3, <2>2 DEF SendLastAck
  <2>3. CASE UnlockWindow
    BY <1>3, <2>3 DEF UnlockWindow
  <2> QED BY <1>1, <2>1, <2>2, <2>3 DEF ClientStep, Producer, Consumer, DropLastAck,
     ComposeLastAck, ReadSegment, DiscardSegment, LockWindow, FreeSlot, WriteSegment,
     EndConsumerLoop
<1>8. \A k \in 1 .. Len(toServer') :
        toServer'[k].currentRequest < 0 =>
          k \in 1 .. Len(toServer) /\ toServer'[k] = toServer[k]
  BY <1>6, <1>7
<1>9. Closing!ServerFinRead' <=> Closing!ServerFinRead
  BY <1>1 DEF Closing!ServerFinRead
<1>10. ASSUME NEW k \in 1 .. Len(toServer')
       PROVE  /\ toServer'[k].currentRequest < 0 => consumer' = "closing"
              /\ toServer'[k].currentRequest = ACK_REQUEST => Closing!ServerFinRead'
  <2>1. toServer'[k].currentRequest = ACK_REQUEST => toServer'[k].currentRequest < 0
    BY DEF ACK_REQUEST
  <2> QED BY <1>5, <1>8, <1>9, <1>10, <2>1 DEF ConnectionInv, ClosingInv
<1> QED BY <1>1, <1>4, <1>5, <1>9, <1>10 DEF ConnectionInv, ClosingInv

(* What a step of the child means for the closing.                         *)
LEMMA ClosingInvMoves ==
  ASSUME ConnectionInv, QueuesMove, UNCHANGED clientVars, currentState' = currentState,
         passive' \in Answers => consumer = "closing",
         passive' = "acked" => Closing!ServerFinRead
  PROVE  ClosingInv'
<1>1. UNCHANGED <<request, consumer, count>>
  BY DEF clientVars, producerVars, consumerVars
<1>2. toServer \in Seq(ClientAck)
  BY DEF ConnectionInv, TransferInv, ClientInv, AckInv, Inv, TypeOK
<1>3. \A k \in 1 .. Len(toServer') : \E n \in 1 .. Len(toServer) : toServer'[k] = toServer[n]
  BY <1>2, QueuesKept DEF NoNewAcks
<1>4. Closing!ServerFinRead' <=> Closing!ServerFinRead
  BY DEF Closing!ServerFinRead
<1> QED BY <1>1, <1>3, <1>4 DEF ConnectionInv, ClosingInv, AllWritten

LEMMA FailedReadMoves ==
  ASSUME TransferInv, Server!FailedRead
  PROVE  ChildMoves
<1>1. toClient \in Seq(ServerDatagram) /\ index \in Int
  BY DEF TransferInv, ClientInv, AckInv, Inv, TypeOK, ChildInv, ChildTyped
<1> QED BY <1>1 DEF Server!FailedRead, Server!HandleAck, Server!WindowClosed, ChildMoves,
     QueuesMove, Server!cycleVars, Server!congestionVars

LEMMA ChildTransfersKeeps ==
  ASSUME ConnectionInv, ChildTransfers
  PROVE  ConnectionInv'
<1>1. TransferInv /\ UNCHANGED clientVars
  BY DEF ConnectionInv, ChildTransfers, ServerStep
<1>2. ChildMoves
  BY <1>1, ServerMoves, FailedReadMoves DEF ChildTransfers, ServerStep
<1>3. /\ passive' \in Answers => consumer = "closing"
      /\ passive' = "acked" => Closing!ServerFinRead
      /\ currentState' = currentState
  <2>1. passive' = passive \/ passive' = "reading"
    BY DEF ChildTransfers
  <2> QED BY <2>1 DEF ChildTransfers, activeVars, ConnectionInv, ClosingInv, Answers
<1>4. QueuesMove
  BY <1>2 DEF ChildMoves
<1> QED BY <1>1, <1>2, <1>3, <1>4, ChildInvMoves, ClosingInvMoves DEF ConnectionInv

LEMMA ChildEndsKeeps ==
  ASSUME ConnectionInv, ChildDies \/ ChildExits
  PROVE  ConnectionInv'
<1>1. /\ TransferInv /\ UNCHANGED clientVars /\ UNCHANGED <<passive, currentState>>
      /\ toClient \in Seq(ServerDatagram) /\ index \in Int
      /\ sender = "counted" => ack.advtWindow # 0
  BY DEF ConnectionInv, ChildDies, ChildExits, endpointVars, activeVars, passiveVars,
     TransferInv, ClientInv, AckInv, Inv, TypeOK, ChildInv, ChildTyped
<1>2. QueuesMove
  BY <1>1 DEF ChildDies, ChildExits, QueuesMove
<1>3. /\ UNCHANGED <<index, lastAckReceived, ack>>
      /\ sender' \in {sender, "crashed"}
  BY DEF ChildDies, ChildExits, endpointVars, serverVars
<1>4. ChildMoves
  BY <1>1, <1>2, <1>3 DEF ChildMoves
<1>5. /\ passive' \in Answers => consumer = "closing"
      /\ passive' = "acked" => Closing!ServerFinRead
  BY <1>1 DEF ConnectionInv, ClosingInv
<1> QED BY <1>1, <1>2, <1>4, <1>5, ChildInvMoves, ClosingInvMoves DEF ConnectionInv
-----------------------------------------------------------------------------
(***************************************************************************)
(* The connection is closed.                                               *)
(***************************************************************************)

(* A FIN or ACK among the acknowledgements asks for nothing, and says      *)
(* nothing false: the file is written.                                     *)
LEMMA ClientInvAppends ==
  ASSUME ClientInv, UNCHANGED clientVars, AllHeld, toClient' \in Seq(ServerDatagram),
         NEW sent \in ClientAck, sent.currentRequest < 0,
         toServer' = toServer \/ toServer' = Append(toServer, sent)
  PROVE  ClientInv'
<1>1. /\ UNCHANGED <<slots, currentIndex, mutex, advertised>>
      /\ UNCHANGED <<producer, segment, lastack, request>>
      /\ UNCHANGED <<consumer, isWindowFull, fetched, count, written>>
  BY DEF clientVars, producerVars, consumerVars
<1>2. toServer \in Seq(ClientAck) /\ Len(toServer) \in Nat
  BY LenProperties DEF ClientInv, AckInv, Inv, TypeOK
<1>3. /\ toServer' \in Seq(ClientAck)
      /\ \A k \in 1 .. Len(toServer') :
           \/ k \in 1 .. Len(toServer) /\ toServer'[k] = toServer[k]
           \/ toServer'[k] = sent
  <2>1. CASE toServer' = toServer
    BY <1>2, <2>1
  <2>2. CASE toServer' = Append(toServer, sent)
    <3>1. /\ toServer' \in Seq(ClientAck) /\ Len(toServer') = Len(toServer) + 1
          /\ \A k \in 1 .. Len(toServer) : toServer'[k] = toServer[k]
          /\ toServer'[Len(toServer) + 1] = sent
      BY <1>2, <2>2, AppendProperties
    <3> QED BY <1>2, <3>1
  <2> QED BY <2>1, <2>2
<1>4. TypeOK' /\ ThreadsConsistent' /\ SlotsHoldWindow' /\ WrittenInOrder'
  BY <1>1, <1>3 DEF ClientInv, AckInv, Inv, TypeOK, ThreadsConsistent, SlotsHoldWindow,
                    WrittenInOrder
<1>5. (\A number : Holds(number)' <=> Holds(number)) /\ AllHeld'
  BY <1>1 DEF Holds, AllHeld
<1>6. FinalMeansAllHeld'
  BY <1>5 DEF FinalMeansAllHeld
<1>7. AcksAreCumulative'
  <2> SUFFICES ASSUME NEW k \in 1 .. Len(toServer'),
                      NEW number \in 0 .. toServer'[k].currentRequest - 1
               PROVE  Holds(number)'
    BY DEF AcksAreCumulative
  <2>1. CASE k \in 1 .. Len(toServer) /\ toServer'[k] = toServer[k]
    BY <1>5, <2>1 DEF ClientInv, AckInv, AcksAreCumulative
  <2>2. CASE toServer'[k] = sent
    <3>1. sent.currentRequest \in Int
      BY DEF ClientAck
    <3> QED BY <2>2, <3>1
  <2> QED BY <1>3, <2>1, <2>2
<1>8. RequestIsCumulative' /\ LastAckMeansAllHeld' /\ OnlyFinalOutside'
  BY <1>1, <1>5 DEF ClientInv, AckInv, RequestIsCumulative, LastAckMeansAllHeld,
                    OnlyFinalOutside
<1> QED BY <1>4, <1>6, <1>7, <1>8 DEF ClientInv, AckInv, Inv

LEMMA ClientClosesKeeps ==
  ASSUME ConnectionInv, ClientCloses
  PROVE  ConnectionInv'
<1>1. /\ consumer = "closing" /\ AllWritten /\ TransferInv /\ ClientInv
      /\ UNCHANGED clientVars /\ UNCHANGED <<sender, index, lastAckReceived, ack>>
  BY DEF ClientCloses, ConnectionInv, ClosingInv, TransferInv, endpointVars, serverVars
<1>2. AllHeld
  <2>1. count \in Nat /\ SegmentCount \in Int
    BY <1>1, SizeAssumption DEF ClientInv, AckInv, Inv, TypeOK, SegmentCount, GetSegmentCount
  <2> QED BY <1>1, <2>1 DEF AllWritten, AllHeld, FileSegments, Holds
<1>3. toClient \in Seq(ServerDatagram) /\ toServer \in Seq(ClientAck)
      /\ Len(toServer) \in Nat
  BY <1>1, LenProperties DEF ClientInv, AckInv, Inv, TypeOK
<1>4. passive' = passive
  BY DEF ClientCloses, Closing!ActiveClose, Closing!SendFin, Closing!ActiveTimeout,
     Closing!ReadAckOfFin, Closing!ReadFin, Closing!ReadOther, Closing!ClientDies,
     Closing!serverVars
<1>5. /\ currentState \in Closing!ActiveCloseStates
      /\ currentState' \in Closing!ActiveCloseStates
      /\ Closing!ServerFinRead => Closing!ServerFinRead'
      /\ Closing!ReadFin => Closing!ServerFinRead'
  BY DEF ClientCloses, Closing!ActiveClose, Closing!SendFin, Closing!ActiveTimeout,
     Closing!ReadAckOfFin, Closing!ReadFin, Closing!ReadOther, Closing!ClientDies,
     Closing!AfterFin, Closing!ServerFinRead, Closing!ActiveCloseStates,
     ConnectionInv, ClosingInv
<1>6. toClient' \in Seq(ServerDatagram)
  <2>1. \/ toClient' = toClient
        \/ toClient # << >> /\ toClient' = Tail(toClient)
    BY DEF ClientCloses, Closing!ActiveClose, Closing!SendFin, Closing!ActiveTimeout,
       Closing!ReadAckOfFin, Closing!ReadFin, Closing!ReadOther, Closing!ClientDies,
       Closing!ClientReads
  <2> QED BY <1>3, <2>1, HeadTailProperties
<1>7. \E sent \in ClientAck :
        /\ sent.currentRequest < 0
        /\ sent.currentRequest = ACK_REQUEST => Closing!ServerFinRead'
        /\ toServer' = toServer \/ toServer' = Append(toServer, sent)
  <2>1. CASE Closing!SendFin
    <3> DEFINE fin == Closing!ClientClose(Closing!FIN_REQUEST, 0, 0)
    <3>1. fin \in ClientAck /\ fin.currentRequest < 0 /\ fin.currentRequest # ACK_REQUEST
      BY DEF Closing!ClientClose, Closing!FIN_REQUEST, ClientAck, ACK_REQUEST
    <3>2. toServer' = toServer \/ toServer' = Append(toServer, fin)
      BY <2>1 DEF Closing!SendFin, Closing!SendToServer
    <3> HIDE DEF fin
    <3> QED BY <3>1, <3>2
  <2>2. CASE Closing!ReadFin
    <3>1. PICK word2 \in {0, 1}, word3 \in {0, 1} :
            Closing!SendToServer(Closing!ClientClose(Closing!ACK_REQUEST, word2, word3))
      BY <2>2 DEF Closing!ReadFin, Closing!WordsRead
    <3> DEFINE answer == Closing!ClientClose(Closing!ACK_REQUEST, word2, word3)
    <3>2. answer \in ClientAck /\ answer.currentRequest < 0
      BY DEF Closing!ClientClose, Closing!ACK_REQUEST, ClientAck
    <3>3. toServer' = toServer \/ toServer' = Append(toServer, answer)
      BY <3>1 DEF Closing!SendToServer
    <3>4. Closing!ServerFinRead'
      BY <1>5, <2>2
    <3> HIDE DEF answer
    <3> QED BY <3>2, <3>3, <3>4
  <2>3. CASE Closing!ActiveTimeout \/ Closing!ReadAckOfFin \/ Closing!ReadOther
             \/ Closing!ClientDies
    <3>1. toServer' = toServer
      BY <2>3 DEF Closing!ActiveTimeout, Closing!ReadAckOfFin, Closing!ReadOther,
         Closing!ClientDies
    <3>2. ClientClose(FIN_REQUEST, 0, 0) \in ClientAck
          /\ ClientClose(FIN_REQUEST, 0, 0).currentRequest < 0
          /\ ClientClose(FIN_REQUEST, 0, 0).currentRequest # ACK_REQUEST
      BY DEF ClientClose, FIN_REQUEST, ACK_REQUEST, ClientAck
    <3> QED BY <3>1, <3>2
  <2> QED BY <2>1, <2>2, <2>3 DEF ClientCloses, Closing!ActiveClose
<1>8. PICK sent \in ClientAck :
        /\ sent.currentRequest < 0
        /\ sent.currentRequest = ACK_REQUEST => Closing!ServerFinRead'
        /\ toServer' = toServer \/ toServer' = Append(toServer, sent)
  BY <1>7
<1>9. ClientInv'
  BY <1>1, <1>2, <1>6, <1>8, ClientInvAppends
<1>10. TransferInv'
  <2>1. \A number : Holds(number)' <=> Holds(number)
    BY <1>1 DEF Holds, clientVars, consumerVars
  <2> QED BY <1>1, <1>9, <2>1, ChildInvKept
<1>11. UNCHANGED <<request, consumer, count>>
  BY <1>1 DEF clientVars, producerVars, consumerVars
<1>12. ASSUME NEW k \in 1 .. Len(toServer'), toServer'[k].currentRequest = ACK_REQUEST
       PROVE  Closing!ServerFinRead'
  <2>1. (k \in 1 .. Len(toServer) /\ toServer'[k] = toServer[k]) \/ toServer'[k] = sent
    BY <1>3, <1>8, AppendProperties
  <2>2. k \in 1 .. Len(toServer) /\ toServer'[k] = toServer[k] => Closing!ServerFinRead
    BY <1>12 DEF ConnectionInv, ClosingInv
  <2>3. Closing!ServerFinRead => Closing!ServerFinRead'
    BY <1>5
  <2> QED BY <1>8, <1>12, <2>1, <2>2, <2>3
<1>13. passive' = "acked" => Closing!ServerFinRead'
  BY <1>4, <1>5 DEF ConnectionInv, ClosingInv
<1> QED BY <1>1, <1>4, <1>5, <1>10, <1>11, <1>12, <1>13
        DEF ConnectionInv, ClosingInv, AllWritten

(* The ends of PassiveClose: it takes only an ACK for one.                 *)
LEMMA ChildClosesKeeps ==
  ASSUME ConnectionInv, ChildCloses
  PROVE  ConnectionInv'
<1>1. /\ TransferInv /\ UNCHANGED clientVars
      /\ UNCHANGED <<sender, index, lastAckReceived, ack>>
  BY DEF ChildCloses, ConnectionInv, endpointVars, serverVars
<1>2. /\ toClient \in Seq(ServerDatagram) /\ toServer \in Seq(ClientAck)
      /\ index \in Int /\ (sender = "counted" => ack.advtWindow # 0)
  BY <1>1 DEF TransferInv, ClientInv, AckInv, Inv, TypeOK, ChildInv, ChildTyped
<1>3. toClient' \in Seq(ServerDatagram)
  <2>1. ASSUME NEW number \in Int, Closing!SendToClient(Closing!CloseDatagram(number))
        PROVE  toClient' \in Seq(ServerDatagram)
    <3> DEFINE sent == Closing!CloseDatagram(number)
    <3>1. sent \in ServerDatagram
      BY DEF Closing!CloseDatagram, ServerDatagram
    <3>2. toClient' = toClient \/ toClient' = Append(toClient, sent)
      BY <2>1 DEF Closing!SendToClient
    <3> HIDE DEF sent
    <3> QED BY ONLY <1>2, <3>1, <3>2
  <2>2. CASE Closing!ReplyAck
    BY <2>1, <2>2 DEF Closing!ReplyAck, Closing!ACK_REQUEST
  <2>3. CASE Closing!ReplyFin
    BY <2>1, <2>3 DEF Closing!ReplyFin, Closing!FIN_REQUEST
  <2>4. CASE Closing!ReadFirst \/ Closing!PassiveTimeout \/ Closing!ReadAnswer
             \/ Closing!ServerDies
    BY <1>2, <2>4 DEF Closing!ReadFirst, Closing!PassiveTimeout, Closing!ReadAnswer,
       Closing!ServerDies
  <2> QED BY <2>2, <2>3, <2>4 DEF ChildCloses, Closing!PassiveClose
<1>4. QueuesMove
  <2>1. \/ toServer' = toServer
        \/ toServer # << >> /\ toServer' = Tail(toServer)
    BY DEF ChildCloses, Closing!PassiveClose, Closing!ReadFirst, Closing!ReplyAck,
       Closing!ReplyFin, Closing!PassiveTimeout, Closing!ReadAnswer, Closing!ServerDies,
       Closing!ServerReads
  <2> QED BY <1>3, <2>1 DEF QueuesMove
<1>5. /\ passive' \in Answers => consumer = "closing"
      /\ passive' = "acked" => Closing!ServerFinRead
  <2>1. ASSUME Closing!ServerReads
        PROVE  /\ Head(toServer).currentRequest < 0 => consumer = "closing"
               /\ Head(toServer).currentRequest = ACK_REQUEST => Closing!ServerFinRead
    <3>1. toServer # << >>
      BY <2>1 DEF Closing!ServerReads
    <3>2. 1 \in 1 .. Len(toServer) /\ Head(toServer) = toServer[1]
      BY <1>2, <3>1, HeadTailProperties, LenProperties, EmptySeq
    <3> QED BY <3>2 DEF ConnectionInv, ClosingInv
  <2>2. CASE Closing!ReadFirst
    <3>1. passive' \in Answers => Head(toServer).currentRequest < 0
      BY <2>2 DEF Closing!ReadFirst, Closing!IsFin, Closing!FIN_REQUEST, Answers
    <3> QED BY <2>1, <2>2, <3>1 DEF Closing!ReadFirst
  <2>3. CASE Closing!ReadAnswer
    <3>1. passive = "waiting"
          /\ (passive' = "acked" => Head(toServer).currentRequest = ACK_REQUEST)
      BY <2>3 DEF Closing!ReadAnswer, Closing!IsAck, Closing!ACK_REQUEST, ACK_REQUEST
    <3> QED BY <2>1, <2>3, <3>1 DEF Closing!ReadAnswer, ConnectionInv, ClosingInv, Answers
  <2>4. CASE ~Closing!ReadFirst /\ ~Closing!ReadAnswer
    <3>1. passive' # "acked" /\ (passive' \in Answers => passive \in Answers)
      BY <2>4 DEF ChildCloses, Closing!PassiveClose, Closing!ReplyAck, Closing!ReplyFin,
         Closing!PassiveTimeout, Closing!ServerDies, Answers
    <3> QED BY <3>1 DEF ConnectionInv, ClosingInv
  <2> QED BY <2>2, <2>3, <2>4
<1>6. ChildMoves
  BY <1>1, <1>2, <1>4 DEF ChildMoves
<1>7. currentState' = currentState
  BY DEF ChildCloses, Closing!PassiveClose, Closing!ReadFirst, Closing!ReplyAck,
     Closing!ReplyFin, Closing!PassiveTimeout, Closing!ReadAnswer, Closing!ServerDies,
     Closing!clientVars
<1> QED BY <1>1, <1>4, <1>5, <1>6, <1>7, ChildInvMoves, ClosingInvMoves DEF ConnectionInv

LEMMA SocketsReorderKeeps ==
  ASSUME ConnectionInv, SocketsReorder
  PROVE  ConnectionInv'
<1>1. /\ TransferInv /\ ChildMoves /\ UNCHANGED clientVars
      /\ UNCHANGED <<passive, currentState>>
  BY ReorderMoves DEF ConnectionInv, SocketsReorder, activeVars, passiveVars
<1>2. /\ passive' \in Answers => consumer = "closing"
      /\ passive' = "acked" => Closing!ServerFinRead
  BY <1>1 DEF ConnectionInv, ClosingInv
<1>3. QueuesMove
  BY <1>1 DEF ChildMoves
<1> QED BY <1>1, <1>2, <1>3, ChildInvMoves, ClosingInvMoves DEF ConnectionInv

LEMMA ClientExitsKeeps ==
  ASSUME ConnectionInv, ClientExits \/ ProducerDies \/ UNCHANGED connectionVars
  PROVE  ConnectionInv'
<1>1. /\ TransferInv /\ UNCHANGED clientVars
      /\ UNCHANGED <<sender, index, lastAckReceived, ack, passive, currentState, toServer>>
      /\ toClient' \in {toClient, << >>}
  BY DEF ConnectionInv, ClientExits, ProducerDies, Closing!ClientExits, Closing!clientVars,
     Closing!serverVars, endpointVars, serverVars, connectionVars, transferVars,
     activeVars, passiveVars
<1>2. toClient \in Seq(ServerDatagram) /\ index \in Int
      /\ (sender = "counted" => ack.advtWindow # 0)
  BY <1>1 DEF TransferInv, ClientInv, AckInv, Inv, TypeOK, ChildInv, ChildTyped
<1>3. QueuesMove /\ ChildMoves
  BY <1>1, <1>2, EmptySeq DEF QueuesMove, ChildMoves
<1>4. /\ passive' \in Answers => consumer = "closing"
      /\ passive' = "acked" => Closing!ServerFinRead
  BY <1>1 DEF ConnectionInv, ClosingInv
<1> QED BY <1>1, <1>3, <1>4, ChildInvMoves, ClosingInvMoves DEF ConnectionInv

LEMMA ConnectionInvNext ==
  ConnectionInv /\ [ConnectionNext]_connectionVars => ConnectionInv'
BY ClientTransfersKeeps, ClientClosesKeeps, ClientExitsKeeps, ChildTransfersKeeps,
   ChildClosesKeeps, ChildEndsKeeps, SocketsReorderKeeps DEF ConnectionNext
-----------------------------------------------------------------------------
(* When PassiveClose reports the client's ACK (server.c:901), the client   *)
(* has written the whole file, in spite of FINs that the data loop takes   *)
(* for acknowledgements and of segments that are taken for FINs.           *)
THEOREM AckedMeansWritten == ConnectionSpec => []OrderlyCloseMeansWritten
<1>1. ConnectionInv => OrderlyCloseMeansWritten
  <2> SUFFICES ASSUME ConnectionInv, passive = "acked", NEW number \in FileSegments
               PROVE  \E k \in 1 .. Len(written) : written[k].segment = number
    BY DEF OrderlyCloseMeansWritten
  <2>1. /\ count >= SegmentCount /\ count \in Nat /\ SegmentCount \in Int
        /\ WrittenInOrder
    BY SizeAssumption DEF ConnectionInv, ClosingInv, AllWritten, TransferInv, ClientInv,
       AckInv, Inv, TypeOK, SegmentCount, GetSegmentCount, Answers
  <2>2. number + 1 \in 1 .. Len(written) /\ written[number + 1].segment = number
    BY <2>1 DEF WrittenInOrder, FileSegments
  <2> QED BY <2>2
<1> QED BY <1>1, ConnectionInvInit, ConnectionInvNext, PTL DEF ConnectionSpec

(* What is written is what the segments on their way would say: only the   *)
(* consumer writes, and never again once it closes.                        *)
LEMMA BytesNextConnection ==
  ASSUME ConnectionInv, BytesAsCounted, [ConnectionNext]_connectionVars
  PROVE  BytesAsCounted'
<1>1. CASE ClientTransfers
  <2>1. Inv /\ Next
    BY <1>1 DEF ConnectionInv, TransferInv, ClientInv, AckInv, ClientTransfers, ClientStep,
                Next
  <2> QED BY <2>1, BytesNext
<1>2. CASE ~ClientTransfers
  <2>1. written' = written
    BY <1>2 DEF ConnectionNext, ClientCloses, ClientExits, Closing!ClientExits,
       ProducerDies, SocketsReorder, NetworkReorders, ChildTransfers, ServerStep, ChildCloses, ChildDies, ChildExits, endpointVars,
       connectionVars, transferVars, clientVars, consumerVars
  <2> QED BY <2>1 DEF BytesAsCounted, TotalBytesInSegment
<1> QED BY <1>1, <1>2

(* The file on the client's disk begins with every segment of the file, in *)
(* order, each with all its bytes.                                         *)
FileWritten ==
  /\ Len(written) >= SegmentCount
  /\ \A k \in 1 .. SegmentCount :
       written[k].segment = k - 1 /\ written[k].bytes = BytesOfFileIn(k - 1)

(* A PassiveClose that answers a FIN (server.c:873-890) answers one of a   *)
(* client that has written the file to its last byte, and one that returns *)
(* on the ACK (server.c:901) was told so by a client that has read a FIN,  *)
(* although both ends close on the sockets of the transfer and each takes  *)
(* the other's data for FINs and the FINs for data.  The file's length is  *)
(* no multiple of SEGMENTDATASIZE.                                         *)
THEOREM CloseMeansDelivered ==
  ASSUME FileLength % SegmentDataSize # 0
  PROVE  ConnectionSpec => [](/\ passive \in Answers => FileWritten
                              /\ passive = "acked" => Closing!ServerFinRead)
<1>1. ConnectionInit => BytesAsCounted
  <2> SUFFICES ASSUME TransferInit PROVE BytesAsCounted
    BY DEF ConnectionInit
  <2>1. Len(written) = 0
    BY DEF TransferInit, Init
  <2> QED BY <2>1 DEF BytesAsCounted
<1>2. ConnectionInv /\ BytesAsCounted /\ [ConnectionNext]_connectionVars
        => (ConnectionInv /\ BytesAsCounted)'
  BY ConnectionInvNext, BytesNextConnection
<1>3. ASSUME ConnectionInv, BytesAsCounted, passive \in Answers
      PROVE  FileWritten
  <2>1. /\ count >= SegmentCount /\ count \in Nat /\ SegmentCount \in Int
        /\ WrittenInOrder
    <3>1. consumer = "closing" /\ AllWritten /\ Inv
      BY <1>3 DEF ConnectionInv, ClosingInv, TransferInv, ClientInv, AckInv
    <3>2. SegmentCount \in Int
      BY SizeAssumption DEF SegmentCount, GetSegmentCount
    <3> QED BY ONLY <3>1, <3>2 DEF AllWritten, Inv, TypeOK
  <2>2. Len(written) = count
    BY <2>1 DEF WrittenInOrder
  <2>3. ASSUME NEW k \in 1 .. SegmentCount
        PROVE  written[k].segment = k - 1 /\ written[k].bytes = BytesOfFileIn(k - 1)
    <3>1. k \in 1 .. Len(written) /\ k - 1 \in FileSegments
      BY <2>1, <2>2 DEF FileSegments
    <3>2. written[k].segment = k - 1
      BY <2>1, <3>1 DEF WrittenInOrder
    <3> QED BY <1>3, <3>1, <3>2, CutIsRight DEF BytesAsCounted
  <2> QED BY <2>1, <2>2, <2>3 DEF FileWritten
<1>4. ConnectionInv => (passive = "acked" => Closing!ServerFinRead)
  BY DEF ConnectionInv, ClosingInv
<1> QED BY <1>1, <1>2, <1>3, <1>4, ConnectionInvInit, PTL DEF ConnectionSpec

(* Also while both ends close and their FINs and ACKs are read as data, the*)
(* child takes nothing as acknowledged that the client does not hold.      *)
THEOREM AcknowledgedWhileClosing == ConnectionSpec => []AcknowledgedIsHeld
<1>1. ConnectionInv => AcknowledgedIsHeld
  BY DEF ConnectionInv, TransferInv, ChildInv
<1> QED BY <1>1, ConnectionInvInit, ConnectionInvNext, PTL DEF ConnectionSpec

(* The received file stays in order from the request to the last close     *)
(* (client.c:253): neither the closing on the same sockets nor the end of  *)
(* either process disturbs the consumer's writing.                         *)
THEOREM InOrderToTheEnd == ConnectionSpec => []WrittenInOrder
<1>1. ConnectionInv => WrittenInOrder
  BY DEF ConnectionInv, TransferInv, ClientInv, AckInv, Inv
<1> QED BY <1>1, ConnectionInvInit, ConnectionInvNext, PTL DEF ConnectionSpec

(* And it begins with the file, as far as it was written.                  *)
THEOREM ConnectionDelivers == ConnectionSpec => FileInOrder
<1>1. ConnectionInit => Delivery!Init
  BY SizeAssumption, EmptySeq DEF ConnectionInit, TransferInit, Init, Delivery!Init,
     FilePart, SegmentCount, GetSegmentCount
<1>2. ConnectionInv /\ [ConnectionNext]_connectionVars => [Delivery!WriteNext]_FilePart
  <2> SUFFICES ASSUME ConnectionInv, [ConnectionNext]_connectionVars
               PROVE  WriteSegment \/ UNCHANGED written
    BY FilePartStep DEF ConnectionInv, TransferInv, ClientInv, AckInv
  <2>1. CASE ClientTransfers
    BY <2>1, OneStepWrites DEF ClientTransfers, TransferNext
  <2>2. CASE ClientCloses \/ ClientExits \/ ChildTransfers \/ ChildCloses \/ ChildDies
             \/ ChildExits \/ ProducerDies \/ SocketsReorder \/ UNCHANGED connectionVars
    BY <2>2 DEF ProducerDies, SocketsReorder, NetworkReorders, ClientCloses, ClientExits, Closing!ClientExits, ChildTransfers, ServerStep,
       ChildCloses, ChildDies, ChildExits, endpointVars, connectionVars, transferVars,
       clientVars, consumerVars
  <2> QED BY <2>1, <2>2 DEF ConnectionNext
<1> QED BY <1>1, <1>2, ConnectionInvInit, ConnectionInvNext, PTL
        DEF ConnectionSpec, FileInOrder, DeliverySpec, Delivery!Spec
=============================================================================
