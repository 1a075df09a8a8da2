----------------------------- MODULE CloseProofs -----------------------------
(***************************************************************************)
(* Theorems about the end of a connection, for every number of retries,    *)
(* every content of the two sockets when the closing begins, and whatever  *)
(* the network loses.                                                      *)
(***************************************************************************)
EXTENDS TimedClose, SequenceTheorems, TLAPS

(* What is queued after a datagram was sent: it and what was there.        *)
LEMMA ServerQueue ==
  ASSUME toServer \in Seq(ClientAck), NEW d \in ClientAck, SendToServer(d)
  PROVE  /\ toServer' \in Seq(ClientAck)
         /\ \A k \in 1 .. Len(toServer') :
              \/ toServer'[k] = d
              \/ \E j \in 1 .. Len(toServer) : toServer'[k] = toServer[j]
<1>1. CASE toServer' = toServer
  BY <1>1
<1>2. CASE toServer' = Append(toServer, d)
  <2>1. /\ toServer' \in Seq(ClientAck) /\ Len(toServer') = Len(toServer) + 1
        /\ \A k \in 1 .. Len(toServer) : toServer'[k] = toServer[k]
        /\ toServer'[Len(toServer) + 1] = d
    BY <1>2, AppendProperties
  <2>2. Len(toServer) \in Nat
    BY LenProperties
  <2> QED BY <2>1, <2>2
<1> QED BY <1>1, <1>2 DEF SendToServer

LEMMA ClientQueue ==
  ASSUME toClient \in Seq(ServerDatagram), NEW d \in ServerDatagram,
         SendToClient(d)
  PROVE  /\ toClient' \in Seq(ServerDatagram)
         /\ \A k \in 1 .. Len(toClient') :
              \/ toClient'[k] = d
              \/ \E j \in 1 .. Len(toClient) : toClient'[k] = toClient[j]
<1>1. CASE toClient' = toClient
  BY <1>1
<1>2. CASE toClient' = Append(toClient, d)
  <2>1. /\ toClient' \in Seq(ServerDatagram)
        /\ Len(toClient') = Len(toClient) + 1
        /\ \A k \in 1 .. Len(toClient) : toClient'[k] = toClient[k]
        /\ toClient'[Len(toClient) + 1] = d
    BY <1>2, AppendProperties
  <2>2. Len(toClient) \in Nat
    BY LenProperties
  <2> QED BY <2>1, <2>2
<1> QED BY <1>1, <1>2 DEF SendToClient

(* What is queued after a datagram was read.                               *)
LEMMA TailQueue ==
  ASSUME NEW S, NEW q \in Seq(S), q # << >>
  PROVE  /\ Tail(q) \in Seq(S) /\ Head(q) \in S
         /\ \E j \in 1 .. Len(q) : Head(q) = q[j]
         /\ \A k \in 1 .. Len(Tail(q)) :
              \E j \in 1 .. Len(q) : Tail(q)[k] = q[j]
<1>1. Len(q) \in Nat /\ Len(q) >= 1
  BY EmptySeq, LenProperties
<1>2. /\ Tail(q) \in Seq(S) /\ Len(Tail(q)) = Len(q) - 1
      /\ \A k \in 1 .. Len(Tail(q)) : Tail(q)[k] = q[k + 1]
      /\ Head(q) = q[1] /\ Head(q) \in S
  BY HeadTailProperties
<1>3. \A k \in 1 .. Len(Tail(q)) : k + 1 \in 1 .. Len(q)
  BY <1>1, <1>2
<1> QED BY <1>1, <1>2, <1>3

(* What was on its way to either process when the closing began.           *)
LEMMA LateDatagrams ==
  ASSUME Init
  PROVE  /\ toClient \in Seq(ServerDatagram) /\ toServer \in Seq(ClientAck)
         /\ \A k \in 1 .. Len(toClient) : toClient[k].number \in Nat
         /\ \A k \in 1 .. Len(toServer) : toServer[k].currentRequest \in Nat
<1>1. ASSUME toClient = << >>
      PROVE  /\ toClient \in Seq(ServerDatagram)
             /\ \A k \in 1 .. Len(toClient) : toClient[k].number \in Nat
  BY <1>1, EmptySeq
<1>2. ASSUME NEW d \in LateSegments, toClient = <<d>>
      PROVE  /\ toClient \in Seq(ServerDatagram)
             /\ \A k \in 1 .. Len(toClient) : toClient[k].number \in Nat
  <2>1. d \in ServerDatagram /\ d.number \in Nat
    BY CloseAssumption DEF ServerDatagram
  <2> QED BY <1>2, <2>1
<1>3. ASSUME NEW a \in LateAcks, toServer = <<a>>
      PROVE  /\ toServer \in Seq(ClientAck)
             /\ \A k \in 1 .. Len(toServer) : toServer[k].currentRequest \in Nat
  <2>1. a \in ClientAck /\ a.currentRequest \in Nat
    BY CloseAssumption DEF ClientAck
  <2> QED BY <1>3, <2>1
<1>4. ASSUME toServer = << >>
      PROVE  /\ toServer \in Seq(ClientAck)
             /\ \A k \in 1 .. Len(toServer) : toServer[k].currentRequest \in Nat
  BY <1>4, EmptySeq
<1>5. toClient = << >> \/ \E d \in LateSegments : toClient = <<d>>
  BY DEF Init
<1>6. toServer = << >> \/ \E a \in LateAcks : toServer = <<a>>
  BY DEF Init
<1>7. /\ toClient \in Seq(ServerDatagram)
      /\ \A k \in 1 .. Len(toClient) : toClient[k].number \in Nat
  BY <1>1, <1>2, <1>5
<1>8. /\ toServer \in Seq(ClientAck)
      /\ \A k \in 1 .. Len(toServer) : toServer[k].currentRequest \in Nat
  BY <1>3, <1>4, <1>6
<1> QED BY <1>7, <1>8

LEMMA InvInit == Init => Inv
<1> SUFFICES ASSUME Init PROVE Inv
  OBVIOUS
<1>1. /\ toClient \in Seq(ServerDatagram) /\ toServer \in Seq(ClientAck)
      /\ \A k \in 1 .. Len(toClient) : toClient[k].number \in Nat
      /\ \A k \in 1 .. Len(toServer) : toServer[k].currentRequest \in Nat
  BY LateDatagrams
<1>2. TypeOK
  <2>1. /\ numRetry \in 0 .. ActiveRetries /\ twoMSL \in 0 .. TwoMSL
        /\ serverRetry \in 0 .. PassiveRetries
    BY CloseAssumption DEF Init
  <2>2. /\ closer = "starting" /\ currentState = "FIN_WAIT1"
        /\ passive = "reading" /\ finRead = FALSE
        /\ refused = {} /\ up = {"client", "server"}
    BY DEF Init
  <2> QED BY <1>1, <2>1, <2>2 DEF TypeOK, ActiveCloseStates
<1>3. ServerKnows /\ ClientKnows /\ RetriesLeft
  BY CloseAssumption DEF Init, ServerKnows, ClientKnows, RetriesLeft
<1>4. AnswersOnTheirWay
  BY <1>1 DEF Init, AnswersOnTheirWay, ACK_REQUEST
<1> QED BY <1>2, <1>3, <1>4 DEF Inv
-----------------------------------------------------------------------------
(* A step that moves nobody in the exchange of FINs and ACKs but for one   *)
(* datagram sent to the server, which is no ACK or is backed by a FIN read.*)
LEMMA InvSendFin == ASSUME Inv, SendFin PROVE Inv'
<1> USE DEF Inv
<1> DEFINE fin == ClientClose(FIN_REQUEST, 0, 0)
<1>1. fin \in ClientAck /\ fin.currentRequest # ACK_REQUEST
  BY DEF ClientClose, ClientAck, FIN_REQUEST, ACK_REQUEST
<1>2. /\ toServer' \in Seq(ClientAck)
      /\ \A k \in 1 .. Len(toServer') :
           \/ toServer'[k] = fin
           \/ \E j \in 1 .. Len(toServer) : toServer'[k] = toServer[j]
  BY <1>1, ServerQueue DEF SendFin, TypeOK
<1>3. refused' \subseteq refused \cup {"client"}
  BY DEF SendFin, SendToServer
<1>4. TypeOK'
  BY <1>2, <1>3 DEF SendFin, TypeOK, serverVars, ActiveEnds
<1>5. ServerKnows' /\ ClientKnows' /\ RetriesLeft'
  BY DEF SendFin, ServerKnows, ClientKnows, ServerFinRead, RetriesLeft,
         serverVars, ActiveEnds
<1>6. AnswersOnTheirWay'
  BY <1>1, <1>2, <1>3
     DEF SendFin, AnswersOnTheirWay, ServerFinRead, serverVars
<1> QED BY <1>4, <1>5, <1>6

LEMMA InvActiveTimeout ==
  ASSUME Inv, ActiveTimeout \/ ClientDies
  PROVE  Inv'
<1> USE DEF Inv
<1>1. TypeOK'
  <2>1. CASE ClientDies
    BY <2>1 DEF ClientDies, TypeOK, serverVars, ActiveEnds
  <2>2. CASE ActiveTimeout
    <3>1. numRetry > 0 /\ twoMSL > 0 /\ numRetry \in Nat /\ twoMSL \in Nat
      BY <2>2 DEF ActiveTimeout, RetriesLeft, TypeOK
    <3>2. numRetry' \in 0 .. ActiveRetries /\ twoMSL' \in 0 .. TwoMSL
      BY <2>2, <3>1, CloseAssumption DEF ActiveTimeout, TypeOK, CountTimeout
    <3>3. closer' \in {"starting", "waiting"} \cup ActiveEnds
      BY <2>2 DEF ActiveTimeout, ActiveEnds
    <3> QED BY <2>2, <3>2, <3>3 DEF ActiveTimeout, TypeOK, serverVars
  <2> QED BY <2>1, <2>2
<1>2. RetriesLeft'
  BY DEF ActiveTimeout, ClientDies, TypeOK, RetriesLeft, serverVars,
         ActiveEnds, WaitedEnough, CountTimeout
<1>3. ServerKnows' /\ ClientKnows' /\ AnswersOnTheirWay'
  BY DEF ActiveTimeout, ClientDies, ServerKnows, ClientKnows, ServerFinRead,
         AnswersOnTheirWay, serverVars
<1> QED BY <1>1, <1>2, <1>3

(* What the client has read is gone, and what it says was true.            *)
LEMMA ClientReadsQueue ==
  ASSUME Inv, NEW requests, ClientReads(requests)
  PROVE  /\ toClient' \in Seq(ServerDatagram)
         /\ Head(toClient) \in ServerDatagram
         /\ Head(toClient).number \in requests
         /\ Head(toClient).number < 0 => finRead
         /\ \A k \in 1 .. Len(toClient') : toClient'[k].number < 0 => finRead
<1>1. toClient \in Seq(ServerDatagram) /\ toClient # << >>
  BY DEF Inv, TypeOK, ClientReads
<1>2. /\ Tail(toClient) \in Seq(ServerDatagram)
      /\ Head(toClient) \in ServerDatagram
      /\ \E j \in 1 .. Len(toClient) : Head(toClient) = toClient[j]
      /\ \A k \in 1 .. Len(Tail(toClient)) :
           \E j \in 1 .. Len(toClient) : Tail(toClient)[k] = toClient[j]
  BY <1>1, TailQueue
<1>3. \A j \in 1 .. Len(toClient) : toClient[j].number < 0 => finRead
  BY DEF Inv, AnswersOnTheirWay
<1>4. Head(toClient).number < 0 => finRead
  BY <1>2, <1>3
<1>5. \A k \in 1 .. Len(Tail(toClient)) : Tail(toClient)[k].number < 0 => finRead
  BY <1>2, <1>3
<1> QED BY <1>2, <1>4, <1>5 DEF ClientReads

LEMMA InvReadAckOfFin == ASSUME Inv, ReadAckOfFin PROVE Inv'
<1> USE DEF Inv
<1>1. /\ toClient' \in Seq(ServerDatagram) /\ finRead
      /\ \A k \in 1 .. Len(toClient') : toClient'[k].number < 0 => finRead
  BY ClientReadsQueue DEF ReadAckOfFin, ACK_REQUEST
<1>2. TypeOK'
  BY <1>1 DEF ReadAckOfFin, TypeOK, serverVars, ActiveCloseStates
<1>3. ServerKnows' /\ ClientKnows' /\ RetriesLeft'
  BY <1>1 DEF ReadAckOfFin, TypeOK, ServerKnows, ClientKnows, ServerFinRead,
              RetriesLeft, serverVars, ActiveCloseStates
<1>4. AnswersOnTheirWay'
  BY <1>1 DEF ReadAckOfFin, TypeOK, AnswersOnTheirWay, ServerFinRead,
              serverVars, ActiveCloseStates
<1> QED BY <1>2, <1>3, <1>4

LEMMA InvReadFin == ASSUME Inv, ReadFin PROVE Inv'
<1> USE DEF Inv
<1>1. /\ toClient' \in Seq(ServerDatagram) /\ finRead
      /\ \A k \in 1 .. Len(toClient') : toClient'[k].number < 0 => finRead
  BY ClientReadsQueue DEF ReadFin, FIN_REQUEST
<1>2. PICK word2 \in {0, 1}, word3 \in {0, 1} :
        SendToServer(ClientClose(ACK_REQUEST, word2, word3))
  BY DEF ReadFin, WordsRead
<1> DEFINE answer == ClientClose(ACK_REQUEST, word2, word3)
<1>3. answer \in ClientAck
  BY DEF ClientClose, ClientAck, ACK_REQUEST
<1>4. toServer' \in Seq(ClientAck)
  BY <1>2, <1>3, ServerQueue DEF TypeOK
<1>5. refused' \subseteq refused \cup {"client"}
  BY <1>2 DEF SendToServer
<1>6. ServerFinRead' /\ currentState' \in ActiveCloseStates
  BY DEF ReadFin, AfterFin, ServerFinRead, TypeOK, ActiveCloseStates
<1>7. TypeOK'
  BY <1>1, <1>4, <1>5, <1>6 DEF ReadFin, TypeOK, serverVars
<1>8. ServerKnows' /\ ClientKnows' /\ RetriesLeft'
  BY <1>1, <1>6 DEF ReadFin, ServerKnows, ClientKnows, RetriesLeft, serverVars
<1>9. AnswersOnTheirWay'
  BY <1>1, <1>5, <1>6 DEF ReadFin, AnswersOnTheirWay, serverVars
<1> QED BY <1>7, <1>8, <1>9

LEMMA InvReadOther == ASSUME Inv, ReadOther PROVE Inv'
<1> USE DEF Inv
<1>1. /\ toClient' \in Seq(ServerDatagram)
      /\ \A k \in 1 .. Len(toClient') : toClient'[k].number < 0 => finRead
  BY ClientReadsQueue DEF ReadOther
<1>2. closer = "waiting"
  BY DEF ReadOther, ClientReads
<1>3. TypeOK'
  BY <1>1 DEF ReadOther, TypeOK, serverVars
<1>4. ServerKnows' /\ ClientKnows' /\ RetriesLeft'
  BY <1>2 DEF ReadOther, ServerKnows, ClientKnows, ServerFinRead, RetriesLeft,
              serverVars
<1>5. AnswersOnTheirWay'
  BY <1>1 DEF ReadOther, AnswersOnTheirWay, ServerFinRead, serverVars
<1> QED BY <1>3, <1>4, <1>5
-----------------------------------------------------------------------------
(* What the server child has read is gone; a FIN among it is remembered,   *)
(* and an ACK was true.                                                    *)
LEMMA ServerReadsQueue ==
  ASSUME Inv, ServerReads
  PROVE  /\ toServer' \in Seq(ClientAck) /\ finRead' \in BOOLEAN
         /\ finRead => finRead'
         /\ Head(toServer).currentRequest = FIN_REQUEST => finRead'
         /\ Head(toServer).currentRequest = ACK_REQUEST => ServerFinRead
         /\ \A k \in 1 .. Len(toServer') :
              toServer'[k].currentRequest = ACK_REQUEST => ServerFinRead
<1>1. toServer \in Seq(ClientAck) /\ toServer # << >>
  BY DEF Inv, TypeOK, ServerReads
<1>2. /\ Tail(toServer) \in Seq(ClientAck)
      /\ \E j \in 1 .. Len(toServer) : Head(toServer) = toServer[j]
      /\ \A k \in 1 .. Len(Tail(toServer)) :
           \E j \in 1 .. Len(toServer) : Tail(toServer)[k] = toServer[j]
  BY <1>1, TailQueue
<1>3. \A j \in 1 .. Len(toServer) :
        toServer[j].currentRequest = ACK_REQUEST => ServerFinRead
  BY DEF Inv, AnswersOnTheirWay
<1>4. Head(toServer).currentRequest = ACK_REQUEST => ServerFinRead
  BY <1>2, <1>3
<1>5. \A k \in 1 .. Len(Tail(toServer)) :
        Tail(toServer)[k].currentRequest = ACK_REQUEST => ServerFinRead
  BY <1>2, <1>3
<1> QED BY <1>2, <1>4, <1>5 DEF ServerReads, Inv, TypeOK

LEMMA InvServerReads ==
  ASSUME Inv, ReadFirst \/ ReadAnswer
  PROVE  Inv'
<1> USE DEF Inv
<1>1. /\ toServer' \in Seq(ClientAck) /\ finRead' \in BOOLEAN
      /\ finRead => finRead'
      /\ Head(toServer).currentRequest = FIN_REQUEST => finRead'
      /\ Head(toServer).currentRequest = ACK_REQUEST => ServerFinRead
      /\ \A k \in 1 .. Len(toServer') :
           toServer'[k].currentRequest = ACK_REQUEST => ServerFinRead
  BY ServerReadsQueue DEF ReadFirst, ReadAnswer
<1>2. UNCHANGED <<closer, currentState, numRetry, twoMSL, serverRetry, refused,
                  up, toClient>>
  BY DEF ReadFirst, ReadAnswer, clientVars
<1>3. CASE ReadFirst
  <2>1. /\ passive = "reading" /\ passive' \in {"replying", "ignored"}
        /\ passive' = "replying" => finRead'
    BY <1>1, <1>3 DEF ReadFirst, IsFin
  <2>2. TypeOK'
    BY <1>1, <1>2, <2>1 DEF TypeOK, PassiveEnds
  <2>3. ServerKnows' /\ ClientKnows' /\ RetriesLeft'
    BY <1>1, <1>2, <2>1 DEF ServerKnows, ClientKnows, ServerFinRead, RetriesLeft
  <2>4. AnswersOnTheirWay'
    BY <1>1, <1>2, <2>1 DEF AnswersOnTheirWay, ServerFinRead
  <2> QED BY <2>2, <2>3, <2>4
<1>4. CASE ReadAnswer
  <2>1. /\ passive = "waiting" /\ passive' \in {"replying", "acked"}
        /\ passive' = "acked" => ServerFinRead
    BY <1>1, <1>4 DEF ReadAnswer, IsAck
  <2>2. TypeOK'
    BY <1>1, <1>2, <2>1 DEF TypeOK, PassiveEnds
  <2>3. ServerKnows' /\ ClientKnows' /\ RetriesLeft'
    BY <1>1, <1>2, <2>1 DEF ServerKnows, ClientKnows, ServerFinRead, RetriesLeft
  <2>4. AnswersOnTheirWay'
    BY <1>1, <1>2, <2>1 DEF AnswersOnTheirWay, ServerFinRead
  <2> QED BY <2>2, <2>3, <2>4
<1> QED BY <1>3, <1>4

LEMMA InvReply ==
  ASSUME Inv, ReplyAck \/ ReplyFin
  PROVE  Inv'
<1> USE DEF Inv
<1>1. PICK request \in {ACK_REQUEST, FIN_REQUEST} :
        SendToClient(CloseDatagram(request))
  BY DEF ReplyAck, ReplyFin
<1>2. CloseDatagram(request) \in ServerDatagram
  BY DEF CloseDatagram, ServerDatagram, ACK_REQUEST, FIN_REQUEST
<1>3. /\ toClient' \in Seq(ServerDatagram)
      /\ \A k \in 1 .. Len(toClient') :
           \/ toClient'[k] = CloseDatagram(request)
           \/ \E j \in 1 .. Len(toClient) : toClient'[k] = toClient[j]
  BY <1>1, <1>2, ClientQueue DEF TypeOK
<1>4. refused' \subseteq refused \cup {"server"}
  BY <1>1 DEF SendToClient
<1>5. /\ UNCHANGED <<closer, currentState, numRetry, twoMSL, serverRetry,
                     finRead, up, toServer>>
      /\ passive \in {"replying", "replied"}
      /\ passive' \in {"replied", "waiting"}
  BY DEF ReplyAck, ReplyFin, clientVars
<1>6. finRead
  BY <1>5 DEF AnswersOnTheirWay
<1>7. TypeOK'
  BY <1>3, <1>4, <1>5 DEF TypeOK
<1>8. ServerKnows' /\ ClientKnows' /\ RetriesLeft'
  BY <1>5 DEF ServerKnows, ClientKnows, ServerFinRead, RetriesLeft
<1>9. AnswersOnTheirWay'
  BY <1>4, <1>5, <1>6 DEF AnswersOnTheirWay, ServerFinRead
<1> QED BY <1>7, <1>8, <1>9

LEMMA InvPassiveTimeout ==
  ASSUME Inv, PassiveTimeout \/ ServerDies
  PROVE  Inv'
<1> USE DEF Inv
<1>1. /\ UNCHANGED <<closer, currentState, numRetry, twoMSL, finRead, refused,
                     up, toClient, toServer>>
      /\ passive \notin PassiveEnds
  BY DEF PassiveTimeout, ServerDies, clientVars, PassiveEnds
<1>2. /\ serverRetry' \in 0 .. PassiveRetries
      /\ passive' \in {"replying", "unanswered", "died"}
      /\ passive' = "replying" => serverRetry' > 0
      /\ passive # "reading"
  <2>1. CASE ServerDies
    BY <2>1 DEF ServerDies, TypeOK, AnswersOnTheirWay
  <2>2. CASE PassiveTimeout
    <3>1. passive = "waiting" /\ serverRetry \in 1 .. PassiveRetries
      BY <2>2 DEF PassiveTimeout, RetriesLeft, TypeOK
    <3> QED BY <2>2, <3>1, CloseAssumption DEF PassiveTimeout, CountTimeout
  <2> QED BY <2>1, <2>2
<1>3. TypeOK'
  BY <1>1, <1>2 DEF TypeOK, PassiveEnds
<1>4. ServerKnows' /\ ClientKnows' /\ RetriesLeft'
  BY <1>1, <1>2 DEF ServerKnows, ClientKnows, ServerFinRead, RetriesLeft
<1>5. AnswersOnTheirWay'
  BY <1>1, <1>2 DEF AnswersOnTheirWay, ServerFinRead, PassiveEnds
<1> QED BY <1>3, <1>4, <1>5

LEMMA InvExits == ASSUME Inv, Exits PROVE Inv'
<1> USE DEF Inv
<1>1. /\ UNCHANGED <<closer, currentState, numRetry, twoMSL, passive,
                     serverRetry, finRead, refused>>
      /\ up' \subseteq up
      /\ toClient' \in {toClient, << >>} /\ toServer' \in {toServer, << >>}
  BY DEF Exits, ClientExits, ServerExits, clientVars, serverVars
<1>2. TypeOK'
  BY <1>1, EmptySeq DEF TypeOK
<1>3. ServerKnows' /\ ClientKnows' /\ RetriesLeft'
  BY <1>1 DEF ServerKnows, ClientKnows, ServerFinRead, RetriesLeft
<1>4. AnswersOnTheirWay'
  BY <1>1 DEF AnswersOnTheirWay, ServerFinRead
<1> QED BY <1>2, <1>3, <1>4

(* Every datagram of the one queue is one of the other.                   *)
OnlyOf(new, old) == \A m \in 1 .. Len(new) : \E n \in 1 .. Len(old) : new[m] = old[n]

(* Datagrams that change places are the datagrams that were there.         *)
LEMMA ReorderedTyped ==
  ASSUME NEW S, NEW queue \in Seq(S), NEW k \in 1 .. Len(queue)
  PROVE  Overtakes(queue, k) \in Seq(S) /\ OnlyOf(Overtakes(queue, k), queue)
<1>1. /\ Len(queue) \in Nat /\ 1 \in 1 .. Len(queue)
      /\ queue \in [1 .. Len(queue) -> S]
  BY LenProperties
<1>2. Overtakes(queue, k) \in [1 .. Len(queue) -> S]
  BY <1>1 DEF Overtakes
<1>3. \A m \in 1 .. Len(queue) : Overtakes(queue, k)[m] \in {queue[m], queue[1], queue[k]}
  BY <1>1 DEF Overtakes
<1>4. Overtakes(queue, k) \in Seq(S) /\ Len(Overtakes(queue, k)) = Len(queue)
  BY <1>1, <1>2, SeqDef, LenProperties
<1>5. OnlyOf(Overtakes(queue, k), queue)
  BY <1>1, <1>3, <1>4 DEF OnlyOf
<1> QED BY <1>4, <1>5

LEMMA InvReorders == ASSUME Inv, NetworkReorders PROVE Inv'
<1> USE DEF Inv
<1>1. /\ UNCHANGED <<closer, currentState, numRetry, twoMSL, passive, serverRetry, finRead,
                     refused, up>>
      /\ toClient \in Seq(ServerDatagram) /\ toServer \in Seq(ClientAck)
  BY DEF NetworkReorders, clientVars, serverVars, TypeOK
<1>2. CASE /\ \E k \in 1 .. Len(toClient) : toClient' = Overtakes(toClient, k)
           /\ UNCHANGED toServer
  <2>1. /\ toClient' \in Seq(ServerDatagram)
        /\ \A m \in 1 .. Len(toClient') :
             \E n \in 1 .. Len(toClient) : toClient'[m] = toClient[n]
    <3>1. PICK k \in 1 .. Len(toClient) : toClient' = Overtakes(toClient, k)
      BY <1>2
    <3>2. toClient' \in Seq(ServerDatagram) /\ OnlyOf(toClient', toClient)
      BY ONLY <1>1, <3>1, ReorderedTyped, Zenon
    <3> QED BY <3>2 DEF OnlyOf
  <2>2. TypeOK'
    BY <1>1, <1>2, <2>1 DEF TypeOK
  <2>3. ServerKnows' /\ ClientKnows' /\ RetriesLeft' /\ AnswersOnTheirWay'
    BY <1>1, <1>2, <2>1 DEF ServerKnows, ClientKnows, ServerFinRead, RetriesLeft,
       AnswersOnTheirWay
  <2> QED BY <2>2, <2>3
<1>3. CASE /\ \E k \in 1 .. Len(toServer) : toServer' = Overtakes(toServer, k)
           /\ UNCHANGED toClient
  <2>1. /\ toServer' \in Seq(ClientAck)
        /\ \A m \in 1 .. Len(toServer') :
             \E n \in 1 .. Len(toServer) : toServer'[m] = toServer[n]
    <3>1. PICK k \in 1 .. Len(toServer) : toServer' = Overtakes(toServer, k)
      BY <1>3
    <3>2. toServer' \in Seq(ClientAck) /\ OnlyOf(toServer', toServer)
      BY ONLY <1>1, <3>1, ReorderedTyped, Zenon
    <3> QED BY <3>2 DEF OnlyOf
  <2>2. TypeOK'
    BY <1>1, <1>3, <2>1 DEF TypeOK
  <2>3. ServerKnows' /\ ClientKnows' /\ RetriesLeft' /\ AnswersOnTheirWay'
    BY <1>1, <1>3, <2>1 DEF ServerKnows, ClientKnows, ServerFinRead, RetriesLeft,
       AnswersOnTheirWay
  <2> QED BY <2>2, <2>3
<1> QED BY <1>2, <1>3 DEF NetworkReorders

LEMMA InvNext == ASSUME Inv, [Next]_vars PROVE Inv'
<1>1. CASE UNCHANGED vars
  BY <1>1 DEF vars, clientVars, serverVars, Inv, TypeOK, ServerKnows,
     ClientKnows, ServerFinRead, RetriesLeft, AnswersOnTheirWay
<1>2. CASE ActiveClose
  BY <1>2, InvSendFin, InvActiveTimeout, InvReadAckOfFin, InvReadFin,
     InvReadOther DEF ActiveClose
<1>3. CASE PassiveClose
  BY <1>3, InvServerReads, InvReply, InvPassiveTimeout DEF PassiveClose
<1> QED BY <1>1, <1>2, <1>3, InvExits, InvReorders DEF Next

(* The inductive invariant of the closing holds in every reachable state.  *)
THEOREM CloseInv == Spec => []Inv
BY InvInit, InvNext, PTL DEF Spec

(* What ActiveClose concludes is true: past FIN_WAIT1 the server child has *)
(* read the client's FIN.                                                  *)
THEOREM ClientConcludesRightly == Spec => []ServerKnows
<1>1. Inv => ServerKnows
  BY DEF Inv
<1> QED BY <1>1, CloseInv, PTL

(* What PassiveClose concludes is true: when it has read an ACK the client *)
(* has read its FIN.                                                       *)
THEOREM ServerConcludesRightly == Spec => []ClientKnows
<1>1. Inv => ClientKnows
  BY DEF Inv
<1> QED BY <1>1, CloseInv, PTL
-----------------------------------------------------------------------------
(***************************************************************************)
(* The seconds of TIME_WAIT.                                               *)
(***************************************************************************)
Untimed == SegmentsFirst /\ TimeWaitWhole /\ NothingReadYet

(* What is left in front of the client after a Read.                       *)
LEMMA SegmentsRead ==
  ASSUME Inv, SegmentsFirst, NEW requests, ClientReads(requests)
  PROVE  /\ \A k \in 1 .. Len(toClient') : toClient'[k].number \in {FIN_REQUEST, ACK_REQUEST}
         /\ \/ Head(toClient).number \in {FIN_REQUEST, ACK_REQUEST}
            \/ currentState = "FIN_WAIT1"
<1>1. toClient \in Seq(ServerDatagram) /\ toClient # << >> /\ toClient' = Tail(toClient)
  BY DEF Inv, TypeOK, ClientReads
<1>2. PICK n \in Nat : n = Len(toClient) /\ n > 0
  BY <1>1, EmptySeq, LenProperties
<1>3. Head(toClient) = toClient[1]
  BY <1>1, HeadTailProperties
<1>4. Len(toClient') = n - 1 /\ \A k \in 1 .. n - 1 : toClient'[k] = toClient[k + 1]
  BY <1>1, <1>2, HeadTailProperties
<1>5. \A k \in 1 .. n - 1 : k + 1 \in 1 .. n /\ k + 1 # 1
  BY <1>2
<1> QED BY <1>2, <1>3, <1>4, <1>5 DEF SegmentsFirst

LEMMA UntimedActive ==
  ASSUME Inv, Untimed, ActiveClose
  PROVE  Untimed'
<1> USE DEF Untimed
<1>1. CASE SendFin
  BY <1>1 DEF SendFin, SegmentsFirst, TimeWaitWhole, NothingReadYet, serverVars
<1>2. CASE ActiveTimeout
  <2>1. SegmentsFirst' /\ NothingReadYet'
    BY <1>2 DEF ActiveTimeout, SegmentsFirst, NothingReadYet, serverVars
  <2>2. TimeWaitWhole'
    BY <1>2 DEF ActiveTimeout, TimeWaitWhole
  <2> QED BY <2>1, <2>2
<1>3. CASE ReadAckOfFin
  <2>1. /\ closer' = "waiting" /\ twoMSL' = twoMSL /\ NothingReadYet'
        /\ currentState' = "TIME_WAIT" \/ (currentState # "TIME_WAIT" /\ twoMSL = TwoMSL)
    BY <1>3 DEF ReadAckOfFin, ClientReads, NothingReadYet, serverVars, TimeWaitWhole
  <2>2. SegmentsFirst'
    BY <1>3, SegmentsRead DEF ReadAckOfFin, SegmentsFirst
  <2> QED BY <2>1, <2>2 DEF TimeWaitWhole
<1>4. CASE ReadFin
  <2>1. /\ closer' = "waiting" /\ twoMSL' = twoMSL /\ NothingReadYet'
        /\ currentState' = "TIME_WAIT" \/ (currentState # "TIME_WAIT" /\ twoMSL = TwoMSL)
    BY <1>4 DEF ReadFin, ClientReads, AfterFin, NothingReadYet, serverVars, TimeWaitWhole
  <2>2. SegmentsFirst'
    BY <1>4, SegmentsRead DEF ReadFin, SegmentsFirst
  <2> QED BY <2>1, <2>2 DEF TimeWaitWhole
<1>5. CASE ReadOther
  <2>1. Head(toClient).number \notin {FIN_REQUEST, ACK_REQUEST}
    BY <1>5 DEF ReadOther, ClientReads
  <2>2. currentState = "FIN_WAIT1" /\ SegmentsFirst'
    BY <1>5, <2>1, SegmentsRead DEF ReadOther, SegmentsFirst
  <2> QED BY <1>5, <2>2 DEF ReadOther, TimeWaitWhole, NothingReadYet, serverVars
<1>6. CASE ClientDies
  BY <1>6 DEF ClientDies, SegmentsFirst, TimeWaitWhole, NothingReadYet, serverVars
<1> QED BY <1>1, <1>2, <1>3, <1>4, <1>5, <1>6 DEF ActiveClose

LEMMA UntimedPassive ==
  ASSUME Inv, Untimed, PassiveClose
  PROVE  Untimed'
<1> USE DEF Untimed
<1>1. TimeWaitWhole'
  BY DEF PassiveClose, ReadFirst, ReplyAck, ReplyFin, PassiveTimeout, ReadAnswer, ServerDies,
         TimeWaitWhole, clientVars
<1>2. CASE ReadFirst \/ ReadAnswer \/ PassiveTimeout \/ ServerDies
  <2>1. SegmentsFirst'
    BY <1>2 DEF ReadFirst, ReadAnswer, PassiveTimeout, ServerDies, SegmentsFirst, clientVars
  <2>2. NothingReadYet'
    BY <1>2 DEF ReadFirst, ReadAnswer, PassiveTimeout, ServerDies, NothingReadYet, IsFin,
                ServerReads
  <2> QED BY <1>1, <2>1, <2>2
<1>3. CASE ReplyAck \/ ReplyFin
  <2>1. PICK request \in {ACK_REQUEST, FIN_REQUEST} : SendToClient(CloseDatagram(request))
    BY <1>3 DEF ReplyAck, ReplyFin
  <2>2. \/ toClient' = toClient
        \/ toClient' = Append(toClient, CloseDatagram(request))
    BY <2>1 DEF SendToClient
  <2>3. toClient \in Seq(ServerDatagram) /\ CloseDatagram(request) \in ServerDatagram
        /\ CloseDatagram(request).number \in {ACK_REQUEST, FIN_REQUEST}
    BY DEF Inv, TypeOK, CloseDatagram, ServerDatagram, ACK_REQUEST, FIN_REQUEST
  <2>4. UNCHANGED currentState
    BY <1>3 DEF ReplyAck, ReplyFin, clientVars
  <2>5. SegmentsFirst'
    <3>1. CASE toClient' = toClient
      BY <2>4, <3>1 DEF SegmentsFirst
    <3>2. CASE toClient' = Append(toClient, CloseDatagram(request))
      <4>1. PICK n \in Nat : n = Len(toClient)
        BY <2>3, LenProperties
      <4>2. /\ Len(toClient') = n + 1 /\ toClient'[n + 1] = CloseDatagram(request)
            /\ \A k \in 1 .. n : toClient'[k] = toClient[k]
        BY <2>3, <3>2, <4>1, AppendProperties
      <4>3. \A k \in 1 .. n + 1 : k \in 1 .. n \/ k = n + 1
        BY <4>1
      <4> QED BY <2>3, <2>4, <4>1, <4>2, <4>3 DEF SegmentsFirst
    <3> QED BY <2>2, <3>1, <3>2
  <2>6. NothingReadYet'
    BY <1>3 DEF ReplyAck, ReplyFin, NothingReadYet
  <2> QED BY <1>1, <2>5, <2>6
<1> QED BY <1>2, <1>3 DEF PassiveClose

LEMMA UntimedExits ==
  ASSUME Inv, Untimed, Exits
  PROVE  Untimed'
BY DEF Untimed, Exits, ClientExits, ServerExits, clientVars, serverVars, SegmentsFirst,
       TimeWaitWhole, NothingReadYet
-----------------------------------------------------------------------------
(* The numbers that the seconds are counted in.                            *)
LEMMA Seconds ==
  ASSUME Inv, ClocksRun
  PROVE  /\ ActiveWait \in Nat \ {0} /\ PassiveWait \in Nat \ {0}
         /\ TwoMSL \in Nat \ {0} /\ PassiveRetries \in Nat \ {0}
         /\ activeClock \in Int /\ 0 <= activeClock /\ activeClock <= ActiveWait
         /\ passiveClock \in Int /\ 0 <= passiveClock /\ passiveClock <= PassiveWait
         /\ twoMSL \in Int /\ serverRetry \in Int /\ serverRetry <= PassiveRetries
         /\ passive \in {"reading", "replying", "replied", "waiting"} => serverRetry > 0
         /\ closer = "waiting" => twoMSL > 0
BY WaitAssumption, CloseAssumption DEF Inv, TypeOK, RetriesLeft, ClocksRun

LEMMA Multiples ==
  ASSUME NEW w \in Nat
  PROVE  /\ \A a \in Int : (a - 1) * w = (a - 2) * w + w
         /\ \A a \in Int : w + (a - 1) * w = a * w
         /\ \A a, b \in Int : a <= b => a * w <= b * w
<1>1. \A a \in Int : (a - 1) * w = (a - 2) * w + w
  OBVIOUS
<1>2. \A a \in Int : w + (a - 1) * w = a * w
  OBVIOUS
<1>3. ASSUME NEW a \in Int, NEW b \in Int, a <= b
      PROVE  a * w <= b * w
  <2>1. b * w = a * w + (b - a) * w /\ b - a \in Nat
    BY <1>3
  <2>2. \A m, n \in Nat : m * n \in Nat
    OBVIOUS
  <2>3. (b - a) * w \in Nat
    BY <2>1, <2>2
  <2> QED BY <2>1, <2>3
<1> QED BY <1>1, <1>2, <1>3

(* What a datagram read or sent means for the replies still due.           *)
LEMMA RepliesDue ==
  ASSUME toServer \in Seq(ClientAck)
  PROVE  /\ toServer' \in {toServer, << >>} => (ReplyDue' => ReplyDue)
         /\ ServerReads => (ReplyDue' => ReplyDue)
         /\ ServerReads /\ ~IsAck(Head(toServer)) => ReplyDue
         /\ \A word2, word3 \in {0, 1} :
              SendToServer(ClientClose(ACK_REQUEST, word2, word3)) => (ReplyDue' => ReplyDue)
<1>1. toServer' \in {toServer, << >>} => (ReplyDue' => ReplyDue)
  BY DEF ReplyDue
<1>2. ASSUME ServerReads
      PROVE  /\ ReplyDue' => ReplyDue
             /\ ~IsAck(Head(toServer)) => ReplyDue
  <2>1. /\ \E j \in 1 .. Len(toServer) : Head(toServer) = toServer[j]
        /\ \A k \in 1 .. Len(Tail(toServer)) :
             \E j \in 1 .. Len(toServer) : Tail(toServer)[k] = toServer[j]
    BY <1>2, TailQueue DEF ServerReads
  <2> QED BY <1>2, <2>1 DEF ServerReads, ReplyDue, IsAck
<1>3. ASSUME NEW word2 \in {0, 1}, NEW word3 \in {0, 1},
             SendToServer(ClientClose(ACK_REQUEST, word2, word3)), ReplyDue'
      PROVE  ReplyDue
  <2> DEFINE ack == ClientClose(ACK_REQUEST, word2, word3)
  <2>1. ack \in ClientAck /\ IsAck(ack)
    BY DEF ClientClose, ClientAck, ACK_REQUEST, IsAck
  <2>2. \A k \in 1 .. Len(toServer') :
          \/ toServer'[k] = ack
          \/ \E j \in 1 .. Len(toServer) : toServer'[k] = toServer[j]
    BY <1>3, <2>1, ServerQueue
  <2> HIDE DEF ack
  <2> QED BY <1>3, <2>1, <2>2 DEF ReplyDue, IsAck
<1> QED BY <1>1, <1>2, <1>3

(* At the start of TIME_WAIT there is time for all replies.                *)
LEMMA WholeTimeWait ==
  ASSUME TimeWaitLongEnough, Inv, ClocksRun
  PROVE  /\ (serverRetry - 1) * PassiveWait < ActiveWait + (TwoMSL - 1) * ActiveWait
         /\ passiveClock + (serverRetry - 2) * PassiveWait
              < ActiveWait + (TwoMSL - 1) * ActiveWait
<1>1. /\ ActiveWait \in Nat /\ PassiveWait \in Nat /\ TwoMSL \in Int
      /\ serverRetry \in Int /\ PassiveRetries \in Int
      /\ passiveClock \in Int /\ passiveClock <= PassiveWait
      /\ serverRetry <= PassiveRetries
  BY Seconds
<1>2. ActiveWait + (TwoMSL - 1) * ActiveWait = TwoMSL * ActiveWait
  BY <1>1, Multiples
<1>3. (serverRetry - 1) * PassiveWait <= (PassiveRetries - 1) * PassiveWait
  <2>1. serverRetry - 1 \in Int /\ PassiveRetries - 1 \in Int
        /\ serverRetry - 1 <= PassiveRetries - 1
    BY <1>1
  <2> QED BY <1>1, <2>1, Multiples
<1>4. (serverRetry - 1) * PassiveWait = (serverRetry - 2) * PassiveWait + PassiveWait
  BY <1>1, Multiples
<1> QED BY <1>1, <1>2, <1>3, <1>4 DEF TimeWaitLongEnough

(* The client's steps: TIME_WAIT begins with both clocks and all waits     *)
(* whole, a silent wait is counted when its seconds are over, and anything *)
(* that arrives makes the wait longer.                                     *)
LEMMA TimedActive ==
  ASSUME TimeWaitLongEnough, prompt, TimedInv, TimedActiveClose
  PROVE  LastReplyInTime'
<1> USE DEF TimedInv, InStep
<1>0. ActiveClose /\ activeClock' = ActiveWait /\ UNCHANGED <<passiveClock, serverVars>>
  BY DEF TimedActiveClose, ActiveClose, SendFin, ActiveTimeout, ReadAckOfFin, ReadFin,
         ReadOther, ClientDies
<1>1. UNCHANGED <<passive, serverRetry, passiveClock>>
  BY <1>0 DEF serverVars
<1>2. CASE SendFin \/ ReadOther \/ ClientDies
  <2>1. CASE SendFin
    BY <2>1 DEF SendFin, TimeWaitWhole, LastReplyInTime
  <2>2. CASE ReadOther \/ ClientDies
    BY <2>2 DEF ReadOther, ClientDies, LastReplyInTime
  <2> QED BY <1>2, <2>1, <2>2
<1>3. CASE ActiveTimeout
  <2>1. CASE currentState = "TIME_WAIT"
    <3>1. /\ closer = "waiting" /\ twoMSL' = twoMSL - 1 /\ activeClock = 0
          /\ closer' = IF twoMSL' = 0 THEN "closed" ELSE "waiting"
          /\ UNCHANGED toServer
      BY <1>3, <2>1 DEF ActiveTimeout, TimedActiveClose, WaitedEnough
    <3>2. ActiveWait \in Nat \ {0} /\ twoMSL \in Int
      BY Seconds
    <3>3. SecondsToClose' = SecondsToClose
      <4>1. ActiveWait + (twoMSL - 2) * ActiveWait = (twoMSL - 1) * ActiveWait
        BY <3>2, Multiples
      <4>2. twoMSL' - 1 = twoMSL - 2
        BY <3>1, <3>2
      <4>3. CASE twoMSL' = 0
        BY <3>1, <3>2, <4>3 DEF SecondsToClose
      <4>4. CASE twoMSL' # 0
        <5>1. SecondsToClose' = ActiveWait + (twoMSL - 2) * ActiveWait
          BY <1>0, <3>1, <4>2, <4>4 DEF SecondsToClose
        <5>2. SecondsToClose = 0 + (twoMSL - 1) * ActiveWait
          BY <3>1 DEF SecondsToClose
        <5> QED BY <3>2, <4>1, <5>1, <5>2
      <4> QED BY <4>3, <4>4
    <3>4. ~ReplyDue'
      BY <2>1, <3>1, <3>2 DEF LastReplyInTime, ReplyDue
    <3> QED BY <1>1, <2>1, <3>1, <3>3, <3>4 DEF LastReplyInTime
  <2>2. CASE currentState # "TIME_WAIT"
    BY <1>3, <2>2 DEF ActiveTimeout, LastReplyInTime
  <2> QED BY <2>1, <2>2
<1>4. CASE ReadAckOfFin \/ ReadFin
  <2>1. /\ closer = "waiting" /\ UNCHANGED <<closer, twoMSL>>
        /\ currentState = "TIME_WAIT" => currentState' = "TIME_WAIT" /\ (ReplyDue' => ReplyDue)
    <3>1. CASE ReadAckOfFin
      BY <3>1 DEF ReadAckOfFin, ClientReads, ReplyDue
    <3>2. CASE ReadFin
      <4>1. PICK word2, word3 \in {0, 1} :
              SendToServer(ClientClose(ACK_REQUEST, word2, word3))
        BY <3>2 DEF ReadFin, WordsRead
      <4>2. ReplyDue' => ReplyDue
        BY <4>1, RepliesDue DEF Inv, TypeOK
      <4> QED BY <3>2, <4>2 DEF ReadFin, ClientReads, AfterFin
    <3> QED BY <1>4, <3>1, <3>2
  <2>2. SecondsToClose' = ActiveWait + (twoMSL - 1) * ActiveWait
    BY <1>0, <2>1 DEF SecondsToClose
  <2>3. CASE currentState = "TIME_WAIT"
    <3>1. SecondsToClose = activeClock + (twoMSL - 1) * ActiveWait
      BY <2>1 DEF SecondsToClose
    <3>2. \A n \in Int : n < SecondsToClose => n < SecondsToClose'
      <4> DEFINE waits == (twoMSL - 1) * ActiveWait
      <4>1. waits \in Int /\ activeClock \in Int /\ activeClock <= ActiveWait
            /\ ActiveWait \in Int
        BY Seconds
      <4>2. SecondsToClose = activeClock + waits /\ SecondsToClose' = ActiveWait + waits
        BY <2>2, <3>1
      <4> HIDE DEF waits
      <4> QED BY <4>1, <4>2
    <3>3. /\ (serverRetry - 1) * PassiveWait \in Int
          /\ passiveClock + (serverRetry - 2) * PassiveWait \in Int
      BY Seconds
    <3>4. /\ passive \in {"replying", "replied"} =>
               (serverRetry - 1) * PassiveWait < SecondsToClose'
          /\ passive = "waiting" /\ serverRetry > 1 =>
               passiveClock + (serverRetry - 2) * PassiveWait < SecondsToClose'
      BY <2>1, <2>3, <3>2, <3>3 DEF LastReplyInTime
    <3>5. ReplyDue' => twoMSL = TwoMSL
      BY <2>1, <2>3 DEF LastReplyInTime
    <3> QED BY <1>0, <1>1, <2>1, <3>4, <3>5 DEF LastReplyInTime
  <2>4. CASE currentState # "TIME_WAIT"
    <3>1. twoMSL = TwoMSL
      BY <2>4 DEF TimeWaitWhole
    <3>2. /\ (serverRetry - 1) * PassiveWait < SecondsToClose'
          /\ passiveClock + (serverRetry - 2) * PassiveWait < SecondsToClose'
      BY <2>2, <3>1, WholeTimeWait
    <3> QED BY <1>0, <1>1, <2>1, <3>1, <3>2 DEF LastReplyInTime
  <2> QED BY <2>3, <2>4
<1> QED BY <1>0, <1>2, <1>3, <1>4 DEF ActiveClose

(* The server child's steps: a reply starts its wait again, and a wait     *)
(* that is over has used up its seconds.                                   *)
LEMMA TimedPassive ==
  ASSUME TimeWaitLongEnough, prompt, TimedInv, TimedPassiveClose
  PROVE  LastReplyInTime'
<1> USE DEF TimedInv, InStep
<1>0. /\ PassiveClose /\ passiveClock' = PassiveWait
      /\ UNCHANGED <<closer, currentState, twoMSL, activeClock>>
      /\ SecondsToClose' = SecondsToClose
  BY DEF TimedPassiveClose, PassiveClose, ReadFirst, ReplyAck, ReplyFin, PassiveTimeout,
         ReadAnswer, ServerDies, clientVars, SecondsToClose
<1>1. SUFFICES ASSUME currentState = "TIME_WAIT", closer \in {"waiting", "closed"}
               PROVE  LastReplyInTime'
  BY <1>0 DEF LastReplyInTime
<1>2. /\ toServer \in Seq(ClientAck) /\ finRead /\ passive # "reading"
      /\ PassiveWait \in Nat /\ serverRetry \in Int /\ passiveClock \in Int
  BY <1>1, Seconds DEF Inv, TypeOK, ServerKnows, NothingReadYet
<1>3. ReplyDue => closer = "waiting" /\ twoMSL = TwoMSL /\ activeClock = ActiveWait
  BY <1>1 DEF LastReplyInTime
<1>4. CASE ReplyAck
  BY <1>0, <1>1, <1>4 DEF ReplyAck, LastReplyInTime, ReplyDue
<1>5. CASE ReplyFin
  <2>1. /\ passive = "replied" /\ passive' = "waiting"
        /\ UNCHANGED <<serverRetry, toServer>>
    BY <1>5 DEF ReplyFin
  <2>2. (serverRetry - 1) * PassiveWait = (serverRetry - 2) * PassiveWait + PassiveWait
    BY <1>2, Multiples
  <2>3. (serverRetry - 1) * PassiveWait < SecondsToClose
    BY <1>1, <2>1 DEF LastReplyInTime
  <2>4. (serverRetry - 2) * PassiveWait \in Int
    BY <1>2
  <2>5. passiveClock' + (serverRetry' - 2) * PassiveWait
          = (serverRetry - 1) * PassiveWait
    BY <1>0, <1>2, <2>1, <2>2, <2>4
  <2> QED BY <1>0, <1>3, <2>1, <2>3, <2>5 DEF LastReplyInTime, ReplyDue
<1>6. CASE PassiveTimeout
  <2>1. /\ passive = "waiting" /\ passiveClock = 0 /\ serverRetry' = serverRetry - 1
        /\ passive' = IF serverRetry' = 0 THEN "unanswered" ELSE "replying"
        /\ UNCHANGED toServer /\ serverRetry > 0
    BY <1>6, Seconds DEF PassiveTimeout, TimedPassiveClose, CountTimeout
  <2>2. CASE serverRetry = 1
    BY <1>0, <1>3, <2>1, <2>2 DEF LastReplyInTime, ReplyDue
  <2>3. CASE serverRetry > 1
    <3>1. 0 + (serverRetry - 2) * PassiveWait < SecondsToClose
      BY <1>1, <2>1, <2>3 DEF LastReplyInTime
    <3>2. serverRetry' - 1 = serverRetry - 2 /\ serverRetry' # 0
      BY <1>2, <2>1, <2>3
    <3>3. (serverRetry - 2) * PassiveWait \in Int
      BY <1>2
    <3>4. (serverRetry' - 1) * PassiveWait < SecondsToClose
      BY <3>1, <3>2, <3>3
    <3> QED BY <1>0, <1>3, <2>1, <3>2, <3>4 DEF LastReplyInTime, ReplyDue
  <2> QED BY <1>2, <2>1, <2>2, <2>3
<1>7. CASE ReadAnswer
  <2>1. /\ passive = "waiting" /\ ServerReads /\ UNCHANGED serverRetry
        /\ passive' = IF IsAck(Head(toServer)) THEN "acked" ELSE "replying"
    BY <1>7 DEF ReadAnswer
  <2>2. ReplyDue' => ReplyDue
    BY <1>2, <2>1, RepliesDue
  <2>3. CASE IsAck(Head(toServer))
    BY <1>0, <1>3, <2>1, <2>2, <2>3 DEF LastReplyInTime
  <2>4. CASE ~IsAck(Head(toServer))
    <3>1. ReplyDue
      BY <1>2, <2>1, <2>4, RepliesDue
    <3>2. SecondsToClose = ActiveWait + (TwoMSL - 1) * ActiveWait
      BY <1>3, <3>1 DEF SecondsToClose
    <3>3. (serverRetry - 1) * PassiveWait < SecondsToClose
      BY <3>2, WholeTimeWait
    <3> QED BY <1>0, <1>3, <2>1, <2>4, <3>1, <3>3 DEF LastReplyInTime
  <2> QED BY <2>3, <2>4
<1>8. CASE ServerDies
  BY <1>0, <1>3, <1>8 DEF ServerDies, LastReplyInTime, ReplyDue
<1>9. ~ReadFirst
  BY <1>2 DEF ReadFirst
<1> QED BY <1>0, <1>4, <1>5, <1>6, <1>7, <1>8, <1>9 DEF PassiveClose

LEMMA TimedTick ==
  ASSUME TimedInv, Tick
  PROVE  ClocksRun' /\ LastReplyInTime'
<1> USE DEF TimedInv, InStep
<1>0. /\ prompt /\ prompt' = prompt
      /\ UNCHANGED <<closer, currentState, twoMSL, passive, serverRetry, toServer>>
      /\ toServer = << >>
      /\ closer = "waiting" => activeClock > 0 /\ activeClock' = activeClock - 1
      /\ closer # "waiting" => activeClock' = activeClock
      /\ passive = "waiting" => passiveClock > 0 /\ passiveClock' = passiveClock - 1
      /\ passive # "waiting" => passiveClock' = passiveClock
      /\ passive \notin {"replying", "replied"}
  BY DEF Tick, SecondsLeft, ActiveEnds, PassiveEnds, vars, clientVars, serverVars
<1>1. /\ ActiveWait \in Nat /\ PassiveWait \in Nat /\ twoMSL \in Int /\ serverRetry \in Int
      /\ activeClock \in 0 .. ActiveWait /\ passiveClock \in 0 .. PassiveWait
  BY Seconds DEF ClocksRun
<1>2. ClocksRun'
  BY <1>0, <1>1 DEF ClocksRun
<1>3. ~ReplyDue'
  BY <1>0 DEF ReplyDue
<1> DEFINE waits == (twoMSL - 1) * ActiveWait
           tries == (serverRetry - 2) * PassiveWait
<1>4. waits \in Int /\ tries \in Int
  BY <1>1
<1>5. ASSUME passive = "waiting", passiveClock + tries < SecondsToClose,
             closer \in {"waiting", "closed"}
      PROVE  passiveClock' + tries < SecondsToClose'
  <2>1. SecondsToClose = IF closer = "closed" THEN 0 ELSE activeClock + waits
    BY DEF SecondsToClose
  <2>2. SecondsToClose' = IF closer = "closed" THEN 0 ELSE activeClock' + waits
    BY <1>0 DEF SecondsToClose
  <2> HIDE DEF waits, tries
  <2> QED BY <1>0, <1>1, <1>4, <1>5, <2>1, <2>2
<1>6. LastReplyInTime'
  BY <1>0, <1>3, <1>5 DEF LastReplyInTime
<1> QED BY <1>2, <1>6

LEMMA TimedInitInv == TimedInit => TimedInv
<1> SUFFICES ASSUME TimedInit PROVE TimedInv
  OBVIOUS
<1>1. Inv
  BY InvInit DEF TimedInit
<1>2. ClocksRun /\ TimeWaitWhole /\ NothingReadYet /\ LastReplyInTime
  BY WaitAssumption DEF TimedInit, Init, ClocksRun, TimeWaitWhole, NothingReadYet,
     LastReplyInTime
<1>3. SegmentsFirst
  <2>1. CASE toClient = << >>
    BY <2>1 DEF SegmentsFirst
  <2>2. CASE \E datagram \in LateSegments : toClient = <<datagram>>
    BY <2>2 DEF SegmentsFirst, TimedInit, Init
  <2> QED BY <2>1, <2>2 DEF TimedInit, Init
<1> QED BY <1>1, <1>2, <1>3 DEF TimedInv, InStep

LEMMA TimedInvNext ==
  ASSUME TimeWaitLongEnough, TimedInv, [TimedNext]_timedVars
  PROVE  TimedInv'
<1>0. Inv /\ ClocksRun
  BY DEF TimedInv
<1>1. [Next]_vars /\ prompt' = prompt
  BY DEF TimedNext, TimedActiveClose, TimedPassiveClose, TimedExits, OutOfTurn, Tick, Next,
     timedVars
<1>2. Inv'
  BY <1>0, <1>1, InvNext
<1>3. ClocksRun'
  <2>1. CASE Tick
    BY <2>1, TimedTick
  <2>2. CASE TimedActiveClose \/ TimedPassiveClose \/ TimedExits \/ OutOfTurn
    BY <1>0, <2>2, WaitAssumption
       DEF TimedActiveClose, TimedPassiveClose, TimedExits, OutOfTurn, ClocksRun
  <2>3. CASE UNCHANGED timedVars
    BY <1>0, <2>3 DEF timedVars, ClocksRun
  <2> QED BY <2>1, <2>2, <2>3 DEF TimedNext
<1>4. ASSUME prompt
      PROVE  InStep'
  <2>1. Untimed /\ LastReplyInTime /\ ~OutOfTurn
    BY <1>4 DEF TimedInv, InStep, Untimed, OutOfTurn
  <2>2. Untimed'
    <3>1. CASE UNCHANGED vars
      BY <2>1, <3>1 DEF Untimed, SegmentsFirst, TimeWaitWhole, NothingReadYet, vars,
                        clientVars, serverVars
    <3>2. TimedActiveClose \/ TimedPassiveClose \/ TimedExits \/ UNCHANGED vars
      BY <2>1 DEF TimedNext, Tick, timedVars
    <3> QED BY <1>0, <2>1, <3>1, <3>2, UntimedActive, UntimedPassive, UntimedExits
            DEF TimedActiveClose, TimedPassiveClose, TimedExits
  <2>3. CASE TimedExits
    <3>1. /\ UNCHANGED <<closer, currentState, twoMSL, passive, serverRetry, activeClock,
                         passiveClock>>
          /\ toServer' \in {toServer, << >>}
      BY <2>3 DEF TimedExits, Exits, ClientExits, ServerExits, clientVars, serverVars
    <3>2. ReplyDue' => ReplyDue
      BY <1>0, <3>1, RepliesDue DEF Inv, TypeOK
    <3>3. LastReplyInTime'
      BY <2>1, <3>1, <3>2 DEF LastReplyInTime, SecondsToClose
    <3> QED BY <2>2, <3>3 DEF Untimed, InStep
  <2>4. CASE UNCHANGED timedVars
    <3>1. LastReplyInTime'
      BY <2>1, <2>4 DEF timedVars, vars, clientVars, serverVars, LastReplyInTime,
                        SecondsToClose, ReplyDue
    <3> QED BY <2>2, <3>1 DEF Untimed, InStep
  <2>5. CASE TimedActiveClose \/ TimedPassiveClose \/ Tick
    <3>1. LastReplyInTime'
      BY <1>4, <2>5, TimedActive, TimedPassive, TimedTick
    <3> QED BY <2>2, <3>1 DEF Untimed, InStep
  <2> QED BY <2>1, <2>3, <2>4, <2>5 DEF TimedNext
<1> QED BY <1>1, <1>2, <1>3, <1>4 DEF TimedInv

(* On a prompt network, from the client's entry into TIME_WAIT             *)
(* (client.c:634, 642) on, the seconds left to PassiveClose's retries      *)
(* (server.c:861-911) are fewer than those left of TIME_WAIT.              *)
THEOREM ClocksInStep ==
  ASSUME TimeWaitLongEnough
  PROVE  TimedSpec => []TimedInv
<1>1. TimedInv /\ [TimedNext]_timedVars => TimedInv'
  BY TimedInvNext
<1> QED BY <1>1, TimedInitInv, PTL DEF TimedSpec

(* When the silent waits of TIME_WAIT take longer than PassiveClose goes   *)
(* on waiting and replying after its first reply, which they do with the   *)
(* numbers of the code, no reply of PassiveClose finds the client gone,    *)
(* whatever a prompt network loses (client.c:587-664, server.c:861-911).   *)
THEOREM TimeWaitCovers ==
  ASSUME TimeWaitLongEnough
  PROVE  TimedSpec => TimeWaitCoversRetries
<1>1. TimedInv => (prompt /\ (ReplyAck \/ ReplyFin) => closer # "closed")
  <2> SUFFICES ASSUME TimedInv, prompt, passive \in {"replying", "replied"}, closer = "closed"
               PROVE  FALSE
    BY DEF ReplyAck, ReplyFin
  <2>1. serverRetry > 0 /\ serverRetry \in Int /\ PassiveWait \in Nat
    BY Seconds DEF TimedInv
  <2>2. (serverRetry - 1) * PassiveWait < 0
    BY DEF TimedInv, InStep, TimeWaitWhole, LastReplyInTime, SecondsToClose
  <2>3. 0 * PassiveWait <= (serverRetry - 1) * PassiveWait
    <3>1. serverRetry - 1 \in Int /\ 0 <= serverRetry - 1
      BY <2>1
    <3> QED BY <2>1, <3>1, Multiples
  <2> QED BY <2>1, <2>2, <2>3
<1>2. TimedSpec => []TimedInv
  BY ClocksInStep
<1> QED BY <1>1, <1>2, PTL DEF TimedSpec, TimeWaitCoversRetries
=============================================================================
