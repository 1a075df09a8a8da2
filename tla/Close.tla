-------------------------------- MODULE Close --------------------------------
(***************************************************************************)
(* The end of a connection: ActiveClose in the client's consumer thread    *)
(* and PassiveClose in the server child.  Both repeat what is not answered *)
(* in time; here a Select may run into its time limit whenever the process *)
(* waits, since an answer may be late as well as lost (TimedClose counts   *)
(* the seconds).                                                           *)
(*                                                                         *)
(* Both sockets are connected: a datagram sent to a process that has ended *)
(* comes back as an error, and the next Read or Write, which are Stevens'  *)
(* wrappers, then ends the sender as well.                                 *)
(***************************************************************************)
EXTENDS Messages, Sequences

CONSTANTS
  ActiveRetries,  \* numRetry of ActiveClose
  PassiveRetries, \* numRetry of PassiveClose
  TwoMSL,         \* twoMSL of ActiveClose
  LateAcks,       \* acknowledgements that may be queued before the first FIN
  LateSegments,   \* segments that may be queued when the client starts to close
  StrayDescriptor, \* what the rset of ActiveClose, never cleared, names besides
                  \* the socket: "none", a "closed" or a "readable" descriptor
  SocketBuffer    \* bound: datagrams queued in one direction, more are lost

ASSUME CloseAssumption ==
  /\ ActiveRetries \in Nat \ {0} /\ PassiveRetries \in Nat \ {0}
  /\ TwoMSL \in Nat \ {0}
  /\ LateAcks \subseteq [currentRequest: Nat, advtWindow: Int, lastack_sent: {0, 1}]
  /\ LateSegments \subseteq [kind: {"segment"}, number: Nat]
  /\ StrayDescriptor \in {"none", "closed", "readable"}
  /\ SocketBuffer \in Nat \ {0}

VARIABLES
  closer,       \* where the client is in ActiveClose
  currentState, \* the state of ActiveClose that is named after TCP's
  numRetry,     \* how often it may still send its FIN
  twoMSL,       \* how many silent waits of TIME_WAIT are left
  passive,      \* where the server child is in PassiveClose
  serverRetry,  \* numRetry of PassiveClose
  finRead,      \* history: the server child has read a FIN of the client
  refused,      \* processes for which an error is pending on the socket
  up,           \* processes that have not ended
  toClient,     \* datagrams on their way to the client
  toServer      \* datagrams on their way to the server child

clientVars == <<closer, currentState, numRetry, twoMSL>>
serverVars == <<passive, serverRetry, finRead>>
vars == <<clientVars, serverVars, refused, up, toClient, toServer>>

ActiveCloseStates == {"FIN_WAIT1", "FIN_WAIT2", "CLOSING", "TIME_WAIT"}

(* How each function ends: ActiveClose after TIME_WAIT, without an answer, *)
(* or with the process; PassiveClose on an ACK, without one, because the   *)
(* first datagram is no FIN, or with the process.                          *)
ActiveEnds == {"closed", "unanswered", "died"}
PassiveEnds == {"acked", "unanswered", "ignored", "died"}

Init ==
  /\ closer = "starting" /\ currentState = "FIN_WAIT1"
  /\ numRetry = ActiveRetries /\ twoMSL = TwoMSL
  /\ passive = "reading" /\ serverRetry = PassiveRetries
  /\ finRead = FALSE
  /\ refused = {} /\ up = {"client", "server"}
  /\ toClient = << >> \/ \E datagram \in LateSegments : toClient = <<datagram>>
  /\ toServer = << >> \/ \E answer \in LateAcks : toServer = <<answer>>
-----------------------------------------------------------------------------
(* A datagram is queued, or lost, or finds nobody to take it.              *)
SendToServer(datagram) ==
  \/ UNCHANGED toServer /\ refused' = refused
  \/ /\ "server" \in up /\ Len(toServer) < SocketBuffer
     /\ toServer' = Append(toServer, datagram) /\ refused' = refused
  \/ /\ "server" \notin up
     /\ refused' = refused \cup {"client"} /\ UNCHANGED toServer

SendToClient(datagram) ==
  \/ UNCHANGED toClient /\ refused' = refused
  \/ /\ "client" \in up /\ Len(toClient) < SocketBuffer
     /\ toClient' = Append(toClient, datagram) /\ refused' = refused
  \/ /\ "client" \notin up
     /\ refused' = refused \cup {"server"} /\ UNCHANGED toClient
-----------------------------------------------------------------------------
(***************************************************************************)
(* ActiveClose                                                             *)
(***************************************************************************)

(* The top of the outer loop.                                              *)
SendFin ==
  /\ closer = "starting"
  /\ SendToServer(ClientClose(FIN_REQUEST, 0, 0))
  /\ closer' = "waiting"
  /\ UNCHANGED <<currentState, numRetry, twoMSL, serverVars, up, toClient>>

(* Mutation: the time limits are not counted.                              *)
ForgetTimeout(retries) == retries

CountTimeout(retries) == retries - 1

(* Mutation: a single wait.                                                *)
WaitedOnce(left) == left < TwoMSL

WaitedEnough(left) == left = 0

(* Select returns 0, which it never does for a descriptor that is always   *)
(* readable.  TIME_WAIT lasts until twoMSL is used up, in the other states *)
(* the FIN is sent again as long as numRetry allows it.                    *)
ActiveTimeout ==
  /\ closer = "waiting" /\ StrayDescriptor = "none"
  /\ IF currentState = "TIME_WAIT"
     THEN /\ twoMSL' = twoMSL - 1
          /\ closer' = IF WaitedEnough(twoMSL') THEN "closed" ELSE "waiting"
          /\ UNCHANGED numRetry
     ELSE /\ numRetry' = CountTimeout(numRetry)
          /\ closer' = IF numRetry' = 0 THEN "unanswered" ELSE "starting"
          /\ UNCHANGED twoMSL
  /\ UNCHANGED <<currentState, serverVars, refused, up, toClient, toServer>>

ClientReads(requests) ==
  /\ closer = "waiting" /\ StrayDescriptor # "closed"
  /\ toClient # << >>
  /\ Head(toClient).number \in requests
  /\ toClient' = Tail(toClient)

ReadAckOfFin ==
  /\ ClientReads({ACK_REQUEST})
  /\ currentState' = CASE currentState = "FIN_WAIT1" -> "FIN_WAIT2"
                       [] currentState = "CLOSING" -> "TIME_WAIT"
                       [] OTHER -> currentState
  /\ UNCHANGED <<closer, numRetry, twoMSL, serverVars, refused, up, toServer>>

AfterFin(state) ==
  CASE state = "FIN_WAIT1" -> "CLOSING"
    [] state = "FIN_WAIT2" -> "TIME_WAIT"
    [] OTHER -> state

(* Every FIN is answered, in every state, with the structure that was read:*)
(* behind the first word the answer carries what followed it there, zeros  *)
(* in a FIN of the server, data in a segment that is taken for one.        *)
WordsRead(datagram) == IF datagram.kind = "close" THEN {0} ELSE {0, 1}

ReadFin ==
  /\ ClientReads({FIN_REQUEST})
  /\ currentState' = AfterFin(currentState)
  /\ \E word2, word3 \in WordsRead(Head(toClient)) :
       SendToServer(ClientClose(ACK_REQUEST, word2, word3))
  /\ UNCHANGED <<closer, numRetry, twoMSL, serverVars, up>>

(* Anything else makes it start over with a FIN, in the state it is in.    *)
ReadOther ==
  /\ ClientReads(Int \ {FIN_REQUEST, ACK_REQUEST})
  /\ closer' = "starting"
  /\ UNCHANGED <<currentState, numRetry, twoMSL, serverVars, refused, up,
                 toServer>>

(* A Read or Write returns the pending error, or Select refuses a          *)
(* descriptor that is not open.                                            *)
ClientDies ==
  /\ closer \notin ActiveEnds
  /\ "client" \in refused \/ (closer = "waiting" /\ StrayDescriptor = "closed")
  /\ closer' = "died"
  /\ UNCHANGED <<currentState, numRetry, twoMSL, serverVars, refused, up,
                 toClient, toServer>>

ActiveClose ==
  SendFin \/ ActiveTimeout \/ ReadAckOfFin \/ ReadFin \/ ReadOther \/ ClientDies
-----------------------------------------------------------------------------
(***************************************************************************)
(* PassiveClose                                                            *)
(***************************************************************************)

(* Mutation: any datagram is taken for the FIN.                            *)
AnyRequest(answer) == TRUE

IsFin(answer) == answer.currentRequest = FIN_REQUEST

ServerReads ==
  /\ toServer # << >>
  /\ toServer' = Tail(toServer)
  /\ finRead' = (finRead \/ Head(toServer).currentRequest = FIN_REQUEST)

(* The first Read, which has no time limit.                                *)
ReadFirst ==
  /\ passive = "reading"
  /\ ServerReads
  /\ passive' = IF IsFin(Head(toServer)) THEN "replying" ELSE "ignored"
  /\ UNCHANGED <<clientVars, serverRetry, refused, up, toClient>>

ReplyAck ==
  /\ passive = "replying"
  /\ SendToClient(CloseDatagram(ACK_REQUEST))
  /\ passive' = "replied"
  /\ UNCHANGED <<clientVars, serverRetry, finRead, up, toServer>>

ReplyFin ==
  /\ passive = "replied"
  /\ SendToClient(CloseDatagram(FIN_REQUEST))
  /\ passive' = "waiting"
  /\ UNCHANGED <<clientVars, serverRetry, finRead, up, toServer>>

PassiveTimeout ==
  /\ passive = "waiting"
  /\ serverRetry' = CountTimeout(serverRetry)
  /\ passive' = IF serverRetry' = 0 THEN "unanswered" ELSE "replying"
  /\ UNCHANGED <<clientVars, finRead, refused, up, toClient, toServer>>

IsAck(answer) == answer.currentRequest = ACK_REQUEST

(* Anything but an ACK is answered again.                                  *)
ReadAnswer ==
  /\ passive = "waiting"
  /\ ServerReads
  /\ passive' = IF IsAck(Head(toServer)) THEN "acked" ELSE "replying"
  /\ UNCHANGED <<clientVars, serverRetry, refused, up, toClient>>

ServerDies ==
  /\ passive \notin PassiveEnds
  /\ "server" \in refused
  /\ passive' = "died"
  /\ UNCHANGED <<clientVars, serverRetry, finRead, refused, up, toClient, toServer>>

PassiveClose ==
  \/ ReadFirst \/ ReplyAck \/ ReplyFin \/ PassiveTimeout \/ ReadAnswer
  \/ ServerDies
-----------------------------------------------------------------------------
(* The process exits and its socket is closed.                             *)
ClientExits ==
  /\ closer \in ActiveEnds
  /\ "client" \in up
  /\ up' = up \ {"client"} /\ toClient' = << >>
  /\ UNCHANGED <<clientVars, serverVars, refused, toServer>>

ServerExits ==
  /\ passive \in PassiveEnds
  /\ "server" \in up
  /\ up' = up \ {"server"} /\ toServer' = << >>
  /\ UNCHANGED <<clientVars, serverVars, refused, toClient>>

Exits == ClientExits \/ ServerExits

(* UDP keeps no order.                                                     *)
NetworkReorders ==
  \/ /\ \E k \in 1 .. Len(toClient) : toClient' = Overtakes(toClient, k)
     /\ UNCHANGED <<clientVars, serverVars, refused, up, toServer>>
  \/ /\ \E k \in 1 .. Len(toServer) : toServer' = Overtakes(toServer, k)
     /\ UNCHANGED <<clientVars, serverVars, refused, up, toClient>>

Next == ActiveClose \/ PassiveClose \/ Exits \/ NetworkReorders

Spec == Init /\ [][Next]_vars
-----------------------------------------------------------------------------
TypeOK ==
  /\ closer \in {"starting", "waiting"} \cup ActiveEnds
  /\ currentState \in ActiveCloseStates
  /\ numRetry \in 0 .. ActiveRetries
  /\ twoMSL \in 0 .. TwoMSL
  /\ passive \in {"reading", "replying", "replied", "waiting"} \cup PassiveEnds
  /\ serverRetry \in 0 .. PassiveRetries
  /\ finRead \in BOOLEAN
  /\ refused \subseteq {"client", "server"}
  /\ up \subseteq {"client", "server"}
  /\ toClient \in Seq(ServerDatagram)
  /\ toServer \in Seq(ClientAck)

(* The client has read the server's FIN.                                   *)
ServerFinRead == currentState \in {"CLOSING", "TIME_WAIT"}

(* What the client concludes about the server is true: in every state past *)
(* FIN_WAIT1 the server child has read the client's FIN, however often     *)
(* the FINs and ACKs were lost and repeated.                               *)
ServerKnows == currentState # "FIN_WAIT1" => finRead

(* What the server child concludes about the client is true: once it has   *)
(* "Read ack back from the client for the sent FIN", the client has read   *)
(* that FIN.                                                               *)
ClientKnows == passive = "acked" => ServerFinRead

(* The inductive invariant: PassiveClose is past its first Read only with  *)
(* a FIN, it alone puts FINs and ACKs on the way to the client, and the    *)
(* client sends ACKs only when it has read a FIN.                          *)
RetriesLeft ==
  /\ closer \in {"starting", "waiting"} => numRetry > 0 /\ twoMSL > 0
  /\ passive \in {"reading", "replying", "replied", "waiting"} => serverRetry > 0

AnswersOnTheirWay ==
  /\ passive \notin {"reading", "ignored"} => finRead
  /\ passive \in {"reading", "ignored"} => "server" \notin refused
  /\ \A k \in 1 .. Len(toClient) : toClient[k].number < 0 => finRead
  /\ \A k \in 1 .. Len(toServer) :
       toServer[k].currentRequest = ACK_REQUEST => ServerFinRead

Inv ==
  /\ TypeOK
  /\ ServerKnows
  /\ ClientKnows
  /\ RetriesLeft
  /\ AnswersOnTheirWay

(* Whatever is lost, ActiveClose ends, and PassiveClose ends once it has   *)
(* read its first datagram.                                                *)
CloseEnds ==
  /\ <>(closer \in ActiveEnds)
  /\ passive = "replying" ~> passive \in PassiveEnds
=============================================================================
