----------------------------- MODULE Connection -----------------------------
(***************************************************************************)
(* A whole connection: the transfer of FileTransfer and the closing of     *)
(* Close, on the same two sockets and partly at the same time.  The        *)
(* client's consumer thread starts ActiveClose as soon as it has written   *)
(* the file, while the main thread may still read the socket or owe its    *)
(* final acknowledgement; the server child calls PassiveClose when it has  *)
(* read that acknowledgement, and until then takes what it reads, a FIN    *)
(* too, for an acknowledgement of data.                                    *)
(***************************************************************************)
EXTENDS FileTransfer

CONSTANTS ActiveRetries, PassiveRetries, TwoMSL

VARIABLES
  closer, currentState, numRetry, twoMSL,
  passive, serverRetry, finRead, refused, up

Closing == INSTANCE Close WITH
  LateAcks <- {}, LateSegments <- {}, StrayDescriptor <- "none"

endpointVars == <<clientVars, serverVars>>
activeVars == <<closer, currentState, numRetry, twoMSL>>
passiveVars == <<passive, serverRetry, finRead>>
connectionVars == <<transferVars, activeVars, passiveVars, refused, up>>

ConnectionInit == TransferInit /\ Closing!Init
-----------------------------------------------------------------------------
(* An acknowledgement sent to a child that has ended comes back as an      *)
(* error.  The plain write of the next one would return the error, which   *)
(* is ignored, and send nothing.                                           *)
Acknowledges == StoreSegment \/ SendLastAck \/ (UnlockWindow /\ ReopensWindow)

AckRefused ==
  refused' = IF "client" \in refused THEN refused \ {"client"}
                                     ELSE refused \cup {"client"}

(* The two threads of the client during the transfer.                      *)
ClientTransfers ==
  /\ "client" \in up
  /\ ClientStep
  /\ "server" \notin up => UNCHANGED toServer
  /\ \/ UNCHANGED refused
     \/ "server" \notin up /\ Acknowledges /\ AckRefused
  /\ UNCHANGED <<activeVars, passiveVars, up>>

(* The wrapped Read of the main thread ends the process on such an error.  *)
ProducerDies ==
  /\ "client" \in up /\ "client" \in refused
  /\ producer = "reading" /\ closer # "died"
  /\ closer' = "died"
  /\ UNCHANGED <<endpointVars, toClient, toServer, currentState, numRetry, twoMSL,
                 passiveVars, refused, up>>

(* The consumer thread in ActiveClose; the main thread may read as well.   *)
ClientCloses ==
  /\ "client" \in up
  /\ consumer = "closing"
  /\ Closing!ActiveClose
  /\ UNCHANGED endpointVars

(* The process ends when both threads have, or on an error of either.      *)
ClientExits ==
  /\ \/ closer = "died"
     \/ closer \in Closing!ActiveEnds /\ producer = "returned"
  /\ Closing!ClientExits
  /\ UNCHANGED endpointVars
-----------------------------------------------------------------------------
(* The child in HandleFileTransmission.  Its call of PassiveClose finds    *)
(* fresh local variables and returns when that function ends.  Its reads   *)
(* may fail once the client has ended.                                     *)
ChildTransfers ==
  /\ \/ ServerStep
     \/ "client" \notin up /\ Server!FailedRead /\ UNCHANGED clientVars
  /\ sender = "closing" /\ sender' = "closed" =>
       passive \in Closing!PassiveEnds \ {"died"}
  /\ IF sender # "closing" /\ sender' = "closing"
     THEN passive' = "reading" /\ serverRetry' = PassiveRetries
     ELSE UNCHANGED <<passive, serverRetry>>
  /\ UNCHANGED <<finRead, activeVars, refused, up>>

ChildCloses ==
  /\ sender = "closing"
  /\ Closing!PassiveClose
  /\ UNCHANGED endpointVars

(* An error on the socket ends the child: in PassiveClose as Close says,   *)
(* and wherever it may write to a client that has ended.                   *)
ChildDies ==
  /\ sender \notin Server!Ended
  /\ passive = "died" \/ "client" \notin up
  /\ sender' = "crashed"
  /\ UNCHANGED <<clientVars, index, i, totalToSend, totalToRecv, lastAdvtWindow,
                 cwindow, ssthresh, lastAckReceived, duplicateAck, ack,
                 rtt_nrexmt, network_timeout, toClient, toServer,
                 activeVars, passiveVars, refused, up>>

ChildExits ==
  /\ sender \in Server!Ended
  /\ "server" \in up
  /\ up' = up \ {"server"} /\ toServer' = << >>
  /\ UNCHANGED <<endpointVars, toClient, activeVars, passiveVars, refused>>

SocketsReorder == NetworkReorders /\ UNCHANGED <<activeVars, passiveVars, refused, up>>

ConnectionNext ==
  \/ ClientTransfers \/ ProducerDies \/ ClientCloses \/ ClientExits
  \/ ChildTransfers \/ ChildCloses \/ ChildDies \/ ChildExits
  \/ SocketsReorder

ConnectionSpec == ConnectionInit /\ [][ConnectionNext]_connectionVars

(* The consumer thread is scheduled also in ActiveClose.                   *)
FairConnection == ConnectionSpec /\ WF_connectionVars(ClientCloses)
-----------------------------------------------------------------------------
(* When PassiveClose has read the client's ACK, the client has written the *)
(* whole file.                                                             *)
OrderlyCloseMeansWritten ==
  passive = "acked" =>
    \A number \in FileSegments : \E k \in 1 .. Len(written) :
      written[k].segment = number

(* "Sending ACK for the server FIN" (client.c:644): the FIN that the       *)
(* client acknowledges was sent by PassiveClose.                           *)
AcknowledgedFinWasSent ==
  Closing!ServerFinRead => passive \notin {"reading", "replying", "ignored"}

(* ActiveClose ends, although data that is still repeated makes it start   *)
(* over without counting.                                                  *)
ActiveCloseEnds ==
  consumer = "closing" ~> closer \in Closing!ActiveEnds
=============================================================================
