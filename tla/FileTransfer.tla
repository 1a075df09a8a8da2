---------------------------- MODULE FileTransfer ----------------------------
(***************************************************************************)
(* The transfer of one file: the server child of SendFile and the two      *)
(* client threads of ReceiveWindow, joined by the datagrams between their  *)
(* sockets.  Every datagram may be lost (the client drops data that it     *)
(* has read and acknowledgements that it should send, and a full buffer    *)
(* drops either), and may be overtaken by one that was sent after it.      *)
(*                                                                         *)
(* The child takes the place of the network of ReceiveWindow, and the      *)
(* client that of the client in SendFile: the constants Datagrams and      *)
(* Requests, which say what these may send, have a use only where the      *)
(* transfer is compared with the two specifications.                       *)
(***************************************************************************)
EXTENDS ReceiveWindow

CONSTANTS
  MaxRetransmits, MaxProbeTimeouts, SmallestThreshold,
  AlarmMasked, UninitialisedRequest, Requests

ASSUME StackAssumption == UninitialisedRequest \subseteq Int

VARIABLES
  sender, index, i, totalToSend, totalToRecv, lastAdvtWindow, cwindow,
  ssthresh, lastAckReceived, duplicateAck, ack, rtt_nrexmt, network_timeout

(* The handshake tells the child the client's window: ClientOriginalWindow *)
(* is the same number as the client's WindowSize.  Before the first        *)
(* acknowledgement is read, only the request in ack is used: no read fails *)
(* while the client lives.                                                 *)
Server == INSTANCE SendFile WITH
  ClientOriginalWindow <- WindowSize, LargestWindow <- WindowSize,
  UninitialisedAcks <- [currentRequest: UninitialisedRequest, advtWindow: {0},
                        lastack_sent: {0}]

clientVars == <<slots, currentIndex, mutex, producerVars, consumerVars, advertised>>
serverVars == <<sender, index, i, totalToSend, totalToRecv, lastAdvtWindow,
                cwindow, ssthresh, lastAckReceived, duplicateAck, ack,
                rtt_nrexmt, network_timeout>>
transferVars == <<clientVars, serverVars, toClient, toServer>>

TransferInit == Init /\ Server!Init

ClientStep ==
  /\ Producer \/ ReadSegment \/ DiscardSegment \/ Consumer
  /\ UNCHANGED serverVars

ServerStep == Server!Server /\ UNCHANGED clientVars

NetworkReorders == Server!NetworkReorders /\ UNCHANGED clientVars

TransferNext == ClientStep \/ ServerStep \/ NetworkReorders

TransferSpec == TransferInit /\ [][TransferNext]_transferVars

(* The child is scheduled and every timer, once set, expires in the end.   *)
(* The consumer thread, which alone can open the window again, is scheduled*)
(* too and gets the mutex; of the main thread and of the network nothing   *)
(* is assumed.                                                             *)
TransferFairness ==
  /\ WF_transferVars(ServerStep)
  /\ WF_transferVars(ClientStep /\ Consumer)
  /\ SF_transferVars(ClientStep /\ LockWindow)

FairTransfer == TransferSpec /\ TransferFairness
-----------------------------------------------------------------------------
(* Every segment that the child takes as acknowledged is held by the       *)
(* client; it will never send those again.                                 *)
AcknowledgedIsHeld ==
  /\ \A number \in 0 .. lastAckReceived - 1 : Holds(number)
  /\ ack.lastack_sent = 1 =>
       \A number \in FileSegments : Holds(number)

(* The child closes the connection only when the client has the file.      *)
CloseAfterDelivery ==
  sender \in {"closing", "closed"} =>
    \A number \in FileSegments : Holds(number)

(* "File transfer complete" (server.c:592): with nothing left on its way,  *)
(* the client has every segment of the file.                               *)
CompleteMeansDelivered ==
  (sender = "complete" /\ toClient = << >> /\ producer # "received") =>
    \A number \in FileSegments : Holds(number)

(* What the client writes is the file, in order, up to the length of the   *)
(* file, although the child may send from beyond its table (server.c:393). *)
FileInOrder == DeliverySpec

(* The client of SendFile is wide enough for the transfer: its two threads *)
(* ask for no segment and announce no window that SendFile does not expect.*)
ChildSpec == Server!Spec

(* The child does not wait for the client for ever: it gives the client    *)
(* up, ends the transfer, or turns to closing the connection.              *)
TransferEnds == <>(sender \in Server!Ended \cup {"closing"})
=============================================================================
