------------------------------ MODULE Messages ------------------------------
(***************************************************************************)
(* The datagrams of utility.h, as the two programs tell them apart.  The   *)
(* client sends ClientAck structures only; its FIN and its ACK are such    *)
(* structures with a reserved currentRequest.  The server child sends      *)
(* segments of SEGMENTSIZE bytes and, for its FIN and ACK, structures of   *)
(* the size of a ClientAck.  In every one of them the first word decides   *)
(* what it means; it is kept as a signed number, so that FIN_REQUEST is -1.*)
(***************************************************************************)
EXTENDS Integers, Sequences

FIN_REQUEST == -1
ACK_REQUEST == -2

ClientAck == [currentRequest: Int, advtWindow: Int, lastack_sent: {0, 1}]

(* What the server child sends: its size and its first word.               *)
ServerDatagram == [kind: {"segment", "close"}, number: Int]

DataSegment(number) == [kind |-> "segment", number |-> number]
CloseDatagram(request) == [kind |-> "close", number |-> request]

(* A FIN or ACK of the client, the other words as given.                   *)
ClientClose(request, word2, word3) ==
  [currentRequest |-> request, advtWindow |-> word2, lastack_sent |-> word3]

(* On the way datagram k overtakes the one that would have arrived next.   *)
Overtakes(queue, k) == [queue EXCEPT ![1] = queue[k], ![k] = queue[1]]
=============================================================================
