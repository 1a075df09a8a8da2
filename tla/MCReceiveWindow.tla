-------------------------- MODULE MCReceiveWindow --------------------------
(***************************************************************************)
(* Values for the constants of ReceiveWindow that a configuration cannot   *)
(* write down.                                                             *)
(***************************************************************************)
EXTENDS ReceiveWindow

(* Every segment of the file, and the FIN of the server child.  (Segments  *)
(* from beyond the file's end are sent by the child itself, in             *)
(* MCFileTransfer.)                                                        *)
MCDatagrams ==
  {DataSegment(number) : number \in FileSegments} \cup {CloseDatagram(FIN_REQUEST)}
=============================================================================
