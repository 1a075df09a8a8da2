---------------------------- MODULE MCRendezvous ----------------------------
(***************************************************************************)
(* Hosts for Rendezvous.  Words have four bits: addresses 4..7 are one     *)
(* network, 8..11 another, 1 is the loopback address.  The server has an   *)
(* interface in both networks; a client runs on a host of the first (whose *)
(* three interfaces all reach it), on a host of neither, or beside the     *)
(* server.                                                                 *)
(***************************************************************************)
EXTENDS Rendezvous, TLC

CONSTANTS near, far, same, c1, c2

MCLoop == [address |-> 1, hostBits |-> 1]
MCServerInterfaces ==
  <<MCLoop, [address |-> 4, hostBits |-> 2], [address |-> 8, hostBits |-> 2]>>
MCWindowSize == c1 :> 1 @@ c2 :> 2
MCHostInterfaces ==
  [h \in Hosts |->
     CASE h = near -> <<MCLoop, [address |-> 6, hostBits |-> 3],
                        [address |-> 5, hostBits |-> 2], [address |-> 7, hostBits |-> 2]>>
       [] h = far -> <<MCLoop, [address |-> 13, hostBits |-> 2],
                       [address |-> 12, hostBits |-> 2]>>
       [] h = same -> MCServerInterfaces]

(* With the server's address in the clients' network the instance is one   *)
(* that the theorem on prompt handshakes speaks of.                        *)
ASSUME MCHostsFit == ServerIP = 4 => AddressesAgree
=============================================================================
