----------------------------- MODULE Interfaces -----------------------------
(***************************************************************************)
(* Which addresses the two programs use: GetClientIPAddress of client.c,   *)
(* BindServerToUnicastInterfaces and the server child's search for the     *)
(* interface that the client is local to.  A table of interfaces is the    *)
(* list that Get_ifi_info_plus returns; an address is a word of WordBits   *)
(* bits and a network mask is given by the number of its zero bits.        *)
(***************************************************************************)
EXTENDS Integers, Sequences

CONSTANTS
  WordBits, \* bits of an address: 32 in the code
  Loopback  \* LOOPBACK_ADDRESS

(* 2 to the power of n, for lengths of prefixes.                           *)
Power[n \in Nat] == IF n = 0 THEN 1 ELSE 2 * Power[n - 1]

ASSUME AddressAssumption ==
  WordBits \in Nat \ {0} /\ Loopback \in 1 .. Power[WordBits] - 1

AnyAddress == 0
Address == 0 .. Power[WordBits] - 1
Interface == [address: Address \ {AnyAddress}, hostBits: 0 .. WordBits]

Mask(interface) == Power[WordBits] - Power[interface.hostBits]

(* address & mask, for a mask of leading ones.                             *)
Network(address, interface) == address - (address % Power[interface.hostBits])
-----------------------------------------------------------------------------
(***************************************************************************)
(* The client.                                                             *)
(***************************************************************************)

(* Take the first interface, and a later one as long as nothing better     *)
(* than the loopback address was found.                                    *)
TakeDefault(choice, position, interface) ==
  IF \/ position = 1
     \/ ~choice.isLocal /\ ~choice.isSameHost /\ choice.client = Loopback
  THEN [choice EXCEPT !.client = interface.address]
  ELSE choice

(* The server's address is one of the client's own: both ends use loopback.*)
TakeSameHost(choice, interface) ==
  IF interface.address = choice.server
  THEN [choice EXCEPT !.isLocal = TRUE, !.isSameHost = TRUE,
                      !.client = Loopback, !.server = Loopback]
  ELSE choice

(* Mutation: a later network of the same size replaces an earlier one, and *)
(* a mask of zero counts.                                                  *)
NoWorse(choice, interface) == choice.longestPrefixMatch <= Mask(interface)

Better(choice, interface) == choice.longestPrefixMatch < Mask(interface)

TakeLocal(choice, interface) ==
  IF /\ ~choice.isSameHost
     /\ Network(interface.address, interface) = Network(choice.server, interface)
     /\ Better(choice, interface)
  THEN [choice EXCEPT !.isLocal = TRUE, !.client = interface.address,
                      !.longestPrefixMatch = Mask(interface)]
  ELSE choice

NoChoice(server) ==
  [client |-> AnyAddress, server |-> server, isLocal |-> FALSE,
   isSameHost |-> FALSE, longestPrefixMatch |-> 0]

Visit(choice, position, interface) ==
  TakeLocal(TakeSameHost(TakeDefault(choice, position, interface), interface), interface)

(* What is chosen after each interface of one pass over the table.         *)
Pass(table, server) ==
  LET pass[n \in 0 .. Len(table)] ==
        IF n = 0 THEN NoChoice(server) ELSE Visit(pass[n - 1], n, table[n])
  IN  pass

GetClientIPAddress(table, server) == Pass(table, server)[Len(table)]
-----------------------------------------------------------------------------
(***************************************************************************)
(* The server.                                                             *)
(***************************************************************************)

(* One socket for each interface; its address, mask and subnet are kept.   *)
BindServerToUnicastInterfaces(table) ==
  [k \in DOMAIN table |->
     [serverIp |-> table[k].address, netMask |-> table[k],
      subnet_addr |-> Network(table[k].address, table[k])]]

(* The search stops at the first interface that has the client's address   *)
(* or whose network the client is in.                                      *)
ClientLocalTo(entry, client) ==
  \/ entry.serverIp = client
  \/ Network(client, entry.netMask) = entry.subnet_addr

LocalInterfaces(servIpInfo, client) ==
  {k \in DOMAIN servIpInfo : ClientLocalTo(servIpInfo[k], client)}

(* The address that the child's own socket is bound to.  Without a local   *)
(* interface the search ends past the table; what it finds there is no     *)
(* address, and the socket is bound to all of them.                        *)
ChildAddress(servIpInfo, client) ==
  IF LocalInterfaces(servIpInfo, client) = {} THEN AnyAddress
  ELSE LET first == CHOOSE k \in LocalInterfaces(servIpInfo, client) :
                      \A j \in LocalInterfaces(servIpInfo, client) : k <= j
       IN  servIpInfo[first].serverIp
-----------------------------------------------------------------------------
(***************************************************************************)
(* The reference: what a client should use, told without a pass over the   *)
(* table.                                                                  *)
(***************************************************************************)
SharedNetworks(table, server) ==
  {k \in DOMAIN table :
     /\ Mask(table[k]) > 0
     /\ Network(table[k].address, table[k]) = Network(server, table[k])}

IsLongest(table, server, k) ==
  /\ k \in SharedNetworks(table, server)
  /\ \A j \in SharedNetworks(table, server) :
       \/ table[j].hostBits > table[k].hostBits
       \/ table[j].hostBits = table[k].hostBits /\ j >= k

RightAddress(table, server, address) ==
  CASE \E k \in DOMAIN table : table[k].address = server -> address = Loopback
    [] SharedNetworks(table, server) # {} /\ (\A k \in DOMAIN table : table[k].address # server) ->
         \E k \in DOMAIN table :
           IsLongest(table, server, k) /\ address = table[k].address
    [] OTHER ->
         \/ \E k \in DOMAIN table :
              /\ address = table[k].address /\ address # Loopback
              /\ \A j \in 1 .. k - 1 : table[j].address = Loopback
         \/ /\ \A k \in DOMAIN table : table[k].address = Loopback
            /\ address = IF table = << >> THEN AnyAddress ELSE Loopback
=============================================================================
