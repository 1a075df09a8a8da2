-------------------------- MODULE RendezvousProofs --------------------------
(***************************************************************************)
(* Theorems about the rendezvous, for every number of clients, hosts and   *)
(* requests, every size of the table, either order of bytes, and whatever  *)
(* is lost or late.                                                        *)
(***************************************************************************)
EXTENDS Rendezvous, InterfacesProofs, FiniteSetTheorems, SequenceTheorems, TLAPS

LEMMA ChildrenTyped ==
  ASSUME TypeOK
  PROVE  /\ DOMAIN children = 1 .. Len(children) /\ Len(children) \in Nat
         /\ \A k \in DOMAIN children : /\ children[k] \in ChildProcess
                                       /\ ChildClient(k) \in Clients
<1>1. children \in Seq(ChildProcess)
  BY DEF TypeOK
<1>2. DOMAIN children = 1 .. Len(children) /\ Len(children) \in Nat
  BY <1>1, LenProperties
<1>3. \A k \in DOMAIN children : children[k] \in ChildProcess
  BY <1>1, <1>2, ElementOfSeq
<1> QED BY <1>2, <1>3 DEF ChildClient, ChildProcess

LEMMA EndpointsKept ==
  ASSUME UNCHANGED sockets
  PROVE  \A c : Endpoint(c)' = Endpoint(c)
BY DEF sockets, Endpoint, Choice

LEMMA InvInit == Init => Inv
<1> SUFFICES ASSUME Init PROVE Inv
  OBVIOUS
<1> USE RendezvousAssumption DEF Init
<1>1. /\ children \in Seq(ChildProcess) /\ Len(children) = 0
      /\ DOMAIN children = {}
  BY EmptySeq, LenProperties
<1>2. IsFiniteSet(known) /\ Cardinality(known) = 0
  BY FS_EmptySet
<1>3. TypeOK
  BY <1>1, <1>2 DEF TypeOK, Places
<1>4. IdleIsFresh /\ KnownHaveStarted /\ ServedOnce
  BY <1>1, <1>2 DEF IdleIsFresh, KnownHaveStarted, ServedOnce
<1>5. PeerIsOwnChild /\ AcksFromConnected /\ RefusedFits
  BY <1>1 DEF PeerIsOwnChild, AcksFromConnected, RefusedFits
<1>6. WaitingHasTries /\ TransfersHaveClients
  BY <1>1 DEF WaitingHasTries, TransfersHaveClients
<1> QED BY <1>3, <1>4, <1>5, <1>6 DEF Inv

(* What a step that changes no table, no child and no socket, and leaves   *)
(* idle clients idle, cannot disturb.                                      *)
LEMMA TablesKept ==
  ASSUME Inv, UNCHANGED <<sockets, known, children>>,
         place' \in [Clients -> Places],
         \A c \in Clients : place'[c] = "idle" <=> place[c] = "idle"
  PROVE  /\ KnownHaveStarted' /\ ServedOnce'
         /\ known' \subseteq {Endpoint(c) : c \in Clients}'
         /\ \A k \in DOMAIN children : ChildPeer(k)' = ChildPeer(k)
<1>1. \A c : Endpoint(c)' = Endpoint(c)
  BY EndpointsKept
<1>2. \A k \in DOMAIN children : ChildClient(k)' = ChildClient(k)
  BY DEF ChildClient
<1>3. KnownHaveStarted'
  BY <1>1 DEF Inv, KnownHaveStarted
<1>4. ServedOnce'
  BY <1>1, <1>2 DEF Inv, ServedOnce
<1>5. known' \subseteq {Endpoint(c) : c \in Clients}'
  BY <1>1 DEF Inv, TypeOK
<1>6. \A k \in DOMAIN children : ChildPeer(k)' = ChildPeer(k)
  BY <1>1, <1>2 DEF ChildPeer, htons
<1> QED BY <1>3, <1>4, <1>5, <1>6
-----------------------------------------------------------------------------
(***************************************************************************)
(* The server.                                                             *)
(***************************************************************************)
LEMMA InvStartServer ==
  ASSUME Inv, StartServer
  PROVE  Inv'
<1> USE DEF StartServer, clientVars, Inv
<1>1. /\ KnownHaveStarted' /\ ServedOnce'
      /\ known' \subseteq {Endpoint(c) : c \in Clients}'
      /\ \A k \in DOMAIN children : ChildPeer(k)' = ChildPeer(k)
  BY TablesKept DEF TypeOK
<1>2. \A c : Endpoint(c)' = Endpoint(c)
  BY EndpointsKept
<1>3. TypeOK'
  BY <1>1 DEF TypeOK, sockets
<1>4. IdleIsFresh' /\ AcksFromConnected' /\ RefusedFits' /\ WaitingHasTries'
  BY DEF IdleIsFresh, AcksFromConnected, RefusedFits, WaitingHasTries, ChildClient
<1>5. PeerIsOwnChild' /\ TransfersHaveClients'
  BY <1>1, <1>2 DEF PeerIsOwnChild, TransfersHaveClients, Serves
<1> QED BY <1>1, <1>3, <1>4, <1>5

(* A request of a known client.                                            *)
LEMMA InvIgnore ==
  ASSUME Inv, NEW c \in Clients, HandleRequest(c), UNCHANGED <<known, children>>
  PROVE  Inv'
<1>0. /\ UNCHANGED <<sockets, serverUp, known, children, place, timeoutnum, peer, answers,
                     acks, refused, prompt, unlucky>>
      /\ requests[c] > 0 /\ requests' = [requests EXCEPT ![c] = @ - 1]
  BY DEF HandleRequest, clientVars
<1>t. requests \in [Clients -> Nat] /\ place \in [Clients -> Places]
  BY DEF Inv, TypeOK
<1>1. /\ KnownHaveStarted' /\ ServedOnce'
      /\ known' \subseteq {Endpoint(d) : d \in Clients}'
      /\ \A k \in DOMAIN children : ChildPeer(k)' = ChildPeer(k)
  BY <1>0, <1>t, TablesKept
<1>2. \A d : Endpoint(d)' = Endpoint(d)
  BY <1>0, EndpointsKept
<1>3. TypeOK'
  <2>1. requests' \in [Clients -> Nat]
    BY <1>0, <1>t
  <2>2. /\ serverUp' \in BOOLEAN /\ prompt' \in BOOLEAN
        /\ host' \in [Clients -> Hosts] /\ port' \in [Clients -> Ports \cup {0}]
        /\ Cardinality(known') <= TableSize
    BY <1>0 DEF Inv, TypeOK, sockets
  <2>3. /\ children' \in Seq(ChildProcess) /\ answers' \subseteq DOMAIN children'
        /\ acks' \subseteq [from: Clients, to: DOMAIN children']
    BY <1>0 DEF Inv, TypeOK
  <2>4. /\ place' \in [Clients -> Places] /\ timeoutnum' \in [Clients -> 0 .. MaxRequests]
        /\ peer' \in [Clients -> Int] /\ refused' \subseteq Clients /\ unlucky' \subseteq Clients
    BY <1>0 DEF Inv, TypeOK
  <2> QED BY <1>1, <2>1, <2>2, <2>3, <2>4 DEF TypeOK
<1>4. IdleIsFresh'
  BY <1>0, <1>t DEF Inv, IdleIsFresh, ChildClient
<1>5. AcksFromConnected' /\ RefusedFits' /\ WaitingHasTries'
  BY <1>0 DEF Inv, AcksFromConnected, RefusedFits, WaitingHasTries
<1>6. PeerIsOwnChild' /\ TransfersHaveClients'
  BY <1>0, <1>1, <1>2 DEF Inv, PeerIsOwnChild, TransfersHaveClients, Serves
<1> QED BY <1>1, <1>3, <1>4, <1>5, <1>6 DEF Inv

(* A request of an unknown one: the table has it from then on, or is full. *)
LEMMA InvFork ==
  ASSUME Inv, NEW c \in Clients, HandleRequest(c),
         ~chkRequestRetransmitted(Endpoint(c)),
         AddClientToKnownClientList(Endpoint(c)),
         children' = Append(children,
                       [client |-> c, place |-> "forked", window |-> 0])
  PROVE  Inv'
<1> USE RendezvousAssumption
<1> DEFINE new == [client |-> c, place |-> "forked", window |-> 0]
<1>n. PICK n \in Nat : n = Len(children)
  <2>1. Len(children) \in Nat
    BY ONLY Inv, ChildrenTyped DEF Inv
  <2> QED BY ONLY Zenon, <2>1
<1>0. /\ UNCHANGED <<sockets, serverUp, clientVars, answers, acks, refused, prompt,
                     unlucky>>
      /\ requests[c] > 0 /\ requests' = [requests EXCEPT ![c] = @ - 1]
  BY Zenon DEF HandleRequest
<1>1. /\ Len(children) = n /\ DOMAIN children = 1 .. n
      /\ \A k \in 1 .. n : children[k] \in ChildProcess /\ ChildClient(k) \in Clients
  BY <1>n, ChildrenTyped DEF Inv
<1>2. new \in ChildProcess /\ children \in Seq(ChildProcess)
  BY DEF Inv, TypeOK, ChildProcess, ChildPlaces
<1>3. /\ children' \in Seq(ChildProcess) /\ Len(children') = n + 1
      /\ DOMAIN children' = 1 .. n + 1 /\ children'[n + 1] = new
      /\ \A k \in 1 .. n : children'[k] = children[k]
  BY <1>1, <1>2, AppendProperties, LenProperties
<1>4. \A d : Endpoint(d)' = Endpoint(d)
  BY <1>0, EndpointsKept
<1>5. /\ \A k \in 1 .. n : ChildClient(k)' = ChildClient(k)
      /\ ChildClient(n + 1)' = c
  BY <1>3 DEF ChildClient
<1>6. place[c] # "idle"
  BY <1>0 DEF Inv, IdleIsFresh
<1>7. /\ IsFiniteSet(known') /\ Cardinality(known') <= TableSize
      /\ known \subseteq known' /\ known' \subseteq known \cup {Endpoint(c)}
      /\ Endpoint(c) \in known' \/ (known' = known /\ Cardinality(known) = TableSize)
  <2>1. IsFiniteSet(known) /\ Cardinality(known) \in Nat
        /\ Cardinality(known) <= TableSize
    BY FS_CardinalityType DEF Inv, TypeOK, KnownHaveStarted
  <2>2. Endpoint(c) \notin known
    BY DEF chkRequestRetransmitted
  <2>3. /\ IsFiniteSet(known \cup {Endpoint(c)})
        /\ Cardinality(known \cup {Endpoint(c)}) = Cardinality(known) + 1
    BY <2>1, <2>2, FS_AddElement
  <2>4. CASE Cardinality(known) < TableSize
    <3>1. known' = known \cup {Endpoint(c)}
      BY <2>4 DEF AddClientToKnownClientList
    <3>2. Cardinality(known') <= TableSize
      BY <2>1, <2>3, <2>4, <3>1
    <3> QED BY <2>3, <3>1, <3>2
  <2>5. CASE ~(Cardinality(known) < TableSize)
    <3>1. known' = known /\ Cardinality(known) = TableSize
      BY <2>1, <2>5 DEF AddClientToKnownClientList
    <3> QED BY <2>1, <3>1
  <2> QED BY <2>4, <2>5
<1>8. known' \subseteq {Endpoint(d) : d \in Clients}
  BY <1>7 DEF Inv, TypeOK
<1>9. TypeOK'
  <2>6. answers \subseteq 1 .. n /\ acks \subseteq [from: Clients, to: 1 .. n]
    BY <1>1 DEF Inv, TypeOK
  <2>1. answers' \subseteq DOMAIN children'
        /\ acks' \subseteq [from: Clients, to: DOMAIN children']
    <3>1. 1 .. n \subseteq 1 .. n + 1
      OBVIOUS
    <3> HIDE DEF new
    <3> QED BY <1>0, <1>3, <2>6, <3>1
  <2>2. requests' \in [Clients -> Nat]
    BY <1>0 DEF Inv, TypeOK
  <2>3. known' \subseteq {Endpoint(d) : d \in Clients}'
    BY <1>4, <1>8
  <2>4. /\ serverUp' \in BOOLEAN /\ prompt' \in BOOLEAN
        /\ host' \in [Clients -> Hosts] /\ port' \in [Clients -> Ports \cup {0}]
    BY <1>0 DEF Inv, TypeOK, sockets
  <2>5. /\ place' \in [Clients -> Places] /\ timeoutnum' \in [Clients -> 0 .. MaxRequests]
        /\ peer' \in [Clients -> Int] /\ refused' \subseteq Clients /\ unlucky' \subseteq Clients
    BY <1>0 DEF Inv, TypeOK, clientVars
  <2> QED BY <1>3, <1>7, <2>1, <2>2, <2>3, <2>4, <2>5 DEF TypeOK
<1>10. IdleIsFresh'
  <2> SUFFICES ASSUME NEW d \in Clients, place[d] = "idle"
               PROVE  /\ requests'[d] = 0 /\ peer[d] = 0
                      /\ \A k \in 1 .. n + 1 : ChildClient(k)' # d
    BY <1>0, <1>3 DEF IdleIsFresh, clientVars
  <2>1. d # c
    BY <1>6
  <2>2. requests'[d] = requests[d]
    BY <1>0, <2>1 DEF Inv, TypeOK
  <2>3. /\ requests[d] = 0 /\ peer[d] = 0
        /\ \A k \in 1 .. n : ChildClient(k) # d
    BY <1>1 DEF Inv, IdleIsFresh
  <2>4. \A k \in 1 .. n + 1 : k \in 1 .. n \/ k = n + 1
    OBVIOUS
  <2> QED BY <1>5, <2>1, <2>2, <2>3, <2>4
<1>11. KnownHaveStarted'
  BY <1>0, <1>4, <1>6, <1>7 DEF Inv, KnownHaveStarted, clientVars
<1>12. ServedOnce'
  <2> DEFINE E(k) == Endpoint(ChildClient(k))
             full == Cardinality(known) = TableSize
  <2>1. \A k \in 1 .. n : E(k) \in known \/ (E(k) \notin known /\ full)
    BY <1>1 DEF Inv, ServedOnce
  <2>2. \A j, k \in 1 .. n : E(j) = E(k) => j = k \/ (E(k) \notin known /\ full)
    BY <1>1 DEF Inv, ServedOnce
  <2>3. \A k \in 1 .. n + 1 : E(k)' = IF k = n + 1 THEN Endpoint(c) ELSE E(k)
    BY <1>1, <1>4, <1>5
  <2>4. Endpoint(c) \notin known
    BY DEF chkRequestRetransmitted
  <2>5. CASE full
    <3>1. known' = known
      BY <2>5 DEF AddClientToKnownClientList
    <3>2. \A k \in 1 .. n + 1 : E(k)' \in known' \/ (E(k)' \notin known' /\ full')
      BY <2>1, <2>3, <2>4, <2>5, <3>1
    <3>3. \A j, k \in 1 .. n + 1 :
            E(j)' = E(k)' => j = k \/ (E(k)' \notin known' /\ full')
      <4> SUFFICES ASSUME NEW j \in 1 .. n + 1, NEW k \in 1 .. n + 1,
                          E(j)' = E(k)', j # k, E(k)' \in known'
                   PROVE  FALSE
        BY <2>5, <3>1
      <4>1. k # n + 1 /\ j # n + 1
        BY <2>3, <2>4, <3>1
      <4>2. k \in 1 .. n /\ j \in 1 .. n
        BY <4>1
      <4>3. E(j)' = E(j) /\ E(k)' = E(k)
        BY <2>3, <4>1
      <4> QED BY <2>2, <3>1, <4>2, <4>3
    <3>4. DOMAIN children' = 1 .. n + 1
      BY <1>3
    <3> QED BY ONLY Zenon, <3>2, <3>3, <3>4 DEF ServedOnce
  <2>6. CASE ~full
    <3>1. \A k \in 1 .. n : E(k) \in known
      BY <2>1, <2>6
    <3>2. Endpoint(c) \in known' /\ \A k \in 1 .. n : E(k) \in known' /\ E(k) # Endpoint(c)
      BY <1>7, <2>4, <2>6, <3>1
    <3>3. \A j, k \in 1 .. n : E(j) = E(k) => j = k
      BY <2>2, <2>6
    <3>4. \A k \in 1 .. n + 1 : E(k)' \in known'
      BY <2>3, <3>2
    <3>5. \A j, k \in 1 .. n + 1 : E(j)' = E(k)' => j = k
      BY <1>1, <2>3, <3>2, <3>3
    <3> QED BY <1>3, <3>4, <3>5 DEF ServedOnce
  <2> QED BY <2>5, <2>6
<1>13. PeerIsOwnChild'
  <2> SUFFICES ASSUME NEW d \in Clients
               PROVE  /\ peer[d] <= n + 1
                      /\ peer[d] \in 1 .. n + 1 => ChildPeer(peer[d])' = Endpoint(d)
    BY <1>0, <1>3, <1>4 DEF PeerIsOwnChild, clientVars
  <2>1. peer[d] \in Int /\ peer[d] <= n
    BY <1>1 DEF Inv, TypeOK, PeerIsOwnChild
  <2>2. \A k \in 1 .. n : ChildPeer(k)' = ChildPeer(k)
    BY <1>4, <1>5 DEF ChildPeer, htons
  <2>3. peer[d] \in 1 .. n + 1 => peer[d] \in 1 .. n
    BY <2>1
  <2>4. \A k \in 1 .. n : peer[d] = k => ChildPeer(k)' = Endpoint(d)
    BY <1>1, <2>2 DEF Inv, PeerIsOwnChild
  <2>5. \A k \in 1 .. n : peer[d] = k => ChildPeer(peer[d])' = Endpoint(d)
    BY <1>0, <2>4 DEF clientVars, ChildPeer, ChildClient, htons
  <2> QED BY <2>1, <2>3, <2>5
<1>14. AcksFromConnected' /\ RefusedFits' /\ WaitingHasTries'
  BY <1>0 DEF Inv, AcksFromConnected, RefusedFits, WaitingHasTries, clientVars
<1>15. TransfersHaveClients'
  <2>1. \A k \in 1 .. n, d \in Clients : Serves(k, d) => Serves(k, d)'
    BY <1>0, <1>3 DEF Serves, clientVars
  <2>2. \A k \in 1 .. n + 1 : children'[k].window # 0 =>
          k \in 1 .. n /\ children'[k] = children[k]
    BY <1>1, <1>3
  <2> QED BY <1>1, <1>3, <2>1, <2>2 DEF Inv, TransfersHaveClients
<1> QED BY <1>9, <1>10, <1>11, <1>12, <1>13, <1>14, <1>15 DEF Inv

LEMMA InvHandleRequest ==
  ASSUME Inv, NEW c \in Clients, HandleRequest(c)
  PROVE  Inv'
BY Zenon, InvIgnore, InvFork DEF HandleRequest
-----------------------------------------------------------------------------
(***************************************************************************)
(* The children.                                                           *)
(***************************************************************************)

(* One child moves on, datagrams may be consumed, and nothing else happens *)
(* that the invariant speaks of.                                           *)
LEMMA InvChildMoves ==
  ASSUME Inv, NEW k \in DOMAIN children, NEW moved \in ChildProcess,
         children' = [children EXCEPT ![k] = moved],
         moved.client = ChildClient(k),
         UNCHANGED <<sockets, serverVars, clientVars, requests, refused, prompt>>,
         answers' \subseteq DOMAIN children, acks' \subseteq acks,
         unlucky' \subseteq Clients,
         moved.window # 0 =>
           moved.place = "transferring" /\ \E c \in Clients : Serves(k, c)'
  PROVE  Inv'
<1>0. UNCHANGED <<host, port, serverUp, known, place, timeoutnum, peer>>
  BY DEF sockets, serverVars, clientVars
<1>1. PICK n \in Nat : n = Len(children) /\ DOMAIN children = 1 .. n
  BY ChildrenTyped DEF Inv
<1>2. /\ children' \in Seq(ChildProcess) /\ Len(children') = n
      /\ DOMAIN children' = 1 .. n
      /\ \A j \in 1 .. n : children'[j] = IF j = k THEN moved ELSE children[j]
  BY <1>1, ExceptSeq, LenProperties DEF Inv, TypeOK
<1>3. \A c : Endpoint(c)' = Endpoint(c)
  BY EndpointsKept
<1>4. \A j \in 1 .. n : ChildClient(j)' = ChildClient(j)
  BY <1>2 DEF ChildClient
<1>5. \A j \in 1 .. n : ChildPeer(j)' = ChildPeer(j)
  BY <1>3, <1>4 DEF ChildPeer, htons
<1>6. TypeOK'
  <2>1. acks' \subseteq [from: Clients, to: DOMAIN children']
    BY <1>1, <1>2 DEF Inv, TypeOK
  <2>2. known' \subseteq {Endpoint(c) : c \in Clients}'
    BY <1>0, <1>3 DEF Inv, TypeOK
  <2> QED BY <1>0, <1>1, <1>2, <2>1, <2>2 DEF Inv, TypeOK
<1>7. IdleIsFresh' /\ KnownHaveStarted' /\ ServedOnce'
  BY <1>0, <1>1, <1>2, <1>3, <1>4
     DEF Inv, IdleIsFresh, KnownHaveStarted, ServedOnce
<1>8. PeerIsOwnChild'
  <2> SUFFICES ASSUME NEW c \in Clients
               PROVE  /\ peer[c] <= n
                      /\ peer'[c] \in 1 .. n => ChildPeer(peer[c])' = Endpoint(c)
    BY <1>0, <1>2, <1>3 DEF PeerIsOwnChild
  <2>1. \A j \in 1 .. n : peer[c] = j => ChildPeer(j)' = Endpoint(c)
    BY <1>1, <1>5 DEF Inv, PeerIsOwnChild
  <2>2. \A j \in 1 .. n : peer[c] = j => ChildPeer(peer[c])' = Endpoint(c)
    BY <1>0, <2>1 DEF ChildPeer, ChildClient, htons
  <2> QED BY <1>0, <1>1, <2>2 DEF Inv, PeerIsOwnChild
<1>9. AcksFromConnected' /\ RefusedFits' /\ WaitingHasTries'
  BY <1>0 DEF Inv, AcksFromConnected, RefusedFits, WaitingHasTries
<1>10. TransfersHaveClients'
  <2>1. \A j \in 1 .. n, c \in Clients : j # k /\ Serves(j, c) => Serves(j, c)'
    BY <1>0, <1>2 DEF Serves
  <2> QED BY <1>1, <1>2, <2>1 DEF Inv, TransfersHaveClients
<1> QED BY <1>6, <1>7, <1>8, <1>9, <1>10 DEF Inv

LEMMA InvChild ==
  ASSUME Inv, NEW k \in DOMAIN children, Child(k)
  PROVE  Inv'
<1> DEFINE At(where) == [children[k] EXCEPT !.place = where]
<1>1. children[k] \in ChildProcess /\ ChildClient(k) \in Clients
  BY ChildrenTyped DEF Inv
<1>w. ChildIn(k, "forked") \/ ChildIn(k, "awaiting") => children[k].window = 0
  BY DEF ChildIn, Inv, TransfersHaveClients
<1>2. /\ \A where \in ChildPlaces :
           /\ At(where) \in ChildProcess /\ At(where).client = ChildClient(k)
           /\ At(where).place = where /\ At(where).window = children[k].window
      /\ answers \subseteq DOMAIN children /\ unlucky \subseteq Clients
      /\ (Mishap(ChildClient(k)) => unlucky' \subseteq Clients)
  BY <1>1 DEF ChildProcess, ChildClient, Inv, TypeOK, Mishap
<1>3. ASSUME NEW where \in ChildPlaces, children' = [children EXCEPT ![k] = At(where)],
             ChildIn(k, "forked") \/ ChildIn(k, "awaiting"),
             answers' \subseteq DOMAIN children, acks' \subseteq acks,
             unlucky' \subseteq Clients,
             UNCHANGED <<sockets, serverVars, clientVars, requests, refused, prompt>>
      PROVE  Inv'
  <2> DEFINE moved == At(where)
  <2>1. /\ moved \in ChildProcess /\ moved.client = ChildClient(k)
        /\ moved.window = 0 /\ children' = [children EXCEPT ![k] = moved]
    BY <1>2, <1>3, <1>w
  <2> HIDE DEF moved
  <2> QED BY ONLY Inv, k \in DOMAIN children, <1>3, <2>1, InvChildMoves
<1>4. /\ {"failed", "awaiting", "transferring", "timedOut"} \subseteq ChildPlaces
      /\ \A where : [children EXCEPT ![k].place = where]
                     = [children EXCEPT ![k] = At(where)]
  BY DEF ChildPlaces
<1> HIDE DEF At
<1>5. CASE ChildFails(k) \/ ChildAnswers(k) \/ ChildTimeout(k) \/ ChildReadsOther(k)
  <2>1. CASE ChildFails(k)
    BY <1>2, <1>3, <1>4, <2>1 DEF ChildFails
  <2>2. CASE ChildAnswers(k)
    <3>1. answers' \subseteq DOMAIN children /\ unlucky' \subseteq Clients
      BY <1>2, <2>2 DEF ChildAnswers
    <3> QED BY <1>3, <1>4, <2>2, <3>1 DEF ChildAnswers
  <2>3. CASE ChildTimeout(k)
    BY <1>2, <1>3, <1>4, <2>3 DEF ChildTimeout
  <2>4. CASE ChildReadsOther(k)
    BY <1>2, <1>3, <1>4, <2>4 DEF ChildReadsOther
  <2> QED BY <1>5, <2>1, <2>2, <2>3, <2>4
<1>6. CASE ChildReadsAck(k)
  <2>1. PICK sent \in acks :
          /\ sent.to = k /\ acks' = acks \ {sent}
          /\ children' = [children EXCEPT ![k].place = "transferring",
                                          ![k].window = WindowSize[sent.from]]
    BY <1>6 DEF ChildReadsAck, AcksTo
  <2> DEFINE moved == [children[k] EXCEPT !.place = "transferring",
                                          !.window = WindowSize[sent.from]]
  <2>2. sent.from \in Clients /\ WindowSize[sent.from] \in Nat
    BY RendezvousAssumption DEF Inv, TypeOK
  <2>3. /\ moved \in ChildProcess /\ moved.client = ChildClient(k)
        /\ moved.window = WindowSize[sent.from] /\ moved.place = "transferring"
    BY <1>1, <2>2 DEF ChildProcess, ChildClient, ChildPlaces
  <2>4. children' = [children EXCEPT ![k] = moved] /\ children'[k] = moved
    BY <2>1
  <2>5. \A other \in acks' : other.from # sent.from
    <3> SUFFICES ASSUME NEW other \in acks, other.from = sent.from
                 PROVE  other = sent
      BY <2>1
    <3>1. other.to = sent.to
      BY DEF Inv, AcksFromConnected
    <3> QED BY <3>1 DEF Inv, TypeOK
  <2>6. UNCHANGED <<sockets, serverVars, clientVars, requests, answers, refused,
                    prompt, unlucky>>
    BY <1>6 DEF ChildReadsAck
  <2>7. Serves(k, sent.from)'
    <3>1. /\ place[sent.from] = "connected" /\ peer[sent.from] = k
          /\ sent.from \notin refused
      BY <2>1 DEF Inv, AcksFromConnected
    <3> QED BY <2>3, <2>4, <2>5, <2>6, <3>1 DEF Serves, clientVars
  <2>8. /\ answers' \subseteq DOMAIN children /\ unlucky' \subseteq Clients
        /\ acks' \subseteq acks
        /\ UNCHANGED <<sockets, serverVars, clientVars, requests, refused, prompt>>
    BY <1>2, <2>1, <2>6
  <2> HIDE DEF moved
  <2>9. moved.window # 0 =>
          moved.place = "transferring" /\ \E c \in Clients : Serves(k, c)'
    BY <2>2, <2>3, <2>7
  <2> QED BY ONLY Inv, k \in DOMAIN children, <2>3, <2>4, <2>8, <2>9, InvChildMoves
<1> QED BY <1>5, <1>6 DEF Child
-----------------------------------------------------------------------------
(***************************************************************************)
(* The clients.                                                            *)
(***************************************************************************)

(* One client that has started moves on; what it must see to for the       *)
(* invariant is among the assumptions.                                     *)
LEMMA InvClientMoves ==
  ASSUME Inv, NEW c \in Clients, place[c] # "idle", place'[c] # "idle",
         UNCHANGED <<sockets, serverVars, children, prompt>>,
         place' \in [Clients -> Places], peer' \in [Clients -> Int],
         requests' \in [Clients -> Nat], timeoutnum' \in [Clients -> 0 .. MaxRequests],
         \A d \in Clients \ {c} :
           /\ place'[d] = place[d] /\ peer'[d] = peer[d]
           /\ requests'[d] = requests[d] /\ timeoutnum'[d] = timeoutnum[d]
           /\ d \in refused' <=> d \in refused,
         place'[c] = "waiting" => KeepsTrying(timeoutnum'[c]),
         peer'[c] <= Len(children),
         \A k \in DOMAIN children : peer'[c] = k => ChildPeer(k) = Endpoint(c),
         answers' \subseteq DOMAIN children, unlucky' \subseteq Clients,
         refused' \subseteq Clients,
         c \in refused' => place'[c] \in {"waiting", "connected", "died"},
         acks' \subseteq [from: Clients, to: DOMAIN children],
         \A sent \in acks' :
           \/ sent \in acks /\ sent.from # c
           \/ /\ sent.from = c /\ place'[c] = "connected" /\ peer'[c] = sent.to
              /\ c \notin refused',
         \A k : ~Serves(k, c)
  PROVE  Inv'
<1>0. UNCHANGED <<host, port, serverUp, known, children, prompt>>
  BY DEF sockets, serverVars
<1>1. \A d \in Clients : place'[d] = "idle" <=> place[d] = "idle"
  OBVIOUS
<1>2. /\ KnownHaveStarted' /\ ServedOnce'
      /\ known' \subseteq {Endpoint(d) : d \in Clients}'
      /\ \A k \in DOMAIN children : ChildPeer(k)' = ChildPeer(k)
  BY <1>0, <1>1, TablesKept
<1>3. \A d : Endpoint(d)' = Endpoint(d)
  BY EndpointsKept
<1>4. TypeOK'
  BY <1>0, <1>2 DEF Inv, TypeOK
<1>5. IdleIsFresh'
  <2>1. \A k \in DOMAIN children : ChildClient(k)' = ChildClient(k)
    BY <1>0 DEF ChildClient
  <2> SUFFICES ASSUME NEW d \in Clients, place'[d] = "idle"
               PROVE  /\ requests'[d] = 0 /\ peer'[d] = 0
                      /\ \A k \in DOMAIN children : ChildClient(k) # d
    BY <1>0, <2>1 DEF IdleIsFresh
  <2> QED BY <1>1 DEF Inv, IdleIsFresh
<1>6. PeerIsOwnChild'
  <2> SUFFICES ASSUME NEW d \in Clients
               PROVE  /\ peer'[d] <= Len(children)
                      /\ peer'[d] \in DOMAIN children => ChildPeer(peer[d])' = Endpoint(d)
    BY <1>0, <1>3 DEF PeerIsOwnChild
  <2>1. \A k \in DOMAIN children : peer'[d] = k => ChildPeer(k) = Endpoint(d)
    BY DEF Inv, PeerIsOwnChild
  <2>2. \A k \in DOMAIN children : peer'[d] = k => ChildPeer(k)' = ChildPeer(peer[d])'
    BY DEF ChildPeer, ChildClient, htons
  <2>3. peer'[d] <= Len(children)
    BY DEF Inv, PeerIsOwnChild
  <2> QED BY <1>2, <2>1, <2>2, <2>3
<1>7. AcksFromConnected'
  <2> SUFFICES ASSUME NEW sent \in acks'
               PROVE  /\ place'[sent.from] = "connected" /\ peer'[sent.from] = sent.to
                      /\ sent.from \notin refused'
    BY DEF AcksFromConnected
  <2>1. CASE sent \in acks /\ sent.from # c
    <3>1. /\ sent.from \in Clients \ {c} /\ place[sent.from] = "connected"
          /\ peer[sent.from] = sent.to /\ sent.from \notin refused
      BY <2>1 DEF Inv, TypeOK, AcksFromConnected
    <3> QED BY ONLY <3>1, \A d \in Clients \ {c} :
                            /\ place'[d] = place[d] /\ peer'[d] = peer[d]
                            /\ d \in refused' <=> d \in refused
  <2>2. CASE /\ sent.from = c /\ place'[c] = "connected" /\ peer'[c] = sent.to
             /\ c \notin refused'
    BY ONLY <2>2
  <2> QED BY <2>1, <2>2
<1>8. RefusedFits' /\ WaitingHasTries'
  <2>1. RefusedFits'
    BY <1>4 DEF Inv, RefusedFits, TypeOK
  <2>2. WaitingHasTries'
    BY DEF Inv, WaitingHasTries, KeepsTrying
  <2> QED BY <2>1, <2>2
<1>9. TransfersHaveClients'
  <2>1. \A k \in DOMAIN children : \A d \in Clients : Serves(k, d) => Serves(k, d)'
    BY <1>0 DEF Serves
  <2> QED BY <1>0, <2>1 DEF Inv, TransfersHaveClients
<1> QED BY <1>2, <1>4, <1>5, <1>6, <1>7, <1>8, <1>9 DEF Inv

(* What every step of a client starts from.                                *)
LEMMA ClientBefore ==
  ASSUME Inv, NEW c \in Clients
  PROVE  /\ place \in [Clients -> Places] /\ peer \in [Clients -> Int]
         /\ requests \in [Clients -> Nat] /\ timeoutnum \in [Clients -> 0 .. MaxRequests]
         /\ peer[c] <= Len(children)
         /\ \A k \in DOMAIN children : peer[c] = k => ChildPeer(k) = Endpoint(c)
         /\ answers \subseteq DOMAIN children /\ unlucky \subseteq Clients
         /\ (Mishap(c) => unlucky' \subseteq Clients)
         /\ refused \subseteq Clients
         /\ acks \subseteq [from: Clients, to: DOMAIN children]
         /\ \A sent \in acks : sent.from = c => place[c] = "connected"
         /\ (c \in refused => place[c] \in {"waiting", "connected", "died"})
<1>1. \A k \in DOMAIN children : peer[c] = k => ChildPeer(k) = Endpoint(c)
  BY DEF Inv, PeerIsOwnChild
<1> QED BY <1>1 DEF Inv, TypeOK, PeerIsOwnChild, AcksFromConnected, RefusedFits, Mishap

LEMMA InvGiveUp ==
  ASSUME Inv, NEW c \in Clients, GiveUp(c)
  PROVE  Inv'
<1> USE DEF GiveUp
<1>1. /\ \A k : ~Serves(k, c)
      /\ \A sent \in acks : sent.from # c
      /\ place[c] = "requesting" /\ c \notin refused
  BY ClientBefore DEF Serves
<1>2. /\ place' \in [Clients -> Places] /\ place'[c] = "gaveUp"
      /\ \A d \in Clients \ {c} : place'[d] = place[d]
  BY ClientBefore DEF Places, Exited
<1> QED BY <1>1, <1>2, ClientBefore, InvClientMoves

LEMMA InvSendRequest ==
  ASSUME Inv, NEW c \in Clients, SendRequest(c)
  PROVE  Inv'
<1> USE DEF SendRequest
<1>1. /\ \A k : ~Serves(k, c)
      /\ \A sent \in acks : sent.from # c
      /\ place[c] = "requesting" /\ KeepsTrying(timeoutnum[c])
  BY ClientBefore DEF Serves
<1>2. /\ place' \in [Clients -> Places] /\ place'[c] = "waiting"
      /\ \A d \in Clients \ {c} : place'[d] = place[d]
  BY ClientBefore DEF Places
<1>3. /\ requests' \in [Clients -> Nat]
      /\ \A d \in Clients \ {c} : requests'[d] = requests[d]
      /\ unlucky' \subseteq Clients
  BY ClientBefore
<1>4. /\ refused' \subseteq Clients
      /\ \A d \in Clients \ {c} : d \in refused' <=> d \in refused
  BY ClientBefore
<1>5. UNCHANGED <<sockets, serverVars, timeoutnum, peer, children, answers, acks, prompt>>
  OBVIOUS
<1> HIDE DEF SendRequest
<1> QED BY <1>1, <1>2, <1>3, <1>4, <1>5, ClientBefore, InvClientMoves

LEMMA InvRequestTimeout ==
  ASSUME Inv, NEW c \in Clients, RequestTimeout(c)
  PROVE  Inv'
<1> USE DEF RequestTimeout
<1>1. /\ \A k : ~Serves(k, c)
      /\ \A sent \in acks : sent.from # c
      /\ place[c] = "waiting" /\ c \notin refused
  BY ClientBefore DEF Serves
<1>2. /\ place' \in [Clients -> Places] /\ place'[c] = "requesting"
      /\ \A d \in Clients \ {c} : place'[d] = place[d]
  BY ClientBefore DEF Places
<1>3. /\ timeoutnum' \in [Clients -> 0 .. MaxRequests]
      /\ \A d \in Clients \ {c} : timeoutnum'[d] = timeoutnum[d]
  <2>1. timeoutnum[c] + 1 \in 0 .. MaxRequests
    BY <1>1, RendezvousAssumption, ClientBefore DEF Inv, WaitingHasTries, KeepsTrying
  <2> QED BY <2>1, ClientBefore DEF CountTimeout
<1> QED BY <1>1, <1>2, <1>3, ClientBefore, InvClientMoves

(* What the client reconnects to is its own child, if the port survives    *)
(* the three conversions, and nobody otherwise.                            *)
LEMMA InvReadAnswer ==
  ASSUME Inv, NEW c \in Clients, ReadAnswer(c)
  PROVE  Inv'
<1> USE DEF ReadAnswer
<1>1. /\ \A k : ~Serves(k, c)
      /\ \A sent \in acks : sent.from # c
      /\ place[c] = "waiting" /\ c \notin refused
  BY ClientBefore DEF Serves
<1>2. /\ place' \in [Clients -> Places] /\ place'[c] = "answered"
      /\ \A d \in Clients \ {c} : place'[d] = place[d]
  BY ClientBefore DEF Places
<1>3. PICK k \in answers :
        /\ Endpoint(ChildClient(k)) = Endpoint(c) /\ answers' = answers \ {k}
        /\ peer' = [peer EXCEPT ![c] = htons(htons(htons(k)))]
  OBVIOUS
<1>4. k \in 1 .. Len(children) /\ DOMAIN children = 1 .. Len(children)
      /\ Len(children) \in Nat
  BY ClientBefore, ChildrenTyped DEF Inv
<1>5. /\ peer' \in [Clients -> Int] /\ peer'[c] = htons(htons(htons(k)))
      /\ \A d \in Clients \ {c} : peer'[d] = peer[d]
  BY <1>3, <1>4, ClientBefore DEF htons
<1>6. /\ peer'[c] <= Len(children)
      /\ \A j \in DOMAIN children : peer'[c] = j => BigEndian /\ j = k
  BY <1>4, <1>5, RendezvousAssumption DEF htons
<1>7. \A j \in DOMAIN children : peer'[c] = j => ChildPeer(j) = Endpoint(c)
  BY <1>3, <1>6 DEF ChildPeer, htons, Endpoint
<1>8. answers' \subseteq DOMAIN children /\ unlucky' \subseteq Clients
  BY <1>3, ClientBefore
<1>9. \A d \in Clients \ {c} : d \in refused' <=> d \in refused
  OBVIOUS
<1> HIDE DEF ReadAnswer
<1>10. UNCHANGED <<sockets, serverVars, timeoutnum, requests, children, acks, refused, prompt>>
  BY DEF ReadAnswer
<1> QED BY <1>1, <1>2, <1>5, <1>6, <1>7, <1>8, <1>9, <1>10, ClientBefore, InvClientMoves

LEMMA InvReadError ==
  ASSUME Inv, NEW c \in Clients, ReadError(c)
  PROVE  Inv'
<1> USE DEF ReadError
<1>1. /\ \A k : ~Serves(k, c)
      /\ \A sent \in acks : sent.from # c
      /\ place[c] = "waiting" /\ c \in refused
  BY ClientBefore DEF Serves
<1>2. /\ place' \in [Clients -> Places] /\ place'[c] = "answered"
      /\ \A d \in Clients \ {c} : place'[d] = place[d]
  BY ClientBefore DEF Places
<1>3. /\ peer' \in [Clients -> Int] /\ peer'[c] = 0
      /\ \A d \in Clients \ {c} : peer'[d] = peer[d]
      /\ \A k \in DOMAIN children : peer'[c] # k
      /\ peer'[c] <= Len(children)
  BY ClientBefore, ChildrenTyped DEF Inv
<1>4. /\ refused' \subseteq Clients /\ c \notin refused'
      /\ \A d \in Clients \ {c} : d \in refused' <=> d \in refused
  BY ClientBefore
<1> QED BY <1>1, <1>2, <1>3, <1>4, ClientBefore, InvClientMoves

LEMMA InvAcknowledge ==
  ASSUME Inv, NEW c \in Clients, Acknowledge(c)
  PROVE  Inv'
<1>1. /\ \A k : ~Serves(k, c)
      /\ \A sent \in acks : sent.from # c
      /\ place[c] = "answered" /\ c \notin refused
  BY ClientBefore DEF Acknowledge, Serves
<1>2. /\ place' \in [Clients -> Places] /\ place'[c] = "connected"
      /\ \A d \in Clients \ {c} : place'[d] = place[d]
  BY ClientBefore DEF Acknowledge, Places
<1>3. /\ refused' \subseteq Clients /\ unlucky' \subseteq Clients
      /\ \A d \in Clients \ {c} : d \in refused' <=> d \in refused
  BY ClientBefore DEF Acknowledge
<1>4. /\ acks' \subseteq [from: Clients, to: DOMAIN children]
      /\ \A sent \in acks' :
           \/ sent \in acks /\ sent.from # c
           \/ sent.from = c /\ peer[c] = sent.to /\ c \notin refused'
  BY <1>1, ClientBefore DEF Acknowledge, Listening
<1>5. UNCHANGED <<sockets, serverVars, timeoutnum, peer, requests, children, answers,
                  prompt>>
  BY DEF Acknowledge
<1> QED BY <1>1, <1>2, <1>3, <1>4, <1>5, ClientBefore, InvClientMoves

LEMMA InvRefuseAck ==
  ASSUME Inv, NEW c \in Clients, RefuseAck(c)
  PROVE  Inv'
<1>1. PICK ack \in acks : ack.from = c /\ acks' = acks \ {ack}
  BY DEF RefuseAck
<1>2. /\ refused' = refused \cup {c}
      /\ UNCHANGED <<sockets, serverVars, clientVars, requests, children, answers,
                     prompt, unlucky>>
  BY DEF RefuseAck
<1>3. place[c] = "connected" /\ \A k : ~Serves(k, c)
  BY <1>1, ClientBefore DEF Serves
<1>4. \A sent \in acks' : sent \in acks /\ sent.from # c
  <2> SUFFICES ASSUME NEW sent \in acks, sent.from = c
               PROVE  sent = ack
    BY <1>1
  <2>1. sent.to = ack.to
    BY <1>1 DEF Inv, AcksFromConnected
  <2> QED BY <1>1, <2>1, ClientBefore
<1>5. /\ refused' \subseteq Clients
      /\ \A d \in Clients \ {c} : d \in refused' <=> d \in refused
      /\ acks' \subseteq [from: Clients, to: DOMAIN children]
  BY <1>1, <1>2, ClientBefore
<1>6. UNCHANGED <<sockets, serverVars, place, timeoutnum, peer, requests, children,
                  answers, prompt, unlucky>>
  BY <1>2 DEF clientVars
<1> QED BY <1>3, <1>4, <1>5, <1>6, ClientBefore, InvClientMoves

LEMMA InvClientDies ==
  ASSUME Inv, NEW c \in Clients, ClientDies(c)
  PROVE  Inv'
<1>1. /\ \A k : ~Serves(k, c)
      /\ \A sent \in acks : sent.from # c
      /\ place[c] = "connected"
  BY ClientBefore DEF ClientDies, Serves, Inv, AcksFromConnected
<1>2. /\ place' \in [Clients -> Places] /\ place'[c] = "died"
      /\ \A d \in Clients \ {c} : place'[d] = place[d]
  BY ClientBefore DEF ClientDies, Places, Exited
<1>3. /\ UNCHANGED <<sockets, serverVars, timeoutnum, peer, requests, children, answers,
                     acks, refused, prompt, unlucky>>
      /\ \A d \in Clients \ {c} : d \in refused' <=> d \in refused
  BY DEF ClientDies
<1> QED BY <1>1, <1>2, <1>3, ClientBefore, InvClientMoves

(* A client that starts gets its port: nobody has heard of it until then.  *)
LEMMA InvStartClient ==
  ASSUME Inv, NEW c \in Clients, StartClient(c)
  PROVE  Inv'
<1>0. /\ place[c] = "idle" /\ place' = [place EXCEPT ![c] = "requesting"]
      /\ UNCHANGED <<serverUp, known, timeoutnum, peer, host, requests, children,
                     answers, acks, refused, prompt>>
  BY DEF StartClient, serverVars
<1>1. /\ port' \in [Clients -> Ports \cup {0}] /\ unlucky' \subseteq Clients
      /\ \A d \in Clients \ {c} : port'[d] = port[d]
  BY DEF StartClient, Inv, TypeOK
<1>2. /\ place' \in [Clients -> Places] /\ place'[c] = "requesting"
      /\ \A d \in Clients \ {c} : place'[d] = place[d]
  BY <1>0 DEF Inv, TypeOK, Places
<1>3. \A d \in Clients \ {c} : Endpoint(d)' = Endpoint(d)
  BY <1>0, <1>1 DEF Endpoint, Choice
<1>4. \A k \in DOMAIN children :
        ChildClient(k) \in Clients \ {c} /\ ChildClient(k)' = ChildClient(k)
  BY <1>0, ChildrenTyped DEF Inv, IdleIsFresh, ChildClient
<1>5. \A k \in DOMAIN children :
        /\ Endpoint(ChildClient(k))' = Endpoint(ChildClient(k))
        /\ ChildPeer(k)' = ChildPeer(k)
  BY <1>0, <1>3, <1>4 DEF ChildPeer, ChildClient, htons
<1>6. KnownHaveStarted' /\ known' \subseteq {Endpoint(d) : d \in Clients}'
  <2>1. \A entry \in known : \E d \in Clients \ {c} :
          place[d] # "idle" /\ entry = Endpoint(d)
    BY <1>0 DEF Inv, KnownHaveStarted
  <2> QED BY <1>0, <1>2, <1>3, <2>1 DEF Inv, KnownHaveStarted
<1>7. TypeOK'
  BY <1>0, <1>1, <1>2, <1>6 DEF Inv, TypeOK
<1>8. IdleIsFresh'
  BY <1>0, <1>2, <1>4 DEF Inv, IdleIsFresh
<1>9. ServedOnce'
  BY <1>0, <1>5 DEF Inv, ServedOnce
<1>10. PeerIsOwnChild'
  <2> SUFFICES ASSUME NEW d \in Clients
               PROVE  /\ peer[d] <= Len(children)
                      /\ peer[d] \in DOMAIN children => ChildPeer(peer[d])' = Endpoint(d)'
    BY <1>0 DEF PeerIsOwnChild
  <2>1. peer[c] \notin DOMAIN children
    BY <1>0, ChildrenTyped DEF Inv, IdleIsFresh
  <2>2. \A k \in DOMAIN children : peer[d] = k => ChildPeer(k)' = Endpoint(d)'
    BY <1>3, <1>5, <2>1 DEF Inv, PeerIsOwnChild
  <2>3. \A k \in DOMAIN children : peer[d] = k => ChildPeer(peer[d])' = Endpoint(d)'
    BY <1>0, <2>2 DEF ChildPeer, ChildClient, htons
  <2> QED BY <2>3 DEF Inv, PeerIsOwnChild
<1>11. AcksFromConnected' /\ RefusedFits' /\ WaitingHasTries'
  BY <1>0, <1>2 DEF Inv, TypeOK, AcksFromConnected, RefusedFits, WaitingHasTries
<1>12. TransfersHaveClients'
  <2>1. \A k \in DOMAIN children : \A d \in Clients : Serves(k, d) => Serves(k, d)'
    BY <1>0, <1>2 DEF Serves
  <2> QED BY <1>0, <2>1 DEF Inv, TransfersHaveClients
<1> QED BY <1>6, <1>7, <1>8, <1>9, <1>10, <1>11, <1>12 DEF Inv

LEMMA InvClient ==
  ASSUME Inv, NEW c \in Clients, Client(c)
  PROVE  Inv'
BY InvGiveUp, InvSendRequest, InvRequestTimeout, InvReadAnswer, InvReadError,
   InvAcknowledge, InvRefuseAck, InvClientDies DEF Client
-----------------------------------------------------------------------------
LEMMA InvStutters ==
  ASSUME Inv, UNCHANGED vars
  PROVE  Inv'
<1> USE DEF vars, serverVars, clientVars, sockets, Inv
<1>1. TypeOK' /\ KnownHaveStarted'
  <2>1. KnownHaveStarted' /\ known' \subseteq {Endpoint(c) : c \in Clients}'
    BY TablesKept DEF TypeOK
  <2>2. /\ serverUp' \in BOOLEAN /\ prompt' \in BOOLEAN
        /\ host' \in [Clients -> Hosts] /\ port' \in [Clients -> Ports \cup {0}]
        /\ Cardinality(known') <= TableSize /\ requests' \in [Clients -> Nat]
    BY DEF TypeOK
  <2>3. /\ children' \in Seq(ChildProcess) /\ answers' \subseteq DOMAIN children'
        /\ acks' \subseteq [from: Clients, to: DOMAIN children']
    BY DEF TypeOK
  <2>4. /\ place' \in [Clients -> Places] /\ timeoutnum' \in [Clients -> 0 .. MaxRequests]
        /\ peer' \in [Clients -> Int] /\ refused' \subseteq Clients /\ unlucky' \subseteq Clients
    BY DEF TypeOK
  <2> QED BY ONLY Zenon, <2>1, <2>2, <2>3, <2>4 DEF TypeOK
<1>2. ServedOnce' /\ IdleIsFresh'
  BY DEF ServedOnce, IdleIsFresh, ChildClient, Endpoint, Choice
<1>3. PeerIsOwnChild'
  <2>1. /\ \A c : Endpoint(c)' = Endpoint(c)
        /\ \A k : ChildPeer(k)' = ChildPeer(k)
    BY Zenon DEF ChildPeer, ChildClient, Endpoint, Choice, htons
  <2>2. peer' = peer /\ children' = children
    OBVIOUS
  <2> QED BY Zenon, <2>1, <2>2 DEF PeerIsOwnChild
<1>4. AcksFromConnected' /\ RefusedFits' /\ WaitingHasTries'
  BY DEF AcksFromConnected, RefusedFits, WaitingHasTries
<1>5. TransfersHaveClients'
  BY DEF TransfersHaveClients, Serves
<1> QED BY <1>1, <1>2, <1>3, <1>4, <1>5

LEMMA InvNext == Inv /\ [Next]_vars => Inv'
<1> SUFFICES ASSUME Inv, [Next]_vars PROVE Inv'
  OBVIOUS
<1>1. CASE StartServer \/ UNCHANGED vars
  BY <1>1, InvStartServer, InvStutters
<1>2. ASSUME NEW c \in Clients, HandleRequest(c) \/ StartClient(c) \/ Client(c)
      PROVE  Inv'
  BY <1>2, InvHandleRequest, InvStartClient, InvClient
<1>3. ASSUME NEW k \in DOMAIN children, Child(k)
      PROVE  Inv'
  BY <1>3, InvChild
<1> QED BY <1>1, <1>2, <1>3 DEF Next

(* Whatever is lost, late, refused or fails, and however the steps of the  *)
(* server, its children and the clients interleave (server.c:124-295,      *)
(* client.c:66-230): the table, the datagrams on their way and the places  *)
(* of all processes fit together, and every variable has its type.         *)
THEOREM RendezvousInv == Spec => []Inv
<1> QED BY InvInit, InvNext, PTL DEF Spec

(* A client that repeats its request gets no second child, unless the      *)
(* table of known clients is full and does not have it (server.c:133-139). *)
THEOREM OneChild == Spec => []OneChildPerClient
<1>1. Inv => OneChildPerClient
  <2> SUFFICES ASSUME Inv, NEW c \in Clients,
                      ~(Endpoint(c) \notin known /\ Cardinality(known) = TableSize)
               PROVE  Cardinality(ChildrenOf(Endpoint(c))) <= 1
    BY DEF OneChildPerClient
  <2>1. \A j, k \in ChildrenOf(Endpoint(c)) : j = k
    BY DEF ChildrenOf, Inv, ServedOnce
  <2>2. CASE ChildrenOf(Endpoint(c)) = {}
    BY <2>2, FS_EmptySet
  <2>3. CASE ChildrenOf(Endpoint(c)) # {}
    <3>1. PICK k : ChildrenOf(Endpoint(c)) = {k}
      BY <2>1, <2>3
    <3> QED BY <3>1, FS_Singleton
  <2> QED BY <2>2, <2>3
<1> QED BY <1>1, RendezvousInv, PTL

(* A child that knows a window was told it by a client that has reconnected*)
(* to that child's own port, and to whose address the child connects       *)
(* (server.c:260-283): in either order of bytes, also when ports are used  *)
(* again, and whatever else is sent to the child's socket, as long as it   *)
(* does not have the size of an acknowledgement.                           *)
THEOREM TransferConnected == Spec => []TransferMeansConnected
<1>1. Inv => TransferMeansConnected
  <2> SUFFICES ASSUME Inv, NEW k \in DOMAIN children, children[k].window # 0
               PROVE  /\ children[k].place = "transferring"
                      /\ \E c \in Clients :
                           /\ ChildPeer(k) = Endpoint(c) /\ peer[c] = k
                           /\ place[c] = "connected"
                           /\ children[k].window = WindowSize[c]
    BY DEF TransferMeansConnected
  <2>1. children[k].place = "transferring" /\ \E c \in Clients : Serves(k, c)
    BY DEF Inv, TransfersHaveClients
  <2>2. PICK c \in Clients : Serves(k, c)
    BY <2>1
  <2>3. peer[c] = k /\ ChildPeer(k) = Endpoint(c)
    BY <2>2 DEF Serves, Inv, PeerIsOwnChild
  <2> QED BY <2>1, <2>2, <2>3 DEF Serves
<1> QED BY <1>1, RendezvousInv, PTL
-----------------------------------------------------------------------------
(***************************************************************************)
(* Addresses.                                                              *)
(***************************************************************************)

(* Whatever interfaces its host has, a client that has started asks from   *)
(* the address that GetClientIPAddress should find for it                  *)
(* (client.c:450-502).                                                     *)
THEOREM ClientAddressRight == Spec => []ClientAddressIsRight
<1>1. Inv => ClientAddressIsRight
  <2> SUFFICES ASSUME Inv, NEW c \in Clients
               PROVE  RightAddress(HostInterfaces[host[c]], ServerIP, Endpoint(c).ip)
    BY DEF ClientAddressIsRight
  <2>1. host[c] \in Hosts
    BY DEF Inv, TypeOK
  <2>2. HostInterfaces[host[c]] \in Seq(Interface)
    BY <2>1, RendezvousAssumption
  <2>3. ServerIP \in Int
    BY RendezvousAssumption, AddressAssumption, PowerPositive DEF Address
  <2>4. Endpoint(c).ip = GetClientIPAddress(HostInterfaces[host[c]], ServerIP).client
    BY <2>1 DEF Endpoint, Choice
  <2> QED BY <2>2, <2>3, <2>4, AddressChoice
<1> QED BY <1>1, RendezvousInv, PTL
-----------------------------------------------------------------------------
(***************************************************************************)
(* Prompt handshakes.  A client is lucky if the network is prompt, its name*)
(* its own, and its handshake has met with no mishap.                      *)
(***************************************************************************)
Lucky(c) == prompt /\ c \in Clients \ unlucky /\ Alone(c)

LEMMA LuckyBefore ==
  ASSUME Inv, PromptInv, NEW c, Lucky(c)
  PROVE  /\ c \in Clients /\ Alone(c) /\ OnCourse(c)
         /\ place[c] = "idle" =>
              requests[c] = 0 /\ peer[c] = 0 /\ NoChild(c)
         /\ place[c] # "idle" =>
              \A k \in DOMAIN children :
                Endpoint(ChildClient(k)) = Endpoint(c) => ChildClient(k) = c
<1>1. c \in Clients /\ Alone(c) /\ OnCourse(c)
  BY DEF Lucky, PromptInv
<1>2. \A k \in DOMAIN children : ChildClient(k) \in Clients
  BY ChildrenTyped DEF Inv
<1>3. place[c] = "idle" => requests[c] = 0 /\ peer[c] = 0 /\ NoChild(c)
  BY <1>1 DEF Inv, IdleIsFresh, NoChild, OwnChildren
<1> QED BY <1>1, <1>2, <1>3 DEF Alone

(* What is enough for a client to stay on course without a step of its own *)
(* or of its child.                                                        *)
LEMMA CourseKept ==
  ASSUME NEW c \in Clients, OnCourse(c),
         place'[c] = place[c], timeoutnum'[c] = timeoutnum[c],
         requests'[c] = requests[c], peer'[c] = peer[c],
         c \in refused' => c \in refused,
         OwnChildren(c)' = OwnChildren(c),
         \A k \in OwnChildren(c) :
           /\ children'[k].place = children[k].place
           /\ k \in answers' <=> k \in answers
           /\ [from |-> c, to |-> k] \in acks => [from |-> c, to |-> k] \in acks'
  PROVE  OnCourse(c)'
<1>1. \A k : OnlyChild(c, k) =>
        /\ k \in OwnChildren(c) /\ k \in DOMAIN children /\ k \in DOMAIN children'
        /\ OnlyChild(c, k)'
  BY DEF OnlyChild, OwnChildren
<1>2. NoChild(c)' <=> NoChild(c)
  BY DEF NoChild
<1>3. FullWait(c)' <=> FullWait(c)
  BY DEF FullWait
<1>4. CASE place[c] \in {"idle", "requesting"}
  BY <1>2, <1>3, <1>4 DEF OnCourse, KeepsTrying
<1>5. CASE place[c] = "waiting"
  BY <1>1, <1>2, <1>3, <1>5 DEF OnCourse, KeepsTrying
<1>6. CASE place[c] = "answered"
  BY <1>1, <1>6 DEF OnCourse
<1>7. CASE place[c] = "connected"
  BY <1>1, <1>7 DEF OnCourse
<1> QED BY <1>4, <1>5, <1>6, <1>7 DEF OnCourse

(* What a step keeps that starts no client and forks no child.             *)
LEMMA NamesKept ==
  ASSUME Inv, PromptInv, UNCHANGED <<sockets, known>>,
         DOMAIN children' = DOMAIN children,
         \A k \in DOMAIN children : ChildClient(k)' = ChildClient(k),
         \A c \in Clients : place'[c] = "idle" <=> place[c] = "idle"
  PROVE  /\ PortsFit' /\ KnownHaveChildren'
         /\ \A c \in Clients : Alone(c)' <=> Alone(c)
         /\ \A c \in Clients : OwnChildren(c)' = OwnChildren(c)
<1>1. \A c : Endpoint(c)' = Endpoint(c)
  BY EndpointsKept
<1>2. PortsFit'
  BY DEF PromptInv, PortsFit, sockets
<1>3. KnownHaveChildren'
  BY <1>1 DEF PromptInv, KnownHaveChildren
<1>4. \A c \in Clients : Alone(c)' <=> Alone(c)
  BY <1>1 DEF Alone
<1>5. \A c \in Clients : OwnChildren(c)' = OwnChildren(c)
  BY DEF OwnChildren
<1> QED BY <1>2, <1>3, <1>4, <1>5

(* A step that starts no client and forks no child keeps every client on   *)
(* course if it does so for those it leaves lucky.                         *)
LEMMA PromptStep ==
  ASSUME Inv, PromptInv, UNCHANGED <<sockets, known, prompt>>, unlucky \subseteq unlucky',
         DOMAIN children' = DOMAIN children,
         \A k \in DOMAIN children : ChildClient(k)' = ChildClient(k),
         \A c \in Clients : place'[c] = "idle" <=> place[c] = "idle",
         \A c : Lucky(c) /\ Lucky(c)' => OnCourse(c)'
  PROVE  PromptInv'
<1>1. PortsFit' /\ KnownHaveChildren' /\ \A c \in Clients : Alone(c)' <=> Alone(c)
  BY NamesKept
<1>2. ASSUME prompt', NEW c \in Clients \ unlucky', Alone(c)'
      PROVE  OnCourse(c)'
  <2>1. Lucky(c) /\ Lucky(c)'
    BY <1>1, <1>2 DEF Lucky
  <2> QED BY <2>1
<1> QED BY <1>1, <1>2 DEF PromptInv

LEMMA PromptStartServer ==
  ASSUME Inv, PromptInv, StartServer
  PROVE  PromptInv'
<1> USE DEF StartServer, clientVars
<1>1. /\ \A k : ChildClient(k)' = ChildClient(k)
      /\ \A c : OwnChildren(c)' = OwnChildren(c)
  BY DEF ChildClient, OwnChildren
<1>2. \A c : Lucky(c) => OnCourse(c)'
  BY <1>1, LuckyBefore, CourseKept
<1> QED BY <1>1, <1>2, PromptStep

(* A request of a lucky client is its first that arrives: the client is    *)
(* not yet known, and gets its child.                                      *)
LEMMA PromptIgnore ==
  ASSUME Inv, PromptInv, NEW c \in Clients, HandleRequest(c),
         chkRequestRetransmitted(Endpoint(c)), UNCHANGED <<known, children>>
  PROVE  PromptInv'
<1> USE DEF clientVars
<1>0. /\ UNCHANGED <<sockets, serverUp, clientVars, answers, acks, refused, prompt,
                     unlucky>>
      /\ requests[c] > 0 /\ requests' = [requests EXCEPT ![c] = @ - 1]
  BY DEF HandleRequest
<1>1. /\ \A k : ChildClient(k)' = ChildClient(k)
      /\ \A d : OwnChildren(d)' = OwnChildren(d)
  BY DEF ChildClient, OwnChildren
<1>2. ASSUME Lucky(c) PROVE FALSE
  <2>1. place[c] # "idle" /\ NoChild(c)
    BY <1>0, <1>2, LuckyBefore DEF OnCourse
  <2>2. PICK k \in DOMAIN children : Endpoint(c) = Endpoint(ChildClient(k))
    BY DEF PromptInv, KnownHaveChildren, chkRequestRetransmitted
  <2> QED BY <1>2, <2>1, <2>2, LuckyBefore DEF NoChild, OwnChildren
<1>3. ASSUME NEW d, Lucky(d) PROVE OnCourse(d)'
  <2>1. d \in Clients /\ d # c
    BY <1>2, <1>3, LuckyBefore
  <2>2. requests'[d] = requests[d]
    BY <1>0, <2>1 DEF Inv, TypeOK
  <2> QED BY <1>0, <1>1, <1>3, <2>2, LuckyBefore, CourseKept
<1> QED BY <1>0, <1>1, <1>3, PromptStep

LEMMA PromptFork ==
  ASSUME Inv, PromptInv, NEW c \in Clients, HandleRequest(c),
         AddClientToKnownClientList(Endpoint(c)),
         children' = Append(children,
                       [client |-> c, place |-> "forked", window |-> 0])
  PROVE  PromptInv'
<1> DEFINE new == [client |-> c, place |-> "forked", window |-> 0]
<1>0. /\ UNCHANGED <<sockets, serverUp, clientVars, answers, acks, refused, prompt,
                     unlucky>>
      /\ requests[c] > 0 /\ requests' = [requests EXCEPT ![c] = @ - 1]
  BY Zenon DEF HandleRequest
<1>1. PICK n \in Nat : n = Len(children) /\ DOMAIN children = 1 .. n
  <2>1. Len(children) \in Nat /\ DOMAIN children = 1 .. Len(children)
    BY ONLY Inv, ChildrenTyped DEF Inv
  <2> QED BY ONLY Zenon, <2>1
<1>2. children \in Seq(ChildProcess) /\ new \in ChildProcess
  BY DEF Inv, TypeOK, ChildProcess, ChildPlaces
<1>3. /\ DOMAIN children' = 1 .. n + 1 /\ children'[n + 1] = new
      /\ \A k \in 1 .. n : children'[k] = children[k]
  BY <1>1, <1>2, AppendProperties, LenProperties
<1>4. \A d : Endpoint(d)' = Endpoint(d)
  BY <1>0, EndpointsKept
<1>5. ChildClient(n + 1)' = c /\ \A k \in 1 .. n : ChildClient(k)' = ChildClient(k)
  BY <1>3 DEF ChildClient
<1>6. n + 1 \notin answers
  BY <1>1 DEF Inv, TypeOK
<1>7. KnownHaveChildren'
  <2> SUFFICES ASSUME NEW entry \in known'
               PROVE  \E k \in 1 .. n + 1 : entry = Endpoint(ChildClient(k))'
    BY <1>3 DEF KnownHaveChildren
  <2>1. CASE entry = Endpoint(c)
    BY <1>4, <1>5, <2>1
  <2>2. CASE entry \in known
    <3>1. PICK k \in 1 .. n : entry = Endpoint(ChildClient(k))
      BY <1>1, <2>2 DEF PromptInv, KnownHaveChildren
    <3>2. k \in 1 .. n + 1 /\ Endpoint(ChildClient(k))' = entry
      BY <1>4, <1>5, <3>1
    <3> QED BY <3>2
  <2> QED BY <2>1, <2>2 DEF AddClientToKnownClientList
<1>8. PortsFit' /\ \A d \in Clients : Alone(d)' => Alone(d)
  BY <1>0, <1>4 DEF PromptInv, PortsFit, Alone, sockets, clientVars
<1>9. ASSUME Lucky(c) PROVE OnCourse(c)'
  <2>1. place[c] = "waiting" /\ requests[c] = 1 /\ NoChild(c)
        /\ FullWait(c) /\ c \notin refused
    BY <1>0, <1>9, LuckyBefore DEF OnCourse
  <2>2. OwnChildren(c)' = {n + 1}
    <3>1. \A k \in 1 .. n : ChildClient(k)' # c
      BY <1>1, <1>5, <2>1 DEF NoChild, OwnChildren
    <3>2. \A k \in 1 .. n + 1 : k \in 1 .. n \/ k = n + 1
      OBVIOUS
    <3> QED BY <1>3, <1>5, <3>1, <3>2 DEF OwnChildren
  <2>3. requests'[c] = 0
    BY <1>0, <2>1 DEF Inv, TypeOK
  <2>4. n + 1 \in DOMAIN children' /\ children'[n + 1].place = "forked"
    BY <1>3
  <2>5. OnlyChild(c, n + 1)'
    BY <2>2 DEF OnlyChild
  <2>6. FullWait(c)'
    BY <1>0, <2>1 DEF FullWait, clientVars
  <2> QED BY <1>0, <1>6, <2>1, <2>3, <2>4, <2>5, <2>6 DEF OnCourse, clientVars
<1>10. ASSUME NEW d, Lucky(d), d # c PROVE OnCourse(d)'
  <2>1. d \in Clients /\ requests'[d] = requests[d]
    BY <1>0, <1>10, LuckyBefore DEF Inv, TypeOK
  <2>2. OwnChildren(d)' = OwnChildren(d)
    <3>1. \A k \in 1 .. n + 1 : k \in 1 .. n \/ k = n + 1
      OBVIOUS
    <3> QED BY <1>1, <1>3, <1>5, <1>10, <3>1 DEF OwnChildren
  <2>3. \A k \in OwnChildren(d) : children'[k] = children[k]
    BY <1>1, <1>3 DEF OwnChildren
  <2> QED BY <1>0, <1>10, <2>1, <2>2, <2>3, LuckyBefore, CourseKept DEF clientVars
<1>11. ASSUME prompt', NEW d \in Clients \ unlucky', Alone(d)'
       PROVE  OnCourse(d)'
  <2>1. Lucky(d)
    BY <1>0, <1>8, <1>11 DEF Lucky
  <2> QED BY <1>9, <1>10, <2>1
<1> QED BY <1>7, <1>8, <1>11 DEF PromptInv

LEMMA PromptHandleRequest ==
  ASSUME Inv, PromptInv, NEW c \in Clients, HandleRequest(c)
  PROVE  PromptInv'
BY Zenon, PromptIgnore, PromptFork DEF HandleRequest

(* A child and its lucky client, by what the client is doing.              *)
LEMMA LuckyChild ==
  ASSUME Inv, PromptInv, NEW k \in DOMAIN children, NEW c, c = ChildClient(k), Lucky(c)
  PROVE  /\ OnlyChild(c, k) /\ requests[c] = 0
         /\ \/ /\ place[c] = "waiting" /\ FullWait(c) /\ c \notin refused
               /\ \/ children[k].place = "forked" /\ k \notin answers
                  \/ children[k].place = "awaiting" /\ k \in answers
            \/ /\ place[c] = "answered" /\ peer[c] = k
               /\ children[k].place = "awaiting" /\ k \notin answers
            \/ /\ place[c] = "connected" /\ peer[c] = k
               /\ c \notin refused /\ k \notin answers
               /\ \/ children[k].place = "awaiting" /\ [from |-> c, to |-> k] \in acks
                  \/ children[k].place = "transferring"
<1>1. OnCourse(c) /\ (place[c] = "idle" => NoChild(c))
  BY LuckyBefore
<1>2. ~NoChild(c) /\ \A j : OnlyChild(c, j) => j = k
  BY DEF NoChild, OnlyChild, OwnChildren
<1> QED BY <1>1, <1>2 DEF OnCourse

(* Nothing that one child does throws the clients of others off.           *)
LEMMA PromptChildMoves ==
  ASSUME Inv, PromptInv, NEW k \in DOMAIN children, NEW c, c = ChildClient(k),
         NEW moved, moved.client = c, children' = [children EXCEPT ![k] = moved],
         UNCHANGED <<sockets, serverVars, clientVars, requests, refused, prompt>>,
         unlucky \subseteq unlucky',
         \A j \in DOMAIN children \ {k} : j \in answers' <=> j \in answers,
         \A sent \in acks : sent.to # k => sent \in acks',
         Lucky(c) /\ Lucky(c)' => OnCourse(c)'
  PROVE  PromptInv'
<1>0. UNCHANGED <<host, port, known, place, timeoutnum, peer>>
  BY DEF sockets, serverVars, clientVars
<1>1. PICK n \in Nat : DOMAIN children = 1 .. n
  BY ChildrenTyped DEF Inv
<1>2. /\ DOMAIN children' = DOMAIN children
      /\ \A j \in DOMAIN children : children'[j] = IF j = k THEN moved ELSE children[j]
  OBVIOUS
<1>3. \A j \in DOMAIN children : ChildClient(j)' = ChildClient(j)
  BY <1>2 DEF ChildClient
<1>4. \A d : OwnChildren(d)' = OwnChildren(d)
  BY <1>2, <1>3 DEF OwnChildren
<1>5. ASSUME NEW d, Lucky(d), d # c PROVE OnCourse(d)'
  <2>1. \A j \in OwnChildren(d) : j \in DOMAIN children /\ j # k
    BY <1>5 DEF OwnChildren
  <2>2. \A j \in OwnChildren(d) :
          /\ children'[j].place = children[j].place
          /\ j \in answers' <=> j \in answers
          /\ [from |-> d, to |-> j] \in acks => [from |-> d, to |-> j] \in acks'
    BY <1>2, <2>1
  <2> QED BY <1>0, <1>4, <1>5, <2>2, LuckyBefore, CourseKept
<1> QED BY <1>0, <1>2, <1>3, <1>5, PromptStep

LEMMA PromptChild ==
  ASSUME Inv, PromptInv, BigEndian, NEW k \in DOMAIN children, Child(k)
  PROVE  PromptInv'
<1> DEFINE At(where) == [children[k] EXCEPT !.place = where]
<1>0. PICK c \in Clients : c = ChildClient(k)
  BY ChildrenTyped DEF Inv
<1>1. children[k] \in ChildProcess
  BY ChildrenTyped DEF Inv
<1>2. /\ \A where : At(where).client = c /\ At(where).place = where
      /\ answers \subseteq DOMAIN children
      /\ Mishap(c) => unlucky \subseteq unlucky' /\ ~(Lucky(c) /\ Lucky(c)')
  BY <1>0, <1>1 DEF ChildProcess, ChildClient, Inv, TypeOK, Mishap, Lucky
<1>3. \A d : UNCHANGED clientVars =>
        /\ place'[d] = place[d] /\ timeoutnum'[d] = timeoutnum[d] /\ peer'[d] = peer[d]
        /\ FullWait(d)' = FullWait(d)
  BY DEF clientVars, FullWait
<1>4. CASE ChildFails(k)
  <2>1. children' = [children EXCEPT ![k] = At("failed")]
    BY <1>4 DEF ChildFails
  <2> QED BY <1>0, <1>2, <1>4, <2>1, PromptChildMoves DEF ChildFails
<1>5. CASE ChildAnswers(k)
  <2>1. children' = [children EXCEPT ![k] = At("awaiting")]
    BY <1>5 DEF ChildAnswers
  <2>2. /\ UNCHANGED <<sockets, serverVars, clientVars, requests, acks, refused, prompt>>
        /\ \/ answers' = answers \cup {k} /\ UNCHANGED unlucky
           \/ UNCHANGED answers /\ Mishap(c)
        /\ children[k].place = "forked"
    BY <1>0, <1>5 DEF ChildAnswers, ChildIn
  <2>3. children'[k].place = "awaiting" /\ DOMAIN children' = DOMAIN children
    BY <1>2, <2>1
  <2>4. ASSUME Lucky(c), Lucky(c)' PROVE OnCourse(c)'
    <3>1. /\ OnlyChild(c, k) /\ requests[c] = 0 /\ place[c] = "waiting"
          /\ FullWait(c) /\ c \notin refused
      BY <1>0, <2>2, <2>4, LuckyChild
    <3>2. k \in answers'
      BY <1>2, <2>2, <2>4
    <3>3. OnlyChild(c, k)'
      BY <1>0, <1>2, <2>1, <3>1 DEF OnlyChild, OwnChildren, ChildClient
    <3> QED BY <1>3, <2>2, <2>3, <3>1, <3>2, <3>3 DEF OnCourse
  <2> QED BY <1>0, <1>2, <2>1, <2>2, <2>4, PromptChildMoves
<1>6. CASE ChildReadsAck(k)
  <2>1. PICK ack \in acks : ack.to = k /\ acks' = acks \ {ack} /\
          children' = [children EXCEPT ![k].place = "transferring",
                                       ![k].window = WindowSize[ack.from]]
    BY <1>6 DEF ChildReadsAck, AcksTo
  <2> DEFINE moved == [children[k] EXCEPT !.place = "transferring",
                                          !.window = WindowSize[ack.from]]
  <2>2. /\ children' = [children EXCEPT ![k] = moved]
        /\ moved.client = c /\ moved.place = "transferring"
    BY <1>0, <1>1, <2>1 DEF ChildProcess, ChildClient
  <2>3. /\ UNCHANGED <<sockets, serverVars, clientVars, requests, answers, refused,
                       prompt, unlucky>>
        /\ children[k].place = "awaiting"
    BY <1>6 DEF ChildReadsAck, ChildIn
  <2>4. ASSUME Lucky(c), Lucky(c)' PROVE OnCourse(c)'
    <3>1. /\ ack.from \in Clients /\ place[ack.from] = "connected" /\ peer[ack.from] = k
      BY <2>1 DEF Inv, TypeOK, AcksFromConnected
    <3>2. ChildPeer(k) = Endpoint(ack.from)
      BY <3>1 DEF Inv, PeerIsOwnChild
    <3>3. Endpoint(c) = Endpoint(ack.from)
      BY <1>0, <3>2 DEF ChildPeer, htons, Endpoint
    <3>4. ack.from = c
      <4>1. place[c] # "idle"
        BY <1>0, <2>4, LuckyChild
      <4>2. Alone(c)
        BY <2>4, LuckyBefore
      <4> QED BY <3>1, <3>3, <4>1, <4>2 DEF Alone
    <3>5. /\ OnlyChild(c, k) /\ requests[c] = 0 /\ k \notin answers
          /\ c \notin refused /\ place[c] = "connected" /\ peer[c] = k
      <4>1. place[c] = "connected"
        BY <3>1, <3>4
      <4> QED BY <1>0, <2>4, <4>1, LuckyChild
    <3>6. OnlyChild(c, k)' /\ k \in DOMAIN children' /\ children'[k].place = "transferring"
      BY <1>0, <2>2, <3>5 DEF OnlyChild, OwnChildren, ChildClient
    <3> QED BY <1>3, <2>3, <3>5, <3>6 DEF OnCourse
  <2> HIDE DEF moved
  <2>5. /\ UNCHANGED <<sockets, serverVars, clientVars, requests, refused, prompt>>
        /\ unlucky \subseteq unlucky'
        /\ \A j \in DOMAIN children \ {k} : j \in answers' <=> j \in answers
    BY <2>3
  <2>6. \A sent \in acks : sent.to # k => sent \in acks'
    BY <2>1
  <2>7. Lucky(c) /\ Lucky(c)' => OnCourse(c)'
    BY <2>4
  <2> QED BY ONLY Inv, PromptInv, k \in DOMAIN children, <1>0, <2>2, <2>5, <2>6, <2>7,
                  PromptChildMoves
<1>7. CASE ChildTimeout(k)
  <2>1. children' = [children EXCEPT ![k] = At("timedOut")]
    BY <1>7 DEF ChildTimeout
  <2>2. ~Lucky(c)
    <3> SUFFICES ASSUME Lucky(c) PROVE AckComing(k)
      BY <1>7 DEF ChildTimeout, Lucky
    <3>1. children[k].place = "awaiting"
      BY <1>7 DEF ChildTimeout, ChildIn
    <3>2. \/ place[c] = "waiting" /\ k \in answers
          \/ place[c] = "answered" /\ peer[c] = k
          \/ [from |-> c, to |-> k] \in acks
      BY <1>0, <3>1, LuckyChild
    <3> QED BY <1>0, <3>2 DEF AckComing
  <2>3. unlucky' = unlucky /\ answers' = answers /\ acks' = acks
        /\ UNCHANGED <<sockets, serverVars, clientVars, requests, refused, prompt>>
    BY <1>7 DEF ChildTimeout
  <2> QED BY <1>0, <1>2, <2>1, <2>2, <2>3, PromptChildMoves
<1>8. CASE ChildReadsOther(k)
  <2>1. children' = [children EXCEPT ![k] = At("transferring")]
    BY <1>8 DEF ChildReadsOther
  <2> QED BY <1>0, <1>2, <1>8, <2>1, PromptChildMoves DEF ChildReadsOther
<1> QED BY <1>4, <1>5, <1>6, <1>7, <1>8 DEF Child

(* Nothing that one client does throws another off, except that it reads   *)
(* an answer meant for the other, which it can only do under its name.     *)
LEMMA PromptClientMoves ==
  ASSUME Inv, PromptInv, NEW c \in Clients,
         UNCHANGED <<sockets, serverVars, children, prompt>>, unlucky \subseteq unlucky',
         place'[c] # "idle", place[c] # "idle",
         \A d \in Clients \ {c} :
           /\ place'[d] = place[d] /\ timeoutnum'[d] = timeoutnum[d]
           /\ requests'[d] = requests[d] /\ peer'[d] = peer[d]
           /\ d \in refused' => d \in refused,
         answers' \subseteq answers,
         \A k \in answers \ answers' : Endpoint(ChildClient(k)) = Endpoint(c),
         \A sent \in acks : sent.from # c => sent \in acks',
         Lucky(c) /\ Lucky(c)' => OnCourse(c)'
  PROVE  PromptInv'
<1>1. UNCHANGED <<sockets, known, children>>
  BY DEF serverVars
<1>2. \A k : ChildClient(k)' = ChildClient(k)
  BY <1>1 DEF ChildClient
<1>3. ASSUME NEW d, Lucky(d), d # c PROVE OnCourse(d)'
  <2>1. OwnChildren(d)' = OwnChildren(d)
    BY <1>1, <1>2 DEF OwnChildren
  <2>2. d \in Clients \ {c}
    BY <1>3, LuckyBefore
  <2>3. \A k \in OwnChildren(d) : k \in answers' <=> k \in answers
    <3> SUFFICES ASSUME NEW k \in OwnChildren(d), k \in answers \ answers' PROVE FALSE
      OBVIOUS
    <3>1. ChildClient(k) = d /\ Endpoint(d) = Endpoint(c) /\ k \in DOMAIN children
      BY DEF OwnChildren
    <3>2. place[d] # "idle"
      BY <1>3, <3>1, LuckyBefore DEF NoChild, OwnChildren
    <3>3. Alone(d)
      BY <1>3, LuckyBefore
    <3> QED BY <2>2, <3>1, <3>2, <3>3 DEF Alone
  <2>4. \A k \in OwnChildren(d) :
          /\ children'[k].place = children[k].place
          /\ [from |-> d, to |-> k] \in acks => [from |-> d, to |-> k] \in acks'
    BY <1>1, <2>2
  <2> QED BY <1>3, <2>1, <2>2, <2>3, <2>4, LuckyBefore, CourseKept
<1>4. \A d \in Clients : place'[d] = "idle" <=> place[d] = "idle"
  OBVIOUS
<1> QED BY <1>1, <1>2, <1>3, <1>4, PromptStep

LEMMA MishapUnlucky ==
  ASSUME Inv, NEW c \in Clients, Mishap(c)
  PROVE  unlucky \subseteq unlucky' /\ ~(Lucky(c) /\ Lucky(c)')
BY DEF Mishap, Lucky

(* A client on course does not come to any of these steps.                 *)
LEMMA PromptGiveUp ==
  ASSUME Inv, PromptInv, NEW c \in Clients, GiveUp(c)
  PROVE  PromptInv'
<1>1. ~Lucky(c)
  BY LuckyBefore DEF GiveUp, OnCourse
<1>2. place'[c] = "gaveUp" /\ \A d \in Clients \ {c} : place'[d] = place[d]
  BY ClientBefore DEF GiveUp
<1> QED BY <1>1, <1>2, PromptClientMoves DEF GiveUp

LEMMA PromptReadError ==
  ASSUME Inv, PromptInv, NEW c \in Clients, ReadError(c)
  PROVE  PromptInv'
<1>1. ~Lucky(c)
  BY LuckyBefore DEF ReadError, OnCourse
<1>2. /\ place'[c] = "answered" /\ \A d \in Clients \ {c} : place'[d] = place[d]
      /\ \A d \in Clients \ {c} : peer'[d] = peer[d]
  BY ClientBefore DEF ReadError
<1> QED BY <1>1, <1>2, PromptClientMoves DEF ReadError

LEMMA PromptRefuseAck ==
  ASSUME Inv, PromptInv, NEW c \in Clients, RefuseAck(c)
  PROVE  PromptInv'
<1>1. PICK ack \in acks :
        /\ ack.from = c /\ children[ack.to].place \in {"failed", "timedOut"}
        /\ acks' = acks \ {ack}
  BY DEF RefuseAck
<1>2. place[c] = "connected" /\ peer[c] = ack.to
  BY <1>1 DEF Inv, AcksFromConnected
<1>3. ~Lucky(c)
  <2>1. Lucky(c) => OnCourse(c)
    BY LuckyBefore
  <2>2. OnCourse(c) => children[peer[c]].place \in {"awaiting", "transferring"}
    BY <1>2 DEF OnCourse
  <2>3. children[peer[c]].place \in {"failed", "timedOut"}
    BY <1>1, <1>2
  <2> QED BY <2>1, <2>2, <2>3
<1>4. UNCHANGED <<place, peer, timeoutnum>>
  BY DEF RefuseAck, clientVars
<1> QED BY <1>1, <1>2, <1>3, <1>4, PromptClientMoves DEF RefuseAck

LEMMA PromptClientDies ==
  ASSUME Inv, PromptInv, NEW c \in Clients, ClientDies(c)
  PROVE  PromptInv'
<1>1. ~Lucky(c)
  BY LuckyBefore DEF ClientDies, OnCourse
<1>2. place'[c] = "died" /\ \A d \in Clients \ {c} : place'[d] = place[d]
  BY ClientBefore DEF ClientDies
<1> QED BY <1>1, <1>2, PromptClientMoves DEF ClientDies

(* A request of a lucky client arrives, or is lost with time for another.  *)
LEMMA PromptSendRequest ==
  ASSUME Inv, PromptInv, NEW c \in Clients, SendRequest(c)
  PROVE  PromptInv'
<1>0. /\ UNCHANGED <<sockets, serverVars, timeoutnum, peer, children, answers, acks, prompt>>
      /\ place[c] = "requesting" /\ c \notin refused
  BY ClientBefore DEF SendRequest
<1>1. place'[c] = "waiting" /\ \A d \in Clients \ {c} : place'[d] = place[d]
  BY ClientBefore DEF SendRequest
<1>2. /\ unlucky \subseteq unlucky'
      /\ \A d \in Clients \ {c} : /\ requests'[d] = requests[d]
                                  /\ d \in refused' => d \in refused
  BY MishapUnlucky, ClientBefore DEF SendRequest
<1>3. ASSUME Lucky(c), Lucky(c)' PROVE OnCourse(c)'
  <2>1. FullWait(c) /\ KeepsTrying(timeoutnum[c]) /\ requests[c] = 0 /\ NoChild(c)
    BY <1>0, <1>3, LuckyBefore DEF OnCourse
  <2>2. FullWait(c)' /\ NoChild(c)'
    BY <1>0, <2>1 DEF FullWait, NoChild, OwnChildren, ChildClient
  <2>3. UNCHANGED refused
    BY <1>3, MishapUnlucky DEF SendRequest
  <2>4. \/ requests'[c] = 1
        \/ requests'[c] = 0 /\ SelectKeepsTimeout /\ timeoutnum[c] + 1 < MaxRequests
    BY <1>3, <2>1, MishapUnlucky, ClientBefore DEF SendRequest
  <2> QED BY <1>0, <1>1, <2>2, <2>3, <2>4 DEF OnCourse, KeepsTrying
<1> QED BY <1>0, <1>1, <1>2, <1>3, PromptClientMoves

(* It waits in vain only for a request that was lost.                      *)
LEMMA PromptRequestTimeout ==
  ASSUME Inv, PromptInv, NEW c \in Clients, RequestTimeout(c)
  PROVE  PromptInv'
<1>0. /\ UNCHANGED <<sockets, serverVars, peer, requests, children, answers, acks, refused,
                     prompt, unlucky>>
      /\ place[c] = "waiting" /\ c \notin refused
  BY DEF RequestTimeout
<1>1. /\ place'[c] = "requesting" /\ timeoutnum'[c] = timeoutnum[c] + 1
      /\ \A d \in Clients \ {c} : place'[d] = place[d] /\ timeoutnum'[d] = timeoutnum[d]
  BY ClientBefore DEF RequestTimeout, CountTimeout
<1>2. ASSUME Lucky(c), Lucky(c)' PROVE OnCourse(c)'
  <2>1. FullWait(c)
    BY <1>0, <1>2, LuckyBefore DEF OnCourse
  <2>2. ~AnswerComing(c)
    BY <1>2, <2>1 DEF RequestTimeout, FullWait, Lucky
  <2>3. \A k \in DOMAIN children :
          OnlyChild(c, k) => children[k].place # "forked" /\ k \notin answers
    BY <2>2 DEF AnswerComing, OnlyChild, OwnChildren, ChildIn
  <2>4. /\ requests[c] = 0 /\ NoChild(c)
        /\ SelectKeepsTimeout /\ KeepsTrying(timeoutnum[c] + 1)
    BY <1>0, <1>2, <2>2, <2>3, LuckyBefore DEF OnCourse, AnswerComing
  <2>5. FullWait(c)' /\ NoChild(c)'
    BY <1>0, <2>4 DEF FullWait, NoChild, OwnChildren, ChildClient
  <2> QED BY <1>0, <1>1, <2>4, <2>5 DEF OnCourse
<1> QED BY <1>0, <1>1, <1>2, PromptClientMoves

LEMMA PromptReadAnswer ==
  ASSUME Inv, PromptInv, BigEndian, NEW c \in Clients, ReadAnswer(c)
  PROVE  PromptInv'
<1>0. /\ UNCHANGED <<sockets, serverVars, timeoutnum, requests, children, acks, refused,
                     prompt, unlucky>>
      /\ place[c] = "waiting" /\ c \notin refused
  BY DEF ReadAnswer
<1>1. PICK k \in answers :
        /\ Endpoint(ChildClient(k)) = Endpoint(c) /\ answers' = answers \ {k}
        /\ peer' = [peer EXCEPT ![c] = htons(htons(htons(k)))]
  BY DEF ReadAnswer
<1>2. /\ place'[c] = "answered" /\ peer'[c] = k
      /\ \A d \in Clients \ {c} : place'[d] = place[d] /\ peer'[d] = peer[d]
  BY <1>1, ClientBefore DEF ReadAnswer, htons
<1>3. ASSUME Lucky(c), Lucky(c)' PROVE OnCourse(c)'
  <2>1. k \in DOMAIN children /\ c = ChildClient(k)
    BY <1>0, <1>1, <1>3, LuckyBefore, ClientBefore
  <2>2. OnlyChild(c, k) /\ requests[c] = 0 /\ children[k].place = "awaiting"
    BY <1>0, <1>1, <1>3, <2>1, LuckyChild
  <2>3. OnlyChild(c, k)'
    BY <1>0, <2>2 DEF OnlyChild, OwnChildren, ChildClient
  <2>4. k \notin answers'
    BY <1>1
  <2> QED BY <1>0, <1>2, <2>1, <2>2, <2>3, <2>4 DEF OnCourse
<1>4. \A j \in answers \ answers' : Endpoint(ChildClient(j)) = Endpoint(c)
  BY <1>1
<1> QED BY <1>0, <1>1, <1>2, <1>3, <1>4, PromptClientMoves

(* The acknowledgement finds the child's socket where the client looks.    *)
LEMMA PromptAcknowledge ==
  ASSUME Inv, PromptInv, AddressesAgree, NEW c \in Clients, Acknowledge(c)
  PROVE  PromptInv'
<1>0. /\ UNCHANGED <<sockets, serverVars, timeoutnum, peer, requests, children, answers,
                     prompt>>
      /\ place[c] = "answered" /\ c \notin refused
  BY ClientBefore DEF Acknowledge
<1>1. place'[c] = "connected" /\ \A d \in Clients \ {c} : place'[d] = place[d]
  BY ClientBefore DEF Acknowledge
<1>2. /\ unlucky \subseteq unlucky'
      /\ \A d \in Clients \ {c} : d \in refused' => d \in refused
      /\ \A sent \in acks : sent \in acks'
  BY MishapUnlucky DEF Acknowledge
<1>3. ASSUME Lucky(c), Lucky(c)' PROVE OnCourse(c)'
  <2>1. PICK k \in DOMAIN children :
          /\ OnlyChild(c, k) /\ peer[c] = k /\ requests[c] = 0
          /\ children[k].place = "awaiting" /\ k \notin answers
    BY <1>0, <1>3, LuckyBefore DEF OnCourse
  <2>2. host[c] \in Hosts /\ ChildClient(k) = c
    BY <2>1 DEF Inv, TypeOK, OnlyChild, OwnChildren
  <2>3. ChildIP(k) \in {AnyAddress, ServerAddress(c)}
    BY <2>2 DEF AddressesAgree, ChildIP, ServerAddress
  <2>4. k \in Listening(c) /\ \A j \in Listening(c) : j = k
    BY <2>1, <2>3 DEF Listening
  <2>5. [from |-> c, to |-> k] \in acks' /\ UNCHANGED refused
    BY <1>3, <2>4, MishapUnlucky DEF Acknowledge
  <2>6. OnlyChild(c, k)'
    BY <1>0, <2>1 DEF OnlyChild, OwnChildren, ChildClient
  <2> QED BY <1>0, <1>1, <2>1, <2>5, <2>6 DEF OnCourse
<1> QED BY <1>0, <1>1, <1>2, <1>3, PromptClientMoves

LEMMA PromptClient ==
  ASSUME Inv, PromptInv, BigEndian, AddressesAgree, NEW c \in Clients, Client(c)
  PROVE  PromptInv'
BY PromptGiveUp, PromptSendRequest, PromptRequestTimeout, PromptReadAnswer,
   PromptReadError, PromptAcknowledge, PromptRefuseAck, PromptClientDies DEF Client

(* A client that starts does not disturb those with another name.          *)
LEMMA PromptStartClient ==
  ASSUME Inv, PromptInv, NEW c \in Clients, StartClient(c)
  PROVE  PromptInv'
<1>0. /\ place[c] = "idle" /\ place' = [place EXCEPT ![c] = "requesting"]
      /\ UNCHANGED <<serverUp, known, timeoutnum, peer, host, requests, children,
                     answers, acks, refused, prompt, unlucky>>
  BY DEF StartClient, serverVars
<1>1. PICK p \in Ports : port' = [port EXCEPT ![c] = p]
  BY DEF StartClient
<1>2. /\ port'[c] = p /\ p # 0 /\ place'[c] = "requesting"
      /\ \A d \in Clients \ {c} : port'[d] = port[d] /\ place'[d] = place[d]
  BY <1>0, <1>1, RendezvousAssumption DEF Inv, TypeOK
<1>3. \A d \in Clients \ {c} : Endpoint(d)' = Endpoint(d)
  BY <1>0, <1>2 DEF Endpoint, Choice
<1>4. PortsFit'
  BY <1>0, <1>2 DEF PromptInv, PortsFit
<1>5. \A k \in DOMAIN children :
        /\ ChildClient(k) \in Clients \ {c} /\ ChildClient(k)' = ChildClient(k)
  BY <1>0, ChildrenTyped DEF Inv, IdleIsFresh, ChildClient
<1>6. KnownHaveChildren'
  <2>1. \A k \in DOMAIN children : Endpoint(ChildClient(k))' = Endpoint(ChildClient(k))
    BY <1>3, <1>5
  <2> QED BY <1>0, <2>1 DEF PromptInv, KnownHaveChildren
<1>7. ASSUME Lucky(c)' PROVE OnCourse(c)'
  <2>1. Lucky(c)
    BY <1>0, <1>7 DEF Lucky, Alone
  <2>2. requests[c] = 0 /\ timeoutnum[c] = 0 /\ NoChild(c)
    BY <1>0, <2>1, LuckyBefore DEF OnCourse
  <2>3. NoChild(c)'
    BY <1>0, <2>2 DEF NoChild, OwnChildren, ChildClient
  <2>4. KeepsTrying(timeoutnum[c])' /\ FullWait(c)'
    BY <1>0, <2>2, RendezvousAssumption DEF KeepsTrying, FullWait
  <2> QED BY <1>0, <1>2, <2>2, <2>3, <2>4 DEF OnCourse
<1>8. ASSUME NEW d \in Clients \ {c}, Lucky(d)' PROVE OnCourse(d)'
  <2>1. Alone(d)
    <3> SUFFICES ASSUME place[d] # "idle", NEW e \in Clients \ {d},
                        Endpoint(e) = Endpoint(d)
                 PROVE  FALSE
      BY DEF Alone
    <3>1. port[d] # 0 /\ port[c] = 0
      BY <1>0 DEF PromptInv, PortsFit
    <3>2. e # c
      BY <3>1 DEF Endpoint
    <3>3. Endpoint(e)' = Endpoint(d)' /\ place'[d] # "idle"
      BY <1>2, <1>3, <3>2
    <3> QED BY <1>8, <3>3 DEF Lucky, Alone
  <2>2. Lucky(d)
    BY <1>0, <1>8, <2>1 DEF Lucky
  <2>3. OwnChildren(d)' = OwnChildren(d)
    BY <1>0 DEF OwnChildren, ChildClient
  <2> QED BY <1>0, <1>2, <2>2, <2>3, LuckyBefore, CourseKept
<1>9. ASSUME prompt', NEW d \in Clients \ unlucky', Alone(d)'
      PROVE  OnCourse(d)'
  <2>1. Lucky(d)'
    BY <1>9 DEF Lucky
  <2> QED BY <1>7, <1>8, <2>1
<1> QED BY <1>4, <1>6, <1>9 DEF PromptInv
-----------------------------------------------------------------------------
LEMMA PromptInit == Init => PromptInv
<1> SUFFICES ASSUME Init PROVE PromptInv
  OBVIOUS
<1>1. PortsFit /\ KnownHaveChildren
  BY DEF Init, PortsFit, KnownHaveChildren
<1>2. \A c \in Clients : OnCourse(c)
  BY DEF Init, OnCourse
<1> QED BY <1>1, <1>2 DEF PromptInv

LEMMA PromptStutters ==
  ASSUME Inv, PromptInv, UNCHANGED vars
  PROVE  PromptInv'
<1> USE DEF vars, serverVars, clientVars
<1>1. \A k : ChildClient(k)' = ChildClient(k)
  BY DEF ChildClient
<1>2. \A c : OwnChildren(c)' = OwnChildren(c)
  BY DEF OwnChildren, ChildClient
<1>3. \A c : Lucky(c) => OnCourse(c)'
  BY <1>2, LuckyBefore, CourseKept
<1> QED BY <1>1, <1>3, PromptStep

LEMMA PromptNext ==
  ASSUME BigEndian, AddressesAgree, Inv, PromptInv, [Next]_vars
  PROVE  PromptInv'
BY PromptStartServer, PromptHandleRequest, PromptStartClient, PromptClient, PromptChild,
   PromptStutters DEF Next

(* Such a client is on its way through the handshake (client.c:66-200,     *)
(* server.c:124-288): its request, its child, the answer and the           *)
(* acknowledgement are each in one place.                                  *)
THEOREM PromptOnCourse ==
  ASSUME BigEndian, AddressesAgree
  PROVE  Spec => []PromptInv
<1>1. Inv /\ PromptInv /\ [Next]_vars => PromptInv'
  BY PromptNext
<1> QED BY <1>1, PromptInit, RendezvousInv, PTL DEF Spec

(* If the network is prompt, a client with a name of its own, whose        *)
(* datagrams arrive as far as it cannot repeat them, is served: neither it *)
(* nor its child runs into a time limit (client.c:98-139,                  *)
(* server.c:226-258), whatever befalls the others.  A child's socket must  *)
(* be where its client looks for it (server.c:155-199), and numbers must   *)
(* survive the conversions of the port (server.c:222, client.c:188).       *)
THEOREM PromptHandshakes ==
  ASSUME BigEndian, AddressesAgree
  PROVE  Spec => []PromptHandshake
<1>1. Inv /\ PromptInv => PromptHandshake
  <2> SUFFICES ASSUME Inv, PromptInv, prompt, NEW c \in Clients \ unlucky, Alone(c)
               PROVE  /\ place[c] \notin Exited
                      /\ \A k \in OwnChildren(c) : children[k].place # "timedOut"
    BY DEF PromptHandshake
  <2>1. Lucky(c)
    BY DEF Lucky
  <2>2. place[c] \notin Exited
    BY <2>1, LuckyBefore DEF OnCourse, Exited
  <2>3. \A k \in OwnChildren(c) : children[k].place # "timedOut"
    BY <2>1, LuckyChild DEF OwnChildren
  <2> QED BY <2>2, <2>3
<1>2. Spec => []PromptInv
  BY PromptOnCourse
<1> QED BY <1>1, <1>2, RendezvousInv, PTL
-----------------------------------------------------------------------------
(***************************************************************************)
(* Where numbers do not survive the conversions of the port, the client    *)
(* reconnects to a port that no child has, and nothing is transferred.     *)
(***************************************************************************)
PeersSwapped == \A c \in Clients : peer[c] <= 0

(* With htons swapping bytes (three times in all, server.c:242,            *)
(* client.c:185-189) no child is ever told a window (server.c:262-266).    *)
THEOREM NoTransferIfSwapped ==
  ASSUME ~BigEndian
  PROVE  Spec => [](\A k \in DOMAIN children : children[k].window = 0)
<1>1. Init => PeersSwapped
  BY DEF Init, PeersSwapped
<1>2. Inv /\ PeersSwapped /\ [Next]_vars => PeersSwapped'
  <2> SUFFICES ASSUME Inv, PeersSwapped, [Next]_vars PROVE PeersSwapped'
    OBVIOUS
  <2>1. ASSUME NEW c \in Clients, ReadAnswer(c) PROVE PeersSwapped'
    <3>1. PICK k \in answers : peer' = [peer EXCEPT ![c] = htons(htons(htons(k)))]
      BY <2>1 DEF ReadAnswer
    <3>2. k \in Nat /\ htons(htons(htons(k))) = -k
      BY ChildrenTyped DEF Inv, TypeOK, htons
    <3> QED BY <3>1, <3>2 DEF Inv, TypeOK, PeersSwapped
  <2>2. ASSUME NEW c \in Clients, ReadError(c) PROVE PeersSwapped'
    BY <2>2 DEF ReadError, Inv, TypeOK, PeersSwapped
  <2>3. CASE UNCHANGED peer
    BY <2>3 DEF PeersSwapped
  <2>4. \/ UNCHANGED peer
        \/ \E c \in Clients : ReadAnswer(c) \/ ReadError(c)
    BY DEF Next, vars, StartServer, HandleRequest, StartClient, Client, Child, GiveUp,
           SendRequest, RequestTimeout, Acknowledge, RefuseAck, ClientDies, ChildFails,
           ChildAnswers, ChildReadsAck, ChildReadsOther, ChildTimeout, clientVars
  <2> QED BY <2>1, <2>2, <2>3, <2>4
<1>3. Inv /\ PeersSwapped => \A k \in DOMAIN children : children[k].window = 0
  <2> SUFFICES ASSUME Inv, PeersSwapped, NEW k \in DOMAIN children,
                      children[k].window # 0
               PROVE  FALSE
    OBVIOUS
  <2>1. PICK c \in Clients : Serves(k, c)
    BY DEF Inv, TransfersHaveClients
  <2>2. peer[c] = k /\ k \in 1 .. Len(children) /\ Len(children) \in Nat
    BY <2>1, ChildrenTyped DEF Serves, Inv
  <2> QED BY <2>2 DEF PeersSwapped
<1> QED BY <1>1, <1>2, <1>3, RendezvousInv, PTL DEF Spec
=============================================================================
