----------------------------- MODULE Rendezvous -----------------------------
(***************************************************************************)
(* How a client and a server child find each other: the main loop of the   *)
(* server with its table of known clients, the children it forks, up to    *)
(* the transfer, and the client from its first request to the handshake    *)
(* acknowledgement.  The client asks at the well-known port; the child     *)
(* binds a socket of its own, tells the client the port of that socket     *)
(* once, and waits a limited time for the acknowledgement, which is also   *)
(* sent once.                                                              *)
(*                                                                         *)
(* A child's number stands for the ephemeral port that its socket gets.    *)
(***************************************************************************)
EXTENDS Interfaces, FiniteSets

CONSTANTS
  Clients,          \* client processes, at whatever time they run
  Hosts,            \* the hosts that clients run on
  HostInterfaces,   \* the interfaces of each host
  Ports,            \* the ephemeral ports of a host
  ServerIP,         \* the address that client.in names
  WindowSize,       \* clientInput.receivingWindowSize of each client
  ServerInterfaces, \* the interfaces of the server's host
  TableSize,        \* entries of cInfo
  MaxRequests,      \* timeoutnum at which a client gives up
  SelectKeepsTimeout, \* whether select leaves its timeval alone (Solaris) or
                    \* stores the time that was left (Linux)
  BigEndian         \* whether htons and ntohs leave a number alone

ASSUME RendezvousAssumption ==
  /\ IsFiniteSet(Clients)
  /\ HostInterfaces \in [Hosts -> Seq(Interface)]
  /\ ServerInterfaces \in Seq(Interface)
  /\ ServerIP \in Address /\ Ports \subseteq Nat \ {0}
  /\ WindowSize \in [Clients -> Nat \ {0}]
  /\ TableSize \in Nat /\ MaxRequests \in Nat \ {0}
  /\ SelectKeepsTimeout \in BOOLEAN /\ BigEndian \in BOOLEAN

VARIABLES
  serverUp,   \* whether the server is running
  known,      \* the clients in cInfo, by address and port
  requests,   \* how many requests of each client wait at the well-known port
  children,   \* the children forked so far: client, place and client's window
  answers,    \* children whose answer is on its way to their client
  acks,       \* handshake acknowledgements, by sender and receiving child
  host,       \* the host each client runs on
  port,       \* the port its socket is bound to, 0 before it has one
  place,      \* where each client is
  timeoutnum, \* how often its Select ran out of time
  peer,       \* the port its socket was reconnected to, 0 for none
  refused,    \* clients whose datagram came back as an error
  prompt,     \* whether what is not lost arrives and is handled in 3 seconds
  unlucky     \* history: clients whose handshake suffered a loss, a failure or
              \* a stray datagram

serverVars == <<serverUp, known>>
clientVars == <<place, timeoutnum, peer>>
sockets == <<host, port>>
vars == <<serverVars, clientVars, sockets, requests, children, answers, acks, refused,
          prompt, unlucky>>

Exited == {"gaveUp", "died"}
Places == {"idle", "requesting", "waiting", "answered", "connected"} \cup Exited
ChildPlaces == {"forked", "awaiting", "transferring", "failed", "timedOut"}
ChildProcess == [client: Clients, place: ChildPlaces, window: Nat]

(* What a client's start-up chooses, and the name of its socket.           *)
Choice == [h \in Hosts |-> GetClientIPAddress(HostInterfaces[h], ServerIP)]
Endpoint(c) == [ip |-> Choice[host[c]].client, port |-> port[c]]
ServerAddress(c) == Choice[host[c]].server

(* htons and ntohs: -p stands for the port p with its bytes swapped.       *)
htons(number) == IF BigEndian THEN number ELSE -number

ServIpInfo == BindServerToUnicastInterfaces(ServerInterfaces)
ServerListensTo(c) == \E k \in DOMAIN ServIpInfo :
                        ServIpInfo[k].serverIp = ServerAddress(c)

(* What a prompt handshake cannot be expected to survive.                  *)
Mishap(c) == unlucky' = IF prompt THEN unlucky \cup {c} ELSE unlucky

ChildNumbers == 1 .. Cardinality(Clients) * MaxRequests

Init ==
  /\ serverUp \in BOOLEAN
  /\ known = {} /\ children = << >> /\ answers = {} /\ acks = {}
  /\ requests = [c \in Clients |-> 0]
  /\ host \in [Clients -> Hosts]
  /\ port = [c \in Clients |-> 0]
  /\ place = [c \in Clients |-> "idle"]
  /\ timeoutnum = [c \in Clients |-> 0]
  /\ peer = [c \in Clients |-> 0]
  /\ refused = {} /\ unlucky = {}
  /\ prompt \in BOOLEAN
-----------------------------------------------------------------------------
(***************************************************************************)
(* The server's main loop.                                                 *)
(***************************************************************************)
StartServer ==
  /\ ~serverUp
  /\ serverUp' = TRUE
  /\ UNCHANGED <<sockets, known, clientVars, requests, children, answers, acks, refused,
                 prompt, unlucky>>

(* Mutation: clients are told apart by their ports alone.                  *)
SamePortKnown(client) == \E entry \in known : entry.port = client.port

(* Mutation: every request is new.                                         *)
NeverRetransmitted(client) == FALSE

chkRequestRetransmitted(client) == client \in known

(* The first free entry, if there is one; no entry is ever freed.          *)
AddClientToKnownClientList(client) ==
  known' = IF Cardinality(known) < TableSize THEN known \cup {client} ELSE known

(* One turn of the loop: a request is read from any socket that has one,   *)
(* and a child is forked unless the client is known.                       *)
HandleRequest(c) ==
  /\ serverUp /\ requests[c] > 0
  /\ requests' = [requests EXCEPT ![c] = @ - 1]
  /\ \/ /\ chkRequestRetransmitted(Endpoint(c))
        /\ UNCHANGED <<known, children>>
     \/ /\ ~chkRequestRetransmitted(Endpoint(c))
        /\ AddClientToKnownClientList(Endpoint(c))
        /\ children' = Append(children,
                         [client |-> c, place |-> "forked", window |-> 0])
  /\ UNCHANGED <<sockets, serverUp, clientVars, answers, acks, refused, prompt, unlucky>>
-----------------------------------------------------------------------------
(***************************************************************************)
(* A child, from fork to HandleFileTransmission.                           *)
(***************************************************************************)
ChildClient(k) == children[k].client

(* Where its own socket is bound, and whom it connects that socket to.     *)
ChildAddresses == [h \in Hosts |-> ChildAddress(ServIpInfo, Choice[h].client)]
ChildIP(k) == ChildAddresses[host[ChildClient(k)]]
ChildPeer(k) == [ip |-> Endpoint(ChildClient(k)).ip,
                 port |-> htons(Endpoint(ChildClient(k)).port)]

ChildIn(k, where) == k \in DOMAIN children /\ children[k].place = where

(* fork, bind or getsockname fails.                                        *)
ChildFails(k) ==
  /\ ChildIn(k, "forked")
  /\ children' = [children EXCEPT ![k].place = "failed"]
  /\ Mishap(ChildClient(k))
  /\ UNCHANGED <<sockets, serverVars, clientVars, requests, answers, acks, refused, prompt>>

(* The new port is sent from the well-known one, once.                     *)
ChildAnswers(k) ==
  /\ ChildIn(k, "forked")
  /\ children' = [children EXCEPT ![k].place = "awaiting"]
  /\ \/ answers' = answers \cup {k} /\ UNCHANGED unlucky
     \/ UNCHANGED answers /\ Mishap(ChildClient(k))
  /\ UNCHANGED <<sockets, serverVars, clientVars, requests, acks, refused, prompt>>

(* Mutation: the children share a socket.                                  *)
AcksToAnybody(k) == acks

AcksTo(k) == {ack \in acks : ack.to = k}

(* The acknowledgement carries the client's window; the child connects to  *)
(* the client and starts the transfer.                                     *)
ChildReadsAck(k) ==
  /\ ChildIn(k, "awaiting")
  /\ \E ack \in AcksTo(k) :
       /\ acks' = acks \ {ack}
       /\ children' = [children EXCEPT ![k].place = "transferring",
                                      ![k].window = WindowSize[ack.from]]
  /\ UNCHANGED <<sockets, serverVars, clientVars, requests, answers, refused, prompt, unlucky>>

(* A datagram of another size, from anybody, as the socket is not connected*)
(* yet: it is counted, and the transfer started without a window.          *)
ChildReadsOther(k) ==
  /\ ChildIn(k, "awaiting")
  /\ children' = [children EXCEPT ![k].place = "transferring"]
  /\ Mishap(ChildClient(k))
  /\ UNCHANGED <<sockets, serverVars, clientVars, requests, answers, acks, refused, prompt>>

(* In three seconds whatever is on its way arrives, if the time is prompt. *)
AckComing(k) ==
  \/ \E ack \in acks : ack.to = k
  \/ \E c \in Clients :
       /\ Endpoint(c) = Endpoint(ChildClient(k))
       /\ \/ k \in answers /\ place[c] \in {"requesting", "waiting"}
          \/ place[c] = "answered" /\ peer[c] = k

ChildTimeout(k) ==
  /\ ChildIn(k, "awaiting")
  /\ prompt => ~AckComing(k)
  /\ children' = [children EXCEPT ![k].place = "timedOut"]
  /\ UNCHANGED <<sockets, serverVars, clientVars, requests, answers, acks, refused,
                 prompt, unlucky>>

Child(k) ==
  \/ ChildFails(k) \/ ChildAnswers(k) \/ ChildReadsAck(k)
  \/ ChildReadsOther(k) \/ ChildTimeout(k)
-----------------------------------------------------------------------------
(***************************************************************************)
(* A client, from its start to its threads.                                *)
(***************************************************************************)

(* bind: a port that an earlier client has given back may be given out     *)
(* again.                                                                  *)
StartClient(c) ==
  /\ place[c] = "idle"
  /\ \E p \in Ports :
       /\ \A d \in Clients \ {c} :
            host[d] = host[c] /\ port[d] = p => place[d] \in Exited
       /\ port' = [port EXCEPT ![c] = p]
  /\ place' = [place EXCEPT ![c] = "requesting"]
  /\ UNCHANGED <<serverVars, timeoutnum, peer, host, requests, children, answers,
                 acks, refused, prompt, unlucky>>

(* Mutation: one request more.                                             *)
OneMore(timeouts) == timeouts <= MaxRequests

KeepsTrying(timeouts) == timeouts < MaxRequests

GiveUp(c) ==
  /\ place[c] = "requesting" /\ ~KeepsTrying(timeoutnum[c])
  /\ place' = [place EXCEPT ![c] = "gaveUp"]
  /\ UNCHANGED <<sockets, serverVars, timeoutnum, peer, requests, children, answers, acks,
                 refused, prompt, unlucky>>

(* A lost request does no harm if there is time and occasion for another.  *)
SendRequest(c) ==
  /\ place[c] = "requesting" /\ KeepsTrying(timeoutnum[c])
  /\ place' = [place EXCEPT ![c] = "waiting"]
  /\ \/ /\ serverUp /\ ServerListensTo(c)
        /\ requests' = [requests EXCEPT ![c] = @ + 1]
        /\ UNCHANGED <<refused, unlucky>>
     \/ /\ ~(serverUp /\ ServerListensTo(c))
        /\ refused' = refused \cup {c} /\ Mishap(c)
        /\ UNCHANGED requests
     \/ /\ IF SelectKeepsTimeout /\ timeoutnum[c] + 1 < MaxRequests
           THEN UNCHANGED unlucky ELSE Mishap(c)
        /\ UNCHANGED <<requests, refused>>
  /\ UNCHANGED <<sockets, serverVars, timeoutnum, peer, children, answers, acks, prompt>>

AnswerComing(c) ==
  \/ requests[c] > 0
  \/ \E k \in DOMAIN children :
       /\ Endpoint(ChildClient(k)) = Endpoint(c)
       /\ ChildIn(k, "forked") \/ k \in answers

(* Mutation: the timeouts are not counted.                                 *)
ForgetTimeout(timeouts) == timeouts

CountTimeout(timeouts) == timeouts + 1

(* Select waits for three seconds; where it stores the time that was left  *)
(* it waits only once, and afterwards returns at once.                     *)
RequestTimeout(c) ==
  /\ place[c] = "waiting" /\ c \notin refused
  /\ (prompt /\ (SelectKeepsTimeout \/ timeoutnum[c] = 0)) => ~AnswerComing(c)
  /\ timeoutnum' = [timeoutnum EXCEPT ![c] = CountTimeout(@)]
  /\ place' = [place EXCEPT ![c] = "requesting"]
  /\ UNCHANGED <<sockets, serverVars, peer, requests, children, answers, acks, refused,
                 prompt, unlucky>>

(* The port goes through htons in the child, ntohs and htons in the client.*)
ReadAnswer(c) ==
  /\ place[c] = "waiting" /\ c \notin refused
  /\ \E k \in answers :
       /\ Endpoint(ChildClient(k)) = Endpoint(c)
       /\ answers' = answers \ {k}
       /\ peer' = [peer EXCEPT ![c] = htons(htons(htons(k)))]
  /\ place' = [place EXCEPT ![c] = "answered"]
  /\ UNCHANGED <<sockets, serverVars, timeoutnum, requests, children, acks, refused, prompt,
                 unlucky>>

(* recv fails; the message is printed and the structure, never filled in,  *)
(* used all the same.  Its port is taken to be nobody's.                   *)
ReadError(c) ==
  /\ place[c] = "waiting" /\ c \in refused
  /\ refused' = refused \ {c}
  /\ peer' = [peer EXCEPT ![c] = 0]
  /\ place' = [place EXCEPT ![c] = "answered"]
  /\ UNCHANGED <<sockets, serverVars, timeoutnum, requests, children, answers, acks, prompt,
                 unlucky>>

(* connect and Write: the acknowledgement is lost, or arrives at the socket*)
(* that has this address and port, if there is one.                        *)
Listening(c) ==
  {k \in DOMAIN children : peer[c] = k /\ ChildIP(k) \in {AnyAddress, ServerAddress(c)}}

Acknowledge(c) ==
  /\ place[c] = "answered"
  /\ place' = [place EXCEPT ![c] = "connected"]
  /\ \/ \E k \in Listening(c) :
          acks' = acks \cup {[from |-> c, to |-> k]} /\ UNCHANGED <<refused, unlucky>>
     \/ /\ Listening(c) = {}
        /\ refused' = refused \cup {c} /\ UNCHANGED <<acks, unlucky>>
     \/ Mishap(c) /\ UNCHANGED <<acks, refused>>
  /\ UNCHANGED <<sockets, serverVars, timeoutnum, peer, requests, children, answers, prompt>>

(* The acknowledgement finds its child gone.                               *)
RefuseAck(c) ==
  /\ \E ack \in acks :
       /\ ack.from = c /\ children[ack.to].place \in {"failed", "timedOut"}
       /\ acks' = acks \ {ack}
  /\ refused' = refused \cup {c}
  /\ UNCHANGED <<sockets, serverVars, clientVars, requests, children, answers, prompt, unlucky>>

(* The next Read of the main thread returns the error and ends the client. *)
ClientDies(c) ==
  /\ place[c] = "connected" /\ c \in refused
  /\ place' = [place EXCEPT ![c] = "died"]
  /\ UNCHANGED <<sockets, serverVars, timeoutnum, peer, requests, children, answers, acks,
                 refused, prompt, unlucky>>

Client(c) ==
  \/ GiveUp(c) \/ SendRequest(c) \/ RequestTimeout(c) \/ ReadAnswer(c)
  \/ ReadError(c) \/ Acknowledge(c) \/ RefuseAck(c) \/ ClientDies(c)
-----------------------------------------------------------------------------
Next ==
  \/ StartServer
  \/ \E c \in Clients : HandleRequest(c) \/ StartClient(c) \/ Client(c)
  \/ \E k \in DOMAIN children : Child(k)

Spec == Init /\ [][Next]_vars

(* Every process is scheduled and every time limit runs out in the end.    *)
FairSpec ==
  /\ Spec
  /\ WF_vars(\E c \in Clients : HandleRequest(c))
  /\ \A c \in Clients : WF_vars(Client(c))
  /\ \A k \in ChildNumbers : WF_vars(Child(k))
-----------------------------------------------------------------------------
TypeOK ==
  /\ serverUp \in BOOLEAN /\ prompt \in BOOLEAN
  /\ host \in [Clients -> Hosts] /\ port \in [Clients -> Ports \cup {0}]
  /\ known \subseteq {Endpoint(c) : c \in Clients} /\ Cardinality(known) <= TableSize
  /\ requests \in [Clients -> Nat]
  /\ children \in Seq(ChildProcess)
  /\ answers \subseteq DOMAIN children
  /\ acks \subseteq [from: Clients, to: DOMAIN children]
  /\ place \in [Clients -> Places]
  /\ timeoutnum \in [Clients -> 0 .. MaxRequests]
  /\ peer \in [Clients -> Int]
  /\ refused \subseteq Clients /\ unlucky \subseteq Clients

ChildrenOf(client) == {k \in DOMAIN children : Endpoint(ChildClient(k)) = client}

(* "In that case server must not create a child process" (server.c:133):   *)
(* however often a client repeats its request, one child is forked for it, *)
(* unless the table has no room for it.                                    *)
OneChildPerClient ==
  \A c \in Clients :
    \/ Cardinality(ChildrenOf(Endpoint(c))) <= 1
    \/ Endpoint(c) \notin known /\ Cardinality(known) = TableSize

(* A window that a child was told is that of the client it sends the file  *)
(* to, which has connected to this child and to no other.                  *)
TransferMeansConnected ==
  \A k \in DOMAIN children :
    children[k].window # 0 =>
      /\ children[k].place = "transferring"
      /\ \E c \in Clients :
           /\ ChildPeer(k) = Endpoint(c) /\ peer[c] = k /\ place[c] = "connected"
           /\ children[k].window = WindowSize[c]

(* Why these hold: what each process has done by the place it is in, and   *)
(* what is on its way between them.                                        *)
IdleIsFresh ==
  \A c \in Clients : place[c] = "idle" =>
    /\ requests[c] = 0 /\ peer[c] = 0
    /\ \A k \in DOMAIN children : ChildClient(k) # c

KnownHaveStarted ==
  /\ IsFiniteSet(known)
  /\ \A entry \in known : \E c \in Clients : place[c] # "idle" /\ entry = Endpoint(c)

ServedOnce ==
  \A j, k \in DOMAIN children :
    LET client == Endpoint(ChildClient(k))
        forgotten == client \notin known /\ Cardinality(known) = TableSize
    IN  /\ client \in known \/ forgotten
        /\ Endpoint(ChildClient(j)) = client => j = k \/ forgotten

PeerIsOwnChild ==
  \A c \in Clients :
    /\ peer[c] <= Len(children)
    /\ peer[c] \in DOMAIN children => ChildPeer(peer[c]) = Endpoint(c)

AcksFromConnected ==
  \A sent \in acks :
    /\ place[sent.from] = "connected" /\ peer[sent.from] = sent.to
    /\ sent.from \notin refused

RefusedFits == \A c \in refused : place[c] \in {"waiting", "connected", "died"}

WaitingHasTries == \A c \in Clients : place[c] = "waiting" => KeepsTrying(timeoutnum[c])

Serves(k, c) ==
  /\ place[c] = "connected" /\ peer[c] = k /\ children[k].window = WindowSize[c]
  /\ c \notin refused /\ \A sent \in acks : sent.from # c

TransfersHaveClients ==
  \A k \in DOMAIN children :
    children[k].window # 0 =>
      children[k].place = "transferring" /\ \E c \in Clients : Serves(k, c)

Inv ==
  /\ TypeOK /\ IdleIsFresh /\ KnownHaveStarted /\ ServedOnce /\ PeerIsOwnChild
  /\ AcksFromConnected /\ RefusedFits /\ WaitingHasTries /\ TransfersHaveClients

(* The name of a client is its own, and not that of an earlier client whose*)
(* port it was given: an entry of cInfo is never freed, so the server takes*)
(* a second client with the same name for the first, and does not serve it.*)
Alone(c) ==
  place[c] # "idle" => \A d \in Clients \ {c} : Endpoint(d) # Endpoint(c)

OwnChildren(c) == {k \in DOMAIN children : ChildClient(k) = c}

(* If everybody answers within the three seconds of both time limits, a    *)
(* client with a name of its own whose handshake no loss, failure or stray *)
(* datagram has disturbed does not give up, and its child does not wait in *)
(* vain, also when earlier requests were lost and whatever befalls others. *)
PromptHandshake ==
  prompt => \A c \in Clients \ unlucky :
              Alone(c) => /\ place[c] \notin Exited
                          /\ \A k \in OwnChildren(c) : children[k].place # "timedOut"

(* What a prompt handshake needs of the addresses: a child's socket at the *)
(* address that its client already uses for the server.                    *)
AddressesAgree == \A h \in Hosts : ChildAddresses[h] \in {AnyAddress, Choice[h].server}

(* Why it then holds: such a client's only request, its child, the answer  *)
(* and the acknowledgement are each in one place.                          *)
PortsFit == \A c \in Clients : place[c] = "idle" <=> port[c] = 0

KnownHaveChildren ==
  \A entry \in known : \E k \in DOMAIN children : entry = Endpoint(ChildClient(k))

NoChild(c) == OwnChildren(c) = {}
OnlyChild(c, k) == OwnChildren(c) = {k}

FullWait(c) == SelectKeepsTimeout \/ timeoutnum[c] = 0

OnCourse(c) ==
  \/ place[c] = "idle" /\ timeoutnum[c] = 0
  \/ /\ place[c] = "requesting" /\ FullWait(c) /\ KeepsTrying(timeoutnum[c])
     /\ requests[c] = 0 /\ NoChild(c)
  \/ /\ place[c] = "waiting" /\ FullWait(c) /\ c \notin refused
     /\ \/ /\ requests[c] = 0 /\ NoChild(c)
           /\ SelectKeepsTimeout /\ KeepsTrying(timeoutnum[c] + 1)
        \/ requests[c] = 1 /\ NoChild(c)
        \/ /\ requests[c] = 0
           /\ \E k \in DOMAIN children :
                /\ OnlyChild(c, k)
                /\ \/ children[k].place = "forked" /\ k \notin answers
                   \/ children[k].place = "awaiting" /\ k \in answers
  \/ /\ place[c] = "answered" /\ requests[c] = 0
     /\ \E k \in DOMAIN children :
          /\ OnlyChild(c, k) /\ peer[c] = k
          /\ children[k].place = "awaiting" /\ k \notin answers
  \/ /\ place[c] = "connected" /\ requests[c] = 0 /\ c \notin refused
     /\ \E k \in DOMAIN children :
          /\ OnlyChild(c, k) /\ peer[c] = k /\ k \notin answers
          /\ \/ children[k].place = "awaiting" /\ [from |-> c, to |-> k] \in acks
             \/ children[k].place = "transferring"

PromptInv ==
  /\ PortsFit /\ KnownHaveChildren
  /\ prompt => \A c \in Clients \ unlucky : Alone(c) => OnCourse(c)

(* Whatever host a client runs on (client.c:450-502), it asks from the     *)
(* address of the interface whose network has the longest prefix among     *)
(* those the server is in, the first such; from the loopback address if    *)
(* the server is on its own host; and failing both, from a default.        *)
ClientAddressIsRight ==
  \A c \in Clients :
    place[c] # "idle" =>
      RightAddress(HostInterfaces[host[c]], ServerIP, Endpoint(c).ip)

(* Nobody asks or waits for ever: every client that starts is connected or *)
(* ends, within its twelve requests, and every child starts the transfer   *)
(* or ends.                                                                *)
HandshakeEnds ==
  <>[] /\ \A c \in Clients : place[c] \in {"idle", "connected"} \cup Exited
       /\ \A k \in DOMAIN children : children[k].place \notin {"forked", "awaiting"}

(* "Dont reset all the other values [...] only reset the new port"         *)
(* (client.c:188): the port it was told is all a client needs to reach the *)
(* child's socket; the address it has already is right.                    *)
PortSuffices ==
  \A c \in Clients :
    place[c] = "answered" /\ peer[c] \in DOMAIN children => peer[c] \in Listening(c)
=============================================================================
