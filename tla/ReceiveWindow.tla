---------------------------- MODULE ReceiveWindow ----------------------------
(***************************************************************************)
(* The client during the transfer: the sliding window of slidingwindow.c,  *)
(* the main thread that fills it (ProducerMainThread) and the thread that  *)
(* drains it into the received file (ConsumerThread), both of client.c.    *)
(*                                                                         *)
(* The window is shared under the mutex syncWindowAccess, with one         *)
(* exception: after the last segment the producer releases the mutex and   *)
(* only then composes its final acknowledgement, while the consumer may be *)
(* half way through removing a segment.                                    *)
(***************************************************************************)
EXTENDS Segmentation, Messages, Sequences, FiniteSetsExt

CONSTANTS
  WindowSize,       \* clientInput.receivingWindowSize
  Datagrams,        \* what may reach the client's socket
  NoSegment,        \* content of a slot that is not in use
  FullWindowReturn, \* what SlidingWindowGetNextAckIndex yields on a full window
  SocketBuffer      \* bound: datagrams queued in one direction, more are lost

ASSUME WindowAssumption ==
  /\ WindowSize \in Nat \ {0}
  /\ Datagrams \subseteq ServerDatagram
  /\ NoSegment \notin Int
  /\ FullWindowReturn \in {"last", "next", "size"}
  /\ SocketBuffer \in Nat \ {0}

VARIABLES
  slots,        \* slidingWindow: slots[j] is the segment held, or NoSegment
  currentIndex, \* the next segment the consumer will remove
  mutex,        \* owner of syncWindowAccess: "free" or "consumer"
  producer,     \* where the main thread is
  segment,      \* the data segment the main thread is processing
  lastack,      \* 1 once the producer has seen every segment
  request,      \* currentRequest of the final acknowledgement being composed
  consumer,     \* where the consumer thread is
  isWindowFull, \* the consumer found the window full when it took the mutex
  fetched,      \* the segment the consumer has just copied out of its slot
  count,        \* segments written by the consumer
  written,      \* what was written, in order
  toClient,     \* data datagrams queued on the client's socket
  toServer,     \* acknowledgements on their way to the server child
  advertised    \* history: the window that the latest acknowledgement was to
                \* announce, whether or not it was then lost

producerVars == <<producer, segment, lastack, request>>
consumerVars == <<consumer, isWindowFull, fetched, count, written>>
vars == <<slots, currentIndex, mutex, producerVars, consumerVars,
          toClient, toServer, advertised>>

SlotNumbers == 0 .. WindowSize - 1
-----------------------------------------------------------------------------
(***************************************************************************)
(* slidingwindow.c                                                         *)
(***************************************************************************)
SlotOf(number) == number % WindowSize

(* SlidingWindowGetNextAckIndex has no return statement after its loop, so *)
(* on a full window its value is whatever the build leaves in the return   *)
(* register: the index that the loop tested last ("last"), the index after *)
(* it ("next", the value the callers rely on) or the loop's bound ("size").*)
(* Mutation: the first index tested.                                       *)
FallOffFirstTested(index) == index

FallOffReturn(index) ==
  CASE FullWindowReturn = "last" -> index + WindowSize - 1
    [] FullWindowReturn = "next" -> index + WindowSize
    [] FullWindowReturn = "size" -> WindowSize

(* Mutation: counts the slots in use instead of finding the first hole.    *)
CountOfHeld(window, index) ==
  index + Cardinality({j \in SlotNumbers : window[j] # NoSegment})

(* The first segment, counted from index, whose slot is not in use.        *)
NextAckIndex(window, index) ==
  LET free == {i \in SlotNumbers : window[SlotOf(index + i)] = NoSegment}
  IN  IF free = {} THEN FallOffReturn(index) ELSE index + Min(free)

(* Mutation: the size of the window, used or not.                          *)
WholeWindow(window, index) == WindowSize

(* Mutation: measured from the beginning of the file.                      *)
WindowFromStart(window, index) == WindowSize - NextAckIndex(window, index)

AvailableWindowSize(window, index) ==
  WindowSize + index - NextAckIndex(window, index)

(* Mutation: neither test is made.                                         *)
AddAnySegment(window, index, number) ==
  [window EXCEPT ![SlotOf(number)] = number]

(* A segment outside the window, or one already held, changes nothing.     *)
AddSegmentToWindow(window, index, number) ==
  IF /\ number - index \in SlotNumbers
     /\ window[SlotOf(number)] = NoSegment
  THEN [window EXCEPT ![SlotOf(number)] = number]
  ELSE window

NextSlotInUse == slots[SlotOf(currentIndex)] # NoSegment
-----------------------------------------------------------------------------
(* SendClientAckWithLoss: the acknowledgement may be dropped on purpose or *)
(* by a full socket buffer.  htonl (client.c:241-242) is the identity here,*)
(* since the child uses both words as they come (server.c:424-498): on a   *)
(* host where it is not, no transfer takes place, see NoTransferIfSwapped  *)
(* in RendezvousProofs.                                                    *)
SendClientAckWithLoss(currentRequest, advtWindow, last) ==
  /\ advertised' = advtWindow
  /\ \/ UNCHANGED toServer
     \/ /\ Len(toServer) < SocketBuffer
        /\ toServer' = Append(toServer, [currentRequest |-> currentRequest,
                                         advtWindow |-> advtWindow,
                                         lastack_sent |-> last])

Init ==
  /\ slots = [j \in SlotNumbers |-> NoSegment]
  /\ currentIndex = 0
  /\ mutex = "free"
  /\ producer = "reading" /\ segment = NoSegment
  /\ lastack = 0 /\ request = 0
  /\ consumer = "idle" /\ isWindowFull = FALSE /\ fetched = NoSegment
  /\ count = 0 /\ written = << >>
  /\ toClient = << >> /\ toServer = << >>
  /\ advertised = WindowSize
-----------------------------------------------------------------------------
(***************************************************************************)
(* ProducerMainThread                                                      *)
(***************************************************************************)

(* A datagram is read and forgotten: it has not the size of a segment, or  *)
(* ShouldSimulatePacketLoss says so.                                       *)
DiscardSegment ==
  /\ producer = "reading"
  /\ toClient # << >>
  /\ toClient' = Tail(toClient)
  /\ UNCHANGED <<slots, currentIndex, mutex, producerVars, consumerVars,
                 toServer, advertised>>

(* A segment is read and kept; the thread now waits for the mutex.         *)
ReadSegment ==
  /\ producer = "reading"
  /\ toClient # << >>
  /\ Head(toClient).kind = "segment"
  /\ segment' = Head(toClient).number
  /\ toClient' = Tail(toClient)
  /\ producer' = "received"
  /\ UNCHANGED <<slots, currentIndex, mutex, lastack, request, consumerVars,
                 toServer, advertised>>

(* Mutations of the next test: one segment too late, one too early.        *)
AskedPastEnd(window) == NextAckIndex(window, currentIndex) > SegmentCount
AskedForLast(window) == NextAckIndex(window, currentIndex) >= SegmentCount - 1

(* Nothing of the file is missing any more.                                *)
AskedForAll(window) == NextAckIndex(window, currentIndex) >= SegmentCount

(* The critical section of the loop: store the segment, acknowledge, and   *)
(* leave the loop once the next segment asked for lies past the file.      *)
StoreSegment ==
  /\ producer = "received"
  /\ mutex = "free"
  /\ slots' = AddSegmentToWindow(slots, currentIndex, segment)
  /\ SendClientAckWithLoss(NextAckIndex(slots', currentIndex),
                           AvailableWindowSize(slots', currentIndex), lastack)
  /\ IF AskedForAll(slots')
     THEN lastack' = 1 /\ producer' = "unlocked"
     ELSE lastack' = lastack /\ producer' = "reading"
  /\ segment' = NoSegment
  /\ UNCHANGED <<currentIndex, mutex, request, consumerVars, toClient>>

(* The final acknowledgement is composed without the mutex.  Its two reads *)
(* of the window are two steps, the consumer may run between them.         *)
DropLastAck ==
  /\ producer = "unlocked"
  /\ producer' = "returned"
  /\ UNCHANGED <<slots, currentIndex, mutex, segment, lastack, request,
                 consumerVars, toClient, toServer, advertised>>

ComposeLastAck ==
  /\ producer = "unlocked"
  /\ request' = NextAckIndex(slots, currentIndex)
  /\ producer' = "composing"
  /\ UNCHANGED <<slots, currentIndex, mutex, segment, lastack, consumerVars,
                 toClient, toServer, advertised>>

SendLastAck ==
  /\ producer = "composing"
  /\ SendClientAckWithLoss(request, AvailableWindowSize(slots, currentIndex),
                           lastack)
  /\ producer' = "returned"
  /\ UNCHANGED <<slots, currentIndex, mutex, segment, lastack, request,
                 consumerVars, toClient>>
-----------------------------------------------------------------------------
(***************************************************************************)
(* ConsumerThread                                                          *)
(***************************************************************************)
(* Mutation: full one segment early.                                       *)
WindowNearlyFull == AvailableWindowSize(slots, currentIndex) = 1

(* Mutation: one segment too few.                                          *)
AllButOneWritten == count >= SegmentCount - 1

(* The condition that ends the loop of ConsumerThread.                     *)
AllWritten == count >= SegmentCount

WindowIsFull == AvailableWindowSize(slots, currentIndex) = 0

LockWindow ==
  /\ consumer = "idle"
  /\ ~AllWritten
  /\ mutex = "free"
  /\ mutex' = "consumer"
  /\ isWindowFull' = WindowIsFull
  /\ consumer' = "fetching"
  /\ UNCHANGED <<slots, currentIndex, producerVars, fetched, count, written,
                 toClient, toServer, advertised>>

(* First half of SlidingWindowFetchAndRemoveSegmentFromWindow: copy the    *)
(* segment and free its slot.                                              *)
FreeSlot ==
  /\ consumer = "fetching"
  /\ NextSlotInUse
  /\ fetched' = slots[SlotOf(currentIndex)]
  /\ slots' = [slots EXCEPT ![SlotOf(currentIndex)] = NoSegment]
  /\ consumer' = "freed"
  /\ UNCHANGED <<currentIndex, mutex, producerVars, isWindowFull, count,
                 written, toClient, toServer, advertised>>

(* Mutation: the last segment is numbered as if counting began at 1.       *)
BytesToWriteOffByOne ==
  IF count = SegmentCount THEN FileLength % SegmentDataSize
                          ELSE SegmentDataSize

(* How many bytes of the segment are written: the client decides by its    *)
(* own count of segments, not by the number in the segment.                *)
BytesToWrite ==
  IF count = SegmentCount - 1 THEN FileLength % SegmentDataSize
                              ELSE SegmentDataSize

(* Second half: advance currentIndex; then the consumer writes the segment.*)
WriteSegment ==
  /\ consumer = "freed"
  /\ currentIndex' = currentIndex + 1
  /\ written' = Append(written, [segment |-> fetched, bytes |-> BytesToWrite])
  /\ count' = count + 1
  /\ fetched' = NoSegment
  /\ consumer' = "fetching"
  /\ UNCHANGED <<slots, mutex, producerVars, isWindowFull,
                 toClient, toServer, advertised>>

(* The consumer owes an acknowledgement when it releases the window.       *)
ReopensWindow == isWindowFull /\ NextAckIndex(slots, currentIndex) < SegmentCount

(* Nothing more to fetch: reopen a window that was full, release it.       *)
UnlockWindow ==
  /\ consumer = "fetching"
  /\ ~NextSlotInUse
  /\ IF ReopensWindow
     THEN SendClientAckWithLoss(NextAckIndex(slots, currentIndex),
                                AvailableWindowSize(slots, currentIndex),
                                lastack)
     ELSE UNCHANGED <<toServer, advertised>>
  /\ mutex' = "free"
  /\ consumer' = "idle"
  /\ UNCHANGED <<slots, currentIndex, producerVars, isWindowFull, fetched,
                 count, written, toClient>>

(* The loop ends; the thread goes on to ActiveClose.                       *)
EndConsumerLoop ==
  /\ consumer = "idle"
  /\ AllWritten
  /\ consumer' = "closing"
  /\ UNCHANGED <<slots, currentIndex, mutex, producerVars, isWindowFull,
                 fetched, count, written, toClient, toServer, advertised>>
-----------------------------------------------------------------------------
(***************************************************************************)
(* The peer and the network, as much of them as the client can tell.       *)
(***************************************************************************)
NetworkDelivers(datagram) ==
  /\ Len(toClient) < SocketBuffer
  /\ toClient' = Append(toClient, datagram)
  /\ UNCHANGED <<slots, currentIndex, mutex, producerVars, consumerVars,
                 toServer, advertised>>

NetworkTakesAck ==
  /\ toServer # << >>
  /\ toServer' = Tail(toServer)
  /\ UNCHANGED <<slots, currentIndex, mutex, producerVars, consumerVars,
                 toClient, advertised>>

Producer ==
  StoreSegment \/ DropLastAck \/ ComposeLastAck \/ SendLastAck

Consumer ==
  LockWindow \/ FreeSlot \/ WriteSegment \/ UnlockWindow \/ EndConsumerLoop

Network ==
  (\E datagram \in Datagrams : NetworkDelivers(datagram)) \/ NetworkTakesAck

Next == Producer \/ ReadSegment \/ DiscardSegment \/ Consumer \/ Network

Spec == Init /\ [][Next]_vars

(* Both threads are scheduled, and each gets the mutex, which the consumer *)
(* leaves free while it sleeps; the producer reads whatever is queued.  The*)
(* loss probability is below one, so a segment that is sent again and again*)
(* is at some point kept.                                                  *)
Fairness ==
  /\ WF_vars(Consumer)
  /\ WF_vars(ReadSegment \/ DiscardSegment)
  /\ SF_vars(LockWindow)
  /\ SF_vars(Producer)
  /\ \A datagram \in {d \in Datagrams : d.number \in FileSegments} :
       /\ SF_vars(NetworkDelivers(datagram))
       /\ SF_vars(ReadSegment /\ segment' = datagram.number)

FairSpec == Spec /\ Fairness
-----------------------------------------------------------------------------
TypeOK ==
  /\ slots \in [SlotNumbers -> Int \cup {NoSegment}]
  /\ currentIndex \in Nat
  /\ mutex \in {"free", "consumer"}
  /\ producer \in {"reading", "received", "unlocked", "composing", "returned"}
  /\ segment \in Int \cup {NoSegment}
  /\ lastack \in {0, 1}
  /\ request \in Int
  /\ consumer \in {"idle", "fetching", "freed", "closing"}
  /\ isWindowFull \in BOOLEAN
  /\ fetched \in Int \cup {NoSegment}
  /\ count \in Nat
  /\ written \in Seq([segment: Int, bytes: Nat])
  /\ toClient \in Seq(ServerDatagram)
  /\ toServer \in Seq(ClientAck)
  /\ advertised \in Int

(* A used slot j holds a segment of the current window whose number is j   *)
(* modulo the window size; the slot of a segment being removed is free.    *)
SlotsHoldWindow ==
  /\ \A j \in SlotNumbers : slots[j] # NoSegment =>
       /\ slots[j] - currentIndex \in SlotNumbers
       /\ SlotOf(slots[j]) = j
  /\ consumer = "freed" => /\ fetched = currentIndex
                           /\ slots[SlotOf(currentIndex)] = NoSegment

(* ConsumerThread writes the segments 0, 1, 2, ... in that order, each     *)
(* once, whatever was lost, duplicated or reordered on the way.            *)
WrittenInOrder ==
  /\ Len(written) = count
  /\ \A i \in 1 .. Len(written) : written[i].segment = i - 1

(* A segment the client holds: written, being written, or in its slot.     *)
Holds(number) ==
  \/ number < count
  \/ consumer = "freed" /\ number = currentIndex
  \/ \E j \in SlotNumbers : slots[j] = number

(* The acknowledgements that a step sends.                                 *)
ClientAcksSent ==
  {toServer'[k] : k \in Len(toServer) + 1 .. Len(toServer')}

(* An acknowledgement is cumulative: when the server reads currentRequest  *)
(* the client holds every segment before it.  The server never sends those *)
(* again, so one that was not held would be lost for good.                 *)
AcksAreCumulative ==
  \A k \in 1 .. Len(toServer) :
    \A number \in 0 .. toServer[k].currentRequest - 1 : Holds(number)

(* Except for the final one, an acknowledgement never invites a segment    *)
(* for which the window, by the time it arrives, has no place.             *)
CreditWithinWindow ==
  \A k \in 1 .. Len(toServer) : toServer[k].lastack_sent = 0 =>
    toServer[k].currentRequest + toServer[k].advtWindow
      <= currentIndex + WindowSize

(* The producer leaves its loop ("Client received all the segments") and   *)
(* announces lastack only when every segment of the file is held.          *)
LastAckMeansAllHeld ==
  producer \notin {"reading", "received"} =>
    \A number \in FileSegments : Holds(number)

(* If the window announced last was 0, lost on its way or not, either the  *)
(* window is still full (the consumer will reopen it) or nothing is        *)
(* missing: the consumer never drains a full window without announcing the *)
(* space.  Only a build where a full window asks for the segment after it  *)
(* announces a window of 0.                                                *)
ZeroWindowIsReopened ==
  (mutex = "free" /\ lastack = 0 /\ advertised = 0) =>
    \/ \A j \in SlotNumbers : slots[j] # NoSegment
    \/ \A number \in FileSegments : Holds(number)

(* In the order in which they are sent, the data acknowledgements never go *)
(* back in what they ask for, although two threads send them.  (UDP may    *)
(* still reorder them on the way.)                                         *)
AcksNeverGoBack ==
  \A j, k \in 1 .. Len(toServer) :
    (j < k /\ toServer[k].lastack_sent = 0) =>
      toServer[j].currentRequest <= toServer[k].currentRequest

(* Who owns the mutex, and what a thread's place says of its variables.     *)
ThreadsConsistent ==
  /\ mutex = "consumer" <=> consumer \in {"fetching", "freed"}
  /\ producer = "received" => segment \in Int
  /\ count = currentIndex

(* The inductive invariant: the window's contents only follow from each    *)
(* other together with the places of the two threads.                      *)
Inv ==
  /\ TypeOK
  /\ ThreadsConsistent
  /\ SlotsHoldWindow
  /\ WrittenInOrder

(* The child may send from beyond its table (server.c:393), and the client *)
(* writes what it gets; but up to the length of the file, what its two     *)
(* threads write is the file in order, segment by segment.                 *)
FilePart ==
  IF Len(written) <= SegmentCount THEN written ELSE SubSeq(written, 1, SegmentCount)
Delivery == INSTANCE InOrderDelivery WITH written <- FilePart
DeliverySpec == Delivery!Spec

(* Every segment of the file is written with all the bytes that it has     *)
(* ("Size of the file that server will send", utility.h).                  *)
WholeSegmentsWritten ==
  \A k \in 1 .. Len(written) : k <= SegmentCount =>
    written[k].bytes = BytesOfFileIn(k - 1)

(* A slot in use keeps its segment until the consumer takes exactly that   *)
(* segment, which is then the next one to be written.                      *)
SlotsNotOverwritten ==
  [][\A j \in SlotNumbers : (slots[j] # NoSegment /\ slots'[j] # slots[j]) =>
       slots'[j] = NoSegment /\ fetched' = slots[j] /\ slots[j] = count]_vars

(* An acknowledgement sent during the transfer asks for a segment that the *)
(* client does not have ("What does client need", utility.h).              *)
AcksAskForMissing ==
  [][\A ack \in ClientAcksSent : ack.lastack_sent = 0 =>
       ~Holds(ack.currentRequest)']_vars

(* It does so as long as the window has a hole, in whatever order segments *)
(* were stored and fetched; a full window depends on the build.            *)
OpenWindowAsksForMissing ==
  [][\A ack \in ClientAcksSent :
       ack.lastack_sent = 0 /\ (\E j \in SlotNumbers : slots'[j] = NoSegment) =>
         ~Holds(ack.currentRequest)']_vars

(* When segments keep coming, both threads finish: the whole file is       *)
(* written and the main thread comes back from ProducerMainThread.         *)
BothThreadsFinish == <>(consumer = "closing" /\ producer = "returned")
=============================================================================
