------------------------- MODULE ReceiveWindowProofs -------------------------
(***************************************************************************)
(* Theorems about the client's receive window, for every file, window      *)
(* size, set of arriving segment numbers and full-window return value.     *)
(***************************************************************************)
EXTENDS ReceiveWindow, WellFoundedInduction, SequenceTheorems, TLAPS

(***************************************************************************)
(* Arithmetic of the slots.                                                *)
(***************************************************************************)
LEMMA SlotInRange ==
  ASSUME NEW n \in Int
  PROVE  SlotOf(n) \in SlotNumbers
BY WindowAssumption DEF SlotOf, SlotNumbers

LEMMA DivMod ==
  ASSUME NEW n \in Int
  PROVE  /\ n \div WindowSize \in Int
         /\ n = WindowSize * (n \div WindowSize) + SlotOf(n)
BY WindowAssumption DEF SlotOf

(* Two segments of the same window that share a slot are the same segment. *)
LEMMA SlotsAreUnique ==
  ASSUME NEW a \in Int, NEW b \in Int, NEW c \in Int,
         a - c \in SlotNumbers, b - c \in SlotNumbers, SlotOf(a) = SlotOf(b)
  PROVE  a = b
<1> DEFINE p == a \div WindowSize
           q == b \div WindowSize
<1>1. /\ p \in Int /\ a = WindowSize * p + SlotOf(a)
      /\ q \in Int /\ b = WindowSize * q + SlotOf(b)
  BY DivMod
<1>2. /\ SlotOf(a) \in Int /\ WindowSize \in Nat \ {0}
      /\ a - b < WindowSize /\ b - a < WindowSize
  BY SlotInRange, WindowAssumption DEF SlotNumbers
<1> HIDE DEF p, q
<1>3. a - b = WindowSize * (p - q)
  BY <1>1, <1>2
<1>4. p = q
  <2>1. CASE p - q >= 1
    <3>1. WindowSize * (p - q) >= WindowSize
      BY <2>1, <1>1, <1>2
    <3> QED BY <3>1, <1>2, <1>3
  <2>2. CASE q - p >= 1
    <3>1. WindowSize * (q - p) >= WindowSize
      BY <2>2, <1>1, <1>2
    <3>2. b - a = WindowSize * (q - p)
      BY <1>1, <1>2
    <3> QED BY <3>1, <3>2, <1>2
  <2> QED BY <2>1, <2>2, <1>1
<1> QED BY <1>1, <1>4

(* The minimum of a non-empty set of numbers is one of them, and a bound.  *)
LEMMA MinOfNats ==
  ASSUME NEW S \in SUBSET Nat, S # {}
  PROVE  Min(S) \in S /\ \A y \in S : Min(S) <= y
<1>1. PICK x \in S : \A y \in S : ~(<<y, x>> \in OpToRel(<, Nat))
  BY NatLessThanWellFounded, WFMin
<1>2. ASSUME NEW y \in S  PROVE x <= y
  <2>1. x \in Nat /\ y \in Nat
    OBVIOUS
  <2>2. y < x => <<y, x>> \in OpToRel(<, Nat)
    BY <2>1 DEF OpToRel
  <2>3. ~(y < x)
    BY <1>1, <2>2, Zenon
  <2> QED BY <2>1, <2>3
<1> QED BY <1>2 DEF Min

(* What SlidingWindowGetNextAckIndex returns: a number such that all the   *)
(* slots from index up to it are in use.                                   *)
LEMMA NextAckIndexType ==
  ASSUME NEW window, NEW index \in Int
  PROVE  /\ NextAckIndex(window, index) \in Int
         /\ AvailableWindowSize(window, index) \in Int
<1> DEFINE free == {i \in SlotNumbers : window[SlotOf(index + i)] = NoSegment}
<1>1. free \in SUBSET Nat
  BY WindowAssumption DEF SlotNumbers
<1>2. CASE free = {}
  BY <1>2, WindowAssumption DEF NextAckIndex, AvailableWindowSize, FallOffReturn
<1>3. CASE free # {}
  <2>1. Min(free) \in Int
    BY <1>1, <1>3, MinOfNats
  <2> QED
    BY <1>3, <2>1, WindowAssumption DEF NextAckIndex, AvailableWindowSize
<1> QED BY <1>2, <1>3
-----------------------------------------------------------------------------
(***************************************************************************)
(* The inductive invariant Inv, one lemma per thread.                      *)
(***************************************************************************)
LEMMA WindowTyped ==
  ASSUME NEW window \in [SlotNumbers -> Int \cup {NoSegment}],
         NEW index \in Int, NEW number \in Int
  PROVE  /\ AddSegmentToWindow(window, index, number)
               \in [SlotNumbers -> Int \cup {NoSegment}]
         /\ \A j \in SlotNumbers :
              LET after == AddSegmentToWindow(window, index, number)
              IN  after[j] # window[j] =>
                    /\ window[j] = NoSegment /\ after[j] = number
                    /\ number - index \in SlotNumbers /\ j = SlotOf(number)
BY SlotInRange DEF AddSegmentToWindow

LEMMA AckTyped ==
  ASSUME NEW r \in Int, NEW w \in Int, NEW l \in {0, 1},
         toServer \in Seq(ClientAck), SendClientAckWithLoss(r, w, l)
  PROVE  toServer' \in Seq(ClientAck) /\ advertised' \in Int
<1> DEFINE ack == [currentRequest |-> r, advtWindow |-> w, lastack_sent |-> l]
<1>1. ack \in ClientAck
  BY DEF ClientAck
<1>2. Append(toServer, ack) \in Seq(ClientAck)
  BY <1>1, AppendProperties
<1> QED BY <1>2 DEF SendClientAckWithLoss

LEMMA InvInit == Init => Inv
<1> SUFFICES ASSUME Init PROVE Inv
  OBVIOUS
<1> USE WindowAssumption DEF Init
<1>1. TypeOK
  <2>1. /\ written \in Seq([segment: Int, bytes: Nat])
        /\ toClient \in Seq(ServerDatagram) /\ toServer \in Seq(ClientAck)
    BY EmptySeq
  <2>2. slots \in [SlotNumbers -> Int \cup {NoSegment}]
    OBVIOUS
  <2> QED BY <2>1, <2>2 DEF TypeOK
<1>2. ThreadsConsistent
  BY DEF ThreadsConsistent
<1>3. SlotsHoldWindow
  BY DEF SlotsHoldWindow, SlotNumbers
<1>4. WrittenInOrder
  BY DEF WrittenInOrder
<1> QED BY <1>1, <1>2, <1>3, <1>4 DEF Inv

(* NextAckIndex and AvailableWindowSize of the window after a step.        *)
LEMMA AckOfWindowTyped ==
  ASSUME NEW window, NEW index \in Int, NEW l \in {0, 1},
         toServer \in Seq(ClientAck),
         SendClientAckWithLoss(NextAckIndex(window, index),
                               AvailableWindowSize(window, index), l)
  PROVE  toServer' \in Seq(ClientAck) /\ advertised' \in Int
BY NextAckIndexType, AckTyped

LEMMA InvReading ==
  ASSUME Inv, DiscardSegment \/ ReadSegment
  PROVE  Inv'
<1> USE DEF Inv, producerVars, consumerVars
<1>1. /\ Tail(toClient) \in Seq(ServerDatagram)
      /\ Head(toClient) \in ServerDatagram
  BY HeadTailProperties DEF DiscardSegment, ReadSegment, TypeOK
<1>. Head(toClient).number \in Int
  BY <1>1 DEF ServerDatagram
<1>2. CASE DiscardSegment
  <2>1. TypeOK'
    BY <1>1, <1>2 DEF TypeOK, DiscardSegment
  <2>2. ThreadsConsistent'
    BY <1>2 DEF ThreadsConsistent, DiscardSegment
  <2>3. SlotsHoldWindow' /\ WrittenInOrder'
    BY <1>2 DEF SlotsHoldWindow, WrittenInOrder, DiscardSegment
  <2> QED BY <2>1, <2>2, <2>3
<1>3. CASE ReadSegment
  <2>1. TypeOK'
    BY <1>1, <1>3 DEF TypeOK, ReadSegment
  <2>2. ThreadsConsistent'
    BY <1>1, <1>3 DEF ThreadsConsistent, ReadSegment
  <2>3. SlotsHoldWindow' /\ WrittenInOrder'
    BY <1>3 DEF SlotsHoldWindow, WrittenInOrder, ReadSegment
  <2> QED BY <2>1, <2>2, <2>3
<1> QED BY <1>2, <1>3

LEMMA InvStoreSegment ==
  ASSUME Inv, StoreSegment
  PROVE  Inv'
<1> USE DEF Inv, consumerVars
<1>1. /\ segment \in Int /\ currentIndex \in Int
      /\ slots \in [SlotNumbers -> Int \cup {NoSegment}]
  BY DEF StoreSegment, TypeOK, ThreadsConsistent
<1>2. /\ slots' \in [SlotNumbers -> Int \cup {NoSegment}]
      /\ \A j \in SlotNumbers : slots'[j] # slots[j] =>
            /\ slots[j] = NoSegment /\ slots'[j] = segment
            /\ segment - currentIndex \in SlotNumbers /\ j = SlotOf(segment)
  BY <1>1, WindowTyped DEF StoreSegment
<1>3. toServer' \in Seq(ClientAck) /\ advertised' \in Int
  BY <1>1, AckOfWindowTyped DEF StoreSegment, TypeOK
<1>4. TypeOK'
  BY <1>2, <1>3 DEF TypeOK, StoreSegment
<1>5. ThreadsConsistent'
  BY DEF ThreadsConsistent, StoreSegment
<1>6. SlotsHoldWindow'
  <2>1. consumer # "freed"
    BY DEF StoreSegment, ThreadsConsistent, TypeOK
  <2>2. ASSUME NEW j \in SlotNumbers, slots'[j] # NoSegment
        PROVE  slots'[j] - currentIndex \in SlotNumbers /\ SlotOf(slots'[j]) = j
    <3>1. CASE slots'[j] = slots[j]
      BY <2>2, <3>1 DEF SlotsHoldWindow
    <3>2. CASE slots'[j] # slots[j]
      BY <3>2, <1>2
    <3> QED BY <3>1, <3>2
  <2> QED BY <2>1, <2>2 DEF SlotsHoldWindow, StoreSegment
<1>7. WrittenInOrder'
  BY DEF WrittenInOrder, StoreSegment
<1> QED BY <1>4, <1>5, <1>6, <1>7

LEMMA InvLastAck ==
  ASSUME Inv, DropLastAck \/ ComposeLastAck \/ SendLastAck
  PROVE  Inv'
<1> USE DEF Inv, consumerVars
<1>1. currentIndex \in Int /\ request \in Int /\ lastack \in {0, 1}
      /\ toServer \in Seq(ClientAck)
  BY DEF TypeOK
<1>2. CASE DropLastAck
  <2>1. TypeOK' /\ ThreadsConsistent'
    BY <1>2 DEF TypeOK, ThreadsConsistent, DropLastAck
  <2>2. SlotsHoldWindow' /\ WrittenInOrder'
    BY <1>2 DEF SlotsHoldWindow, WrittenInOrder, DropLastAck
  <2> QED BY <2>1, <2>2
<1>3. CASE ComposeLastAck
  <2>1. request' \in Int
    BY <1>1, <1>3, NextAckIndexType DEF ComposeLastAck
  <2>2. TypeOK' /\ ThreadsConsistent'
    BY <1>3, <2>1 DEF TypeOK, ThreadsConsistent, ComposeLastAck
  <2>3. SlotsHoldWindow' /\ WrittenInOrder'
    BY <1>3 DEF SlotsHoldWindow, WrittenInOrder, ComposeLastAck
  <2> QED BY <2>2, <2>3
<1>4. CASE SendLastAck
  <2>1. AvailableWindowSize(slots, currentIndex) \in Int
    BY <1>1, NextAckIndexType
  <2>2. toServer' \in Seq(ClientAck) /\ advertised' \in Int
    BY <1>1, <1>4, <2>1, AckTyped DEF SendLastAck
  <2>3. TypeOK' /\ ThreadsConsistent'
    BY <1>4, <2>2 DEF TypeOK, ThreadsConsistent, SendLastAck
  <2>4. SlotsHoldWindow' /\ WrittenInOrder'
    BY <1>4 DEF SlotsHoldWindow, WrittenInOrder, SendLastAck
  <2> QED BY <2>3, <2>4
<1> QED BY <1>2, <1>3, <1>4

(* The segment that the consumer takes out of its slot is the one whose    *)
(* number is currentIndex.                                                 *)
LEMMA NextSlotHoldsNext ==
  ASSUME Inv, NextSlotInUse
  PROVE  slots[SlotOf(currentIndex)] = currentIndex
<1> DEFINE held == slots[SlotOf(currentIndex)]
<1>1. currentIndex \in Int /\ SlotOf(currentIndex) \in SlotNumbers
  BY SlotInRange DEF Inv, TypeOK
<1>2. held \in Int /\ held - currentIndex \in SlotNumbers
      /\ SlotOf(held) = SlotOf(currentIndex)
  BY <1>1 DEF Inv, TypeOK, SlotsHoldWindow, NextSlotInUse
<1>3. currentIndex - currentIndex \in SlotNumbers
  BY <1>1, WindowAssumption DEF SlotNumbers
<1> QED BY <1>1, <1>2, <1>3, SlotsAreUnique

LEMMA InvWindowMutex ==
  ASSUME Inv, LockWindow \/ UnlockWindow \/ EndConsumerLoop
  PROVE  Inv'
<1> USE DEF Inv, producerVars
<1>1. currentIndex \in Int /\ lastack \in {0, 1} /\ toServer \in Seq(ClientAck)
  BY DEF TypeOK
<1>2. CASE LockWindow
  <2>1. TypeOK' /\ ThreadsConsistent'
    BY <1>2 DEF TypeOK, ThreadsConsistent, LockWindow, WindowIsFull
  <2>2. SlotsHoldWindow' /\ WrittenInOrder'
    BY <1>2 DEF SlotsHoldWindow, WrittenInOrder, LockWindow
  <2> QED BY <2>1, <2>2
<1>3. CASE UnlockWindow
  <2>1. toServer' \in Seq(ClientAck) /\ advertised' \in Int
    BY <1>1, <1>3, AckOfWindowTyped DEF UnlockWindow, TypeOK
  <2>2. TypeOK' /\ ThreadsConsistent'
    BY <1>3, <2>1 DEF TypeOK, ThreadsConsistent, UnlockWindow
  <2>3. SlotsHoldWindow' /\ WrittenInOrder'
    BY <1>3 DEF SlotsHoldWindow, WrittenInOrder, UnlockWindow
  <2> QED BY <2>2, <2>3
<1>4. CASE EndConsumerLoop
  <2>1. TypeOK' /\ ThreadsConsistent'
    BY <1>4 DEF TypeOK, ThreadsConsistent, EndConsumerLoop
  <2>2. SlotsHoldWindow' /\ WrittenInOrder'
    BY <1>4 DEF SlotsHoldWindow, WrittenInOrder, EndConsumerLoop
  <2> QED BY <2>1, <2>2
<1> QED BY <1>2, <1>3, <1>4

LEMMA InvFreeSlot ==
  ASSUME Inv, FreeSlot
  PROVE  Inv'
<1> USE DEF Inv, producerVars
<1>1. slots[SlotOf(currentIndex)] = currentIndex
  BY NextSlotHoldsNext DEF FreeSlot
<1>2. SlotOf(currentIndex) \in SlotNumbers /\ currentIndex \in Int
  BY SlotInRange DEF TypeOK
<1>3. TypeOK'
  <2>1. slots' \in [SlotNumbers -> Int \cup {NoSegment}]
    BY DEF FreeSlot, TypeOK
  <2>2. fetched' \in Int
    BY <1>1, <1>2 DEF FreeSlot
  <2> QED BY <2>1, <2>2 DEF TypeOK, FreeSlot
<1>4. ThreadsConsistent' /\ WrittenInOrder'
  BY DEF ThreadsConsistent, WrittenInOrder, FreeSlot
<1>5. SlotsHoldWindow'
  <2>1. /\ fetched' = currentIndex'
        /\ slots'[SlotOf(currentIndex')] = NoSegment
    BY <1>1, <1>2 DEF FreeSlot, TypeOK
  <2>2. \A j \in SlotNumbers : slots'[j] # NoSegment => slots'[j] = slots[j]
    BY <1>2 DEF FreeSlot, TypeOK
  <2>3. \A j \in SlotNumbers : slots'[j] # NoSegment =>
          slots'[j] - currentIndex' \in SlotNumbers /\ SlotOf(slots'[j]) = j
    BY <2>2 DEF SlotsHoldWindow, FreeSlot
  <2> QED BY <2>1, <2>3 DEF SlotsHoldWindow
<1> QED BY <1>3, <1>4, <1>5

LEMMA InvWriteSegment ==
  ASSUME Inv, WriteSegment
  PROVE  Inv'
<1> USE DEF Inv, producerVars
<1> DEFINE entry == [segment |-> fetched, bytes |-> BytesToWrite]
<1>1. fetched = currentIndex /\ count = currentIndex /\ count \in Nat
  BY DEF SlotsHoldWindow, ThreadsConsistent, TypeOK, WriteSegment
<1>2. BytesToWrite \in Nat
  BY SizeAssumption DEF BytesToWrite
<1>3. entry \in [segment: Int, bytes: Nat]
  BY <1>1, <1>2
<1>4. /\ written' \in Seq([segment: Int, bytes: Nat])
      /\ Len(written') = Len(written) + 1
      /\ \A i \in 1 .. Len(written) : written'[i] = written[i]
      /\ written'[Len(written) + 1] = entry
  <2> HIDE DEF entry
  <2>1. written' = Append(written, entry)
    BY DEF WriteSegment, entry
  <2> QED BY <1>3, <2>1, AppendProperties DEF TypeOK
<1>5. TypeOK'
  BY <1>1, <1>4 DEF TypeOK, WriteSegment
<1>6. ThreadsConsistent'
  BY DEF ThreadsConsistent, WriteSegment
<1>7. SlotsHoldWindow'
  <2>1. ASSUME NEW j \in SlotNumbers, slots[j] # NoSegment
        PROVE  slots[j] - (currentIndex + 1) \in SlotNumbers
    <3>1. /\ slots[j] \in Int /\ slots[j] - currentIndex \in SlotNumbers
          /\ slots[j] # currentIndex
      BY <2>1 DEF SlotsHoldWindow, TypeOK, WriteSegment
    <3> QED BY <3>1, <1>1, WindowAssumption DEF SlotNumbers
  <2> QED BY <2>1 DEF SlotsHoldWindow, WriteSegment
<1>8. WrittenInOrder'
  <2>1. Len(written) = count /\ count' = count + 1
    BY DEF WrittenInOrder, WriteSegment
  <2>2. entry.segment = count
    BY <1>1
  <2> HIDE DEF entry
  <2>3. ASSUME NEW i \in 1 .. count + 1
        PROVE  written'[i].segment = i - 1
    <3>1. CASE i \in 1 .. count
      BY <3>1, <2>1, <1>4 DEF WrittenInOrder
    <3>2. CASE i = count + 1
      BY <3>2, <2>1, <2>2, <1>1, <1>4
    <3> QED BY <3>1, <3>2, <1>1
  <2> QED BY <2>1, <2>3, <1>4 DEF WrittenInOrder
<1> QED BY <1>5, <1>6, <1>7, <1>8

LEMMA InvNetwork ==
  ASSUME Inv, Network
  PROVE  Inv'
<1> USE DEF Inv, producerVars, consumerVars
<1>1. ASSUME NEW datagram \in Datagrams, NetworkDelivers(datagram)
      PROVE  Inv'
  <2>1. toClient' \in Seq(ServerDatagram)
    BY <1>1, WindowAssumption, AppendProperties DEF NetworkDelivers, TypeOK
  <2>2. TypeOK' /\ ThreadsConsistent'
    BY <1>1, <2>1 DEF TypeOK, ThreadsConsistent, NetworkDelivers
  <2>3. SlotsHoldWindow' /\ WrittenInOrder'
    BY <1>1 DEF SlotsHoldWindow, WrittenInOrder, NetworkDelivers
  <2> QED BY <2>2, <2>3
<1>2. CASE NetworkTakesAck
  <2>1. toServer' \in Seq(ClientAck)
    BY <1>2, HeadTailProperties DEF NetworkTakesAck, TypeOK
  <2>2. TypeOK' /\ ThreadsConsistent'
    BY <1>2, <2>1 DEF TypeOK, ThreadsConsistent, NetworkTakesAck
  <2>3. SlotsHoldWindow' /\ WrittenInOrder'
    BY <1>2 DEF SlotsHoldWindow, WrittenInOrder, NetworkTakesAck
  <2> QED BY <2>2, <2>3
<1> QED BY <1>1, <1>2 DEF Network

LEMMA InvNext == Inv /\ [Next]_vars => Inv'
<1> SUFFICES ASSUME Inv, [Next]_vars PROVE Inv'
  OBVIOUS
<1>1. CASE Producer
  BY <1>1, InvStoreSegment, InvLastAck DEF Producer
<1>2. CASE ReadSegment \/ DiscardSegment
  BY <1>2, InvReading
<1>3. CASE Consumer
  BY <1>3, InvWindowMutex, InvFreeSlot, InvWriteSegment DEF Consumer
<1>4. CASE Network
  BY <1>4, InvNetwork
<1>5. CASE UNCHANGED vars
  BY <1>5 DEF vars, producerVars, consumerVars, Inv, TypeOK,
              ThreadsConsistent, SlotsHoldWindow, WrittenInOrder
<1> QED BY <1>1, <1>2, <1>3, <1>4, <1>5 DEF Next

(* The inductive invariant of the window, whatever arrives and however the *)
(* threads run.                                                            *)
THEOREM InvHolds == Spec => []Inv
BY InvInit, InvNext, PTL DEF Spec

(* Type correctness of the client's state.                                *)
THEOREM TypeCorrect == Spec => []TypeOK
BY InvHolds, PTL DEF Inv

(* ConsumerThread writes the segments in the order of their numbers, each  *)
(* once (client.c:253), although every datagram may be lost, duplicated or *)
(* reordered.                                                              *)
THEOREM InOrder == Spec => []WrittenInOrder
BY InvHolds, PTL DEF Inv
-----------------------------------------------------------------------------
(***************************************************************************)
(* What an acknowledgement promises.                                       *)
(***************************************************************************)

(* The contents of the slots of a window that starts at index.             *)
HoldsWindow(window, index) ==
  /\ window \in [SlotNumbers -> Int \cup {NoSegment}]
  /\ \A j \in SlotNumbers : window[j] # NoSegment =>
       /\ window[j] - index \in SlotNumbers
       /\ SlotOf(window[j]) = j

LEMMA UsedSlotHoldsItsSegment ==
  ASSUME NEW window, NEW index \in Nat, HoldsWindow(window, index),
         NEW number \in Nat, number - index \in SlotNumbers,
         window[SlotOf(number)] # NoSegment
  PROVE  window[SlotOf(number)] = number
<1> DEFINE held == window[SlotOf(number)]
<1>1. SlotOf(number) \in SlotNumbers
  BY SlotInRange
<1>2. held \in Int /\ held - index \in SlotNumbers
      /\ SlotOf(held) = SlotOf(number)
  BY <1>1 DEF HoldsWindow
<1> HIDE DEF held
<1>3. number \in Int /\ index \in Int
  OBVIOUS
<1>4. held = number
  BY <1>2, <1>3, SlotsAreUnique
<1> QED BY <1>4 DEF held

(* Whatever SlidingWindowGetNextAckIndex returns, also on a full window:   *)
(* every segment before it has been removed or is in its slot.             *)
LEMMA NextAckIndexIsCumulative ==
  ASSUME NEW window, NEW index \in Nat, HoldsWindow(window, index),
         NEW number \in Nat, number < NextAckIndex(window, index)
  PROVE  number < index \/ \E j \in SlotNumbers : window[j] = number
<1> DEFINE free == {i \in SlotNumbers : window[SlotOf(index + i)] = NoSegment}
<1>1. free \in SUBSET Nat /\ free \subseteq SlotNumbers
  BY WindowAssumption DEF SlotNumbers
<1>2. SUFFICES ASSUME number >= index
               PROVE  number - index \in SlotNumbers \ free
  <2>1. ASSUME number - index \in SlotNumbers \ free
        PROVE  window[SlotOf(number)] = number
    <3>1. index + (number - index) = number
      OBVIOUS
    <3>2. window[SlotOf(number)] # NoSegment
      BY <2>1, <3>1
    <3> QED BY <2>1, <3>2, UsedSlotHoldsItsSegment
  <2> QED BY <2>1, SlotInRange
<1>3. CASE free = {}
  <2>1. NextAckIndex(window, index) <= index + WindowSize
    BY <1>3, WindowAssumption DEF NextAckIndex, FallOffReturn
  <2>2. NextAckIndex(window, index) \in Int
    BY NextAckIndexType
  <2>3. number - index \in SlotNumbers
    BY <1>2, <2>1, <2>2, WindowAssumption DEF SlotNumbers
  <2> QED BY <1>3, <2>3
<1>4. CASE free # {}
  <2>1. Min(free) \in free /\ \A y \in free : Min(free) <= y
    BY <1>1, <1>4, MinOfNats
  <2>2. NextAckIndex(window, index) = index + Min(free)
    BY <1>4 DEF NextAckIndex
  <2> HIDE DEF free
  <2>3. Min(free) \in Int /\ Min(free) \in SlotNumbers
    <3>1. \A x \in free : x \in Nat /\ x \in SlotNumbers
      BY <1>1
    <3>2. Min(free) \in free
      BY <2>1
    <3>3. Min(free) \in Nat /\ Min(free) \in SlotNumbers
      BY <3>1, <3>2, Zenon
    <3> QED BY <3>3
  <2>4. number - index < Min(free)
    BY <2>2, <2>3
  <2>5. number - index \in SlotNumbers
    BY <1>2, <2>3, <2>4, WindowAssumption DEF SlotNumbers
  <2>6. number - index \notin free
    BY <2>1, <2>3, <2>4
  <2> QED BY <2>5, <2>6
<1> QED BY <1>3, <1>4

(* No step loses a segment that the client holds.                          *)
LEMMA HoldsIsStable ==
  ASSUME Inv, [Next]_vars, NEW number \in Nat, Holds(number)
  PROVE  Holds(number)'
<1> USE DEF Inv
<1>1. /\ slots \in [SlotNumbers -> Int \cup {NoSegment}]
      /\ currentIndex \in Nat /\ count = currentIndex
  BY DEF TypeOK, ThreadsConsistent
<1>2. CASE StoreSegment
  <2>1. /\ segment \in Int /\ UNCHANGED <<count, consumer, currentIndex>>
    BY <1>2 DEF StoreSegment, ThreadsConsistent, consumerVars
  <2>2. \A j \in SlotNumbers : slots'[j] # slots[j] => slots[j] = NoSegment
    BY <1>1, <1>2, <2>1, WindowTyped DEF StoreSegment
  <2> QED BY <2>1, <2>2, WindowAssumption DEF Holds
<1>3. CASE FreeSlot
  <2>1. /\ slots[SlotOf(currentIndex)] = currentIndex
        /\ consumer = "fetching" /\ consumer' = "freed"
        /\ UNCHANGED <<count, currentIndex>>
        /\ slots' = [slots EXCEPT ![SlotOf(currentIndex)] = NoSegment]
    BY <1>3, NextSlotHoldsNext DEF FreeSlot
  <2> QED BY <1>1, <2>1 DEF Holds
<1>4. CASE WriteSegment
  <2>1. /\ count' = count + 1 /\ slots' = slots
    BY <1>4 DEF WriteSegment
  <2> QED BY <1>1, <2>1 DEF Holds
<1>5. ASSUME UNCHANGED <<count, slots, currentIndex>>, consumer # "freed"
      PROVE  Holds(number)'
  BY <1>5 DEF Holds
<1>6. ASSUME UNCHANGED <<count, slots, currentIndex, consumer>>
      PROVE  Holds(number)'
  BY <1>6 DEF Holds
<1>7. CASE LockWindow \/ UnlockWindow \/ EndConsumerLoop
  BY <1>7, <1>5 DEF LockWindow, UnlockWindow, EndConsumerLoop
<1>8. CASE DropLastAck \/ ComposeLastAck \/ SendLastAck
  BY <1>8, <1>6 DEF DropLastAck, ComposeLastAck, SendLastAck, consumerVars
<1>9. CASE ReadSegment \/ DiscardSegment \/ Network
  BY <1>9, <1>6 DEF ReadSegment, DiscardSegment, Network, NetworkDelivers,
                    NetworkTakesAck, consumerVars
<1>10. CASE UNCHANGED vars
  BY <1>10, <1>6 DEF vars, consumerVars
<1> QED BY <1>2, <1>3, <1>4, <1>7, <1>8, <1>9, <1>10
        DEF Next, Producer, Consumer

LEMMA HeldBeforeAck ==
  ASSUME Inv, NEW number \in Nat, number < NextAckIndex(slots, currentIndex)
  PROVE  Holds(number)
<1>1. HoldsWindow(slots, currentIndex) /\ currentIndex \in Nat
      /\ count = currentIndex
  BY DEF HoldsWindow, Inv, TypeOK, SlotsHoldWindow, ThreadsConsistent
<1>2. number < currentIndex \/ \E j \in SlotNumbers : slots[j] = number
  BY <1>1, NextAckIndexIsCumulative
<1> QED BY <1>1, <1>2 DEF Holds

LEMMA HeldBeforeAckAfter ==
  ASSUME Inv', NEW number \in Nat, number < NextAckIndex(slots', currentIndex')
  PROVE  Holds(number)'
<1>1. HoldsWindow(slots', currentIndex') /\ currentIndex' \in Nat
      /\ count' = currentIndex'
  BY DEF HoldsWindow, Inv, TypeOK, SlotsHoldWindow, ThreadsConsistent
<1>2. number < currentIndex' \/ \E j \in SlotNumbers : slots'[j] = number
  BY <1>1, NextAckIndexIsCumulative
<1> QED BY <1>1, <1>2 DEF Holds

(* An acknowledgement in the queue after a send was there before, or is    *)
(* the one just sent.                                                      *)
LEMMA SentAck ==
  ASSUME NEW r \in Int, NEW w \in Int, NEW l \in {0, 1},
         toServer \in Seq(ClientAck), SendClientAckWithLoss(r, w, l),
         NEW k \in 1 .. Len(toServer')
  PROVE  \/ k \in 1 .. Len(toServer) /\ toServer'[k] = toServer[k]
         \/ toServer'[k].currentRequest = r
<1> DEFINE ack == [currentRequest |-> r, advtWindow |-> w, lastack_sent |-> l]
<1>1. ack \in ClientAck /\ ack.currentRequest = r
  BY DEF ClientAck
<1>2. Len(toServer) \in Nat
  BY LenProperties
<1>3. CASE toServer' = toServer
  BY <1>3
<1>4. CASE toServer' = Append(toServer, ack)
  <2> HIDE DEF ack
  <2>1. /\ Len(toServer') = Len(toServer) + 1
        /\ \A i \in 1 .. Len(toServer) : toServer'[i] = toServer[i]
        /\ toServer'[Len(toServer) + 1] = ack
    BY <1>1, <1>4, AppendProperties
  <2> QED BY <1>1, <1>2, <2>1
<1> QED BY <1>3, <1>4 DEF SendClientAckWithLoss

(* The final acknowledgement is composed in two steps; the first already   *)
(* fixes what it acknowledges.                                             *)
RequestIsCumulative ==
  producer = "composing" => \A number \in 0 .. request - 1 : Holds(number)

AckInv ==
  /\ Inv
  /\ AcksAreCumulative
  /\ RequestIsCumulative
  /\ LastAckMeansAllHeld

LEMMA AckInvInit == Init => AckInv
<1> SUFFICES ASSUME Init PROVE AckInv
  OBVIOUS
<1>1. AcksAreCumulative
  <2>1. Len(toServer) = 0
    BY EmptySeq DEF Init
  <2> QED BY <2>1 DEF AcksAreCumulative
<1>2. RequestIsCumulative /\ LastAckMeansAllHeld
  BY DEF Init, RequestIsCumulative, LastAckMeansAllHeld
<1> QED BY <1>1, <1>2, InvInit DEF AckInv

LEMMA AckInvNext == AckInv /\ [Next]_vars => AckInv'
<1> SUFFICES ASSUME AckInv, [Next]_vars PROVE AckInv'
  OBVIOUS
<1>1. Inv /\ Inv'
  BY InvNext DEF AckInv
<1>2. /\ toServer \in Seq(ClientAck) /\ toServer' \in Seq(ClientAck)
      /\ currentIndex \in Nat /\ request \in Int /\ request' \in Int
      /\ lastack \in {0, 1} /\ SegmentCount \in Int
  <2>1. SegmentCount \in Int
    BY ONLY SizeAssumption DEF SegmentCount, GetSegmentCount
  <2> QED BY ONLY <1>1, <2>1 DEF Inv, TypeOK
<1>3. ASSUME NEW number \in Nat, Holds(number) PROVE Holds(number)'
  BY <1>1, <1>3, HoldsIsStable
<1>4. ASSUME NEW k \in 1 .. Len(toServer)
      PROVE  /\ toServer[k].currentRequest \in Int
             /\ \A number \in 0 .. toServer[k].currentRequest - 1 : Holds(number)'
  <2>1. toServer[k] \in ClientAck
    BY <1>2, ElementOfSeq
  <2>2. toServer[k].currentRequest \in Int
    BY <2>1 DEF ClientAck
  <2>3. ASSUME NEW number \in 0 .. toServer[k].currentRequest - 1
        PROVE  Holds(number)'
    BY <2>2, <1>3 DEF AckInv, AcksAreCumulative
  <2> QED BY <2>2, <2>3
<1>5. ASSUME NEW r \in Int, NEW w \in Int, SendClientAckWithLoss(r, w, lastack),
             \A number \in 0 .. r - 1 : Holds(number)'
      PROVE  AcksAreCumulative'
  <2> SUFFICES ASSUME NEW k \in 1 .. Len(toServer'),
                      NEW number \in 0 .. toServer'[k].currentRequest - 1
               PROVE  Holds(number)'
    BY DEF AcksAreCumulative
  <2>1. \/ k \in 1 .. Len(toServer) /\ toServer'[k] = toServer[k]
        \/ toServer'[k].currentRequest = r
    BY <1>2, <1>5, SentAck
  <2> QED BY <2>1, <1>4, <1>5
<1>6. ASSUME toServer' = toServer PROVE AcksAreCumulative'
  BY <1>4, <1>6 DEF AcksAreCumulative
<1>7. ASSUME producer' = producer, request' = request
      PROVE  RequestIsCumulative'
  BY <1>2, <1>3, <1>7 DEF AckInv, RequestIsCumulative
<1>8. ASSUME producer \notin {"reading", "received"}
      PROVE  LastAckMeansAllHeld'
  BY <1>2, <1>3, <1>8 DEF AckInv, LastAckMeansAllHeld, FileSegments
<1>9. ASSUME producer' = producer \/ producer' \in {"reading", "received"}
      PROVE  LastAckMeansAllHeld'
  BY <1>8, <1>9 DEF LastAckMeansAllHeld
<1>10. \A n \in Nat : n < NextAckIndex(slots', currentIndex') => Holds(n)'
  BY <1>1, HeldBeforeAckAfter
<1>11. NextAckIndex(slots', currentIndex) \in Int
       /\ AvailableWindowSize(slots', currentIndex) \in Int
       /\ NextAckIndex(slots, currentIndex) \in Int
       /\ AvailableWindowSize(slots, currentIndex) \in Int
  BY <1>2, NextAckIndexType
<1>12. CASE StoreSegment
  <2>1. currentIndex' = currentIndex
    BY <1>12 DEF StoreSegment
  <2>2. AcksAreCumulative'
    BY <1>5, <1>10, <1>11, <1>12, <2>1 DEF StoreSegment
  <2>3. RequestIsCumulative'
    BY <1>12 DEF StoreSegment, RequestIsCumulative
  <2>4. LastAckMeansAllHeld'
    <3>1. CASE AskedForAll(slots')
      BY <1>2, <1>10, <1>11, <2>1, <3>1
         DEF AskedForAll, LastAckMeansAllHeld, FileSegments
    <3>2. CASE ~AskedForAll(slots')
      BY <1>12, <3>2 DEF StoreSegment, LastAckMeansAllHeld
    <3> QED BY <3>1, <3>2
  <2> QED BY <1>1, <2>2, <2>3, <2>4 DEF AckInv
<1>13. CASE DropLastAck
  <2>1. toServer' = toServer /\ producer = "unlocked" /\ producer' = "returned"
    BY <1>13 DEF DropLastAck
  <2> QED BY <1>1, <1>6, <1>8, <2>1 DEF AckInv, RequestIsCumulative
<1>14. CASE ComposeLastAck
  <2>1. /\ toServer' = toServer /\ producer = "unlocked"
        /\ request' = NextAckIndex(slots', currentIndex')
    BY <1>14 DEF ComposeLastAck
  <2>2. RequestIsCumulative'
    BY <1>2, <1>10, <2>1 DEF RequestIsCumulative
  <2> QED BY <1>1, <1>6, <1>8, <2>1, <2>2 DEF AckInv
<1>15. CASE SendLastAck
  <2>1. producer = "composing" /\ producer' = "returned"
    BY <1>15 DEF SendLastAck
  <2>2. \A number \in 0 .. request - 1 : Holds(number)'
    BY <1>2, <1>3, <2>1 DEF AckInv, RequestIsCumulative
  <2>3. AcksAreCumulative'
    BY <1>2, <1>5, <1>11, <1>15, <2>2 DEF SendLastAck
  <2> QED BY <1>1, <1>8, <2>1, <2>3 DEF AckInv, RequestIsCumulative
<1>16. CASE UnlockWindow
  <2>1. UNCHANGED <<slots, currentIndex, producer, request>>
    BY <1>16 DEF UnlockWindow, producerVars
  <2>2. AcksAreCumulative'
    <3>1. CASE ReopensWindow
      <4>1. SendClientAckWithLoss(NextAckIndex(slots, currentIndex),
                 AvailableWindowSize(slots, currentIndex), lastack)
        BY <1>16, <3>1 DEF UnlockWindow
      <4> QED BY <1>5, <1>10, <1>11, <2>1, <4>1
    <3>2. CASE ~ReopensWindow
      BY <1>6, <1>16, <3>2 DEF UnlockWindow
    <3> QED BY <3>1, <3>2
  <2> QED BY <1>1, <1>7, <1>9, <2>1, <2>2 DEF AckInv
<1>17. CASE DiscardSegment \/ LockWindow \/ FreeSlot \/ WriteSegment
            \/ EndConsumerLoop \/ (\E d \in Datagrams : NetworkDelivers(d))
            \/ UNCHANGED vars
  <2>1. UNCHANGED <<toServer, producer, request>>
    BY <1>17 DEF DiscardSegment, LockWindow, FreeSlot, WriteSegment,
          EndConsumerLoop, NetworkDelivers, vars, producerVars
  <2> QED BY <1>1, <1>6, <1>7, <1>9, <2>1 DEF AckInv
<1>18. CASE ReadSegment
  <2>1. toServer' = toServer /\ producer' = "received"
    BY <1>18 DEF ReadSegment
  <2> QED BY <1>1, <1>6, <1>9, <2>1 DEF AckInv, RequestIsCumulative
<1>19. CASE NetworkTakesAck
  <2>1. UNCHANGED <<producer, request>> /\ toServer' = Tail(toServer)
        /\ toServer # << >>
    BY <1>19 DEF NetworkTakesAck, producerVars
  <2>2. /\ Len(toServer') = Len(toServer) - 1
        /\ \A k \in 1 .. Len(toServer') : toServer'[k] = toServer[k + 1]
    BY <1>2, <2>1, HeadTailProperties
  <2>3. Len(toServer) \in Nat
    BY <1>2, LenProperties
  <2>4. \A k \in 1 .. Len(toServer') : /\ k + 1 \in 1 .. Len(toServer)
                                      /\ toServer'[k] = toServer[k + 1]
    BY <2>2, <2>3
  <2>5. AcksAreCumulative'
    BY <1>4, <2>4 DEF AcksAreCumulative
  <2> QED BY <1>1, <1>7, <1>9, <2>1, <2>5 DEF AckInv
<1> QED BY <1>12, <1>13, <1>14, <1>15, <1>16, <1>17, <1>18, <1>19
        DEF Next, Producer, Consumer, Network

(* Every acknowledgement that the server child can read is cumulative: the *)
(* client holds all the segments before its currentRequest.                *)
THEOREM Cumulative == Spec => []AcksAreCumulative
BY AckInvInit, AckInvNext, PTL DEF Spec, AckInv

(* The producer leaves its loop, and lastack goes out, only when nothing   *)
(* of the file is missing (client.c:322-325).                              *)
THEOREM LastAckIsRight == Spec => []LastAckMeansAllHeld
BY AckInvInit, AckInvNext, PTL DEF Spec, AckInv
-----------------------------------------------------------------------------
(***************************************************************************)
(* What an acknowledgement asks for.                                       *)
(***************************************************************************)

(* An acknowledgement is either the final one, or its two fields are read  *)
(* from one state of the window, under the mutex.                          *)
SentUnderMutex(sent) ==
  /\ consumer # "freed" /\ consumer' # "freed" /\ currentIndex' = currentIndex
  /\ sent.currentRequest = NextAckIndex(slots', currentIndex)
  /\ sent.advtWindow = AvailableWindowSize(slots', currentIndex)

(* What a step does to the acknowledgements in the queue: they keep their  *)
(* places, move up by one, or another one is appended.                     *)
AcksKept ==
  \E d \in {0, 1} : \A k \in 1 .. Len(toServer') :
    k + d \in 1 .. Len(toServer) /\ toServer'[k] = toServer[k + d]

AckAppended(sent) ==
  /\ sent.lastack_sent = lastack
  /\ (producer = "composing" /\ sent.currentRequest = request) \/ SentUnderMutex(sent)
  /\ Len(toServer') = Len(toServer) + 1
  /\ \A k \in 1 .. Len(toServer) : toServer'[k] = toServer[k]
  /\ toServer'[Len(toServer) + 1] = sent

LEMMA QueueStep ==
  ASSUME Inv, [Next]_vars
  PROVE  \/ toServer' = toServer
         \/ toServer # << >> /\ toServer' = Tail(toServer)
         \/ \E sent \in ClientAck :
              /\ toServer' = Append(toServer, sent) /\ sent.lastack_sent = lastack
              /\ \/ producer = "composing" /\ sent.currentRequest = request
                 \/ SentUnderMutex(sent)
<1>1. lastack \in {0, 1} /\ currentIndex \in Int /\ request \in Int
  BY DEF Inv, TypeOK
<1>2. ASSUME NEW r \in Int, NEW w \in Int, SendClientAckWithLoss(r, w, lastack)
      PROVE  \/ toServer' = toServer
             \/ \E sent \in ClientAck :
                  /\ toServer' = Append(toServer, sent) /\ sent.lastack_sent = lastack
                  /\ sent.currentRequest = r /\ sent.advtWindow = w
  <2> DEFINE sent == [currentRequest |-> r, advtWindow |-> w, lastack_sent |-> lastack]
  <2>1. sent \in ClientAck /\ sent.lastack_sent = lastack
        /\ sent.currentRequest = r /\ sent.advtWindow = w
    BY <1>1 DEF ClientAck
  <2>2. toServer' = toServer \/ toServer' = Append(toServer, sent)
    BY <1>2 DEF SendClientAckWithLoss
  <2> QED BY <2>1, <2>2
<1>3. /\ NextAckIndex(slots', currentIndex) \in Int
      /\ AvailableWindowSize(slots', currentIndex) \in Int
      /\ AvailableWindowSize(slots, currentIndex) \in Int
  BY <1>1, NextAckIndexType
<1>4. CASE StoreSegment
  <2>1. consumer # "freed" /\ consumer' = consumer /\ currentIndex' = currentIndex
    BY <1>4 DEF StoreSegment, consumerVars, Inv, ThreadsConsistent
  <2>2. SendClientAckWithLoss(NextAckIndex(slots', currentIndex),
                              AvailableWindowSize(slots', currentIndex), lastack)
    BY <1>4 DEF StoreSegment
  <2> QED BY <1>2, <1>3, <2>1, <2>2 DEF SentUnderMutex
<1>5. CASE UnlockWindow
  <2>1. /\ consumer # "freed" /\ consumer' # "freed"
        /\ currentIndex' = currentIndex /\ slots' = slots
    BY <1>5 DEF UnlockWindow
  <2>2. \/ toServer' = toServer
        \/ SendClientAckWithLoss(NextAckIndex(slots', currentIndex),
                                 AvailableWindowSize(slots', currentIndex), lastack)
    BY <1>5, <2>1 DEF UnlockWindow
  <2> QED BY <1>2, <1>3, <2>1, <2>2 DEF SentUnderMutex
<1>6. CASE SendLastAck
  <2>1. producer = "composing"
    BY <1>6 DEF SendLastAck
  <2>2. SendClientAckWithLoss(request, AvailableWindowSize(slots, currentIndex), lastack)
    BY <1>6 DEF SendLastAck
  <2> QED BY <1>1, <1>2, <1>3, <2>1, <2>2
<1>7. CASE NetworkTakesAck
  BY <1>7 DEF NetworkTakesAck
<1>8. CASE DiscardSegment \/ ReadSegment \/ DropLastAck \/ ComposeLastAck
           \/ LockWindow \/ FreeSlot \/ WriteSegment \/ EndConsumerLoop
           \/ (\E d \in Datagrams : NetworkDelivers(d)) \/ UNCHANGED vars
  BY <1>8 DEF DiscardSegment, ReadSegment, DropLastAck, ComposeLastAck, LockWindow,
              FreeSlot, WriteSegment, EndConsumerLoop, NetworkDelivers, vars
<1> QED BY <1>4, <1>5, <1>6, <1>7, <1>8 DEF Next, Producer, Consumer, Network

LEMMA QueuedAck ==
  ASSUME Inv, [Next]_vars
  PROVE  AcksKept \/ \E sent \in ClientAck : AckAppended(sent)
<1>1. toServer \in Seq(ClientAck) /\ Len(toServer) \in Nat
  BY LenProperties DEF Inv, TypeOK
<1>2. CASE toServer' = toServer
  BY <1>1, <1>2 DEF AcksKept
<1>3. CASE toServer # << >> /\ toServer' = Tail(toServer)
  <2>1. /\ Len(toServer') = Len(toServer) - 1
        /\ \A k \in 1 .. Len(toServer') : toServer'[k] = toServer[k + 1]
    BY <1>1, <1>3, HeadTailProperties
  <2>2. \A k \in 1 .. Len(toServer') : k + 1 \in 1 .. Len(toServer)
    BY <1>1, <2>1
  <2> QED BY <2>1, <2>2 DEF AcksKept
<1>4. ASSUME NEW sent \in ClientAck, toServer' = Append(toServer, sent)
      PROVE  /\ Len(toServer') = Len(toServer) + 1
             /\ \A k \in 1 .. Len(toServer) : toServer'[k] = toServer[k]
             /\ toServer'[Len(toServer) + 1] = sent
  BY <1>1, <1>4, AppendProperties
<1> QED BY <1>2, <1>3, <1>4, QueueStep DEF AckAppended

(* The request and the window of one acknowledgement add up to the end of  *)
(* the window, whatever a full window asks for; and it never moves back.   *)
FinalOnlyOutside ==
  producer \notin {"reading", "received"} => lastack = 1

LEMMA IndexAdvances ==
  ASSUME Inv, [Next]_vars
  PROVE  currentIndex \in Nat /\ currentIndex' \in Nat /\ currentIndex' >= currentIndex
<1>1. currentIndex \in Nat /\ currentIndex' \in Nat
  BY InvNext DEF Inv, TypeOK
<1> QED
  BY <1>1 DEF Next, Producer, Consumer, Network, StoreSegment,
       DropLastAck, ComposeLastAck, SendLastAck, ReadSegment, DiscardSegment,
       LockWindow, FreeSlot, WriteSegment, UnlockWindow, EndConsumerLoop,
       NetworkDelivers, NetworkTakesAck, vars

CreditInv == Inv /\ FinalOnlyOutside /\ CreditWithinWindow

LEMMA CreditInvInit == Init => CreditInv
<1> SUFFICES ASSUME Init PROVE CreditInv
  OBVIOUS
<1>1. Len(toServer) = 0
  BY EmptySeq DEF Init
<1> QED BY <1>1, InvInit DEF Init, CreditInv, FinalOnlyOutside, CreditWithinWindow

LEMMA CreditInvNext == CreditInv /\ [Next]_vars => CreditInv'
<1> SUFFICES ASSUME CreditInv, [Next]_vars PROVE CreditInv'
  OBVIOUS
<1>1. Inv /\ Inv' /\ FinalOnlyOutside /\ CreditWithinWindow
  BY InvNext DEF CreditInv
<1>2. FinalOnlyOutside'
  BY <1>1 DEF FinalOnlyOutside, Next, Producer, Consumer, Network, StoreSegment,
       DropLastAck, ComposeLastAck, SendLastAck, ReadSegment, DiscardSegment,
       LockWindow, FreeSlot, WriteSegment, UnlockWindow, EndConsumerLoop,
       NetworkDelivers, NetworkTakesAck, vars, producerVars
<1>3. /\ currentIndex \in Nat /\ currentIndex' \in Nat /\ WindowSize \in Nat
      /\ \A k \in 1 .. Len(toServer) : toServer[k] \in ClientAck
  BY <1>1, WindowAssumption, ElementOfSeq DEF Inv, TypeOK
<1>4. currentIndex' >= currentIndex
  BY <1>1, IndexAdvances
<1>5. ASSUME NEW k \in 1 .. Len(toServer), toServer[k].lastack_sent = 0
      PROVE  toServer[k].currentRequest + toServer[k].advtWindow
               <= currentIndex' + WindowSize
  <2>1. toServer[k].currentRequest \in Int /\ toServer[k].advtWindow \in Int
    BY <1>3 DEF ClientAck
  <2>2. toServer[k].currentRequest + toServer[k].advtWindow <= currentIndex + WindowSize
    BY ONLY <1>1, <1>5 DEF CreditWithinWindow
  <2> QED BY <1>1, <1>3, <1>4, <2>1, <2>2
<1>6. ASSUME NEW sent \in ClientAck, sent.lastack_sent = lastack,
             sent.lastack_sent = 0, producer = "composing" \/ SentUnderMutex(sent)
      PROVE  sent.currentRequest + sent.advtWindow <= currentIndex' + WindowSize
  <2>1. SentUnderMutex(sent)
    BY <1>1, <1>6 DEF FinalOnlyOutside
  <2>2. NextAckIndex(slots', currentIndex) \in Int
    BY <1>3, NextAckIndexType
  <2> QED BY <1>3, <2>1, <2>2 DEF SentUnderMutex, AvailableWindowSize
<1>7. CreditWithinWindow'
  <2>1. CASE AcksKept
    BY <1>5, <2>1 DEF AcksKept, CreditWithinWindow
  <2>2. ASSUME NEW sent \in ClientAck, AckAppended(sent)
        PROVE  CreditWithinWindow'
    <3>1. Len(toServer) \in Nat
      BY <1>1, LenProperties DEF Inv, TypeOK
    <3> SUFFICES ASSUME NEW k \in 1 .. Len(toServer) + 1,
                        toServer'[k].lastack_sent = 0
                 PROVE  toServer'[k].currentRequest + toServer'[k].advtWindow
                          <= currentIndex' + WindowSize
      BY <2>2 DEF AckAppended, CreditWithinWindow
    <3>2. CASE k \in 1 .. Len(toServer)
      BY <1>5, <2>2, <3>2 DEF AckAppended
    <3>3. CASE k = Len(toServer) + 1
      BY <1>6, <2>2, <3>3 DEF AckAppended
    <3> QED BY <3>1, <3>2, <3>3
  <2> QED BY <1>1, <2>1, <2>2, QueuedAck
<1> QED BY <1>1, <1>2, <1>7 DEF CreditInv

(* However the two threads send them, and in every build, the data         *)
(* acknowledgements invite no segment for which the window, when it comes, *)
(* has no place (slidingwindow.c:50-58).                                   *)
THEOREM CreditIsCovered == Spec => []CreditWithinWindow
BY CreditInvInit, CreditInvNext, PTL DEF Spec, CreditInv

(* As long as there is a hole in the window, what is asked for is missing. *)
LEMMA FirstHoleIsMissing ==
  ASSUME NEW window, NEW index \in Nat, HoldsWindow(window, index),
         \E i \in SlotNumbers : window[SlotOf(index + i)] = NoSegment
  PROVE  /\ NextAckIndex(window, index) \in index .. index + WindowSize - 1
         /\ \A j \in SlotNumbers : window[j] # NextAckIndex(window, index)
<1> DEFINE free == {i \in SlotNumbers : window[SlotOf(index + i)] = NoSegment}
           next == NextAckIndex(window, index)
<1>0. free # {}
  OBVIOUS
<1>1. free \in SUBSET Nat /\ WindowSize \in Nat \ {0} /\ NoSegment \notin Int
  BY WindowAssumption DEF SlotNumbers
<1>2. PICK m \in free : m = Min(free)
  BY <1>0, <1>1, MinOfNats
<1>3. next = index + m
  BY <1>1, <1>2 DEF NextAckIndex
<1>4. m \in 0 .. WindowSize - 1 /\ window[SlotOf(index + m)] = NoSegment
  BY <1>1 DEF SlotNumbers
<1> HIDE DEF free, next
<1>5. next \in index .. index + WindowSize - 1 /\ window[SlotOf(next)] = NoSegment
  BY <1>1, <1>3, <1>4
<1>6. ASSUME NEW j \in SlotNumbers, window[j] = next PROVE FALSE
  <2>1. next \in Int
    BY <1>1, <1>5
  <2>2. SlotOf(next) = j
    BY <1>1, <1>6, <2>1 DEF HoldsWindow
  <2> QED BY <1>1, <1>5, <1>6, <2>1, <2>2
<1> QED BY <1>5, <1>6 DEF next

(* The search that starts at any index visits every slot.                  *)
LEMMA SearchVisitsAllSlots ==
  ASSUME NEW j \in SlotNumbers, NEW index \in Int
  PROVE  \E i \in SlotNumbers : SlotOf(index + i) = j
<1> DEFINE i == SlotOf(j - index)
           q == (j - index) \div WindowSize
           p == (index + i) \div WindowSize
<1>1. j \in Int /\ WindowSize \in Nat \ {0} /\ j < WindowSize /\ j >= 0
  BY WindowAssumption DEF SlotNumbers
<1>2. i \in SlotNumbers /\ i \in Int
  BY <1>1, SlotInRange, WindowAssumption DEF SlotNumbers
<1>3. q \in Int /\ j - index = WindowSize * q + i
  BY <1>1, DivMod
<1> HIDE DEF i, q
<1>4. /\ p \in Int /\ index + i = WindowSize * p + SlotOf(index + i)
      /\ SlotOf(index + i) \in Int
      /\ SlotOf(index + i) < WindowSize /\ SlotOf(index + i) >= 0
  <2>1. index + i \in Int
    BY <1>2
  <2> HIDE DEF p
  <2>2. p \in Int /\ index + i = WindowSize * p + SlotOf(index + i)
    BY <2>1, DivMod DEF p
  <2>3. SlotOf(index + i) \in SlotNumbers
    BY <2>1, SlotInRange
  <2> QED BY <1>1, <2>2, <2>3 DEF SlotNumbers
<1> HIDE DEF p
<1>5. j - SlotOf(index + i) = WindowSize * (p + q)
  BY <1>1, <1>2, <1>3, <1>4
<1>6. p + q = 0
  <2>1. CASE p + q >= 1
    <3>1. WindowSize * (p + q) >= WindowSize
      BY <1>1, <1>3, <1>4, <2>1
    <3> QED BY <1>1, <1>4, <1>5, <3>1
  <2>2. CASE p + q <= -1
    <3>1. WindowSize * (p + q) <= -WindowSize
      BY <1>1, <1>3, <1>4, <2>2
    <3> QED BY <1>1, <1>4, <1>5, <3>1
  <2> QED BY <1>3, <1>4, <2>1, <2>2
<1> QED BY <1>1, <1>2, <1>4, <1>5, <1>6

(* How far a request can be ahead of the window's first segment: a full    *)
(* window asks for the segment after it, or again for its last one.        *)
Reach == IF FullWindowReturn = "next" THEN WindowSize ELSE WindowSize - 1

LEMMA NextAckIndexInReach ==
  ASSUME FullWindowReturn # "size",
         NEW window, NEW index \in Nat, HoldsWindow(window, index)
  PROVE  NextAckIndex(window, index) \in Nat /\ NextAckIndex(window, index) <= index + Reach
<1>1. WindowSize \in Nat \ {0} /\ FullWindowReturn \in {"last", "next"}
  BY WindowAssumption
<1>2. CASE \E i \in SlotNumbers : window[SlotOf(index + i)] = NoSegment
  <2>1. NextAckIndex(window, index) \in index .. index + WindowSize - 1
    BY <1>2, FirstHoleIsMissing
  <2> QED BY <1>1, <2>1 DEF Reach
<1>3. CASE ~\E i \in SlotNumbers : window[SlotOf(index + i)] = NoSegment
  <2>1. NextAckIndex(window, index) = index + Reach
    BY <1>1, <1>3 DEF NextAckIndex, FallOffReturn, Reach
  <2> QED BY <1>1, <2>1 DEF Reach
<1> QED BY <1>2, <1>3

(* What is asked for is the largest request within reach that is           *)
(* cumulative, also when it asks again for the last one of a full window.  *)
LEMMA NextAckIndexIsLargest ==
  ASSUME FullWindowReturn # "size",
         NEW window, NEW index \in Nat, HoldsWindow(window, index),
         NEW r \in Int, r <= index + Reach,
         \A number \in 0 .. r - 1 :
           number < index \/ \E j \in SlotNumbers : window[j] = number
  PROVE  r <= NextAckIndex(window, index)
<1>1. WindowSize \in Nat \ {0} /\ FullWindowReturn \in {"last", "next"}
  BY WindowAssumption
<1>2. CASE \E i \in SlotNumbers : window[SlotOf(index + i)] = NoSegment
  <2> DEFINE next == NextAckIndex(window, index)
  <2>1. next \in index .. index + WindowSize - 1 /\ \A j \in SlotNumbers : window[j] # next
    BY <1>2, FirstHoleIsMissing
  <2> HIDE DEF next
  <2>2. next \in Nat /\ next >= index
    BY <1>1, <2>1
  <2>3. next \notin 0 .. r - 1
    BY <2>1, <2>2
  <2> QED BY <2>2, <2>3 DEF next
<1>3. CASE ~\E i \in SlotNumbers : window[SlotOf(index + i)] = NoSegment
  BY <1>1, <1>3 DEF NextAckIndex, FallOffReturn, Reach
<1> QED BY <1>2, <1>3

LEMMA MutexAckAsksForMissing ==
  ASSUME Inv, [Next]_vars, NEW sent \in ClientAck, SentUnderMutex(sent),
         NEW j \in SlotNumbers, slots'[j] = NoSegment
  PROVE  ~Holds(sent.currentRequest)'
<1>1. HoldsWindow(slots', currentIndex) /\ currentIndex \in Nat
      /\ count' = currentIndex
  BY InvNext DEF HoldsWindow, Inv, TypeOK, SlotsHoldWindow, ThreadsConsistent, SentUnderMutex
<1>2. \E i \in SlotNumbers : slots'[SlotOf(currentIndex + i)] = NoSegment
  <2>1. currentIndex \in Int
    BY <1>1
  <2>2. PICK i \in SlotNumbers : SlotOf(currentIndex + i) = j
    BY <2>1, SearchVisitsAllSlots
  <2> QED BY <2>2
<1>3. /\ sent.currentRequest \in currentIndex .. currentIndex + WindowSize - 1
      /\ \A i \in SlotNumbers : slots'[i] # sent.currentRequest
  BY <1>1, <1>2, FirstHoleIsMissing DEF SentUnderMutex
<1>4. consumer' # "freed"
  BY DEF SentUnderMutex
<1> QED BY <1>1, <1>3, <1>4, WindowAssumption DEF Holds

LEMMA MutexAckIsLargest ==
  ASSUME FullWindowReturn # "size", Inv, [Next]_vars,
         NEW sent \in ClientAck, SentUnderMutex(sent),
         NEW r \in Int, r <= currentIndex + Reach,
         \A number \in 0 .. r - 1 : Holds(number)'
  PROVE  r <= sent.currentRequest
<1>1. HoldsWindow(slots', currentIndex) /\ currentIndex \in Nat
      /\ count' = currentIndex /\ consumer' # "freed"
  BY InvNext DEF HoldsWindow, Inv, TypeOK, SlotsHoldWindow, ThreadsConsistent, SentUnderMutex
<1>2. \A number \in 0 .. r - 1 :
        number < currentIndex \/ \E j \in SlotNumbers : slots'[j] = number
  BY <1>1 DEF Holds
<1>3. r <= NextAckIndex(slots', currentIndex)
  BY <1>1, <1>2, NextAckIndexIsLargest
<1> QED BY <1>3 DEF SentUnderMutex

(* What is on its way, or composed, was within reach of the window as it   *)
(* was then, and the window only moves on.                                 *)
AskedInReach ==
  /\ producer = "composing" => request <= currentIndex + Reach
  /\ \A k \in 1 .. Len(toServer) : toServer[k].currentRequest <= currentIndex + Reach

LEMMA ReachMovesOn ==
  ASSUME Inv, [Next]_vars
  PROVE  /\ currentIndex + Reach \in Int /\ currentIndex' + Reach \in Int
         /\ currentIndex + Reach <= currentIndex' + Reach
<1>1. currentIndex \in Int /\ currentIndex' \in Int /\ Reach \in Int
  BY IndexAdvances, WindowAssumption DEF Reach
<1>2. \A i, j, n \in Int : i >= j => j + n <= i + n
  OBVIOUS
<1>3. currentIndex' >= currentIndex
  BY IndexAdvances
<1>4. currentIndex + Reach <= currentIndex' + Reach
  BY ONLY <1>1, <1>2, <1>3
<1>5. currentIndex + Reach \in Int /\ currentIndex' + Reach \in Int
  BY ONLY <1>1
<1> QED BY ONLY <1>4, <1>5

OrderInv == AckInv /\ CreditInv /\ AskedInReach /\ AcksNeverGoBack

LEMMA OrderInvInit == Init => OrderInv
<1> SUFFICES ASSUME Init PROVE OrderInv
  OBVIOUS
<1>1. Len(toServer) = 0
  BY EmptySeq DEF Init
<1> QED BY <1>1, AckInvInit, CreditInvInit DEF OrderInv, AskedInReach, AcksNeverGoBack, Init

LEMMA AskedInReachNext ==
  ASSUME FullWindowReturn # "size", Inv, AskedInReach, [Next]_vars
  PROVE  AskedInReach'
<1>1. /\ currentIndex \in Nat /\ currentIndex' \in Nat /\ currentIndex' >= currentIndex
      /\ Reach \in Int /\ request \in Int /\ request' \in Int
  BY IndexAdvances, InvNext, WindowAssumption DEF Inv, TypeOK, Reach
<1>2. ASSUME NEW r \in Int, r <= currentIndex + Reach
      PROVE  r <= currentIndex' + Reach
  BY <1>2, ReachMovesOn
<1>3. HoldsWindow(slots, currentIndex) /\ HoldsWindow(slots', currentIndex')
  BY InvNext DEF HoldsWindow, Inv, TypeOK, SlotsHoldWindow
<1>4. producer' = "composing" => request' <= currentIndex + Reach
  <2>1. CASE ComposeLastAck
    BY <1>1, <1>3, <2>1, NextAckIndexInReach DEF ComposeLastAck
  <2>2. CASE ~ComposeLastAck
    <3>1. producer' = "composing" => producer = "composing" /\ request' = request
      BY <2>2 DEF Next, Producer, Consumer, Network, StoreSegment,
         DropLastAck, SendLastAck, ReadSegment, DiscardSegment,
         LockWindow, FreeSlot, WriteSegment, UnlockWindow, EndConsumerLoop,
         NetworkDelivers, NetworkTakesAck, vars, producerVars
    <3> QED BY <3>1 DEF AskedInReach
  <2> QED BY <2>1, <2>2
<1>5. \A k \in 1 .. Len(toServer) : /\ toServer[k].currentRequest \in Int
                                    /\ toServer[k].currentRequest <= currentIndex + Reach
  <2>1. \A k \in 1 .. Len(toServer) : toServer[k] \in ClientAck
    BY ElementOfSeq DEF Inv, TypeOK
  <2> QED BY <2>1 DEF ClientAck, AskedInReach
<1>6. ASSUME NEW k \in 1 .. Len(toServer')
      PROVE  /\ toServer'[k].currentRequest \in Int
             /\ toServer'[k].currentRequest <= currentIndex + Reach
  <2>1. CASE AcksKept
    <3>1. PICK d \in {0, 1} : k + d \in 1 .. Len(toServer) /\ toServer'[k] = toServer[k + d]
      BY <2>1 DEF AcksKept
    <3> QED BY <1>5, <3>1
  <2>2. ASSUME NEW sent \in ClientAck, AckAppended(sent)
        PROVE  /\ toServer'[k].currentRequest \in Int
               /\ toServer'[k].currentRequest <= currentIndex + Reach
    <3>1. Len(toServer) \in Nat /\ sent.currentRequest \in Int
      BY LenProperties DEF Inv, TypeOK, ClientAck
    <3>2. sent.currentRequest <= currentIndex + Reach
      <4>1. CASE SentUnderMutex(sent)
        <5>1. HoldsWindow(slots', currentIndex)
          BY <1>3, <4>1 DEF SentUnderMutex
        <5> QED BY <1>1, <4>1, <5>1, NextAckIndexInReach DEF SentUnderMutex
      <4>2. CASE producer = "composing" /\ sent.currentRequest = request
        BY <4>2 DEF AskedInReach
      <4> QED BY <2>2, <4>1, <4>2 DEF AckAppended
    <3>3. k \in 1 .. Len(toServer) \/ k = Len(toServer) + 1
      BY <2>2, <3>1 DEF AckAppended
    <3> QED BY <1>5, <2>2, <3>1, <3>2, <3>3 DEF AckAppended
  <2> QED BY <2>1, <2>2, QueuedAck
<1> QED BY <1>1, <1>2, <1>4, <1>6 DEF AskedInReach

LEMMA OrderInvNext ==
  ASSUME FullWindowReturn # "size", OrderInv, [Next]_vars
  PROVE  OrderInv'
<1>1. /\ AckInv /\ AckInv' /\ CreditInv /\ CreditInv' /\ Inv /\ AcksNeverGoBack
      /\ FinalOnlyOutside /\ AskedInReach
  BY AckInvNext, CreditInvNext DEF OrderInv, AckInv, CreditInv
<1>2. /\ Len(toServer) \in Nat
      /\ \A k \in 1 .. Len(toServer) : toServer[k].currentRequest \in Int
  <2>1. /\ Len(toServer) \in Nat
        /\ \A k \in 1 .. Len(toServer) : toServer[k] \in ClientAck
    BY <1>1, LenProperties, ElementOfSeq DEF Inv, TypeOK
  <2> QED BY <2>1 DEF ClientAck
<1>3. ASSUME AcksKept PROVE AcksNeverGoBack'
  <2>1. PICK d \in {0, 1} : \A k \in 1 .. Len(toServer') :
          k + d \in 1 .. Len(toServer) /\ toServer'[k] = toServer[k + d]
    BY <1>3 DEF AcksKept
  <2> SUFFICES ASSUME NEW j \in 1 .. Len(toServer'), NEW k \in 1 .. Len(toServer'),
                      j < k, toServer'[k].lastack_sent = 0
               PROVE  toServer'[j].currentRequest <= toServer'[k].currentRequest
    BY DEF AcksNeverGoBack
  <2>2. j + d < k + d
    OBVIOUS
  <2>3. /\ j + d \in 1 .. Len(toServer) /\ toServer'[j] = toServer[j + d]
        /\ k + d \in 1 .. Len(toServer) /\ toServer'[k] = toServer[k + d]
    BY <2>1
  <2> QED BY <1>1, <2>2, <2>3 DEF AcksNeverGoBack
<1>4. ASSUME NEW sent \in ClientAck, AckAppended(sent)
      PROVE  AcksNeverGoBack'
  <2> SUFFICES ASSUME NEW j \in 1 .. Len(toServer) + 1, NEW k \in 1 .. Len(toServer) + 1,
                      j < k, toServer'[k].lastack_sent = 0
               PROVE  toServer'[j].currentRequest <= toServer'[k].currentRequest
    BY <1>4 DEF AckAppended, AcksNeverGoBack
  <2>1. j \in 1 .. Len(toServer) /\ toServer'[j] = toServer[j]
    BY <1>2, <1>4 DEF AckAppended
  <2>2. CASE k \in 1 .. Len(toServer)
    BY <1>1, <1>4, <2>1, <2>2 DEF AckAppended, AcksNeverGoBack
  <2>3. CASE k = Len(toServer) + 1
    <3>1. toServer'[k] = sent /\ SentUnderMutex(sent)
      BY <1>1, <1>4, <2>3 DEF AckAppended, FinalOnlyOutside
    <3>2. \A number \in 0 .. toServer[j].currentRequest - 1 : Holds(number)'
      BY <1>1, <1>2, <1>4, <2>1 DEF AckInv, AcksAreCumulative, AckAppended
    <3>3. /\ toServer[j].currentRequest \in Int
          /\ toServer[j].currentRequest <= currentIndex + Reach
      BY <1>1, <1>2, <2>1 DEF AskedInReach
    <3>4. toServer[j].currentRequest <= sent.currentRequest
      BY <1>1, <3>1, <3>2, <3>3, MutexAckIsLargest
    <3> QED BY <2>1, <3>1, <3>4
  <2> QED BY <1>2, <2>2, <2>3
<1>5. AcksKept \/ \E sent \in ClientAck : AckAppended(sent)
  BY <1>1, QueuedAck
<1>6. AcksNeverGoBack'
  BY <1>3, <1>4, <1>5
<1>7. AskedInReach'
  BY <1>1, AskedInReachNext
<1> QED BY <1>1, <1>6, <1>7 DEF OrderInv

(* Although the producer's and the consumer's acknowledgements go out on   *)
(* one socket (client.c:288, 320), what they ask for never goes back, in a *)
(* build where a full window asks for the segment after it or for its last.*)
THEOREM NeverGoBack ==
  ASSUME FullWindowReturn # "size"
  PROVE  Spec => []AcksNeverGoBack
<1>1. OrderInv /\ [Next]_vars => OrderInv'
  BY OrderInvNext
<1> QED BY <1>1, OrderInvInit, PTL DEF Spec, OrderInv

(* In every build: as long as the window has a hole, a data acknowledgement*)
(* asks for a segment that the client lacks ("What does client need",      *)
(* utility.h).  full_window.cfg shows that the full window is an exception.*)
THEOREM AskForMissing == Spec => OpenWindowAsksForMissing
<1>1. CreditInv /\ [Next]_vars =>
        [\A ack \in ClientAcksSent :
           ack.lastack_sent = 0 /\ (\E j \in SlotNumbers : slots'[j] = NoSegment) =>
             ~Holds(ack.currentRequest)']_vars
  <2> SUFFICES ASSUME CreditInv, Next, NEW CONSTANT ack, ack \in ClientAcksSent,
                      ack.lastack_sent = 0,
                      NEW j \in SlotNumbers, slots'[j] = NoSegment
               PROVE  ~Holds(ack.currentRequest)'
    OBVIOUS
  <2>1. Inv /\ FinalOnlyOutside /\ Len(toServer) \in Nat
    BY LenProperties DEF CreditInv, Inv, TypeOK
  <2>2. PICK k \in Len(toServer) + 1 .. Len(toServer') : toServer'[k] = ack
    BY DEF ClientAcksSent
  <2>3. ~AcksKept
    BY <2>1, <2>2 DEF AcksKept
  <2>4. PICK sent \in ClientAck : AckAppended(sent)
    BY <2>1, <2>3, QueuedAck
  <2>5. ack = sent /\ SentUnderMutex(sent)
    <3>1. k = Len(toServer) + 1
      BY <2>1, <2>2, <2>4 DEF AckAppended
    <3> QED BY <2>1, <2>2, <2>4, <3>1 DEF AckAppended, FinalOnlyOutside
  <2> QED BY <2>1, <2>5, MutexAckAsksForMissing
<1> QED BY <1>1, CreditInvInit, CreditInvNext, PTL DEF Spec, OpenWindowAsksForMissing
-----------------------------------------------------------------------------
(***************************************************************************)
(* A closed window, and the bytes of the file.                             *)
(***************************************************************************)
WindowUsedUp(window) == \A j \in SlotNumbers : window[j] # NoSegment

(* In a build where a full window asks for the segment after it, the       *)
(* window announced is 0 exactly when every slot is in use.                *)
LEMMA ClosedMeansUsedUp ==
  ASSUME FullWindowReturn = "next", NEW window, NEW index \in Int
  PROVE  AvailableWindowSize(window, index) = 0 <=> WindowUsedUp(window)
<1> DEFINE free == {i \in SlotNumbers : window[SlotOf(index + i)] = NoSegment}
<1>1. free \in SUBSET Nat /\ WindowSize \in Nat \ {0}
      /\ \A i \in free : i < WindowSize
  BY WindowAssumption DEF SlotNumbers
<1>2. CASE free = {}
  <2>1. AvailableWindowSize(window, index) = 0
    BY <1>1, <1>2 DEF AvailableWindowSize, NextAckIndex, FallOffReturn
  <2>2. WindowUsedUp(window)
    BY <1>2, SearchVisitsAllSlots DEF WindowUsedUp
  <2> QED BY <2>1, <2>2
<1>3. CASE free # {}
  <2>1. PICK m \in free : m = Min(free)
    BY <1>1, <1>3, MinOfNats
  <2>2. AvailableWindowSize(window, index) = WindowSize + index - (index + m)
    BY <1>3, <2>1 DEF AvailableWindowSize, NextAckIndex
  <2>3. m \in Nat /\ m < WindowSize
    BY <1>1
  <2>4. ~WindowUsedUp(window)
    <3>1. window[SlotOf(index + m)] = NoSegment /\ SlotOf(index + m) \in SlotNumbers
      BY <2>3, SlotInRange
    <3> QED BY <3>1 DEF WindowUsedUp
  <2> HIDE DEF free
  <2> QED BY <1>1, <2>2, <2>3, <2>4
<1> QED BY <1>2, <1>3

AllHeld == \A number \in FileSegments : Holds(number)

(* While the consumer has the mutex, isWindowFull remembers a closed window*)
ClosedIsRemembered ==
  (lastack = 0 /\ advertised = 0) =>
    \/ AllHeld
    \/ mutex = "free" /\ WindowUsedUp(slots)
    \/ mutex = "consumer" /\ isWindowFull

ReopenInv == Inv /\ FinalOnlyOutside /\ ClosedIsRemembered

LEMMA ReopenInvInit == Init => ReopenInv
BY InvInit, WindowAssumption
   DEF Init, ReopenInv, FinalOnlyOutside, ClosedIsRemembered

LEMMA ReopenInvNext ==
  ASSUME FullWindowReturn = "next", ReopenInv, [Next]_vars
  PROVE  ReopenInv'
<1>1. Inv /\ Inv' /\ FinalOnlyOutside /\ ClosedIsRemembered
  BY InvNext DEF ReopenInv
<1>2. FinalOnlyOutside'
  BY <1>1 DEF FinalOnlyOutside, Next, Producer, Consumer, Network, StoreSegment,
       DropLastAck, ComposeLastAck, SendLastAck, ReadSegment, DiscardSegment,
       LockWindow, FreeSlot, WriteSegment, UnlockWindow, EndConsumerLoop,
       NetworkDelivers, NetworkTakesAck, vars, producerVars
<1>3. AllHeld => AllHeld'
  BY <1>1, HoldsIsStable, SizeAssumption DEF AllHeld, FileSegments, SegmentCount, GetSegmentCount
<1>4. currentIndex \in Nat /\ lastack \in {0, 1} /\ mutex \in {"free", "consumer"}
      /\ SegmentCount \in Int
  <2>1. SegmentCount \in Int
    BY ONLY SizeAssumption DEF SegmentCount, GetSegmentCount
  <2> QED BY ONLY <1>1, <2>1 DEF Inv, TypeOK
<1>5. ASSUME advertised' = advertised, lastack' = lastack, mutex' = mutex,
             mutex = "free" => slots' = slots,
             mutex = "consumer" => isWindowFull' = isWindowFull
      PROVE  ClosedIsRemembered'
  BY <1>1, <1>3, <1>5 DEF ClosedIsRemembered, WindowUsedUp
<1>6. CASE StoreSegment
  <2>1. /\ advertised' = AvailableWindowSize(slots', currentIndex)
        /\ mutex' = "free"
    BY <1>6 DEF StoreSegment, SendClientAckWithLoss
  <2>2. currentIndex \in Int
    BY <1>4
  <2>3. AvailableWindowSize(slots', currentIndex) = 0 <=> WindowUsedUp(slots')
    BY <2>2, ClosedMeansUsedUp
  <2>4. advertised' = 0 => WindowUsedUp(slots')
    BY <2>1, <2>3
  <2> QED BY <1>1, <1>2, <2>1, <2>4 DEF ReopenInv, ClosedIsRemembered, WindowUsedUp
<1>7. CASE SendLastAck
  <2>1. lastack = 1 /\ lastack' = lastack
    BY <1>1, <1>7 DEF SendLastAck, FinalOnlyOutside
  <2> QED BY <1>1, <1>2, <2>1 DEF ReopenInv, ClosedIsRemembered
<1>8. CASE LockWindow
  <2>1. /\ isWindowFull' = WindowIsFull /\ mutex = "free" /\ mutex' = "consumer"
        /\ UNCHANGED <<advertised, lastack>>
    BY <1>8 DEF LockWindow, producerVars
  <2>2. WindowUsedUp(slots) => isWindowFull'
    <3>1. currentIndex \in Int
      BY <1>4
    <3>2. AvailableWindowSize(slots, currentIndex) = 0 <=> WindowUsedUp(slots)
      BY <3>1, ClosedMeansUsedUp
    <3> QED BY <2>1, <3>2, Zenon DEF WindowIsFull
  <2> QED BY <1>1, <1>2, <1>3, <2>1, <2>2 DEF ReopenInv, ClosedIsRemembered
<1>9. CASE UnlockWindow
  <2>1. /\ mutex = "consumer" /\ mutex' = "free" /\ lastack' = lastack
        /\ UNCHANGED <<slots, currentIndex>> /\ slots[SlotOf(currentIndex)] = NoSegment
    BY <1>1, <1>9 DEF UnlockWindow, NextSlotInUse, producerVars, Inv, ThreadsConsistent
  <2>2. ~WindowUsedUp(slots)
    BY <1>4, <2>1, SlotInRange DEF WindowUsedUp
  <2>3. CASE isWindowFull /\ NextAckIndex(slots, currentIndex) < SegmentCount
    <3>1. advertised' = AvailableWindowSize(slots, currentIndex)
      BY <1>9, <2>3 DEF UnlockWindow, ReopensWindow, SendClientAckWithLoss
    <3>2. advertised' # 0
      BY <1>4, <2>2, <3>1, ClosedMeansUsedUp
    <3> QED BY <1>1, <1>2, <3>2 DEF ReopenInv, ClosedIsRemembered
  <2>4. CASE isWindowFull /\ ~(NextAckIndex(slots, currentIndex) < SegmentCount)
    <3>1. NextAckIndex(slots, currentIndex) \in Int
      BY <1>4, NextAckIndexType
    <3>2. \A number \in FileSegments :
            number \in Nat /\ number < NextAckIndex(slots, currentIndex)
      BY <1>4, <2>4, <3>1 DEF FileSegments
    <3>3. AllHeld
      BY <1>1, <3>2, HeldBeforeAck DEF AllHeld
    <3> QED BY <1>1, <1>2, <1>3, <3>3 DEF ReopenInv, ClosedIsRemembered
  <2>5. CASE ~isWindowFull
    <3>1. advertised' = advertised
      BY <1>9, <2>5 DEF UnlockWindow, ReopensWindow
    <3> QED BY <1>1, <1>2, <1>3, <2>1, <2>5, <3>1 DEF ReopenInv, ClosedIsRemembered
  <2> QED BY <2>3, <2>4, <2>5
<1>10. CASE FreeSlot \/ WriteSegment
  <2>1. /\ mutex = "consumer"
        /\ UNCHANGED <<advertised, lastack, mutex, isWindowFull>>
    BY <1>1, <1>10 DEF FreeSlot, WriteSegment, producerVars, Inv, ThreadsConsistent
  <2> QED BY <1>1, <1>2, <1>5, <2>1 DEF ReopenInv
<1>11. CASE DiscardSegment \/ ReadSegment \/ DropLastAck \/ ComposeLastAck
            \/ EndConsumerLoop \/ Network \/ UNCHANGED vars
  <2>1. UNCHANGED <<advertised, lastack, mutex, slots, isWindowFull>>
    BY <1>11 DEF DiscardSegment, ReadSegment, DropLastAck, ComposeLastAck,
         EndConsumerLoop, Network, NetworkDelivers, NetworkTakesAck, vars,
         producerVars, consumerVars
  <2> QED BY <1>1, <1>2, <1>5, <2>1 DEF ReopenInv
<1> QED BY <1>6, <1>7, <1>8, <1>9, <1>10, <1>11 DEF Next, Producer, Consumer

(* The consumer decides whether to announce a window open again from what  *)
(* it saw when it took the mutex (client.c:266, 286-291): that is enough,  *)
(* in a build where a full window asks for the segment after it.           *)
THEOREM WindowReopens ==
  ASSUME FullWindowReturn = "next"
  PROVE  Spec => []ZeroWindowIsReopened
<1>1. ReopenInv /\ [Next]_vars => ReopenInv'
  BY ReopenInvNext
<1>2. ReopenInv => ZeroWindowIsReopened
  BY DEF ReopenInv, ClosedIsRemembered, ZeroWindowIsReopened, AllHeld, WindowUsedUp
<1> QED BY <1>1, <1>2, ReopenInvInit, PTL DEF Spec

(* The remainder is what a last, partial segment really has of the file.   *)
LEMMA CutIsRight ==
  ASSUME FileLength % SegmentDataSize # 0, NEW i \in FileSegments
  PROVE  TotalBytesInSegment(i) = BytesOfFileIn(i)
<1> DEFINE whole == FileLength \div SegmentDataSize
           rest == FileLength % SegmentDataSize
<1>1. /\ whole \in Nat /\ rest \in Nat \ {0} /\ rest < SegmentDataSize
      /\ FileLength = SegmentDataSize * whole + rest
      /\ SegmentDataSize \in Nat \ {0}
  BY SizeAssumption
<1>2. SegmentCount = whole + 1 /\ i \in Nat /\ i <= whole
  BY <1>1 DEF SegmentCount, GetSegmentCount, FileSegments
<1> HIDE DEF whole
<1>3. CASE i = whole
  <2>1. TotalBytesInSegment(i) = rest
    BY <1>1, <1>2, <1>3 DEF TotalBytesInSegment
  <2> HIDE DEF rest
  <2>2. (i + 1) * SegmentDataSize = SegmentDataSize * whole + SegmentDataSize
    BY <1>1, <1>3
  <2>3. i * SegmentDataSize = SegmentDataSize * whole
    BY <1>1, <1>3
  <2> QED BY <1>1, <2>1, <2>2, <2>3 DEF BytesOfFileIn
<1>4. CASE i < whole
  <2>1. TotalBytesInSegment(i) = SegmentDataSize
    BY <1>1, <1>2, <1>4 DEF TotalBytesInSegment
  <2> HIDE DEF rest
  <2>2. SegmentDataSize * (whole - (i + 1)) >= 0
    BY <1>1, <1>2, <1>4
  <2>3. SegmentDataSize * (whole - (i + 1)) =
          SegmentDataSize * whole - (i + 1) * SegmentDataSize
    BY <1>1, <1>2
  <2>4. (i + 1) * SegmentDataSize \in Int /\ SegmentDataSize * whole \in Int
    BY <1>1, <1>2
  <2>5. (i + 1) * SegmentDataSize <= FileLength
    BY <1>1, <2>2, <2>3, <2>4
  <2> QED BY <2>1, <2>5 DEF BytesOfFileIn
<1> QED BY <1>1, <1>2, <1>3, <1>4

(* The consumer's count of segments gives each the bytes of the server's   *)
(* table, since it writes them in order.                                   *)
BytesAsCounted ==
  \A k \in 1 .. Len(written) : written[k].bytes = TotalBytesInSegment(k - 1)

LEMMA BytesNext ==
  ASSUME Inv, BytesAsCounted, [Next]_vars
  PROVE  BytesAsCounted'
<1>1. Len(written) = count /\ count \in Nat
  BY DEF Inv, WrittenInOrder, TypeOK
<1>2. CASE WriteSegment
  <2> DEFINE entry == [segment |-> fetched, bytes |-> BytesToWrite]
  <2>1. written' = Append(written, entry) /\ entry.bytes = TotalBytesInSegment(count)
    BY <1>2 DEF WriteSegment, BytesToWrite, TotalBytesInSegment
  <2> HIDE DEF entry
  <2>2. ASSUME NEW k \in 1 .. Len(written')
        PROVE  written'[k].bytes = TotalBytesInSegment(k - 1)
    <3>1. Len(written') = count + 1
      BY <1>1, <2>1 DEF Inv, TypeOK
    <3>2. CASE k \in 1 .. count
      <4>1. written'[k] = written[k]
        BY <1>1, <2>1, <3>2 DEF Inv, TypeOK
      <4> QED BY <1>1, <3>2, <4>1 DEF BytesAsCounted
    <3>3. CASE k = count + 1
      <4>1. written'[k] = entry /\ k - 1 = count
        BY <1>1, <2>1, <3>3 DEF Inv, TypeOK
      <4> QED BY <2>1, <4>1
    <3> QED BY <1>1, <3>1, <3>2, <3>3
  <2> QED BY <2>2 DEF BytesAsCounted, TotalBytesInSegment
<1>3. CASE ~WriteSegment
  <2>1. written' = written
    BY <1>3 DEF Next, Producer, Consumer, Network, StoreSegment, ReadSegment,
         DiscardSegment, DropLastAck, ComposeLastAck, SendLastAck, LockWindow,
         FreeSlot, UnlockWindow, EndConsumerLoop, NetworkDelivers,
         NetworkTakesAck, vars, consumerVars
  <2> QED BY <2>1 DEF BytesAsCounted, TotalBytesInSegment
<1> QED BY <1>2, <1>3

(* Every byte of the file is written when its length is not a multiple of  *)
(* SEGMENTDATASIZE (client.c:271-275); whole_multiple.cfg shows that the   *)
(* assumption is needed.                                                   *)
THEOREM EveryByteWritten ==
  ASSUME FileLength % SegmentDataSize # 0
  PROVE  Spec => []WholeSegmentsWritten
<1>1. Init => Inv /\ BytesAsCounted
  <2>1. Init => Len(written) = 0
    BY DEF Init
  <2>2. Init => BytesAsCounted
    BY <2>1 DEF BytesAsCounted
  <2> QED BY <2>2, InvInit
<1>2. Inv /\ BytesAsCounted /\ [Next]_vars => (Inv /\ BytesAsCounted)'
  BY InvNext, BytesNext
<1>3. Inv /\ BytesAsCounted => WholeSegmentsWritten
  <2> SUFFICES ASSUME Inv, BytesAsCounted,
                      NEW k \in 1 .. Len(written), k <= SegmentCount
               PROVE  written[k].bytes = BytesOfFileIn(k - 1)
    BY DEF WholeSegmentsWritten
  <2>1. k \in Nat /\ k >= 1 /\ SegmentCount \in Int
    BY SizeAssumption DEF Inv, TypeOK, SegmentCount, GetSegmentCount
  <2>2. k - 1 \in FileSegments
    BY <2>1 DEF FileSegments
  <2> QED BY <2>2, CutIsRight DEF BytesAsCounted
<1> QED BY <1>1, <1>2, <1>3, PTL DEF Spec
-----------------------------------------------------------------------------
(***************************************************************************)
(* What a step may do to a slot, and the refinement of InOrderDelivery.    *)
(***************************************************************************)

(* Only FreeSlot empties a slot, and StoreSegment fills only an empty one. *)
LEMMA SlotStep ==
  ASSUME Inv, Next, NEW j \in SlotNumbers,
         slots[j] # NoSegment, slots'[j] # slots[j]
  PROVE  slots'[j] = NoSegment /\ fetched' = slots[j] /\ slots[j] = count
<1>1. /\ slots \in [SlotNumbers -> Int \cup {NoSegment}]
      /\ currentIndex \in Nat /\ count = currentIndex
  BY DEF Inv, TypeOK, ThreadsConsistent
<1>2. slots' # slots
  OBVIOUS
<1>3. CASE StoreSegment
  <2>1. segment \in Int
    BY <1>3 DEF StoreSegment, Inv, ThreadsConsistent
  <2>2. slots[j] = NoSegment
    BY <1>1, <1>3, <2>1, WindowTyped DEF StoreSegment
  <2> QED BY <2>2
<1>4. CASE FreeSlot
  <2>1. slots[SlotOf(currentIndex)] = currentIndex
    BY <1>4, NextSlotHoldsNext DEF FreeSlot
  <2>2. j = SlotOf(currentIndex)
    BY <1>1, <1>4 DEF FreeSlot
  <2> QED BY <1>1, <1>4, <2>1, <2>2 DEF FreeSlot
<1> QED BY <1>2, <1>3, <1>4
        DEF Next, Producer, Consumer, Network, ReadSegment, DiscardSegment,
            DropLastAck, ComposeLastAck, SendLastAck, LockWindow,
            WriteSegment, UnlockWindow, EndConsumerLoop, NetworkDelivers,
            NetworkTakesAck, consumerVars

(* A stored segment keeps its slot until the consumer takes that segment,  *)
(* as the next one that it writes (slidingwindow.c:66, 75-80).             *)
THEOREM NotOverwritten == Spec => SlotsNotOverwritten
<1>1. Inv /\ [Next]_vars =>
        [\A j \in SlotNumbers : (slots[j] # NoSegment /\ slots'[j] # slots[j]) =>
           slots'[j] = NoSegment /\ fetched' = slots[j] /\ slots[j] = count]_vars
  BY SlotStep
<1> QED BY <1>1, InvHolds, PTL DEF Spec, SlotsNotOverwritten

LEMMA SubSeqOfSame ==
  ASSUME NEW S, NEW s \in Seq(S), NEW t \in Seq(S), NEW n \in Nat,
         n <= Len(s), n <= Len(t), \A k \in 1 .. Len(s) : t[k] = s[k]
  PROVE  SubSeq(t, 1, n) = SubSeq(s, 1, n)
<1>1. /\ \A k \in 1 .. n : s[k] \in S /\ t[k] \in S /\ t[k] = s[k]
      /\ Len(s) \in Nat /\ Len(t) \in Nat
  BY LenProperties, ElementOfSeq
<1>2. /\ SubSeq(s, 1, n) \in Seq(S) /\ SubSeq(t, 1, n) \in Seq(S)
      /\ Len(SubSeq(s, 1, n)) = n /\ Len(SubSeq(t, 1, n)) = n
      /\ \A k \in 1 .. n : SubSeq(s, 1, n)[k] = s[k] /\ SubSeq(t, 1, n)[k] = t[k]
  <2>1. n - 1 + 1 = n /\ (1 <= n \/ n = 0) /\ \A k \in 1 .. n : 1 + k - 1 = k
    OBVIOUS
  <2> QED BY <1>1, <2>1, SubSeqProperties
<1> QED BY <1>1, <1>2, SeqEqual

LEMMA FilePartStep ==
  ASSUME Inv, WriteSegment \/ UNCHANGED written
  PROVE  [Delivery!WriteNext]_FilePart
<1> DEFINE Record == [segment : Int, bytes : Nat]
           next == [segment |-> fetched, bytes |-> BytesToWrite]
<1>1. /\ written \in Seq(Record) /\ Len(written) \in Nat /\ SegmentCount \in Nat
      /\ Len(written) = count
  <2>1. written \in Seq(Record) /\ Len(written) = count /\ count \in Nat
    BY DEF Inv, TypeOK, WrittenInOrder
  <2>2. SegmentCount \in Nat
    BY SizeAssumption DEF SegmentCount, GetSegmentCount
  <2> QED BY <2>1, <2>2
<1>2. CASE WriteSegment
  <2>1. fetched = count /\ count \in Nat
    BY <1>2 DEF TypeOK, WriteSegment, Inv, ThreadsConsistent, SlotsHoldWindow
  <2>2. next \in Record
    BY <1>1, <2>1, SizeAssumption DEF BytesToWrite
  <2>3. written' = Append(written, next)
    BY <1>2 DEF WriteSegment
  <2>4. /\ written' \in Seq(Record) /\ Len(written') = Len(written) + 1
        /\ \A k \in 1 .. Len(written) : written'[k] = written[k]
    BY <1>1, <2>2, <2>3, AppendProperties
  <2>5. CASE Len(written) < SegmentCount
    <3>1. FilePart = written /\ FilePart' = written'
      BY <1>1, <2>4, <2>5 DEF FilePart, SegmentCount
    <3>2. next = [segment |-> Len(written), bytes |-> TotalBytesInSegment(Len(written))]
      BY <1>1, <2>1 DEF BytesToWrite, TotalBytesInSegment
    <3>3. /\ Delivery!SegmentCount = SegmentCount
          /\ \A k : Delivery!TotalBytesInSegment(k) = TotalBytesInSegment(k)
      BY DEF SegmentCount, GetSegmentCount, TotalBytesInSegment, Delivery!SegmentCount,
             Delivery!GetSegmentCount, Delivery!TotalBytesInSegment
    <3> QED BY <2>3, <2>5, <3>1, <3>2, <3>3 DEF Delivery!WriteNext
  <2>6. CASE Len(written) >= SegmentCount
    <3>1. SubSeq(written', 1, SegmentCount) = SubSeq(written, 1, SegmentCount)
      <4> HIDE DEF Record
      <4>1. SegmentCount <= Len(written')
        BY <1>1, <2>4, <2>6
      <4> QED BY <1>1, <2>4, <2>6, <4>1, SubSeqOfSame
    <3>2. Len(written) = SegmentCount => SubSeq(written, 1, SegmentCount) = written
      BY <1>1, SubSeqFull
    <3>3. FilePart' = SubSeq(written', 1, SegmentCount)
      BY <1>1, <2>4, <2>6 DEF FilePart, SegmentCount
    <3>4. FilePart = SubSeq(written, 1, SegmentCount)
      BY <1>1, <2>6, <3>2 DEF FilePart
    <3> QED BY <3>1, <3>3, <3>4
  <2> QED BY <1>1, <2>5, <2>6
<1>3. CASE UNCHANGED written
  BY <1>3 DEF FilePart, SegmentCount, GetSegmentCount
<1> QED BY <1>2, <1>3

(* The two threads of the client implement the in-order delivery of the    *)
(* file: up to its length, what they write is the file, whatever the child *)
(* sends from beyond its table (server.c:393) and in whatever order.       *)
THEOREM ImplementsDelivery == Spec => DeliverySpec
<1>1. Init => Delivery!Init
  BY SizeAssumption, EmptySeq
     DEF Init, Delivery!Init, FilePart, SegmentCount, GetSegmentCount
<1>2. [Next]_vars => WriteSegment \/ UNCHANGED written
  BY DEF Next, vars, Producer, Consumer, Network, ReadSegment, StoreSegment,
         DiscardSegment, DropLastAck, ComposeLastAck, SendLastAck, LockWindow, FreeSlot,
         UnlockWindow, EndConsumerLoop, NetworkDelivers, NetworkTakesAck, consumerVars
<1>3. Inv /\ [Next]_vars => [Delivery!WriteNext]_FilePart
  BY <1>2, FilePartStep
<1> QED BY <1>1, <1>3, InvHolds, PTL DEF Spec, DeliverySpec, Delivery!Spec
=============================================================================
