# Verification of the reliable file transfer over UDP

The repository holds two programs for Solaris/Linux, `client` and `server`. A client asks a
server for a file by UDP; the server forks a child that sends it in 512-byte segments with
TCP's means (cumulative acknowledgements, advertised window, slow start, fast retransmit,
retransmission timer, window probes), and both close with a FIN/ACK exchange. This directory holds TLA+ modules of
those mechanisms, TLC configurations that check them on small instances, and TLAPS proofs of
the main invariants for all values of the constants.

## 1. Inventory

| Component | State | Operations | What makes it correct | Status |
|---|---|---|---|---|
| Segmentation (`GetSegmentCount`, `InitializeFileSegmentInfo`; client.c:257, 272) | table `fileSegment` | compute number, offset and length of segments | both ends agree; no byte is lost | modelled: `Segmentation` |
| Sliding window (`slidingwindow.c`) | `slidingWindow`, `currentIndex` | add, fetch and remove, next request, free space | a slot is never overwritten; requests are cumulative | modelled: `ReceiveWindow` |
| Client threads (`ProducerMainThread`, `ConsumerThread`, `SendClientAckWithLoss`) | mutex, `lastack`, counters, received file | read a segment, store, acknowledge; drain, reopen the window | in-order delivery; a closed window is reopened; both threads end | modelled: `ReceiveWindow` |
| Server child (`HandleFileTransmission`, `SendSegment`, `clientWindowProbe`, `signal_alarm`) | `index`, `cwindow`, `ssthresh`, `lastAckReceived`, `duplicateAck`, `ack`, timer | cycles of sending and counting acknowledgements, fast retransmit, timeout, probes | windows within bounds; what is taken as acknowledged is held by the client; it ends | modelled: `SendFile` |
| Round-trip estimator (`rtt.c`) | `struct rtt_info`, interval timer | init, start, stop, timeout | timer within limits; estimators within the measurements | modelled: `Rtt` |
| Close (`ActiveClose`, `PassiveClose`) | `currentState`, `numRetry`, `twoMSL` | FIN, ACK, repetition, TIME_WAIT | neither concludes a falsehood; both end; TIME_WAIT is long enough | modelled: `Close`, `TimedClose` |
| Client and child together | the datagrams between them | all of the above | delivery; an acknowledged close means a written file | modelled: `FileTransfer`, `Connection` |
| Server main loop, table of known clients, port handshake | `cliInfo`, children | receive request, fork, answer with a new port | one child per client; a window is only taken from a connected client; all waiting of the handshake ends | modelled: `Rendezvous` |
| Client `main`: request and retries | `numRetry`, `timeout` | send request, await port, reconnect | ends connected to its own child or gives up | modelled: `Rendezvous` |
| Choice of addresses (`GetClientIPAddress`, `BindServerToUnicastInterfaces`) | interface lists | longest-prefix choice | loopback before local before remote; the child is reached where the client writes | modelled: `Interfaces` |
| Input files (`readClientInput`, `readServerInput`) | `clientInput`, `serverInput` | read lines | | not modelled: see section 8 |
| `get_ifi_info_plus.c`, `unp.h`, `unpifiplus.h` | | | | third party (Stevens) |
| `server_bkup.c`, `probe.c`, `readInput.c`, `a.c` | | | | not built: an older copy of `server.c` and experiments. `getServerLocation` and `getSubAddrLongest` of client.c are never called |

How they interact: the client's main thread and its consumer thread share the sliding window
under `syncWindowAccess` (with one unprotected use, client.c:326) and share one connected UDP
socket on which both send, and, once the consumer is in `ActiveClose`, both read. The server
child is a single thread interrupted by its own `SIGALRM` handler, which jumps back to the
`sigsetjmp` of the current cycle from wherever it was. The two processes talk only through
datagrams. A `ClientAck` serves as acknowledgement, window update, FIN and ACK alike; only its
first word tells them apart, and the server's data loop does not look for FIN.

Hard behaviour: loss in both directions (UDP's own and simulated), repeated and reordered
segments and acknowledgements, two threads and an unprotected read, a timer that
interrupts any statement, uninitialised variables (`set_alarm`, `ack`, `rset`), a function
without a return statement, closing that overlaps the transfer, a handshake of single datagrams
with ports that are given out again, and retry limits everywhere.
`PROJECT.json` lists each at its line under "hazards".

## 2. Modules and how they correspond to the code

**`Messages`** — what a datagram is. A segment is its kind and its number, an acknowledgement
its three fields; contents of the file are not modelled, since no control depends on them.
`FIN_REQUEST` and `ACK_REQUEST` (0xffffffff, 0xfffffffe) are -1 and -2: a
probe for segment `0xffffffff` and a FIN are thus the same first word, as they are on the wire.

**`Segmentation`** — the number of segments and the bytes each has, as the code computes
them, and `BytesOfFileIn`, the reference they are compared with.

**`ReceiveWindow`** — the client during the transfer. Actions of the main thread: `ReadSegment`
or `DiscardSegment` (Read, size check, simulated loss), `StoreSegment` (the critical section),
`ComposeLastAck`/`SendLastAck` or `DropLastAck` (the final acknowledgement, composed after the
mutex was released: two reads of the window, two steps). Actions of the consumer: `LockWindow`,
`FreeSlot` and `WriteSegment` (two steps, because the producer's unprotected reads can come
between them), `UnlockWindow`, `EndConsumerLoop`. Modelled alone it accepts any datagram of the
constant `Datagrams` in any order, any number of times.

`SlidingWindowGetNextAckIndex` (slidingwindow.c:40-48) has no return statement after its loop;
what it yields on a full window is left to the build, so it is a constant: `FullWindowReturn` is
`"next"` (the value that the callers rely on), `"last"` (the index that the loop
tested last, what gcc -O1 and -O2 leave in the register on x86) or `"size"` (the loop's bound, gcc -O0). `"next"` is what the comment at utility.h:39 asks for; no compiler is known to make it, but
the missing return leaves it possible. A theorem that does not hold for all three says so.

**`InOrderDelivery`** — the abstract specification: segments are written one after the other,
in order, with the bytes that the code gives each. `DeliverySpec` is the refinement by the client alone, `FileInOrder` that by the whole transfer: since the child may
send from beyond its table (server.c:393), both speak of `FilePart`, what was written up to the length of the file.

**`SendFile`** — the server child: one action for each stretch of `HandleFileTransmission` and
`clientWindowProbe` between the points where the timer can interrupt it or a datagram is read.
`Timeout` is the handler, `sigsetjmp` branch included. `AlarmMasked` says whether the
never-initialised `set_alarm` (server.c:365) has SIGALRM in it, and thereby where `Timeout` can
happen (`Interruptible`); `UninitialisedAcks` is what `ack` may hold before anything was read, with
`LargestWindow` as the bound of its window; `Requests` are the numbers a client may ask for, those of a FIN and an ACK
included. The sending loop tests before it sends (`SendNext`), and starts the timer when it has sent its window (`StartTimer`). `FailedRead` is a read that returns an error (the client
has ended, for instance): the loop handles the acknowledgement read before once more
(server.c:455), or what the stack holds. `SendSegment` indexes the table without a check: out of range, the child sends what it finds there or
dies (`CrashOutsideFile`). A window of 0 from the handshake is assumed not to be: a child that was told none (server.c:269-283, see `Rendezvous`) sends
nothing in its cycles, and in its timeouts the segment that the uninitialised `ack` names, up to their limit.

**`FileTransfer`** — both, joined by two queues that lose datagrams and let them overtake each other (`NetworkReorders`): it
extends `ReceiveWindow` and instantiates
`SendFile` on its queues, in the place of the network. `Requests`, the client that `SendFile` assumes, has a use here only in
`ChildSpec`, which compares the transfer with it; `Datagrams` has none. **`Connection`** — `FileTransfer`
and `Close` on the same sockets: the consumer calls `ActiveClose` while the main thread may
still be reading; the child calls `PassiveClose` from its loop; whatever is queued is read by whoever reads next. Reads fail and writes may end the child
once the client has gone. An acknowledgement of either thread that meets an ended child comes back as an error (`AckRefused`), which ends the
client at the main thread's next Read (`ProducerDies`, client.c:313), unless a plain `write` takes it first.

**`Close`** — `ActiveClose` and `PassiveClose`, one action per branch. Any wait may time out,
since answers may be late as well as lost. A datagram to a process that has ended brings an error
back, and the next wrapped `Read` or `Write` ends the sender (`refused`, `ClientDies`,
`ServerDies`). `StrayDescriptor` is what the uncleared `rset` of `ActiveClose` contains.
**`TimedClose`** adds the seconds of both Selects. Its network is `prompt`, each datagram arriving within its second and in its turn, or it is
not: datagrams overtake each other (`OutOfTurn`) and any wait may time out. `TimedInv` is the invariant over both.

**`Rtt`** — `rtt.c` as the server child uses it: every `rtt_stop` gets `tsend - trecv`, the
negative of the time that went by, as an unsigned number that is stored in an int. The order of
calls is left free; integer division and the unsigned wrap are kept.

**`Interfaces`** — the choice of addresses as operators: `GetClientIPAddress` is the client's one
pass over its interfaces (`TakeDefault`, `TakeSameHost`, `TakeLocal` are its three ifs, in order; `Pass` is a
recursive function, so that it can be proved about),
`BindServerToUnicastInterfaces` the server's table, `ChildAddress` the child's search in it.
`RightAddress` is the reference, told without a pass.

**`Rendezvous`** — from a client's first request to the handshake acknowledgement. The server
(`HandleRequest`: one turn of its loop, table of known clients included), the children it forks
(`ChildFails`, `ChildAnswers`, `ChildReadsAck`, `ChildReadsOther`, `ChildTimeout`) and the clients (`StartClient`,
`SendRequest`, `RequestTimeout`, `ReadAnswer`, `ReadError`, `Acknowledge`, `GiveUp`, and `ClientDies` for the
first failing Read) are processes. `known` is `cInfo`; `requests`, `answers` and `acks` are the
datagrams under way; `children` is what was forked, with the window each has been told; `host` and
`port` say where a client's socket is bound, `peer` the port it reconnected to, `refused` whose
datagram came back as an error. A child's number stands for its ephemeral port. `ChildReadsOther` is
the datagram of another size, from anybody, that a child's still unconnected socket may get: server.c:269-275 counts it and falls through to the transfer, with the
window 0 the child was born with. `prompt` says that
whatever is not lost arrives and is handled within three seconds, `unlucky` names the clients whose handshake a loss, a failure or such a stray datagram
has hit: the two variables are history and assumption, no action but the time limits depends on them. `Alone` says of a client that its address
and port are no other client's, an earlier one's included: what the code does to one that is not `Alone` is in the model (`HandleRequest` ignores it) and among the observations of section 3.
`SelectKeepsTimeout` says whether `select` leaves its timeval alone (client.c:169 does not set it again), `BigEndian` whether
`htons` changes a number.

`MC*` modules give values to constants that a configuration file cannot write. Definitions marked "Mutation" are plausible wrong versions of the
definition that follows; nothing in a specification uses them. They show that the run would catch that mistake (`PROJECT.json`, "mutants").

## 3. Runs

| Run | Shows | Instance |
|---|---|---|
| `window` | consistent window (`Inv`), order, cumulative requests, right end, credit within the window, closed windows reopened, requests sent never go back, all bytes written, refinement of `InOrderDelivery`, slots not overwritten, requests ask for what is missing while the window has a hole (`OpenWindowAsksForMissing`); both threads finish | 3 segments, window 2, 2 queued, `"next"`; the file's segments and a FIN, any order and number |
| `send` | the server child against any acknowledgement, FIN or ACK, in any order, and failing reads: no empty cycle, windows bounded, give-up counters, less than a window sent past the end of the file | 2 segments, window 2, SIGALRM anywhere, garbage with a window up to 3 |
| `transfer` | what the child takes as acknowledged is held; closing starts only after delivery; the received file begins with the file; the child ends its loop, gives up or closes; the client is one that `SendFile` assumes | 2 segments (the second short), window 1, 2 queued and reordered, SIGALRM anywhere, request 0 in the uninitialised `ack`, `"next"` |
| `close` | no false conclusion; both functions end; on a prompt network TIME_WAIT outlasts PassiveClose's repetitions (`TimeWaitCoversRetries`, `TimedInv`) | the code's retry limits and seconds, prompt and not, 2 queued and reordered; a late acknowledgement and a late segment |
| `connection` | an acknowledged close means a written file; ActiveClose ends although the transfer still sends | 1 segment, window 1, `"last"`, 2 queued and reordered, one retry on each side, one TIME_WAIT |
| `rendezvous` | one child per client, a window only from a connected client, no failure of a client with a name of its own without a loss, a delay, a failure or a stray datagram, every client and child gets on or gives up, right addresses; the invariants `Inv` and `PromptInv` of the proofs | 2 clients, each near or beside the server, 1 port per host, table of 1, 2 requests |
| `rtt` | timer within limits, estimators within measurements | limits 10..30, times 0..40 |

Five runs end in a counterexample; each is a disagreement between the code and one of its own
comments or messages, quoted under "findings" in `PROJECT.json`:

- `whole_multiple`: the last segment of a file whose length is a multiple of 508 is given
  `length % 508 = 0` bytes, so the received file lacks one segment.
- `full_window`: slidingwindow.c:48 has no return statement. In a build that leaves the index tested last in the register, as x86 gcc does at the `-O2`
  of the Makefile, a full window is acknowledged by asking for its last segment, which the client holds, and with a window of 1 instead of 0;
  utility.h:39 says of that field "What does client need".
- `transfer_complete`: an acknowledgement with window 0, and the answers to its probe, end a cycle without being
  recorded; the next cycle counts the client's unchanged request as new, and the loop can end
  ("File transfer complete") while a lost segment is missing.
- `connection_fin`: a FIN read by the data loop looks like a closed window; it is probed with
  segment -1, whose first word the client takes for the server's FIN and acknowledges.
- `rendezvous_address`: the child binds its socket to the interface that the client is local to, the
  client changes only the port of the address it has (client.c:188). If `client.in` names another interface
  of the server, the acknowledgement goes to a socket that does not exist.

More observations came up in modelling and have no run:

- With `FullWindowReturn = "size"` (gcc -O0) a full window is acknowledged by asking for the number of its slots, an old segment once the file is longer
  than the window: `AcksNeverGoBack` fails on a longer file (6 segments, window 3).
- The child takes every request but the one on record for new (server.c:474-498), also one that the network delivers late: it then goes back to an old
  record and counts an answer too many. What it takes as acknowledged is still held (`AcknowledgedIsHeld`).
- A client that gets the address and port of an earlier one is ignored: no entry of the table of known clients is ever removed, and server.c:108
  takes its requests for repetitions. It gives up after its twelve requests (`HandshakeEnds`); nothing was lost. `PromptHandshake` excludes this case by `Alone`.
- A datagram of the wrong size at a child's socket, before it is connected, starts the transfer with window 0 and perhaps no client (server.c:269-283).
- The final acknowledgement is composed after the mutex was released (client.c:326); its request may name the
  segment that the consumer is just removing. The server looks at `lastack_sent` first, so
  this is harmless.
- The sending loop (server.c:393) has no check against `totalNumSegments`: a cycle that starts
  near the end sends segments that the file does not have, from beyond the table. The client stores them if they fall into its window
  and its consumer, which drains the window before it looks at its count, writes them. `OverrunWithinWindow` limits this to less than a window,
  and `FileInOrder` says that it comes after the file, never in it.
- rtt.c:119 doubles the timeout and rtt.c:121 overwrites it: there is no back-off.
- server.c:495 measures `tsend - trecv`: every measurement enters the estimator negated.
- The handshake works only where `htons` is the identity: the port goes through it three times
  (server.c:236 and 242, client.c:185 and 189), so that with `BigEndian = FALSE` `PromptHandshake` fails. `GetClientIPAddress` compares masks as numbers in network
  order, too; but masks of leading ones are ordered alike in both orders of bytes, so that its choice is right on either machine.
- On Linux `select` stores the time that was left, so that after the first time limit all further requests go out at
  once; `SelectKeepsTimeout = FALSE` still satisfies the properties of `rendezvous`.
- After an error, client.c:176 goes on with a structure that was never filled in.
- A full table (server.c:621) forgets new clients: each repeated request then forks another child.
- The handshake acknowledgement is sent once: when it is lost, the child gives up and the client waits for ever (client.c:311).

## 4. Bounds and why they are enough

- `SegmentDataSize` is 2 instead of 508 and files have 1 to 3 segments; the lengths are chosen so
  that the last segment is short, or full in `whole_multiple`. The code distinguishes only
  inside/outside of the window and last/not last. In `window` and `transfer` the file has one
  segment more than the window, so that slots are used again and a window does close. A window of 1 (`transfer`, `connection`) is what reordered queues of two
  leave room for; windows of 2, in which segments meet out of order, are in `window`, `send`, `full_window` and `transfer_complete`, and the theorems about
  the compositions hold for all. `connection` takes the other build, `"last"`: a full window still shows a slot and asks for the segment it holds,
  and the only window of 0 that the child reads is that of the client's FIN.
- `SocketBuffer` is the number of datagrams queued per direction; a full buffer drops. Two are enough for one to overtake another, and for two of
  one sender to meet (`window`, `transfer`, `close`, `connection`). One is left in `send`, where any
  acknowledgement may come at any time, and in two counterexamples that need no more.
- `RTT_MAXNREXMT` (12) and the limit of probes are 1 in `SendFile`: one retransmission and one probe,
  then the limit. The close runs use the code's own limits 3, 2 and 2; `connection` uses 1, 1 and 1, since the loops
  differ only in how often they turn: one FIN each, and one turn of TIME_WAIT.
- `duplicateAck` stops at 3 and `totalToRecv` at one past `totalToSend`. Both are only compared with
  `== 2` and `== totalToSend`, so that larger values behave alike.
- `rendezvous` has two clients that may run at once or one after the other, each on a host in one of the
  server's networks or on the server's own; a host in none of them is in `rendezvous_address`, and in the theorems. One ephemeral port per host makes a later client get an
  earlier one's port, and a table of one entry is full after the first client. `MaxRequests` is 2 instead of 12: a
  retry, and giving up. Addresses have 4 bits; the hosts' tables have nested networks, two of equal size, and none that fits.
  `ClientAddressIsRight` is thus checked on these tables and proved for all.
- `MCRequests` of `MCFileTransfer` goes a window past the end of the file: the client asks for nothing beyond the segment after its window, and `ChildSpec` would
  fail if it did. That of `MCSendFile` has one segment of the file and one number that is none (a FIN's).
- `Rtt` divides the limits by 100 and has a word of 7 bits; the proofs cover all values.

`CHECK_DEADLOCK FALSE` is set where the programs end, or where the client is left waiting in
`Select` without a time limit after the child has gone (client.c:311), which the code does allow.

## 5. Network and environment assumed

UDP loses datagrams and delivers them in any order: in `SendFile`, `FileTransfer`, `Connection` and `Close` whatever is queued may overtake what was
sent before it (`Overtakes`), except on the prompt network of `TimedClose`; in `Rendezvous` the datagrams under way are sets and counts. The client
alone (`window`) is given its segments in any order and any number. Its queue of acknowledgements keeps the order in which they were
sent, because `AcksNeverGoBack` is about that order; `advertised` is the window an acknowledgement was to announce, whether or not client.c:237-240 then
drops it. `PossibleAcks`, the acknowledgements that `SendFile` alone is answered with, ask for any of `Requests` with any window up to
the client's.

That environment is not taken on trust. `ChildSpec` says that in the transfer the client's threads send the child nothing but
`PossibleAcks`; it is checked, and proved, except for
a build of `"size"`, which announces more than the window for a full window that has moved on far enough. Otherwise
what is proved of the child alone holds of it in the transfer. The FINs and ACKs that its loop may read too are in `Requests` of the run `send`.

`"next"`, the build of `window` and `transfer`, is one that the missing return leaves possible and that no compiler is known to make. It is the only one in which
a window closes: `ZeroWindowIsReopened` and `WindowReopens` say nothing in `"last"`, where a window of 0 is announced only by a FIN.

`htonl` (client.c:241-242) is the identity in these modules, since the child uses both words as they come: they describe the Solaris/SPARC machines that the
Makefile has in mind, or any other of that order of bytes. Where it is not the identity, the handshake fails already: `NoTransferIfSwapped` proves that no child is
then told a window. (A port whose two bytes are alike, or a swapped port that is another live child's, is not modelled.)

## 6. Fairness

- `ReceiveWindow!FairSpec`: both threads are scheduled, the producer reads what is queued, and both get the mutex (the consumer sleeps
  without it, so its being taken infinitely often still leaves the producer infinitely many
  chances: strong fairness), and a segment sent over and over is at some time not dropped, the loss
  probability being below 1.
- `FileTransfer!FairTransfer`: the child and the consumer thread are scheduled, and the consumer gets the mutex (strong fairness of `LockWindow`, as above): with a
  closed window and a consumer that never drains it the child would probe, and be answered, for ever. Of the main thread nothing is assumed. No fairness is assumed of the network: each message may be lost for ever, and then the
  limits of retransmissions and probes must end the loop. `SIGALRM` and the probe's Select time
  out in the end because the kernel's timers do (weak fairness of `ServerStep`).
- `Rendezvous!FairSpec`: the server's loop, each client and each child is scheduled, and a time limit runs
  out when nothing comes. Clients need not start, the server need not run, and the network owes nothing.
- `TimedClose!FairTimed` and `Connection!FairConnection`: the processes take steps when they can; a
  Select that gets nothing times out (on a prompt network when its seconds have gone by, and time passes). Of `Connection` only the consumer thread in `ActiveClose` is assumed to be scheduled. `CloseEnds` speaks of `PassiveClose` from its first FIN on, because the read of that FIN has no time limit.

## 7. Proofs

TLAPS checks every theorem for all values of the constants allowed by the named `ASSUME`s; further hypotheses are
stated in the theorem and named here.

**`ReceiveWindowProofs`**
- `InvHolds`: the inductive invariant `Inv` is `TypeOK`, `ThreadsConsistent` (owner of the mutex and place of the consumer
  agree; `count = currentIndex`), `SlotsHoldWindow` (slot j holds a segment of `[currentIndex, currentIndex + WindowSize)`
  congruent to j; the slot being removed is free) and `WrittenInOrder`. Order alone is not inductive: that the consumer
  writes segment `count` follows only from what the slots hold. From it: `InOrder`, `NotOverwritten`.
- `Cumulative` and `LastAckIsRight` carry a stronger invariant: everything below any request ever sent or composed is held for good.
- `CreditIsCovered`, `NeverGoBack`, `AskForMissing` rest on one description of what a step does to the queue
  of acknowledgements (`QueuedAck`): an acknowledgement is the final one, or both its numbers were read
  from one state of the window under the mutex. `AskForMissing` (`OpenWindowAsksForMissing`) holds in every build: while
  the window has a hole, the first one is what is asked for. `WindowReopens` adds that `isWindowFull` remembers a closed window while the
  consumer has the mutex. `WindowReopens` assumes `FullWindowReturn = "next"`, `NeverGoBack` any build but `"size"`: what is asked for is
  the largest cumulative request within `Reach` of the window (`NextAckIndexIsLargest`), also when a full window asks again for its last segment,
  and no earlier request was out of reach of the window as it is now (`AskedInReach`).
- `EveryByteWritten` assumes a file whose length is no multiple of the segment size (`whole_multiple` shows why).
- `ImplementsDelivery` is the refinement of `InOrderDelivery` by `FilePart`, for any datagrams at the socket, those from beyond the child's table included.

**`SendFileProofs`**
- `SenderInv`: `TypeOK`, `CycleFitsWindow` and `WindowsBounded` with `AckFitsPlace` (what the last acknowledgement says in each
  place of the code; a cycle never ends on a window of 0) and `CountersFitPlace`. The corollaries state the checked properties.
- `OverrunIsLimited`: `index` is never a whole window past the last segment. A cycle is entered only
  with the end of the file not yet reached, and sends no more than `LargestWindow`; the cycle's progress is in the invariant.

**`FileTransferProofs`** — client and child together.
- `Acknowledged`, `ClosesAfterDelivery`: the client's invariant is used as it is, since a step of the client is one of `ReceiveWindow`
  and a step of the child (`ChildMoves`) or of the network only moves the queues; whatever overtakes what, the queue has what it had (`OnlyOf`), and nothing above depends on its order. To it comes: a final acknowledgement under way
  means that all is held, and so does one that was read (`FinalMeansAllHeld`, `AcknowledgedIsHeld`); an acknowledgement read with an open
  window is covered (`AckIsCovered`; what the stack holds before the first has none).
- `TransferHasTheChild`: in every build but `"size"` the transfer implements `SendFile`, if `Requests` has every natural number.
  A theorem of a module that is instantiated cannot be cited through the instance, so this is a simulation step by step.
- `TransferDelivers`: the refinement of `InOrderDelivery` with no hypothesis, neither on the build nor on what lies beyond the table.
  The slots' invariant orders what is past the end like the rest, so that it follows the file.

**`ConnectionProofs`** — the transfer with the closing on the same sockets.
- `AckedMeansWritten`: the transfer's invariant survives FINs and ACKs in the queue, because
  they ask for nothing and the file is written by then; only `ActiveClose` sends them, and it starts with the file written (`ClosingInv`).
- `CloseMeansDelivered` (for a file whose length is no multiple of the segment size): a `PassiveClose` that answers a FIN answers a client that has
  written every byte of the file, and one that returns on the ACK was told so by a client that has read a FIN. That FIN need not be
  the server's (`connection_fin`): a probe or a repeated segment can bear the number of a FIN that the child took for a request.
- `AcknowledgedWhileClosing`, `InOrderToTheEnd` and `ConnectionDelivers`: the main properties in this composition, failing reads and a dying child included.

**`CloseProofs`**
- `CloseInv`, strengthened with `AnswersOnTheirWay` (a FIN or ACK under way was sent after the event it acknowledges) and
  `RetriesLeft`; from it `ClientConcludesRightly` and `ServerConcludesRightly`, for every `StrayDescriptor` and every order of arrival.
- `TimeWaitCovers`, for all limits and seconds with `(PassiveRetries - 1) * PassiveWait < TwoMSL * ActiveWait` (`TimeWaitLongEnough`;
  3 < 4 in the code). With equality TLC finds a reply to a client that has left, so the bound is sharp. `TimedInv`
  (theorem `ClocksInStep`) says that at the client's entry into TIME_WAIT a reply of `PassiveClose` has just been sent or is due (`LastReplyInTime`), and compares
  from then on the seconds left of its retries with those left of TIME_WAIT. This part (`InStep`) is claimed of the prompt network only, where time passes with empty queues, hence nothing can arrive late.

**`RendezvousProofs`**
- `RendezvousInv`, with `OneChild` and `TransferConnected` as corollaries. The properties are
  not inductive: `ServedOnce` adds that who has a child is known or the table is full; `PeerIsOwnChild` and `AcksFromConnected` that only the
  client a child was forked for can hold its port and acknowledge; `TransfersHaveClients` names the client of every child that was told a window (one that a stray datagram started was told none); `IdleIsFresh`, `KnownHaveStarted`, `WaitingHasTries` and
  `RefusedFits` say what cannot have happened yet.
- `PromptHandshakes`: in a prompt network a client with a name of its own (`Alone`) that no loss, failure or stray datagram has hit does not give up and its child does not
  wait in vain, whatever happens to the others. Hypotheses: `BigEndian` and `AddressesAgree` (the child's
  socket is where the client writes; `rendezvous_address` shows why). The module `MCRendezvous` asserts the second of its hosts. `PromptInv` (theorem `PromptOnCourse`) follows such a client
  through the handshake: its one request, its one child, the answer and the acknowledgement are each in exactly one place (`OnCourse`).
  That a client is alone is a condition of the property, not a result: the code does ignore one that is not.
- `NoTransferIfSwapped`: without `BigEndian` no child is ever told a window. Every port a client reconnects to is the negative of a child's, or nobody's.
- `ClientAddressRight`, by `AddressChoice` below.

**`InterfacesProofs`** — `AddressChoice`: `GetClientIPAddress` finds the address that `RightAddress` names, for every table and every server.
What holds after n interfaces (`RightSoFar`) is shown for all n by the smallest counterexample, since the library's induction cannot be used here.

**`RttProofs`** — `TimerIsSane` and `EstimatorsStayBounded`; the key lemma is that a step of one
n-th of the way, cut towards zero, stays between both ends.

Out of the prover's reach and left to TLC: liveness under fairness (`BothThreadsFinish`, `TransferEnds`, `CloseEnds`,
`ActiveCloseEnds`, `HandshakeEnds`). Every safety property of the passing runs is also proved.

## 8. What is left out

- Contents of segments and the wording of output. `FileSegment.totalTransmissionCount` is written and never used.
- In `Connection` a read fails only once the client has gone, and the child may then also end at any time
  (`ChildDies`: a failing `Write` ends it), which is more than the code does.
- Not modelled: `readClientInput` and `readServerInput`, which parse a file line by line before anything else
  runs and share no state with it; a model would restate the parsing. Two things to know: a
  last line without newline is dropped (`feof`), and client.c:524 tests for an empty line before it removes the newline.
- In `Rendezvous`: a stray datagram that has the size of an acknowledgement (only strays of another size are modelled), the file's length, which the handshake carries too (a missing file sends -1; client.c:208 and server.c:283 leave out
  `ntohl`), socket options (`SO_DONTROUTE` is set with the value 0, server.c:228) and the wrong operator at server.c:188. Without a local interface the
  search ends at an entry past the table; its address is taken to be the one for any interface.
- `Rendezvous` and `Connection` are not joined: the transfer starts with a child that was told a window, and `TransferMeansConnected` says by whom.
- How long timers run, except for `TimedClose` (a datagram takes less than a second; a process
  with something to do does it at once) and the limits in `Rtt`.
- `finRead` in `Connection` records FINs read by `PassiveClose` only. `StrayDescriptor` is `"none"` in the runs and in
  `Connection`: with `"readable"` `ActiveClose` would never see a time limit, and `CloseEnds` would not hold.
- In `connection` `AlarmMasked` is TRUE: a timer that interrupts PassiveClose is left to `send` and `transfer`.
- A file of length 0 (no segment): the consumer closes at once while the producer waits without a limit.

## 9. Plan

Done: all modules above, each with the proofs of its safety; the refinements of `InOrderDelivery` by the client, the transfer and
the connection, and of `SendFile` by the transfer.

Left:
1. `Rendezvous` joined with `Connection`, to see a second client reuse the port of one that is still being sent to.
2. A variant of `Close` in which a datagram can be lost after it was queued. As it is, `Connection` does not implement `Close`: a child still in its
   transfer may read the client's first FIN as data, and `Close` knows only losses on sending.
3. What takes the place of `ZeroWindowIsReopened` in the build `"last"`, in which a window is never advertised as closed, and
   of `AcksNeverGoBack` in the build `"size"`.
4. What a child does that was told a window of 0 (server.c:269-283), which `SendFile` excludes by its assumption on `ClientOriginalWindow`.
