# Verification of na62-farm-lib-networking

The library connects the programs of the NA62 trigger farm to the network.  It
sends L1 data requests to the detectors, owns the network card, and talks to
the program that controls the farm.  This project models its concurrent parts
in TLA+, checks them with TLC on small instances and proves the most important
properties with TLAPS for all instances.

## The system

| part | state | operations | hard behaviour |
|---|---|---|---|
| **NetworkHandler** (`socket/PFringHandler.cpp` or `socket/PCapHandler.cpp`, `socket/NetworkHandler.h`, `socket/PFring.cpp`) | queue `asyncSendData_`, counters, one ring per queue | `AsyncSendFrame`, `DoSendQueuedFrames`, `SendFrameConcurrently`, `send_packet`, ARP thread; `GetNextFrame` | many threads take from one queue; a container says who frees the buffer; the ARP thread enqueues one buffer over and over; a full queue blocks; failing sends |
| **L1DistributionHandler** (`l1/`) | `multicastMRPQueue`, the thread's list, destination headers, statistics | `Initialize`, `Async_RequestL1DataMulticast`, `thread`, `Async_SendMRP` | flags read before they are acted upon; requests must be neither lost, doubled nor reordered; waiting loops |
| **IPCHandler** (`monitoring/`) | six socket pointers, six activity flags | `updateState`, `sendStatistics`, `sendErrorMessage`, `sendCommand`, `getNextCommand`, `tryToReceiveStatistics`, `tryToReceiveState`, `setTimeout`, `shutDown` | lazy creation of sockets by whichever thread comes first, exceptions half way, shutdown while calls are under way |
| **ZMQHandler** (`socket/ZMQHandler.cpp`) | context, `running_`, `allSockets_`, `boundAddresses_`, `connectMutex_` | `Initialize`, `Stop`, `shutdown`, `GenerateSocket`, `DestroySocket`, `BindInproc`, `ConnectInproc`, `sendMessage` | the deletion of the context waits for every socket; connecting waits for another thread to bind; exceptions under a lock; a socket destroyed under its owner |
| **DimListener** (`dim/`) | six `DimInfo`s, six vectors of callbacks | constructor, `register...Listener`, `infoHandler`, getters | DIM's thread calls `infoHandler` while the farm's constructs and registers; conversion of DIM values |
| **frame formats, EthernetUtils** (`l1/MRP.h`, `structs/Network.h`, `socket/EthernetUtils.*`) | none | header generation, checksums, lengths | 16-bit fields, padding |

Interaction: worker threads of the farm call `Async_RequestL1DataMulticast`,
which pushes a trigger into `multicastMRPQueue`.  The distribution thread
collects triggers and packs them into one multi request packet (MRP) per
destination, and calls `NetworkHandler::AsyncSendFrame`, which blocks while
`asyncSendData_` is full.  Packet handler threads of the farm call
`DoSendQueuedFrames`.  The ARP thread uses the same queue.
`BurstIdHandler::flushBurst()` (farm-lib) is true for a while between bursts.
IPCHandler and ZMQHandler are independent of this path; the main thread of the
program calls `ZMQHandler::Stop`, `IPCHandler::shutDown` and
`ZMQHandler::shutdown` at its end.

What makes the parts correct: buffers are freed exactly once, after sending,
and are not used afterwards; every accepted request is handed to the send queue
for every destination once and in order, unless its burst is flushed; counters
count what happened; nothing waits for ever; sockets are used only while they
are open and stay reachable, and the shutdown ends.  The order ends at the send
queue: with several packet handlers a frame may overtake another between `try_pop`
and the card, so that on the wire each MRP appears once but not in a fixed order,
and not in the same order for each destination.

## Modules

| module | models | composed with |
|---|---|---|
| `NetworkHandler` | the send side of NetworkHandler, both builds (`UsePFRing`) | |
| `FrameReceiver` | the receive side of NetworkHandler, one thread per queue | EXTENDS `NetworkHandler` |
| `L1DistributionHandler` | workers, distribution thread, an abstract send queue | implements `RequestPipeline` |
| `RequestPipeline` | abstract: what happens to a request | |
| `L1System` | `L1DistributionHandler` and `NetworkHandler` sharing `asyncSendData` | INSTANCEs of both |
| `ZMQHandler` | context and socket registry | |
| `IPCHandler` | one process: callers and the shutting down main thread | EXTENDS `ZMQHandler` |
| `ZMQInproc` | `BindInproc`, `ConnectInproc`, `sendMessage` and the threads that call them | EXTENDS `ZMQHandler` |
| `FrameFormats` | triggers, headers, length fields and checksums of MRP frames | |
| `DimListener` | DimListener between DIM's thread and the farm's | |
| `NetworkHandler_proofs`, `FrameReceiver_proofs`, `L1DistributionHandler_proofs`, `ZMQInproc_proofs`, `IPCHandler_proofs`, `FrameFormats_proofs`, `DimListener_proofs` | theorems and lemmas | EXTEND the component |
| `L1System_proofs` | theorems about the composition | EXTENDS `L1System`, INSTANCEs of the two components' proofs |
| `MC*` | instances for TLC | |

Definitions whose comment begins with "Mutant" are altered forms of the
definition that follows them; no specification uses them.  They record a
plausible mistake that the properties detect.

### NetworkHandler

A buffer is a `new char[n]`; `heap` is the set of allocated buffers, and a freed
buffer may be handed out again.  A frame is a `DataContainer` with buffer, length
and `ownerMayFreeData`.  `AsyncSendFrame` and `SendArp` push; push blocks at the
capacity, which only PFringHandler.cpp sets.  `DoSendQueuedFrames` is cut at
every access to shared state: `TryPop`, `CountFrame`, `Transmit` or `Refuse`,
`FreeFrame`.  `Refuse` is the 1500 byte limit of `PFring::send_packet`, or a
failing `sendto` in the PCap build.  A failed `pfring_send` is repeated by the
code and changes nothing.  `framesSent` is raised as the code does: once per
frame by PFringHandler.cpp (line 181), twice by PCapHandler.cpp (lines 161 and
188).  `FramesAccounted` compares the counter with the frames in the PF_RING
build only; that no frame is lost or doubled it says of both.  `GenerateArp` happens once with PF_RING and before each `SendArp`
with PCap.  Frame contents are modelled in `FrameFormats`, here only lengths.

### FrameReceiver

The farm starts one packet handler per receive queue (`Running`); each calls
`GetNextFrame` and `DoSendQueuedFrames` in turns.  `Receive` puts a frame into
the buffer of the call: the ring's own slot with PF_RING, the static
`recvBuffer_` with PCap.  `CountReceived` is the two atomic counters, whose order
differs between the builds and makes no difference; `Processed` ends the use of
the buffer.  A call that times out changes nothing.  `arrived` records the sizes
of all frames; `ReceivedExact` compares `bytesReceived_` with the sum over those
that no thread is just receiving (`Countable`).

### L1DistributionHandler

Requests are numbered in the order of their pushes.  The worker's flush check
and its push are two steps.  The thread is cut at every read or write of shared
state: the condition of the collecting loop (`Collect`), `flushBurst()`
(`ReadFlush`), the `try_pop` next to it (`Drain`, `DrainEmpty`), the waiting
`try_pop` (`PopRequest`), the branch (`Decide`), packing (`PackMRP`), and one
`SendFrame` per destination.  `drained` is the request that the flush loop deleted
last in this pass of the collecting loop; `WaitsOnlyAfterDrain` says with it that
the waiting `try_pop` finds no request only when this very pass emptied the
queue, whatever was flushed before.  Sleeps are not modelled: any step may take any
time.  The number of enqueued frames that `thread` reads only decides about a
sleep, so `Decide` does not depend on it.  The queue
`multicastMRPQueue` is unbounded in the code and in the model.
`BurstIdHandler` is external: the flag rises and falls at any moment.

`PipelineImplemented` says that all this implements `RequestPipeline`: requests
wait, a flush deletes one that waits, the oldest become a batch, each batch is
handed to every destination, and only then the next is formed.  The mapping is
`accepted` = number of pushes, `waiting` = queue and list, `flushed` = deleted
requests, `batches` = the MRPs as sets (an MRP that is packed but not yet handed
to destination 1 included), `got` = MRPs per destination.  The abstract fairness
(a formed batch reaches every destination) follows from that of the thread, of
`SendFrame` and of `TakeFrame`.

### L1System

Every step is a step of one component that leaves the other's state alone, or
`SendFrame`, which is `L1!SendFrame` and `Net!AsyncSendFrame` at once.  Frame
buffers are named by their contents, so that the two components' frames agree.
`L1Implemented` says that the system implements the specification of
`L1DistributionHandler`: the packet handlers and the ARP thread are the
environment (`TakeFrame`, `OtherFrame`) it was specified with.

### ZMQHandler and IPCHandler

Sockets are numbers in the order of creation, never used again, so that a
dangling pointer can be told from a valid one.  A call is cut at `IsRunning()`
(`Call`), the pointer check (`CheckPointer`), each of the six steps of
`connectClient`/`bindServer` (`GenerateStep`, `ConnectStep`, `ConnectFails`), the
raising of the flag with the use of the socket (`BeginUse`), and its outcome
(`Send`, `Receive`, `ReceiveTimeout`, `Interrupted`, `Fails`, `ClearPointer`).
`UseDestroyed` and `DestroyTwice` record undefined behaviour, after which that
thread takes no step.  `CallsMade`, which `MaxCalls` bounds, counts the calls of all
threads together.  `setbacks` counts what may leave a socket without a pointer:
a first call that starts to connect while another does, a `connectClient` or
`bindServer` that fails, and a pointer that a failed call clears.
`OrphansAccounted` bounds the open sockets that `shutDown` cannot reach by three
for each of these, for overlapping and failing calls and a shutdown at any
moment; without a setback there are none.  ZMQ is external: a send on a socket without a connection
blocks, an address can be bound once, a call on a terminating context fails with
ETERM, any call may fail (at most `MaxErrors` times).  `shutDown` reads a flag and
destroys a socket in two steps.  That `Stop`, `shutDown` and `shutdown` are
called in this order is the farm programs' doing.  `JoinedCallers` are threads
the main thread joins before it stops ZMQ.

Two properties of this module are narrower than their names.  `ShutdownCompletes`
says that `delete context_` wakes the threads that wait in `recv` and returns; its
premise is `OnlyReceiversLeft`: each open socket has a pointer and a thread in
`recv` on it, no thread is connecting, and no signal interrupts a call from then
on.  Sockets that are left open for another reason, orphaned ones or those of a
call that was half way, make the deletion wait for ever; `ipc_shutdown` and
`OrphansAccounted` are about those.  `MisuseOnlyIfOverlapped` speaks of
executions in which one thread makes all the calls (`SoleCaller`), and exempts a
call that was under way when ZMQ was stopped and `setTimeout` on the null
`stateReceiver_`.

### ZMQInproc

An address stands for the thread that receives on it.  `BindInproc` is `Bind` (or
`BindThrows`) and `Publish`; `ConnectInproc` is `Lock`, `Check` (which unlocks and
waits when the address is missing), `Connect` or `ConnectThrows`; `sendMessage`
is `While`, `Send`, `SendRefused`, `SendFails`.  `SendRefused` is a send with
`ZMQ_DONTWAIT` in `flags` that would block: it returns false, the loop ends and the
message is dropped.  It may happen at any time, and nothing depends on it.  `connectMutex` is the thread that holds the
mutex: it stays there when `connect` throws, as the code uses `lock()` and
`unlock()` without a guard.  The threads are the farm's: we assume that the
main thread starts them before it stops, that the owner of a socket destroys it
in the end, and that an exception from `connect` ends the thread.  Using a
destroyed socket is recorded in `misused` and stops that thread.

`ShutdownCompletes` has three exceptions, each of which the code has: a destroyed
socket that was used (`misused`), a `connect` that threw, with or without the mutex
left locked behind it, and a sender that waits in `ConnectInproc` for an address
nobody binds (`WaitsInVain`).  What is left says that senders and receivers
blocked in ZMQ, and those that wait for the mutex, end.

### FrameFormats

Frames are sequences of 16-bit words.  `MRPFrame` follows one iteration of the
loop of `Async_SendMRP`: header template, length fields, IP checksum, UDP
checksum over as many bytes as the MRP header says.  A frame to a multicast group
goes to the group's MAC address, one to a unicast address to the gateway's
(`DestinationMac`); the gateway's is a constant, as `StringToMAC` is the conversion
of a text.  Groups and unicast addresses are disjoint.  `GenerateChecksumUnwrapped`
and `Wrapsum` belong to farm-lib's DataContainer and are modelled from their use:
a one's complement sum, folded at every addition, and its complement.  The
properties compare with independent definitions: event number modulo 2^24,
last 23 bits of the group or the gateway's address, lengths from the size of the frame.  A UDP checksum
of 0, which UDP reads as "no checksum", is not replaced by 65535; `CheckUDP`
accepts it, and the run contains such a frame.  The comments at `l1/MRP.h:54`
and `:80` give 8 bytes for a header of 12; the code uses the right size.

### DimListener

The constructor subscribes to the services one by one; DIM may call
`infoHandler` from the first subscription on, but the vectors of callbacks are
members declared after the `DimInfo`s: such an early call is undefined behaviour.
So is a `push_back` that moves the vector `infoHandler` walks through; if there is
room in the vector, the new callback is not called for this update.  After
`undefined` the model takes no step, and the properties speak of behaviours
without it.  DIM delivers one update at a time.  `uint` conversion is
`% UintModulus`.  `owed` records what a listener is to be told: the update, as
the getters convert it, if it concerns the farm (`Complete`) and the listener is
registered at that moment; `told` what `infoHandler` did tell it.

## Runs

| run | shows |
|---|---|
| `net_pfring` | no use after free, no double free, no leak, frames and counter accounted for, legal frame lengths, every caller's buffer is released |
| `net_pcap` | PCap build with both halves: frames are accounted for (without the counter `framesSent_`) and freed; a received frame is intact while it is looked at, although there is one buffer; receive counters are exact |
| `net_pcap_leak` | violation: the ARP frames of the PCap build leak |
| `l1` | no request lost, used after deletion, doubled, or reordered on its way to the send queue; destinations agree; MRP sizes; the distributor's counters; the two races around `flushBurst()` bounded; every request handled; the abstract pipeline is implemented |
| `l1_skipped` | violation: a message the code does not keep |
| `l1_system` | every MRP is in one place and on the wire once (in any order), none is refused, requests reach the wire; refinement |
| `ipc` | two callers: no pointer to a closed socket is left behind; the number of sockets without a pointer; use of destroyed sockets; the deletion of the context wakes waiting receivers |
| `ipc_shutdown`, `ipc_first_calls` | violations: `shutDown` leaves sockets open; two first calls at once |
| `inproc` | no connect before the bind; destroyed sockets are used only after a failed send; a sender is connected once its address is bound; the shutdown ends, with the exceptions that `ShutdownCompletes` names |
| `formats` | frames to groups and to a unicast address are accepted and decoded as meant; every damaged word is detected; lengths are exact for every frame that can be sent |
| `dim` | every listener is told every update since its registration, once, in order, and in the end |

### Bounds

`MaxPushes`, `MaxArps`, `MaxReceived`, `MaxRequests`, `MaxBursts`, `MaxOther`,
`MaxCalls`, `MaxErrors`, `MaxMessages` and `MaxUpdates` bound the environment, never the code's own loops.  Two packet
handlers suffice for races on the queue; `Capacity` 2 with three callers' frames
and two ARP frames fills the queue and makes pushes wait; the lengths are one
MRP, the largest frame that is sent and the smallest that is not; the ARP frame
is below the padding limit.  In `l1`, two workers and three requests with two
per MRP give full and incomplete MRPs, a unicast and a multicast destination
the order between them; two burst ends give requests before, during and after a
flush, and a second late skip.  In `ipc`, two threads
make two calls in all, and two calls of ZMQ fail: both may be first calls that
overlap, or a second call may work on what a failed first one left.
One of the threads is joined before ZMQ stops, the other may
call during the shutdown.

In `net_pcap` the second packet handler number exists but
is not started, since `GetNumberOfQueues()` is 1; with two queues the frame is
overwritten.  The two receive properties also hold for PF_RING with two rings
(the same configuration with `UsePFRing = TRUE`, `NumberOfRings = 2`).  In
`inproc` two senders with different addresses compete for the mutex, so that one
can stand in the other's way, and two messages allow a send after a failed one.
In `formats` events have words 0, 65535 and in between, event numbers around
2^24, there are three groups and a unicast address; each word of each frame is damaged in up to five ways; headers are made for
0 to 6000 triggers, beyond the first wrap of each length field.  `dim` has
all six services, two listeners of one of them, a service without a listener,
and three updates; `UintModulus` is 16 instead of 2^32.

Deadlock is checked in the `l1` runs, where packet handlers and others
always have something to do.  It is not checked where the bounded environment
legitimately ends (`net_*`, `l1_system`, `formats`, `dim`) or the process ends
(`ipc*`, `inproc`).

### Fairness

- Weak fairness of each packet handler (`net_*`, `l1_system`) and of `TakeFrame`
  (`l1`): the farm's threads call `DoSendQueuedFrames` in an endless loop, and
  the card takes frames in the end.  `PFring::send_packet` relies on the latter.
- Weak fairness of the distribution thread: it is an endless loop that only
  sleeps.
- Strong fairness of `SendFrame`: a push into a full `concurrent_bounded_queue`
  holds a ticket, so that later pushes do not overtake it.  With weak fairness
  the queue could fill up again each time before the distributor gets its turn.
- Weak fairness of callers and shutdown in `ipc`: libzmq wakes blocked calls
  with ETERM when the context is terminated.  The first step of the shutdown is
  not fair: a process may run for ever.
- `net_pcap`: packet handlers go on calling `DoSendQueuedFrames` and finish with
  the frames they received; frames need not arrive.
- `inproc`: threads run, blocked calls end with ETERM on a terminating context.
  Strong fairness of taking `connectMutex_` (`Lock`, `Publish`): it is held for a
  few instructions, and a sender that finds no address sleeps for half a second
  before it asks for it again.  Errors, messages and `Stop` are not fair.
- `dim`: `infoHandler` goes on once it was called.
- Workers, the ARP thread, bursts and new calls are not fair: nothing may depend
  on them.

`RequestHandled` has three outcomes on purpose: sent, deleted by a flush, or
*held back* in the list because a flush emptied the queue and no new request
comes.  The last is what the code does (the loop at
`L1DistributionHandler.cpp:174`).

## Proofs

All theorems hold for every value of the constants that satisfies the named
assumptions: bounds are natural numbers, capacities are positive, the sets of
threads are finite where they are counted, different owners have different
buffers (`NetworkAssumption`, `ReceiverAssumption`, `L1Assumption`,
`SystemAssumption`, `IPCAssumption`, `InprocAssumption`, `FormatsAssumption`).
A theorem that needs more says so in an ASSUME of its own; there are four such
hypotheses, named below.  Strengthened invariants were checked with TLC on the
instances of the runs before they were proved.

### NetworkHandler

`Invariance` proves the inductive invariant `IInv`.
`NoUseAfterFree` is not inductive: when a packet handler frees a buffer, no
other frame may use it, which is `NoDoubleFree`; and for that to survive
`AsyncSendFrame` a newly allocated buffer must be on no frame, which is
`NoUseAfterFree`.  The ARP frames need `OwnersKnown` (a frame may be freed if and
only if it lies in a caller's buffer) and `ArpAllocated`.  From it follow
`TypeCorrect`, `FramesAllocated`, `FreedOnce`; with `ArpKept` (frames nobody
frees all lie in the ARP thread's one buffer) `NothingLeaks` for PF_RING; and
`OnlyFittingFrames`.  `FramesAllAccounted` counts frames: `FramesPlaced` and
`FramesCounted` change by one on each side in every step of
`DoSendQueuedFrames`; the first holds in either build, the second, the counter,
for PF_RING.

### FrameReceiver

`RecvInv` is `RecvTypeOK`, `BufferInv` (what is in a handler's buffer is the frame
it received) and `CountInv`.  The argument rests on `BuffersDistinct`: two
started handlers never have the same buffer, with PF_RING because each has its
ring, with PCap because `GetNumberOfQueues()` is 1 and there is only one of them.
`FramesStayIntact` and `FramesReceivedCounted` follow, and the action property
`SizesCounted`: whenever `bytesReceived_` changes, it is by the size of the frame
of the thread that counts.  `ReceivedCounted` is all of `ReceivedExact`.  Its
invariant `BytesInv` adds `ReceivingInv`: two threads between `recvfrom` and the
counters never have the same frame, without which counting one frame would
change the sum by two.  The sum over all frames takes `SizeSumAppended` (a new
frame adds nothing before it is counted) and `SizeSumChanged` (a frame that is
counted adds its size).  `SendHalfImplemented` shows that the composed
specification implements that of `NetworkHandler`, from which `SendHalfSafe`
takes over the safety of the send side.

### L1DistributionHandler

`ControlInvariance` proves `ControlInv`:
`ListBounds` (the list has room while the thread collects, and is not empty when
it is packed), `EmptyAfterDrain` (the last request in the queue is the one pushed
last, so that only its deletion can empty the queue between the check and the
waiting loop), `NoLateSkipYet` (if the flag fell after the
thread had read it, nothing of the new burst was deleted yet) and
`Distribution` (the destinations before `nextHdr` have exactly one MRP more).
From it follow `TypeCorrect`, `MRPSizeCorrect`, `LateSkipBounded`,
`WaitsJustified` and `AllDestinationsAgree`.

`RequestInvariance` proves `RequestInv`, which says where requests are:
`WaitingOrder` (list and queue are increasing, the list before the queue),
`BuffOrder` (the MRP in hand is decreasing) and `DestinationOrder` for each
destination (its MRPs are in order and before the one in hand, which is before
what waits; with these and the deleted ones they are all requests).
`RequestOrder` alone is not inductive, as it does not relate what was sent to
what waits.  `NothingLost` and `RequestsInOrder` follow.  `StatisticsExact` adds
`CountersInv`, the counters as functions of the lengths.  `PipelineRefined` is
the refinement of `RequestPipeline` step by step: initial states map to initial
states, each action to `Accept`, `Flush`, `Form`, `Hand` or a stutter.  It assumes
at least one destination: without any, `thread()` packs MRPs that nobody gets.

### L1System

The system's steps are steps of its components (`StepRefines`), so
the components' invariants hold in it (`ComponentsInv`, taken from INSTANCEs of
the components' proof modules; the `Same...` lemmas say that the definitions of
these INSTANCEs are those of the model).  `L1Refined` and `NetworkRefined` are
the two directions of the contract: `NetworkHandler` is an environment that
`L1DistributionHandler` was specified with, and the other way round.  That takes
an invariant: that the buffer of a new MRP is not in use follows from
`RequestInv`, since no two MRPs to a destination have the same requests.
`MRPsDelivered` needs `DeliveryInv` (queue, packet handlers, wire and refused
frames share no MRP and have them all, and the wire has none twice), `NoneRefused` needs `ShortInv`
(no frame on the way is longer than the longest MRP, which is 1494 bytes for
120 triggers).  `BufferAlwaysAvailable` is about the model: naming buffers by
their contents never disables `SendFrame`; its invariant `NamesInv` counts the
workers' requests.

### ZMQHandler, ZMQInproc, IPCHandler

Both proof modules begin with the same lemmas about ZMQHandler: what
`GenerateSocket` and `DestroySocket` do to the registry, and that
`numberOfActiveSockets_` stays the number of open sockets.

`ZMQInproc_proofs`: `SocketsDistinct` (no two threads have the same socket),
`SocketsOpen` (a thread that owns a socket and did not fail has an open one) and
`BoundBefore` (`boundAddresses_` holds only addresses whose bind succeeded) make
`ConnectAfterBind` and `MisuseOnlyAfterFailure` inductive.

`IPCHandler_proofs`, first part, any number of calling threads: `IInv` has
`NamedInv` (an open socket that a pointer points to was made for that pointer, so
two pointers never share one) and `SlotInv`; it gives `TypeCorrect` and
`PointersAreValid`.  Second part, one calling thread (`OneCaller`):
`MisuseOverlaps`; with several threads, one of which makes all calls
(`SoleCaller`), the property is only model-checked.  `SoloInv`
follows the call through its steps, since the properties speak of pointers only
between calls: `MainInv`, `CallInv` (which pointers a call has found open),
`WholeInv` (while nothing failed, the three sockets of a side are created
together and stay reachable) and `StopInv` (once ZMQ is stopped a caller that did
not overlap is in `recv` or past it with its flag raised, and the main thread has
left the sockets ahead of it alone).

Third part, again any number of threads: `OrphansBounded`.  `OrphansAccounted` is
not inductive, since a socket becomes an orphan long after the step that
dooms it: a thread that connects beside another will overwrite pointers.
`OrphanInv` therefore bounds a potential: orphans, pointers that are set, and
sockets that threads in `connectClient` have yet to create are together at most
three per setback, and three more unless some pointer is null that nobody is
about to set (`Uncovered`).  Creating a socket turns one to be created into a set
pointer, and the pointer that it overwrites into an orphan; clearing a
pointer, failing and connecting beside another thread raise the sum by at most
three and are setbacks; and a thread that starts to connect alone found a
pointer null, which nobody else is about to set (`Covered`, `OrphanEnter`).

### FrameFormats

`LengthsAreExact` is the arithmetic of the 16-bit length fields, for every number
of triggers.  `TriggersDecoded` says of every event that its trigger header
means that event, `RequestsReachDestination` that every frame goes to the MAC
address of its group, or to the gateway's if its destination is a unicast address.

`SentFramesAccepted` and `DamageIsDetected` are about whole frames: for all
events, groups, unicast addresses and ports a frame that is sent passes `CheckUDP` and
`CheckData` and is decoded to its events, and no longer passes both after any one
of its words has changed to any other value (a one's complement sum takes 0 and
65535 as equal).  They assume `MaxTriggers <= 5457`,
up to which the length fields are exact; `PFring::send_packet` takes frames of
120 triggers at most.  The argument:

- Modulo 65535 the one's complement sum is the ordinary sum of the words
  (`UnwrappedCongruent`), and the sum of `CheckData`, which reads the bytes in
  the other order and folds at the end, is 256 times that sum (`SwappedTotal`).
- A sum that is not 0 and has been folded is 65535 if and only if it is a
  multiple of 65535.  `AddWord` never returns from a positive number to 0
  (`UnwrappedRange`), and the IP header begins with a positive word
  (`HeaderAccepted`).
- The checksum makes the sum of the IP header, and that of pseudo header, UDP
  header and payload, a multiple of 65535 (`ChecksumCompletes`; `SentOK` for the
  frame as a whole).
- Changing word `i` from `x` to `w` changes that sum by `w - x`
  (`WordDamaged`), or by `2 * (w - x)` for the UDP length, which is summed
  twice, once in the pseudo header (`DamageCaught`).  Neither is a multiple of
  65535 if `w - x` is none, as 65535 is odd.

`FrameInv`, which `FrameInvariance` proves, says what the frame is in each phase
(`SentInv`, `Fits`) together with `DamageDetected`: the damage of a word is a
step from a frame as it was sent.

Sums over sequences call for induction over their length.  `LeastNumber` says that
a set of numbers that is not empty has a least member (the order on the numbers
is well-founded), `UpTo` that a set with 0 and with each successor up to `n` has
all numbers up to `n`, and `RunningExists` that the recursive function by which a
sum is defined exists.  `FrameReceiver_proofs` argues in the same way.

### DimListener

`Invariance` proves `IInv`, which claims nothing once the behaviour is undefined.
`ListenersInformed` alone is not inductive, as it does not say which listeners
`infoHandler` has called already.  `ToldInv` does: a listener whose position in
the vector is in the range that is left is owed exactly the value that
`infoHandler` holds, every other one has been told all it is owed, and who is not
registered is owed nothing.  It takes `VectorInv` (a listener is in one vector,
that of its service, once) and `RangeInv` (the range lies in the vector, although
registrations make other vectors longer meanwhile); `GetInv` relates what was
told last to the getters.  From it follows `AllInformed`.

### Only model-checked

Liveness (`FrameEventuallyFreed`, `RequestHandled`, `RequestReachesWire`,
`ConnectsOnceBound`, `UpdateReachesAll` and both `ShutdownCompletes`) and the
fairness part of `PipelineImplemented`: the prover handles neither fairness nor
ENABLED.  All invariants that the passing runs check are proved,
`MisuseOnlyIfOverlapped` for a single calling thread.

## Findings

1. `net_pcap_leak`: the PCap build leaks one ARP frame per second.
2. `l1_skipped`: one request of a new burst may be deleted as outdated.
3. `ipc_shutdown`: after a received message the activity flag stays up,
   `shutDown` skips the socket and `delete context_` does not return.
4. `ipc_first_calls`: concurrent first calls create all sockets twice;
   `connectClient` fails although ZMQ runs.

Observations that have no run of their own:

- The PCap build counts every frame it sends twice: `framesSent_` is raised in
  `DoSendQueuedFrames` (`PCapHandler.cpp:161`) and again in `SendFrameConcurrently`
  (`:188`), which it calls; PFringHandler.cpp raises it at line 181 alone.
  `GetFramesSent` then returns about twice the number of frames.  No comment or
  document says what it should return, so this is no disagreement a run could
  quote.
- An incomplete MRP is sent although frames are queued: the `continue` at
  `L1DistributionHandler.cpp:190` is commented out, the comment at line 183 ("Do
  not send if there's still a MRP in the queue ...") is not.
- A worker that passed the check at `L1DistributionHandler.cpp:71` can push its
  request while the burst is being cleaned up, or into the next one (`CheckFlush`
  and `PushRequest` are two steps).
- `ConnectInproc` leaves `connectMutex_` locked when `connect` throws, and never
  returns when its address is not bound; both are exceptions in `inproc`'s
  properties.
- `sendMessage` leaves its caller with a pointer to a deleted socket.
- An update that DIM delivers during the constructor of DimListener reads
  vectors that are not constructed yet.

## Not modelled

The constructors' system calls, `PrintStats`, `GetFramesDropped` and the
forwarding methods of PFring (I/O); text conversion of addresses; contents of
IPC messages; `getFragmentOffsetInBytes`, `isMoreFragments` and `EOB_FULL_FRAME`,
which nothing in the library uses; odd lengths in `CheckData`, which then reads
one byte beyond the data; data races on the
`std::map` inside ZMQHandler (its operations are atomic steps); sleeping times.
`allSockets_` is a map from open sockets to names, without the log message built
from it.

## Plan

1. (done) `NetworkHandler`, `L1DistributionHandler`, `L1System`, `IPCHandler` with
   `ZMQHandler`; invariants for memory, control and types proved.
2. (done) `RequestPipeline` and its refinement; `ZMQInproc`; `FrameReceiver`;
   `FrameFormats`; `DimListener`.
3. (done) Proofs of all invariants the runs check; both directions of the
   contract between L1DistributionHandler and NetworkHandler; the refinement of
   `RequestPipeline`.
4. Left: the action properties that say what a step of `IPCHandler` and
   `ZMQInproc` may never do with several callers.
