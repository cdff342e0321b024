--------------------------- MODULE NetworkHandler ---------------------------
(***************************************************************************)
(* The sending half of NetworkHandler: the bounded queue asyncSendData_,   *)
(* the packet handler threads that empty it with DoSendQueuedFrames, and   *)
(* the thread that announces this host with gratuitous ARP frames.         *)
(*                                                                         *)
(* The class has two implementations, chosen by the macro USE_PFRING:      *)
(* PFringHandler.cpp and PCapHandler.cpp.  UsePFRing selects one.          *)
(*                                                                         *)
(* A buffer stands for a `new char[n]`; heap is the set of buffers that    *)
(* are allocated.  The allocator may hand out a freed buffer again.        *)
(***************************************************************************)
EXTENDS Naturals, Sequences, FiniteSets

CONSTANTS
  PacketHandlers,  \* threads that call DoSendQueuedFrames
  ClientBuffers,   \* buffers that callers of AsyncSendFrame allocate
  Lengths,         \* the frame lengths the callers use
  ArpBuffers,      \* buffers that GenerateGratuitousARPv4 allocates
  NoBuffer,        \* the ARP thread holds no frame
  Capacity,        \* asyncSendData_.set_capacity(1000)
  UsePFRing,       \* TRUE: PFringHandler.cpp, FALSE: PCapHandler.cpp
  MaxPushes,       \* bound: how many frames callers ever enqueue
  MaxArps          \* bound: how many frames the ARP thread ever enqueues

ASSUME NetworkAssumption ==
  /\ IsFiniteSet(PacketHandlers)
  /\ Lengths \subseteq Nat
  /\ ClientBuffers \cap ArpBuffers = {}
  /\ NoBuffer \notin ClientBuffers \cup ArpBuffers
  /\ Capacity \in Nat \ {0}
  /\ UsePFRing \in BOOLEAN
  /\ MaxPushes \in Nat
  /\ MaxArps \in Nat

VARIABLES
  asyncSendData,   \* the queue of DataContainers
  sendState,       \* where each packet handler is in DoSendQueuedFrames
  sendData,        \* its local variable `data`
  arp,             \* the buffer of the ARP thread's local variable `arp`
  heap,            \* the buffers that are allocated
  framesSent,      \* the counter framesSent_
  wire,            \* history: frames handed to the network card
  refused,         \* history: frames the card or the kernel did not take
  pushes,          \* history: the number of frames callers enqueued
  arps             \* history: the number of frames the ARP thread enqueued

vars == <<asyncSendData, sendState, sendData, arp, heap, framesSent, wire,
          refused, pushes, arps>>

-----------------------------------------------------------------------------
Buffers == ClientBuffers \cup ArpBuffers

DataContainer == [data : Buffers, length : Nat, ownerMayFreeData : BOOLEAN]

NoFrame == [data |-> NoBuffer, length |-> 0, ownerMayFreeData |-> FALSE]

\* sizeof(ARP_HDR)
ArpLength == 42

\* An Ethernet frame shorter than 60 bytes gets a trailer (PF_RING only).
MinFrame == 60

\* PFring::send_packet: no jumbo frames.
MaxFrame == 1500

\* Mutant: no Ethernet trailer is added.
PaddedLengthNone(length) == length

\* The length a frame has when it is handed over to the card.
PaddedLength(length) ==
  IF UsePFRing /\ length < MinFrame THEN MinFrame ELSE length

\* The frame as it is handed over.
WithTrailer(frame) ==
  [data |-> frame.data, length |-> PaddedLength(frame.length),
   ownerMayFreeData |-> frame.ownerMayFreeData]

\* Mutant: the limits are mixed up.
TooLongMinimum(frame) == UsePFRing /\ PaddedLength(frame.length) > MinFrame

\* PFring::send_packet returns -1 without trying to send.
TooLong(frame) == UsePFRing /\ PaddedLength(frame.length) > MaxFrame

\* Mutants: every frame is freed, or none.
MayFreeAll(frame) == TRUE
MayFreeNone(frame) == FALSE

\* if (data.ownerMayFreeData) delete[] data.data
MayFree(frame) == frame.ownerMayFreeData

\* Mutant: PFringHandler.cpp counts a frame twice as well.
CountedAfterSendingAlways == TRUE

\* PCapHandler.cpp counts every frame a second time after sending it, although
\* SendFrameConcurrently has counted it.
CountedAfterSending == ~ UsePFRing

\* Mutant: arp.ownerMayFreeData stays as GenerateARPv4 set it.
ArpMayBeFreedTrue == TRUE

\* arp.ownerMayFreeData = false
ArpMayBeFreed == FALSE

-----------------------------------------------------------------------------
Init ==
  /\ asyncSendData = <<>>
  /\ sendState = [t \in PacketHandlers |-> "idle"]
  /\ sendData = [t \in PacketHandlers |-> NoFrame]
  /\ arp = NoBuffer
  /\ heap = {}
  /\ framesSent = 0
  /\ wire = <<>>
  /\ refused = <<>>
  /\ pushes = 0
  /\ arps = 0

\* Mutant: the queue has no capacity.
HasRoomAlways == TRUE

\* Only PFringHandler.cpp sets a capacity.
HasRoom == UsePFRing => Len(asyncSendData) < Capacity

\* concurrent_bounded_queue::push blocks while the queue is full.
Push(frame) ==
  /\ HasRoom
  /\ asyncSendData' = Append(asyncSendData, frame)

\* A caller allocates a frame and gives it away: the packet handler that
\* sends it is allowed to free it.
AsyncSendFrame(b, length) ==
  /\ b \in ClientBuffers \ heap
  /\ heap' = heap \cup {b}
  /\ Push([data |-> b, length |-> length, ownerMayFreeData |-> TRUE])
  /\ pushes' = pushes + 1
  /\ UNCHANGED <<sendState, sendData, arp, framesSent, wire, refused, arps>>

\* The ARP thread allocates its frame.  PFringHandler.cpp does so once,
\* before its loop, PCapHandler.cpp in every iteration.
GenerateArp ==
  /\ arp = NoBuffer
  /\ \E b \in ArpBuffers \ heap :
       /\ arp' = b
       /\ heap' = heap \cup {b}
  /\ UNCHANGED <<asyncSendData, sendState, sendData, framesSent, wire,
                 refused, pushes, arps>>

\* The ARP thread enqueues a copy of its container, with ownerMayFreeData
\* cleared, and sleeps.
SendArp ==
  /\ arp # NoBuffer
  /\ Push([data |-> arp, length |-> ArpLength,
           ownerMayFreeData |-> ArpMayBeFreed])
  /\ arp' = IF UsePFRing THEN arp ELSE NoBuffer
  /\ arps' = arps + 1
  /\ UNCHANGED <<sendState, sendData, heap, framesSent, wire, refused, pushes>>

-----------------------------------------------------------------------------
(***************************************************************************)
(* DoSendQueuedFrames(t), one step per access to shared state.             *)
(***************************************************************************)

\* Mutants: the frame stays in the queue, the newest frame is removed.
RemainingAll == asyncSendData
RemainingOldest == SubSeq(asyncSendData, 1, Len(asyncSendData) - 1)

\* The queue without its first frame.
Remaining == Tail(asyncSendData)

\* try_pop succeeds.  When the queue is empty the call returns 0 and changes
\* nothing.
TryPop(t) ==
  /\ sendState[t] = "idle"
  /\ asyncSendData # <<>>
  /\ sendData' = [sendData EXCEPT ![t] = Head(asyncSendData)]
  /\ asyncSendData' = Remaining
  /\ sendState' = [sendState EXCEPT ![t] = "popped"]
  /\ UNCHANGED <<arp, heap, framesSent, wire, refused, pushes, arps>>

\* SendFrameConcurrently counts the frame before it tries to send it.
CountFrame(t) ==
  /\ sendState[t] = "popped"
  /\ framesSent' = framesSent + 1
  /\ sendState' = [sendState EXCEPT ![t] = "sending"]
  /\ UNCHANGED <<asyncSendData, sendData, arp, heap, wire, refused, pushes,
                 arps>>

\* pfring_send (or sendto) takes the frame.  PFring::send_packet repeats a
\* failing pfring_send until it succeeds; the failed attempts change nothing.
Transmit(t) ==
  /\ sendState[t] = "sending"
  /\ ~ TooLong(sendData[t])
  /\ wire' = Append(wire, WithTrailer(sendData[t]))
  /\ sendState' = [sendState EXCEPT ![t] = "sent"]
  /\ UNCHANGED <<asyncSendData, sendData, arp, heap, framesSent, refused,
                 pushes, arps>>

\* The frame is given up: too long for PFring::send_packet, or sendto failed
\* in PCapHandler.cpp, which prints a message and goes on.
Refuse(t) ==
  /\ sendState[t] = "sending"
  /\ UsePFRing => TooLong(sendData[t])
  /\ refused' = Append(refused, sendData[t])
  /\ sendState' = [sendState EXCEPT ![t] = "sent"]
  /\ UNCHANGED <<asyncSendData, sendData, arp, heap, framesSent, wire, pushes,
                 arps>>

\* The frame is freed if it was given away, and the call returns.
FreeFrame(t) ==
  /\ sendState[t] = "sent"
  /\ heap' = IF MayFree(sendData[t]) THEN heap \ {sendData[t].data} ELSE heap
  /\ framesSent' = IF CountedAfterSending THEN framesSent + 1 ELSE framesSent
  /\ sendData' = [sendData EXCEPT ![t] = NoFrame]
  /\ sendState' = [sendState EXCEPT ![t] = "idle"]
  /\ UNCHANGED <<asyncSendData, arp, wire, refused, pushes, arps>>

DoSendQueuedFrames(t) ==
  TryPop(t) \/ CountFrame(t) \/ Transmit(t) \/ Refuse(t) \/ FreeFrame(t)

-----------------------------------------------------------------------------
Client ==
  /\ pushes < MaxPushes
  /\ \E b \in ClientBuffers, length \in Lengths : AsyncSendFrame(b, length)

ArpThread ==
  \/ GenerateArp
  \/ arps < MaxArps /\ SendArp

Next ==
  \/ Client
  \/ ArpThread
  \/ \E t \in PacketHandlers : DoSendQueuedFrames(t)

\* Every packet handler thread keeps calling DoSendQueuedFrames, and the card
\* does not refuse a frame it can take for ever.
Fairness == \A t \in PacketHandlers : WF_vars(DoSendQueuedFrames(t))

Spec == Init /\ [][Next]_vars /\ Fairness

-----------------------------------------------------------------------------
TypeOK ==
  /\ asyncSendData \in Seq(DataContainer)
  /\ UsePFRing => Len(asyncSendData) <= Capacity
  /\ sendState \in [PacketHandlers -> {"idle", "popped", "sending", "sent"}]
  /\ sendData \in [PacketHandlers -> DataContainer \cup {NoFrame}]
  /\ arp \in ArpBuffers \cup {NoBuffer}
  /\ heap \subseteq Buffers
  /\ framesSent \in Nat
  /\ wire \in Seq(DataContainer)
  /\ refused \in Seq(DataContainer)
  /\ pushes \in Nat
  /\ arps \in Nat

\* The packet handlers that hold a frame.
Busy == {t \in PacketHandlers : sendState[t] # "idle"}

\* No frame that is queued, or that a packet handler is about to send, lies
\* in a buffer that was freed: DoSendQueuedFrames never sends from freed
\* memory although the ARP thread enqueues one buffer again and again.
NoUseAfterFree ==
  /\ \A i \in DOMAIN asyncSendData : asyncSendData[i].data \in heap
  /\ \A t \in Busy : sendData[t].data \in heap

\* A buffer that will be freed after sending is enqueued or held once, so
\* no two calls of DoSendQueuedFrames delete[] the same buffer.
NoDoubleFree ==
  /\ \A i, j \in DOMAIN asyncSendData :
       i # j /\ asyncSendData[i].ownerMayFreeData
         => asyncSendData[i].data # asyncSendData[j].data
  /\ \A i \in DOMAIN asyncSendData, t \in Busy :
       asyncSendData[i].ownerMayFreeData \/ sendData[t].ownerMayFreeData
         => asyncSendData[i].data # sendData[t].data
  /\ \A t, u \in Busy :
       t # u /\ sendData[t].ownerMayFreeData
         => sendData[t].data # sendData[u].data

\* Every allocated buffer is still reachable: it is queued, or a packet
\* handler or the ARP thread holds it.  "The data field will be deleted as
\* soon as it has been sent" (NetworkHandler.h).
NoLeak ==
  \A b \in heap :
    \/ b = arp
    \/ \E i \in DOMAIN asyncSendData : asyncSendData[i].data = b
    \/ \E t \in Busy : sendData[t].data = b

\* Every frame that was enqueued is in exactly one place: no frame is lost or
\* duplicated between the queue, the packet handlers and the card.  In the
\* PF_RING build framesSent_ counts each frame that is handed over once, in
\* SendFrameConcurrently.  Of the PCap build's counter nothing is stated: it
\* counts every frame twice.
FramesAccounted ==
  LET Handed == Len(wire) + Len(refused)
      In(state) == Cardinality({t \in PacketHandlers : sendState[t] = state})
  IN  /\ pushes + arps = Len(asyncSendData) + In("popped") + In("sending") + Handed
      /\ UsePFRing => framesSent = Handed + In("sending")

\* What reaches the card is a frame the hardware can carry, and nothing that
\* fits is given up (PF_RING build).
WireFramesFit ==
  UsePFRing =>
    /\ \A i \in DOMAIN wire : wire[i].length \in MinFrame..MaxFrame
    /\ \A i \in DOMAIN refused : refused[i].length > MaxFrame

\* Every frame given to AsyncSendFrame is eventually sent or given up, and
\* its memory released, while callers go on enqueueing.
FrameEventuallyFreed ==
  \A b \in ClientBuffers : b \in heap ~> b \notin heap
=============================================================================
