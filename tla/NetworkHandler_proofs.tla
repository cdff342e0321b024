------------------------ MODULE NetworkHandler_proofs ------------------------
(***************************************************************************)
(* Proofs about NetworkHandler, for both builds, any number of packet      *)
(* handlers, buffers and frames and any capacity of the queue.             *)
(***************************************************************************)
EXTENDS NetworkHandler, SequenceTheorems, FiniteSetTheorems, TLAPS

-----------------------------------------------------------------------------
(***************************************************************************)
(* The inductive invariant.                                                *)
(***************************************************************************)

\* A packet handler that is not idle holds a frame.
HoldsFrame == \A t \in Busy : sendData[t] \in DataContainer

\* A frame that may be freed after sending lies in a buffer of a caller, any
\* other in a buffer of the ARP thread.
Freeable(frame) == frame.ownerMayFreeData <=> frame.data \in ClientBuffers

OwnersKnown ==
  /\ \A i \in DOMAIN asyncSendData : Freeable(asyncSendData[i])
  /\ \A t \in Busy : Freeable(sendData[t])

\* The frame the ARP thread keeps is allocated.
ArpAllocated == arp # NoBuffer => arp \in heap

IInv ==
  /\ TypeOK
  /\ HoldsFrame
  /\ OwnersKnown
  /\ ArpAllocated
  /\ NoUseAfterFree
  /\ NoDoubleFree

-----------------------------------------------------------------------------
(***************************************************************************)
(* Appending to the queue and removing its head.                           *)
(***************************************************************************)

\* What TBB's push does to the frames in asyncSendData_: they stay where they
\* are and the new one is the last.
LEMMA AppendFacts ==
  ASSUME NEW S, NEW s \in Seq(S), NEW e \in S
  PROVE  /\ Append(s, e) \in Seq(S)
         /\ Len(Append(s, e)) = Len(s) + 1
         /\ \A i \in DOMAIN Append(s, e) :
              \/ i \in DOMAIN s /\ Append(s, e)[i] = s[i]
              \/ i = Len(s) + 1 /\ Append(s, e)[i] = e
OBVIOUS

\* What TBB's try_pop does to them: every frame moves up by one place.
LEMMA TailFacts ==
  ASSUME NEW S, NEW s \in Seq(S), s # <<>>
  PROVE  /\ Head(s) \in S
         /\ 1 \in DOMAIN s
         /\ Head(s) = s[1]
         /\ Tail(s) \in Seq(S)
         /\ Len(Tail(s)) = Len(s) - 1
         /\ \A i \in DOMAIN Tail(s) :
              i \in Nat /\ i + 1 \in DOMAIN s /\ i + 1 # 1 /\ Tail(s)[i] = s[i + 1]
         /\ \A i \in DOMAIN s :
              i # 1 => i - 1 \in DOMAIN Tail(s) /\ Tail(s)[i - 1] = s[i]
OBVIOUS

\* The lengths handed to the card are natural numbers.
LEMMA PaddedLengthType ==
  ASSUME NEW n \in Nat
  PROVE  PaddedLength(n) \in Nat
BY DEF PaddedLength, MinFrame

\* With PF_RING they are at least those of a minimal Ethernet frame.
LEMMA PaddedLengthFits ==
  ASSUME UsePFRing, NEW n \in Nat, ~ (PaddedLength(n) > MaxFrame)
  PROVE  PaddedLength(n) \in MinFrame..MaxFrame
<1>1. CASE n < MinFrame
  <2>1. PaddedLength(n) = MinFrame
    BY <1>1 DEF PaddedLength
  <2> QED BY <2>1 DEF MinFrame, MaxFrame
<1>2. CASE ~ (n < MinFrame)
  <2>1. PaddedLength(n) = n
    BY <1>2 DEF PaddedLength
  <2> QED BY <1>2, <2>1 DEF MinFrame, MaxFrame
<1> QED BY <1>1, <1>2

-----------------------------------------------------------------------------
\* The state in which the constructor leaves the handler satisfies the
\* inductive invariant.
LEMMA InitIInv == Init => IInv
BY NetworkAssumption
DEF Init, IInv, TypeOK, HoldsFrame, OwnersKnown, ArpAllocated, NoUseAfterFree,
    NoDoubleFree, Busy, NoFrame, DataContainer, Buffers

\* AsyncSendFrame preserves the types and what is known of the frames.
LEMMA PushStep ==
  ASSUME IInv, NEW frame \in DataContainer, Push(frame)
  PROVE  /\ asyncSendData' \in Seq(DataContainer)
         /\ UsePFRing => Len(asyncSendData') <= Capacity
         /\ \A i \in DOMAIN asyncSendData' :
              \/ i \in DOMAIN asyncSendData /\ asyncSendData'[i] = asyncSendData[i]
              \/ i = Len(asyncSendData) + 1 /\ asyncSendData'[i] = frame
BY AppendFacts, NetworkAssumption DEF IInv, TypeOK, Push, HasRoom

-----------------------------------------------------------------------------
(***************************************************************************)
(* One lemma per action: it preserves the inductive invariant.             *)
(***************************************************************************)

\* A caller's frame lies in a buffer that was not allocated, so that no frame
\* on its way shares it.
LEMMA AsyncSendFrameStep ==
  ASSUME IInv, NEW b \in ClientBuffers, NEW length \in Nat,
         AsyncSendFrame(b, length)
  PROVE  IInv'
<1> DEFINE frame == [data |-> b, length |-> length, ownerMayFreeData |-> TRUE]
<1>1. frame \in DataContainer
  BY DEF DataContainer, Buffers
<1>2. b \notin heap /\ heap' = heap \cup {b}
  BY DEF AsyncSendFrame
<1>3. Push(frame)
  BY DEF AsyncSendFrame
<1>4. /\ asyncSendData' \in Seq(DataContainer)
      /\ UsePFRing => Len(asyncSendData') <= Capacity
      /\ \A i \in DOMAIN asyncSendData' :
           \/ i \in DOMAIN asyncSendData /\ asyncSendData'[i] = asyncSendData[i]
           \/ i = Len(asyncSendData) + 1 /\ asyncSendData'[i] = frame
  BY <1>1, <1>3, PushStep
<1>5. UNCHANGED <<sendState, sendData, arp, framesSent, wire, refused, arps>>
      /\ pushes' = pushes + 1
  BY DEF AsyncSendFrame
<1>6. TypeOK'
  BY <1>2, <1>4, <1>5 DEF IInv, TypeOK, Buffers
<1>7. Busy' = Busy /\ HoldsFrame'
  BY <1>5 DEF IInv, HoldsFrame, Busy
<1>8. OwnersKnown'
  BY <1>4, <1>5, <1>7 DEF IInv, OwnersKnown, Freeable
<1>9. ArpAllocated'
  BY <1>2, <1>5 DEF IInv, ArpAllocated
<1>10. NoUseAfterFree'
  BY <1>2, <1>4, <1>5, <1>7 DEF IInv, NoUseAfterFree
<1>11. NoDoubleFree'
  <2> HIDE DEF frame
  <2>1. frame.data = b
    BY DEF frame
  <2>2. /\ \A i \in DOMAIN asyncSendData : asyncSendData[i].data # b
        /\ \A t \in Busy : sendData[t].data # b
    BY <1>2 DEF IInv, NoUseAfterFree
  <2>3. \A i, j \in DOMAIN asyncSendData' :
          i # j /\ asyncSendData'[i].ownerMayFreeData
            => asyncSendData'[i].data # asyncSendData'[j].data
    BY <1>4, <2>1, <2>2 DEF IInv, NoDoubleFree
  <2>4. \A i \in DOMAIN asyncSendData', t \in Busy' :
          asyncSendData'[i].ownerMayFreeData \/ sendData'[t].ownerMayFreeData
            => asyncSendData'[i].data # sendData'[t].data
    BY <1>4, <1>5, <1>7, <2>1, <2>2 DEF IInv, NoDoubleFree
  <2>5. \A t, u \in Busy' :
          t # u /\ sendData'[t].ownerMayFreeData
            => sendData'[t].data # sendData'[u].data
    BY <1>5, <1>7 DEF IInv, NoDoubleFree
  <2> QED BY <2>3, <2>4, <2>5 DEF NoDoubleFree
<1> QED BY <1>6, <1>7, <1>8, <1>9, <1>10, <1>11 DEF IInv

\* GenerateGratuitousARPv4 only allocates.
LEMMA GenerateArpStep ==
  ASSUME IInv, GenerateArp
  PROVE  IInv'
<1>1. PICK b \in ArpBuffers \ heap : arp' = b /\ heap' = heap \cup {b}
  BY DEF GenerateArp
<1>2. UNCHANGED <<asyncSendData, sendState, sendData, framesSent, wire, refused,
                  pushes, arps>>
  BY DEF GenerateArp
<1>3. TypeOK'
  BY <1>1, <1>2 DEF IInv, TypeOK, Buffers
<1>4. Busy' = Busy /\ HoldsFrame' /\ OwnersKnown' /\ NoDoubleFree'
  BY <1>2 DEF IInv, HoldsFrame, OwnersKnown, NoDoubleFree, Busy
<1>5. ArpAllocated'
  BY <1>1 DEF ArpAllocated
<1>6. NoUseAfterFree'
  BY <1>1, <1>2, <1>4 DEF IInv, NoUseAfterFree
<1> QED BY <1>3, <1>4, <1>5, <1>6 DEF IInv

\* The ARP thread enqueues its frame once more; nobody frees that buffer.
LEMMA SendArpStep ==
  ASSUME IInv, SendArp
  PROVE  IInv'
<1> DEFINE frame ==
      [data |-> arp, length |-> ArpLength, ownerMayFreeData |-> FALSE]
<1>1. arp \in ArpBuffers /\ arp \in heap /\ arp \notin ClientBuffers
  BY NetworkAssumption DEF IInv, TypeOK, ArpAllocated, SendArp
<1>2. frame \in DataContainer
  BY <1>1 DEF DataContainer, Buffers, ArpLength
<1>3. /\ asyncSendData' \in Seq(DataContainer)
      /\ UsePFRing => Len(asyncSendData') <= Capacity
      /\ \A i \in DOMAIN asyncSendData' :
           \/ i \in DOMAIN asyncSendData /\ asyncSendData'[i] = asyncSendData[i]
           \/ i = Len(asyncSendData) + 1 /\ asyncSendData'[i] = frame
  BY <1>2, PushStep DEF SendArp, ArpMayBeFreed
<1>4. /\ UNCHANGED <<sendState, sendData, heap, framesSent, wire, refused, pushes>>
      /\ arps' = arps + 1
      /\ arp' = arp \/ arp' = NoBuffer
  BY DEF SendArp
<1>5. TypeOK'
  BY <1>3, <1>4 DEF IInv, TypeOK
<1>6. Busy' = Busy /\ HoldsFrame' /\ ArpAllocated'
  BY <1>4 DEF IInv, HoldsFrame, ArpAllocated, Busy
<1> HIDE DEF frame
<1>7. frame.data = arp /\ frame.ownerMayFreeData = FALSE
  BY DEF frame
<1>8. OwnersKnown'
  BY <1>1, <1>3, <1>4, <1>6, <1>7 DEF IInv, OwnersKnown, Freeable
<1>9. NoUseAfterFree'
  BY <1>1, <1>3, <1>4, <1>6, <1>7 DEF IInv, NoUseAfterFree
<1>10. NoDoubleFree'
  <2>1. /\ \A i \in DOMAIN asyncSendData :
             asyncSendData[i].ownerMayFreeData => asyncSendData[i].data # arp
        /\ \A t \in Busy : sendData[t].ownerMayFreeData => sendData[t].data # arp
    BY <1>1 DEF IInv, OwnersKnown, Freeable
  <2>2. \A i, j \in DOMAIN asyncSendData' :
          i # j /\ asyncSendData'[i].ownerMayFreeData
            => asyncSendData'[i].data # asyncSendData'[j].data
    BY <1>3, <1>7, <2>1 DEF IInv, NoDoubleFree
  <2>3. \A i \in DOMAIN asyncSendData', t \in Busy' :
          asyncSendData'[i].ownerMayFreeData \/ sendData'[t].ownerMayFreeData
            => asyncSendData'[i].data # sendData'[t].data
    BY <1>3, <1>4, <1>6, <1>7, <2>1 DEF IInv, NoDoubleFree
  <2>4. \A t, u \in Busy' :
          t # u /\ sendData'[t].ownerMayFreeData
            => sendData'[t].data # sendData'[u].data
    BY <1>4, <1>6 DEF IInv, NoDoubleFree
  <2> QED BY <2>2, <2>3, <2>4 DEF NoDoubleFree
<1> QED BY <1>5, <1>6, <1>8, <1>9, <1>10 DEF IInv
\* try_pop moves the first frame from the queue into the packet handler's
\* hands.
LEMMA TryPopStep ==
  ASSUME IInv, NEW t \in PacketHandlers, TryPop(t)
  PROVE  IInv'
<1>1. /\ asyncSendData \in Seq(DataContainer)
      /\ asyncSendData # <<>>
      /\ asyncSendData' = Tail(asyncSendData)
  BY DEF IInv, TypeOK, TryPop, Remaining
<1>2. /\ 1 \in DOMAIN asyncSendData
      /\ asyncSendData[1] \in DataContainer
      /\ asyncSendData' \in Seq(DataContainer)
      /\ Len(asyncSendData') = Len(asyncSendData) - 1
      /\ \A i \in DOMAIN asyncSendData' :
           /\ i \in Nat
           /\ i + 1 \in DOMAIN asyncSendData
           /\ i + 1 # 1
           /\ asyncSendData'[i] = asyncSendData[i + 1]
  BY <1>1, TailFacts
<1>3. /\ t \notin Busy
      /\ Busy' = Busy \cup {t}
      /\ sendData'[t] = asyncSendData[1]
      /\ \A u \in Busy : sendData'[u] = sendData[u]
  BY <1>1, TailFacts DEF IInv, TypeOK, TryPop, Busy
<1>4. UNCHANGED <<arp, heap, framesSent, wire, refused, pushes, arps>>
  BY DEF TryPop
<1>5. TypeOK'
  <2>1. Len(asyncSendData) \in Nat
    BY <1>1
  <2>2. UsePFRing => Len(asyncSendData') <= Capacity
    BY <1>2, <2>1, NetworkAssumption DEF IInv, TypeOK
  <2>3. /\ sendData' \in [PacketHandlers -> DataContainer \cup {NoFrame}]
        /\ sendState' \in [PacketHandlers -> {"idle", "popped", "sending", "sent"}]
    BY <1>1, <1>2, TailFacts DEF IInv, TypeOK, TryPop
  <2> QED BY <1>2, <1>4, <2>2, <2>3 DEF IInv, TypeOK
<1>6. HoldsFrame' /\ ArpAllocated'
  BY <1>2, <1>3, <1>4 DEF IInv, HoldsFrame, ArpAllocated
<1>7. OwnersKnown'
  BY <1>2, <1>3 DEF IInv, OwnersKnown, Freeable
<1>8. NoUseAfterFree'
  BY <1>2, <1>3, <1>4 DEF IInv, NoUseAfterFree
<1>9. NoDoubleFree'
  <2>1. \A i, j \in DOMAIN asyncSendData' :
          i # j /\ asyncSendData'[i].ownerMayFreeData
            => asyncSendData'[i].data # asyncSendData'[j].data
    BY SMTT(30), <1>2 DEF IInv, NoDoubleFree
  <2>2. \A i \in DOMAIN asyncSendData', u \in Busy' :
          asyncSendData'[i].ownerMayFreeData \/ sendData'[u].ownerMayFreeData
            => asyncSendData'[i].data # sendData'[u].data
    BY <1>2, <1>3 DEF IInv, NoDoubleFree
  <2>3. \A u, v \in Busy' :
          u # v /\ sendData'[u].ownerMayFreeData
            => sendData'[u].data # sendData'[v].data
    BY <1>2, <1>3 DEF IInv, NoDoubleFree
  <2> QED BY <2>1, <2>2, <2>3 DEF NoDoubleFree
<1> QED BY <1>5, <1>6, <1>7, <1>8, <1>9 DEF IInv

\* SendFrameConcurrently touches neither the queue nor the heap.
LEMMA SendingStep ==
  ASSUME IInv, NEW t \in PacketHandlers,
         CountFrame(t) \/ Transmit(t) \/ Refuse(t)
  PROVE  IInv'
<1>1. /\ Busy' = Busy
      /\ t \in Busy
      /\ UNCHANGED <<asyncSendData, sendData, arp, heap, pushes, arps>>
  BY DEF IInv, TypeOK, CountFrame, Transmit, Refuse, Busy
<1>2. sendData[t] \in DataContainer
  BY <1>1 DEF IInv, HoldsFrame
<1>3. WithTrailer(sendData[t]) \in DataContainer
  BY <1>2, PaddedLengthType DEF DataContainer, WithTrailer
<1>4. wire' \in Seq(DataContainer) /\ refused' \in Seq(DataContainer)
  <2>1. wire \in Seq(DataContainer) /\ refused \in Seq(DataContainer)
    BY DEF IInv, TypeOK
  <2>2. /\ Append(wire, WithTrailer(sendData[t])) \in Seq(DataContainer)
        /\ Append(refused, sendData[t]) \in Seq(DataContainer)
    BY <1>2, <1>3, <2>1, AppendFacts
  <2> QED BY <2>1, <2>2 DEF CountFrame, Transmit, Refuse
<1>5. framesSent' \in Nat
  BY DEF IInv, TypeOK, CountFrame, Transmit, Refuse
<1>6. sendState' \in [PacketHandlers -> {"idle", "popped", "sending", "sent"}]
  BY DEF IInv, TypeOK, CountFrame, Transmit, Refuse
<1>7. TypeOK'
  BY <1>1, <1>4, <1>5, <1>6 DEF IInv, TypeOK
<1> QED
  BY <1>1, <1>7
  DEF IInv, HoldsFrame, OwnersKnown, Freeable, ArpAllocated, NoUseAfterFree,
      NoDoubleFree

\* The buffer that is freed is in nobody else's hands.
LEMMA FreeFrameStep ==
  ASSUME IInv, NEW t \in PacketHandlers, FreeFrame(t)
  PROVE  IInv'
<1> DEFINE frame == sendData[t]
<1>1. /\ t \in Busy
      /\ Busy' = Busy \ {t}
      /\ \A u \in Busy' : sendData'[u] = sendData[u]
      /\ UNCHANGED <<asyncSendData, arp, wire, refused, pushes, arps>>
  BY DEF IInv, TypeOK, FreeFrame, Busy
<1>2. frame \in DataContainer /\ frame.ownerMayFreeData \in BOOLEAN
  BY <1>1 DEF IInv, HoldsFrame, DataContainer
<1>3. /\ frame.ownerMayFreeData => heap' = heap \ {frame.data}
      /\ ~ frame.ownerMayFreeData => heap' = heap
  BY <1>2 DEF FreeFrame, MayFree
<1>4. TypeOK'
  <2>1. framesSent' \in Nat
    BY DEF IInv, TypeOK, FreeFrame, CountedAfterSending
  <2>2. /\ sendData' \in [PacketHandlers -> DataContainer \cup {NoFrame}]
        /\ sendState' \in [PacketHandlers -> {"idle", "popped", "sending", "sent"}]
    BY DEF IInv, TypeOK, FreeFrame
  <2>3. heap' \subseteq Buffers
    BY <1>2, <1>3 DEF IInv, TypeOK
  <2> QED BY <1>1, <2>1, <2>2, <2>3 DEF IInv, TypeOK
<1>5. HoldsFrame' /\ OwnersKnown'
  BY <1>1 DEF IInv, HoldsFrame, OwnersKnown, Freeable
<1>6. ArpAllocated'
  BY <1>1, <1>3, NetworkAssumption
  DEF IInv, TypeOK, ArpAllocated, OwnersKnown, Freeable
<1>7. NoUseAfterFree'
  <2>1. CASE ~ frame.ownerMayFreeData
    BY <1>1, <1>3, <2>1 DEF IInv, NoUseAfterFree
  <2>2. CASE frame.ownerMayFreeData
    <3>1. /\ \A i \in DOMAIN asyncSendData : asyncSendData[i].data # frame.data
          /\ \A u \in Busy \ {t} : sendData[u].data # frame.data
      BY <1>1, <2>2 DEF IInv, NoDoubleFree
    <3> QED BY <1>1, <1>3, <2>2, <3>1 DEF IInv, NoUseAfterFree
  <2> QED BY <1>2, <2>1, <2>2
<1>8. NoDoubleFree'
  BY <1>1 DEF IInv, NoDoubleFree
<1> QED BY <1>4, <1>5, <1>6, <1>7, <1>8 DEF IInv

\* Every step of the send side preserves the inductive invariant.
LEMMA NextIInv == IInv /\ [Next]_vars => IInv'
<1> SUFFICES ASSUME IInv, [Next]_vars PROVE IInv'
  OBVIOUS
<1>1. CASE Client
  <2>1. PICK b \in ClientBuffers, length \in Lengths : AsyncSendFrame(b, length)
    BY <1>1 DEF Client
  <2> QED BY <2>1, AsyncSendFrameStep, NetworkAssumption
<1>2. CASE ArpThread
  BY <1>2, GenerateArpStep, SendArpStep DEF ArpThread
<1>3. CASE \E t \in PacketHandlers : DoSendQueuedFrames(t)
  BY <1>3, TryPopStep, SendingStep, FreeFrameStep DEF DoSendQueuedFrames
<1>4. CASE UNCHANGED vars
  BY <1>4
  DEF vars, IInv, TypeOK, HoldsFrame, OwnersKnown, Freeable, ArpAllocated,
      NoUseAfterFree, NoDoubleFree, Busy
<1> QED BY <1>1, <1>2, <1>3, <1>4 DEF Next

\* The inductive invariant holds in every state the program can reach.
THEOREM Invariance == Spec => []IInv
BY InitIInv, NextIInv, PTL DEF Spec

\* The queue never holds more frames than its capacity, the packet handlers
\* hold frames or nothing, and the counters are natural numbers.
THEOREM TypeCorrect == Spec => []TypeOK
BY Invariance, PTL DEF IInv

\* DoSendQueuedFrames never sends from, and AsyncSendFrame never enqueues,
\* memory that was freed.
THEOREM FramesAllocated == Spec => []NoUseAfterFree
BY Invariance, PTL DEF IInv

\* No two calls of DoSendQueuedFrames delete[] one buffer.
THEOREM FreedOnce == Spec => []NoDoubleFree
BY Invariance, PTL DEF IInv
-----------------------------------------------------------------------------
(***************************************************************************)
(* The PF_RING build loses no buffer.                                      *)
(***************************************************************************)

\* The frames that nobody frees all lie in the one buffer of the ARP thread.
ArpKept ==
  /\ \A i \in DOMAIN asyncSendData :
       ~ asyncSendData[i].ownerMayFreeData => asyncSendData[i].data = arp
  /\ \A t \in Busy : ~ sendData[t].ownerMayFreeData => sendData[t].data = arp

\* While the ARP thread has not allocated its frame, none is on its way; then
\* every step of the PF_RING build keeps each allocated buffer reachable.
LEMMA NextNoLeak ==
  ASSUME UsePFRing, IInv, ArpKept, NoLeak, [Next]_vars
  PROVE  ArpKept' /\ NoLeak'
<1> USE DEF ArpKept, NoLeak
<1>1. ASSUME NEW b \in ClientBuffers, NEW length \in Lengths,
             AsyncSendFrame(b, length)
      PROVE  ArpKept' /\ NoLeak'
  <2> DEFINE frame == [data |-> b, length |-> length, ownerMayFreeData |-> TRUE]
  <2>1. frame \in DataContainer
    BY NetworkAssumption DEF DataContainer, Buffers
  <2>2. /\ Append(asyncSendData, frame) \in Seq(DataContainer)
        /\ \A i \in DOMAIN Append(asyncSendData, frame) :
             \/ /\ i \in DOMAIN asyncSendData
                /\ Append(asyncSendData, frame)[i] = asyncSendData[i]
             \/ Append(asyncSendData, frame)[i] = frame
    BY <2>1, AppendFacts DEF IInv, TypeOK
  <2>3. /\ \A i \in DOMAIN asyncSendData :
             i \in DOMAIN Append(asyncSendData, frame)
               /\ Append(asyncSendData, frame)[i] = asyncSendData[i]
        /\ Len(asyncSendData) + 1 \in DOMAIN Append(asyncSendData, frame)
        /\ Append(asyncSendData, frame)[Len(asyncSendData) + 1] = frame
    BY <2>1 DEF IInv, TypeOK
  <2>4. /\ asyncSendData' = Append(asyncSendData, frame)
        /\ heap' = heap \cup {b}
        /\ Busy' = Busy
        /\ UNCHANGED <<sendData, arp>>
    BY <1>1 DEF AsyncSendFrame, Push, Busy
  <2>5. frame.data = b /\ frame.ownerMayFreeData
    OBVIOUS
  <2> HIDE DEF frame
  <2> QED BY <2>2, <2>3, <2>4, <2>5
<1>2. CASE GenerateArp
  <2>1. PICK b \in ArpBuffers \ heap : arp' = b /\ heap' = heap \cup {b}
    BY <1>2 DEF GenerateArp
  <2>2. Busy' = Busy /\ UNCHANGED <<asyncSendData, sendData>> /\ arp = NoBuffer
    BY <1>2 DEF GenerateArp, Busy
  <2>3. /\ \A i \in DOMAIN asyncSendData : asyncSendData[i].data # NoBuffer
        /\ \A t \in Busy : sendData[t].data # NoBuffer
        /\ NoBuffer \notin heap
    BY NetworkAssumption DEF IInv, TypeOK, NoUseAfterFree, Buffers
  <2> QED BY <2>1, <2>2, <2>3
<1>3. CASE SendArp
  <2> DEFINE frame ==
        [data |-> arp, length |-> ArpLength, ownerMayFreeData |-> FALSE]
  <2>1. frame \in DataContainer
    BY <1>3 DEF SendArp, IInv, TypeOK, DataContainer, Buffers, ArpLength
  <2>2. \A i \in DOMAIN Append(asyncSendData, frame) :
          \/ /\ i \in DOMAIN asyncSendData
             /\ Append(asyncSendData, frame)[i] = asyncSendData[i]
          \/ Append(asyncSendData, frame)[i] = frame
    BY <2>1, AppendFacts DEF IInv, TypeOK
  <2>3. \A i \in DOMAIN asyncSendData :
          i \in DOMAIN Append(asyncSendData, frame)
            /\ Append(asyncSendData, frame)[i] = asyncSendData[i]
    BY <2>1 DEF IInv, TypeOK
  <2>4. /\ asyncSendData' = Append(asyncSendData, frame)
        /\ Busy' = Busy
        /\ UNCHANGED <<sendData, arp, heap>>
    BY <1>3 DEF SendArp, Push, Busy, ArpMayBeFreed
  <2>5. frame.data = arp
    OBVIOUS
  <2> HIDE DEF frame
  <2> QED BY <2>2, <2>3, <2>4, <2>5
<1>4. ASSUME NEW t \in PacketHandlers, TryPop(t)
      PROVE  ArpKept' /\ NoLeak'
  <2>1. /\ asyncSendData \in Seq(DataContainer)
        /\ asyncSendData # <<>>
        /\ asyncSendData' = Tail(asyncSendData)
        /\ UNCHANGED <<arp, heap>>
    BY <1>4 DEF IInv, TypeOK, TryPop, Remaining
  <2>2. /\ t \notin Busy
        /\ Busy' = Busy \cup {t}
        /\ sendData'[t] = asyncSendData[1]
        /\ \A u \in Busy : sendData'[u] = sendData[u]
    BY <1>4, <2>1, TailFacts DEF IInv, TypeOK, TryPop, Busy
  <2>3. /\ 1 \in DOMAIN asyncSendData
        /\ \A i \in DOMAIN asyncSendData' :
             i + 1 \in DOMAIN asyncSendData
               /\ asyncSendData'[i] = asyncSendData[i + 1]
    BY <2>1, TailFacts
  <2>4. \A i \in DOMAIN asyncSendData :
          i # 1 => i - 1 \in DOMAIN asyncSendData'
                     /\ asyncSendData'[i - 1] = asyncSendData[i]
    BY <2>1, TailFacts
  <2>5. ArpKept'
    BY <2>1, <2>2, <2>3
  <2>6. NoLeak'
    BY <2>1, <2>2, <2>4
  <2> QED BY <2>5, <2>6
<1>5. ASSUME NEW t \in PacketHandlers, CountFrame(t) \/ Transmit(t) \/ Refuse(t)
      PROVE  ArpKept' /\ NoLeak'
  <2>1. Busy' = Busy /\ UNCHANGED <<asyncSendData, sendData, arp, heap>>
    BY <1>5 DEF IInv, TypeOK, CountFrame, Transmit, Refuse, Busy
  <2> QED BY <2>1
<1>6. ASSUME NEW t \in PacketHandlers, FreeFrame(t)
      PROVE  ArpKept' /\ NoLeak'
  <2>1. /\ t \in Busy
        /\ Busy' = Busy \ {t}
        /\ \A u \in Busy' : sendData'[u] = sendData[u]
        /\ UNCHANGED <<asyncSendData, arp>>
    BY <1>6 DEF IInv, TypeOK, FreeFrame, Busy
  <2>2. sendData[t].ownerMayFreeData \in BOOLEAN
    BY <2>1 DEF IInv, HoldsFrame, DataContainer
  <2>3. /\ heap' \subseteq heap
        /\ sendData[t].ownerMayFreeData => sendData[t].data \notin heap'
        /\ ~ sendData[t].ownerMayFreeData => sendData[t].data = arp
    BY <1>6, <2>1, <2>2 DEF FreeFrame, MayFree
  <2> QED BY <2>1, <2>2, <2>3
<1>7. CASE UNCHANGED vars
  BY <1>7 DEF vars, Busy
<1> QED
  BY <1>1, <1>2, <1>3, <1>4, <1>5, <1>6, <1>7
  DEF Next, Client, ArpThread, DoSendQueuedFrames

\* "The data field will be deleted as soon as it has been sent": with PF_RING
\* every allocated frame is queued, being sent, or the ARP thread's own.
THEOREM NothingLeaks ==
  ASSUME UsePFRing
  PROVE  Spec => []NoLeak
<1>1. Init => ArpKept /\ NoLeak
  BY DEF Init, ArpKept, NoLeak, Busy
<1>2. IInv /\ ArpKept /\ NoLeak /\ [Next]_vars => ArpKept' /\ NoLeak'
  BY NextNoLeak
<1> QED BY <1>1, <1>2, Invariance, PTL DEF Spec

-----------------------------------------------------------------------------
\* PFring::send_packet is given nothing shorter than a minimal Ethernet frame,
\* transmits nothing longer than 1500 bytes and gives up nothing shorter.
THEOREM OnlyFittingFrames == Spec => []WireFramesFit
<1>1. Init => WireFramesFit
  BY DEF Init, WireFramesFit
<1>2. ASSUME IInv, WireFramesFit, [Next]_vars
      PROVE  WireFramesFit'
  <2> SUFFICES ASSUME UsePFRing
               PROVE  /\ \A i \in DOMAIN wire' : wire'[i].length \in MinFrame..MaxFrame
                      /\ \A i \in DOMAIN refused' : refused'[i].length > MaxFrame
    BY DEF WireFramesFit
  <2>1. /\ wire \in Seq(DataContainer) /\ refused \in Seq(DataContainer)
        /\ \A i \in DOMAIN wire : wire[i].length \in MinFrame..MaxFrame
        /\ \A i \in DOMAIN refused : refused[i].length > MaxFrame
    BY <1>2 DEF IInv, TypeOK, WireFramesFit
  <2>2. ASSUME NEW t \in PacketHandlers, Transmit(t)
        PROVE  /\ UNCHANGED refused
               /\ \A i \in DOMAIN wire' : wire'[i].length \in MinFrame..MaxFrame
    <3>1. sendData[t] \in DataContainer /\ sendData[t].length \in Nat
      BY <1>2, <2>2 DEF IInv, HoldsFrame, Busy, Transmit, DataContainer
    <3>2. WithTrailer(sendData[t]) \in DataContainer
      BY <3>1, PaddedLengthType DEF WithTrailer, DataContainer
    <3>3. WithTrailer(sendData[t]).length \in MinFrame..MaxFrame
      <4>1. ~ (PaddedLength(sendData[t].length) > MaxFrame)
        BY <2>2 DEF Transmit, TooLong
      <4>2. PaddedLength(sendData[t].length) \in MinFrame..MaxFrame
        BY <3>1, <4>1, PaddedLengthFits
      <4> QED BY <4>2 DEF WithTrailer
    <3>4. wire' = Append(wire, WithTrailer(sendData[t])) /\ UNCHANGED refused
      BY <2>2 DEF Transmit
    <3> QED BY <2>1, <3>2, <3>3, <3>4, AppendFacts
  <2>3. ASSUME NEW t \in PacketHandlers, Refuse(t)
        PROVE  /\ UNCHANGED wire
               /\ \A i \in DOMAIN refused' : refused'[i].length > MaxFrame
    <3>1. sendData[t] \in DataContainer /\ sendData[t].length \in Nat
      BY <1>2, <2>3 DEF IInv, HoldsFrame, Busy, Refuse, DataContainer
    <3>2. sendData[t].length > MaxFrame
      BY <2>3, <3>1 DEF Refuse, TooLong, PaddedLength, MinFrame, MaxFrame
    <3>3. refused' = Append(refused, sendData[t]) /\ UNCHANGED wire
      BY <2>3 DEF Refuse
    <3> QED BY <2>1, <3>1, <3>2, <3>3, AppendFacts
  <2>4. CASE UNCHANGED <<wire, refused>>
    BY <2>1, <2>4
  <2> QED
    BY <1>2, <2>1, <2>2, <2>3, <2>4
    DEF Next, Client, ArpThread, DoSendQueuedFrames, vars, AsyncSendFrame,
        GenerateArp, SendArp, TryPop, CountFrame, FreeFrame
<1> QED BY <1>1, <1>2, Invariance, PTL DEF Spec

-----------------------------------------------------------------------------
(***************************************************************************)
(* The statistics: where the frames are and how often they were counted.   *)
(***************************************************************************)

\* The packet handlers at a point of DoSendQueuedFrames, and their number,
\* when their places are given by the function places.
At(places, point) == {t \in PacketHandlers : places[t] = point}

NumberAt(places, point) == Cardinality(At(places, point))

\* There are finitely many packet handlers.
LEMMA NumberAtType ==
  ASSUME NEW places, NEW point
  PROVE  IsFiniteSet(At(places, point)) /\ NumberAt(places, point) \in Nat
BY NetworkAssumption, FS_Subset, FS_CardinalityType DEF At, NumberAt

\* Every enqueued frame is queued, in the hands of a packet handler, sent or
\* given up.
FramesPlaced ==
  pushes + arps = Len(asyncSendData) + NumberAt(sendState, "popped")
                    + NumberAt(sendState, "sending") + (Len(wire) + Len(refused))

\* framesSent_ in the PF_RING build.
FramesCounted ==
  UsePFRing =>
    framesSent = (Len(wire) + Len(refused)) + NumberAt(sendState, "sending")

\* All numbers that are compared are natural.
LEMMA StatisticsType ==
  ASSUME TypeOK
  PROVE  /\ Len(asyncSendData) \in Nat /\ Len(wire) \in Nat /\ Len(refused) \in Nat
         /\ pushes \in Nat /\ arps \in Nat /\ framesSent \in Nat
         /\ NumberAt(sendState, "popped") \in Nat /\ NumberAt(sendState, "sending") \in Nat
BY NumberAtType DEF TypeOK

\* An enqueued frame is counted by its producer.
LEMMA PushAccounted ==
  ASSUME IInv, FramesPlaced, FramesCounted, NEW frame \in DataContainer,
         Push(frame), pushes' + arps' = pushes + arps + 1,
         UNCHANGED <<sendState, framesSent, wire, refused>>
  PROVE  FramesPlaced' /\ FramesCounted'
<1>1. Len(asyncSendData') = Len(asyncSendData) + 1
  BY AppendFacts DEF IInv, TypeOK, Push
<1>2. \A s : NumberAt(sendState', s) = NumberAt(sendState, s)
  BY DEF NumberAt, At
<1>3. FramesPlaced'
  BY SMTT(30), <1>1, <1>2, StatisticsType DEF FramesPlaced, IInv
<1>4. FramesCounted'
  BY <1>2 DEF FramesCounted
<1> QED BY <1>3, <1>4

\* So is every step of DoSendQueuedFrames.
LEMMA SendAccounted ==
  ASSUME IInv, FramesPlaced, FramesCounted, NEW t \in PacketHandlers,
         DoSendQueuedFrames(t)
  PROVE  FramesPlaced' /\ FramesCounted'
<1>1. TypeOK /\ sendState \in [PacketHandlers -> {"idle", "popped", "sending", "sent"}]
  BY DEF IInv, TypeOK
<1> DEFINE popped == NumberAt(sendState, "popped")
           sending == NumberAt(sendState, "sending")
<1>n. /\ Len(asyncSendData) \in Nat /\ Len(wire) \in Nat /\ Len(refused) \in Nat
      /\ pushes \in Nat /\ arps \in Nat /\ framesSent \in Nat
      /\ popped \in Nat /\ sending \in Nat
  BY <1>1, StatisticsType
<1>p. FramesPlaced /\ FramesCounted
  OBVIOUS
<1>2. CASE TryPop(t)
  <2>1. /\ Len(asyncSendData') = Len(asyncSendData) - 1
        /\ UNCHANGED <<framesSent, wire, refused, pushes, arps>>
        /\ sendState[t] = "idle" /\ sendState'[t] = "popped"
        /\ \A u \in PacketHandlers \ {t} : sendState'[u] = sendState[u]
    BY <1>1, <1>2, TailFacts DEF TypeOK, TryPop, Remaining
  <2>a. /\ At(sendState', "popped") = At(sendState, "popped") \cup {t}
        /\ t \notin At(sendState, "popped")
        /\ At(sendState', "sending") = At(sendState, "sending")
    BY <2>1 DEF At
  <2>2. /\ NumberAt(sendState', "popped") = NumberAt(sendState, "popped") + 1
        /\ NumberAt(sendState', "sending") = NumberAt(sendState, "sending")
    BY <2>a, NumberAtType, FS_AddElement, FS_RemoveElement DEF NumberAt
  <2>5. FramesPlaced'
    BY <1>n, <1>p, <2>1, <2>2 DEF FramesPlaced
  <2>6. FramesCounted'
    BY <1>n, <1>p, <2>1, <2>2 DEF FramesCounted
  <2> QED BY <2>5, <2>6
<1>3. CASE CountFrame(t)
  <2>1. /\ framesSent' = framesSent + 1
        /\ UNCHANGED <<asyncSendData, wire, refused, pushes, arps>>
        /\ sendState[t] = "popped" /\ sendState'[t] = "sending"
        /\ \A u \in PacketHandlers \ {t} : sendState'[u] = sendState[u]
    BY <1>1, <1>3 DEF CountFrame
  <2>a. /\ At(sendState', "popped") = At(sendState, "popped") \ {t} /\ t \in At(sendState, "popped")
        /\ At(sendState', "sending") = At(sendState, "sending") \cup {t}
        /\ t \notin At(sendState, "sending")
    BY <2>1 DEF At
  <2>2. /\ NumberAt(sendState', "popped") = NumberAt(sendState, "popped") - 1
        /\ NumberAt(sendState', "sending") = NumberAt(sendState, "sending") + 1
    BY <2>a, NumberAtType, FS_AddElement, FS_RemoveElement DEF NumberAt
  <2>5. FramesPlaced'
    BY <1>n, <1>p, <2>1, <2>2 DEF FramesPlaced
  <2>6. FramesCounted'
    BY SMTT(30), <1>n, <1>p, <2>1, <2>2 DEF FramesCounted
  <2> QED BY <2>5, <2>6
<1>4. CASE Transmit(t) \/ Refuse(t)
  <2>1. /\ UNCHANGED <<asyncSendData, framesSent, pushes, arps>>
        /\ sendState[t] = "sending" /\ sendState'[t] = "sent"
        /\ \A u \in PacketHandlers \ {t} : sendState'[u] = sendState[u]
    BY <1>1, <1>4 DEF Transmit, Refuse
  <2>2. Len(wire') + Len(refused') = Len(wire) + Len(refused) + 1
    <3>1. sendData[t] \in DataContainer /\ sendData[t].length \in Nat
      BY <2>1 DEF IInv, HoldsFrame, Busy, DataContainer
    <3>2. WithTrailer(sendData[t]) \in DataContainer
      BY <3>1, PaddedLengthType DEF WithTrailer, DataContainer
    <3>3. CASE Transmit(t)
      BY <1>1, <3>2, <3>3, AppendFacts DEF TypeOK, Transmit
    <3>4. CASE Refuse(t)
      BY <1>1, <3>1, <3>4, AppendFacts DEF TypeOK, Refuse
    <3> QED BY <1>4, <3>3, <3>4
  <2>a. /\ At(sendState', "popped") = At(sendState, "popped")
        /\ At(sendState', "sending") = At(sendState, "sending") \ {t}
        /\ t \in At(sendState, "sending")
    BY <2>1 DEF At
  <2>3. /\ NumberAt(sendState', "popped") = NumberAt(sendState, "popped")
        /\ NumberAt(sendState', "sending") = NumberAt(sendState, "sending") - 1
    BY <2>a, NumberAtType, FS_AddElement, FS_RemoveElement DEF NumberAt
  <2>4. Len(wire') \in Nat /\ Len(refused') \in Nat
    BY <1>4, NextIInv, StatisticsType DEF IInv, Next, DoSendQueuedFrames
  <2>5. FramesPlaced'
    BY <1>n, <1>p, <2>1, <2>2, <2>3, <2>4 DEF FramesPlaced
  <2>6. FramesCounted'
    BY <1>n, <1>p, <2>1, <2>2, <2>3, <2>4 DEF FramesCounted
  <2> QED BY <2>5, <2>6
<1>5. CASE FreeFrame(t)
  <2>1. /\ framesSent' = IF ~ UsePFRing THEN framesSent + 1 ELSE framesSent
        /\ UNCHANGED <<asyncSendData, wire, refused, pushes, arps>>
        /\ sendState[t] = "sent" /\ sendState'[t] = "idle"
        /\ \A u \in PacketHandlers \ {t} : sendState'[u] = sendState[u]
    BY <1>1, <1>5 DEF FreeFrame, CountedAfterSending
  <2>a. /\ At(sendState', "popped") = At(sendState, "popped")
        /\ At(sendState', "sending") = At(sendState, "sending")
    BY <2>1 DEF At
  <2>2. /\ NumberAt(sendState', "popped") = NumberAt(sendState, "popped")
        /\ NumberAt(sendState', "sending") = NumberAt(sendState, "sending")
    BY <2>a, NumberAtType, FS_AddElement, FS_RemoveElement DEF NumberAt
  <2>5. FramesPlaced'
    BY <1>n, <1>p, <2>1, <2>2 DEF FramesPlaced
  <2>6. FramesCounted'
    BY SMTT(30), <1>n, <1>p, <2>1, <2>2 DEF FramesCounted
  <2> QED BY <2>5, <2>6
<1> QED BY <1>2, <1>3, <1>4, <1>5 DEF DoSendQueuedFrames

\* At the start there is no frame.
LEMMA InitAccounted == Init => FramesPlaced /\ FramesCounted
<1> SUFFICES ASSUME Init PROVE FramesPlaced /\ FramesCounted
  OBVIOUS
<1>1. \A s \in {"popped", "sending"} : NumberAt(sendState, s) = 0
  <2>1. \A s \in {"popped", "sending"} : At(sendState, s) = {}
    BY DEF Init, At
  <2> QED BY <2>1, FS_EmptySet DEF NumberAt
<1> QED BY <1>1 DEF Init, FramesPlaced, FramesCounted

\* No step of the producers or the packet handlers loses count.
LEMMA NextAccounted ==
  IInv /\ FramesPlaced /\ FramesCounted /\ [Next]_vars => FramesPlaced' /\ FramesCounted'
<1> SUFFICES ASSUME IInv, FramesPlaced, FramesCounted, [Next]_vars
             PROVE  FramesPlaced' /\ FramesCounted'
  OBVIOUS
<1>1. CASE Client
  <2>1. PICK b \in ClientBuffers, length \in Lengths : AsyncSendFrame(b, length)
    BY <1>1 DEF Client
  <2> DEFINE frame == [data |-> b, length |-> length, ownerMayFreeData |-> TRUE]
  <2>2. frame \in DataContainer
    BY NetworkAssumption DEF DataContainer, Buffers
  <2>3. /\ Push(frame) /\ pushes' + arps' = pushes + arps + 1
        /\ UNCHANGED <<sendState, framesSent, wire, refused>>
    BY <2>1 DEF AsyncSendFrame, IInv, TypeOK
  <2> QED BY <2>2, <2>3, PushAccounted
<1>2. CASE GenerateArp \/ UNCHANGED vars
  BY <1>2 DEF GenerateArp, vars, FramesPlaced, FramesCounted, NumberAt, At
<1>3. CASE SendArp
  <2> DEFINE frame == [data |-> arp, length |-> ArpLength,
                       ownerMayFreeData |-> ArpMayBeFreed]
  <2>1. frame \in DataContainer
    BY <1>3 DEF SendArp, IInv, TypeOK, DataContainer, Buffers, ArpLength, ArpMayBeFreed
  <2>2. /\ Push(frame) /\ pushes' + arps' = pushes + arps + 1
        /\ UNCHANGED <<sendState, framesSent, wire, refused>>
    BY <1>3 DEF SendArp, IInv, TypeOK
  <2> QED BY <2>1, <2>2, PushAccounted
<1> QED BY <1>1, <1>2, <1>3, SendAccounted DEF Next, ArpThread

\* FramesAccounted speaks of the same numbers.
LEMMA AccountedParts == FramesPlaced /\ FramesCounted => FramesAccounted
BY DEF FramesPlaced, FramesCounted, FramesAccounted, NumberAt, At

\* Every enqueued frame is in exactly one place in either build, and in the
\* PF_RING build framesSent_ counts each frame that is handed over once.
THEOREM FramesAllAccounted == Spec => []FramesAccounted
BY InitAccounted, NextAccounted, AccountedParts, Invariance, PTL DEF Spec
=============================================================================
