-------------------------- MODULE L1System_proofs --------------------------
(***************************************************************************)
(* L1DistributionHandler and NetworkHandler around asyncSendData_: each    *)
(* component runs in the system as it was specified alone, so that what    *)
(* was proved of it alone holds here too.                                  *)
(***************************************************************************)
EXTENDS L1System, SequenceTheorems, FiniteSetTheorems, TLAPS

\* The proofs of the two components.
L1P == INSTANCE L1DistributionHandler_proofs
         WITH QueueCapacity <- Capacity, OtherFrames <- ArpFrames,
              MaxOther <- Capacity

NetP == INSTANCE NetworkHandler_proofs
          WITH UsePFRing <- TRUE, ClientBuffers <- MRPBuffers,
               Lengths <- {L1!FrameLength(n) : n \in 1..MAX_TRIGGERS_PER_L1MRP}

\* The constants are such that the components' proofs apply.
LEMMA L1Constants == L1P!L1Assumption
BY SystemAssumption DEF L1P!L1Assumption

\* Frames of one to MAX_TRIGGERS_PER_L1MRP triggers have lengths NetworkHandler knows.
LEMMA NetConstants == NetP!NetworkAssumption
<1>1. {L1!FrameLength(n) : n \in 1..MAX_TRIGGERS_PER_L1MRP} \subseteq Nat
  BY SystemAssumption DEF L1!FrameLength
<1>2. TRUE \in BOOLEAN
  OBVIOUS
<1> QED BY <1>1, <1>2, SystemAssumption DEF NetP!NetworkAssumption,
             NetP!IsFiniteSet, IsFiniteSet

-----------------------------------------------------------------------------
(***************************************************************************)
(* The definitions of the component and of the module with its proofs are  *)
(* the same.                                                               *)
(***************************************************************************)
LEMMA SameL1Init == L1!Init <=> L1P!Init
BY DEF L1!Init, L1P!Init, L1!Hdrs, L1P!Hdrs

\* Both name the same variables of L1DistributionHandler.
LEMMA SameL1Vars == UNCHANGED L1!vars <=> UNCHANGED L1P!vars
BY DEF L1!vars, L1!workerVars, L1!burstVars, L1!mrpVars, L1!counters,
       L1P!vars, L1P!workerVars, L1P!burstVars, L1P!mrpVars, L1P!counters

\* Every step of the workers, of thread() and of the queue is the same in both.
LEMMA SameL1Next == L1!Next <=> L1P!Next
<1> USE DEF L1!workerVars, L1!burstVars, L1!mrpVars, L1!counters,
            L1P!workerVars, L1P!burstVars, L1P!mrpVars, L1P!counters
<1>1. L1!StartFlush <=> L1P!StartFlush
  BY DEF L1!StartFlush, L1P!StartFlush
<1>2. L1!EndFlush <=> L1P!EndFlush
  BY DEF L1!EndFlush, L1P!EndFlush
<1>3. \A w : L1!CheckFlush(w) <=> L1P!CheckFlush(w)
  <2>1. L1!Admitted = L1P!Admitted
    BY DEF L1!Admitted, L1P!Admitted, L1!Cardinality, L1P!Cardinality
  <2> QED BY <2>1 DEF L1!CheckFlush, L1P!CheckFlush
<1>4. \A w : L1!PushRequest(w) <=> L1P!PushRequest(w)
  BY DEF L1!PushRequest, L1P!PushRequest
<1>5. L1!Collect <=> L1P!Collect
  BY DEF L1!Collect, L1P!Collect, L1!MoreToCollect, L1P!MoreToCollect
<1>6. L1!ReadFlush <=> L1P!ReadFlush
  BY DEF L1!ReadFlush, L1P!ReadFlush
<1>7. L1!Drain <=> L1P!Drain
  BY DEF L1!Drain, L1P!Drain, L1!AfterDrain, L1P!AfterDrain
<1>8. L1!DrainEmpty <=> L1P!DrainEmpty
  BY DEF L1!DrainEmpty, L1P!DrainEmpty
<1>9. L1!PopRequest <=> L1P!PopRequest
  BY DEF L1!PopRequest, L1P!PopRequest
<1>10. L1!Decide <=> L1P!Decide
  BY DEF L1!Decide, L1P!Decide, L1!HasRequests, L1P!HasRequests
<1>11. L1!PackMRP <=> L1P!PackMRP
  <2>1. L1!NumberOfTriggers = L1P!NumberOfTriggers
    BY DEF L1!NumberOfTriggers, L1P!NumberOfTriggers
  <2>2. L1!Packed = L1P!Packed
    BY <2>1 DEF L1!Packed, L1P!Packed
  <2>3. L1!LeftOver = L1P!LeftOver
    BY <2>1 DEF L1!LeftOver, L1P!LeftOver
  <2> QED BY <2>2, <2>3 DEF L1!PackMRP, L1P!PackMRP, L1!FirstHdr, L1P!FirstHdr
<1>12. L1!SendFrame <=> L1P!SendFrame
  <2>1. L1!Hdrs = L1P!Hdrs
    BY DEF L1!Hdrs, L1P!Hdrs
  <2>2. L1!MRPFrame(nextHdr) = L1P!MRPFrame(nextHdr)
    BY DEF L1!MRPFrame, L1P!MRPFrame, L1!FrameLength, L1P!FrameLength
  <2> QED BY <2>1, <2>2 DEF L1!SendFrame, L1P!SendFrame, L1!SendQueueHasRoom, L1P!SendQueueHasRoom
<1>13. L1!FinishMRP <=> L1P!FinishMRP
  BY DEF L1!FinishMRP, L1P!FinishMRP, L1!Hdrs, L1P!Hdrs, L1!TriggersCounted, L1P!TriggersCounted
<1>14. L1!TakeFrame <=> L1P!TakeFrame
  BY DEF L1!TakeFrame, L1P!TakeFrame
<1>15. L1!OtherFrame <=> L1P!OtherFrame
  <2>1. L1!OthersWaiting = L1P!OthersWaiting
    BY DEF L1!OthersWaiting, L1P!OthersWaiting, L1!Cardinality, L1P!Cardinality
  <2> QED BY <2>1 DEF L1!OtherFrame, L1P!OtherFrame
<1> QED BY <1>1, <1>2, <1>3, <1>4, <1>5, <1>6, <1>7, <1>8, <1>9, <1>10, <1>11,
           <1>12, <1>13, <1>14, <1>15 DEF L1!Next, L1P!Next, L1!Distribute, L1P!Distribute

\* Both start with the same empty asyncSendData_.
LEMMA SameNetInit == Net!Init <=> NetP!Init
BY DEF Net!Init, NetP!Init, Net!NoFrame, NetP!NoFrame

\* Every step of DoSendQueuedFrames is the same in both.
LEMMA SameNetSend ==
  ASSUME NEW t, Net!DoSendQueuedFrames(t)
  PROVE  NetP!DoSendQueuedFrames(t)
<1>1. CASE Net!TryPop(t)
  BY <1>1 DEF Net!TryPop, NetP!TryPop, Net!Remaining, NetP!Remaining, NetP!DoSendQueuedFrames
<1>2. CASE Net!CountFrame(t)
  BY <1>2 DEF Net!CountFrame, NetP!CountFrame, NetP!DoSendQueuedFrames
<1>3. CASE Net!Transmit(t)
  BY <1>3 DEF Net!Transmit, NetP!Transmit, Net!TooLong, NetP!TooLong, Net!WithTrailer,
     NetP!WithTrailer, Net!PaddedLength, NetP!PaddedLength, Net!MinFrame, NetP!MinFrame,
     Net!MaxFrame, NetP!MaxFrame, NetP!DoSendQueuedFrames
<1>4. CASE Net!Refuse(t)
  BY <1>4 DEF Net!Refuse, NetP!Refuse, Net!TooLong, NetP!TooLong,
     Net!PaddedLength, NetP!PaddedLength, Net!MinFrame, NetP!MinFrame,
     Net!MaxFrame, NetP!MaxFrame, NetP!DoSendQueuedFrames
<1>5. CASE Net!FreeFrame(t)
  BY <1>5 DEF Net!FreeFrame, NetP!FreeFrame, Net!MayFree, NetP!MayFree,
     Net!CountedAfterSending, NetP!CountedAfterSending, Net!NoFrame, NetP!NoFrame,
     NetP!DoSendQueuedFrames
<1> QED BY <1>1, <1>2, <1>3, <1>4, <1>5 DEF Net!DoSendQueuedFrames

\* Every step of the ARP thread is the same in both.
LEMMA SameArpThread == ASSUME Net!ArpThread PROVE NetP!ArpThread
<1>1. CASE Net!GenerateArp
  BY <1>1 DEF Net!GenerateArp, NetP!GenerateArp, NetP!ArpThread
<1>2. CASE arps < MaxArps /\ Net!SendArp
  BY <1>2 DEF Net!SendArp, NetP!SendArp, Net!Push, NetP!Push, Net!HasRoom, NetP!HasRoom,
     Net!ArpLength, NetP!ArpLength, Net!ArpMayBeFreed, NetP!ArpMayBeFreed, NetP!ArpThread
<1> QED BY <1>1, <1>2 DEF Net!ArpThread

-----------------------------------------------------------------------------
(***************************************************************************)
(* Both components at work.                                                *)
(***************************************************************************)

\* What was shown to be invariant in the components.
ComponentsInv == L1P!ControlInv /\ L1P!RequestInv /\ NetP!IInv

\* The system starts with each component in its initial state.
LEMMA InitComponents == Init => ComponentsInv
BY L1Constants, NetConstants, SameL1Init, SameNetInit, L1P!InitControl, L1P!InitRequests,
   NetP!InitIInv DEF Init, ComponentsInv

\* AsyncSendFrame of an MRP is a call NetworkHandler expects.
LEMMA SendFrameRefines ==
  ASSUME ComponentsInv, SendFrame
  PROVE  L1!Next /\ NetP!Next
<1>1. L1!Next
  BY DEF SendFrame, L1!Next, L1!Distribute
<1>2. PICK b, length :
        /\ b = L1!MRPFrame(nextHdr).data /\ length = L1!MRPFrame(nextHdr).length
  OBVIOUS
<1>3. Net!AsyncSendFrame(b, length)
  BY <1>2 DEF SendFrame, Net!AsyncSendFrame, Net!Push
<1>4. b \in MRPBuffers
  BY <1>3 DEF Net!AsyncSendFrame
<1>5. Len(buff) \in 1..MAX_TRIGGERS_PER_L1MRP
  BY DEF SendFrame, L1!SendFrame, ComponentsInv, L1P!ControlInv, L1P!ListBounds
<1>6. length \in {L1!FrameLength(n) : n \in 1..MAX_TRIGGERS_PER_L1MRP}
  BY <1>2, <1>5 DEF L1!MRPFrame
<1>7. NetP!AsyncSendFrame(b, length)
  BY <1>3 DEF Net!AsyncSendFrame, NetP!AsyncSendFrame, Net!Push, NetP!Push,
     Net!HasRoom, NetP!HasRoom
<1>8. NetP!Client
  BY <1>4, <1>6, <1>7 DEF NetP!Client, SendFrame
<1> QED BY <1>1, <1>8 DEF NetP!Next

\* The steps of BurstIdHandler, the workers and the distribution thread leave
\* NetworkHandler alone.
LEMMA L1StepRefines ==
  ASSUME ClientStep \/ DistributeStep
  PROVE  L1!Next /\ UNCHANGED NetP!vars
<1>1. L1!Next
  BY DEF ClientStep, DistributeStep, L1!Next, L1!Distribute
<1>2. UNCHANGED asyncSendData
  BY DEF ClientStep, DistributeStep, L1!StartFlush, L1!EndFlush, L1!CheckFlush,
     L1!PushRequest, L1!Collect, L1!ReadFlush, L1!Drain, L1!DrainEmpty, L1!PopRequest,
     L1!Decide, L1!PackMRP, L1!FinishMRP, L1!mrpVars
<1>3. UNCHANGED NetP!vars
  BY <1>2 DEF ClientStep, DistributeStep, netVars, NetP!vars
<1> QED BY <1>1, <1>3

\* The ARP thread puts frames of others into the send queue.
LEMMA ArpStepRefines ==
  ASSUME ComponentsInv, ArpStep
  PROVE  (L1!Next \/ UNCHANGED L1!vars) /\ NetP!Next
<1> USE DEF L1!workerVars, L1!burstVars, L1!mrpVars, L1!counters, l1Vars
<1>1. NetP!Next
  BY SameArpThread DEF ArpStep, NetP!Next
<1>2. CASE Net!GenerateArp
  BY <1>1, <1>2 DEF ArpStep, Net!GenerateArp, L1!vars
<1>3. CASE arps < MaxArps /\ Net!SendArp
  <2> DEFINE f == [data |-> arp, length |-> 42, ownerMayFreeData |-> FALSE]
  <2>1. /\ arp # NoBuffer /\ Len(asyncSendData) < Capacity
        /\ asyncSendData' = Append(asyncSendData, f)
    BY <1>3 DEF Net!SendArp, Net!Push, Net!HasRoom, Net!ArpLength, Net!ArpMayBeFreed
  <2>2. arp \in ArpBuffers
    BY <2>1 DEF ComponentsInv, NetP!IInv, NetP!TypeOK
  <2>3. f \in ArpFrames
    BY <2>2 DEF ArpFrames
  <2>4. L1!OthersWaiting < Capacity
    <3> DEFINE Others == {i \in DOMAIN asyncSendData : asyncSendData[i] \in ArpFrames}
    <3>1. Len(asyncSendData) \in Nat /\ DOMAIN asyncSendData = 1..Len(asyncSendData)
      <4>1. asyncSendData \in Seq(L1P!Frames)
        BY DEF ComponentsInv, L1P!ControlInv, L1P!TypeOK
      <4> QED BY <4>1, LenProperties
    <3>2. /\ IsFiniteSet(1..Len(asyncSendData))
          /\ Cardinality(1..Len(asyncSendData)) = Len(asyncSendData)
      <4>1. 1 \in Int /\ Len(asyncSendData) \in Int
        BY <3>1
      <4>2. /\ IsFiniteSet(1..Len(asyncSendData))
            /\ Cardinality(1..Len(asyncSendData))
                 = IF 1 > Len(asyncSendData) THEN 0 ELSE Len(asyncSendData) - 1 + 1
        BY <4>1, FS_Interval
      <4> QED BY <3>1, <4>2
    <3>3. Others \subseteq 1..Len(asyncSendData)
      BY <3>1
    <3>4. /\ Cardinality(Others) <= Len(asyncSendData)
          /\ Cardinality(Others) \in Nat
      BY <3>2, <3>3, FS_Subset, FS_CardinalityType
    <3>5. L1!OthersWaiting = Cardinality(Others)
      BY DEF L1!OthersWaiting, L1!Cardinality, Cardinality
    <3> QED BY <2>1, <3>1, <3>4, <3>5, SystemAssumption
  <2>5. L1!OtherFrame
    BY <2>1, <2>3, <2>4 DEF L1!OtherFrame, ArpStep
  <2> QED BY <1>1, <2>5 DEF L1!Next
<1> QED BY <1>1, <1>2, <1>3 DEF ArpStep, Net!ArpThread

\* The packet handlers take frames from it.
LEMMA PacketHandlerStepRefines ==
  ASSUME NEW t \in PacketHandlers, PacketHandlerStep(t)
  PROVE  (L1!Next \/ UNCHANGED L1!vars) /\ NetP!Next
<1> USE DEF L1!workerVars, L1!burstVars, L1!mrpVars, L1!counters, l1Vars
<1>1. NetP!Next
  BY SameNetSend DEF PacketHandlerStep, NetP!Next
<1>2. CASE Net!TryPop(t)
  <2>1. L1!TakeFrame
    BY <1>2 DEF PacketHandlerStep, Net!TryPop, Net!Remaining, L1!TakeFrame
  <2> QED BY <1>1, <2>1 DEF L1!Next
<1>3. CASE Net!CountFrame(t) \/ Net!Transmit(t) \/ Net!Refuse(t) \/ Net!FreeFrame(t)
  BY <1>1, <1>3 DEF PacketHandlerStep, Net!CountFrame, Net!Transmit, Net!Refuse,
     Net!FreeFrame, L1!vars
<1> QED BY <1>2, <1>3 DEF PacketHandlerStep, Net!DoSendQueuedFrames

\* Every step of the system is a step of each component, or leaves it alone.
LEMMA StepRefines ==
  ASSUME ComponentsInv, [Next]_vars
  PROVE  [L1!Next]_(L1!vars) /\ [NetP!Next]_(NetP!vars)
<1>1. CASE UNCHANGED vars
  BY <1>1 DEF vars, l1Vars, netVars, L1!vars, L1!workerVars, L1!burstVars, L1!mrpVars,
     L1!counters, NetP!vars
<1>2. CASE SendFrame
  BY <1>2, SendFrameRefines
<1>3. CASE ClientStep \/ DistributeStep
  BY <1>3, L1StepRefines
<1>4. CASE ArpStep
  BY <1>4, ArpStepRefines
<1>5. CASE \E t \in PacketHandlers : PacketHandlerStep(t)
  BY <1>5, PacketHandlerStepRefines
<1> QED BY <1>1, <1>2, <1>3, <1>4, <1>5 DEF Next

\* A step of the system is a step, or none, of each component, so that it keeps
\* what each component keeps on its own.
LEMMA NextComponents == ComponentsInv /\ [Next]_vars => ComponentsInv'
<1> SUFFICES ASSUME ComponentsInv, [Next]_vars PROVE ComponentsInv'
  OBVIOUS
<1>1. [L1P!Next]_(L1P!vars) /\ [NetP!Next]_(NetP!vars)
  BY StepRefines, SameL1Next, SameL1Vars
<1>2. L1P!ControlInv' /\ L1P!RequestInv'
  BY <1>1, L1Constants, L1P!NextControl, L1P!NextRequests DEF ComponentsInv
<1>3. NetP!IInv'
  BY <1>1, NetConstants, NetP!NextIInv DEF ComponentsInv
<1> QED BY <1>2, <1>3 DEF ComponentsInv

\* What was proved invariant of L1DistributionHandler and of NetworkHandler alone
\* still holds when thread() pushes into the queue the packet handlers empty.
THEOREM ComponentsInvariance == Spec => []ComponentsInv
BY InitComponents, NextComponents, PTL DEF Spec

\* NetworkHandler is an environment L1DistributionHandler was specified with:
\* all that was proved of the safety of the component alone holds in the system.
THEOREM L1Refined == Spec => L1Implemented
<1>1. Init => L1!Init
  BY DEF Init
<1>2. ComponentsInv /\ [Next]_vars => [L1!Next]_(L1!vars)
  BY StepRefines
<1> QED BY <1>1, <1>2, ComponentsInvariance, PTL DEF Spec, L1Implemented

\* What the send side of NetworkHandler promises in the system.
NetworkImplemented == NetP!Init /\ [][NetP!Next]_(NetP!vars)

\* L1DistributionHandler uses NetworkHandler as it was specified: every call of
\* AsyncSendFrame comes with a buffer and a length NetworkHandler was shown to
\* handle.
THEOREM NetworkRefined == Spec => NetworkImplemented
<1>1. Init => NetP!Init
  BY SameNetInit DEF Init
<1>2. ComponentsInv /\ [Next]_vars => [NetP!Next]_(NetP!vars)
  BY StepRefines
<1> QED BY <1>1, <1>2, ComponentsInvariance, PTL DEF Spec, NetworkImplemented

-----------------------------------------------------------------------------
(***************************************************************************)
(* The way of every MRP, from the queue through the hands of a packet      *)
(* handler to the wire.  An MRP is named by the buffer of its frame; only  *)
(* the frames of MRPs may be freed.                                        *)
(***************************************************************************)
MRPs(frames) ==
  {frames[i].data : i \in {j \in DOMAIN frames : frames[j].ownerMayFreeData}}

HeldMRPs ==
  {sendData[t].data : t \in {u \in PacketHandlers :
                               /\ sendState[u] \in {"popped", "sending"}
                               /\ sendData[u].ownerMayFreeData}}

\* The MRPs that Async_SendMRP gave to AsyncSendFrame.
EnqueuedMRPs ==
  {d \in [hdr : L1!Hdrs, triggers : Seq(Nat)] : d.triggers \in Elements(sent[d.hdr])}

\* Each is in exactly one place, and on the wire once.
DeliveryInv ==
  /\ EnqueuedMRPs = MRPs(asyncSendData) \cup HeldMRPs \cup MRPs(wire) \cup MRPs(refused)
  /\ MRPs(asyncSendData) \cap (HeldMRPs \cup MRPs(wire) \cup MRPs(refused)) = {}
  /\ HeldMRPs \cap (MRPs(wire) \cup MRPs(refused)) = {}
  /\ MRPs(wire) \cap MRPs(refused) = {}
  /\ \A i, j \in DOMAIN wire :
       i # j /\ wire[i].ownerMayFreeData /\ wire[j].ownerMayFreeData
         => wire[i].data # wire[j].data

\* What push adds to a sequence of frames.
LEMMA AppendMRPs ==
  ASSUME NEW S, NEW s \in Seq(S), NEW f \in S
  PROVE  /\ f.ownerMayFreeData => MRPs(Append(s, f)) = MRPs(s) \cup {f.data}
         /\ ~ f.ownerMayFreeData => MRPs(Append(s, f)) = MRPs(s)
<1>1. /\ \A i \in DOMAIN Append(s, f) :
           \/ i \in DOMAIN s /\ Append(s, f)[i] = s[i]
           \/ Append(s, f)[i] = f
      /\ \A i \in DOMAIN s : i \in DOMAIN Append(s, f) /\ Append(s, f)[i] = s[i]
      /\ Len(s) + 1 \in DOMAIN Append(s, f) /\ Append(s, f)[Len(s) + 1] = f
  OBVIOUS
<1> QED BY <1>1 DEF MRPs

\* What try_pop takes from the queue.
LEMMA TailMRPs ==
  ASSUME NEW S, NEW s \in Seq(S), s # <<>>,
         \A i, j \in DOMAIN s : i # j /\ s[i].ownerMayFreeData => s[i].data # s[j].data
  PROVE  /\ Head(s).ownerMayFreeData =>
              /\ Head(s).data \in MRPs(s)
              /\ MRPs(Tail(s)) = MRPs(s) \ {Head(s).data}
         /\ ~ Head(s).ownerMayFreeData => MRPs(Tail(s)) = MRPs(s)
<1>1. /\ 1 \in DOMAIN s /\ Head(s) = s[1]
      /\ \A i \in DOMAIN Tail(s) :
           i + 1 \in DOMAIN s /\ i + 1 # 1 /\ Tail(s)[i] = s[i + 1]
      /\ \A i \in DOMAIN s : i # 1 => i - 1 \in DOMAIN Tail(s) /\ Tail(s)[i - 1] = s[i]
  OBVIOUS
<1>2. MRPs(Tail(s)) \subseteq MRPs(s)
  BY <1>1 DEF MRPs
<1>3. ASSUME Head(s).ownerMayFreeData
      PROVE  Head(s).data \in MRPs(s) /\ Head(s).data \notin MRPs(Tail(s))
  BY <1>1, <1>3 DEF MRPs
<1>4. ASSUME NEW d \in MRPs(s)
      PROVE  d \in MRPs(Tail(s)) \/ (Head(s).ownerMayFreeData /\ d = Head(s).data)
  <2>1. PICK i \in DOMAIN s : s[i].ownerMayFreeData /\ d = s[i].data
    BY DEF MRPs
  <2>2. CASE i = 1
    BY <1>1, <2>1, <2>2
  <2>3. CASE i # 1
    <3>1. i - 1 \in DOMAIN Tail(s) /\ Tail(s)[i - 1] = s[i]
      BY <1>1, <2>3
    <3> HIDE DEF MRPs
    <3>2. \A j \in DOMAIN Tail(s) :
            Tail(s)[j].ownerMayFreeData => Tail(s)[j].data \in MRPs(Tail(s))
      BY Zenon DEF MRPs
    <3> QED BY Zenon, <2>1, <3>1, <3>2
  <2> QED BY <2>2, <2>3
<1> QED BY <1>2, <1>3, <1>4

\* At the start there are no MRPs.
LEMMA InitDelivery == Init => DeliveryInv
<1> SUFFICES ASSUME Init PROVE DeliveryInv
  OBVIOUS
<1>1. MRPs(<<>>) = {} /\ DOMAIN <<>> = {}
  BY DEF MRPs
<1>2. asyncSendData = <<>> /\ wire = <<>> /\ refused = <<>>
  BY DEF Init, Net!Init
<1>3. HeldMRPs = {}
  BY DEF Init, Net!Init, HeldMRPs
<1>4. EnqueuedMRPs = {}
  BY DEF Init, L1!Init, EnqueuedMRPs, Elements
<1> QED BY <1>1, <1>2, <1>3, <1>4 DEF DeliveryInv

\* An MRP that is sent now was not sent before: it has a trigger, and no
\* trigger goes to a destination twice.
LEMMA MRPIsNew ==
  ASSUME ComponentsInv, pc = "send", nextHdr \in L1!Hdrs
  PROVE  /\ L1!MRPFrame(nextHdr).data \notin EnqueuedMRPs
         /\ L1!MRPFrame(nextHdr).data \in [hdr : L1!Hdrs, triggers : Seq(Nat)]
<1>1. /\ nextHdr \in Nat /\ Len(buff) \in 1..MAX_TRIGGERS_PER_L1MRP /\ buff \in Seq(Nat)
  BY DEF ComponentsInv, L1P!ControlInv, L1P!ListBounds, L1P!TypeOK
<1>2. 1 \in DOMAIN buff /\ buff[1] \in Nat
  BY <1>1, SystemAssumption
<1>3. L1P!Precede(L1P!SentTo(nextHdr), L1P!BeingSent(nextHdr))
  <2>1. L1P!DestinationOrder(nextHdr)
    BY <1>1 DEF ComponentsInv, L1P!RequestInv, L1!Hdrs, L1P!Hdrs
  <2> QED BY <2>1 DEF L1P!DestinationOrder, L1P!Precede
<1>4. buff[1] \in L1P!BeingSent(nextHdr)
  BY <1>1, <1>2 DEF L1P!BeingSent, L1P!Elements
<1>5. ASSUME buff \in Elements(sent[nextHdr]) PROVE FALSE
  <2>1. buff[1] \in L1P!SentTo(nextHdr)
    BY <1>2, <1>5 DEF L1P!SentTo, L1P!Elements, Elements
  <2> QED BY <1>2, <1>3, <1>4, <2>1 DEF L1P!Precede
<1> QED BY <1>1, <1>5 DEF L1!MRPFrame, EnqueuedMRPs

\* It is counted among the MRPs of its destination.
LEMMA EnqueuedGrows ==
  ASSUME ComponentsInv, L1!SendFrame
  PROVE  EnqueuedMRPs' = EnqueuedMRPs \cup {L1!MRPFrame(nextHdr).data}
<1> DEFINE d == L1!MRPFrame(nextHdr).data
<1>1. /\ sent' = [sent EXCEPT ![nextHdr] = Append(@, buff)]
      /\ nextHdr \in L1!Hdrs
  BY DEF L1!SendFrame
<1>2. d = [hdr |-> nextHdr, triggers |-> buff]
  BY DEF L1!MRPFrame
<1>3. d \in [hdr : L1!Hdrs, triggers : Seq(Nat)]
  BY MRPIsNew DEF L1!SendFrame
<1>4. /\ sent \in [L1!Hdrs -> Seq(Seq(Nat))] /\ buff \in Seq(Nat)
  BY DEF ComponentsInv, L1P!ControlInv, L1P!TypeOK, L1!Hdrs, L1P!Hdrs
<1>5. Elements(Append(sent[nextHdr], buff)) = Elements(sent[nextHdr]) \cup {buff}
  <2> DEFINE s == sent[nextHdr]
  <2>1. s \in Seq(Seq(Nat))
    BY <1>1, <1>4
  <2>2. /\ \A i \in DOMAIN Append(s, buff) :
             \/ i \in DOMAIN s /\ Append(s, buff)[i] = s[i]
             \/ Append(s, buff)[i] = buff
        /\ \A i \in DOMAIN s : i \in DOMAIN Append(s, buff) /\ Append(s, buff)[i] = s[i]
        /\ Len(s) + 1 \in DOMAIN Append(s, buff) /\ Append(s, buff)[Len(s) + 1] = buff
    BY <1>4, <2>1
  <2> QED BY <2>2 DEF Elements
<1>6. \A h \in L1!Hdrs : Elements(sent'[h]) = IF h = nextHdr THEN Elements(sent[h]) \cup {buff}
                                              ELSE Elements(sent[h])
  BY <1>1, <1>4, <1>5
<1>7. ASSUME NEW e \in [hdr : L1!Hdrs, triggers : Seq(Nat)]
      PROVE  e.triggers \in Elements(sent'[e.hdr])
               <=> e.triggers \in Elements(sent[e.hdr]) \/ e = d
  <2>1. e.hdr \in L1!Hdrs /\ e = [hdr |-> e.hdr, triggers |-> e.triggers]
    OBVIOUS
  <2>2. e = d <=> e.hdr = nextHdr /\ e.triggers = buff
    BY <1>2, <2>1
  <2> QED BY <1>6, <2>1, <2>2
<1>8. EnqueuedMRPs' = {e \in [hdr : L1!Hdrs, triggers : Seq(Nat)] :
                         e.triggers \in Elements(sent'[e.hdr])}
  BY DEF EnqueuedMRPs, L1!Hdrs
<1> HIDE DEF d
<1>9. EnqueuedMRPs' = EnqueuedMRPs \cup {d}
  BY <1>3, <1>7, <1>8 DEF EnqueuedMRPs
<1> QED BY <1>9 DEF d

\* AsyncSendFrame gives a new MRP to the queue.
LEMMA SendFrameDelivers ==
  ASSUME ComponentsInv, DeliveryInv, SendFrame
  PROVE  DeliveryInv'
<1> DEFINE f == L1!MRPFrame(nextHdr)
<1>1. /\ L1!SendFrame /\ asyncSendData' = Append(asyncSendData, f)
      /\ UNCHANGED <<sendState, sendData, wire, refused>>
  BY DEF SendFrame, L1!SendFrame, Net!AsyncSendFrame
<1>2. f.ownerMayFreeData
  BY DEF L1!MRPFrame
<1>3. f.data \notin EnqueuedMRPs
  BY <1>1, MRPIsNew DEF L1!SendFrame
<1>4. MRPs(asyncSendData') = MRPs(asyncSendData) \cup {f.data}
  <2>1. asyncSendData \in Seq(L1P!Frames \cup {f})
    BY DEF ComponentsInv, L1P!ControlInv, L1P!TypeOK
  <2> HIDE DEF f
  <2> QED BY <1>1, <1>2, <2>1, AppendMRPs
<1>5. EnqueuedMRPs' = EnqueuedMRPs \cup {f.data}
  BY <1>1, EnqueuedGrows
<1>6. HeldMRPs' = HeldMRPs
  BY <1>1 DEF HeldMRPs
<1> QED BY <1>1, <1>3, <1>4, <1>5, <1>6 DEF DeliveryInv

\* A step that moves no MRP.
LEMMA MRPsUnmoved ==
  ASSUME DeliveryInv, MRPs(asyncSendData') = MRPs(asyncSendData),
         HeldMRPs' = HeldMRPs, UNCHANGED <<sent, wire, refused>>
  PROVE  DeliveryInv'
<1>1. EnqueuedMRPs' = EnqueuedMRPs
  BY DEF EnqueuedMRPs, L1!Hdrs
<1> QED BY <1>1 DEF DeliveryInv

\* An ARP frame is no MRP.
LEMMA ArpDelivers ==
  ASSUME ComponentsInv, DeliveryInv, ArpStep
  PROVE  DeliveryInv'
<1>1. UNCHANGED <<sent, wire, refused, sendState, sendData>>
  BY DEF ArpStep, l1Vars, Net!ArpThread, Net!GenerateArp, Net!SendArp
<1>2. HeldMRPs' = HeldMRPs
  BY <1>1 DEF HeldMRPs
<1>3. CASE Net!GenerateArp
  <2>1. asyncSendData' = asyncSendData
    BY <1>3 DEF Net!GenerateArp
  <2> QED BY <1>1, <1>2, <2>1, MRPsUnmoved
<1>4. CASE Net!SendArp
  <2>1. PICK f : /\ f = [data |-> arp, length |-> 42, ownerMayFreeData |-> FALSE]
                 /\ asyncSendData' = Append(asyncSendData, f)
    BY <1>4 DEF Net!SendArp, Net!Push, Net!ArpLength, Net!ArpMayBeFreed
  <2>2. asyncSendData \in Seq(L1P!Frames \cup {f}) /\ ~ f.ownerMayFreeData
    BY <2>1 DEF ComponentsInv, L1P!ControlInv, L1P!TypeOK
  <2>3. MRPs(asyncSendData') = MRPs(asyncSendData)
    BY <2>1, <2>2, AppendMRPs
  <2> QED BY <1>1, <1>2, <2>3, MRPsUnmoved
<1> QED BY <1>3, <1>4 DEF ArpStep, Net!ArpThread

\* try_pop takes an MRP from the queue into the hands of one packet handler.
LEMMA TryPopDelivers ==
  ASSUME ComponentsInv, DeliveryInv, NEW t \in PacketHandlers, Net!TryPop(t),
         UNCHANGED l1Vars
  PROVE  DeliveryInv'
<1> DEFINE f == Head(asyncSendData)
<1>1. /\ sendState[t] = "idle" /\ asyncSendData # <<>>
      /\ sendState' = [sendState EXCEPT ![t] = "popped"]
      /\ sendData' = [sendData EXCEPT ![t] = f]
      /\ asyncSendData' = Tail(asyncSendData)
      /\ UNCHANGED <<sent, wire, refused>>
  BY DEF Net!TryPop, Net!Remaining, l1Vars
<1>2. /\ DOMAIN sendState = PacketHandlers /\ DOMAIN sendData = PacketHandlers
      /\ asyncSendData \in Seq(NetP!DataContainer)
  BY DEF ComponentsInv, NetP!IInv, NetP!TypeOK
<1>3. \A i, j \in DOMAIN asyncSendData :
        i # j /\ asyncSendData[i].ownerMayFreeData
          => asyncSendData[i].data # asyncSendData[j].data
  BY DEF ComponentsInv, NetP!IInv, NetP!NoDoubleFree
<1>4. EnqueuedMRPs' = EnqueuedMRPs
  BY <1>1 DEF EnqueuedMRPs, L1!Hdrs
<1>5. /\ f.ownerMayFreeData =>
           /\ f.data \in MRPs(asyncSendData)
           /\ MRPs(asyncSendData') = MRPs(asyncSendData) \ {f.data}
      /\ ~ f.ownerMayFreeData => MRPs(asyncSendData') = MRPs(asyncSendData)
  BY <1>1, <1>2, <1>3, TailMRPs
<1>6. \A u \in PacketHandlers :
        /\ u # t => sendState'[u] = sendState[u] /\ sendData'[u] = sendData[u]
        /\ sendState'[t] = "popped" /\ sendData'[t] = f
  BY <1>1, <1>2
<1> HIDE DEF f
<1>7. /\ f.ownerMayFreeData => HeldMRPs' = HeldMRPs \cup {f.data}
      /\ ~ f.ownerMayFreeData => HeldMRPs' = HeldMRPs
  BY <1>1, <1>6 DEF HeldMRPs
<1>8. CASE f.ownerMayFreeData
  BY <1>1, <1>4, <1>5, <1>7, <1>8 DEF DeliveryInv
<1>9. CASE ~ f.ownerMayFreeData
  BY <1>1, <1>5, <1>7, <1>9, MRPsUnmoved
<1> QED BY <1>8, <1>9

\* A packet handler that is done with sending no longer holds its MRP, and
\* nobody else holds the same.
LEMMA HandedOver ==
  ASSUME ComponentsInv, NEW t \in PacketHandlers, sendState[t] = "sending",
         sendState' = [sendState EXCEPT ![t] = "sent"], sendData' = sendData
  PROVE  /\ sendData[t].ownerMayFreeData =>
              sendData[t].data \in HeldMRPs /\ HeldMRPs' = HeldMRPs \ {sendData[t].data}
         /\ ~ sendData[t].ownerMayFreeData => HeldMRPs' = HeldMRPs
<1>1. DOMAIN sendState = PacketHandlers
  BY DEF ComponentsInv, NetP!IInv, NetP!TypeOK
<1>2. \A u \in PacketHandlers :
        u # t /\ sendState[u] # "idle" /\ sendData[t].ownerMayFreeData
          => sendData[u].data # sendData[t].data
  BY DEF ComponentsInv, NetP!IInv, NetP!NoDoubleFree, NetP!Busy
<1>3. sendState'[t] = "sent" /\ \A u \in PacketHandlers : u # t => sendState'[u] = sendState[u]
  BY <1>1
<1> QED BY <1>2, <1>3 DEF HeldMRPs

\* The card takes an MRP, or it is given up.
LEMMA SendDelivers ==
  ASSUME ComponentsInv, DeliveryInv, NEW t \in PacketHandlers,
         Net!Transmit(t) \/ Net!Refuse(t), UNCHANGED l1Vars
  PROVE  DeliveryInv'
<1> DEFINE f == sendData[t]
           g == Net!WithTrailer(f)
<1>1. /\ sendState[t] = "sending" /\ sendState' = [sendState EXCEPT ![t] = "sent"]
      /\ UNCHANGED <<sent, asyncSendData, sendData>>
  BY DEF Net!Transmit, Net!Refuse, l1Vars
<1>2. EnqueuedMRPs' = EnqueuedMRPs
  BY <1>1 DEF EnqueuedMRPs, L1!Hdrs
<1>3. /\ f.ownerMayFreeData => f.data \in HeldMRPs /\ HeldMRPs' = HeldMRPs \ {f.data}
      /\ ~ f.ownerMayFreeData => HeldMRPs' = HeldMRPs
  BY <1>1, HandedOver
<1>4. g.data = f.data /\ g.ownerMayFreeData = f.ownerMayFreeData
  BY DEF Net!WithTrailer
<1>5. wire \in Seq(NetP!DataContainer) /\ refused \in Seq(NetP!DataContainer)
  BY DEF ComponentsInv, NetP!IInv, NetP!TypeOK
<1>6. CASE Net!Transmit(t)
  <2>1. wire' = Append(wire, g) /\ refused' = refused
    BY <1>6 DEF Net!Transmit
  <2>2. wire \in Seq(NetP!DataContainer \cup {g})
    BY <1>5
  <2> HIDE DEF g
  <2>3. /\ f.ownerMayFreeData => MRPs(wire') = MRPs(wire) \cup {f.data}
        /\ ~ f.ownerMayFreeData => MRPs(wire') = MRPs(wire)
    BY <1>4, <2>1, <2>2, AppendMRPs
  <2>4. ASSUME NEW i \in DOMAIN wire', NEW j \in DOMAIN wire', i # j,
               wire'[i].ownerMayFreeData, wire'[j].ownerMayFreeData
        PROVE  wire'[i].data # wire'[j].data
    <3>1. \A k \in DOMAIN wire' :
            \/ k \in DOMAIN wire /\ wire'[k] = wire[k]
            \/ k = Len(wire) + 1 /\ wire'[k] = g
      BY <2>1, <2>2
    <3>2. g.ownerMayFreeData => \A k \in DOMAIN wire :
                                  wire[k].ownerMayFreeData => wire[k].data # g.data
      <4> SUFFICES ASSUME g.ownerMayFreeData, NEW k \in DOMAIN wire, wire[k].ownerMayFreeData
                   PROVE  wire[k].data # g.data
        OBVIOUS
      <4>1. g.data \in HeldMRPs
        BY <1>3, <1>4
      <4>2. wire[k].data \in MRPs(wire)
        BY DEF MRPs
      <4> QED BY <4>1, <4>2 DEF DeliveryInv
    <3> QED BY <2>4, <3>1, <3>2 DEF DeliveryInv
  <2> HIDE DEF f
  <2>5. CASE f.ownerMayFreeData
    BY <1>1, <1>2, <1>3, <2>1, <2>3, <2>4, <2>5 DEF DeliveryInv
  <2>6. CASE ~ f.ownerMayFreeData
    BY <1>1, <1>2, <1>3, <2>1, <2>3, <2>4, <2>6 DEF DeliveryInv
  <2> QED BY <2>5, <2>6
<1>7. CASE Net!Refuse(t)
  <2>1. refused' = Append(refused, f) /\ wire' = wire
    BY <1>7 DEF Net!Refuse
  <2>2. refused \in Seq(NetP!DataContainer \cup {f})
    BY <1>5
  <2> HIDE DEF f, g
  <2>3. /\ f.ownerMayFreeData => MRPs(refused') = MRPs(refused) \cup {f.data}
        /\ ~ f.ownerMayFreeData => MRPs(refused') = MRPs(refused)
    BY <2>1, <2>2, AppendMRPs
  <2>4. CASE f.ownerMayFreeData
    BY <1>1, <1>2, <1>3, <2>1, <2>3, <2>4 DEF DeliveryInv
  <2>5. CASE ~ f.ownerMayFreeData
    BY <1>1, <1>2, <1>3, <2>1, <2>3, <2>5 DEF DeliveryInv
  <2> QED BY <2>4, <2>5
<1> QED BY <1>6, <1>7

\* The other steps of a packet handler move no MRP.
LEMMA OtherSendSteps ==
  ASSUME ComponentsInv, DeliveryInv, NEW t \in PacketHandlers,
         Net!CountFrame(t) \/ Net!FreeFrame(t), UNCHANGED l1Vars
  PROVE  DeliveryInv'
<1>1. UNCHANGED <<sent, asyncSendData, wire, refused>>
  BY DEF Net!CountFrame, Net!FreeFrame, l1Vars
<1>2. DOMAIN sendState = PacketHandlers /\ DOMAIN sendData = PacketHandlers
  BY DEF ComponentsInv, NetP!IInv, NetP!TypeOK
<1>3. /\ sendState'[t] \in {"popped", "sending"} <=> sendState[t] \in {"popped", "sending"}
      /\ sendState[t] \in {"popped", "sending"} => sendData'[t] = sendData[t]
      /\ \A u \in PacketHandlers :
           u # t => sendState'[u] = sendState[u] /\ sendData'[u] = sendData[u]
  BY <1>2 DEF Net!CountFrame, Net!FreeFrame
<1>4. HeldMRPs' = HeldMRPs
  BY <1>3 DEF HeldMRPs
<1> QED BY <1>1, <1>4, MRPsUnmoved

\* No step of the system loses, copies or invents an MRP.
LEMMA NextDelivery == ComponentsInv /\ DeliveryInv /\ [Next]_vars => DeliveryInv'
<1> SUFFICES ASSUME ComponentsInv, DeliveryInv, [Next]_vars PROVE DeliveryInv'
  OBVIOUS
<1>1. ASSUME UNCHANGED <<sent, asyncSendData, netVars>> PROVE DeliveryInv'
  <2>1. HeldMRPs' = HeldMRPs
    BY <1>1 DEF netVars, HeldMRPs
  <2> QED BY <1>1, <2>1, MRPsUnmoved DEF netVars
<1>2. CASE UNCHANGED vars
  BY <1>1, <1>2 DEF vars, l1Vars
<1>3. CASE SendFrame
  BY <1>3, SendFrameDelivers
<1>4. CASE ClientStep \/ DistributeStep
  <2>1. UNCHANGED <<sent, asyncSendData, netVars>>
    BY <1>4 DEF ClientStep, DistributeStep, L1!StartFlush, L1!EndFlush, L1!CheckFlush,
       L1!PushRequest, L1!Collect, L1!ReadFlush, L1!Drain, L1!DrainEmpty, L1!PopRequest,
       L1!Decide, L1!PackMRP, L1!FinishMRP, L1!mrpVars
  <2> QED BY <1>1, <2>1
<1>5. CASE ArpStep
  BY <1>5, ArpDelivers
<1>6. ASSUME NEW t \in PacketHandlers, PacketHandlerStep(t) PROVE DeliveryInv'
  BY <1>6, TryPopDelivers, SendDelivers, OtherSendSteps
     DEF PacketHandlerStep, Net!DoSendQueuedFrames
<1> QED BY <1>2, <1>3, <1>4, <1>5, <1>6 DEF Next

\* The triggers of the MRPs for destination h.
TriggersFor(mrps, h) == {d.triggers : d \in {e \in mrps : e.hdr = h}}

\* MRPs in different places are different.
LEMMA DisjointTriggers ==
  ASSUME NEW P, NEW Q, P \cap Q = {}, NEW h, P \cup Q \subseteq EnqueuedMRPs
  PROVE  TriggersFor(P, h) \cap TriggersFor(Q, h) = {}
<1> SUFFICES ASSUME NEW d \in P, NEW e \in Q, d.hdr = h, e.hdr = h, d.triggers = e.triggers
             PROVE  FALSE
  BY DEF TriggersFor
<1>1. d \in [hdr : L1!Hdrs, triggers : Seq(Nat)] /\ e \in [hdr : L1!Hdrs, triggers : Seq(Nat)]
  BY DEF EnqueuedMRPs
<1>2. d = [hdr |-> h, triggers |-> d.triggers] /\ e = [hdr |-> h, triggers |-> d.triggers]
  BY <1>1
<1> QED BY <1>2

\* The frames with an MRP for destination h are as many as the MRPs.
LEMMA CopiesCounted ==
  ASSUME ComponentsInv, DeliveryInv, NEW h \in L1!Hdrs
  PROVE  Cardinality({i \in DOMAIN wire : wire[i].ownerMayFreeData /\ wire[i].data.hdr = h})
           = Cardinality(TriggersFor(MRPs(wire), h))
<1> DEFINE I == {i \in DOMAIN wire : wire[i].ownerMayFreeData /\ wire[i].data.hdr = h}
           T == TriggersFor(MRPs(wire), h)
           map == [i \in I |-> wire[i].data.triggers]
<1>1. \A i \in I : wire[i].data \in MRPs(wire) /\ wire[i].data \in EnqueuedMRPs
  BY DEF MRPs, DeliveryInv
<1>2. \A i \in I : wire[i].data \in [hdr : L1!Hdrs, triggers : Seq(Nat)]
  BY <1>1 DEF EnqueuedMRPs
<1>3. \A i \in I : wire[i].data = [hdr |-> h, triggers |-> wire[i].data.triggers]
  BY <1>2
<1>4. \A i, j \in I : i # j => wire[i].data.triggers # wire[j].data.triggers
  <2> SUFFICES ASSUME NEW i \in I, NEW j \in I, i # j
               PROVE  wire[i].data.triggers # wire[j].data.triggers
    OBVIOUS
  <2>1. wire[i].data # wire[j].data
    BY DEF DeliveryInv
  <2> QED BY <1>3, <2>1
<1>5. \A i \in I : wire[i].data.triggers \in T
  BY <1>1 DEF TriggersFor
<1>6. \A x \in T : \E i \in I : wire[i].data.triggers = x
  BY DEF TriggersFor, MRPs
<1>7. map \in [I -> T] /\ (\A i, j \in I : map[i] = map[j] => i = j)
      /\ \A x \in T : \E i \in I : map[i] = x
  <2> HIDE DEF I, T
  <2> QED BY <1>4, <1>5, <1>6
<1>8. ExistsBijection(I, T)
  <2> HIDE DEF I, T, map
  <2> QED BY <1>7 DEF ExistsBijection, Bijection, Injection, Surjection, IsInjective
<1>9. IsFiniteSet(I)
  <2>1. wire \in Seq(NetP!DataContainer)
    BY DEF ComponentsInv, NetP!IInv, NetP!TypeOK
  <2>2. Len(wire) \in Nat /\ DOMAIN wire = 1..Len(wire)
    BY <2>1, LenProperties
  <2>3. IsFiniteSet(1..Len(wire)) /\ I \subseteq 1..Len(wire)
    BY <2>2, FS_Interval
  <2> QED BY <2>3, FS_Subset
<1> HIDE DEF I, T
<1>10. Cardinality(T) = Cardinality(I)
  BY <1>8, <1>9, FS_Bijection
<1> QED BY <1>10 DEF I, T

\* Every MRP enqueued for a destination is in exactly one place on its way, and
\* the wire carries it at most once.
THEOREM MRPsDelivered == Spec => []MRPDelivery
<1>1. ComponentsInv /\ DeliveryInv => MRPDelivery
  <2> SUFFICES ASSUME ComponentsInv, DeliveryInv, NEW h \in L1!Hdrs
               PROVE
      LET Places == <<MRPsIn(Elements(asyncSendData), h), MRPsIn(InHand, h),
                      MRPsIn(Elements(wire), h), MRPsIn(Elements(refused), h)>>
          Copies == Cardinality({i \in DOMAIN wire :
                                   wire[i].ownerMayFreeData /\ wire[i].data.hdr = h})
      IN  /\ Elements(sent[h]) = UNION Elements(Places)
          /\ \A i, j \in DOMAIN Places : i # j => Places[i] \cap Places[j] = {}
          /\ Copies = Cardinality(Places[3])
    BY DEF MRPDelivery
  <2> DEFINE Q == TriggersFor(MRPs(asyncSendData), h)
             H == TriggersFor(HeldMRPs, h)
             W == TriggersFor(MRPs(wire), h)
             R == TriggersFor(MRPs(refused), h)
  <2>1. \A s : MRPsIn(Elements(s), h) = TriggersFor(MRPs(s), h)
    BY DEF MRPsIn, Elements, TriggersFor, MRPs
  <2>2. MRPsIn(InHand, h) = H
    BY DEF MRPsIn, InHand, TriggersFor, HeldMRPs
  <2>3. Elements(sent[h]) = TriggersFor(EnqueuedMRPs, h)
    <3>1. Elements(sent[h]) \subseteq Seq(Nat)
      BY DEF ComponentsInv, L1P!ControlInv, L1P!TypeOK, Elements, L1!Hdrs, L1P!Hdrs
    <3>2. ASSUME NEW m \in Elements(sent[h]) PROVE m \in TriggersFor(EnqueuedMRPs, h)
      <4> DEFINE d == [hdr |-> h, triggers |-> m]
      <4>1. d \in EnqueuedMRPs
        BY <3>1 DEF EnqueuedMRPs
      <4> QED BY <4>1 DEF TriggersFor
    <3>3. ASSUME NEW m \in TriggersFor(EnqueuedMRPs, h) PROVE m \in Elements(sent[h])
      BY DEF TriggersFor, EnqueuedMRPs
    <3> QED BY <3>2, <3>3
  <2>4. TriggersFor(EnqueuedMRPs, h) = Q \cup H \cup W \cup R
    BY DEF DeliveryInv, TriggersFor
  <2>5. /\ Q \cap H = {} /\ Q \cap W = {} /\ Q \cap R = {}
        /\ H \cap W = {} /\ H \cap R = {} /\ W \cap R = {}
    <3>1. /\ MRPs(asyncSendData) \subseteq EnqueuedMRPs /\ HeldMRPs \subseteq EnqueuedMRPs
          /\ MRPs(wire) \subseteq EnqueuedMRPs /\ MRPs(refused) \subseteq EnqueuedMRPs
      BY DEF DeliveryInv
    <3>2. /\ MRPs(asyncSendData) \cap HeldMRPs = {} /\ MRPs(asyncSendData) \cap MRPs(wire) = {}
          /\ MRPs(asyncSendData) \cap MRPs(refused) = {}
          /\ HeldMRPs \cap MRPs(wire) = {} /\ HeldMRPs \cap MRPs(refused) = {}
          /\ MRPs(wire) \cap MRPs(refused) = {}
      BY DEF DeliveryInv
    <3> QED BY <3>1, <3>2, DisjointTriggers
  <2>6. Cardinality({i \in DOMAIN wire : wire[i].ownerMayFreeData /\ wire[i].data.hdr = h})
          = Cardinality(W)
    BY CopiesCounted
  <2> HIDE DEF Q, H, W, R
  <2>7. UNION Elements(<<Q, H, W, R>>) = Q \cup H \cup W \cup R
    <3>1. Elements(<<Q, H, W, R>>) = {Q, H, W, R}
      BY DEF Elements
    <3> QED BY <3>1
  <2>8. \A i, j \in DOMAIN <<Q, H, W, R>> :
          i # j => <<Q, H, W, R>>[i] \cap <<Q, H, W, R>>[j] = {}
    BY <2>5
  <2>9. /\ MRPsIn(Elements(asyncSendData), h) = Q /\ MRPsIn(Elements(wire), h) = W
        /\ MRPsIn(Elements(refused), h) = R
    BY <2>1 DEF Q, W, R
  <2> QED BY <2>2, <2>3, <2>4, <2>6, <2>7, <2>8, <2>9
<1> QED BY <1>1, ComponentsInvariance, InitDelivery, NextDelivery, PTL DEF Spec

-----------------------------------------------------------------------------
(***************************************************************************)
(* The lengths of the frames: an MRP of at most 120 triggers is no jumbo   *)
(* frame.                                                                  *)
(***************************************************************************)
MaxMRPLength == 54 + MAX_TRIGGERS_PER_L1MRP * 12

ShortInv ==
  /\ \A i \in DOMAIN asyncSendData : asyncSendData[i].length <= MaxMRPLength
  /\ \A t \in PacketHandlers : sendState[t] # "idle" => sendData[t].length <= MaxMRPLength
  /\ NoMRPRefused

\* What is pushed is no longer than the longest MRP.
LEMMA PushShort ==
  ASSUME ComponentsInv, ShortInv, NEW f, f.length <= MaxMRPLength,
         asyncSendData' = Append(asyncSendData, f),
         UNCHANGED <<sendState, sendData, refused>>
  PROVE  ShortInv'
<1>1. asyncSendData \in Seq(L1P!Frames \cup {f})
  BY DEF ComponentsInv, L1P!ControlInv, L1P!TypeOK
<1>2. \A i \in DOMAIN asyncSendData' :
        \/ i \in DOMAIN asyncSendData /\ asyncSendData'[i] = asyncSendData[i]
        \/ asyncSendData'[i] = f
  BY <1>1
<1> QED BY <1>2 DEF ShortInv, NoMRPRefused, MaxMRPLength

\* PFring::send_packet refuses none of these frames.
LEMMA NextShort == ComponentsInv /\ ShortInv /\ [Next]_vars => ShortInv'
<1> SUFFICES ASSUME ComponentsInv, ShortInv, [Next]_vars PROVE ShortInv'
  OBVIOUS
<1>1. CASE UNCHANGED vars
  BY <1>1 DEF vars, netVars, ShortInv, NoMRPRefused, MaxMRPLength
<1>2. CASE SendFrame
  <2>1. PICK f : f = L1!MRPFrame(nextHdr)
    OBVIOUS
  <2>2. /\ asyncSendData' = Append(asyncSendData, f)
        /\ UNCHANGED <<sendState, sendData, refused>>
    BY <1>2, <2>1 DEF SendFrame, L1!SendFrame, Net!AsyncSendFrame
  <2>3. Len(buff) \in 1..MAX_TRIGGERS_PER_L1MRP
    BY <1>2 DEF SendFrame, L1!SendFrame, ComponentsInv, L1P!ControlInv, L1P!ListBounds
  <2>4. f.length = 54 + Len(buff) * 12
    BY <2>1 DEF L1!MRPFrame, L1!FrameLength
  <2>5. f.length <= MaxMRPLength
    BY <2>3, <2>4, SystemAssumption DEF MaxMRPLength
  <2> QED BY <2>2, <2>5, PushShort
<1>3. CASE ClientStep \/ DistributeStep
  <2>1. UNCHANGED NetP!vars
    BY <1>3, L1StepRefines
  <2> QED BY <2>1 DEF NetP!vars, ShortInv, NoMRPRefused, MaxMRPLength
<1>4. CASE ArpStep
  <2>1. CASE Net!GenerateArp
    BY <2>1 DEF Net!GenerateArp, ShortInv, NoMRPRefused, MaxMRPLength
  <2>2. CASE Net!SendArp
    <3>1. PICK f : /\ f = [data |-> arp, length |-> 42, ownerMayFreeData |-> FALSE]
                   /\ asyncSendData' = Append(asyncSendData, f)
      BY <2>2 DEF Net!SendArp, Net!Push, Net!ArpLength, Net!ArpMayBeFreed
    <3>2. f.length <= MaxMRPLength
      BY <3>1, SystemAssumption DEF MaxMRPLength
    <3>3. UNCHANGED <<sendState, sendData, refused>>
      BY <2>2 DEF Net!SendArp
    <3> QED BY <3>1, <3>2, <3>3, PushShort
  <2> QED BY <1>4, <2>1, <2>2 DEF ArpStep, Net!ArpThread
<1>5. ASSUME NEW t \in PacketHandlers, PacketHandlerStep(t) PROVE ShortInv'
  <2> USE DEF ShortInv, NoMRPRefused, MaxMRPLength
  <2>1. DOMAIN sendState = PacketHandlers /\ DOMAIN sendData = PacketHandlers
    BY DEF ComponentsInv, NetP!IInv, NetP!TypeOK
  <2>2. CASE Net!TryPop(t)
    <3>1. asyncSendData # <<>> /\ asyncSendData \in Seq(L1P!Frames)
      BY <2>2 DEF Net!TryPop, ComponentsInv, L1P!ControlInv, L1P!TypeOK
    <3>2. /\ 1 \in DOMAIN asyncSendData /\ Head(asyncSendData) = asyncSendData[1]
          /\ \A i \in DOMAIN Tail(asyncSendData) :
               i + 1 \in DOMAIN asyncSendData /\ Tail(asyncSendData)[i] = asyncSendData[i + 1]
      BY <3>1
    <3>3. \A i \in DOMAIN asyncSendData' : asyncSendData'[i].length <= MaxMRPLength
      BY <2>2, <3>2 DEF Net!TryPop, Net!Remaining
    <3>4. \A u \in PacketHandlers : sendState'[u] # "idle" => sendData'[u].length <= MaxMRPLength
      BY <2>1, <2>2, <3>2 DEF Net!TryPop
    <3> QED BY <2>2, <3>3, <3>4 DEF Net!TryPop
  <2>3. CASE Net!CountFrame(t) \/ Net!Transmit(t) \/ Net!FreeFrame(t)
    <3>1. UNCHANGED <<asyncSendData, refused>>
      BY <2>3 DEF Net!CountFrame, Net!Transmit, Net!FreeFrame
    <3>2. \A u \in PacketHandlers :
            sendState'[u] # "idle" => sendState[u] # "idle" /\ sendData'[u] = sendData[u]
      BY <2>1, <2>3 DEF Net!CountFrame, Net!Transmit, Net!FreeFrame
    <3> QED BY <3>1, <3>2
  <2>4. CASE Net!Refuse(t)
    <3>1. /\ sendState[t] = "sending" /\ Net!TooLong(sendData[t])
          /\ UNCHANGED <<asyncSendData, sendData>>
          /\ \A u \in PacketHandlers : u # t => sendState'[u] = sendState[u]
      BY <2>1, <2>4 DEF Net!Refuse
    <3>2. sendData[t].length \in Nat
      BY <3>1 DEF ComponentsInv, NetP!IInv, NetP!HoldsFrame, NetP!Busy, NetP!DataContainer
    <3>3. sendData[t].length > 1500
      BY <3>1, <3>2 DEF Net!TooLong, Net!PaddedLength, Net!MinFrame, Net!MaxFrame
    <3>4. ~ (MAX_TRIGGERS_PER_L1MRP <= 120)
      BY <3>1, <3>2, <3>3, SystemAssumption
    <3> QED BY <3>1, <3>4
  <2> QED BY <1>5, <2>2, <2>3, <2>4 DEF PacketHandlerStep, Net!DoSendQueuedFrames
<1> QED BY <1>1, <1>2, <1>3, <1>4, <1>5 DEF Next

\* An MRP of at most 120 triggers is never given up by PFring::send_packet.
THEOREM NoneRefused == Spec => []NoMRPRefused
<1>1. Init => ShortInv
  BY DEF Init, Net!Init, ShortInv, NoMRPRefused
<1>2. ShortInv => NoMRPRefused
  BY DEF ShortInv
<1> QED BY <1>1, <1>2, ComponentsInvariance, NextShort, PTL DEF Spec

-----------------------------------------------------------------------------
(***************************************************************************)
(* The composition names the buffer of an MRP by its contents.  This never *)
(* keeps Async_SendMRP from allocating one: when it is about to call       *)
(* AsyncSendFrame, the name is there and not in use.                       *)
(***************************************************************************)
BufferAvailable ==
  pc = "send" /\ nextHdr \in L1!Hdrs => L1!MRPFrame(nextHdr).data \in MRPBuffers \ heap

Pushing == {w \in Workers : workerState[w] = "push"}

\* As many requests are pushed, or about to be, as were let in; and the buffers
\* in use are those of MRPs that were sent.
NamesInv ==
  /\ Len(requestBurst) + Cardinality(Pushing) <= MaxRequests
  /\ heap \cap MRPBuffers \subseteq EnqueuedMRPs

\* The entrance counts every request once.
LEMMA WorkersCounted ==
  ASSUME ComponentsInv, NamesInv, NEW w \in Workers, L1!CheckFlush(w) \/ L1!PushRequest(w)
  PROVE  Len(requestBurst') + Cardinality(Pushing') <= MaxRequests
<1>1. /\ IsFiniteSet(Pushing) /\ Cardinality(Pushing) \in Nat /\ Len(requestBurst) \in Nat
      /\ requestBurst \in Seq(Nat) /\ workerBurst[w] \in Nat
      /\ workerState \in [Workers -> {"idle", "push"}]
  <2>1. IsFiniteSet(Pushing)
    BY SystemAssumption, FS_Subset DEF Pushing
  <2> QED BY <2>1, FS_CardinalityType DEF ComponentsInv, L1P!ControlInv, L1P!TypeOK
<1>2. CASE L1!CheckFlush(w)
  <2>1. Pushing' = Pushing \cup {w} /\ w \notin Pushing
    BY <1>1, <1>2 DEF L1!CheckFlush, Pushing
  <2>2. Cardinality(Pushing') = Cardinality(Pushing) + 1
    BY <1>1, <2>1, FS_AddElement
  <2>3. L1!Admitted = Len(requestBurst) + Cardinality(Pushing)
    BY DEF L1!Admitted, L1!Cardinality, Cardinality, Pushing
  <2>4. Len(requestBurst) + Cardinality(Pushing) < MaxRequests /\ requestBurst' = requestBurst
    BY <1>2, <2>3 DEF L1!CheckFlush
  <2> QED BY <1>1, <2>2, <2>4, SystemAssumption
<1>3. CASE L1!PushRequest(w)
  <2>1. Pushing' = Pushing \ {w} /\ w \in Pushing
    BY <1>1, <1>3 DEF L1!PushRequest, Pushing
  <2>2. Cardinality(Pushing') = Cardinality(Pushing) - 1
    BY <1>1, <2>1, FS_RemoveElement
  <2>3. Len(requestBurst') = Len(requestBurst) + 1
    BY <1>1, <1>3 DEF L1!PushRequest
  <2> QED BY <1>1, <2>2, <2>3, SystemAssumption DEF NamesInv
<1> QED BY <1>2, <1>3

\* Only Async_RequestL1DataMulticast adds requests, within MaxRequests, and every
\* allocated buffer of an MRP keeps its name until it is freed.
LEMMA NextNames == ComponentsInv /\ NamesInv /\ [Next]_vars => NamesInv'
<1> SUFFICES ASSUME ComponentsInv, NamesInv, [Next]_vars PROVE NamesInv'
  OBVIOUS
<1>1. ASSUME UNCHANGED <<requestBurst, workerState>>
      PROVE  Len(requestBurst') + Cardinality(Pushing') <= MaxRequests
  <2>1. Pushing' = Pushing
    BY <1>1 DEF Pushing
  <2> QED BY <1>1, <2>1 DEF NamesInv
<1>2. ASSUME UNCHANGED sent, heap' \cap MRPBuffers \subseteq heap
      PROVE  heap' \cap MRPBuffers \subseteq EnqueuedMRPs'
  <2>1. EnqueuedMRPs' = EnqueuedMRPs
    BY <1>2 DEF EnqueuedMRPs, L1!Hdrs
  <2> QED BY <1>2, <2>1 DEF NamesInv
<1>3. NamesInv' <=> /\ Len(requestBurst') + Cardinality(Pushing') <= MaxRequests
                    /\ heap' \cap MRPBuffers \subseteq EnqueuedMRPs'
  BY DEF NamesInv, MRPBuffers, TriggerLists
<1>4. CASE UNCHANGED vars
  BY <1>1, <1>2, <1>3, <1>4 DEF vars, l1Vars, netVars
<1>5. CASE SendFrame
  <2>1. UNCHANGED <<requestBurst, workerState>>
    BY <1>5 DEF SendFrame, L1!SendFrame, L1!workerVars
  <2>2. heap' = heap \cup {L1!MRPFrame(nextHdr).data}
    BY <1>5 DEF SendFrame, Net!AsyncSendFrame
  <2>3. EnqueuedMRPs' = EnqueuedMRPs \cup {L1!MRPFrame(nextHdr).data}
    BY <1>5, EnqueuedGrows DEF SendFrame
  <2>4. heap' \cap MRPBuffers \subseteq EnqueuedMRPs'
    BY <2>2, <2>3 DEF NamesInv
  <2> QED BY <1>1, <1>3, <2>1, <2>4
<1>6. CASE ClientStep
  <2>1. UNCHANGED <<sent, heap>>
    BY <1>6 DEF ClientStep, netVars, L1!StartFlush, L1!EndFlush, L1!CheckFlush,
       L1!PushRequest, L1!mrpVars
  <2>2. CASE L1!StartFlush \/ L1!EndFlush
    <3>1. UNCHANGED <<requestBurst, workerState>>
      BY <2>2 DEF L1!StartFlush, L1!EndFlush, L1!workerVars
    <3> QED BY <1>1, <1>2, <1>3, <2>1, <3>1
  <2>3. CASE \E w \in Workers : L1!CheckFlush(w) \/ L1!PushRequest(w)
    BY <1>2, <1>3, <2>1, <2>3, WorkersCounted
  <2> QED BY <1>6, <2>2, <2>3 DEF ClientStep
<1>7. CASE DistributeStep
  <2>1. UNCHANGED <<sent, heap, requestBurst, workerState>>
    BY <1>7 DEF DistributeStep, netVars, L1!Collect, L1!ReadFlush, L1!Drain,
       L1!DrainEmpty, L1!PopRequest, L1!Decide, L1!PackMRP, L1!FinishMRP, L1!mrpVars,
       L1!workerVars
  <2> QED BY <1>1, <1>2, <1>3, <2>1
<1>8. CASE ArpStep \/ \E t \in PacketHandlers : PacketHandlerStep(t)
  <2>1. UNCHANGED <<sent, requestBurst, workerState>>
    BY <1>8 DEF ArpStep, PacketHandlerStep, l1Vars
  <2>2. heap' \cap MRPBuffers \subseteq heap
    BY <1>8, SystemAssumption DEF ArpStep, PacketHandlerStep, Net!ArpThread,
       Net!GenerateArp, Net!SendArp, Net!DoSendQueuedFrames, Net!TryPop, Net!CountFrame,
       Net!Transmit, Net!Refuse, Net!FreeFrame
  <2> QED BY <1>1, <1>2, <1>3, <2>1, <2>2
<1> QED BY <1>4, <1>5, <1>6, <1>7, <1>8 DEF Next

\* The model's names of buffers never block a call of AsyncSendFrame: only a
\* full queue does.
THEOREM BufferAlwaysAvailable == Spec => []BufferAvailable
<1>1. Init => NamesInv
  <2> SUFFICES ASSUME Init PROVE NamesInv
    OBVIOUS
  <2>1. Pushing = {} /\ requestBurst = <<>> /\ heap = {}
    BY DEF Init, L1!Init, Net!Init, Pushing
  <2> QED BY <2>1, FS_EmptySet, SystemAssumption DEF NamesInv
<1>2. ComponentsInv /\ NamesInv => BufferAvailable
  <2> SUFFICES ASSUME ComponentsInv, NamesInv, pc = "send", nextHdr \in L1!Hdrs
               PROVE  L1!MRPFrame(nextHdr).data \in MRPBuffers \ heap
    BY DEF BufferAvailable
  <2>1. /\ buff \in Seq(Nat) /\ Len(buff) \in 1..MAX_TRIGGERS_PER_L1MRP
        /\ nextHdr \in Nat /\ Len(requestBurst) \in Nat
    BY DEF ComponentsInv, L1P!ControlInv, L1P!ListBounds, L1P!TypeOK
  <2>2. L1P!BeingSent(nextHdr) = L1P!Elements(buff)
    BY <2>1 DEF L1P!BeingSent
  <2>3. L1P!DestinationOrder(nextHdr)
    BY DEF ComponentsInv, L1P!RequestInv, L1!Hdrs, L1P!Hdrs
  <2>4. L1P!Elements(buff) \subseteq 1..Len(requestBurst)
    BY <2>2, <2>3 DEF L1P!DestinationOrder, L1P!Requests
  <2>5. Len(requestBurst) <= MaxRequests
    <3>1. IsFiniteSet(Pushing)
      BY SystemAssumption, FS_Subset DEF Pushing
    <3>2. Cardinality(Pushing) \in Nat
      BY <3>1, FS_CardinalityType
    <3> QED BY <2>1, <3>2, SystemAssumption DEF NamesInv
  <2>6. buff \in [1..Len(buff) -> 1..MaxRequests]
    <3>1. DOMAIN buff = 1..Len(buff)
      BY <2>1, LenProperties
    <3>2. \A i \in DOMAIN buff : buff[i] \in 1..MaxRequests
      <4>1. 1..Len(requestBurst) \subseteq 1..MaxRequests
        BY <2>1, <2>5, SystemAssumption
      <4>2. \A i \in DOMAIN buff : buff[i] \in L1P!Elements(buff)
        BY DEF L1P!Elements
      <4> QED BY <2>4, <4>1, <4>2
    <3> QED BY <2>1, <3>1, <3>2
  <2>7. L1!MRPFrame(nextHdr).data \in MRPBuffers
    BY <2>1, <2>6 DEF L1!MRPFrame, MRPBuffers, TriggerLists, L1!Hdrs
  <2>8. L1!MRPFrame(nextHdr).data \notin heap
    BY <2>7, MRPIsNew DEF NamesInv
  <2> QED BY <2>7, <2>8
<1> QED BY <1>1, <1>2, ComponentsInvariance, NextNames, PTL DEF Spec
=============================================================================
