------------------------------ MODULE L1System ------------------------------
(***************************************************************************)
(* From an accepted event to the wire: L1DistributionHandler and           *)
(* NetworkHandler (PF_RING) around their common queue asyncSendData_.      *)
(*                                                                         *)
(* A step of the system is a step of one component that leaves the other's *)
(* private state alone, or the one call between them, AsyncSendFrame,      *)
(* which is a step of both.  The buffer of an MRP frame is named by its    *)
(* contents: no two MRPs for one destination have a trigger in common.     *)
(***************************************************************************)
EXTENDS Naturals, Sequences, FiniteSets

CONSTANTS
  Workers, MAX_TRIGGERS_PER_L1MRP, NumUnicastHdrs, NumMulticastHdrs,
  MaxRequests, MaxBursts,
  PacketHandlers, ArpBuffers, NoBuffer, Capacity, MaxPushes, MaxArps

VARIABLES
  flushBurst, burst, workerState, workerBurst, multicastMRPQueue,
  requestBurst, pc, multicastRequests, buff, nextHdr, L1TriggersSent,
  L1MRPsSent, skipped, drained, sent,
  asyncSendData,
  sendState, sendData, arp, heap, framesSent, wire, refused, pushes, arps

\* The triggers an MRP can carry.
TriggerLists ==
  UNION {[1..n -> 1..MaxRequests] : n \in 1..MAX_TRIGGERS_PER_L1MRP}

MRPBuffers ==
  [hdr : 1..(NumUnicastHdrs + NumMulticastHdrs), triggers : TriggerLists]

ArpFrames ==
  [data : ArpBuffers, length : {42}, ownerMayFreeData : {FALSE}]

ASSUME SystemAssumption ==
  /\ IsFiniteSet(Workers)
  /\ MAX_TRIGGERS_PER_L1MRP \in Nat \ {0}
  /\ NumUnicastHdrs \in Nat
  /\ NumMulticastHdrs \in Nat
  /\ MaxRequests \in Nat
  /\ MaxBursts \in Nat
  /\ IsFiniteSet(PacketHandlers)
  /\ Capacity \in Nat \ {0}
  /\ MRPBuffers \cap ArpBuffers = {}
  /\ NoBuffer \notin MRPBuffers \cup ArpBuffers
  /\ MaxPushes \in Nat
  /\ MaxArps \in Nat

L1 == INSTANCE L1DistributionHandler
        WITH QueueCapacity <- Capacity, OtherFrames <- ArpFrames,
             MaxOther <- Capacity

Net == INSTANCE NetworkHandler
         WITH UsePFRing <- TRUE, ClientBuffers <- MRPBuffers,
              Lengths <- {L1!FrameLength(n) : n \in 1..MAX_TRIGGERS_PER_L1MRP}

l1Vars ==
  <<flushBurst, burst, workerState, workerBurst, multicastMRPQueue,
    requestBurst, pc, multicastRequests, buff, nextHdr, L1TriggersSent,
    L1MRPsSent, skipped, drained, sent>>

netVars ==
  <<sendState, sendData, arp, heap, framesSent, wire, refused, pushes, arps>>

vars == <<l1Vars, asyncSendData, netVars>>

-----------------------------------------------------------------------------
Init == L1!Init /\ Net!Init

\* Async_SendMRP calls AsyncSendFrame.
SendFrame ==
  /\ pushes < MaxPushes
  /\ L1!SendFrame
  /\ LET frame == L1!MRPFrame(nextHdr)
     IN  Net!AsyncSendFrame(frame.data, frame.length)

\* The steps of BurstIdHandler and of the workers.
ClientStep ==
  /\ \/ L1!StartFlush
     \/ L1!EndFlush
     \/ \E w \in Workers : L1!CheckFlush(w) \/ L1!PushRequest(w)
  /\ UNCHANGED netVars

\* The steps of the distribution thread that do not involve NetworkHandler.
DistributeStep ==
  /\ \/ L1!Collect \/ L1!ReadFlush \/ L1!Drain \/ L1!DrainEmpty
     \/ L1!PopRequest \/ L1!Decide \/ L1!PackMRP \/ L1!FinishMRP
  /\ UNCHANGED netVars

\* The steps of NetworkHandler's own thread and of a packet handler.
ArpStep == Net!ArpThread /\ UNCHANGED l1Vars

PacketHandlerStep(t) == Net!DoSendQueuedFrames(t) /\ UNCHANGED l1Vars

Next ==
  \/ SendFrame
  \/ ClientStep
  \/ DistributeStep
  \/ ArpStep
  \/ \E t \in PacketHandlers : PacketHandlerStep(t)

\* The distribution thread and the packet handlers run; a push that waits for
\* room is not overtaken by later ones.
Fairness ==
  /\ WF_vars(DistributeStep)
  /\ SF_vars(SendFrame)
  /\ \A t \in PacketHandlers : WF_vars(PacketHandlerStep(t))

Spec == Init /\ [][Next]_vars /\ Fairness

-----------------------------------------------------------------------------
\* NetworkHandler is the environment L1DistributionHandler was specified with:
\* whatever the packet handlers and the ARP thread do to the send queue is a
\* TakeFrame or an OtherFrame, so that what was shown of the component alone
\* holds in the system.
L1Implemented == L1!Init /\ [][L1!Next]_(L1!vars)

Elements(s) == {s[i] : i \in DOMAIN s}

\* The MRPs for destination h in a set of frames.
MRPsIn(frames, h) ==
  {f.data.triggers : f \in {g \in frames : g.ownerMayFreeData /\ g.data.hdr = h}}

\* The frames packet handlers have taken but not yet handed over.
InHand ==
  {sendData[t] : t \in {u \in PacketHandlers : sendState[u] \in {"popped", "sending"}}}

\* Every MRP enqueued for a destination is in exactly one place on its way:
\* in the queue, in the hands of one packet handler, on the wire or given up;
\* and the wire carries it at most once, with the triggers it was made of.
MRPDelivery ==
  \A h \in L1!Hdrs :
    LET Places == <<MRPsIn(Elements(asyncSendData), h), MRPsIn(InHand, h),
                    MRPsIn(Elements(wire), h), MRPsIn(Elements(refused), h)>>
        Copies == Cardinality({i \in DOMAIN wire :
                                 wire[i].ownerMayFreeData /\ wire[i].data.hdr = h})
    IN  /\ Elements(sent[h]) = UNION Elements(Places)
        /\ \A i, j \in DOMAIN Places : i # j => Places[i] \cap Places[j] = {}
        /\ Copies = Cardinality(Places[3])

\* An MRP of at most 120 triggers is never given up by PFring::send_packet,
\* so whatever L1TriggersSent counts reaches the card.
NoMRPRefused == MAX_TRIGGERS_PER_L1MRP <= 120 => refused = <<>>

\* A request that was put into an MRP gets to the wire for every destination.
RequestReachesWire ==
  \A r \in 1..MaxRequests :
    (pc = "send" /\ r \in Elements(buff)) ~>
      \A h \in L1!Hdrs :
        \E triggers \in MRPsIn(Elements(wire), h) : r \in Elements(triggers)
=============================================================================
