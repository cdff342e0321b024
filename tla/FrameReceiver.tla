--------------------------- MODULE FrameReceiver ---------------------------
(***************************************************************************)
(* The receiving half of NetworkHandler next to its sending half: a packet *)
(* handler thread calls GetNextFrame, looks at the frame it was given, and *)
(* calls DoSendQueuedFrames in between.  There is one thread per receive   *)
(* queue; threads and queues have the same numbers.                        *)
(***************************************************************************)
EXTENDS NetworkHandler, Integers

CONSTANTS
  NumberOfRings,   \* what pfring_open_multichannel returned
  FrameSizes,      \* the sizes of the frames that come in
  MaxReceived      \* bound: how many frames come in

ASSUME ReceiverAssumption ==
  /\ PacketHandlers \subseteq Nat \ {0}
  /\ NumberOfRings \in Nat
  /\ FrameSizes \subseteq Nat \ {0}
  /\ MaxReceived \in Nat

VARIABLES
  recvState,       \* where each packet handler is in GetNextFrame
  pkt,             \* the buffer GetNextFrame gave to it
  recvBuffer,      \* the frame each buffer holds; 0: none
  arrived,         \* history: the size of every frame that came in, in order
  taken,           \* history: the frame each packet handler received last
  framesReceived,  \* framesReceived_
  bytesReceived    \* bytesReceived_

recvVars == <<recvState, pkt, recvBuffer, arrived, taken, framesReceived,
              bytesReceived>>

-----------------------------------------------------------------------------
\* Mutant: the PCap build claims two queues.
GetNumberOfQueuesTwo == IF UsePFRing THEN NumberOfRings ELSE 2

GetNumberOfQueues == IF UsePFRing THEN NumberOfRings ELSE 1

\* The packet handlers that the farm starts, one per queue.
Running == {t \in PacketHandlers : t <= GetNumberOfQueues}

\* The buffer that a call for queue t returns: a slot of the ring of this
\* queue, or the one static recvBuffer_.
RecvBuffer(t) == IF UsePFRing THEN t ELSE 1

\* Mutant: a timeout is not told from a frame.
GotFrameAlways(rc) == TRUE

\* recvfrom returns -1 after the timeout of 1 ms (pfring_recv: 0).
GotFrame(rc) == rc # -1

RecvInit ==
  /\ recvState = [t \in PacketHandlers |-> "idle"]
  /\ pkt = [t \in PacketHandlers |-> 0]
  /\ recvBuffer = [t \in PacketHandlers \cup {1} |-> 0]
  /\ arrived = <<>>
  /\ taken = [t \in PacketHandlers |-> 0]
  /\ framesReceived = 0
  /\ bytesReceived = 0

\* recvfrom puts the next frame into the buffer; a call that times out
\* returns 0.
Receive(t, rc) ==
  /\ recvState[t] = "idle" /\ sendState[t] = "idle"
  /\ IF GotFrame(rc)
     THEN /\ arrived' = Append(arrived, rc)
          /\ recvBuffer' = [recvBuffer EXCEPT ![RecvBuffer(t)] = Len(arrived')]
          /\ pkt' = [pkt EXCEPT ![t] = RecvBuffer(t)]
          /\ taken' = [taken EXCEPT ![t] = Len(arrived')]
          /\ recvState' = [recvState EXCEPT ![t] = "received"]
     ELSE UNCHANGED <<arrived, recvBuffer, pkt, taken, recvState>>
  /\ UNCHANGED <<framesReceived, bytesReceived, vars>>

\* The two atomic counters; hdr->len is the size of the frame.
CountReceived(t) ==
  /\ recvState[t] = "received"
  /\ framesReceived' = framesReceived + 1
  /\ bytesReceived' = bytesReceived + arrived[taken[t]]
  /\ recvState' = [recvState EXCEPT ![t] = "returned"]
  /\ UNCHANGED <<pkt, recvBuffer, arrived, taken, vars>>

\* The packet handler is done with the frame behind *pkt.
Processed(t) ==
  /\ recvState[t] = "returned"
  /\ recvState' = [recvState EXCEPT ![t] = "idle"]
  /\ UNCHANGED <<pkt, recvBuffer, arrived, taken, framesReceived,
                 bytesReceived, vars>>

GetNextFrame(t) ==
  \/ Len(arrived) < MaxReceived /\ \E rc \in FrameSizes \cup {-1} : Receive(t, rc)
  \/ CountReceived(t)
  \/ Processed(t)

SendQueuedFrames(t) ==
  /\ recvState[t] = "idle"
  /\ DoSendQueuedFrames(t)
  /\ UNCHANGED recvVars

-----------------------------------------------------------------------------
allVars == <<vars, recvVars>>

RecvSpecInit == Init /\ RecvInit

RecvNext ==
  \/ (Client \/ ArpThread) /\ UNCHANGED recvVars
  \/ \E t \in Running : GetNextFrame(t) \/ SendQueuedFrames(t)

\* The packet handlers go on calling both functions.
RecvSpec ==
  /\ RecvSpecInit
  /\ [][RecvNext]_allVars
  /\ \A t \in Running :
       /\ WF_allVars(SendQueuedFrames(t))
       /\ WF_allVars(CountReceived(t) \/ Processed(t))

-----------------------------------------------------------------------------
\* While a packet handler counts and looks at the frame GetNextFrame gave it,
\* the buffer still holds this frame: no other thread's call has overwritten
\* it, although the PCap build has a single buffer.
FrameIntact ==
  \A t \in Running :
    recvState[t] # "idle" => recvBuffer[pkt[t]] = taken[t]

\* The sizes of frames, one behind the other.
SizeSum(sizes) ==
  LET sum[i \in 0..Len(sizes)] == IF i = 0 THEN 0 ELSE sum[i - 1] + sizes[i]
  IN  sum[Len(sizes)]

\* The frames between recvfrom and the two counters.
BeingReceived == {taken[t] : t \in {u \in PacketHandlers : recvState[u] = "received"}}

\* The frames that came in, with the sizes that should have been counted.
Countable == [i \in 1..Len(arrived) |-> IF i \in BeingReceived THEN 0 ELSE arrived[i]]

\* The statistics count every frame once and with its own size, whichever
\* threads received them, and never a timeout: what is missing are the frames
\* that are just being received.
ReceivedExact ==
  LET receiving == {t \in PacketHandlers : recvState[t] = "received"}
  IN  /\ \A i \in DOMAIN arrived : arrived[i] \in FrameSizes
      /\ framesReceived + Cardinality(receiving) = Len(arrived)
      /\ bytesReceived = SizeSum(Countable)
=============================================================================
