------------------------ MODULE FrameReceiver_proofs ------------------------
(***************************************************************************)
(* The receiving half of NetworkHandler, for any number of queues, packet  *)
(* handlers and frames: no buffer is overwritten while its frame is looked *)
(* at, every frame is counted once and with its size, and the sending half *)
(* is left alone.                                                          *)
(***************************************************************************)
EXTENDS FrameReceiver, NetworkHandler_proofs, WellFoundedInduction

RecvTypeOK ==
  /\ recvState \in [PacketHandlers -> {"idle", "received", "returned"}]
  /\ pkt \in [PacketHandlers -> Nat]
  /\ recvBuffer \in [PacketHandlers \cup {1} -> Nat]
  /\ arrived \in Seq(FrameSizes)
  /\ taken \in [PacketHandlers -> Nat]
  /\ framesReceived \in Nat
  /\ bytesReceived \in Nat

\* A packet handler that was given a frame was given the buffer of its queue,
\* and this buffer holds the frame.
BufferInv ==
  \A t \in Running :
    recvState[t] # "idle" =>
      /\ pkt[t] = RecvBuffer(t)
      /\ recvBuffer[RecvBuffer(t)] = taken[t]
      /\ taken[t] \in 1..Len(arrived)

\* The frame counter lags behind by the frames that are being received.
CountInv ==
  framesReceived + NumberAt(recvState, "received") = Len(arrived)

RecvInv == RecvTypeOK /\ BufferInv /\ CountInv

\* Every packet handler that runs has a buffer of its own: with PF_RING its
\* ring, without it the only one, for there is a single queue.
LEMMA BuffersDistinct ==
  /\ Running \subseteq PacketHandlers
  /\ \A t \in Running : RecvBuffer(t) \in PacketHandlers \cup {1} /\ RecvBuffer(t) \in Nat
  /\ \A t, u \in Running : RecvBuffer(t) = RecvBuffer(u) => t = u
<1>1. Running \subseteq PacketHandlers /\ PacketHandlers \subseteq Nat \ {0}
  BY ReceiverAssumption DEF Running
<1>2. CASE UsePFRing
  BY <1>1, <1>2 DEF RecvBuffer
<1>3. CASE ~ UsePFRing
  <2>1. \A t \in Running : t = 1
    BY <1>1, <1>3 DEF Running, GetNumberOfQueues
  <2> QED BY <1>1, <1>3, <2>1 DEF RecvBuffer
<1> QED BY <1>2, <1>3

\* Before the first call.
LEMMA RecvInitInv == RecvInit => RecvInv
<1> SUFFICES ASSUME RecvInit PROVE RecvInv
  OBVIOUS
<1>1. RecvTypeOK /\ BufferInv
  BY BuffersDistinct DEF RecvInit, RecvTypeOK, BufferInv
<1>2. At(recvState, "received") = {}
  BY DEF RecvInit, At
<1>3. NumberAt(recvState, "received") = 0
  BY <1>2, FS_EmptySet DEF NumberAt
<1>4. CountInv
  BY <1>3 DEF RecvInit, CountInv
<1> QED BY <1>1, <1>4 DEF RecvInv

\* A frame arrives in the buffer of the queue, behind all earlier ones; after a
\* timeout nothing has changed.
LEMMA ReceiveStep ==
  ASSUME RecvInv, NEW t \in Running, NEW rc \in FrameSizes \cup {-1}, Receive(t, rc)
  PROVE  RecvInv'
<1>1. CASE ~ GotFrame(rc)
  <2>1. UNCHANGED recvVars
    BY <1>1 DEF Receive, recvVars
  <2> QED BY <2>1 DEF recvVars, RecvInv, RecvTypeOK, BufferInv, CountInv, NumberAt, At
<1>2. CASE GotFrame(rc)
  <2> DEFINE b == RecvBuffer(t)
             n == Len(arrived) + 1
  <2>1. t \in PacketHandlers /\ b \in PacketHandlers \cup {1} /\ b \in Nat
    BY BuffersDistinct
  <2>2. rc \in FrameSizes /\ arrived \in Seq(FrameSizes) /\ Len(arrived) \in Nat
    BY <1>2 DEF GotFrame, RecvInv, RecvTypeOK
  <2>3. arrived' = Append(arrived, rc)
    BY <1>2 DEF Receive
  <2>4. arrived' \in Seq(FrameSizes) /\ Len(arrived') = n /\ n \in Nat
    BY <2>2, <2>3
  <2>5. /\ recvBuffer' = [recvBuffer EXCEPT ![b] = n]
        /\ pkt' = [pkt EXCEPT ![t] = b]
        /\ taken' = [taken EXCEPT ![t] = n]
        /\ recvState' = [recvState EXCEPT ![t] = "received"]
        /\ recvState[t] = "idle"
        /\ UNCHANGED <<framesReceived, bytesReceived>>
    BY <1>2, <2>4 DEF Receive
  <2> HIDE DEF b, n
  <2>6. RecvTypeOK'
    BY <2>1, <2>4, <2>5 DEF RecvInv, RecvTypeOK
  <2>7. /\ recvBuffer'[b] = n /\ pkt'[t] = b /\ taken'[t] = n /\ recvState'[t] = "received"
        /\ \A c \in PacketHandlers \cup {1} : c # b => recvBuffer'[c] = recvBuffer[c]
        /\ \A u \in PacketHandlers : u # t =>
             pkt'[u] = pkt[u] /\ taken'[u] = taken[u] /\ recvState'[u] = recvState[u]
    BY <2>1, <2>5 DEF RecvInv, RecvTypeOK
  <2>8. 1..Len(arrived) \subseteq 1..n /\ n \in 1..n
    BY <2>2 DEF n
  <2>9. BufferInv'
    <3> SUFFICES ASSUME NEW u \in Running, recvState'[u] # "idle"
                 PROVE  /\ pkt'[u] = RecvBuffer(u)
                        /\ recvBuffer'[RecvBuffer(u)] = taken'[u]
                        /\ taken'[u] \in 1..n
      BY <2>4 DEF BufferInv, Running, RecvBuffer
    <3>1. CASE u = t
      BY <3>1, <2>7, <2>8 DEF b
    <3>2. CASE u # t
      <4>1. RecvBuffer(u) # b /\ RecvBuffer(u) \in PacketHandlers \cup {1} /\ u \in PacketHandlers
        BY <3>2, BuffersDistinct DEF b
      <4> QED BY <3>2, <4>1, <2>7, <2>8 DEF RecvInv, BufferInv
    <3> QED BY <3>1, <3>2
  <2>10. /\ At(recvState', "received") = At(recvState, "received") \cup {t}
         /\ t \notin At(recvState, "received")
    BY <2>1, <2>5, <2>7 DEF At
  <2>11. NumberAt(recvState', "received") = NumberAt(recvState, "received") + 1
    BY <2>10, NumberAtType, FS_AddElement DEF NumberAt
  <2>12. CountInv'
    <3>1. NumberAt(recvState, "received") \in Nat /\ framesReceived \in Nat
      BY NumberAtType DEF RecvInv, RecvTypeOK
    <3> QED BY <2>2, <2>4, <2>5, <2>11, <3>1 DEF RecvInv, CountInv, n
  <2> QED BY <2>6, <2>9, <2>12 DEF RecvInv
<1> QED BY <1>1, <1>2

\* The two counters.
LEMMA CountStep ==
  ASSUME RecvInv, NEW t \in Running, CountReceived(t)
  PROVE  RecvInv'
<1>1. t \in PacketHandlers /\ recvState[t] = "received"
  BY BuffersDistinct DEF CountReceived
<1>2. arrived[taken[t]] \in Nat
  <2>1. taken[t] \in 1..Len(arrived)
    BY <1>1 DEF RecvInv, BufferInv
  <2>2. arrived[taken[t]] \in FrameSizes
    BY <2>1 DEF RecvInv, RecvTypeOK
  <2> QED BY <2>2, ReceiverAssumption
<1>3. /\ recvState' = [recvState EXCEPT ![t] = "returned"]
      /\ framesReceived' = framesReceived + 1
      /\ bytesReceived' = bytesReceived + arrived[taken[t]]
      /\ UNCHANGED <<pkt, recvBuffer, arrived, taken>>
  BY DEF CountReceived
<1>4. RecvTypeOK'
  BY <1>1, <1>2, <1>3 DEF RecvInv, RecvTypeOK
<1>5. /\ recvState'[t] = "returned"
      /\ \A u \in PacketHandlers : u # t => recvState'[u] = recvState[u]
  BY <1>1, <1>3 DEF RecvInv, RecvTypeOK
<1>6. BufferInv'
  BY <1>1, <1>3, <1>5, BuffersDistinct DEF RecvInv, BufferInv, Running, RecvBuffer
<1>7. /\ At(recvState', "received") = At(recvState, "received") \ {t}
      /\ t \in At(recvState, "received")
  BY <1>1, <1>5 DEF At
<1>8. NumberAt(recvState', "received") = NumberAt(recvState, "received") - 1
  BY <1>7, NumberAtType, FS_RemoveElement DEF NumberAt
<1>9. CountInv'
  <2>1. /\ NumberAt(recvState, "received") \in Nat /\ framesReceived \in Nat
        /\ Len(arrived) \in Nat
    BY NumberAtType DEF RecvInv, RecvTypeOK
  <2> QED BY <1>3, <1>8, <2>1 DEF RecvInv, CountInv
<1> QED BY <1>4, <1>6, <1>9 DEF RecvInv

\* The packet handler is done with the frame.
LEMMA ProcessedStep ==
  ASSUME RecvInv, NEW t \in Running, Processed(t)
  PROVE  RecvInv'
<1>1. /\ t \in PacketHandlers /\ recvState[t] = "returned"
      /\ recvState' = [recvState EXCEPT ![t] = "idle"]
      /\ UNCHANGED <<pkt, recvBuffer, arrived, taken, framesReceived, bytesReceived>>
  BY BuffersDistinct DEF Processed
<1>2. /\ recvState'[t] = "idle"
      /\ \A u \in PacketHandlers : u # t => recvState'[u] = recvState[u]
  BY <1>1 DEF RecvInv, RecvTypeOK
<1>3. RecvTypeOK'
  BY <1>1 DEF RecvInv, RecvTypeOK
<1>4. BufferInv'
  BY <1>1, <1>2, BuffersDistinct DEF RecvInv, BufferInv, Running, RecvBuffer
<1>5. At(recvState', "received") = At(recvState, "received")
  BY <1>1, <1>2 DEF At
<1>6. CountInv'
  BY <1>1, <1>5 DEF RecvInv, CountInv, NumberAt
<1> QED BY <1>3, <1>4, <1>6 DEF RecvInv

\* No step of either half breaks the invariant of the receiving half.
LEMMA RecvNextInv == RecvInv /\ [RecvNext]_allVars => RecvInv'
<1> SUFFICES ASSUME RecvInv, [RecvNext]_allVars PROVE RecvInv'
  OBVIOUS
<1>1. CASE UNCHANGED recvVars
  BY <1>1 DEF recvVars, RecvInv, RecvTypeOK, BufferInv, CountInv, NumberAt, At, Running,
     RecvBuffer
<1>2. ASSUME NEW t \in Running, GetNextFrame(t) PROVE RecvInv'
  BY <1>2, ReceiveStep, CountStep, ProcessedStep DEF GetNextFrame
<1> QED BY <1>1, <1>2 DEF RecvNext, SendQueuedFrames, allVars

\* The invariant of the receiving half.
THEOREM RecvInvariance == RecvSpec => []RecvInv
<1>1. RecvSpecInit => RecvInv
  BY RecvInitInv DEF RecvSpecInit
<1> QED BY <1>1, RecvNextInv, PTL DEF RecvSpec

\* While a packet handler counts and looks at a frame, no other call of
\* GetNextFrame overwrites it, although PCapHandler.cpp has a single buffer:
\* GetNumberOfQueues makes the farm start one thread only.
THEOREM FramesStayIntact == RecvSpec => []FrameIntact
<1>1. RecvInv => FrameIntact
  BY DEF RecvInv, BufferInv, FrameIntact
<1> QED BY <1>1, RecvInvariance, PTL

\* framesReceived_ counts every frame once and never a timeout: what is
\* missing are the frames that are just being received.
FramesReceivedExact ==
  /\ \A i \in DOMAIN arrived : arrived[i] \in FrameSizes
  /\ framesReceived + Cardinality({t \in PacketHandlers : recvState[t] = "received"})
       = Len(arrived)

\* The frame counter's part of ReceivedExact, for any number of threads and
\* frames.
THEOREM FramesReceivedCounted == RecvSpec => []FramesReceivedExact
<1>1. RecvInv => FramesReceivedExact
  <2> SUFFICES ASSUME RecvInv PROVE FramesReceivedExact
    OBVIOUS
  <2>1. \A i \in DOMAIN arrived : arrived[i] \in FrameSizes
    BY LenProperties DEF RecvInv, RecvTypeOK
  <2>2. framesReceived + Cardinality({t \in PacketHandlers : recvState[t] = "received"})
          = Len(arrived)
    BY DEF RecvInv, CountInv, NumberAt, At
  <2> QED BY <2>1, <2>2 DEF FramesReceivedExact
<1> QED BY <1>1, RecvInvariance, PTL

\* bytesReceived_ grows together with framesReceived_ only, and by the size of
\* the frame that is in the buffer the packet handler was given.
CountsItsFrame ==
  \/ UNCHANGED <<framesReceived, bytesReceived>>
  \/ /\ framesReceived' = framesReceived + 1
     /\ \E t \in Running :
          /\ recvState[t] = "received"
          /\ recvState'[t] = "returned"
          /\ bytesReceived' = bytesReceived + arrived[recvBuffer[pkt[t]]]

\* GetNextFrame adds the size of its own frame to bytesReceived_, whatever the
\* other threads receive between its recvfrom and its counting.
THEOREM SizesCounted == RecvSpec => [][CountsItsFrame]_allVars
<1>1. RecvInv /\ [RecvNext]_allVars => [CountsItsFrame]_allVars
  <2> SUFFICES ASSUME RecvInv, RecvNext PROVE CountsItsFrame
    OBVIOUS
  <2>1. ASSUME NEW t \in Running, CountReceived(t) PROVE CountsItsFrame
    <3>1. /\ recvState[t] = "received" /\ t \in PacketHandlers
          /\ recvState'[t] = "returned"
      BY <2>1, BuffersDistinct DEF CountReceived, RecvInv, RecvTypeOK
    <3>2. recvBuffer[pkt[t]] = taken[t]
      BY <3>1 DEF RecvInv, BufferInv
    <3> QED BY <2>1, <3>1, <3>2 DEF CountReceived, CountsItsFrame
  <2> QED BY <2>1 DEF RecvNext, GetNextFrame, SendQueuedFrames, Receive, Processed, recvVars,
                      CountsItsFrame
<1> QED BY <1>1, RecvInvariance, PTL DEF RecvSpec

-----------------------------------------------------------------------------
-----------------------------------------------------------------------------
\* A set of numbers that is not empty has a least member.
LEMMA LeastNumber ==
  ASSUME NEW T, T \subseteq Nat, T # {}
  PROVE  \E n \in T : \A m \in T : n <= m
<1> DEFINE R == OpToRel(<, Nat)
<1>1. IsWellFoundedOn(R, Nat)
  BY NatLessThanWellFounded
<1>2. \A x, y \in Nat : x < y => <<x, y>> \in R
  BY DEF OpToRel
<1> HIDE DEF R
<1>3. PICK n \in T : \A y \in T : ~ (<<y, n>> \in R)
  BY <1>1, WFMin
<1>4. ASSUME NEW m \in T PROVE n <= m
  <2>1. n \in Nat /\ m \in Nat
    OBVIOUS
  <2>2. ~ (m < n)
    BY <1>2, <1>3, <2>1
  <2> QED BY <2>1, <2>2
<1> QED BY <1>4

\* Induction up to n over a set of numbers.
LEMMA UpTo ==
  ASSUME NEW n \in Nat, NEW T, 0 \in T, \A i \in 1..n : i - 1 \in T => i \in T
  PROVE  \A i \in 0..n : i \in T
<1> DEFINE U == {i \in 0..n : i \notin T}
<1>1. SUFFICES ASSUME U # {} PROVE FALSE
  OBVIOUS
<1>2. U \subseteq Nat
  OBVIOUS
<1>3. PICK k \in U : \A m \in U : k <= m
  <2> HIDE DEF U
  <2> QED BY <1>1, <1>2, LeastNumber
<1>4. k \in 1..n /\ k \notin T
  OBVIOUS
<1>5. k - 1 \in 0..n /\ ~ (k <= k - 1)
  BY <1>4
<1>6. k - 1 \in T
  BY <1>3, <1>5
<1> QED BY <1>4, <1>6

\* A running sum over a sequence exists.
LEMMA RunningSum ==
  ASSUME NEW w \in Seq(Int)
  PROVE  \E f \in [0..Len(w) -> Int] :
           f[0] = 0 /\ \A i \in 1..Len(w) : f[i] = f[i - 1] + w[i]
<1> DEFINE OK(n) == \E f \in [0..n -> Int] :
                      f[0] = 0 /\ \A i \in 1..n : f[i] = f[i - 1] + w[i]
           T == {n \in 0..Len(w) : OK(n)}
<1>1. Len(w) \in Nat
  OBVIOUS
<1>2. OK(0)
  <2> DEFINE z == [i \in 0..0 |-> 0]
  <2>1. z \in [0..0 -> Int] /\ z[0] = 0
    OBVIOUS
  <2>2. \A i \in 1..0 : z[i] = z[i - 1] + w[i]
    OBVIOUS
  <2> HIDE DEF z
  <2> QED BY <2>1, <2>2
<1>3. ASSUME NEW n \in 1..Len(w), OK(n - 1) PROVE OK(n)
  <2>1. PICK f \in [0..(n - 1) -> Int] :
          f[0] = 0 /\ \A i \in 1..(n - 1) : f[i] = f[i - 1] + w[i]
    BY <1>3
  <2> DEFINE g == [i \in 0..n |-> IF i < n THEN f[i] ELSE f[n - 1] + w[n]]
  <2>2. w[n] \in Int /\ f[n - 1] \in Int
    BY <2>1
  <2>3. f[n - 1] + w[n] \in Int
    BY <2>2
  <2>4. g \in [0..n -> Int]
    BY <2>3
  <2>5. g[0] = 0
    BY <2>1
  <2>6. ASSUME NEW i \in 1..n PROVE g[i] = g[i - 1] + w[i]
    <3>1. i - 1 \in 0..n /\ i - 1 < n /\ g[i - 1] = f[i - 1]
      OBVIOUS
    <3>2. CASE i = n
      BY <3>1, <3>2
    <3>3. CASE i < n
      <4>1. g[i] = f[i] /\ i \in 1..(n - 1)
        BY <3>3
      <4> HIDE DEF g
      <4> QED BY <2>1, <3>1, <4>1
    <3> QED BY <3>2, <3>3
  <2> HIDE DEF g
  <2> QED BY <2>4, <2>5, <2>6
<1> HIDE DEF OK
<1>4. 0 \in T
  BY <1>1, <1>2
<1>5. \A i \in 1..Len(w) : i - 1 \in T => i \in T
  BY <1>1, <1>3
<1>6. Len(w) \in T
  <2>1. Len(w) \in 0..Len(w)
    BY <1>1
  <2> HIDE DEF T
  <2>2. \A i \in 0..Len(w) : i \in T
    BY <1>1, <1>4, <1>5, UpTo
  <2> QED BY <2>1, <2>2
<1> QED BY <1>6 DEF OK

\* Induction along a function: its values are integers.
LEMMA IntegerValues ==
  ASSUME NEW n \in Nat, NEW r, r[0] \in Int,
         \A i \in 1..n : r[i - 1] \in Int => r[i] \in Int
  PROVE  \A i \in 0..n : r[i] \in Int
<1> DEFINE T == {i \in 0..n : r[i] \in Int}
<1>1. 0 \in T
  OBVIOUS
<1>2. \A i \in 1..n : i - 1 \in T => i \in T
  OBVIOUS
<1> HIDE DEF T
<1>3. \A i \in 0..n : i \in T
  BY <1>1, <1>2, UpTo
<1> QED BY <1>3 DEF T

\* SizeSum adds the sizes one after the other.
LEMMA SizeSumRuns ==
  ASSUME NEW w \in Seq(Int)
  PROVE  \E t \in [0..Len(w) -> Int] :
           /\ t[0] = 0 /\ SizeSum(w) = t[Len(w)]
           /\ \A i \in 1..Len(w) : t[i] = t[i - 1] + w[i]
<1> DEFINE F(f) == [i \in 0..Len(w) |-> IF i = 0 THEN 0 ELSE f[i - 1] + w[i]]
           r == CHOOSE f : f = F(f)
<1>1. Len(w) \in Nat /\ 0 \in 0..Len(w)
      /\ \A i \in 1..Len(w) : i \in 0..Len(w) /\ i - 1 \in 0..Len(w) /\ i # 0 /\ w[i] \in Int
  OBVIOUS
<1>2. PICK f \in [0..Len(w) -> Int] :
        f[0] = 0 /\ \A i \in 1..Len(w) : f[i] = f[i - 1] + w[i]
  BY ZenonT(30), RunningSum
<1>3. f = F(f)
  <2>1. \A i \in 0..Len(w) : i # 0 => i \in 1..Len(w)
    BY <1>1
  <2>2. \A i \in 0..Len(w) : f[i] = IF i = 0 THEN 0 ELSE f[i - 1] + w[i]
    BY Zenon, <1>2, <2>1
  <2> QED BY Zenon, <1>2, <2>2
<1>4. r = F(r)
  <2> HIDE DEF F
  <2> QED BY <1>3
<1> HIDE DEF r
<1>5. \A i \in 0..Len(w) : r[i] = IF i = 0 THEN 0 ELSE r[i - 1] + w[i]
  BY Zenon, <1>4
<1>6. r[0] = 0 /\ \A i \in 1..Len(w) : r[i] = r[i - 1] + w[i]
  BY Zenon, <1>1, <1>5
<1>7. \A i \in 0..Len(w) : r[i] \in Int
  <2>1. r[0] \in Int
    BY <1>6
  <2>2. ASSUME NEW i \in 1..Len(w), r[i - 1] \in Int PROVE r[i] \in Int
    BY SMTT(30), <1>1, <1>6, <2>2
  <2> HIDE DEF F
  <2> QED BY <1>1, <2>1, <2>2, IntegerValues
<1>8. r \in [0..Len(w) -> Int]
  BY <1>4, <1>7
<1>9. SizeSum(w) = r[Len(w)]
  BY DEF SizeSum, r
<1> HIDE DEF F
<1> QED BY <1>6, <1>8, <1>9

\* The sum changes by as much as the one size that changes.
LEMMA SizeSumChanged ==
  ASSUME NEW v \in Seq(Int), NEW w \in Seq(Int), Len(v) = Len(w),
         NEW k \in 1..Len(w), \A i \in 1..Len(w) : i # k => v[i] = w[i]
  PROVE  SizeSum(v) = SizeSum(w) + (v[k] - w[k])
<1>1. PICK u \in [0..Len(v) -> Int] :
        /\ u[0] = 0 /\ SizeSum(v) = u[Len(v)]
        /\ \A i \in 1..Len(v) : u[i] = u[i - 1] + v[i]
  BY ZenonT(30), SizeSumRuns
<1>2. PICK t \in [0..Len(w) -> Int] :
        /\ t[0] = 0 /\ SizeSum(w) = t[Len(w)]
        /\ \A i \in 1..Len(w) : t[i] = t[i - 1] + w[i]
  BY ZenonT(30), SizeSumRuns
<1> DEFINE d == v[k] - w[k]
           P(i) == IF i < k THEN u[i] = t[i] ELSE u[i] = t[i] + d
           T == {i \in 0..Len(w) : P(i)}
<1>3. Len(w) \in Nat /\ v[k] \in Int /\ w[k] \in Int /\ d \in Int /\ k \in Nat /\ k >= 1
  OBVIOUS
<1>4. 0 \in T
  BY <1>1, <1>2, <1>3
<1>5. ASSUME NEW i \in 1..Len(w), i - 1 \in T PROVE i \in T
  <2>1. i - 1 \in 0..Len(w) /\ i \in 0..Len(w) /\ w[i] \in Int /\ v[i] \in Int
    BY SMTT(30), <1>3
  <2>2. /\ t[i - 1] \in Int /\ t[i] = t[i - 1] + w[i]
        /\ u[i - 1] \in Int /\ u[i] = u[i - 1] + v[i]
    BY <1>1, <1>2, <2>1
  <2>3. CASE i = k
    <3>1. u[i - 1] = t[i - 1] /\ d = v[i] - w[i]
      BY <1>3, <1>5, <2>3
    <3> HIDE DEF d
    <3> QED BY SMTT(30), <1>3, <2>1, <2>2, <2>3, <3>1
  <2>4. CASE i # k
    <3>1. v[i] = w[i] /\ (i - 1 < k <=> i < k)
      BY <1>3, <2>4
    <3> HIDE DEF d
    <3> QED BY SMTT(30), <1>3, <1>5, <2>1, <2>2, <3>1
  <2> QED BY <2>3, <2>4
<1>6. Len(w) \in T
  <2>1. \A i \in 0..Len(w) : i \in T
    <3> HIDE DEF T
    <3> QED BY <1>3, <1>4, <1>5, UpTo
  <2> QED BY <1>3, <2>1
<1>7. t[Len(w)] \in Int /\ u[Len(w)] = t[Len(w)] + d
  BY <1>3, <1>6
<1> QED BY <1>1, <1>2, <1>7

\* A frame that is still being received adds nothing.
LEMMA SizeSumAppended ==
  ASSUME NEW v \in Seq(Int), NEW w \in Seq(Int), Len(v) = Len(w) + 1,
         \A i \in 1..Len(w) : v[i] = w[i], v[Len(v)] = 0
  PROVE  SizeSum(v) = SizeSum(w)
<1>1. PICK u \in [0..Len(v) -> Int] :
        /\ u[0] = 0 /\ SizeSum(v) = u[Len(v)]
        /\ \A i \in 1..Len(v) : u[i] = u[i - 1] + v[i]
  BY ZenonT(30), SizeSumRuns
<1>2. PICK t \in [0..Len(w) -> Int] :
        /\ t[0] = 0 /\ SizeSum(w) = t[Len(w)]
        /\ \A i \in 1..Len(w) : t[i] = t[i - 1] + w[i]
  BY ZenonT(30), SizeSumRuns
<1> DEFINE n == Len(w)
           T == {i \in 0..n : u[i] = t[i]}
<1>3. n \in Nat /\ Len(v) = n + 1 /\ n + 1 \in 1..Len(v)
  OBVIOUS
<1>4. 0 \in T
  BY <1>1, <1>2, <1>3
<1>5. ASSUME NEW i \in 1..n, i - 1 \in T PROVE i \in T
  <2>1. i \in 1..Len(v) /\ i \in 0..n /\ u[i - 1] = t[i - 1] /\ v[i] = w[i]
    BY <1>3, <1>5
  <2> QED BY <1>1, <1>2, <2>1
<1>6. u[n] = t[n] /\ t[n] \in Int
  <2>1. \A i \in 0..n : i \in T
    <3> HIDE DEF T, n
    <3> QED BY <1>3, <1>4, <1>5, UpTo
  <2> QED BY <1>3, <2>1
<1>7. u[n + 1] = u[n] + v[n + 1] /\ v[n + 1] = 0
  <2>1. u[n + 1] = u[(n + 1) - 1] + v[n + 1]
    BY <1>1, <1>3
  <2>2. (n + 1) - 1 = n
    BY <1>3
  <2> HIDE DEF n
  <2> QED BY <1>3, <2>1, <2>2
<1> QED BY <1>1, <1>2, <1>3, <1>6, <1>7

-----------------------------------------------------------------------------
\* Threads that are receiving have each a frame of their own.
ReceivingInv ==
  /\ \A t \in PacketHandlers : recvState[t] = "received" => taken[t] \in 1..Len(arrived)
  /\ \A t, u \in PacketHandlers :
       recvState[t] = "received" /\ recvState[u] = "received" /\ taken[t] = taken[u] => t = u

\* bytesReceived_ lags behind by the frames that are being received.
BytesInv == RecvInv /\ ReceivingInv /\ bytesReceived = SizeSum(Countable)

\* The sizes to be counted are one for every frame that came in.
LEMMA CountableType ==
  ASSUME NEW a \in Seq(FrameSizes), NEW S, NEW c,
         c = [i \in 1..Len(a) |-> IF i \in S THEN 0 ELSE a[i]]
  PROVE  /\ c \in Seq(Int) /\ Len(c) = Len(a) /\ Len(a) \in Nat
         /\ \A i \in 1..Len(a) : a[i] \in Int /\ c[i] = IF i \in S THEN 0 ELSE a[i]
<1>1. Len(a) \in Nat /\ \A i \in 1..Len(a) : a[i] \in FrameSizes
  OBVIOUS
<1>2. \A i \in 1..Len(a) : a[i] \in Int
  <2>1. FrameSizes \subseteq Int
    BY ReceiverAssumption
  <2> QED BY <1>1, <2>1
<1>3. \A i \in 1..Len(a) : c[i] = IF i \in S THEN 0 ELSE a[i]
  OBVIOUS
<1>4. c \in [1..Len(a) -> Int]
  BY <1>2
<1>5. c \in Seq(Int) /\ Len(c) = Len(a)
  BY <1>1, <1>4
<1> QED BY <1>1, <1>2, <1>3, <1>5

\* Before the first frame.
LEMMA BytesInit == RecvSpecInit => BytesInv
<1> SUFFICES ASSUME RecvSpecInit PROVE BytesInv
  OBVIOUS
<1>1. RecvInv /\ ReceivingInv
  BY RecvInitInv DEF RecvSpecInit, RecvInit, ReceivingInv
<1>2. Len(arrived) = 0 /\ bytesReceived = 0
  BY DEF RecvSpecInit, RecvInit
<1>3. Countable \in Seq(Int) /\ Len(Countable) = 0
  BY <1>1, <1>2, CountableType DEF RecvInv, RecvTypeOK, Countable
<1>4. SizeSum(Countable) = 0
  <2> HIDE DEF Countable
  <2>1. PICK t \in [0..Len(Countable) -> Int] :
          /\ t[0] = 0 /\ SizeSum(Countable) = t[Len(Countable)]
          /\ \A i \in 1..Len(Countable) : t[i] = t[i - 1] + Countable[i]
    BY ZenonT(30), <1>3, SizeSumRuns
  <2> QED BY <1>3, <2>1
<1> QED BY <1>1, <1>2, <1>4 DEF BytesInv

\* A frame that arrives is not to be counted yet.
LEMMA ReceiveBytes ==
  ASSUME BytesInv, NEW t \in Running, NEW rc \in FrameSizes \cup {-1}, Receive(t, rc)
  PROVE  BytesInv'
<1>1. RecvInv /\ RecvInv' /\ RecvTypeOK /\ RecvTypeOK'
  BY ReceiveStep DEF BytesInv, RecvInv
<1>2. CASE ~ GotFrame(rc)
  <2>1. UNCHANGED <<arrived, recvState, taken, bytesReceived>>
    BY <1>2 DEF Receive
  <2> QED BY <1>1, <2>1 DEF BytesInv, ReceivingInv, Countable, BeingReceived
<1>3. CASE GotFrame(rc)
  <2> DEFINE n == Len(arrived) + 1
  <2>1. t \in PacketHandlers /\ recvState[t] = "idle"
    BY BuffersDistinct DEF Receive
  <2>2. arrived' = Append(arrived, rc) /\ arrived \in Seq(FrameSizes) /\ Len(arrived) \in Nat
    BY <1>1, <1>3 DEF Receive, RecvTypeOK
  <2>3. rc \in FrameSizes
    BY <1>3 DEF GotFrame
  <2>4. Len(arrived') = n /\ n \in Nat /\ \A i \in 1..Len(arrived) : arrived'[i] = arrived[i]
    BY <2>2, <2>3
  <2>5. /\ taken' = [taken EXCEPT ![t] = n] /\ recvState' = [recvState EXCEPT ![t] = "received"]
        /\ UNCHANGED bytesReceived
    BY <1>3, <2>4 DEF Receive
  <2> HIDE DEF n
  <2>6. /\ taken'[t] = n /\ recvState'[t] = "received"
        /\ \A u \in PacketHandlers : u # t =>
             taken'[u] = taken[u] /\ recvState'[u] = recvState[u]
    BY <1>1, <2>1, <2>5 DEF RecvTypeOK
  <2>7. n \notin 1..Len(arrived) /\ n \in 1..n /\ 1..Len(arrived) \subseteq 1..n
    BY <2>2 DEF n
  <2>8. ReceivingInv'
    <3>1. \A u \in PacketHandlers : recvState'[u] = "received" => taken'[u] \in 1..n
      BY <2>1, <2>6, <2>7 DEF BytesInv, ReceivingInv
    <3>2. ASSUME NEW u \in PacketHandlers, NEW x \in PacketHandlers, recvState'[u] = "received",
                 recvState'[x] = "received", taken'[u] = taken'[x]
          PROVE  u = x
      BY <2>6, <2>7, <3>2 DEF BytesInv, ReceivingInv
    <3> QED BY <2>4, <3>1, <3>2 DEF ReceivingInv
  <2>9. n \in BeingReceived'
    BY <2>1, <2>6 DEF BeingReceived
  <2>10. ASSUME NEW i \in 1..Len(arrived) PROVE i \in BeingReceived' <=> i \in BeingReceived
    <3>1. i # n
      BY <2>7
    <3> QED BY <2>1, <2>6, <3>1 DEF BeingReceived
  <2> DEFINE v == Countable'
             w == Countable
  <2>11. /\ v \in Seq(Int) /\ w \in Seq(Int) /\ Len(w) = Len(arrived) /\ Len(v) = n
         /\ \A i \in 1..n : v[i] = IF i \in BeingReceived' THEN 0 ELSE arrived'[i]
         /\ \A i \in 1..Len(arrived) : w[i] = IF i \in BeingReceived THEN 0 ELSE arrived[i]
    <3>1. arrived \in Seq(FrameSizes) /\ arrived' \in Seq(FrameSizes)
      BY <1>1 DEF RecvTypeOK
    <3>2. /\ w = [i \in 1..Len(arrived) |-> IF i \in BeingReceived THEN 0 ELSE arrived[i]]
          /\ v = [i \in 1..Len(arrived') |-> IF i \in BeingReceived' THEN 0 ELSE arrived'[i]]
      BY DEF Countable
    <3> HIDE DEF v, w
    <3>3. /\ w \in Seq(Int) /\ Len(w) = Len(arrived)
          /\ \A i \in 1..Len(arrived) : w[i] = IF i \in BeingReceived THEN 0 ELSE arrived[i]
      BY <3>1, <3>2, CountableType
    <3>4. /\ v \in Seq(Int) /\ Len(v) = Len(arrived')
          /\ \A i \in 1..Len(arrived') : v[i] = IF i \in BeingReceived' THEN 0 ELSE arrived'[i]
      BY <3>1, <3>2, CountableType
    <3> QED BY <2>4, <3>3, <3>4
  <2> HIDE DEF v, w
  <2>12. \A i \in 1..Len(w) : v[i] = w[i]
    BY <2>4, <2>7, <2>10, <2>11
  <2>13. v[Len(v)] = 0
    <3>1. v[n] = IF n \in BeingReceived' THEN 0 ELSE arrived'[n]
      BY <2>7, <2>11
    <3> QED BY <2>9, <2>11, <3>1
  <2>14. SizeSum(v) = SizeSum(w)
    <3>1. Len(v) = Len(w) + 1
      BY <2>11 DEF n
    <3> QED BY <2>11, <2>12, <2>13, <3>1, SizeSumAppended
  <2> QED BY <1>1, <2>5, <2>8, <2>14 DEF BytesInv, v, w
<1> QED BY <1>2, <1>3

\* A frame that is counted is counted with its size.
LEMMA CountBytes ==
  ASSUME BytesInv, NEW t \in Running, CountReceived(t)
  PROVE  BytesInv'
<1> DEFINE k == taken[t]
           v == Countable'
           w == Countable
<1>1. RecvInv /\ RecvInv' /\ RecvTypeOK /\ RecvTypeOK'
  BY CountStep DEF BytesInv, RecvInv
<1>2. /\ t \in PacketHandlers /\ recvState[t] = "received"
      /\ recvState' = [recvState EXCEPT ![t] = "returned"]
      /\ bytesReceived' = bytesReceived + arrived[k] /\ UNCHANGED <<taken, arrived>>
  BY BuffersDistinct DEF CountReceived
<1>3. /\ recvState'[t] = "returned"
      /\ \A u \in PacketHandlers : u # t => recvState'[u] = recvState[u]
  BY <1>1, <1>2 DEF RecvTypeOK
<1>4. k \in 1..Len(arrived)
  BY <1>2 DEF BytesInv, ReceivingInv
<1>5. ReceivingInv'
  BY <1>2, <1>3 DEF BytesInv, ReceivingInv
<1>6. k \in BeingReceived /\ k \notin BeingReceived'
  <2>1. k \in BeingReceived
    BY <1>2 DEF BeingReceived
  <2>2. k \notin BeingReceived'
    BY <1>2, <1>3 DEF BeingReceived, BytesInv, ReceivingInv
  <2> QED BY <2>1, <2>2
<1>7. ASSUME NEW i \in 1..Len(arrived), i # k PROVE i \in BeingReceived' <=> i \in BeingReceived
  BY <1>2, <1>3, <1>7 DEF BeingReceived
<1>8. /\ v \in Seq(Int) /\ w \in Seq(Int) /\ Len(w) = Len(arrived) /\ Len(v) = Len(arrived)
      /\ \A i \in 1..Len(arrived) : v[i] = IF i \in BeingReceived' THEN 0 ELSE arrived[i]
      /\ \A i \in 1..Len(arrived) : w[i] = IF i \in BeingReceived THEN 0 ELSE arrived[i]
      /\ \A i \in 1..Len(arrived) : arrived[i] \in Int
  <2>1. arrived \in Seq(FrameSizes)
    BY <1>1 DEF RecvTypeOK
  <2>2. /\ w = [i \in 1..Len(arrived) |-> IF i \in BeingReceived THEN 0 ELSE arrived[i]]
        /\ v = [i \in 1..Len(arrived) |-> IF i \in BeingReceived' THEN 0 ELSE arrived[i]]
    BY <1>2 DEF Countable
  <2> HIDE DEF v, w
  <2>3. /\ w \in Seq(Int) /\ Len(w) = Len(arrived)
        /\ \A i \in 1..Len(arrived) : w[i] = IF i \in BeingReceived THEN 0 ELSE arrived[i]
        /\ \A i \in 1..Len(arrived) : arrived[i] \in Int
    BY <2>1, <2>2, CountableType
  <2>4. /\ v \in Seq(Int) /\ Len(v) = Len(arrived)
        /\ \A i \in 1..Len(arrived) : v[i] = IF i \in BeingReceived' THEN 0 ELSE arrived[i]
    BY <2>1, <2>2, CountableType
  <2> QED BY <2>3, <2>4
<1>9. arrived[k] \in Int
  BY <1>4, <1>8
<1> HIDE DEF v, w, k
<1>10. v[k] = arrived[k] /\ w[k] = 0 /\ \A i \in 1..Len(w) : i # k => v[i] = w[i]
  BY <1>4, <1>6, <1>7, <1>8
<1>11. SizeSum(v) = SizeSum(w) + (v[k] - w[k])
  BY <1>4, <1>8, <1>10, SizeSumChanged
<1>12. SizeSum(v) = SizeSum(w) + arrived[k]
  BY <1>9, <1>10, <1>11
<1> QED BY <1>1, <1>2, <1>5, <1>12 DEF BytesInv, v, w

\* No other step changes what is to be counted.
LEMMA BytesNext == BytesInv /\ [RecvNext]_allVars => BytesInv'
<1> SUFFICES ASSUME BytesInv, [RecvNext]_allVars PROVE BytesInv'
  OBVIOUS
<1>1. CASE UNCHANGED recvVars
  <2>1. RecvInv'
    BY RecvNextInv DEF BytesInv
  <2> QED BY <1>1, <2>1 DEF recvVars, BytesInv, ReceivingInv, Countable, BeingReceived
<1>2. ASSUME NEW t \in Running, Processed(t) PROVE BytesInv'
  <2>1. RecvInv /\ RecvInv'
    BY <1>2, ProcessedStep DEF BytesInv
  <2>2. /\ t \in PacketHandlers /\ recvState[t] = "returned"
        /\ recvState' = [recvState EXCEPT ![t] = "idle"]
        /\ UNCHANGED <<taken, arrived, bytesReceived>>
    BY <1>2, BuffersDistinct DEF Processed
  <2>3. \A u \in PacketHandlers : recvState'[u] = "received" <=> recvState[u] = "received"
    BY <2>1, <2>2 DEF RecvInv, RecvTypeOK
  <2>4. ReceivingInv'
    BY <2>2, <2>3 DEF BytesInv, ReceivingInv
  <2>5. Countable' = Countable
    BY <2>2, <2>3 DEF Countable, BeingReceived
  <2> QED BY <2>1, <2>2, <2>4, <2>5 DEF BytesInv
<1> QED BY <1>1, <1>2, ReceiveBytes, CountBytes
        DEF RecvNext, GetNextFrame, SendQueuedFrames, allVars

\* bytesReceived_ and framesReceived_ are exact at any time, for any number of
\* threads, queues and frames: together they count every frame once and with
\* its own size, except for those just being received, and never a timeout.
THEOREM ReceivedCounted == RecvSpec => []ReceivedExact
<1>1. BytesInv /\ FramesReceivedExact => ReceivedExact
  BY DEF BytesInv, FramesReceivedExact, ReceivedExact
<1> QED BY <1>1, BytesInit, BytesNext, FramesReceivedCounted, PTL DEF RecvSpec

-----------------------------------------------------------------------------
\* A step of both halves is a step of the sending half, or none.
LEMMA SendHalfStep == [RecvNext]_allVars => [Next]_vars
BY BuffersDistinct DEF RecvNext, allVars, GetNextFrame, SendQueuedFrames, Receive,
   CountReceived, Processed, Next

\* The receiving half leaves the queue, the heap and the statistics of the
\* sending half alone: what NetworkHandler's sending half does next to it is
\* what it does alone.
THEOREM SendHalfImplemented == RecvSpec => Init /\ [][Next]_vars
BY SendHalfStep, PTL DEF RecvSpec, RecvSpecInit

\* Next to the receiving threads, too, every enqueued frame is in one place and
\* is counted, and no frame is sent from freed memory or freed twice.
THEOREM SendHalfSafe ==
  RecvSpec => [](TypeOK /\ FramesAccounted /\ NoUseAfterFree /\ NoDoubleFree)
<1>1. IInv => TypeOK /\ NoUseAfterFree /\ NoDoubleFree
  BY DEF IInv
<1> QED BY <1>1, SendHalfImplemented, InitIInv, NextIInv, InitAccounted, NextAccounted,
           AccountedParts, PTL
=============================================================================
