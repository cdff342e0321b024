-------------------- MODULE L1DistributionHandler_proofs --------------------
(***************************************************************************)
(* Proofs about L1DistributionHandler, for any number of workers, requests,*)
(* bursts and destinations and any MAX_TRIGGERS_PER_L1MRP.                 *)
(***************************************************************************)
EXTENDS L1DistributionHandler, SequenceTheorems, FiniteSetTheorems, TLAPS

-----------------------------------------------------------------------------
(***************************************************************************)
(* The inductive invariant of the distribution thread's control.           *)
(***************************************************************************)

\* The list has room while the thread collects and is not empty when it is
\* packed; the MRP being sent has between one and MAX triggers.
ListBounds ==
  /\ Len(multicastRequests) <= MAX_TRIGGERS_PER_L1MRP
  /\ pc \in {"flush", "drain", "pop"} =>
       Len(multicastRequests) < MAX_TRIGGERS_PER_L1MRP
  /\ pc = "pack" => multicastRequests # <<>>
  /\ pc = "send" => Len(buff) \in 1..MAX_TRIGGERS_PER_L1MRP

\* The last request in the queue is the one that was pushed last; between the
\* check that the queue is not empty and the waiting loop, only the deletion
\* of that request can empty it.
EmptyAfterDrain ==
  /\ multicastMRPQueue # <<>> =>
       /\ Len(requestBurst) > 0
       /\ multicastMRPQueue[Len(multicastMRPQueue)] = Len(requestBurst)
  /\ pc \in {"flush", "drain", "pop"} /\ multicastMRPQueue = <<>> =>
       drained > 0 /\ drained = Len(requestBurst)

\* If the flag fell after thread() had read it, no request of the new burst
\* was deleted yet.
NoLateSkipYet ==
  /\ \A s \in skipped : s.burst <= burst
  /\ pc = "drain" /\ ~ flushBurst =>
       \A s \in skipped : ~ s.flushing => s.burst < burst

\* While an MRP is distributed the destinations before nextHdr have it, the
\* others do not, and apart from it they all got the same.
Distribution ==
  /\ nextHdr \in 1..(NumUnicastHdrs + NumMulticastHdrs + 1)
  /\ \A h, k \in Hdrs :
       /\ pc # "send" => sent[h] = sent[k]
       /\ pc = "send" /\ (h < nextHdr <=> k < nextHdr) => sent[h] = sent[k]
       /\ pc = "send" /\ h < nextHdr /\ ~ (k < nextHdr)
            => sent[h] = Append(sent[k], buff)

ControlInv ==
  /\ TypeOK
  /\ ListBounds
  /\ EmptyAfterDrain
  /\ NoLateSkipYet
  /\ OneLateSkipPerBurst
  /\ Distribution
  /\ MRPSize

-----------------------------------------------------------------------------
(***************************************************************************)
(* Sequences.                                                              *)
(***************************************************************************)

\* What pushing at the end of a queue or list does to it.
LEMMA AppendFacts ==
  ASSUME NEW S, NEW s \in Seq(S), NEW e \in S
  PROVE  /\ Append(s, e) \in Seq(S)
         /\ Append(s, e) # <<>>
         /\ Len(Append(s, e)) = Len(s) + 1
         /\ \A i \in DOMAIN Append(s, e) :
              \/ i \in DOMAIN s /\ Append(s, e)[i] = s[i]
              \/ i = Len(s) + 1 /\ Append(s, e)[i] = e
         /\ \A i \in DOMAIN s : i \in DOMAIN Append(s, e) /\ Append(s, e)[i] = s[i]
         /\ Len(s) + 1 \in DOMAIN Append(s, e)
         /\ Append(s, e)[Len(s) + 1] = e
OBVIOUS

\* What popping from the front of a queue does to it.
LEMMA TailFacts ==
  ASSUME NEW S, NEW s \in Seq(S), s # <<>>
  PROVE  /\ Head(s) \in S
         /\ 1 \in DOMAIN s
         /\ Head(s) = s[1]
         /\ Tail(s) \in Seq(S)
         /\ Len(Tail(s)) = Len(s) - 1
         /\ \A i \in DOMAIN Tail(s) :
              i \in Nat /\ i + 1 \in DOMAIN s /\ Tail(s)[i] = s[i + 1]
         /\ \A i \in DOMAIN s :
              i # 1 => i - 1 \in DOMAIN Tail(s) /\ Tail(s)[i - 1] = s[i]
OBVIOUS

\* Since the list never exceeds MAX_TRIGGERS_PER_L1MRP, Async_SendMRP packs
\* all of it, last request first.
LEMMA PackFacts ==
  ASSUME ControlInv, PackMRP
  PROVE  /\ NumberOfTriggers = Len(multicastRequests)
         /\ Len(multicastRequests) \in 1..MAX_TRIGGERS_PER_L1MRP
         /\ multicastRequests' = <<>>
         /\ buff' \in Seq(Nat)
         /\ Len(buff') = Len(multicastRequests)
         /\ \A i \in 1..Len(multicastRequests) :
              buff'[i] = multicastRequests[Len(multicastRequests) - i + 1]
<1> DEFINE size == Len(multicastRequests)
<1>1. size \in Nat /\ size <= MAX_TRIGGERS_PER_L1MRP /\ multicastRequests \in Seq(Nat)
  BY DEF ControlInv, TypeOK, ListBounds
<1>2. multicastRequests # <<>>
  BY DEF ControlInv, ListBounds, PackMRP
<1>3. size \in 1..MAX_TRIGGERS_PER_L1MRP
  BY <1>1, <1>2, L1Assumption
<1>4. NumberOfTriggers = size
  BY <1>1, L1Assumption DEF NumberOfTriggers
<1>5. multicastRequests' = <<>>
  <2>1. multicastRequests' = SubSeq(multicastRequests, 1, 0)
    BY <1>1, <1>4 DEF PackMRP, LeftOver
  <2> QED BY <2>1, SubSeqEmpty
<1>6. buff' = [i \in 1..size |-> multicastRequests[size - i + 1]]
  BY <1>4 DEF PackMRP, Packed
<1>7. \A i \in 1..size : multicastRequests[size - i + 1] \in Nat
  BY <1>1, <1>3
<1>8. buff' \in [1..size -> Nat]
  BY <1>6, <1>7
<1>9. buff' \in Seq(Nat) /\ Len(buff') = size
  BY <1>1, <1>8, SeqDef
<1> QED BY <1>3, <1>4, <1>5, <1>6, <1>9
-----------------------------------------------------------------------------
(***************************************************************************)
(* One lemma per action: it preserves the inductive invariant.             *)
(***************************************************************************)

\* Initialize and the start of thread() establish it.
LEMMA InitControl == Init => ControlInv
<1> SUFFICES ASSUME Init PROVE ControlInv
  OBVIOUS
<1>1. TypeOK
  <2>1. /\ <<>> \in Seq(Nat) /\ <<>> \in Seq(Frames)
        /\ [h \in Hdrs |-> <<>>] \in [Hdrs -> Seq(Seq(Nat))]
    BY EmptySeq
  <2>2. asyncSendData = <<>> /\ Len(asyncSendData) <= QueueCapacity
    BY L1Assumption DEF Init
  <2> QED BY <2>1, <2>2 DEF Init, TypeOK, PCs
<1>2. ListBounds
  BY L1Assumption DEF Init, ListBounds
<1>3. Distribution
  BY L1Assumption DEF Init, Distribution
<1>4. EmptyAfterDrain /\ NoLateSkipYet /\ OneLateSkipPerBurst /\ MRPSize
  BY DEF Init, EmptyAfterDrain, NoLateSkipYet, OneLateSkipPerBurst, MRPSize
<1> QED BY <1>1, <1>2, <1>3, <1>4 DEF ControlInv

\* BurstIdHandler: when the flag falls, every request deleted so far was
\* deleted in an earlier burst.
LEMMA BurstControl ==
  ASSUME ControlInv, StartFlush \/ EndFlush
  PROVE  ControlInv'
<1>1. /\ UNCHANGED <<workerState, workerBurst, multicastMRPQueue, requestBurst, pc,
                     multicastRequests, buff, nextHdr, asyncSendData, sent,
                     L1TriggersSent, L1MRPsSent, skipped, drained>>
      /\ \/ burst' = burst /\ flushBurst' = TRUE
         \/ burst' = burst + 1 /\ flushBurst' = FALSE
  BY DEF StartFlush, EndFlush, workerVars, mrpVars, counters
<1>2. TypeOK'
  <2>1. burst' \in Nat
    BY <1>1 DEF ControlInv, TypeOK
  <2>2. flushBurst' \in BOOLEAN
    BY <1>1
  <2> QED BY <1>1, <2>1, <2>2 DEF ControlInv, TypeOK
<1>3. NoLateSkipYet'
  <2>1. \A s \in skipped : s.burst \in Nat
    BY DEF ControlInv, TypeOK
  <2>2. burst \in Nat
    BY DEF ControlInv, TypeOK
  <2> QED BY <1>1, <2>1, <2>2 DEF ControlInv, NoLateSkipYet
<1>4. ListBounds' /\ EmptyAfterDrain' /\ OneLateSkipPerBurst'
  BY <1>1 DEF ControlInv, ListBounds, EmptyAfterDrain, OneLateSkipPerBurst
<1>5. Distribution' /\ MRPSize'
  BY <1>1 DEF ControlInv, Distribution, MRPSize, Hdrs
<1> QED BY <1>2, <1>3, <1>4, <1>5 DEF ControlInv

\* The workers only lengthen the queue.
LEMMA WorkerControl ==
  ASSUME ControlInv, NEW w \in Workers, CheckFlush(w) \/ PushRequest(w)
  PROVE  ControlInv'
<1>1. UNCHANGED <<flushBurst, burst, pc, multicastRequests, buff, nextHdr,
                  asyncSendData, sent, L1TriggersSent, L1MRPsSent, skipped, drained>>
  BY DEF CheckFlush, PushRequest, burstVars, mrpVars, counters
<1>2. /\ workerState' \in [Workers -> {"idle", "push"}]
      /\ workerBurst' \in [Workers -> Nat]
  BY DEF ControlInv, TypeOK, CheckFlush, PushRequest
<1>3. /\ requestBurst' \in Seq(Nat)
      /\ multicastMRPQueue' \in Seq(Nat)
      /\ multicastMRPQueue' = <<>> => multicastMRPQueue = <<>>
  <2>1. CASE CheckFlush(w)
    BY <2>1 DEF ControlInv, TypeOK, CheckFlush
  <2>2. CASE PushRequest(w)
    <3>1. /\ requestBurst \in Seq(Nat) /\ multicastMRPQueue \in Seq(Nat)
          /\ workerBurst[w] \in Nat /\ Len(requestBurst) + 1 \in Nat
      BY DEF ControlInv, TypeOK
    <3> QED BY <2>2, <3>1, AppendFacts DEF PushRequest
  <2> QED BY <2>1, <2>2
<1>4. TypeOK'
  BY <1>1, <1>2, <1>3 DEF ControlInv, TypeOK
<1>a. EmptyAfterDrain'
  <2>1. CASE CheckFlush(w)
    BY <1>1, <2>1 DEF ControlInv, EmptyAfterDrain, CheckFlush
  <2>2. CASE PushRequest(w)
    <3>1. /\ requestBurst \in Seq(Nat) /\ multicastMRPQueue \in Seq(Nat)
          /\ workerBurst[w] \in Nat /\ Len(requestBurst) + 1 \in Nat
      BY DEF ControlInv, TypeOK
    <3>2. Len(requestBurst') = Len(requestBurst) + 1
      BY <2>2, <3>1, AppendFacts DEF PushRequest
    <3>3. /\ multicastMRPQueue' # <<>>
          /\ multicastMRPQueue'[Len(multicastMRPQueue')] = Len(requestBurst) + 1
      BY <2>2, <3>1, AppendFacts DEF PushRequest
    <3> QED BY <3>1, <3>2, <3>3 DEF EmptyAfterDrain
  <2> QED BY <2>1, <2>2
<1>5. ListBounds' /\ OneLateSkipPerBurst' /\ NoLateSkipYet'
  BY <1>1, <1>3
  DEF ControlInv, ListBounds, OneLateSkipPerBurst, NoLateSkipYet
<1>6. Distribution' /\ MRPSize'
  BY <1>1 DEF ControlInv, Distribution, MRPSize, Hdrs
<1> QED BY <1>a, <1>4, <1>5, <1>6 DEF ControlInv

\* The steps of thread() that only decide where to go on.
LEMMA BranchControl ==
  ASSUME ControlInv, Collect \/ ReadFlush \/ DrainEmpty \/ Decide
  PROVE  ControlInv'
<1>1. /\ UNCHANGED <<workerState, workerBurst, flushBurst, burst, multicastMRPQueue,
                     requestBurst, multicastRequests, buff, nextHdr, asyncSendData,
                     sent, L1TriggersSent, L1MRPsSent, skipped>>
      /\ drained' \in {0, drained}
  BY DEF Collect, ReadFlush, DrainEmpty, Decide, workerVars, burstVars, mrpVars,
         counters
<1>2. /\ pc # "send" /\ pc' # "send"
      /\ pc' \in PCs
  BY DEF Collect, ReadFlush, DrainEmpty, Decide, PCs
<1>3. TypeOK'
  BY <1>1, <1>2 DEF ControlInv, TypeOK
<1>4. ListBounds'
  <2>1. Len(multicastRequests) \in Nat
    BY DEF ControlInv, TypeOK
  <2>2. CASE Collect
    BY <1>1, <2>1, <2>2, L1Assumption DEF ControlInv, ListBounds, Collect, MoreToCollect
  <2>3. CASE ReadFlush \/ DrainEmpty \/ Decide
    BY <1>1, <2>1, <2>3
    DEF ControlInv, ListBounds, ReadFlush, DrainEmpty, Decide, HasRequests
  <2> QED BY <2>2, <2>3
<1>5. EmptyAfterDrain'
  BY <1>1
  DEF ControlInv, EmptyAfterDrain, Collect, ReadFlush, DrainEmpty, Decide,
      MoreToCollect
<1>6. NoLateSkipYet' /\ OneLateSkipPerBurst'
  BY <1>1
  DEF ControlInv, TypeOK, NoLateSkipYet, OneLateSkipPerBurst, Collect, ReadFlush,
      DrainEmpty, Decide
<1>7. Distribution' /\ MRPSize'
  BY <1>1, <1>2 DEF ControlInv, Distribution, MRPSize, Hdrs
<1> QED BY <1>3, <1>4, <1>5, <1>6, <1>7 DEF ControlInv

\* The deletion of a request: if the flag is down, it is the first of its
\* burst, and thread() reads the flag again before it deletes another.
LEMMA DrainControl ==
  ASSUME ControlInv, Drain
  PROVE  ControlInv'
<1> DEFINE new == [request |-> Head(multicastMRPQueue), burst |-> burst,
                   flushing |-> flushBurst]
<1>1. /\ UNCHANGED <<workerState, workerBurst, flushBurst, burst, requestBurst,
                     multicastRequests, buff, nextHdr, asyncSendData, sent,
                     L1TriggersSent, L1MRPsSent>>
      /\ pc = "drain" /\ pc' = "flush"
      /\ skipped' = skipped \cup {new}
  BY DEF Drain, AfterDrain, workerVars, burstVars, mrpVars, counters
<1>2. /\ multicastMRPQueue' \in Seq(Nat)
      /\ Head(multicastMRPQueue) \in Nat /\ drained' \in Nat
  BY TailFacts DEF ControlInv, TypeOK, Drain
<1>3. new \in [request : Nat, burst : Nat, flushing : BOOLEAN]
  BY <1>2 DEF ControlInv, TypeOK
<1>4. TypeOK'
  BY <1>1, <1>2, <1>3 DEF ControlInv, TypeOK, PCs
<1>5. ListBounds'
  BY <1>1 DEF ControlInv, ListBounds
<1>a. EmptyAfterDrain'
  <2>1. /\ multicastMRPQueue \in Seq(Nat) /\ multicastMRPQueue # <<>>
        /\ multicastMRPQueue' = Tail(multicastMRPQueue)
        /\ drained' = Head(multicastMRPQueue)
    BY DEF ControlInv, TypeOK, Drain
  <2>2. /\ Len(requestBurst) > 0
        /\ multicastMRPQueue[Len(multicastMRPQueue)] = Len(requestBurst)
    BY <2>1 DEF ControlInv, EmptyAfterDrain
  <2>3. CASE multicastMRPQueue' = <<>>
    <3>1. /\ Len(multicastMRPQueue') = Len(multicastMRPQueue) - 1
          /\ Head(multicastMRPQueue) = multicastMRPQueue[1]
      BY <2>1, TailFacts
    <3>2. Len(multicastMRPQueue') = 0 /\ Len(multicastMRPQueue) \in Nat
      BY <1>2, <2>1, <2>3, EmptySeq
    <3>3. Len(multicastMRPQueue) = 1
      BY <3>1, <3>2
    <3> QED BY <1>1, <2>1, <2>2, <2>3, <3>1, <3>3 DEF EmptyAfterDrain
  <2>4. CASE multicastMRPQueue' # <<>>
    <3>1. /\ Len(multicastMRPQueue) # 1
          /\ Len(multicastMRPQueue) \in DOMAIN multicastMRPQueue
          /\ Len(multicastMRPQueue') = Len(multicastMRPQueue) - 1
      BY <2>1, <2>4, TailFacts
    <3>2. multicastMRPQueue'[Len(multicastMRPQueue')]
            = multicastMRPQueue[Len(multicastMRPQueue)]
      BY <2>1, <3>1, TailFacts
    <3> QED BY <1>1, <2>2, <2>4, <3>2 DEF EmptyAfterDrain
  <2> QED BY <2>3, <2>4
<1>6. NoLateSkipYet'
  BY <1>1 DEF ControlInv, TypeOK, NoLateSkipYet
<1>7. OneLateSkipPerBurst'
  <2>1. new.burst = burst /\ new.flushing = flushBurst
    OBVIOUS
  <2> HIDE DEF new
  <2>2. burst \in Nat /\ \A s \in skipped : s.burst \in Nat
    BY DEF ControlInv, TypeOK
  <2>3. ~ new.flushing => \A s \in skipped : ~ s.flushing => s.burst # new.burst
    BY <1>1, <2>1, <2>2 DEF ControlInv, NoLateSkipYet
  <2> QED BY <1>1, <2>3 DEF ControlInv, OneLateSkipPerBurst
<1>8. Distribution' /\ MRPSize'
  BY <1>1 DEF ControlInv, Distribution, MRPSize, Hdrs
<1> QED BY <1>4, <1>5, <1>a, <1>6, <1>7, <1>8 DEF ControlInv

\* A collected request fits into the list.
LEMMA PopControl ==
  ASSUME ControlInv, PopRequest
  PROVE  ControlInv'
<1>1. /\ UNCHANGED <<workerState, workerBurst, flushBurst, burst, requestBurst,
                     buff, nextHdr, asyncSendData, sent, L1TriggersSent,
                     L1MRPsSent, skipped, drained>>
      /\ pc = "pop" /\ pc' = "collect"
  BY DEF PopRequest, workerVars, burstVars, mrpVars, counters
<1>2. /\ multicastMRPQueue' \in Seq(Nat)
      /\ multicastRequests' \in Seq(Nat)
      /\ Len(multicastRequests') = Len(multicastRequests) + 1
      /\ Len(multicastRequests) \in Nat
  <2>1. Head(multicastMRPQueue) \in Nat /\ Tail(multicastMRPQueue) \in Seq(Nat)
    BY TailFacts DEF ControlInv, TypeOK, PopRequest
  <2> QED BY <2>1, AppendFacts DEF ControlInv, TypeOK, PopRequest
<1>3. TypeOK'
  BY <1>1, <1>2 DEF ControlInv, TypeOK, PCs
<1>4. ListBounds'
  BY <1>1, <1>2, L1Assumption DEF ControlInv, ListBounds
<1>5. NoLateSkipYet' /\ OneLateSkipPerBurst'
  BY <1>1 DEF ControlInv, NoLateSkipYet, OneLateSkipPerBurst
<1>a. EmptyAfterDrain'
  <2>1. /\ multicastMRPQueue \in Seq(Nat) /\ multicastMRPQueue # <<>>
        /\ multicastMRPQueue' = Tail(multicastMRPQueue)
    BY DEF ControlInv, TypeOK, PopRequest
  <2>2. CASE multicastMRPQueue' # <<>>
    <3>1. /\ Len(multicastMRPQueue) # 1
          /\ Len(multicastMRPQueue) \in DOMAIN multicastMRPQueue
          /\ Len(multicastMRPQueue') = Len(multicastMRPQueue) - 1
      BY <2>1, <2>2, TailFacts
    <3>2. multicastMRPQueue'[Len(multicastMRPQueue')]
            = multicastMRPQueue[Len(multicastMRPQueue)]
      BY <2>1, <3>1, TailFacts
    <3> QED BY <1>1, <2>1, <3>2 DEF ControlInv, EmptyAfterDrain
  <2> QED BY <1>1, <2>2 DEF EmptyAfterDrain
<1>6. Distribution' /\ MRPSize'
  BY <1>1 DEF ControlInv, Distribution, MRPSize, Hdrs
<1> QED BY <1>3, <1>4, <1>5, <1>a, <1>6 DEF ControlInv

\* The packed MRP is not empty and no destination has it yet.
LEMMA PackControl ==
  ASSUME ControlInv, PackMRP
  PROVE  ControlInv'
<1>1. /\ UNCHANGED <<workerState, workerBurst, flushBurst, burst,
                     multicastMRPQueue, requestBurst, asyncSendData, sent,
                     L1TriggersSent, L1MRPsSent, skipped, drained>>
      /\ pc = "pack" /\ pc' = "send" /\ nextHdr' = 1
  BY DEF PackMRP, FirstHdr, workerVars, burstVars, counters
<1>2. /\ multicastRequests' = <<>>
      /\ buff' \in Seq(Nat)
      /\ Len(buff') \in 1..MAX_TRIGGERS_PER_L1MRP
  BY PackFacts
<1>3. /\ multicastRequests' \in Seq(Nat) /\ Len(multicastRequests') = 0
  BY <1>2, EmptySeq
<1>4. TypeOK'
  BY <1>1, <1>2, <1>3 DEF ControlInv, TypeOK, PCs
<1>5. ListBounds'
  BY <1>1, <1>2, <1>3, L1Assumption DEF ListBounds
<1>6. EmptyAfterDrain' /\ NoLateSkipYet' /\ OneLateSkipPerBurst'
  BY <1>1 DEF ControlInv, EmptyAfterDrain, NoLateSkipYet, OneLateSkipPerBurst
<1>7. Distribution'
  BY <1>1, L1Assumption DEF ControlInv, Distribution, Hdrs
<1>8. MRPSize'
  BY <1>1 DEF ControlInv, MRPSize, Hdrs
<1> QED BY <1>4, <1>5, <1>6, <1>7, <1>8 DEF ControlInv

\* One more destination gets the MRP.
LEMMA SendControl ==
  ASSUME ControlInv, SendFrame
  PROVE  ControlInv'
<1>1. /\ UNCHANGED <<workerState, workerBurst, flushBurst, burst,
                     multicastMRPQueue, requestBurst, multicastRequests, buff,
                     L1TriggersSent, L1MRPsSent, skipped, drained>>
      /\ pc = "send" /\ pc' = "send"
      /\ nextHdr \in Hdrs /\ nextHdr' = nextHdr + 1
  BY DEF SendFrame, workerVars, burstVars, counters
<1>2. /\ sent \in [Hdrs -> Seq(Seq(Nat))] /\ buff \in Seq(Nat)
      /\ Len(buff) \in 1..MAX_TRIGGERS_PER_L1MRP
  BY <1>1 DEF ControlInv, TypeOK, ListBounds
<1>3. sent' = [sent EXCEPT ![nextHdr] = Append(sent[nextHdr], buff)]
  BY DEF SendFrame
<1>4. Append(sent[nextHdr], buff) \in Seq(Seq(Nat))
  BY <1>1, <1>2, AppendFacts
<1>5. asyncSendData' \in Seq(Frames) /\ Len(asyncSendData') <= QueueCapacity
  <2>1. MRPFrame(nextHdr) \in Frames
    <3>1. FrameLength(Len(buff)) \in Nat
      BY <1>2 DEF FrameLength
    <3> QED BY <1>1, <1>2, <3>1 DEF MRPFrame, Frames
  <2>2. asyncSendData' = Append(asyncSendData, MRPFrame(nextHdr))
        /\ Len(asyncSendData) < QueueCapacity
    BY DEF SendFrame, SendQueueHasRoom
  <2> QED BY <2>1, <2>2, AppendFacts, L1Assumption DEF ControlInv, TypeOK
<1>6. TypeOK'
  <2>1. sent' \in [Hdrs -> Seq(Seq(Nat))]
    BY <1>2, <1>3, <1>4
  <2>2. nextHdr' \in Nat
    BY <1>1 DEF ControlInv, TypeOK
  <2> QED BY <1>1, <1>5, <2>1, <2>2 DEF ControlInv, TypeOK
<1>7. ListBounds' /\ EmptyAfterDrain' /\ NoLateSkipYet' /\ OneLateSkipPerBurst'
  BY <1>1
  DEF ControlInv, ListBounds, EmptyAfterDrain, NoLateSkipYet, OneLateSkipPerBurst
<1>8. Distribution'
  <2>1. nextHdr' \in 1..(NumUnicastHdrs + NumMulticastHdrs + 1)
    BY <1>1, L1Assumption DEF Hdrs
  <2>2. \A h \in Hdrs :
          h \in Nat /\ sent'[h] = IF h = nextHdr THEN Append(sent[h], buff) ELSE sent[h]
    BY <1>1, <1>2, <1>3, L1Assumption DEF Hdrs
  <2>3. ASSUME NEW h \in Hdrs, NEW k \in Hdrs
        PROVE  /\ (h < nextHdr + 1 <=> k < nextHdr + 1) => sent'[h] = sent'[k]
               /\ h < nextHdr + 1 /\ ~ (k < nextHdr + 1)
                    => sent'[h] = Append(sent'[k], buff)
    <3>1. h \in Nat /\ k \in Nat /\ nextHdr \in Nat
      BY <1>1, <2>2
    <3>2. /\ h < nextHdr + 1 <=> h < nextHdr \/ h = nextHdr
          /\ k < nextHdr + 1 <=> k < nextHdr \/ k = nextHdr
          /\ ~ (nextHdr < nextHdr)
      BY <3>1
    <3>3. \A g, l \in Hdrs :
            /\ (g < nextHdr <=> l < nextHdr) => sent[g] = sent[l]
            /\ g < nextHdr /\ ~ (l < nextHdr) => sent[g] = Append(sent[l], buff)
      BY <1>1 DEF ControlInv, Distribution
    <3>4. CASE h = nextHdr /\ k = nextHdr
      BY <2>2, <3>2, <3>4
    <3>5. CASE h # nextHdr /\ k # nextHdr
      BY <2>2, <3>2, <3>3, <3>5
    <3>6. CASE h = nextHdr /\ k # nextHdr
      BY <1>1, <2>2, <3>2, <3>3, <3>6
    <3>7. CASE h # nextHdr /\ k = nextHdr
      BY <1>1, <2>2, <3>2, <3>3, <3>7
    <3> QED BY <3>4, <3>5, <3>6, <3>7
  <2> QED BY <1>1, <2>1, <2>3 DEF Distribution
<1>9. MRPSize'
  <2> SUFFICES ASSUME NEW h \in Hdrs, NEW i \in DOMAIN sent'[h]
               PROVE  Len(sent'[h][i]) \in 1..MAX_TRIGGERS_PER_L1MRP
    BY DEF MRPSize, Hdrs
  <2>1. sent[h] \in Seq(Seq(Nat))
    BY <1>2
  <2>2. \A j \in DOMAIN sent[h] : Len(sent[h][j]) \in 1..MAX_TRIGGERS_PER_L1MRP
    BY DEF ControlInv, MRPSize
  <2>3. CASE h = nextHdr
    <3>1. sent'[h] = Append(sent[h], buff)
      BY <1>1, <1>2, <1>3, <2>3
    <3>2. \/ i \in DOMAIN sent[h] /\ sent'[h][i] = sent[h][i]
          \/ sent'[h][i] = buff
      BY <1>2, <2>1, <3>1, AppendFacts
    <3> QED BY <1>2, <2>2, <3>2
  <2>4. CASE h # nextHdr
    BY <1>2, <1>3, <2>2, <2>4
  <2> QED BY <2>3, <2>4
<1> QED BY <1>6, <1>7, <1>8, <1>9 DEF ControlInv

\* When both loops are done every destination has the MRP.
LEMMA FinishControl ==
  ASSUME ControlInv, FinishMRP
  PROVE  ControlInv'
<1>1. /\ UNCHANGED <<workerState, workerBurst, flushBurst, burst,
                     multicastMRPQueue, requestBurst, multicastRequests, nextHdr,
                     asyncSendData, sent, skipped, drained>>
      /\ pc = "send" /\ pc' = "collect" /\ nextHdr \notin Hdrs /\ buff' = <<>>
  BY DEF FinishMRP, workerVars, burstVars
<1>2. L1TriggersSent' \in Nat /\ L1MRPsSent' \in Nat
  BY DEF ControlInv, TypeOK, FinishMRP, TriggersCounted
<1>3. TypeOK'
  BY <1>1, <1>2, EmptySeq DEF ControlInv, TypeOK, PCs
<1>4. ListBounds' /\ EmptyAfterDrain' /\ NoLateSkipYet' /\ OneLateSkipPerBurst'
  BY <1>1
  DEF ControlInv, ListBounds, EmptyAfterDrain, NoLateSkipYet, OneLateSkipPerBurst
<1>5. Distribution'
  <2>1. \A h \in Hdrs : h < nextHdr
    BY <1>1, L1Assumption DEF ControlInv, Distribution, Hdrs
  <2> QED BY <1>1, <2>1 DEF ControlInv, Distribution, Hdrs
<1>6. MRPSize'
  BY <1>1 DEF ControlInv, MRPSize, Hdrs
<1> QED BY <1>3, <1>4, <1>5, <1>6 DEF ControlInv

\* The others who use the send queue.
LEMMA EnvironmentControl ==
  ASSUME ControlInv, TakeFrame \/ OtherFrame
  PROVE  ControlInv'
<1>1. UNCHANGED <<workerState, workerBurst, flushBurst, burst, multicastMRPQueue,
                  requestBurst, pc, multicastRequests, buff, nextHdr, sent,
                  L1TriggersSent, L1MRPsSent, skipped, drained>>
  BY DEF TakeFrame, OtherFrame, workerVars, burstVars, counters
<1>2. asyncSendData' \in Seq(Frames) /\ Len(asyncSendData') <= QueueCapacity
  <2>1. CASE TakeFrame
    BY <2>1, TailFacts, L1Assumption DEF ControlInv, TypeOK, TakeFrame
  <2>2. CASE OtherFrame
    <3>1. PICK f \in OtherFrames : asyncSendData' = Append(asyncSendData, f)
      BY <2>2 DEF OtherFrame
    <3>2. f \in Frames
      BY DEF Frames
    <3> QED
      BY <2>2, <3>1, <3>2, AppendFacts, L1Assumption
      DEF ControlInv, TypeOK, OtherFrame
  <2> QED BY <2>1, <2>2
<1>3. TypeOK'
  BY <1>1, <1>2 DEF ControlInv, TypeOK
<1>4. ListBounds' /\ EmptyAfterDrain' /\ NoLateSkipYet' /\ OneLateSkipPerBurst'
  BY <1>1
  DEF ControlInv, ListBounds, EmptyAfterDrain, NoLateSkipYet, OneLateSkipPerBurst
<1>5. Distribution' /\ MRPSize'
  BY <1>1 DEF ControlInv, Distribution, MRPSize, Hdrs
<1> QED BY <1>3, <1>4, <1>5 DEF ControlInv

\* Every step preserves the inductive invariant.
LEMMA NextControl == ControlInv /\ [Next]_vars => ControlInv'
<1> SUFFICES ASSUME ControlInv, [Next]_vars PROVE ControlInv'
  OBVIOUS
<1>1. CASE StartFlush \/ EndFlush
  BY <1>1, BurstControl
<1>2. CASE \E w \in Workers : CheckFlush(w) \/ PushRequest(w)
  BY <1>2, WorkerControl
<1>3. CASE Distribute
  BY <1>3, BranchControl, DrainControl, PopControl, PackControl, SendControl,
     FinishControl
  DEF Distribute
<1>4. CASE TakeFrame \/ OtherFrame
  BY <1>4, EnvironmentControl
<1>5. CASE UNCHANGED vars
  BY <1>5
  DEF vars, workerVars, burstVars, mrpVars, counters, ControlInv, TypeOK,
      ListBounds, EmptyAfterDrain, NoLateSkipYet, OneLateSkipPerBurst,
      Distribution, MRPSize, Hdrs
<1> QED BY <1>1, <1>2, <1>3, <1>4, <1>5 DEF Next

\* The inductive invariant holds in every state the program can reach.
THEOREM ControlInvariance == Spec => []ControlInv
BY InitControl, NextControl, PTL DEF Spec

\* The variables of L1DistributionHandler and of its thread keep their types.
THEOREM TypeCorrect == Spec => []TypeOK
BY ControlInvariance, PTL DEF ControlInv

\* No MRP is empty or longer than its buffer.
THEOREM MRPSizeCorrect == Spec => []MRPSize
BY ControlInvariance, PTL DEF ControlInv

\* The race between flushBurst() and try_pop in thread() deletes at most one
\* request of each new burst.
THEOREM LateSkipBounded == Spec => []OneLateSkipPerBurst
BY ControlInvariance, PTL DEF ControlInv

\* thread() waits with collected requests only after this pass of its loop deleted
\* the newest request as flushed.
THEOREM WaitsJustified == Spec => []WaitsOnlyAfterDrain
<1>1. ControlInv => WaitsOnlyAfterDrain
  BY DEF ControlInv, EmptyAfterDrain, WaitsOnlyAfterDrain
<1> QED BY <1>1, ControlInvariance, PTL

\* All destinations get the same MRPs.
THEOREM AllDestinationsAgree == Spec => []DestinationsAgree
<1>1. ControlInv => DestinationsAgree
  <2> SUFFICES ASSUME ControlInv, NEW h \in Hdrs, NEW k \in Hdrs
               PROVE  /\ pc # "send" => sent[h] = sent[k]
                      /\ h <= k => \/ sent[h] = sent[k]
                                   \/ sent[h] = Append(sent[k], buff)
    BY DEF DestinationsAgree
  <2>1. h \in Nat /\ k \in Nat /\ nextHdr \in Nat
    BY L1Assumption DEF Hdrs, ControlInv, TypeOK
  <2> QED BY <2>1 DEF ControlInv, Distribution
<1> QED BY <1>1, ControlInvariance, PTL

-----------------------------------------------------------------------------
(***************************************************************************)
(* The requests themselves: none is lost, none is sent twice, their order. *)
(***************************************************************************)

\* Pushing a request adds it to the elements of a queue or list, popping
\* removes the first one.
LEMMA AppendElements ==
  ASSUME NEW S, NEW s \in Seq(S), NEW e \in S
  PROVE  Elements(Append(s, e)) = Elements(s) \cup {e}
BY AppendFacts DEF Elements

\* try_pop takes one element from a queue: the head, and what stays behind, are
\* all there was.
LEMMA TailElements ==
  ASSUME NEW S, NEW s \in Seq(S), s # <<>>
  PROVE  Elements(s) = {Head(s)} \cup Elements(Tail(s))
<1>1. ASSUME NEW i \in DOMAIN s
      PROVE  s[i] \in {Head(s)} \cup Elements(Tail(s))
  <2>1. CASE i = 1
    BY <2>1, TailFacts
  <2>2. CASE i # 1
    BY <1>1, <2>2, TailFacts DEF Elements
  <2> QED BY <2>1, <2>2
<1> QED BY <1>1, TailFacts DEF Elements

\* A queue of growing numbers stays one when a larger number is pushed.
LEMMA AppendIncreasing ==
  ASSUME NEW s \in Seq(Nat), NEW e \in Nat, Increasing(s),
         \A x \in Elements(s) : x < e
  PROVE  Increasing(Append(s, e))
<1> SUFFICES ASSUME NEW i \in DOMAIN Append(s, e), NEW j \in DOMAIN Append(s, e), i < j
             PROVE  Append(s, e)[i] < Append(s, e)[j]
  BY DEF Increasing
<1>1. i \in DOMAIN s /\ Append(s, e)[i] = s[i]
  BY AppendFacts
<1>2. CASE j \in DOMAIN s
  BY <1>1, <1>2, AppendFacts DEF Increasing
<1>3. CASE j \notin DOMAIN s
  BY <1>1, <1>3, AppendFacts DEF Elements
<1> QED BY <1>2, <1>3

\* Its first number is smaller than all others, which keep growing.
LEMMA TailIncreasing ==
  ASSUME NEW s \in Seq(Nat), s # <<>>, Increasing(s)
  PROVE  /\ Increasing(Tail(s))
         /\ \A x \in Elements(Tail(s)) : Head(s) < x
<1>1. ASSUME NEW i \in DOMAIN Tail(s)
      PROVE  i \in Nat /\ i + 1 \in DOMAIN s /\ 1 \in DOMAIN s /\ 1 < i + 1
             /\ Tail(s)[i] = s[i + 1] /\ Head(s) = s[1]
  BY <1>1, TailFacts
<1>2. Increasing(Tail(s))
  BY <1>1 DEF Increasing
<1>3. \A x \in Elements(Tail(s)) : Head(s) < x
  BY <1>1 DEF Increasing, Elements
<1> QED BY <1>2, <1>3

\* The requests that wait are in the order of their pushes: first the
\* collected ones, then the queue, and what was deleted came before the queue.
WaitingOrder ==
  /\ Increasing(multicastMRPQueue)
  /\ Increasing(multicastRequests)
  /\ Precede(Elements(multicastRequests), Elements(multicastMRPQueue))
  /\ Precede(SkippedRequests, Elements(multicastMRPQueue))
  /\ Waiting \cup SkippedRequests \subseteq Requests

\* The MRP being sent has its triggers in reverse order.
BuffOrder == pc = "send" => Decreasing(buff)

\* What destination h got, is about to get, and will get later.
DestinationOrder(h) ==
  /\ Requests = SkippedRequests \cup SentTo(h) \cup BeingSent(h) \cup Waiting
  /\ Precede(SentTo(h), BeingSent(h) \cup Waiting)
  /\ Precede(BeingSent(h), Waiting)
  /\ \A i \in DOMAIN sent[h] : Decreasing(sent[h][i])
  /\ \A i, j \in DOMAIN sent[h] :
       i < j => Precede(Elements(sent[h][i]), Elements(sent[h][j]))

RequestInv ==
  /\ WaitingOrder
  /\ BuffOrder
  /\ \A h \in Hdrs : DestinationOrder(h)

\* Steps that leave the requests where they are.
LEMMA RequestsUnmoved ==
  ASSUME RequestInv, BuffOrder',
         \A h \in Hdrs : BeingSent(h)' = BeingSent(h),
         UNCHANGED <<multicastMRPQueue, multicastRequests, requestBurst, sent,
                     skipped>>
  PROVE  RequestInv'
<1>1. WaitingOrder'
  BY DEF RequestInv, WaitingOrder, Precede, Increasing, Elements, SkippedRequests,
         Waiting, Requests
<1>2. ASSUME NEW h \in Hdrs
      PROVE  DestinationOrder(h)'
  <2>1. /\ Requests' = Requests /\ SkippedRequests' = SkippedRequests
        /\ SentTo(h)' = SentTo(h) /\ BeingSent(h)' = BeingSent(h)
        /\ Waiting' = Waiting
    BY DEF Requests, SkippedRequests, SentTo, Waiting, Elements
  <2>2. sent' = sent /\ DestinationOrder(h)
    BY DEF RequestInv
  <2> QED BY <2>1, <2>2 DEF DestinationOrder, Precede, Decreasing, Elements
<1> QED BY <1>1, <1>2 DEF RequestInv, Hdrs

\* Initialize leaves the queue and the list empty.
LEMMA InitRequests == Init => RequestInv
<1> SUFFICES ASSUME Init PROVE RequestInv
  OBVIOUS
<1>1. /\ Elements(<<>>) = {} /\ Increasing(<<>>) /\ DOMAIN <<>> = {}
  BY DEF Elements, Increasing
<1>2. /\ Requests = {} /\ Waiting = {} /\ SkippedRequests = {}
  BY <1>1, EmptySeq DEF Init, Requests, Waiting, SkippedRequests
<1>3. WaitingOrder /\ BuffOrder
  BY <1>1, <1>2 DEF Init, WaitingOrder, BuffOrder, Precede
<1>4. ASSUME NEW h \in Hdrs
      PROVE  DestinationOrder(h)
  <2>1. sent[h] = <<>> /\ SentTo(h) = {} /\ BeingSent(h) = {}
    BY <1>1 DEF Init, SentTo, BeingSent
  <2> QED BY <1>1, <1>2, <2>1 DEF DestinationOrder, Precede
<1> QED BY <1>3, <1>4 DEF RequestInv

\* A pushed request gets the next number and joins the queue.
LEMMA PushEffect ==
  ASSUME ControlInv, NEW w \in Workers, PushRequest(w)
  PROVE  /\ UNCHANGED <<pc, multicastRequests, buff, nextHdr, sent, skipped>>
         /\ multicastMRPQueue \in Seq(Nat)
         /\ multicastMRPQueue' = Append(multicastMRPQueue, Len(requestBurst) + 1)
         /\ Elements(multicastMRPQueue')
              = Elements(multicastMRPQueue) \cup {Len(requestBurst) + 1}
         /\ Len(requestBurst) \in Nat
         /\ Len(requestBurst') = Len(requestBurst) + 1
         /\ Waiting' = Waiting \cup {Len(requestBurst) + 1}
         /\ SkippedRequests' = SkippedRequests
<1>1. /\ UNCHANGED <<pc, multicastRequests, buff, nextHdr, sent, skipped>>
      /\ multicastMRPQueue' = Append(multicastMRPQueue, Len(requestBurst) + 1)
      /\ requestBurst' = Append(requestBurst, workerBurst[w])
  BY DEF PushRequest, mrpVars
<1>2. /\ multicastMRPQueue \in Seq(Nat) /\ requestBurst \in Seq(Nat)
      /\ workerBurst[w] \in Nat /\ Len(requestBurst) \in Nat
      /\ Len(requestBurst) + 1 \in Nat
  BY DEF ControlInv, TypeOK
<1>3. /\ Elements(multicastMRPQueue')
           = Elements(multicastMRPQueue) \cup {Len(requestBurst) + 1}
      /\ Len(requestBurst') = Len(requestBurst) + 1
  BY <1>1, <1>2, AppendElements, AppendFacts
<1>4. /\ Waiting' = Waiting \cup {Len(requestBurst) + 1}
      /\ SkippedRequests' = SkippedRequests
  BY <1>1, <1>3 DEF Waiting, SkippedRequests
<1> QED BY <1>1, <1>2, <1>3, <1>4

\* It waits behind all others.
LEMMA PushRequests ==
  ASSUME ControlInv, RequestInv, NEW w \in Workers, PushRequest(w)
  PROVE  RequestInv'
<1> DEFINE r == Len(requestBurst) + 1
<1>1. /\ UNCHANGED <<pc, multicastRequests, buff, nextHdr, sent, skipped>>
      /\ multicastMRPQueue' = Append(multicastMRPQueue, r)
  BY PushEffect
<1>2. /\ multicastMRPQueue \in Seq(Nat) /\ Len(requestBurst) \in Nat /\ r \in Nat
  BY PushEffect
<1>3. /\ Elements(multicastMRPQueue') = Elements(multicastMRPQueue) \cup {r}
      /\ Requests' = Requests \cup {r}
      /\ \A x \in Requests : x \in Nat /\ x < r
  BY PushEffect DEF Requests
<1>4. /\ Waiting' = Waiting \cup {r}
      /\ SkippedRequests' = SkippedRequests
  BY PushEffect
<1> HIDE DEF r
<1>5. \A x \in Waiting \cup SkippedRequests : x \in Nat /\ x < r
  BY <1>3 DEF RequestInv, WaitingOrder
<1>6. WaitingOrder'
  <2>1. Increasing(multicastMRPQueue')
    BY <1>1, <1>2, <1>5, AppendIncreasing DEF RequestInv, WaitingOrder, Waiting
  <2>2. Precede(Elements(multicastRequests'), Elements(multicastMRPQueue'))
    BY <1>1, <1>3, <1>5 DEF RequestInv, WaitingOrder, Waiting, Precede
  <2>3. Precede(SkippedRequests', Elements(multicastMRPQueue'))
    BY <1>3, <1>4, <1>5 DEF RequestInv, WaitingOrder, Precede
  <2> QED BY <1>1, <1>3, <1>4, <2>1, <2>2, <2>3 DEF RequestInv, WaitingOrder
<1>7. BuffOrder'
  BY <1>1 DEF RequestInv, BuffOrder
<1>8. ASSUME NEW h \in Hdrs
      PROVE  DestinationOrder(h)'
  <2>1. SentTo(h)' = SentTo(h) /\ BeingSent(h)' = BeingSent(h) /\ sent' = sent
    BY <1>1 DEF SentTo, BeingSent
  <2>2. DestinationOrder(h)
    BY DEF RequestInv
  <2>3. \A x \in SentTo(h) \cup BeingSent(h) : x < r
    BY <1>3, <2>2 DEF DestinationOrder
  <2> QED BY <1>3, <1>4, <2>1, <2>2, <2>3 DEF DestinationOrder, Precede
<1> QED BY <1>6, <1>7, <1>8 DEF RequestInv, Hdrs

\* A request that a flush deletes was the first in the queue.
LEMMA DrainEffect ==
  ASSUME ControlInv, RequestInv, Drain
  PROVE  /\ UNCHANGED <<requestBurst, multicastRequests, buff, nextHdr, sent>>
         /\ pc = "drain" /\ pc' = "flush"
         /\ SkippedRequests' = SkippedRequests \cup {Head(multicastMRPQueue)}
         /\ Elements(multicastMRPQueue)
              = {Head(multicastMRPQueue)} \cup Elements(multicastMRPQueue')
         /\ \A x \in Elements(multicastMRPQueue') : Head(multicastMRPQueue) < x
         /\ Increasing(multicastMRPQueue')
         /\ Waiting = Waiting' \cup {Head(multicastMRPQueue)}
<1> DEFINE r == Head(multicastMRPQueue)
<1>1. /\ UNCHANGED <<requestBurst, multicastRequests, buff, nextHdr, sent>>
      /\ pc = "drain" /\ pc' = "flush"
      /\ multicastMRPQueue # <<>>
      /\ multicastMRPQueue' = Tail(multicastMRPQueue)
  BY DEF Drain, AfterDrain, mrpVars
<1>2. multicastMRPQueue \in Seq(Nat)
  BY DEF ControlInv, TypeOK
<1>3. SkippedRequests' = SkippedRequests \cup {r}
  <2> DEFINE new == [request |-> r, burst |-> burst, flushing |-> flushBurst]
  <2>1. skipped' = skipped \cup {new}
    BY DEF Drain
  <2>2. new.request = r
    OBVIOUS
  <2> HIDE DEF new
  <2> QED BY <2>1, <2>2 DEF SkippedRequests
<1>4. /\ Elements(multicastMRPQueue) = {r} \cup Elements(multicastMRPQueue')
      /\ \A x \in Elements(multicastMRPQueue') : r < x
      /\ Increasing(multicastMRPQueue')
  BY <1>1, <1>2, TailElements, TailIncreasing DEF RequestInv, WaitingOrder
<1> HIDE DEF r
<1>5. Waiting = Waiting' \cup {r}
  BY <1>1, <1>4 DEF Waiting
<1> QED BY <1>1, <1>3, <1>4, <1>5 DEF r

\* Its deletion leaves the others in order.
LEMMA DrainRequests ==
  ASSUME ControlInv, RequestInv, Drain
  PROVE  RequestInv'
<1> DEFINE r == Head(multicastMRPQueue)
<1>1. /\ UNCHANGED <<requestBurst, multicastRequests, buff, nextHdr, sent>>
      /\ pc = "drain" /\ pc' = "flush"
  BY DrainEffect
<1>3. SkippedRequests' = SkippedRequests \cup {r}
  BY DrainEffect
<1>4. /\ Elements(multicastMRPQueue) = {r} \cup Elements(multicastMRPQueue')
      /\ \A x \in Elements(multicastMRPQueue') : r < x
      /\ Increasing(multicastMRPQueue')
  BY DrainEffect
<1>5. Waiting = Waiting' \cup {r} /\ Requests' = Requests
  BY DrainEffect DEF Requests
<1> HIDE DEF r
<1>6. WaitingOrder'
  BY <1>1, <1>3, <1>4, <1>5 DEF RequestInv, WaitingOrder, Precede
<1>7. BuffOrder'
  BY <1>1 DEF BuffOrder
<1>8. ASSUME NEW h \in Hdrs
      PROVE  DestinationOrder(h)'
  <2>1. SentTo(h)' = SentTo(h) /\ BeingSent(h)' = BeingSent(h) /\ sent' = sent
    BY <1>1 DEF SentTo, BeingSent
  <2>2. DestinationOrder(h)
    BY DEF RequestInv
  <2> QED BY <1>3, <1>5, <2>1, <2>2 DEF DestinationOrder, Precede
<1> QED BY <1>6, <1>7, <1>8 DEF RequestInv, Hdrs

\* A collected request goes from the front of the queue to the end of the list.
LEMMA PopEffect ==
  ASSUME ControlInv, RequestInv, PopRequest
  PROVE  /\ UNCHANGED <<requestBurst, buff, nextHdr, sent, skipped>>
         /\ pc = "pop" /\ pc' = "collect"
         /\ Increasing(multicastMRPQueue') /\ Increasing(multicastRequests')
         /\ Precede(Elements(multicastRequests'), Elements(multicastMRPQueue'))
         /\ Elements(multicastMRPQueue') \subseteq Elements(multicastMRPQueue)
         /\ Waiting' = Waiting
<1> DEFINE r == Head(multicastMRPQueue)
<1>1. /\ UNCHANGED <<requestBurst, buff, nextHdr, sent, skipped>>
      /\ pc = "pop" /\ pc' = "collect"
      /\ multicastMRPQueue # <<>>
      /\ multicastMRPQueue' = Tail(multicastMRPQueue)
      /\ multicastRequests' = Append(multicastRequests, r)
  BY DEF PopRequest, mrpVars
<1>2. multicastMRPQueue \in Seq(Nat) /\ multicastRequests \in Seq(Nat)
  BY DEF ControlInv, TypeOK
<1>3. /\ r \in Nat
      /\ Elements(multicastMRPQueue) = {r} \cup Elements(multicastMRPQueue')
      /\ \A x \in Elements(multicastMRPQueue') : r < x
      /\ Increasing(multicastMRPQueue')
  BY <1>1, <1>2, TailFacts, TailElements, TailIncreasing DEF RequestInv, WaitingOrder
<1> HIDE DEF r
<1>4. Elements(multicastRequests') = Elements(multicastRequests) \cup {r}
  BY <1>1, <1>2, <1>3, AppendElements
<1>5. Increasing(multicastRequests')
  BY <1>1, <1>2, <1>3, AppendIncreasing DEF RequestInv, WaitingOrder, Precede
<1>6. Waiting' = Waiting
  BY <1>3, <1>4 DEF Waiting
<1>7. Precede(Elements(multicastRequests'), Elements(multicastMRPQueue'))
  BY <1>3, <1>4 DEF RequestInv, WaitingOrder, Precede
<1> QED BY <1>1, <1>3, <1>5, <1>6, <1>7

\* It waits in the same place in the order.
LEMMA PopRequests ==
  ASSUME ControlInv, RequestInv, PopRequest
  PROVE  RequestInv'
<1>1. /\ UNCHANGED <<requestBurst, buff, nextHdr, sent, skipped>>
      /\ pc = "pop" /\ pc' = "collect"
  BY PopEffect
<1>2. Waiting' = Waiting /\ Requests' = Requests /\ SkippedRequests' = SkippedRequests
  BY <1>1, PopEffect DEF Requests, SkippedRequests
<1>3. WaitingOrder'
  BY <1>2, PopEffect DEF RequestInv, WaitingOrder, Precede
<1>4. BuffOrder'
  BY <1>1 DEF BuffOrder
<1>5. ASSUME NEW h \in Hdrs
      PROVE  DestinationOrder(h)'
  <2>1. SentTo(h)' = SentTo(h) /\ BeingSent(h)' = BeingSent(h) /\ sent' = sent
    BY <1>1 DEF SentTo, BeingSent
  <2>2. DestinationOrder(h)
    BY DEF RequestInv
  <2> QED BY <1>2, <2>1, <2>2 DEF DestinationOrder, Precede
<1> QED BY <1>3, <1>4, <1>5 DEF RequestInv, Hdrs

\* The MRP holds exactly the requests that were collected.
LEMMA PackElements ==
  ASSUME ControlInv, RequestInv, PackMRP
  PROVE  /\ Elements(buff') = Elements(multicastRequests)
         /\ Elements(multicastRequests') = {}
         /\ Decreasing(buff')
<1> DEFINE n == Len(multicastRequests)
<1>1. /\ n \in Nat /\ multicastRequests \in Seq(Nat)
      /\ DOMAIN multicastRequests = 1..n
      /\ Increasing(multicastRequests)
  BY DEF ControlInv, TypeOK, RequestInv, WaitingOrder
<1>2. /\ DOMAIN buff' = 1..n
      /\ \A i \in 1..n : buff'[i] = multicastRequests[n - i + 1]
      /\ multicastRequests' = <<>>
  BY PackFacts
<1> HIDE DEF n
<1>3. \A i \in 1..n : n - i + 1 \in 1..n /\ n - (n - i + 1) + 1 = i
  BY <1>1
<1>4. Elements(buff') = Elements(multicastRequests)
  <2>1. ASSUME NEW i \in 1..n
        PROVE  /\ buff'[i] \in Elements(multicastRequests)
               /\ multicastRequests[i] \in Elements(buff')
    <3> DEFINE j == n - i + 1
    <3>1. j \in 1..n /\ n - j + 1 = i
      BY <1>1
    <3> HIDE DEF j
    <3>2. buff'[i] = multicastRequests[j] /\ buff'[j] = multicastRequests[i]
      BY <1>2, <3>1 DEF j
    <3> QED BY <1>1, <1>2, <3>1, <3>2 DEF Elements
  <2> QED BY <1>1, <1>2, <2>1 DEF Elements
<1>5. Elements(multicastRequests') = {}
  BY <1>2 DEF Elements
<1>6. Decreasing(buff')
  <2> SUFFICES ASSUME NEW i \in 1..n, NEW j \in 1..n, i < j
               PROVE  buff'[i] > buff'[j]
    BY <1>2 DEF Decreasing
  <2>1. n - j + 1 < n - i + 1
    BY <1>1
  <2>2. multicastRequests[n - j + 1] < multicastRequests[n - i + 1]
    BY <1>1, <1>3, <2>1 DEF Increasing
  <2>3. multicastRequests[n - j + 1] \in Nat /\ multicastRequests[n - i + 1] \in Nat
    BY <1>1, <1>3
  <2> QED BY <1>2, <2>2, <2>3
<1> QED BY <1>4, <1>5, <1>6

\* Async_SendMRP: what was collected is now about to be sent everywhere.
LEMMA PackRequests ==
  ASSUME ControlInv, RequestInv, PackMRP
  PROVE  RequestInv'
<1>1. /\ UNCHANGED <<requestBurst, multicastMRPQueue, sent, skipped>>
      /\ pc = "pack" /\ pc' = "send" /\ nextHdr' = 1
  BY DEF PackMRP, FirstHdr
<1>2. /\ Waiting = Elements(buff') \cup Waiting'
      /\ Waiting' = Elements(multicastMRPQueue)
      /\ Requests' = Requests /\ SkippedRequests' = SkippedRequests
  BY <1>1, PackElements DEF Waiting, Requests, SkippedRequests
<1>3. WaitingOrder'
  <2>1. multicastRequests' = <<>> /\ Increasing(<<>>)
    BY PackFacts DEF Increasing
  <2> QED
    BY <1>1, <1>2, <2>1, PackElements DEF RequestInv, WaitingOrder, Precede
<1>4. BuffOrder'
  BY PackElements DEF BuffOrder
<1>5. ASSUME NEW h \in Hdrs
      PROVE  DestinationOrder(h)'
  <2>1. 1 <= h
    BY L1Assumption DEF Hdrs
  <2>2. /\ SentTo(h)' = SentTo(h) /\ sent' = sent
        /\ BeingSent(h) = {} /\ BeingSent(h)' = Elements(buff')
    BY <1>1, <2>1 DEF SentTo, BeingSent
  <2>3. DestinationOrder(h)
    BY DEF RequestInv
  <2>4. Precede(Elements(buff'), Waiting')
    BY <1>2, PackElements DEF RequestInv, WaitingOrder
  <2> QED BY <1>2, <2>2, <2>3, <2>4 DEF DestinationOrder, Precede
<1> QED BY <1>3, <1>4, <1>5 DEF RequestInv, Hdrs

\* One destination gets the MRP, the others wait for it or have it.
LEMMA SendRequests ==
  ASSUME ControlInv, RequestInv, SendFrame
  PROVE  RequestInv'
<1>1. /\ UNCHANGED <<requestBurst, multicastMRPQueue, multicastRequests, skipped, buff>>
      /\ pc = "send" /\ pc' = "send"
      /\ nextHdr \in Hdrs /\ nextHdr' = nextHdr + 1
      /\ sent' = [sent EXCEPT ![nextHdr] = Append(sent[nextHdr], buff)]
  BY DEF SendFrame
<1>2. sent \in [Hdrs -> Seq(Seq(Nat))] /\ buff \in Seq(Nat)
  BY DEF ControlInv, TypeOK
<1>3. Waiting' = Waiting /\ Requests' = Requests /\ SkippedRequests' = SkippedRequests
  BY <1>1 DEF Waiting, Requests, SkippedRequests
<1>4. WaitingOrder' /\ BuffOrder'
  BY <1>1, <1>3 DEF RequestInv, WaitingOrder, BuffOrder
<1>5. ASSUME NEW h \in Hdrs, h # nextHdr
      PROVE  DestinationOrder(h)'
  <2>1. nextHdr \in Nat /\ h \in Nat
    BY <1>1, L1Assumption DEF Hdrs
  <2>2. nextHdr <= h <=> nextHdr + 1 <= h
    BY <1>5, <2>1
  <2>3. sent'[h] = sent[h]
    BY <1>1, <1>2, <1>5
  <2>4. SentTo(h)' = SentTo(h) /\ BeingSent(h)' = BeingSent(h)
    BY <1>1, <2>2, <2>3 DEF SentTo, BeingSent
  <2>5. DestinationOrder(h)
    BY DEF RequestInv
  <2> QED BY <1>3, <2>3, <2>4, <2>5 DEF DestinationOrder
<1>6. ASSUME NEW h \in Hdrs, h = nextHdr
      PROVE  DestinationOrder(h)'
  <2>1. ~ (nextHdr + 1 <= nextHdr) /\ nextHdr <= nextHdr
    BY <1>1, L1Assumption DEF Hdrs
  <2>2. BeingSent(h) = Elements(buff) /\ BeingSent(h)' = {}
    BY <1>1, <1>6, <2>1 DEF BeingSent
  <2>3. sent[h] \in Seq(Seq(Nat)) /\ sent'[h] = Append(sent[h], buff)
    BY <1>1, <1>2, <1>6
  <2>4. /\ \A i \in DOMAIN sent'[h] :
             \/ i \in DOMAIN sent[h] /\ sent'[h][i] = sent[h][i]
             \/ i = Len(sent[h]) + 1 /\ sent'[h][i] = buff
        /\ \A i \in DOMAIN sent[h] :
             i \in DOMAIN sent'[h] /\ sent'[h][i] = sent[h][i] /\ i < Len(sent[h]) + 1
        /\ Len(sent[h]) + 1 \in DOMAIN sent'[h]
        /\ sent'[h][Len(sent[h]) + 1] = buff
    BY <1>2, <2>3, AppendFacts
  <2>5. SentTo(h)' = SentTo(h) \cup Elements(buff)
    <3>1. \A x \in SentTo(h)' : x \in SentTo(h) \cup Elements(buff)
      BY <2>4 DEF SentTo
    <3>2. \A x \in SentTo(h) \cup Elements(buff) : x \in SentTo(h)'
      BY <2>4 DEF SentTo
    <3> QED BY <3>1, <3>2
  <2>6. DestinationOrder(h)
    BY DEF RequestInv
  <2>7. /\ Requests' = SkippedRequests' \cup SentTo(h)' \cup BeingSent(h)' \cup Waiting'
        /\ Precede(SentTo(h)', BeingSent(h)' \cup Waiting')
        /\ Precede(BeingSent(h)', Waiting')
    BY <1>3, <2>2, <2>5, <2>6 DEF DestinationOrder, Precede
  <2>8. \A i \in DOMAIN sent'[h] : Decreasing(sent'[h][i])
    BY <1>1, <2>4, <2>6 DEF DestinationOrder, RequestInv, BuffOrder
  <2>9. ASSUME NEW i \in DOMAIN sent'[h], NEW j \in DOMAIN sent'[h], i < j
        PROVE  Precede(Elements(sent'[h][i]), Elements(sent'[h][j]))
    <3>1. i \in DOMAIN sent[h] /\ sent'[h][i] = sent[h][i]
      BY <2>3, <2>4, <2>9
    <3>2. CASE j \in DOMAIN sent[h] /\ sent'[h][j] = sent[h][j]
      BY <2>6, <2>9, <3>1, <3>2 DEF DestinationOrder
    <3>3. CASE sent'[h][j] = buff
      <4>1. Elements(sent[h][i]) \subseteq SentTo(h)
        BY <3>1 DEF SentTo
      <4> QED BY <2>2, <2>6, <3>1, <3>3, <4>1 DEF DestinationOrder, Precede
    <3> QED BY <2>4, <3>2, <3>3
  <2> QED BY <2>7, <2>8, <2>9 DEF DestinationOrder
<1> QED BY <1>4, <1>5, <1>6 DEF RequestInv, Hdrs

\* Every step keeps the order of the requests and loses none.
LEMMA NextRequests == ControlInv /\ RequestInv /\ [Next]_vars => RequestInv'
<1> SUFFICES ASSUME ControlInv, RequestInv, [Next]_vars PROVE RequestInv'
  OBVIOUS
<1>1. ASSUME UNCHANGED <<multicastMRPQueue, multicastRequests, requestBurst, sent,
                         skipped>>,
             \/ UNCHANGED <<pc, buff, nextHdr>>
             \/ pc # "send" /\ pc' # "send"
             \/ pc = "send" /\ pc' # "send" /\ \A h \in Hdrs : ~ (nextHdr <= h)
      PROVE  RequestInv'
  <2>1. BuffOrder'
    BY <1>1 DEF RequestInv, BuffOrder
  <2>2. \A h \in Hdrs : BeingSent(h)' = BeingSent(h)
    BY <1>1 DEF BeingSent
  <2> QED BY <1>1, <2>1, <2>2, RequestsUnmoved
<1>2. CASE StartFlush \/ EndFlush \/ TakeFrame \/ OtherFrame \/ UNCHANGED vars
  BY <1>1, <1>2 DEF StartFlush, EndFlush, TakeFrame, OtherFrame, vars, mrpVars
<1>3. ASSUME NEW w \in Workers, CheckFlush(w)
      PROVE  RequestInv'
  BY <1>1, <1>3 DEF CheckFlush, mrpVars
<1>4. CASE Collect \/ ReadFlush \/ DrainEmpty \/ Decide
  BY <1>1, <1>4 DEF Collect, ReadFlush, DrainEmpty, Decide, mrpVars
<1>5. CASE FinishMRP
  <2>1. \A h \in Hdrs : ~ (nextHdr <= h)
    BY <1>5, L1Assumption DEF ControlInv, Distribution, FinishMRP, Hdrs
  <2> QED BY <1>1, <1>5, <2>1 DEF FinishMRP
<1> QED
  BY <1>2, <1>3, <1>4, <1>5, PushRequests, DrainRequests, PopRequests,
     PackRequests, SendRequests
  DEF Next, Distribute

\* The order of the requests is an invariant of the program.
THEOREM RequestInvariance == Spec => []RequestInv
BY InitRequests, NextRequests, ControlInvariance, PTL DEF Spec

\* No request gets lost between Async_RequestL1DataMulticast and the send queue.
THEOREM NothingLost == Spec => []NoRequestLost
<1>1. RequestInv => NoRequestLost
  BY DEF RequestInv, DestinationOrder, NoRequestLost
<1> QED BY <1>1, RequestInvariance, PTL

\* Every destination gets each request at most once, MRP by MRP in the order of
\* the pushes and reversed within an MRP.
THEOREM RequestsInOrder == Spec => []RequestOrder
<1>1. RequestInv => RequestOrder
  BY DEF RequestInv, WaitingOrder, DestinationOrder, RequestOrder
<1> QED BY <1>1, RequestInvariance, PTL

-----------------------------------------------------------------------------
(***************************************************************************)
(* The statistics.                                                         *)
(***************************************************************************)

\* The triggers of the MRP being sent.
TriggersBeingSent == IF pc = "send" THEN Len(buff) ELSE 0

\* Where the requests are: L1TriggersSent and the deletions count the ones
\* that left, the list, the queue and the MRP hold the rest.
TriggersCount ==
  L1TriggersSent + Cardinality(skipped) + Len(multicastRequests)
    + Len(multicastMRPQueue) + TriggersBeingSent = Len(requestBurst)

\* A destination that has the MRP being sent is one ahead of L1MRPsSent.
MRPsCount ==
  \A h \in Hdrs :
    Len(sent[h]) = IF pc = "send" /\ h < nextHdr THEN L1MRPsSent + 1 ELSE L1MRPsSent

CountersInv ==
  /\ IsFiniteSet(skipped)
  /\ TriggersCount
  /\ MRPsCount

\* All counters and lengths are natural numbers.
LEMMA CountersNat ==
  ASSUME ControlInv, IsFiniteSet(skipped)
  PROVE  /\ L1TriggersSent \in Nat /\ L1MRPsSent \in Nat
         /\ Cardinality(skipped) \in Nat
         /\ Len(multicastRequests) \in Nat /\ Len(multicastMRPQueue) \in Nat
         /\ Len(buff) \in Nat /\ Len(requestBurst) \in Nat
         /\ TriggersBeingSent \in Nat
BY FS_CardinalityType DEF ControlInv, TypeOK, TriggersBeingSent

\* A deleted request is counted once: it had not been deleted before.
LEMMA DrainCounters ==
  ASSUME ControlInv, RequestInv, CountersInv, Drain
  PROVE  CountersInv'
<1> DEFINE new == [request |-> Head(multicastMRPQueue), burst |-> burst,
                   flushing |-> flushBurst]
<1>1. /\ skipped' = skipped \cup {new}
      /\ multicastMRPQueue # <<>> /\ multicastMRPQueue' = Tail(multicastMRPQueue)
      /\ UNCHANGED <<requestBurst, multicastRequests, buff, nextHdr, sent,
                     L1TriggersSent, L1MRPsSent>>
      /\ pc = "drain" /\ pc' = "flush"
  BY DEF Drain, AfterDrain, mrpVars, counters
<1>2. new \notin skipped
  <2>1. multicastMRPQueue \in Seq(Nat)
    BY DEF ControlInv, TypeOK
  <2>2. /\ Head(multicastMRPQueue) \in Elements(multicastMRPQueue)
        /\ ~ (Head(multicastMRPQueue) < Head(multicastMRPQueue))
    BY <1>1, <2>1, TailFacts, TailElements
  <2>3. Head(multicastMRPQueue) \notin SkippedRequests
    BY <2>2 DEF RequestInv, WaitingOrder, Precede
  <2>4. new.request = Head(multicastMRPQueue)
    OBVIOUS
  <2> HIDE DEF new
  <2> QED BY <2>3, <2>4 DEF SkippedRequests
<1> HIDE DEF new
<1>3. IsFiniteSet(skipped') /\ Cardinality(skipped') = Cardinality(skipped) + 1
  BY <1>1, <1>2, FS_AddElement DEF CountersInv
<1>4. Len(multicastMRPQueue') = Len(multicastMRPQueue) - 1
  BY <1>1, TailFacts DEF ControlInv, TypeOK
<1>5. TriggersCount'
  BY SMTT(30), <1>1, <1>3, <1>4, CountersNat DEF CountersInv, TriggersCount, TriggersBeingSent
<1>6. MRPsCount'
  BY <1>1 DEF CountersInv, MRPsCount, Hdrs
<1> QED BY <1>3, <1>5, <1>6 DEF CountersInv

\* A request that moves on is counted in its new place.
LEMMA MoveCounters ==
  ASSUME ControlInv, CountersInv,
         PopRequest \/ \E w \in Workers : PushRequest(w)
  PROVE  CountersInv'
<1>1. /\ UNCHANGED <<buff, nextHdr, sent, skipped, L1TriggersSent, L1MRPsSent>>
      /\ pc' = pc \/ (pc # "send" /\ pc' # "send")
  BY DEF PopRequest, PushRequest, mrpVars, counters
<1> DEFINE Balanced ==
             /\ Len(multicastRequests') + Len(multicastMRPQueue') + Len(requestBurst)
                  = Len(multicastRequests) + Len(multicastMRPQueue) + Len(requestBurst')
             /\ Len(multicastRequests') \in Nat /\ Len(multicastMRPQueue') \in Nat
             /\ Len(requestBurst') \in Nat
<1>2. Balanced
  <2>1. /\ multicastMRPQueue \in Seq(Nat) /\ multicastRequests \in Seq(Nat)
        /\ requestBurst \in Seq(Nat) /\ workerBurst \in [Workers -> Nat]
        /\ Len(requestBurst) \in Nat /\ Len(multicastRequests) \in Nat
        /\ Len(multicastMRPQueue) \in Nat
    BY DEF ControlInv, TypeOK
  <2>2. CASE PopRequest
    <3>1. /\ Head(multicastMRPQueue) \in Nat
          /\ Len(Tail(multicastMRPQueue)) = Len(multicastMRPQueue) - 1
          /\ Len(Tail(multicastMRPQueue)) \in Nat
      BY <2>1, <2>2, TailFacts DEF PopRequest
    <3>2. Len(Append(multicastRequests, Head(multicastMRPQueue)))
            = Len(multicastRequests) + 1
      BY <2>1, <3>1, AppendFacts
    <3> QED BY <2>1, <2>2, <3>1, <3>2 DEF PopRequest
  <2>3. ASSUME NEW w \in Workers, PushRequest(w)
        PROVE  Balanced
    <3>1. /\ Len(requestBurst') = Len(requestBurst) + 1
          /\ Len(multicastMRPQueue') = Len(multicastMRPQueue) + 1
          /\ multicastRequests' = multicastRequests
      BY <2>1, <2>3, AppendFacts DEF PushRequest
    <3> QED BY <2>1, <3>1
  <2> QED BY <2>2, <2>3
<1>3. TriggersCount'
  <2>1. /\ TriggersBeingSent' = TriggersBeingSent
        /\ L1TriggersSent' = L1TriggersSent /\ Cardinality(skipped)' = Cardinality(skipped)
    BY <1>1 DEF TriggersBeingSent
  <2>2. TriggersCount /\ IsFiniteSet(skipped)
    BY DEF CountersInv
  <2>3. /\ L1TriggersSent \in Nat /\ Cardinality(skipped) \in Nat
        /\ Len(multicastRequests) \in Nat /\ Len(multicastMRPQueue) \in Nat
        /\ Len(buff) \in Nat /\ Len(requestBurst) \in Nat
        /\ TriggersBeingSent \in Nat
    BY <2>2, CountersNat
  <2>4. /\ Len(multicastRequests') + Len(multicastMRPQueue') + Len(requestBurst)
             = Len(multicastRequests) + Len(multicastMRPQueue) + Len(requestBurst')
        /\ Len(multicastRequests') \in Nat /\ Len(multicastMRPQueue') \in Nat
        /\ Len(requestBurst') \in Nat
    BY <1>2
  <2>5. L1TriggersSent + Cardinality(skipped) + Len(multicastRequests')
          + Len(multicastMRPQueue') + TriggersBeingSent = Len(requestBurst')
    <3> DEFINE gone == L1TriggersSent + Cardinality(skipped)
    <3>1. gone \in Nat
      BY <2>3
    <3>2. gone + Len(multicastRequests) + Len(multicastMRPQueue) + TriggersBeingSent
            = Len(requestBurst)
      BY <2>2 DEF TriggersCount
    <3> HIDE DEF gone, Balanced
    <3>3. gone + Len(multicastRequests') + Len(multicastMRPQueue') + TriggersBeingSent
            = Len(requestBurst')
      BY <2>3, <2>4, <3>1, <3>2
    <3> QED BY <3>3 DEF gone
  <2> QED BY <2>1, <2>5 DEF TriggersCount
<1>4. MRPsCount'
  BY <1>1 DEF CountersInv, MRPsCount, Hdrs
<1> QED BY <1>1, <1>3, <1>4 DEF CountersInv

\* Packing, sending and finishing an MRP.
LEMMA MRPCounters ==
  ASSUME ControlInv, CountersInv, PackMRP \/ SendFrame \/ FinishMRP
  PROVE  CountersInv'
<1>1. UNCHANGED <<skipped, multicastMRPQueue, requestBurst>>
  BY DEF PackMRP, SendFrame, FinishMRP
<1>2. nextHdr \in Nat /\ \A h \in Hdrs : h \in Nat /\ 1 <= h
  BY L1Assumption DEF Hdrs, ControlInv, TypeOK
<1>3. CASE PackMRP
  <2>1. /\ Len(buff') = Len(multicastRequests) /\ Len(multicastRequests') = 0
    BY <1>3, PackFacts
  <2>2. /\ pc = "pack" /\ pc' = "send" /\ nextHdr' = 1
        /\ UNCHANGED <<sent, L1TriggersSent, L1MRPsSent>>
    BY <1>3 DEF PackMRP, FirstHdr, counters
  <2>3. TriggersCount'
    BY <1>1, <2>1, <2>2, CountersNat DEF CountersInv, TriggersCount, TriggersBeingSent
  <2>4. MRPsCount'
    BY <1>2, <2>2 DEF CountersInv, MRPsCount, Hdrs
  <2> QED BY <1>1, <2>3, <2>4 DEF CountersInv
<1>4. CASE SendFrame
  <2>1. /\ UNCHANGED <<multicastRequests, buff, L1TriggersSent, L1MRPsSent>>
        /\ pc = "send" /\ pc' = "send" /\ nextHdr \in Hdrs /\ nextHdr' = nextHdr + 1
        /\ sent' = [sent EXCEPT ![nextHdr] = Append(sent[nextHdr], buff)]
    BY <1>4 DEF SendFrame, counters
  <2>2. TriggersCount'
    BY <1>1, <2>1 DEF CountersInv, TriggersCount, TriggersBeingSent
  <2>3. sent \in [Hdrs -> Seq(Seq(Nat))] /\ buff \in Seq(Nat)
    BY DEF ControlInv, TypeOK
  <2>4. ASSUME NEW h \in Hdrs
        PROVE  Len(sent'[h]) = IF h < nextHdr + 1 THEN L1MRPsSent + 1 ELSE L1MRPsSent
    <3>1. CASE h = nextHdr
      <4>1. Len(sent'[h]) = Len(sent[h]) + 1
        BY <2>1, <2>3, <3>1, AppendFacts
      <4>2. Len(sent[h]) = L1MRPsSent
        BY <1>2, <2>1, <3>1 DEF CountersInv, MRPsCount
      <4> QED BY <1>2, <3>1, <4>1, <4>2
    <3>2. CASE h # nextHdr
      <4>1. sent'[h] = sent[h]
        BY <2>1, <2>3, <3>2
      <4>2. h < nextHdr + 1 <=> h < nextHdr
        BY <1>2, <3>2
      <4> QED BY <2>1, <4>1, <4>2 DEF CountersInv, MRPsCount
    <3> QED BY <3>1, <3>2
  <2>5. MRPsCount'
    BY <2>1, <2>4 DEF MRPsCount, Hdrs
  <2> QED BY <1>1, <2>2, <2>5 DEF CountersInv
<1>5. CASE FinishMRP
  <2>1. /\ UNCHANGED <<multicastRequests, sent>>
        /\ pc = "send" /\ pc' = "collect"
        /\ L1TriggersSent' = L1TriggersSent + Len(buff)
        /\ L1MRPsSent' = L1MRPsSent + 1
    BY <1>5 DEF FinishMRP, TriggersCounted
  <2>2. TriggersCount'
    <3>1. TriggersBeingSent' = 0 /\ TriggersBeingSent = Len(buff)
      BY <2>1 DEF TriggersBeingSent
    <3>2. TriggersCount /\ IsFiniteSet(skipped)
      BY DEF CountersInv
    <3>3. /\ L1TriggersSent \in Nat /\ Cardinality(skipped) \in Nat
          /\ Len(multicastRequests) \in Nat /\ Len(multicastMRPQueue) \in Nat
          /\ Len(buff) \in Nat /\ Len(requestBurst) \in Nat
          /\ TriggersBeingSent \in Nat
      BY <3>2, CountersNat
    <3> QED BY SMTT(30), <1>1, <2>1, <3>1, <3>2, <3>3 DEF TriggersCount
  <2>3. \A h \in Hdrs : h < nextHdr
    BY <1>5, L1Assumption DEF ControlInv, Distribution, FinishMRP, Hdrs
  <2>4. MRPsCount'
    BY <2>1, <2>3 DEF CountersInv, MRPsCount, Hdrs
  <2> QED BY <1>1, <2>2, <2>4 DEF CountersInv
<1> QED BY <1>3, <1>4, <1>5

\* Every step keeps the statistics exact.
LEMMA NextCounters ==
  ControlInv /\ RequestInv /\ CountersInv /\ [Next]_vars => CountersInv'
<1> SUFFICES ASSUME ControlInv, RequestInv, CountersInv, [Next]_vars
             PROVE  CountersInv'
  OBVIOUS
<1>1. ASSUME UNCHANGED <<multicastMRPQueue, multicastRequests, requestBurst, sent,
                         skipped, buff, nextHdr, L1TriggersSent, L1MRPsSent>>,
             pc' = pc \/ (pc # "send" /\ pc' # "send")
      PROVE  CountersInv'
  BY <1>1
  DEF CountersInv, TriggersCount, TriggersBeingSent, MRPsCount, Hdrs
<1>2. CASE StartFlush \/ EndFlush \/ TakeFrame \/ OtherFrame \/ UNCHANGED vars
  BY <1>1, <1>2 DEF StartFlush, EndFlush, TakeFrame, OtherFrame, vars, mrpVars, counters
<1>3. ASSUME NEW w \in Workers, CheckFlush(w)
      PROVE  CountersInv'
  BY <1>1, <1>3 DEF CheckFlush, mrpVars, counters
<1>4. CASE Collect \/ ReadFlush \/ DrainEmpty \/ Decide
  BY <1>1, <1>4 DEF Collect, ReadFlush, DrainEmpty, Decide, mrpVars, counters
<1> QED
  BY <1>2, <1>3, <1>4, DrainCounters, MoveCounters, MRPCounters DEF Next, Distribute

\* L1TriggersSent and L1MRPsSent are exact.
THEOREM StatisticsExact == Spec => []CountersExact
<1>1. Init => CountersInv
  <2> SUFFICES ASSUME Init PROVE CountersInv
    OBVIOUS
  <2>1. Len(<<>>) = 0 /\ IsFiniteSet({}) /\ Cardinality({}) = 0
    BY FS_EmptySet
  <2> QED
    BY <2>1 DEF Init, CountersInv, TriggersCount, TriggersBeingSent, MRPsCount
<1>2. CountersInv => CountersExact
  BY DEF CountersInv, TriggersCount, TriggersBeingSent, MRPsCount, CountersExact
<1> QED
  BY <1>1, <1>2, NextCounters, ControlInvariance, RequestInvariance, PTL DEF Spec

-----------------------------------------------------------------------------
(***************************************************************************)
(* The refinement: every step is a step of the abstract pipeline or leaves *)
(* it alone, as soon as there is a destination.  (That every batch is      *)
(* handed over in the end is fairness and not proved here.)                *)
(***************************************************************************)

\* The safety part of PipelineImplemented.
PipelineSafety == Pipeline!Init /\ [][Pipeline!Next]_(Pipeline!pipelineVars)

\* The batches the first destination has.
Formed == [i \in DOMAIN sent[1] |-> Elements(sent[1][i])]

\* The number of MRPs each destination got.
Got == [h \in Hdrs |-> Len(sent[h])]

\* They form a sequence of sets of requests.
LEMMA FormedType ==
  ASSUME ControlInv, 1 \in Hdrs
  PROVE  /\ Formed \in Seq(SUBSET Nat)
         /\ Len(Formed) = Len(sent[1])
         /\ Len(sent[1]) \in Nat
<1>1. sent[1] \in Seq(Seq(Nat))
  BY DEF ControlInv, TypeOK
<1>2. \A i \in DOMAIN sent[1] : Elements(sent[1][i]) \in SUBSET Nat
  BY <1>1 DEF Elements
<1>3. DOMAIN sent[1] = 1..Len(sent[1]) /\ Len(sent[1]) \in Nat
  BY <1>1
<1>4. Formed \in [1..Len(sent[1]) -> SUBSET Nat]
  BY <1>2, <1>3 DEF Formed
<1> QED BY <1>3, <1>4, SeqDef

\* Steps that neither add, delete nor send a request do not change the
\* pipeline.
LEMMA PipelineUnchanged ==
  ASSUME UNCHANGED <<requestBurst, sent, skipped>>, Waiting' = Waiting,
         \/ UNCHANGED <<pc, nextHdr, buff>>
         \/ ~ (pc = "send" /\ nextHdr = 1) /\ ~ (pc = "send" /\ nextHdr = 1)'
  PROVE  UNCHANGED Pipeline!pipelineVars
<1>1. SkippedRequests' = SkippedRequests
  BY DEF SkippedRequests
<1>2. Batches' = Batches
  BY DEF Batches
<1>3. Got' = Got
  BY DEF Got, Hdrs
<1> QED BY <1>1, <1>2, <1>3 DEF Pipeline!pipelineVars, Got

\* A push is an Accept.
LEMMA PushRefines ==
  ASSUME ControlInv, NEW w \in Workers, PushRequest(w)
  PROVE  Pipeline!Accept
<1>1. Batches' = Batches /\ Got' = Got
  BY PushEffect DEF Batches, Got, Hdrs
<1> QED BY <1>1, PushEffect DEF Pipeline!Accept, Got

\* The deletion of a request is a Flush.
LEMMA DrainRefines ==
  ASSUME ControlInv, RequestInv, Drain
  PROVE  \E r \in Waiting : Pipeline!Flush(r)
<1> DEFINE r == Head(multicastMRPQueue)
<1>1. /\ UNCHANGED <<requestBurst, multicastRequests, sent>>
      /\ pc = "drain" /\ pc' = "flush"
      /\ SkippedRequests' = SkippedRequests \cup {r}
      /\ Waiting = Waiting' \cup {r}
      /\ \A x \in Elements(multicastMRPQueue') : r < x
      /\ r \in Elements(multicastMRPQueue)
  BY DrainEffect
<1>2. r \in Nat
  BY TailFacts DEF ControlInv, TypeOK, Drain
<1> HIDE DEF r
<1>3. r \notin Waiting'
  <2>1. r \notin Elements(multicastMRPQueue')
    BY <1>1, <1>2
  <2>2. r \notin Elements(multicastRequests)
    BY <1>1, <1>2 DEF RequestInv, WaitingOrder, Precede
  <2> QED BY <1>1, <2>1, <2>2 DEF Waiting
<1>4. Batches' = Batches /\ Got' = Got /\ Len(requestBurst)' = Len(requestBurst)
  BY <1>1 DEF Batches, Got, Hdrs
<1>5. Waiting' = Waiting \ {r} /\ r \in Waiting
  BY <1>1, <1>3
<1> QED BY <1>1, <1>4, <1>5 DEF Pipeline!Flush, Got

\* The number of different requests in a list is at most its length.
LEMMA ElementsSize ==
  ASSUME NEW s \in Seq(Nat), s # <<>>
  PROVE  /\ IsFiniteSet(Elements(s))
         /\ Cardinality(Elements(s)) \in 1..Len(s)
<1>1. /\ IsFiniteSet(1..Len(s)) /\ Cardinality(1..Len(s)) = Len(s)
      /\ Len(s) \in Nat
  <2>1. Len(s) \in Nat /\ Len(s) \in Int /\ 1 \in Int /\ Len(s) - 1 + 1 = Len(s)
        /\ ~ (1 > Len(s))
    OBVIOUS
  <2> QED BY <2>1, FS_Interval
<1>2. s \in Surjection(1..Len(s), Elements(s))
  BY DEF Surjection, Elements
<1>3. IsFiniteSet(Elements(s)) /\ Cardinality(Elements(s)) <= Len(s)
  BY <1>1, <1>2, FS_Surjection
<1>4. Elements(s) # {}
  BY TailElements
<1>5. Cardinality(Elements(s)) \in Nat /\ Cardinality(Elements(s)) # 0
  BY <1>3, <1>4, FS_EmptySet, FS_CardinalityType
<1> QED BY <1>1, <1>3, <1>5

\* Async_SendMRP forms a batch of the requests that wait longest.
LEMMA PackRefines ==
  ASSUME ControlInv, RequestInv, 1 \in Hdrs, PackMRP
  PROVE  \E B \in SUBSET Waiting : Pipeline!Form(B)
<1> DEFINE B == Elements(multicastRequests)
<1>1. /\ UNCHANGED <<requestBurst, multicastMRPQueue, sent, skipped>>
      /\ pc = "pack" /\ pc' = "send" /\ nextHdr' = 1
  BY DEF PackMRP, FirstHdr
<1>2. multicastRequests \in Seq(Nat) /\ multicastRequests # <<>>
  BY DEF ControlInv, TypeOK, ListBounds, PackMRP
<1>3. Cardinality(B) \in 1..MAX_TRIGGERS_PER_L1MRP
  <2>1. Cardinality(B) \in 1..Len(multicastRequests)
    BY <1>2, ElementsSize
  <2>2. Len(multicastRequests) \in 1..MAX_TRIGGERS_PER_L1MRP
    BY PackFacts
  <2> QED BY <2>1, <2>2, L1Assumption
<1>4. /\ B \subseteq Waiting
      /\ Waiting \ B \subseteq Elements(multicastMRPQueue)
      /\ Waiting' = Elements(multicastMRPQueue)
      /\ \A r \in B, s \in Elements(multicastMRPQueue) : r < s
      /\ B \subseteq Nat
  <2>1. Elements(multicastRequests') = {}
    BY PackElements
  <2>2. B \subseteq Nat
    BY <1>2 DEF Elements
  <2> QED BY <1>1, <2>1, <2>2 DEF Waiting, RequestInv, WaitingOrder, Precede
<1>5. Waiting' = Waiting \ B
  <2>1. \A r \in B : r \notin Elements(multicastMRPQueue)
    BY <1>4
  <2> QED BY <1>4, <2>1 DEF Waiting
<1>6. Batches = Formed /\ Batches' = Append(Batches, B)
  <2>1. Elements(buff') = B
    BY PackElements
  <2> QED BY <1>1, <2>1 DEF Batches, Formed
<1>7. \A h \in Hdrs : Got[h] = Len(Batches)
  BY <1>1, <1>6, FormedType DEF Got, ControlInv, Distribution
<1>8. SkippedRequests' = SkippedRequests /\ Got' = Got
      /\ Len(requestBurst)' = Len(requestBurst)
  BY <1>1 DEF SkippedRequests, Got, Hdrs
<1> HIDE DEF B
<1>9. Pipeline!Form(B)
  <2>1. \A r \in B, s \in Waiting \ B : r < s
    BY <1>4
  <2>2. \A h \in Hdrs : [k \in Hdrs |-> Len(sent[k])][h] = Len(Batches)
    BY <1>7 DEF Got
  <2>3. UNCHANGED [k \in Hdrs |-> Len(sent[k])]
    BY <1>8 DEF Got
  <2>4. Pipeline!Cardinality(B) \in 1..MAX_TRIGGERS_PER_L1MRP
    BY <1>3 DEF Cardinality, Pipeline!Cardinality
  <2> QED BY <1>5, <1>6, <1>8, <2>1, <2>2, <2>3, <2>4 DEF Pipeline!Form
<1> QED BY <1>4, <1>9

\* AsyncSendFrame hands the batch to the next destination.
LEMMA SendRefines ==
  ASSUME ControlInv, 1 \in Hdrs, SendFrame
  PROVE  \E h \in Hdrs : Pipeline!Hand(h)
<1>1. /\ UNCHANGED <<requestBurst, multicastMRPQueue, multicastRequests, skipped, buff>>
      /\ pc = "send" /\ pc' = "send"
      /\ nextHdr \in Hdrs /\ nextHdr' = nextHdr + 1
      /\ sent' = [sent EXCEPT ![nextHdr] = Append(sent[nextHdr], buff)]
  BY DEF SendFrame
<1>2. /\ sent \in [Hdrs -> Seq(Seq(Nat))] /\ buff \in Seq(Nat)
      /\ nextHdr \in Nat /\ 1 <= nextHdr /\ nextHdr + 1 # 1
  BY <1>1, L1Assumption DEF ControlInv, TypeOK, Hdrs
<1>3. Got' = [Got EXCEPT ![nextHdr] = @ + 1]
  <2>1. \A h \in Hdrs : Len(sent'[h]) = IF h = nextHdr THEN Len(sent[h]) + 1 ELSE Len(sent[h])
    BY <1>1, <1>2, AppendFacts
  <2> QED BY <1>1, <2>1 DEF Got, Hdrs
<1>4. Batches' = Batches /\ Got[nextHdr] < Len(Batches)
  <2>1. CASE nextHdr = 1
    <3>1. Batches = Append(Formed, Elements(buff)) /\ Batches' = Formed'
      BY <1>1, <1>2, <2>1 DEF Batches, Formed
    <3>2. sent[1] \in Seq(Seq(Nat)) /\ sent'[1] = Append(sent[1], buff)
      BY <1>1, <1>2, <2>1
    <3>3. Elements(buff) \in SUBSET Nat
      BY <1>2 DEF Elements
    <3>4. Formed' = Append(Formed, Elements(buff))
      <4>1. /\ DOMAIN sent[1] = 1..Len(sent[1]) /\ DOMAIN sent'[1] = 1..(Len(sent[1]) + 1)
            /\ Len(sent[1]) \in Nat
        BY <1>2, <3>2
      <4>2. /\ Append(Formed, Elements(buff)) \in Seq(SUBSET Nat)
            /\ Len(Append(Formed, Elements(buff))) = Len(sent[1]) + 1
        BY <3>3, FormedType, AppendFacts
      <4>3. ASSUME NEW i \in 1..(Len(sent[1]) + 1)
            PROVE  Elements(sent'[1][i]) = Append(Formed, Elements(buff))[i]
        <5>1. CASE i = Len(sent[1]) + 1
          BY <1>2, <3>2, <3>3, <5>1, FormedType, AppendFacts
        <5>2. CASE i # Len(sent[1]) + 1
          <6>1. i \in DOMAIN sent[1] /\ i \in DOMAIN Formed
            BY <4>1, <5>2 DEF Formed
          <6>2. sent'[1][i] = sent[1][i]
            BY <1>2, <3>2, <6>1, AppendFacts
          <6>3. Append(Formed, Elements(buff))[i] = Formed[i]
            BY <3>3, <6>1, FormedType, AppendFacts
          <6> QED BY <6>1, <6>2, <6>3 DEF Formed
        <5> QED BY <5>1, <5>2
      <4>4. Formed' = [i \in 1..(Len(sent[1]) + 1) |-> Elements(sent'[1][i])]
        BY <4>1 DEF Formed
      <4> DEFINE appended == Append(Formed, Elements(buff))
      <4>5. appended \in [1..(Len(sent[1]) + 1) -> SUBSET Nat]
        BY <4>2, LenProperties
      <4> HIDE DEF Formed, appended
      <4>6. appended = [i \in 1..(Len(sent[1]) + 1) |-> appended[i]]
        BY <4>5
      <4>7. [i \in 1..(Len(sent[1]) + 1) |-> Elements(sent'[1][i])] = appended
        BY <4>3, <4>6 DEF appended
      <4> QED BY <4>4, <4>7 DEF appended
    <3>5. Got[1] < Len(Batches)
      BY <3>1, <3>3, FormedType, AppendFacts DEF Got
    <3> QED BY <2>1, <3>1, <3>4, <3>5
  <2>2. CASE nextHdr # 1
    <3>1. Batches = Formed /\ Batches' = Formed'
      BY <1>1, <1>2, <2>2 DEF Batches, Formed
    <3>2. sent'[1] = sent[1]
      BY <1>1, <1>2, <2>2
    <3>3. sent[1] = Append(sent[nextHdr], buff)
      <4>1. 1 < nextHdr /\ ~ (nextHdr < nextHdr)
        BY <1>2, <2>2
      <4> QED BY <1>1, <4>1 DEF ControlInv, Distribution
    <3>4. Len(sent[1]) = Len(sent[nextHdr]) + 1 /\ Len(sent[nextHdr]) \in Nat
      BY <1>1, <1>2, <3>3, AppendFacts
    <3>5. Got[nextHdr] < Len(Batches)
      BY <1>1, <3>1, <3>4, FormedType DEF Got
    <3> QED BY <3>1, <3>2, <3>5 DEF Formed
  <2> QED BY <2>1, <2>2
<1>5. Waiting' = Waiting /\ SkippedRequests' = SkippedRequests
      /\ Len(requestBurst)' = Len(requestBurst)
  BY <1>1 DEF Waiting, SkippedRequests
<1> SUFFICES ASSUME NEW h \in Hdrs, h = nextHdr
             PROVE  Pipeline!Hand(h)
  BY <1>1
<1>6. Pipeline!Hand(h)
  <2>1. [k \in Hdrs |-> Len(sent[k])]'
          = [[k \in Hdrs |-> Len(sent[k])] EXCEPT ![h] = @ + 1]
    BY <1>3 DEF Got
  <2>2. [k \in Hdrs |-> Len(sent[k])][h] < Len(Batches)
    BY <1>4 DEF Got
  <2> QED BY <1>4, <1>5, <2>1, <2>2 DEF Pipeline!Hand
<1> QED BY <1>6

\* With at least one destination, workers, flushes, the distribution thread and
\* the bounded send queue together behave like the pipeline.
THEOREM PipelineRefined ==
  ASSUME NumUnicastHdrs + NumMulticastHdrs >= 1
  PROVE  Spec => PipelineSafety
<1>1. 1 \in Hdrs
  BY L1Assumption DEF Hdrs
<1>2. Init => Pipeline!Init
  <2> SUFFICES ASSUME Init PROVE Pipeline!Init
    OBVIOUS
  <2>1. Elements(<<>>) = {} /\ Len(<<>>) = 0 /\ DOMAIN <<>> = {}
    BY DEF Elements
  <2>2. Len(requestBurst) = 0 /\ Waiting = {} /\ SkippedRequests = {}
    BY <2>1 DEF Init, Waiting, SkippedRequests
  <2>3. Batches = <<>>
    BY <1>1, <2>1 DEF Init, Batches
  <2>4. [h \in Hdrs |-> Len(sent[h])] = [h \in Hdrs |-> 0]
    BY <2>1 DEF Init
  <2> QED BY <2>2, <2>3, <2>4 DEF Pipeline!Init
<1>3. ControlInv /\ RequestInv /\ [Next]_vars
        => [Pipeline!Next]_(Pipeline!pipelineVars)
  <2> SUFFICES ASSUME ControlInv, RequestInv, [Next]_vars
               PROVE  Pipeline!Next \/ UNCHANGED Pipeline!pipelineVars
    OBVIOUS
  <2>1. CASE StartFlush \/ EndFlush \/ TakeFrame \/ OtherFrame \/ UNCHANGED vars
    BY <2>1, PipelineUnchanged
    DEF StartFlush, EndFlush, TakeFrame, OtherFrame, vars, mrpVars, Waiting
  <2>2. ASSUME NEW w \in Workers, CheckFlush(w)
        PROVE  UNCHANGED Pipeline!pipelineVars
    BY <2>2, PipelineUnchanged DEF CheckFlush, mrpVars, Waiting
  <2>3. CASE Collect \/ ReadFlush \/ DrainEmpty \/ Decide
    BY <2>3, PipelineUnchanged
    DEF Collect, ReadFlush, DrainEmpty, Decide, mrpVars, Waiting
  <2>4. CASE PopRequest
    BY <2>4, PopEffect, PipelineUnchanged
  <2>5. CASE FinishMRP
    <3>1. nextHdr # 1 /\ nextHdr' # 1
      BY <1>1, <2>5 DEF FinishMRP
    <3> QED BY <2>5, <3>1, PipelineUnchanged DEF FinishMRP, Waiting
  <2>6. ASSUME NEW w \in Workers, PushRequest(w)
        PROVE  Pipeline!Next
    BY <2>6, PushRefines DEF Pipeline!Next
  <2>7. CASE Drain
    BY <2>7, DrainRefines DEF Pipeline!Next
  <2>8. CASE PackMRP
    BY <1>1, <2>8, PackRefines DEF Pipeline!Next
  <2>9. CASE SendFrame
    BY <1>1, <2>9, SendRefines DEF Pipeline!Next
  <2> QED
    BY <2>1, <2>2, <2>3, <2>4, <2>5, <2>6, <2>7, <2>8, <2>9 DEF Next, Distribute
<1> QED
  BY <1>2, <1>3, ControlInvariance, RequestInvariance, PTL DEF Spec, PipelineSafety
=============================================================================
