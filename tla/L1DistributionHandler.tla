----------------------- MODULE L1DistributionHandler -----------------------
(***************************************************************************)
(* The distribution of L1 data requests.                                   *)
(*                                                                         *)
(* Worker threads call Async_RequestL1DataMulticast for every event that   *)
(* L1 accepted; it pushes a TRIGGER_RAW_HDR into multicastMRPQueue.  One   *)
(* thread, L1DistributionHandler::thread, collects up to                   *)
(* MAX_TRIGGERS_PER_L1MRP of them and Async_SendMRP packs them into one    *)
(* multi request packet (MRP) per configured destination, which it hands   *)
(* to NetworkHandler::AsyncSendFrame.                                      *)
(*                                                                         *)
(* Between two bursts BurstIdHandler::flushBurst() is true for a while;    *)
(* requests are then refused at the entrance and thrown out of the queue.  *)
(*                                                                         *)
(* A request is named by its position in the order of the pushes: request  *)
(* number r is the r-th TRIGGER_RAW_HDR ever pushed.                       *)
(***************************************************************************)
EXTENDS Naturals, Sequences, FiniteSets

CONSTANTS
  Workers,                 \* threads that call Async_RequestL1DataMulticast
  MAX_TRIGGERS_PER_L1MRP,
  NumUnicastHdrs,          \* Len of L1_UnicastRequestHdrs
  NumMulticastHdrs,        \* Len of L1_MulticastRequestHdrs
  QueueCapacity,           \* capacity of NetworkHandler's asyncSendData_
  OtherFrames,             \* frames other users of the send queue enqueue
  MaxRequests,             \* bound: how many requests pass the entrance
  MaxBursts,               \* bound: how many bursts end
  MaxOther                 \* bound: frames of others in the queue at a time

ASSUME L1Assumption ==
  /\ MAX_TRIGGERS_PER_L1MRP \in Nat \ {0}
  /\ NumUnicastHdrs \in Nat
  /\ NumMulticastHdrs \in Nat
  /\ QueueCapacity \in Nat \ {0}
  /\ MaxRequests \in Nat
  /\ MaxBursts \in Nat
  /\ MaxOther \in Nat

VARIABLES
  flushBurst,         \* BurstIdHandler::flushBurst()
  burst,              \* the burst being taken
  workerState,        \* where each worker is in Async_RequestL1DataMulticast
  workerBurst,        \* the burst its event belongs to
  multicastMRPQueue,
  requestBurst,       \* history: the burst of each request ever pushed
  pc,                 \* where L1DistributionHandler::thread is
  multicastRequests,  \* its local list of collected requests
  buff,               \* the triggers copied into the MRP being sent
  nextHdr,            \* the next destination in Async_SendMRP's loops
  asyncSendData,      \* NetworkHandler's queue of frames to send
  L1TriggersSent,
  L1MRPsSent,
  skipped,            \* history: requests deleted because of a flush
  drained,            \* history: the last request deleted since the loop that
                      \* collects went round, 0 if there is none
  sent                \* history: the MRPs enqueued for each destination

workerVars == <<workerState, workerBurst>>
burstVars == <<flushBurst, burst>>
mrpVars == <<buff, nextHdr, asyncSendData, sent>>
counters == <<L1TriggersSent, L1MRPsSent>>
vars == <<workerVars, burstVars, multicastMRPQueue, requestBurst, pc,
          multicastRequests, mrpVars, counters, skipped, drained>>

-----------------------------------------------------------------------------
\* The destinations, in the order in which Async_SendMRP serves them.
Hdrs == 1..(NumUnicastHdrs + NumMulticastHdrs)

Requests == 1..Len(requestBurst)

Elements(s) == {s[i] : i \in DOMAIN s}

\* The thread's points of interruption.
PCs == {"collect", "flush", "drain", "pop", "decide", "pack", "send"}

\* sizeof(MRP_FRAME_HDR) + n * sizeof(TRIGGER_RAW_HDR)
FrameLength(n) == 54 + n * 12

\* The frame for destination h: the header of h in front of a copy of buff.
MRPFrame(h) ==
  [data |-> [hdr |-> h, triggers |-> buff],
   length |-> FrameLength(Len(buff)), ownerMayFreeData |-> TRUE]

Frames ==
  OtherFrames \cup
  [data : [hdr : Hdrs, triggers : Seq(Nat)], length : Nat,
   ownerMayFreeData : {TRUE}]

Init ==
  /\ flushBurst = FALSE
  /\ burst = 0
  /\ workerState = [w \in Workers |-> "idle"]
  /\ workerBurst = [w \in Workers |-> 0]
  /\ multicastMRPQueue = <<>>
  /\ requestBurst = <<>>
  /\ pc = "collect"
  /\ multicastRequests = <<>>
  /\ buff = <<>>
  /\ nextHdr = 1
  /\ asyncSendData = <<>>
  /\ L1TriggersSent = 0
  /\ L1MRPsSent = 0
  /\ skipped = {}
  /\ drained = 0
  /\ sent = [h \in Hdrs |-> <<>>]

-----------------------------------------------------------------------------
(***************************************************************************)
(* BurstIdHandler: the end of a burst raises flushBurst; when everything   *)
(* is cleaned up the flag falls and the next burst starts.                 *)
(***************************************************************************)
StartFlush ==
  /\ ~ flushBurst
  /\ burst < MaxBursts
  /\ flushBurst' = TRUE
  /\ UNCHANGED <<burst, workerVars, multicastMRPQueue, requestBurst, pc,
                 multicastRequests, mrpVars, counters, skipped, drained>>

EndFlush ==
  /\ flushBurst
  /\ flushBurst' = FALSE
  /\ burst' = burst + 1
  /\ UNCHANGED <<workerVars, multicastMRPQueue, requestBurst, pc,
                 multicastRequests, mrpVars, counters, skipped, drained>>

-----------------------------------------------------------------------------
(***************************************************************************)
(* Async_RequestL1DataMulticast, run by worker w.                          *)
(***************************************************************************)

\* Requests that are pushed or about to be.
Admitted ==
  Len(requestBurst) + Cardinality({w \in Workers : workerState[w] = "push"})

\* The flush check; a refused call returns and changes nothing.
CheckFlush(w) ==
  /\ workerState[w] = "idle"
  /\ Admitted < MaxRequests
  /\ ~ flushBurst
  /\ workerState' = [workerState EXCEPT ![w] = "push"]
  /\ workerBurst' = [workerBurst EXCEPT ![w] = burst]
  /\ UNCHANGED <<burstVars, multicastMRPQueue, requestBurst, pc,
                 multicastRequests, mrpVars, counters, skipped, drained>>

\* multicastMRPQueue.push(triggerHDR)
PushRequest(w) ==
  /\ workerState[w] = "push"
  /\ requestBurst' = Append(requestBurst, workerBurst[w])
  /\ multicastMRPQueue' = Append(multicastMRPQueue, Len(requestBurst) + 1)
  /\ workerState' = [workerState EXCEPT ![w] = "idle"]
  /\ UNCHANGED <<workerBurst, burstVars, pc, multicastRequests, mrpVars,
                 counters, skipped, drained>>

-----------------------------------------------------------------------------
(***************************************************************************)
(* L1DistributionHandler::thread                                           *)
(***************************************************************************)

\* Mutant: the thread does not ask whether the queue is empty.
MoreToCollectBlindly == Len(multicastRequests) # MAX_TRIGGERS_PER_L1MRP

\* The condition of the loop that collects requests.
MoreToCollect ==
  /\ Len(multicastRequests) # MAX_TRIGGERS_PER_L1MRP
  /\ multicastMRPQueue # <<>>

Collect ==
  /\ pc = "collect"
  /\ pc' = IF MoreToCollect THEN "flush" ELSE "decide"
  /\ drained' = 0
  /\ UNCHANGED <<workerVars, burstVars, multicastMRPQueue, requestBurst,
                 multicastRequests, mrpVars, counters, skipped>>

\* while (flushBurst() && ...: reads the flag.
ReadFlush ==
  /\ pc = "flush"
  /\ pc' = IF flushBurst THEN "drain" ELSE "pop"
  /\ UNCHANGED <<workerVars, burstVars, multicastMRPQueue, requestBurst,
                 multicastRequests, mrpVars, counters, skipped, drained>>

\* Mutant: the flag is read once for all requests.
AfterDrainAgain == "drain"

\* The loop reads the flag again.
AfterDrain == "flush"

\* ... && try_pop(hdr)): the popped request is deleted.
Drain ==
  /\ pc = "drain"
  /\ multicastMRPQueue # <<>>
  /\ skipped' = skipped \cup {[request |-> Head(multicastMRPQueue),
                               burst |-> burst, flushing |-> flushBurst]}
  /\ drained' = Head(multicastMRPQueue)
  /\ multicastMRPQueue' = Tail(multicastMRPQueue)
  /\ pc' = AfterDrain
  /\ UNCHANGED <<workerVars, burstVars, requestBurst, multicastRequests,
                 mrpVars, counters>>

\* Mutant: hdr is collected although nothing was popped since it was deleted.
DrainEmptyStale ==
  /\ pc = "drain"
  /\ multicastMRPQueue = <<>>
  /\ \E s \in skipped :
       multicastRequests' = Append(multicastRequests, s.request)
  /\ pc' = "collect"
  /\ UNCHANGED <<workerVars, burstVars, multicastMRPQueue, requestBurst,
                 mrpVars, counters, skipped, drained>>

\* try_pop fails: nothing left to throw away.
DrainEmpty ==
  /\ pc = "drain"
  /\ multicastMRPQueue = <<>>
  /\ pc' = "pop"
  /\ UNCHANGED <<workerVars, burstVars, multicastMRPQueue, requestBurst,
                 multicastRequests, mrpVars, counters, skipped, drained>>

\* while (!try_pop(hdr)) usleep(10): waits for a request, whatever was
\* collected before.
PopRequest ==
  /\ pc = "pop"
  /\ multicastMRPQueue # <<>>
  /\ multicastRequests' = Append(multicastRequests, Head(multicastMRPQueue))
  /\ multicastMRPQueue' = Tail(multicastMRPQueue)
  /\ pc' = "collect"
  /\ UNCHANGED <<workerVars, burstVars, requestBurst, mrpVars, counters,
                 skipped, drained>>

\* Mutant: an MRP is sent although nothing was collected.
HasRequestsAlways == TRUE

\* Mutant: the `continue` that is commented out.
HasRequestsContinue ==
  /\ multicastRequests # <<>>
  /\ \/ asyncSendData = <<>>
     \/ Len(multicastRequests) = MAX_TRIGGERS_PER_L1MRP

\* multicastRequests.size() > 0
HasRequests == multicastRequests # <<>>

\* If something was collected the thread sends, after a short sleep
\* when frames are waiting and the list is not full; or it sleeps and starts
\* over.
Decide ==
  /\ pc = "decide"
  /\ pc' = IF HasRequests THEN "pack" ELSE "collect"
  /\ UNCHANGED <<workerVars, burstVars, multicastMRPQueue, requestBurst,
                 multicastRequests, mrpVars, counters, skipped, drained>>

\* How many of the collected requests go into the MRP.
NumberOfTriggers ==
  IF Len(multicastRequests) > MAX_TRIGGERS_PER_L1MRP
  THEN MAX_TRIGGERS_PER_L1MRP ELSE Len(multicastRequests)

\* Mutant: back() without pop_back().
PackedLast ==
  [i \in 1..NumberOfTriggers |-> multicastRequests[Len(multicastRequests)]]

\* The triggers of the MRP: the last of the list comes first.
Packed ==
  [i \in 1..NumberOfTriggers |->
     multicastRequests[Len(multicastRequests) - i + 1]]

\* Mutant: the packed triggers stay in the list.
LeftOverAll == multicastRequests

\* What stays in the list.
LeftOver ==
  SubSeq(multicastRequests, 1, Len(multicastRequests) - NumberOfTriggers)

\* Mutant: only the multicast destinations are served.
FirstHdrMulticast == NumUnicastHdrs + 1

\* The first destination.
FirstHdr == 1

\* Async_SendMRP takes the triggers from the back of the list, copies them
\* into buff and deletes them.
PackMRP ==
  /\ pc = "pack"
  /\ buff' = Packed
  /\ multicastRequests' = LeftOver
  /\ nextHdr' = FirstHdr
  /\ pc' = "send"
  /\ UNCHANGED <<workerVars, burstVars, multicastMRPQueue, requestBurst,
                 asyncSendData, sent, counters, skipped, drained>>

\* Mutant: the send queue is not bounded.
SendQueueHasRoomAlways == TRUE

SendQueueHasRoom == Len(asyncSendData) < QueueCapacity

\* One iteration of the two loops over the destinations; AsyncSendFrame
\* blocks while the send queue is full.
SendFrame ==
  /\ pc = "send"
  /\ nextHdr \in Hdrs
  /\ SendQueueHasRoom
  /\ asyncSendData' = Append(asyncSendData, MRPFrame(nextHdr))
  /\ sent' = [sent EXCEPT ![nextHdr] = Append(@, buff)]
  /\ nextHdr' = nextHdr + 1
  /\ UNCHANGED <<workerVars, burstVars, multicastMRPQueue, requestBurst, pc,
                 multicastRequests, buff, counters, skipped, drained>>

\* Mutant: the statistics assume full MRPs.
TriggersCountedFull == MAX_TRIGGERS_PER_L1MRP

\* numberOfTriggers, when the MRP is complete.
TriggersCounted == Len(buff)

\* Both loops are done: buff is deleted, the statistics are updated.
FinishMRP ==
  /\ pc = "send"
  /\ nextHdr \notin Hdrs
  /\ L1TriggersSent' = L1TriggersSent + TriggersCounted
  /\ L1MRPsSent' = L1MRPsSent + 1
  /\ buff' = <<>>
  /\ pc' = "collect"
  /\ UNCHANGED <<workerVars, burstVars, multicastMRPQueue, requestBurst,
                 multicastRequests, nextHdr, asyncSendData, sent, skipped,
                 drained>>

Distribute ==
  \/ Collect \/ ReadFlush \/ Drain \/ DrainEmpty \/ PopRequest \/ Decide
  \/ PackMRP \/ SendFrame \/ FinishMRP

-----------------------------------------------------------------------------
(***************************************************************************)
(* The rest of NetworkHandler, as this component sees it: packet handler   *)
(* threads take frames from the send queue, others put frames into it.     *)
(***************************************************************************)
TakeFrame ==
  /\ asyncSendData # <<>>
  /\ asyncSendData' = Tail(asyncSendData)
  /\ UNCHANGED <<workerVars, burstVars, multicastMRPQueue, requestBurst, pc,
                 multicastRequests, buff, nextHdr, sent, counters, skipped, drained>>

OthersWaiting ==
  Cardinality({i \in DOMAIN asyncSendData : asyncSendData[i] \in OtherFrames})

OtherFrame ==
  /\ Len(asyncSendData) < QueueCapacity
  /\ OthersWaiting < MaxOther
  /\ \E f \in OtherFrames : asyncSendData' = Append(asyncSendData, f)
  /\ UNCHANGED <<workerVars, burstVars, multicastMRPQueue, requestBurst, pc,
                 multicastRequests, buff, nextHdr, sent, counters, skipped, drained>>

-----------------------------------------------------------------------------
Next ==
  \/ StartFlush
  \/ EndFlush
  \/ \E w \in Workers : CheckFlush(w) \/ PushRequest(w)
  \/ Distribute
  \/ TakeFrame
  \/ OtherFrame

\* The distribution thread runs and the packet handlers go on taking frames.
\* Strong fairness of SendFrame: a push that waits for room holds a ticket of
\* the bounded queue, so later pushes of others do not overtake it.
Fairness ==
  /\ WF_vars(Distribute)
  /\ SF_vars(SendFrame)
  /\ WF_vars(TakeFrame)

Spec == Init /\ [][Next]_vars /\ Fairness

-----------------------------------------------------------------------------
TypeOK ==
  /\ flushBurst \in BOOLEAN
  /\ burst \in Nat
  /\ workerState \in [Workers -> {"idle", "push"}]
  /\ workerBurst \in [Workers -> Nat]
  /\ multicastMRPQueue \in Seq(Nat)
  /\ requestBurst \in Seq(Nat)
  /\ pc \in PCs
  /\ multicastRequests \in Seq(Nat)
  /\ buff \in Seq(Nat)
  /\ nextHdr \in Nat
  /\ asyncSendData \in Seq(Frames)
  /\ Len(asyncSendData) <= QueueCapacity
  /\ L1TriggersSent \in Nat
  /\ L1MRPsSent \in Nat
  /\ skipped \subseteq [request : Nat, burst : Nat, flushing : BOOLEAN]
  /\ drained \in Nat
  /\ sent \in [Hdrs -> Seq(Seq(Nat))]

SkippedRequests == {s.request : s \in skipped}

\* The requests of all MRPs enqueued for destination h.
SentTo(h) == UNION {Elements(sent[h][i]) : i \in DOMAIN sent[h]}

\* The requests in the MRP that destination h is still to get.
BeingSent(h) == IF pc = "send" /\ nextHdr <= h THEN Elements(buff) ELSE {}

\* The requests that wait to be put into an MRP.
Waiting == Elements(multicastRequests) \cup Elements(multicastMRPQueue)

\* No request gets lost between the push and the send queue: it waits, it was
\* enqueued for a destination or is about to be, or a flush deleted it.
NoRequestLost ==
  \A h \in Hdrs :
    Requests = SkippedRequests \cup SentTo(h) \cup BeingSent(h) \cup Waiting

Precede(S, T) == \A x \in S, y \in T : x < y

Increasing(s) == \A i, j \in DOMAIN s : i < j => s[i] < s[j]

Decreasing(s) == \A i, j \in DOMAIN s : i < j => s[i] > s[j]

\* Every destination gets each request at most once and the MRPs in the order
\* in which the requests were pushed; within an MRP the order is reversed,
\* because Async_SendMRP takes the triggers from the back of the list.
RequestOrder ==
  /\ Increasing(multicastMRPQueue)
  /\ Increasing(multicastRequests)
  /\ Precede(Elements(multicastRequests), Elements(multicastMRPQueue))
  /\ \A h \in Hdrs :
       /\ Precede(SentTo(h), BeingSent(h) \cup Waiting)
       /\ Precede(BeingSent(h), Waiting)
       /\ \A i \in DOMAIN sent[h] : Decreasing(sent[h][i])
       /\ \A i, j \in DOMAIN sent[h] :
            i < j => Precede(Elements(sent[h][i]), Elements(sent[h][j]))

\* All destinations get the same MRPs: while one is being distributed a later
\* destination lags by at most this one, otherwise none does.
DestinationsAgree ==
  \A h, k \in Hdrs :
    /\ pc # "send" => sent[h] = sent[k]
    /\ h <= k => \/ sent[h] = sent[k]
                 \/ sent[h] = Append(sent[k], buff)

\* No MRP is empty, and none has more triggers than its buffer was made for.
MRPSize ==
  \A h \in Hdrs : \A i \in DOMAIN sent[h] :
    Len(sent[h][i]) \in 1..MAX_TRIGGERS_PER_L1MRP

\* The statistics are exact: L1TriggersSent counts every request that left
\* the pipeline other than by a flush, L1MRPsSent the complete MRPs.
CountersExact ==
  /\ L1TriggersSent + Cardinality(skipped) + Len(multicastRequests)
       + Len(multicastMRPQueue) + (IF pc = "send" THEN Len(buff) ELSE 0)
       = Len(requestBurst)
  /\ pc # "send" => \A h \in Hdrs : L1MRPsSent = Len(sent[h])

\* The flag can fall between flushBurst() and try_pop, so that a request of
\* the new burst is deleted.  This happens at most once in each burst.
OneLateSkipPerBurst ==
  \A s, t \in skipped :
    ~ s.flushing /\ ~ t.flushing /\ s.burst = t.burst => s = t

\* The loop `while (!try_pop(hdr))` finds the queue empty, and so keeps
\* collected requests waiting for new ones, only if the flush emptied it just
\* now: since thread() last saw a request in the queue it deleted the newest
\* one that was ever pushed.  A flush further back does not excuse the wait.
WaitsOnlyAfterDrain ==
  pc = "pop" /\ multicastMRPQueue = <<>> =>
    drained > 0 /\ drained = Len(requestBurst)

\* Request r waits in the list for another request to arrive.
HeldBack(r) ==
  /\ pc = "pop"
  /\ multicastMRPQueue = <<>>
  /\ r \in Elements(multicastRequests)

\* A pushed request is eventually sent to every destination or deleted by a
\* flush, or a flush emptied the queue and it is held back in the list.
RequestHandled ==
  \A r \in 1..MaxRequests :
    r \in Elements(multicastMRPQueue) ~>
      \/ r \in SkippedRequests
      \/ \A h \in Hdrs : r \in SentTo(h)
      \/ HeldBack(r)

-----------------------------------------------------------------------------
(***************************************************************************)
(* The abstract pipeline that this module implements.  A batch is formed   *)
(* when Async_SendMRP packs its triggers; the first destination to get it  *)
(* is number 1.                                                            *)
(***************************************************************************)
Batches ==
  LET complete == [i \in DOMAIN sent[1] |-> Elements(sent[1][i])]
  IN  IF pc = "send" /\ nextHdr = 1 THEN Append(complete, Elements(buff))
                                    ELSE complete

Pipeline == INSTANCE RequestPipeline WITH
  Destinations <- Hdrs, MaxBatch <- MAX_TRIGGERS_PER_L1MRP,
  accepted <- Len(requestBurst), waiting <- Waiting,
  flushed <- SkippedRequests, batches <- Batches,
  got <- [h \in Hdrs |-> Len(sent[h])]

\* Workers, flushes, the distribution thread and the bounded send queue
\* together behave like the pipeline: a deleted request is never sent, no
\* request is in two MRPs or overtakes another, no MRP is begun before all
\* destinations have the last, and each gets every MRP in the end.
PipelineImplemented == Pipeline!Spec

-----------------------------------------------------------------------------
(***************************************************************************)
(* What a log message of the code says, and the code does not do (see the  *)
(* findings in the README).                                                *)
(***************************************************************************)

\* "Skipping data requests because burst is long finished": a deleted request
\* belongs to a burst that is being flushed or is over.
SkippedBurstIsFinished ==
  \A s \in skipped : s.flushing \/ requestBurst[s.request] < s.burst
=============================================================================
