-------------------------- MODULE RequestPipeline --------------------------
(***************************************************************************)
(* What L1DistributionHandler promises, without its threads and queues:    *)
(* accepted requests wait until a flush deletes them or they become part   *)
(* of a batch (an MRP); every batch is handed to every destination, in     *)
(* order, before the next one is formed.                                   *)
(***************************************************************************)
EXTENDS Naturals, Sequences, FiniteSets

CONSTANTS
  Destinations,
  MaxBatch        \* MAX_TRIGGERS_PER_L1MRP

VARIABLES
  accepted,       \* how many requests were accepted; they are 1..accepted
  waiting,        \* the requests that are in no batch yet
  flushed,        \* the requests that were deleted
  batches,        \* the sets of requests that were formed, in order
  got             \* how many batches each destination was handed

pipelineVars == <<accepted, waiting, flushed, batches, got>>

Init ==
  /\ accepted = 0
  /\ waiting = {}
  /\ flushed = {}
  /\ batches = <<>>
  /\ got = [h \in Destinations |-> 0]

Accept ==
  /\ accepted' = accepted + 1
  /\ waiting' = waiting \cup {accepted + 1}
  /\ UNCHANGED <<flushed, batches, got>>

Flush(r) ==
  /\ waiting' = waiting \ {r}
  /\ flushed' = flushed \cup {r}
  /\ UNCHANGED <<accepted, batches, got>>

\* The requests that wait longest become a batch, when every destination has
\* all batches so far.
Form(B) ==
  /\ Cardinality(B) \in 1..MaxBatch
  /\ \A r \in B, s \in waiting \ B : r < s
  /\ \A h \in Destinations : got[h] = Len(batches)
  /\ waiting' = waiting \ B
  /\ batches' = Append(batches, B)
  /\ UNCHANGED <<accepted, flushed, got>>

Hand(h) ==
  /\ got[h] < Len(batches)
  /\ got' = [got EXCEPT ![h] = @ + 1]
  /\ UNCHANGED <<accepted, waiting, flushed, batches>>

Next ==
  \/ Accept
  \/ \E r \in waiting : Flush(r)
  \/ \E B \in SUBSET waiting : Form(B)
  \/ \E h \in Destinations : Hand(h)

\* A batch that was formed reaches every destination.
Spec ==
  /\ Init
  /\ [][Next]_pipelineVars
  /\ \A h \in Destinations : WF_pipelineVars(Hand(h))
=============================================================================
