---------------------------- MODULE DimListener ----------------------------
(***************************************************************************)
(* DimListener subscribes to six DIM services and tells the listeners of   *)
(* the farm about every update.                                            *)
(*                                                                         *)
(* Two threads meet here: the farm's, which constructs the object and      *)
(* registers listeners, and DIM's, which calls infoHandler for one update  *)
(* after the other, from the first subscription on.  The vectors of        *)
(* callbacks have no lock and are constructed after the subscriptions.     *)
(***************************************************************************)
EXTENDS Integers, Sequences, SequencesExt

CONSTANTS
  Listeners,     \* the callbacks the farm registers
  ListensTo,     \* the service each is registered for
  Numbers,       \* the numbers that are published
  BurstTimes,    \* the BurstTimeStructs that are published
  UintModulus,   \* 2^32
  MaxUpdates     \* bound: how many updates there are

\* The services in the order of their subscription.
SubscriptionOrder ==
  <<"NextBurstNumber", "BurstNumber", "RunNumber", "SOB", "EOB",
    "BurstTimeStruct">>

Services == ToSet(SubscriptionOrder)

ASSUME DimAssumption ==
  /\ ListensTo \in [Listeners -> Services]
  /\ UintModulus \in Nat \ {0}
  /\ Numbers \subseteq 0..(UintModulus - 1)
  /\ BurstTimes \subseteq [burstID : Int, sobTime : Int, eobTime : Int, runNumber : Int]
  /\ MaxUpdates \in Nat

VARIABLES
  subscribed,   \* how many services the constructor has subscribed to
  constructed,  \* the constructor is done
  callbacks,    \* the vector of callbacks of each service
  info,         \* what the DimInfo of each service holds
  service,      \* the service infoHandler is called for, or "none"
  argument,     \* what infoHandler passes on
  next, last,   \* the range of callbacks it is still to call
  undefined,    \* the code's behaviour is undefined from here on
  updates,      \* history: the number of updates
  owed,         \* history: what each listener is to be told
  told          \* history: what each listener was told

handlerVars == <<service, argument, next, last>>
vars == <<subscribed, constructed, callbacks, info, handlerVars, undefined,
          updates, owed, told>>

-----------------------------------------------------------------------------
\* The value a DimInfo takes when the link to its server is lost, as given to
\* its constructor; an empty BurstTimeStruct has size 0.
Empty == <<>>

NoLink(s) ==
  CASE s \in {"NextBurstNumber", "BurstNumber", "RunNumber"} -> -1
    [] s \in {"SOB", "EOB"} -> 0
    [] OTHER -> Empty

Published(s) ==
  {NoLink(s)} \cup (IF s = "BurstTimeStruct" THEN BurstTimes ELSE Numbers)

\* uint burstID = burstNumber_.getInt(); a BurstTimeStruct is copied.
Converted(s, v) == IF s = "BurstTimeStruct" THEN v ELSE v % UintModulus

\* Updates that concern the farm: every number, and the burst times of a burst
\* that has ended in a run.
Complete(s, v) ==
  s # "BurstTimeStruct" \/ (v # Empty /\ v.eobTime * v.runNumber # 0)

\* A BurstTimeStruct is passed on if it is not empty and has both an end of
\* burst and a run number.
PassedOn(s, v) ==
  s = "BurstTimeStruct" => v # Empty /\ v.eobTime # 0 /\ v.runNumber # 0

\* Mutant: two branches of infoHandler use the same vector.
CallbacksOfMixed(s) ==
  callbacks[IF s = "NextBurstNumber" THEN "BurstNumber" ELSE s]

\* The vector that infoHandler walks through.
CallbacksOf(s) == callbacks[s]

Init ==
  /\ subscribed = 0
  /\ constructed = FALSE
  /\ callbacks = [s \in Services |-> <<>>]
  /\ info = [s \in Services |-> NoLink(s)]
  /\ service = "none"
  /\ argument = 0
  /\ next = 1 /\ last = 0
  /\ undefined = FALSE
  /\ updates = 0
  /\ owed = [l \in Listeners |-> <<>>]
  /\ told = [l \in Listeners |-> <<>>]

-----------------------------------------------------------------------------
\* The constructor makes the six DimInfo members.
Subscribe ==
  /\ subscribed < Len(SubscriptionOrder)
  /\ subscribed' = subscribed + 1
  /\ UNCHANGED <<constructed, callbacks, info, handlerVars, undefined, updates,
                 owed, told>>

\* It makes the vectors and returns.
Construct ==
  /\ subscribed = Len(SubscriptionOrder)
  /\ ~ constructed
  /\ constructed' = TRUE
  /\ UNCHANGED <<subscribed, callbacks, info, handlerVars, undefined, updates,
                 owed, told>>

\* register...Listener.  While infoHandler walks through the same vector, the
\* push_back may move it under infoHandler's feet; if there is room, the new
\* callback is behind the end that infoHandler knows.
Register(l) ==
  LET s == ListensTo[l]
  IN  /\ constructed
      /\ l \notin ToSet(callbacks[s])
      /\ callbacks' = [callbacks EXCEPT ![s] = Append(@, l)]
      /\ undefined' \in IF service = s THEN BOOLEAN ELSE {FALSE}
      /\ UNCHANGED <<subscribed, constructed, info, handlerVars, updates, owed,
                     told>>

-----------------------------------------------------------------------------
\* Every update that concerns the farm is owed to the listeners that are
\* registered for its service.
Owe(s, v) ==
  owed' = [l \in Listeners |->
             IF Complete(s, v) /\ l \in ToSet(callbacks[s])
             THEN Append(owed[l], Converted(s, v)) ELSE owed[l]]

\* DIM stores an update and calls infoHandler, which reads the value and
\* starts its loop.  Before the vectors exist this is undefined.
Update(s, v) ==
  /\ service = "none"
  /\ updates < MaxUpdates
  /\ s \in ToSet(SubSeq(SubscriptionOrder, 1, subscribed))
  /\ updates' = updates + 1
  /\ info' = [info EXCEPT ![s] = v]
  /\ service' = s
  /\ argument' = Converted(s, v)
  /\ next' = 1
  /\ last' = IF PassedOn(s, v) THEN Len(CallbacksOf(s)) ELSE 0
  /\ undefined' = ~ constructed
  /\ Owe(s, v)
  /\ UNCHANGED <<subscribed, constructed, callbacks, told>>

\* callback(value)
CallBack ==
  /\ service # "none"
  /\ next <= last
  /\ LET l == CallbacksOf(service)[next]
     IN  told' = [told EXCEPT ![l] = Append(@, argument)]
  /\ next' = next + 1
  /\ UNCHANGED <<subscribed, constructed, callbacks, info, service, argument,
                 last, undefined, updates, owed>>

\* Mutant: infoHandler returns after the first callback.
AllCalledEarly == next > last \/ next > 1

\* The loop is done.
AllCalled == next > last

Return ==
  /\ service # "none"
  /\ AllCalled
  /\ service' = "none"
  /\ UNCHANGED <<subscribed, constructed, callbacks, info, argument, next, last,
                 undefined, updates, owed, told>>

-----------------------------------------------------------------------------
Next ==
  /\ ~ undefined
  /\ \/ Subscribe
     \/ Construct
     \/ \E l \in Listeners : Register(l)
     \/ \E s \in Services : \E v \in Published(s) : Update(s, v)
     \/ CallBack
     \/ Return

\* infoHandler goes on once it was called; updates and registrations need not
\* happen.
Spec == Init /\ [][Next]_vars /\ WF_vars(~ undefined /\ (CallBack \/ Return))

-----------------------------------------------------------------------------
\* What a getter returns, once there was an update.
Get(s) == Converted(s, info[s])

\* Every listener was told the updates of its own service since its
\* registration, once each, in order, and those only (of the burst times only
\* complete ones); just the one that is being delivered may be missing.
\* Between two updates what it was told last is what the getter returns.
ListenersInformed ==
  ~ undefined =>
    \A l \in Listeners :
      /\ IsPrefix(told[l], owed[l])
      /\ service # ListensTo[l] => told[l] = owed[l]
      /\ service # ListensTo[l] /\ told[l] # <<>> /\ ListensTo[l] # "BurstTimeStruct"
           => Last(told[l]) = Get(ListensTo[l])

\* Every listener hears of every update, whatever is registered meanwhile.
UpdateReachesAll ==
  \A l \in Listeners : \A n \in 1..MaxUpdates :
    Len(owed[l]) >= n ~> (Len(told[l]) >= n \/ undefined)
=============================================================================
