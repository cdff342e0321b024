------------------------ MODULE DimListener_proofs ------------------------
(***************************************************************************)
(* Every listener is told every update of its service once and in order,   *)
(* for any set of listeners, any values and any number of updates, as long *)
(* as the farm's thread does not make the behaviour undefined.             *)
(***************************************************************************)
EXTENDS DimListener, SequenceTheorems, TLAPS

\* What infoHandler may pass on.
Values == UNION {{Converted(s, v) : v \in Published(s)} : s \in Services}

Registered(l) == l \in ToSet(callbacks[ListensTo[l]])

DimTypeOK ==
  /\ callbacks \in [Services -> Seq(Listeners)]
  /\ owed \in [Listeners -> Seq(Values)]
  /\ told \in [Listeners -> Seq(Values)]
  /\ service \in Services \cup {"none"}
  /\ service # "none" => argument \in Values
  /\ next \in Nat /\ last \in Nat
  /\ info \in [Services -> UNION {Published(s) : s \in Services}]

\* Every vector holds listeners of its own service, each once.
VectorInv ==
  \A s \in Services :
    /\ \A i \in DOMAIN callbacks[s] : ListensTo[callbacks[s][i]] = s
    /\ \A i, j \in DOMAIN callbacks[s] : callbacks[s][i] = callbacks[s][j] => i = j

\* infoHandler does not walk beyond the end of its vector.
RangeInv ==
  service # "none" => 1 <= next /\ next <= last + 1 /\ last <= Len(callbacks[service])

\* Only listeners that infoHandler is still to call miss something, and what
\* they miss is what it is about to tell them.
ToldInv(l) ==
  /\ ~ Registered(l) => owed[l] = <<>> /\ told[l] = <<>>
  /\ service # ListensTo[l] => told[l] = owed[l]
  /\ service = ListensTo[l] =>
       \A i \in DOMAIN callbacks[service] :
         callbacks[service][i] = l =>
           IF next <= i /\ i <= last THEN owed[l] = Append(told[l], argument)
                                     ELSE told[l] = owed[l]

\* The last number owed to a listener is the one its DimInfo holds.
GetInv(l) ==
  ListensTo[l] # "BurstTimeStruct" /\ owed[l] # <<>> =>
    owed[l][Len(owed[l])] = Get(ListensTo[l])

DefinedInv ==
  /\ DimTypeOK
  /\ VectorInv
  /\ RangeInv
  /\ \A l \in Listeners : ToldInv(l) /\ GetInv(l)

IInv == ~ undefined => DefinedInv

-----------------------------------------------------------------------------
\* "none" is no service.
LEMMA NoneIsNoService == "none" \notin Services
BY DEF Services, SubscriptionOrder, ToSet

\* infoHandler passes on exactly the updates that concern the farm: its two
\* conditions on a BurstTimeStruct are what complete burst times are.
LEMMA PassedOnIfComplete ==
  ASSUME NEW s \in Services, NEW v \in Published(s)
  PROVE  PassedOn(s, v) <=> Complete(s, v)
<1>1. CASE s # "BurstTimeStruct"
  BY <1>1 DEF PassedOn, Complete
<1>2. CASE s = "BurstTimeStruct" /\ v # Empty
  <2>1. v \in BurstTimes
    BY <1>2 DEF Published, NoLink
  <2>2. v.eobTime \in Int /\ v.runNumber \in Int
    BY <2>1, DimAssumption
  <2>3. \A a, b \in Int : a * b # 0 <=> a # 0 /\ b # 0
    BY SMT
  <2>4. v.eobTime * v.runNumber # 0 <=> v.eobTime # 0 /\ v.runNumber # 0
    BY <2>2, <2>3
  <2> QED BY <1>2, <2>4 DEF PassedOn, Complete
<1>3. CASE s = "BurstTimeStruct" /\ v = Empty
  BY <1>3 DEF PassedOn, Complete
<1> QED BY <1>1, <1>2, <1>3

\* Nobody is registered at the start, and nobody is owed anything.
LEMMA InitIInv == Init => IInv
<1> SUFFICES ASSUME Init PROVE DefinedInv
  BY DEF IInv
<1>1. \A s \in Services : callbacks[s] = <<>> /\ DOMAIN callbacks[s] = {}
  BY DEF Init
<1>2. \A l \in Listeners : owed[l] = <<>> /\ told[l] = <<>>
  BY DEF Init
<1>3. DimTypeOK
  <2>1. \A s \in Services : NoLink(s) \in Published(s)
    BY DEF Published
  <2> QED BY <2>1 DEF Init, DimTypeOK
<1>4. VectorInv /\ RangeInv
  BY <1>1 DEF VectorInv, RangeInv, Init
<1>5. \A l \in Listeners : ToldInv(l) /\ GetInv(l)
  <2>1. \A l \in Listeners : service # ListensTo[l]
    BY NoneIsNoService, DimAssumption DEF Init
  <2> QED BY <1>2, <2>1 DEF ToldInv, GetInv
<1> QED BY <1>3, <1>4, <1>5 DEF DefinedInv

\* register...Listener: the new callback is behind the end that a running
\* infoHandler knows, and nothing was owed to it before.
LEMMA RegisterKeeps ==
  ASSUME DefinedInv, NEW r \in Listeners, Register(r) PROVE DefinedInv'
<1> DEFINE q == ListensTo[r]
<1>1. /\ q \in Services /\ callbacks[q] \in Seq(Listeners) /\ ~ Registered(r)
      /\ callbacks' = [callbacks EXCEPT ![q] = Append(callbacks[q], r)]
      /\ UNCHANGED <<info, service, argument, next, last, owed, told>>
  BY DimAssumption DEF Register, DefinedInv, DimTypeOK, Registered, handlerVars
<1>2. /\ Len(callbacks[q]) \in Nat
      /\ DOMAIN callbacks[q] = 1..Len(callbacks[q])
      /\ callbacks'[q] = Append(callbacks[q], r)
      /\ DOMAIN callbacks'[q] = 1..(Len(callbacks[q]) + 1)
      /\ Len(callbacks'[q]) = Len(callbacks[q]) + 1
      /\ callbacks'[q][Len(callbacks[q]) + 1] = r
      /\ \A i \in 1..Len(callbacks[q]) : callbacks'[q][i] = callbacks[q][i]
      /\ \A s \in Services : s # q => callbacks'[s] = callbacks[s]
  BY <1>1 DEF DefinedInv, DimTypeOK
<1>3. \A i \in 1..Len(callbacks[q]) : callbacks[q][i] # r
  BY <1>1, <1>2 DEF Registered, ToSet
<1> HIDE DEF q
<1>4. DimTypeOK'
  <2>1. Append(callbacks[q], r) \in Seq(Listeners)
    BY <1>1
  <2> QED BY <1>1, <2>1 DEF DefinedInv, DimTypeOK
<1>5. VectorInv'
  <2>1. VectorInv /\ ListensTo[r] = q
    BY DEF DefinedInv, q
  <2>2. ASSUME NEW s \in Services, s # q
        PROVE  /\ \A i \in DOMAIN callbacks'[s] : ListensTo[callbacks'[s][i]] = s
               /\ \A i, j \in DOMAIN callbacks'[s] :
                    callbacks'[s][i] = callbacks'[s][j] => i = j
    BY <1>2, <2>1, <2>2 DEF VectorInv
  <2>3. /\ \A i \in DOMAIN callbacks'[q] : ListensTo[callbacks'[q][i]] = q
        /\ \A i, j \in DOMAIN callbacks'[q] :
             callbacks'[q][i] = callbacks'[q][j] => i = j
    BY <1>1, <1>2, <1>3, <2>1 DEF VectorInv
  <2> QED BY <2>2, <2>3 DEF VectorInv
<1>6. RangeInv'
  <2>1. service # "none" => Len(callbacks'[service]) >= Len(callbacks[service])
    BY <1>1, <1>2 DEF DefinedInv, DimTypeOK
  <2> QED BY <1>1, <2>1 DEF DefinedInv, RangeInv, DimTypeOK
<1>7. ASSUME NEW l \in Listeners PROVE ToldInv(l)' /\ GetInv(l)'
  <2>1. ToldInv(l) /\ GetInv(l) /\ ListensTo[l] \in Services
    BY DimAssumption DEF DefinedInv
  <2>2. GetInv(l)'
    BY <1>1, <2>1 DEF GetInv, Get
  <2>3. Registered(l) => Registered(l)'
    <3>1. CASE ListensTo[l] = q
      BY <1>2, <3>1 DEF Registered, ToSet
    <3>2. CASE ListensTo[l] # q
      BY <1>2, <2>1, <3>2 DEF Registered
    <3> QED BY <3>1, <3>2
  <2>4. CASE service = ListensTo[l] /\ service = q
    <3>1. last <= Len(callbacks[q]) /\ last \in Nat
      BY <1>1, <2>4, NoneIsNoService DEF DefinedInv, RangeInv, DimTypeOK
    <3>2. ASSUME NEW i \in DOMAIN callbacks'[q], callbacks'[q][i] = l
          PROVE  IF next <= i /\ i <= last THEN owed[l] = Append(told[l], argument)
                                           ELSE told[l] = owed[l]
      <4>1. CASE i = Len(callbacks[q]) + 1
        <5>1. l = r /\ ~ (i <= last)
          BY <1>2, <3>1, <3>2, <4>1
        <5>2. told[l] = owed[l]
          BY <1>1, <2>1, <5>1 DEF ToldInv
        <5> QED BY <5>1, <5>2
      <4>2. CASE i \in 1..Len(callbacks[q])
        BY <1>2, <2>1, <2>4, <3>2, <4>2 DEF ToldInv
      <4> QED BY <1>2, <4>1, <4>2
    <3> QED BY <1>1, <2>1, <2>2, <2>3, <2>4, <3>2 DEF ToldInv
  <2>5. CASE ~ (service = ListensTo[l] /\ service = q)
    <3>1. service = ListensTo[l] => callbacks'[service] = callbacks[service]
      BY <1>2, <2>1, <2>5
    <3> QED BY <1>1, <2>1, <2>2, <2>3, <3>1 DEF ToldInv
  <2> QED BY <2>2, <2>4, <2>5
<1> QED BY <1>4, <1>5, <1>6, <1>7 DEF DefinedInv

\* An update is owed to the registered listeners of its service, and
\* infoHandler is about to tell it to just those.
LEMMA UpdateKeeps ==
  ASSUME DefinedInv, NEW s \in Services, NEW v \in Published(s), Update(s, v)
  PROVE  DefinedInv'
<1>1. /\ service = "none" /\ service' = s /\ s # "none"
      /\ argument' = Converted(s, v) /\ argument' \in Values
      /\ info' = [info EXCEPT ![s] = v]
      /\ next' = 1
      /\ last' = IF PassedOn(s, v) THEN Len(callbacks[s]) ELSE 0
      /\ UNCHANGED <<callbacks, told>>
      /\ owed' = [l \in Listeners |->
                    IF Complete(s, v) /\ l \in ToSet(callbacks[s])
                    THEN Append(owed[l], Converted(s, v)) ELSE owed[l]]
  BY NoneIsNoService DEF Update, Owe, CallbacksOf, Values
<1>2. PassedOn(s, v) <=> Complete(s, v)
  BY PassedOnIfComplete
<1>3. /\ callbacks \in [Services -> Seq(Listeners)] /\ Len(callbacks[s]) \in Nat
      /\ DOMAIN callbacks[s] = 1..Len(callbacks[s])
      /\ last' \in 0..Len(callbacks[s]) /\ next' \in Nat
  BY <1>1 DEF DefinedInv, DimTypeOK
<1>4. DimTypeOK'
  <2>1. \A l \in Listeners : Append(owed[l], Converted(s, v)) \in Seq(Values)
    BY <1>1 DEF DefinedInv, DimTypeOK
  <2>2. owed' \in [Listeners -> Seq(Values)]
    BY <1>1, <2>1 DEF DefinedInv, DimTypeOK
  <2>3. info' \in [Services -> UNION {Published(x) : x \in Services}]
    BY <1>1 DEF DefinedInv, DimTypeOK
  <2>4. last' \in Nat
    BY <1>3
  <2> QED BY <1>1, <1>3, <2>2, <2>3, <2>4 DEF DefinedInv, DimTypeOK
<1>5. VectorInv' /\ RangeInv'
  BY <1>1, <1>3 DEF DefinedInv, VectorInv, RangeInv
<1>6. ASSUME NEW l \in Listeners PROVE ToldInv(l)' /\ GetInv(l)'
  <2>1. /\ ToldInv(l) /\ GetInv(l) /\ ListensTo[l] \in Services
        /\ Registered(l)' <=> Registered(l)
    BY <1>1, DimAssumption DEF DefinedInv, Registered
  <2>2. told[l] = owed[l] /\ owed[l] \in Seq(Values)
    BY <1>1, <2>1, NoneIsNoService DEF ToldInv, DefinedInv, DimTypeOK
  <2>3. CASE ListensTo[l] # s
    <3>1. l \notin ToSet(callbacks[s])
      BY <2>3 DEF DefinedInv, VectorInv, ToSet
    <3>2. owed'[l] = owed[l] /\ Get(ListensTo[l])' = Get(ListensTo[l])
      BY <1>1, <2>1, <2>3, <3>1 DEF Get, DefinedInv, DimTypeOK
    <3> QED BY <1>1, <2>1, <2>2, <2>3, <3>2 DEF ToldInv, GetInv
  <2>4. CASE ListensTo[l] = s /\ ~ Registered(l)
    <3>1. owed'[l] = owed[l] /\ owed[l] = <<>>
      BY <1>1, <2>1, <2>4 DEF Registered, ToldInv
    <3>2. \A i \in DOMAIN callbacks[s] : callbacks[s][i] # l
      BY <2>4 DEF Registered, ToSet
    <3> QED BY <1>1, <2>1, <2>2, <2>4, <3>1, <3>2 DEF ToldInv, GetInv
  <2>5. CASE ListensTo[l] = s /\ Registered(l) /\ Complete(s, v)
    <3>1. owed'[l] = Append(told[l], argument') /\ last' = Len(callbacks[s])
      BY <1>1, <1>2, <2>2, <2>5 DEF Registered
    <3>2. ToldInv(l)'
      BY <1>1, <1>3, <2>1, <2>5, <3>1 DEF ToldInv
    <3>3. Get(s)' = argument'
      BY <1>1 DEF Get, DefinedInv, DimTypeOK
    <3>4. owed'[l][Len(owed'[l])] = argument'
      BY <2>2, <3>1
    <3> QED BY <2>5, <3>2, <3>3, <3>4 DEF GetInv
  <2>6. CASE ListensTo[l] = s /\ Registered(l) /\ ~ Complete(s, v)
    <3>1. owed'[l] = owed[l] /\ last' = 0 /\ s = "BurstTimeStruct"
      BY <1>1, <1>2, <2>6 DEF Complete
    <3>2. ToldInv(l)'
      BY <1>1, <1>3, <2>1, <2>2, <2>6, <3>1 DEF ToldInv
    <3> QED BY <2>6, <3>1, <3>2 DEF GetInv
  <2> QED BY <2>3, <2>4, <2>5, <2>6
<1> QED BY <1>4, <1>5, <1>6 DEF DefinedInv

\* callback(value): the listener gets what it was missing.
LEMMA CallBackKeeps == ASSUME DefinedInv, CallBack PROVE DefinedInv'
<1> DEFINE c == callbacks[service][next]
<1>1. /\ service \in Services /\ next <= last /\ next' = next + 1
      /\ told' = [told EXCEPT ![c] = Append(told[c], argument)]
      /\ UNCHANGED <<callbacks, info, service, argument, last, owed>>
      /\ next \in Nat /\ last \in Nat /\ 1 <= next /\ last <= Len(callbacks[service])
      /\ argument \in Values
  BY DEF CallBack, CallbacksOf, DefinedInv, DimTypeOK, RangeInv
<1>2. /\ callbacks[service] \in Seq(Listeners)
      /\ DOMAIN callbacks[service] = 1..Len(callbacks[service])
      /\ next \in DOMAIN callbacks[service]
  BY <1>1 DEF DefinedInv, DimTypeOK
<1>3. c \in Listeners /\ ListensTo[c] = service
  BY <1>1, <1>2 DEF DefinedInv, VectorInv
<1>4. owed[c] = Append(told[c], argument)
  <2>1. ToldInv(c)
    BY <1>3 DEF DefinedInv
  <2>2. \A i \in DOMAIN callbacks[service] :
          callbacks[service][i] = c /\ next <= i /\ i <= last
          => owed[c] = Append(told[c], argument)
    <3> HIDE DEF c
    <3> QED BY <2>1, <1>3 DEF ToldInv
  <2>3. callbacks[service][next] = c /\ next <= next /\ next <= last
    BY <1>1
  <2> QED BY <1>2, <2>2, <2>3
<1>5. DimTypeOK'
  <2>1. Append(told[c], argument) \in Seq(Values)
    BY <1>1, <1>3 DEF DefinedInv, DimTypeOK
  <2> HIDE DEF c
  <2>2. told' \in [Listeners -> Seq(Values)]
    BY <1>1, <2>1 DEF DefinedInv, DimTypeOK
  <2> QED BY <1>1, <2>2 DEF DefinedInv, DimTypeOK
<1>6. VectorInv' /\ RangeInv'
  BY <1>1 DEF DefinedInv, VectorInv, RangeInv
<1>7. ASSUME NEW l \in Listeners PROVE ToldInv(l)' /\ GetInv(l)'
  <2>1. /\ ToldInv(l) /\ GetInv(l)
        /\ Registered(l)' <=> Registered(l)
        /\ Get(ListensTo[l])' = Get(ListensTo[l])
    BY <1>1 DEF DefinedInv, Registered, Get
  <2>2. GetInv(l)'
    BY <1>1, <2>1 DEF GetInv
  <2>3. CASE l = c
    <3>1. told'[l] = owed[l] /\ Registered(l)
      BY <1>1, <1>2, <1>3, <1>4, <2>3 DEF Registered, ToSet, DefinedInv, DimTypeOK
    <3>2. \A i \in DOMAIN callbacks[service] : callbacks[service][i] = l => i = next
      BY <1>1, <1>2, <2>3 DEF DefinedInv, VectorInv
    <3> QED BY <1>1, <1>3, <2>1, <2>2, <2>3, <3>1, <3>2 DEF ToldInv
  <2>4. CASE l # c
    <3>1. told'[l] = told[l]
      BY <1>1, <2>4 DEF DefinedInv, DimTypeOK
    <3>2. \A i \in DOMAIN callbacks[service] :
            callbacks[service][i] = l => (next <= i <=> next + 1 <= i)
      BY <1>1, <1>2, <2>4
    <3> HIDE DEF c
    <3> QED BY <1>1, <2>1, <2>2, <3>1, <3>2 DEF ToldInv
  <2> QED BY <2>3, <2>4
<1> QED BY <1>5, <1>6, <1>7 DEF DefinedInv

\* The loop of infoHandler ends when nobody misses anything.
LEMMA ReturnKeeps == ASSUME DefinedInv, Return PROVE DefinedInv'
<1>1. /\ service \in Services /\ ~ (next <= last) /\ service' = "none"
      /\ UNCHANGED <<callbacks, info, argument, next, last, owed, told>>
  BY DEF Return, AllCalled, DefinedInv, DimTypeOK
<1>2. DimTypeOK' /\ VectorInv' /\ RangeInv'
  BY <1>1 DEF DefinedInv, DimTypeOK, VectorInv, RangeInv
<1>3. ASSUME NEW l \in Listeners PROVE ToldInv(l)' /\ GetInv(l)'
  <2>1. /\ ToldInv(l) /\ GetInv(l) /\ ListensTo[l] \in Services
        /\ Registered(l)' <=> Registered(l)
        /\ Get(ListensTo[l])' = Get(ListensTo[l])
    BY <1>1, DimAssumption DEF DefinedInv, Registered, Get
  <2>2. told[l] = owed[l]
    <3>1. CASE service # ListensTo[l] \/ ~ Registered(l)
      BY <2>1, <3>1 DEF ToldInv
    <3>2. CASE service = ListensTo[l] /\ Registered(l)
      <4>1. PICK i \in DOMAIN callbacks[service] : callbacks[service][i] = l
        BY <3>2 DEF Registered, ToSet
      <4>2. i \in Nat /\ next \in Nat /\ last \in Nat
        BY SMTT(30), <1>1 DEF DefinedInv, DimTypeOK
      <4>3. ~ (next <= i /\ i <= last)
        BY <1>1, <4>2
      <4> QED BY <2>1, <3>2, <4>1, <4>3 DEF ToldInv
    <3> QED BY <3>1, <3>2
  <2> QED BY <1>1, <2>1, <2>2, NoneIsNoService DEF ToldInv, GetInv
<1> QED BY <1>2, <1>3 DEF DefinedInv

\* Subscribing and constructing touch neither vectors nor updates.
LEMMA Untouched ==
  ASSUME DefinedInv, UNCHANGED <<callbacks, info, handlerVars, owed, told>>
  PROVE  DefinedInv'
<1>1. UNCHANGED <<callbacks, info, service, argument, next, last, owed, told>>
  BY DEF handlerVars
<1>2. DimTypeOK' /\ VectorInv' /\ RangeInv'
  BY <1>1 DEF DefinedInv, DimTypeOK, VectorInv, RangeInv
<1>3. \A l \in Listeners : ToldInv(l)' /\ GetInv(l)'
  BY <1>1 DEF DefinedInv, ToldInv, GetInv, Get, Registered
<1> QED BY <1>2, <1>3 DEF DefinedInv

\* Every step whose outcome is defined keeps the invariant.
LEMMA NextIInv == IInv /\ [Next]_vars => IInv'
<1> SUFFICES ASSUME IInv, [Next]_vars, ~ undefined' PROVE DefinedInv'
  BY DEF IInv
<1>1. CASE UNCHANGED vars
  BY <1>1, Untouched DEF IInv, vars
<1>2. CASE Next
  <2>0. DefinedInv
    <3>1. ~ undefined
      BY <1>2, Zenon DEF Next
    <3> QED BY <3>1 DEF IInv
  <2>1. CASE Subscribe \/ Construct
    BY <2>0, <2>1, Untouched DEF Subscribe, Construct
  <2> QED BY <1>2, <2>0, <2>1, RegisterKeeps, UpdateKeeps, CallBackKeeps, ReturnKeeps
         DEF Next
<1> QED BY <1>1, <1>2

\* The inductive invariant holds as long as the behaviour is defined.
THEOREM Invariance == Spec => []IInv
BY InitIInv, NextIInv, PTL DEF Spec

\* Every listener was told every update of its service since its registration,
\* once each, in order and converted as the getters do it; just the one that
\* infoHandler is delivering may be missing.
THEOREM AllInformed == Spec => []ListenersInformed
<1>1. IInv => ListenersInformed
  <2> SUFFICES ASSUME DefinedInv, NEW l \in Listeners
               PROVE  /\ IsPrefix(told[l], owed[l])
                      /\ service # ListensTo[l] => told[l] = owed[l]
                      /\ service # ListensTo[l] /\ told[l] # <<>>
                           /\ ListensTo[l] # "BurstTimeStruct"
                         => Last(told[l]) = Get(ListensTo[l])
    BY DEF IInv, ListenersInformed
  <2>1. ToldInv(l) /\ GetInv(l) /\ told[l] \in Seq(Values) /\ owed[l] \in Seq(Values)
    BY DEF DefinedInv, DimTypeOK
  <2>2. service # ListensTo[l] => told[l] = owed[l]
    BY <2>1 DEF ToldInv
  <2>3. \/ told[l] = owed[l]
        \/ owed[l] = Append(told[l], argument) /\ argument \in Values
    <3>1. CASE service # ListensTo[l] \/ ~ Registered(l)
      BY <2>1, <3>1 DEF ToldInv
    <3>2. CASE service = ListensTo[l] /\ Registered(l)
      <4>1. PICK i \in DOMAIN callbacks[service] : callbacks[service][i] = l
        BY <3>2 DEF Registered, ToSet
      <4>2. argument \in Values
        BY <3>2, NoneIsNoService, DimAssumption DEF DefinedInv, DimTypeOK
      <4> QED BY <2>1, <3>2, <4>1, <4>2 DEF ToldInv
    <3> QED BY <3>1, <3>2
  <2>4. IsPrefix(told[l], owed[l])
    <3>1. CASE told[l] = owed[l]
      BY <2>1, <3>1 DEF IsPrefix
    <3>2. CASE owed[l] = Append(told[l], argument) /\ argument \in Values
      <4>1. /\ Len(told[l]) \in Nat /\ Len(owed[l]) = Len(told[l]) + 1
            /\ \A i \in 1..Len(told[l]) : owed[l][i] = told[l][i]
        BY <2>1, <3>2
      <4>2. SubSeq(told[l], 1, Len(told[l])) = SubSeq(owed[l], 1, Len(told[l]))
        BY <2>1, <4>1
      <4> QED BY <4>1, <4>2 DEF IsPrefix
    <3> QED BY <2>3, <3>1, <3>2
  <2>5. service # ListensTo[l] /\ told[l] # <<>> /\ ListensTo[l] # "BurstTimeStruct"
          => Last(told[l]) = Get(ListensTo[l])
    BY <2>1, <2>2 DEF GetInv, Last
  <2> QED BY <2>2, <2>4, <2>5
<1> QED BY <1>1, Invariance, PTL
=============================================================================
