------------------------- MODULE IPCHandler_proofs -------------------------
(***************************************************************************)
(* The sockets and pointers of IPCHandler: what holds for any number of    *)
(* calling threads, calls and failures, and what holds if one thread makes *)
(* all calls.                                                              *)
(***************************************************************************)
EXTENDS IPCHandler, FiniteSetTheorems, TLAPS

-----------------------------------------------------------------------------
(***************************************************************************)
(* What the operations of ZMQHandler do to the registry of sockets:        *)
(* numberOfActiveSockets_ is the number of open sockets as long as only    *)
(* open sockets, or null pointers, are destroyed.                          *)
(***************************************************************************)

\* There are finitely many open sockets, and the null pointer is none.
LEMMA OpenFinite ==
  ASSUME ZMQTypeOK
  PROVE  IsFiniteSet(Open) /\ nullptr \notin Open /\ created + 1 \notin Open
<1>1. created \in Nat /\ Open \subseteq 1..created
  BY DEF ZMQTypeOK
<1>2. IsFiniteSet(1..created)
  BY <1>1, FS_Interval
<1>3. IsFiniteSet(Open)
  BY <1>1, <1>2, FS_Subset
<1>4. nullptr \notin Open /\ created + 1 \notin Open
  BY <1>1 DEF nullptr
<1> QED BY <1>3, <1>4

\* At the start there is no socket.
LEMMA ZMQInitTypeOK == ASSUME ZMQInit PROVE ZMQTypeOK /\ Open = {}
<1>1. Open = {}
  BY DEF ZMQInit, Open
<1> QED BY <1>1, FS_EmptySet DEF ZMQInit, ZMQTypeOK

\* GenerateSocket opens a socket that never was open before.
LEMMA GenerateEffect ==
  ASSUME ZMQTypeOK, NEW name, GenerateSocket(name)
  PROVE  /\ ZMQTypeOK'
         /\ Open' = Open \cup {created + 1}
         /\ allSockets'[created + 1] = name
         /\ \A s \in Open : allSockets'[s] = allSockets[s]
         /\ created' = created + 1 /\ lost' = lost /\ running' = running
         /\ context = "open" /\ context' = "open"
<1>1. Open' = Open \cup {created + 1}
  BY DEF GenerateSocket, Open
<1>2. allSockets'[created + 1] = name
  BY DEF GenerateSocket
<1>3. \A s \in Open : allSockets'[s] = allSockets[s]
  BY OpenFinite DEF GenerateSocket
<1>4. created' = created + 1 /\ created \in Nat /\ Open \subseteq 1..created
  BY DEF GenerateSocket, ZMQTypeOK
<1>5. Open' \subseteq 1..created'
  BY <1>1, <1>4
<1>6. Cardinality(Open') = Cardinality(Open) + 1
  BY <1>1, OpenFinite, FS_AddElement
<1>7. numberOfActiveSockets' = Cardinality(Open')
  BY <1>6 DEF GenerateSocket, ZMQTypeOK
<1>8. /\ running' = running /\ context' = context /\ lost' = lost
      /\ context = "open"
  BY DEF GenerateSocket
<1>9. ZMQTypeOK'
  BY <1>4, <1>5, <1>7, <1>8 DEF ZMQTypeOK
<1> QED BY <1>1, <1>2, <1>3, <1>4, <1>8, <1>9

\* DestroySocket closes the socket it is given; a null pointer is ignored.
LEMMA DestroyEffect ==
  ASSUME ZMQTypeOK, NEW socket \in Open \cup {nullptr}, DestroySocket(socket)
  PROVE  /\ ZMQTypeOK'
         /\ Open' = Open \ {socket}
         /\ \A s \in Open \ {socket} : allSockets'[s] = allSockets[s]
         /\ UNCHANGED <<running, context, created, lost>>
<1>1. Open' = Open \ {socket}
  BY DEF DestroySocket, Open
<1>2. \A s \in Open \ {socket} : allSockets'[s] = allSockets[s]
  BY DEF DestroySocket
<1>3. UNCHANGED <<running, context, created, lost>>
  BY DEF DestroySocket
<1>4. numberOfActiveSockets' = Cardinality(Open')
  <2>1. CASE socket = nullptr
    <3>1. Open' = Open
      BY <1>1, <2>1, OpenFinite
    <3> QED BY <2>1, <3>1 DEF DestroySocket, RemainingSockets, ZMQTypeOK
  <2>2. CASE socket # nullptr
    <3>1. Cardinality(Open') = Cardinality(Open) - 1
      BY <1>1, <2>2, OpenFinite, FS_RemoveElement
    <3> QED BY <2>2, <3>1 DEF DestroySocket, RemainingSockets, ZMQTypeOK
  <2> QED BY <2>1, <2>2
<1>5. ZMQTypeOK'
  <2>1. Open' \subseteq 1..created'
    BY <1>1, <1>3 DEF ZMQTypeOK
  <2> QED BY <1>3, <1>4, <2>1 DEF ZMQTypeOK
<1> QED BY <1>1, <1>2, <1>3, <1>5

\* A step that leaves the registry alone, apart from running_ and the state of
\* the context, keeps it in order.
LEMMA RegistryUnchanged ==
  ASSUME ZMQTypeOK, running' \in BOOLEAN,
         context' \in {"open", "terminating", "closed"},
         UNCHANGED <<allSockets, numberOfActiveSockets, created>>, lost' \in Nat
  PROVE  ZMQTypeOK' /\ Open' = Open
BY DEF ZMQTypeOK, Open

-----------------------------------------------------------------------------
\* An open socket a pointer points to was made for this pointer.
NamedInv == \A n \in Slots : pointer[n] \in Open => allSockets[pointer[n]] = n

\* A call that uses a socket knows which.
SlotInv ==
  \A t \in Callers : callState[t] \in {"send", "receive", "clear"} => callSlot[t] \in Slots

IInv ==
  /\ TypeOK
  /\ NamedInv
  /\ SlotInv
  /\ PointersValid

\* The six socket variables, and the three that each side uses.
LEMMA SlotFacts ==
  /\ Slots = {"stateSender", "statisticsSender", "commandSender",
              "stateReceiver", "statisticsReceiver", "commandReceiver"}
  /\ \A i \in 1..6 : ShutDownOrder[i] \in Slots
BY DEF Slots, ShutDownOrder

\* connectClient and bindServer create three sockets, each for one of the pointers.
LEMMA OrderFacts ==
  /\ DOMAIN Order = 1..3
  /\ \A i \in 1..3 : Order[i] \in Slots
BY SlotFacts DEF Order

-----------------------------------------------------------------------------
\* The types, step by step.  First the steps that leave ZMQ and the pointers
\* alone.
LEMMA CallTypes ==
  ASSUME TypeOK, NEW t \in Callers,
         \/ CheckPointer(t) \/ ConnectStep(t) \/ ReturnUnsent(t) \/ BeginUse(t)
         \/ SetTimeout(t) \/ Send(t) \/ Receive(t) \/ ReceiveTimeout(t)
         \/ Interrupted(t) \/ UseDestroyed(t)
         \/ \E n \in Slots \cup {"setTimeout"} : Call(t, n)
  PROVE  TypeOK' /\ UNCHANGED <<zmqVars, pointer, mainVars>>
<1>1. UNCHANGED <<zmqVars, pointer, mainVars, role>>
  BY DEF CheckPointer, ConnectStep, ReturnUnsent, BeginUse, SetTimeout, Send, Receive,
     ReceiveTimeout, Interrupted, UseDestroyed, Call, ipcVars
<1>2. ZMQTypeOK' /\ Open' = Open /\ created' = created
  BY <1>1, RegistryUnchanged DEF TypeOK, ZMQTypeOK, zmqVars
<1>3. /\ callState' \in [Callers -> {"idle", "check", "connect", "use", "send",
                                    "receive", "clear", "undefined"}]
      /\ callSlot' \in [Callers -> Slots \cup {"setTimeout", "none"}]
      /\ step' \in [Callers -> 1..6]
  BY DEF TypeOK, CheckPointer, ConnectStep, ReturnUnsent, BeginUse, SetTimeout, Send,
     Receive, ReceiveTimeout, Interrupted, UseDestroyed, Call, GoTo, Return
<1>4. held' \in [Callers -> 0..created]
  BY DEF TypeOK, CheckPointer, ConnectStep, ReturnUnsent, BeginUse, SetTimeout, Send,
     Receive, ReceiveTimeout, Interrupted, UseDestroyed, Call, GoTo, Return, nullptr, ZMQTypeOK
<1>5. /\ connected' \subseteq 1..created
      /\ timed' \subseteq 1..created
  BY DEF TypeOK, CheckPointer, ConnectStep, ReturnUnsent, BeginUse, SetTimeout, Send,
     Receive, ReceiveTimeout, Interrupted, UseDestroyed, Call, ipcVars, ZMQTypeOK
<1>6. active' \in [Slots -> BOOLEAN]
  BY DEF TypeOK, CheckPointer, ConnectStep, ReturnUnsent, BeginUse, SetTimeout, Send,
     Receive, ReceiveTimeout, Interrupted, UseDestroyed, Call, ipcVars, FlagsRaised
<1>7. calls' \in [Callers -> Nat] /\ errors' \in 0..MaxErrors /\ setbacks' \in Nat
  BY IPCAssumption DEF TypeOK, CheckPointer, ConnectStep, ReturnUnsent, BeginUse, SetTimeout,
     Send, Receive, ReceiveTimeout, Interrupted, UseDestroyed, Call, Return, history
<1>8. misused' \in BOOLEAN /\ overlapped' \in BOOLEAN /\ failedWhileRunning' \in BOOLEAN
  BY DEF TypeOK, CheckPointer, ConnectStep, ReturnUnsent, BeginUse, SetTimeout,
     Send, Receive, ReceiveTimeout, Interrupted, UseDestroyed, Call, history
<1> QED BY <1>1, <1>2, <1>3, <1>4, <1>5, <1>6, <1>7, <1>8 DEF TypeOK, mainVars

\* The number of every open socket is one that was given out.
LEMMA PointerTypes ==
  ASSUME TypeOK
  PROVE  /\ created \in Nat /\ created + 1 \in Nat
         /\ \A n \in Slots : pointer[n] \in 0..created
         /\ 0..created \subseteq 0..(created + 1)
         /\ 1..created \subseteq 1..(created + 1)
BY DEF TypeOK, ZMQTypeOK

\* GenerateSocket makes a socket for the pointer it is assigned to.
LEMMA GenerateTypes ==
  ASSUME TypeOK, NEW t \in Callers, GenerateStep(t)
  PROVE  TypeOK'
<1> DEFINE n == Order[step[t]]
<1>1. step[t] \in 1..3 /\ step[t] + 1 \in 1..6
  BY DEF TypeOK, GenerateStep
<1>2. n \in Slots
  BY <1>1, OrderFacts
<1>3. GenerateSocket(n)
  BY DEF GenerateStep
<1> HIDE DEF n
<1>4. ZMQTypeOK' /\ created' = created + 1
  BY <1>3, GenerateEffect DEF TypeOK
<1>5. pointer' \in [Slots -> 0..created']
  <2>1. pointer' = [pointer EXCEPT ![n] = created + 1]
    BY DEF GenerateStep, n
  <2>2. pointer \in [Slots -> 0..(created + 1)] /\ created + 1 \in 0..(created + 1)
    BY PointerTypes DEF TypeOK
  <2> QED BY <2>1, <2>2, <1>4
<1>6. /\ held' \in [Callers -> 0..created']
      /\ connected' \subseteq 1..created' /\ timed' \subseteq 1..created'
  BY <1>4, PointerTypes DEF TypeOK, GenerateStep
<1>7. step' \in [Callers -> 1..6]
  BY <1>1 DEF TypeOK, GenerateStep
<1> QED BY <1>4, <1>5, <1>6, <1>7 DEF TypeOK, GenerateStep, history, mainVars

\* A failed connectClient or bindServer leaves the pointers alone.
LEMMA ConnectFailsTypes ==
  ASSUME TypeOK, NEW t \in Callers, ConnectFails(t)
  PROVE  TypeOK' /\ Open' = Open
<1>1. /\ UNCHANGED <<running, context, allSockets, numberOfActiveSockets, created>>
      /\ lost' \in {lost, lost + 1}
  BY DEF ConnectFails, GenerateSocketThrows, zmqVars
<1>2. ZMQTypeOK' /\ Open' = Open
  BY <1>1, RegistryUnchanged DEF TypeOK, ZMQTypeOK
<1>3. errors' \in 0..MaxErrors
  BY IPCAssumption DEF TypeOK, ConnectFails
<1>4. /\ callState' \in [Callers -> {"idle", "check", "connect", "use", "send",
                                    "receive", "clear", "undefined"}]
      /\ step' \in [Callers -> 1..6]
      /\ held' \in [Callers -> 0..created']
      /\ failedWhileRunning' \in BOOLEAN /\ setbacks' \in Nat
      /\ callSlot' \in [Callers -> Slots \cup {"setTimeout", "none"}]
  BY <1>1, PointerTypes DEF TypeOK, ConnectFails, Return, GoTo, nullptr, ZMQTypeOK
<1> QED BY <1>1, <1>2, <1>3, <1>4 DEF TypeOK, ConnectFails, Return, ipcVars, mainVars

\* A failed send or recv destroys at most the socket its pointer points to.
LEMMA FailsTypes ==
  ASSUME TypeOK, NEW t \in Callers, Fails(t)
  PROVE  /\ TypeOK'
         /\ UNCHANGED <<pointer, mainState, running, context, created, lost>>
         /\ \/ Open' = Open /\ UNCHANGED allSockets
            \/ /\ pointer[callSlot[t]] \in Open \cup {nullptr}
               /\ Open' = Open \ {pointer[callSlot[t]]}
               /\ \A s \in Open \ {pointer[callSlot[t]]} : allSockets'[s] = allSockets[s]
               /\ callState' = [callState EXCEPT ![t] = "clear"]
               /\ UNCHANGED callSlot
<1> DEFINE p == pointer[callSlot[t]]
<1>0. UNCHANGED <<pointer, active, connected, timed, role, overlapped, failedWhileRunning,
                  setbacks, mainState, shutStep>>
  BY DEF Fails, ipcVars, mainVars
<1>1. \/ UNCHANGED zmqVars
      \/ /\ p \in Open \cup {nullptr}
         /\ DestroySocket(p)
         /\ callState' = [callState EXCEPT ![t] = "clear"]
         /\ UNCHANGED callSlot
  BY DEF Fails, GoTo
<1>2. /\ callState' \in [Callers -> {"idle", "check", "connect", "use", "send",
                                    "receive", "clear", "undefined"}]
      /\ callSlot' \in [Callers -> Slots \cup {"setTimeout", "none"}]
      /\ step' \in [Callers -> 1..6]
      /\ calls' \in [Callers -> Nat]
  BY DEF TypeOK, Fails, Return, GoTo
<1>5. held' \in [Callers -> 0..created]
  BY PointerTypes DEF TypeOK, Fails, Return, GoTo, nullptr
<1>6. misused' \in BOOLEAN
  BY DEF TypeOK, Fails
<1>7. errors' \in 0..MaxErrors
  BY IPCAssumption DEF TypeOK, Fails
<1> HIDE DEF p
<1>3. CASE UNCHANGED zmqVars
  <2>1. ZMQTypeOK' /\ Open' = Open /\ created' = created
    BY <1>3, RegistryUnchanged DEF TypeOK, ZMQTypeOK, zmqVars
  <2>2. TypeOK'
    BY <1>0, <1>2, <1>5, <1>6, <1>7, <2>1 DEF TypeOK
  <2> QED BY <1>0, <1>3, <2>1, <2>2 DEF zmqVars
<1>4. CASE p \in Open \cup {nullptr} /\ DestroySocket(p)
           /\ callState' = [callState EXCEPT ![t] = "clear"] /\ UNCHANGED callSlot
  <2>1. /\ ZMQTypeOK' /\ Open' = Open \ {p} /\ UNCHANGED <<running, context, created, lost>>
        /\ \A s \in Open \ {p} : allSockets'[s] = allSockets[s]
    BY <1>4, DestroyEffect DEF TypeOK
  <2>2. TypeOK'
    BY <1>0, <1>2, <1>5, <1>6, <1>7, <2>1 DEF TypeOK
  <2> QED BY <1>0, <1>4, <2>1, <2>2 DEF p
<1> QED BY <1>1, <1>3, <1>4

\* Clearing a pointer.
LEMMA ClearTypes ==
  ASSUME TypeOK, NEW t \in Callers, ClearPointer(t)
  PROVE  TypeOK' /\ UNCHANGED zmqVars /\ Open' = Open
<1>1. ZMQTypeOK' /\ Open' = Open /\ created' = created /\ UNCHANGED zmqVars
  BY RegistryUnchanged DEF TypeOK, ZMQTypeOK, zmqVars, ClearPointer
<1>2. /\ callState' \in [Callers -> {"idle", "check", "connect", "use", "send",
                                    "receive", "clear", "undefined"}]
      /\ step' \in [Callers -> 1..6]
      /\ callSlot' \in [Callers -> Slots \cup {"setTimeout", "none"}]
      /\ setbacks' \in Nat
  BY DEF TypeOK, ClearPointer, Return, GoTo
<1>3. 0 \in 0..created
  BY PointerTypes
<1>4. held' \in [Callers -> 0..created]
  BY <1>3 DEF TypeOK, ClearPointer, Return, nullptr
<1>5. pointer' \in [Slots -> 0..created]
  BY <1>3 DEF TypeOK, ClearPointer, Cleared, nullptr
<1> QED BY <1>1, <1>2, <1>4, <1>5 DEF TypeOK, ClearPointer, Return, mainVars

\* The main thread: shutDown destroys at most the socket of the variable it
\* looks at.
LEMMA MainTypes ==
  ASSUME TypeOK, MainStop \/ ShutDown
  PROVE  /\ TypeOK' /\ mainState' # "run"
         /\ UNCHANGED <<pointer, active, callVars>>
         /\ \/ Open' = Open /\ UNCHANGED allSockets
            \/ /\ DestroyInactive
               /\ Open' = Open \ {pointer[ShutDownOrder[shutStep]]}
               /\ \A s \in Open \ {pointer[ShutDownOrder[shutStep]]} :
                    allSockets'[s] = allSockets[s]
<1> DEFINE p == pointer[ShutDownOrder[shutStep]]
<1>0. UNCHANGED <<callVars, ipcVars, role, errors, failedWhileRunning, setbacks>>
  BY DEF MainStop, ShutDown, CheckActive, DestroyInactive, DestroyTwice, MainBeginShutdown,
     MainEndShutdown, history
<1>8. NextShutStep => mainState' \in {"check", "close"} /\ shutStep' \in 1..6
  BY DEF TypeOK, NextShutStep
<1>1. /\ mainState' \in {"check", "destroy", "close", "wait", "done", "undefined"}
      /\ shutStep' \in 1..6
  BY <1>8 DEF TypeOK, MainStop, ShutDown, CheckActive, DestroyInactive, DestroyTwice,
     MainBeginShutdown, MainEndShutdown
<1>5. misused' \in BOOLEAN
  BY DEF TypeOK, MainStop, ShutDown, CheckActive, DestroyInactive, DestroyTwice,
     MainBeginShutdown, MainEndShutdown, history
<1>6. overlapped' \in BOOLEAN
  <2>1. CASE MainStop
    BY <2>1 DEF MainStop
  <2>2. CASE ShutDown
    BY <2>2 DEF TypeOK, ShutDown, CheckActive, DestroyInactive, DestroyTwice,
     MainBeginShutdown, MainEndShutdown, history
  <2> QED BY <2>1, <2>2
<1>2. CASE UNCHANGED <<allSockets, numberOfActiveSockets, created, lost>>
           /\ running' \in BOOLEAN /\ context' \in {"open", "terminating", "closed"}
  <2>1. ZMQTypeOK' /\ Open' = Open /\ created' = created
    BY <1>2, RegistryUnchanged DEF TypeOK, ZMQTypeOK
  <2>2. TypeOK'
    BY <1>0, <1>1, <1>5, <1>6, <2>1 DEF TypeOK, callVars, ipcVars
  <2> QED BY <1>0, <1>1, <1>2, <2>1, <2>2 DEF ipcVars
<1>3. CASE DestroyInactive
  <2>1. p \in Open \cup {nullptr} /\ DestroySocket(p)
    BY <1>3 DEF DestroyInactive
  <2> HIDE DEF p
  <2>2. /\ ZMQTypeOK' /\ Open' = Open \ {p} /\ UNCHANGED <<running, context, created, lost>>
        /\ \A s \in Open \ {p} : allSockets'[s] = allSockets[s]
    BY <2>1, DestroyEffect DEF TypeOK
  <2>3. TypeOK'
    BY <1>0, <1>1, <1>5, <1>6, <2>2 DEF TypeOK, callVars, ipcVars
  <2> QED BY <1>0, <1>1, <1>3, <2>2, <2>3 DEF p, ipcVars
<1>4. DestroyInactive \/ /\ UNCHANGED <<allSockets, numberOfActiveSockets, created, lost>>
                         /\ running' \in BOOLEAN
                         /\ context' \in {"open", "terminating", "closed"}
  BY DEF MainStop, ShutDown, CheckActive, DestroyTwice, MainBeginShutdown, MainEndShutdown,
     Stop, BeginShutdown, EndShutdown, zmqVars, TypeOK, ZMQTypeOK
<1> QED BY <1>2, <1>3, <1>4

-----------------------------------------------------------------------------
(***************************************************************************)
(* The invariant, step by step.                                            *)
(***************************************************************************)

\* The start: no socket, no pointer, no call.
LEMMA InitIInv == Init => IInv
<1> SUFFICES ASSUME Init PROVE IInv
  OBVIOUS
<1>1. ZMQTypeOK /\ Open = {} /\ created = 0 /\ 0 \in 0..created
  BY ZMQInitTypeOK DEF Init, ZMQInit
<1>5. /\ pointer \in [Slots -> 0..created] /\ active \in [Slots -> BOOLEAN]
      /\ held \in [Callers -> 0..created] /\ calls \in [Callers -> Nat]
      /\ errors \in 0..MaxErrors /\ step \in [Callers -> 1..6] /\ shutStep \in 1..6
  BY <1>1, IPCAssumption DEF Init, nullptr
<1>2. TypeOK
  BY <1>1, <1>5 DEF Init, TypeOK
<1>3. NamedInv /\ SlotInv
  BY <1>1 DEF Init, NamedInv, SlotInv
<1>4. PointersValid
  BY DEF Init, PointersValid
<1> QED BY <1>2, <1>3, <1>4 DEF IInv

\* A call that leaves the registry and the pointers alone, and is not the one
\* that clears a pointer, cannot invalidate any.
LEMMA CallIInv ==
  ASSUME IInv, NEW t \in Callers,
         \/ CheckPointer(t) \/ ConnectStep(t) \/ ReturnUnsent(t) \/ BeginUse(t)
         \/ SetTimeout(t) \/ Send(t) \/ Receive(t) \/ ReceiveTimeout(t)
         \/ Interrupted(t) \/ UseDestroyed(t)
         \/ \E n \in Slots \cup {"setTimeout"} : Call(t, n)
  PROVE  IInv'
<1>1. TypeOK' /\ UNCHANGED <<zmqVars, pointer, mainVars>>
  BY CallTypes DEF IInv
<1>2. UNCHANGED allSockets /\ Open' = Open
  BY <1>1 DEF zmqVars, Open
<1>3. NamedInv'
  BY <1>1, <1>2 DEF IInv, NamedInv
<1>4. callState[t] # "clear" /\ \A u \in Callers \ {t} : callState'[u] = callState[u]
  BY DEF CheckPointer, ConnectStep, ReturnUnsent, BeginUse, SetTimeout, Send,
     Receive, ReceiveTimeout, Interrupted, UseDestroyed, Call, GoTo, Return, IInv, TypeOK
<1>5. \A u \in Callers \ {t} : callSlot'[u] = callSlot[u]
  BY DEF CheckPointer, ConnectStep, ReturnUnsent, BeginUse, SetTimeout, Send,
     Receive, ReceiveTimeout, Interrupted, UseDestroyed, Call, GoTo, Return, IInv, TypeOK
<1>6. callState'[t] \in {"send", "receive", "clear"} => callSlot'[t] \in Slots
  BY DEF CheckPointer, ConnectStep, ReturnUnsent, BeginUse, SetTimeout, Send,
     Receive, ReceiveTimeout, Interrupted, UseDestroyed, Call, GoTo, Return, IInv, TypeOK
<1>7. SlotInv'
  BY <1>4, <1>5, <1>6 DEF IInv, SlotInv
<1>8. PointersValid'
  <2> SUFFICES ASSUME mainState' = "run", NEW n \in Slots,
                      pointer'[n] # nullptr,
                      ~ (pointer'[n] \in Open' /\ allSockets'[pointer'[n]] = n)
               PROVE  \E u \in Callers : callState'[u] = "clear" /\ callSlot'[u] = n
    BY DEF PointersValid
  <2>1. PICK u \in Callers : callState[u] = "clear" /\ callSlot[u] = n
    BY <1>1, <1>2 DEF IInv, PointersValid, mainVars
  <2> QED BY <2>1, <1>4, <1>5
<1> QED BY <1>1, <1>3, <1>7, <1>8 DEF IInv

\* GenerateSocket's result goes to the pointer it was made for.
LEMMA GenerateIInv ==
  ASSUME IInv, NEW t \in Callers, GenerateStep(t)
  PROVE  IInv'
<1> DEFINE n == Order[step[t]]
<1>1. step[t] \in 1..3 /\ n \in Slots
  BY OrderFacts DEF IInv, TypeOK, GenerateStep
<1>2. GenerateSocket(n) /\ pointer' = [pointer EXCEPT ![n] = created + 1]
      /\ UNCHANGED <<callState, callSlot, mainState>>
  BY DEF GenerateStep, mainVars
<1>3. TypeOK'
  BY GenerateTypes DEF IInv
<1> HIDE DEF n
<1>4. /\ Open' = Open \cup {created + 1}
      /\ allSockets'[created + 1] = n
      /\ \A s \in Open : allSockets'[s] = allSockets[s]
  BY <1>2, GenerateEffect DEF IInv, TypeOK
<1>5. /\ \A m \in Slots : pointer[m] # created + 1
      /\ pointer'[n] = created + 1
      /\ \A m \in Slots \ {n} : pointer'[m] = pointer[m]
  BY <1>1, <1>2, PointerTypes DEF IInv, TypeOK
<1>6. NamedInv'
  BY <1>4, <1>5 DEF IInv, NamedInv
<1>7. SlotInv'
  BY <1>2 DEF IInv, SlotInv
<1>8. PointersValid'
  BY <1>2, <1>4, <1>5 DEF IInv, PointersValid
<1> QED BY <1>3, <1>6, <1>7, <1>8 DEF IInv

\* A failed connectClient changes no pointer and destroys no socket.
LEMMA ConnectFailsIInv ==
  ASSUME IInv, NEW t \in Callers, ConnectFails(t)
  PROVE  IInv'
<1>1. TypeOK' /\ Open' = Open
  BY ConnectFailsTypes DEF IInv
<1>2. UNCHANGED <<allSockets, pointer, mainState>>
  BY DEF ConnectFails, GenerateSocketThrows, zmqVars, ipcVars, mainVars
<1>3. /\ callState[t] # "clear" /\ callState'[t] = "idle"
      /\ \A u \in Callers \ {t} :
           callState'[u] = callState[u] /\ callSlot'[u] = callSlot[u]
  BY DEF ConnectFails, Return, GoTo, IInv, TypeOK
<1>4. NamedInv'
  BY <1>1, <1>2 DEF IInv, NamedInv
<1>5. SlotInv'
  BY <1>2, <1>3 DEF IInv, SlotInv
<1>6. PointersValid'
  BY <1>1, <1>2, <1>3 DEF IInv, PointersValid
<1> QED BY <1>1, <1>4, <1>5, <1>6 DEF IInv

\* A failed send or recv destroys the socket of one pointer only, since no two
\* point to the same, and is then about to clear that one.
LEMMA FailsIInv ==
  ASSUME IInv, NEW t \in Callers, Fails(t)
  PROVE  IInv'
<1> DEFINE n == callSlot[t]
           p == pointer[n]
<1>1. /\ TypeOK' /\ UNCHANGED <<pointer, mainState>>
      /\ \/ Open' = Open /\ UNCHANGED allSockets
         \/ /\ p \in Open \cup {nullptr}
            /\ Open' = Open \ {p}
            /\ \A s \in Open \ {p} : allSockets'[s] = allSockets[s]
            /\ callState' = [callState EXCEPT ![t] = "clear"]
            /\ UNCHANGED callSlot
  BY FailsTypes DEF IInv
<1>2. callState[t] \in {"send", "receive"} /\ n \in Slots
  BY DEF Fails, IInv, SlotInv
<1>3. /\ \A u \in Callers \ {t} :
           callState'[u] = callState[u] /\ callSlot'[u] = callSlot[u]
      /\ callState'[t] \in {"idle", "clear", "undefined"}
      /\ callState'[t] = "clear" => callSlot'[t] = n
  BY DEF Fails, Return, GoTo, IInv, TypeOK
<1> HIDE DEF p
<1>4. NamedInv'
  BY <1>1 DEF IInv, NamedInv
<1>5. SlotInv'
  BY <1>2, <1>3 DEF IInv, SlotInv
<1>6. PointersValid'
  <2> SUFFICES ASSUME mainState' = "run", NEW m \in Slots,
                      pointer'[m] # nullptr,
                      ~ (pointer'[m] \in Open' /\ allSockets'[pointer'[m]] = m)
               PROVE  \E u \in Callers : callState'[u] = "clear" /\ callSlot'[u] = m
    BY DEF PointersValid
  <2>1. CASE \E u \in Callers : callState[u] = "clear" /\ callSlot[u] = m
    BY <2>1, <1>2, <1>3
  <2>2. CASE pointer[m] \in Open /\ allSockets[pointer[m]] = m
    <3>1. /\ p \in Open \cup {nullptr}
          /\ Open' = Open \ {p}
          /\ \A s \in Open \ {p} : allSockets'[s] = allSockets[s]
          /\ callState' = [callState EXCEPT ![t] = "clear"]
      BY <2>2, <1>1
    <3>2. pointer[m] = p
      BY <2>2, <3>1, <1>1
    <3>3. allSockets[p] = n
      BY <2>2, <3>2, <1>2 DEF IInv, NamedInv, p
    <3>4. m = n
      BY <2>2, <3>2, <3>3
    <3>5. callState'[t] = "clear" /\ callSlot'[t] = n
      BY <3>1, <1>3 DEF IInv, TypeOK
    <3> QED BY <3>4, <3>5
  <2> QED BY <2>1, <2>2, <1>1 DEF IInv, PointersValid
<1> QED BY <1>1, <1>4, <1>5, <1>6 DEF IInv

\* Clearing the pointer ends the exception.
LEMMA ClearIInv ==
  ASSUME IInv, NEW t \in Callers, ClearPointer(t)
  PROVE  IInv'
<1> DEFINE n == callSlot[t]
<1>1. TypeOK' /\ UNCHANGED allSockets /\ Open' = Open
  BY ClearTypes DEF IInv, zmqVars
<1>2. n \in Slots
  BY DEF ClearPointer, IInv, SlotInv
<1>3. /\ pointer'[n] = nullptr
      /\ \A m \in Slots \ {n} : pointer'[m] = pointer[m]
  BY <1>2 DEF ClearPointer, Cleared, IInv, TypeOK
<1>4. /\ callState'[t] = "idle"
      /\ \A u \in Callers \ {t} :
           callState'[u] = callState[u] /\ callSlot'[u] = callSlot[u]
      /\ UNCHANGED mainState
  BY DEF ClearPointer, Return, GoTo, mainVars, IInv, TypeOK
<1>5. nullptr \notin Open
  BY OpenFinite DEF IInv, TypeOK
<1>6. NamedInv'
  BY <1>1, <1>3, <1>5 DEF IInv, NamedInv
<1>7. SlotInv'
  BY <1>4 DEF IInv, SlotInv
<1>8. PointersValid'
  BY <1>1, <1>3, <1>4 DEF IInv, PointersValid
<1> QED BY <1>1, <1>6, <1>7, <1>8 DEF IInv

\* The main thread never goes back to before the shutdown.
LEMMA MainIInv ==
  ASSUME IInv, MainStop \/ ShutDown
  PROVE  IInv'
<1> DEFINE p == pointer[ShutDownOrder[shutStep]]
<1>1. /\ TypeOK' /\ mainState' # "run" /\ UNCHANGED <<pointer, callVars>>
      /\ \/ Open' = Open /\ UNCHANGED allSockets
         \/ /\ Open' = Open \ {p}
            /\ \A s \in Open \ {p} : allSockets'[s] = allSockets[s]
  BY MainTypes DEF IInv
<1> HIDE DEF p
<1>2. NamedInv'
  BY <1>1 DEF IInv, NamedInv
<1>3. SlotInv'
  BY <1>1 DEF IInv, SlotInv, callVars
<1>4. PointersValid'
  BY <1>1 DEF PointersValid
<1> QED BY <1>1, <1>2, <1>3, <1>4 DEF IInv

\* No step, and no stuttering step, breaks the invariant.
LEMMA NextIInv == IInv /\ [Next]_vars => IInv'
<1> SUFFICES ASSUME IInv, [Next]_vars PROVE IInv'
  OBVIOUS
<1>1. CASE MainStop \/ ShutDown
  BY <1>1, MainIInv
<1>2. ASSUME NEW t \in Callers, Caller(t) \/ \E n \in Slots \cup {"setTimeout"} : Call(t, n)
      PROVE  IInv'
  BY <1>2, CallIInv, GenerateIInv, ConnectFailsIInv, FailsIInv, ClearIInv DEF Caller
<1>3. CASE UNCHANGED vars
  <2>1. UNCHANGED <<running, context, allSockets, numberOfActiveSockets, created, lost>>
    BY <1>3 DEF vars, zmqVars
  <2>2. ZMQTypeOK' /\ Open' = Open
    BY <2>1, RegistryUnchanged DEF IInv, TypeOK, ZMQTypeOK
  <2>3. TypeOK'
    BY <1>3, <2>1, <2>2
    DEF vars, zmqVars, callVars, ipcVars, history, mainVars, IInv, TypeOK
  <2>4. NamedInv' /\ SlotInv' /\ PointersValid'
    BY <1>3, <2>1, <2>2
    DEF vars, callVars, ipcVars, mainVars, IInv, NamedInv, SlotInv, PointersValid
  <2> QED BY <2>3, <2>4 DEF IInv
<1> QED BY <1>1, <1>2, <1>3 DEF Next

\* The invariant holds in every reachable state, for any number of calling
\* threads.
THEOREM Invariance == Spec => []IInv
BY InitIInv, NextIInv, PTL DEF Spec

\* The types; numberOfActiveSockets_ is the number of open sockets, even
\* though shutDown and failing calls destroy sockets without a lock.
THEOREM TypeCorrect == Spec => []TypeOK
<1>1. IInv => TypeOK
  BY DEF IInv
<1> QED BY Invariance, <1>1, PTL

\* Until the process shuts down, a pointer of IPCHandler that is not null
\* points to an open socket made for it, however many threads call and
\* whichever calls fail, unless the failed call is about to clear it.
THEOREM PointersAreValid == Spec => []PointersValid
<1>1. IInv => PointersValid
  BY DEF IInv
<1> QED BY Invariance, <1>1, PTL

-----------------------------------------------------------------------------
(***************************************************************************)
(* One thread makes all calls.                                             *)
(***************************************************************************)

OneCaller == \E c : Callers = {c}

\* The three socket variables of this side.
Side == {Order[i] : i \in 1..3}

\* ZMQ runs until the main thread stops it, the context is open until it is
\* deleted, and only the socket variables of this side are ever set.
MainInv ==
  /\ running <=> mainState = "run"
  /\ mainState \in {"run", "check", "destroy"} => context = "open"
  /\ running => ~ overlapped
  /\ \A n \in Slots \ Side : pointer[n] = nullptr
  /\ role \in {"client", "server"}

\* What the caller knows while ZMQ runs.
CallInv(t) ==
  /\ callState[t] # "idle" => callSlot[t] \in Side \cup {"setTimeout"}
  /\ callSlot[t] = "setTimeout" => role = "server"
  /\ callState[t] \in {"send", "receive"} =>
       callSlot[t] \in Slots /\ held[t] = pointer[callSlot[t]] /\ held[t] \in Open
  /\ callState[t] = "use" => pointer[Target(t)] \in Open
  /\ callState[t] = "connect" =>
       \A i \in 1..3 : i < step[t] => pointer[Order[i]] \in Open
  /\ callState[t] # "connect" => step[t] = 1
  /\ callState[t] = "receive" => callSlot[t] \in Receivers
  /\ callState[t] = "send" => callSlot[t] \notin Receivers
  /\ callState[t] \in {"receive", "clear"} /\ callSlot[t] \in Receivers =>
       active[callSlot[t]]

\* While nothing failed, the sockets of a side are created together, and every
\* open one has its pointer.
WholeInv(t) ==
  errors = 0 =>
    /\ lost = 0
    /\ callState[t] # "clear"
    /\ \A s \in Open : \E n \in Slots : pointer[n] = s
    /\ callState[t] # "connect" =>
         \/ \A n \in Slots : pointer[n] = nullptr
         \/ \A i \in 1..3 : pointer[Order[i]] \in Open \cap connected
    /\ callState[t] = "connect" =>
         /\ \A i \in 1..3 : i >= step[t] => pointer[Order[i]] = nullptr
         /\ \A i \in 1..3 : pointer[Order[i]] \in connected <=> i + 3 < step[t]

\* While the main thread shuts down, unless a call overlapped its beginning:
\* the caller is in recv or done with it, it has raised its flag, and the main
\* thread has left the sockets ahead of it alone.
StopInv(t) ==
  /\ callState[t] \in {"idle", "receive", "clear"}
  /\ callState[t] \in {"receive", "clear"} =>
       callSlot[t] \in Slots \cap Receivers /\ active[callSlot[t]]
  /\ callState[t] = "receive" =>
       held[t] = pointer[callSlot[t]] /\ held[t] \in Open
  /\ mainState = "destroy" => ~ active[ShutDownOrder[shutStep]]
  /\ mainState \in {"check", "destroy"} =>
       \A i \in shutStep..6 :
         \/ pointer[ShutDownOrder[i]] \in Open \cup {nullptr}
         \/ callState[t] = "clear" /\ callSlot[t] = ShutDownOrder[i]

MisuseExcused == misused => overlapped \/ TimeoutOnNull

SoloInv ==
  /\ MainInv
  /\ \A t \in Callers : mainState = "run" => CallInv(t) /\ WholeInv(t)
  /\ \A t \in Callers : mainState # "run" /\ ~ overlapped => StopInv(t)
  /\ MisuseExcused

\* The socket variables of one side are three different ones, and setTimeout
\* is about the first two of the server.
LEMMA SideFacts ==
  /\ Side \subseteq Slots
  /\ \A i \in 1..3 : Order[i] \in Side
  /\ \A i, j \in 1..3 : Order[i] = Order[j] => i = j
  /\ \A n \in Side : \E i \in 1..3 : n = Order[i]
  /\ {Order[i] : i \in DOMAIN Order} = Side
  /\ "setTimeout" \notin Slots /\ "none" \notin Slots
  /\ role = "server" => Order[2] = "statisticsReceiver" /\ Order[1] = "stateReceiver"
<1>1. Side \subseteq Slots /\ {Order[i] : i \in DOMAIN Order} = Side
  BY OrderFacts DEF Side
<1>2. \A i, j \in 1..3 : Order[i] = Order[j] => i = j
  BY DEF Order
<1>3. "setTimeout" \notin Slots /\ "none" \notin Slots
  BY SlotFacts
<1>4. role = "server" => Order[2] = "statisticsReceiver" /\ Order[1] = "stateReceiver"
  BY DEF Order
<1> QED BY <1>1, <1>2, <1>3, <1>4 DEF Side

\* What a call checks first is a variable of this side.
LEMMA TargetFacts ==
  ASSUME NEW t, CallInv(t), callState[t] # "idle"
  PROVE  Target(t) \in Side /\ Target(t) \in Slots
BY SideFacts DEF CallInv, Target

\* The null pointer is no socket and is not connected.
LEMMA NullFacts ==
  ASSUME TypeOK
  PROVE  nullptr \notin Open /\ nullptr \notin connected
BY OpenFinite DEF TypeOK, nullptr

\* Outside the moment in which a failed call clears a pointer, every pointer is
\* null or open.
LEMMA RunPointers ==
  ASSUME IInv, OneCaller, NEW t \in Callers, mainState = "run", callState[t] # "clear"
  PROVE  \A n \in Slots : pointer[n] = nullptr \/ pointer[n] \in Open
BY DEF IInv, PointersValid, OneCaller

\* The role never changes, and so neither do the socket variables in use.
LEMMA RoleUnchanged ==
  ASSUME [Next]_vars
  PROVE  role' = role /\ Order' = Order /\ Side' = Side
<1>1. role' = role
  BY DEF Next, Caller, ShutDown, MainStop, CheckActive, DestroyInactive, DestroyTwice,
     MainBeginShutdown, MainEndShutdown, CheckPointer, GenerateStep, ConnectStep,
     ConnectFails, ReturnUnsent, BeginUse, SetTimeout, Send, Receive, ReceiveTimeout,
     Interrupted, Fails, ClearPointer, UseDestroyed, Call, vars
<1>2. Order' = Order
  BY <1>1 DEF Order
<1> QED BY <1>1, <1>2 DEF Side

\* Only the main thread changes running_ and the context.
LEMMA MainInvNext ==
  ASSUME IInv, MainInv, [Next]_vars
  PROVE  MainInv'
<1>0. role' = role /\ Order' = Order /\ Side' = Side
  BY RoleUnchanged
<1>1. CASE MainStop \/ ShutDown
  <2>1. /\ running' <=> mainState' = "run"
        /\ mainState' \in {"run", "check", "destroy"} => context' = "open"
        /\ running' => ~ overlapped'
    <3>1. mainState' # "run"
      BY <1>1, MainTypes DEF IInv
    <3>2. CASE MainStop
      BY <3>1, <3>2 DEF MainStop, Stop, MainInv
    <3>3. CASE CheckActive \/ DestroyInactive \/ DestroyTwice
      <4>1. mainState \in {"check", "destroy"} /\ UNCHANGED <<running, context>>
        BY <3>3 DEF CheckActive, DestroyInactive, DestroyTwice, DestroySocket, zmqVars
      <4> QED BY <3>1, <4>1 DEF MainInv
    <3>4. CASE MainBeginShutdown \/ MainEndShutdown
      <4>1. mainState # "run" /\ mainState' \in {"wait", "done"} /\ UNCHANGED running
        BY <3>4 DEF MainBeginShutdown, MainEndShutdown, BeginShutdown, EndShutdown
      <4> QED BY <3>1, <4>1 DEF MainInv
    <3> QED BY <1>1, <3>2, <3>3, <3>4 DEF ShutDown
  <2>2. UNCHANGED pointer
    BY <1>1, MainTypes DEF IInv
  <2> QED BY <1>0, <2>1, <2>2 DEF MainInv
<1>2. ASSUME NEW t \in Callers, Caller(t) \/ \E n \in Slots \cup {"setTimeout"} : Call(t, n)
      PROVE  MainInv'
  <2>1. UNCHANGED <<running, context, mainState>>
    BY <1>2 DEF Caller, CheckPointer, GenerateStep, ConnectStep, ConnectFails, ReturnUnsent,
       BeginUse, SetTimeout, Send, Receive, ReceiveTimeout, Interrupted, Fails, ClearPointer,
       UseDestroyed, Call, mainVars, zmqVars, GenerateSocket, GenerateSocketThrows,
       DestroySocket
  <2>2. overlapped' => overlapped \/ ~ running
    BY <1>2 DEF Caller, CheckPointer, GenerateStep, ConnectStep, ConnectFails, ReturnUnsent,
       BeginUse, SetTimeout, Send, Receive, ReceiveTimeout, Interrupted, Fails, ClearPointer,
       UseDestroyed, Call, history
  <2>3. \A n \in Slots \ Side : pointer'[n] = nullptr
    <3>1. CASE UNCHANGED pointer
      BY <3>1 DEF MainInv
    <3>2. CASE ClearPointer(t)
      BY <3>2 DEF ClearPointer, Cleared, MainInv, IInv, TypeOK
    <3>3. CASE GenerateStep(t)
      <4>1. step[t] \in 1..3
        BY <3>3 DEF GenerateStep, IInv, TypeOK
      <4> QED BY <3>3, <4>1, SideFacts DEF GenerateStep, MainInv, IInv, TypeOK
    <3> QED
      BY <1>2, <3>1, <3>2, <3>3 DEF Caller, CheckPointer, ConnectStep, ConnectFails,
         ReturnUnsent, BeginUse, SetTimeout, Send, Receive, ReceiveTimeout, Interrupted,
         Fails, UseDestroyed, Call, ipcVars
  <2> QED BY <1>0, <2>1, <2>2, <2>3 DEF MainInv
<1>3. CASE UNCHANGED vars
  BY <1>0, <1>3 DEF MainInv, vars, zmqVars, ipcVars, history, mainVars
<1> QED BY <1>1, <1>2, <1>3 DEF Next

-----------------------------------------------------------------------------
\* While ZMQ runs.  A call begins.
LEMMA RunCall ==
  ASSUME IInv, NEW t \in Callers, CallInv(t), WholeInv(t), UNCHANGED <<role, Order, Side>>,
         NEW n \in Slots \cup {"setTimeout"}, Call(t, n)
  PROVE  CallInv(t)' /\ WholeInv(t)'
<1>1. /\ callState[t] = "idle" /\ callState'[t] = "check" /\ callSlot'[t] = n
      /\ n \in Side \/ (role = "server" /\ n = "setTimeout")
      /\ step'[t] = step[t]
  BY SideFacts DEF Call, GoTo, IInv, TypeOK
<1>2. UNCHANGED <<lost, allSockets, pointer, connected, active, errors>> /\ Open' = Open
  BY DEF Call, zmqVars, ipcVars, Open
<1>3. n = "setTimeout" => role = "server"
  BY <1>1, SideFacts
<1>4. CallInv(t)'
  BY <1>1, <1>3 DEF CallInv
<1>5. WholeInv(t)'
  BY <1>1, <1>2 DEF WholeInv
<1> QED BY <1>4, <1>5

\* The pointer is checked: it is open, or none of this side's is set yet.
LEMMA RunCheckPointer ==
  ASSUME IInv, MainInv, OneCaller, NEW t \in Callers, mainState = "run",
         CallInv(t), WholeInv(t), UNCHANGED <<role, Order, Side>>, CheckPointer(t)
  PROVE  CallInv(t)' /\ WholeInv(t)'
<1>1. /\ callState[t] = "check" /\ step'[t] = 1
      /\ UNCHANGED <<callSlot, held, lost, allSockets, pointer, connected, active, errors>>
      /\ Open' = Open
      /\ \/ callState'[t] = "use" /\ pointer[Target(t)] # nullptr
         \/ callState'[t] = "connect" /\ pointer[Target(t)] = nullptr
  BY DEF CheckPointer, MustConnect, GoTo, zmqVars, ipcVars, history, Open, IInv, TypeOK,
     CallInv, MainInv
<1>2. Target(t) \in Side /\ Target(t) \in Slots /\ Target(t)' = Target(t)
  BY <1>1, TargetFacts DEF Target
<1>3. \A m \in Slots : pointer[m] = nullptr \/ pointer[m] \in Open
  BY <1>1, RunPointers
<1>4. nullptr \notin Open /\ nullptr \notin connected
  BY NullFacts DEF IInv
<1>5. CallInv(t)'
  BY <1>1, <1>2, <1>3 DEF CallInv
<1>6. WholeInv(t)'
  <2>1. CASE callState'[t] = "use"
    BY <1>1, <2>1 DEF WholeInv
  <2>2. CASE callState'[t] = "connect" /\ pointer[Target(t)] = nullptr
    <3>1. PICK j \in 1..3 : Target(t) = Order[j]
      BY <1>2, SideFacts
    <3>2. errors = 0 => \A m \in Slots : pointer[m] = nullptr
      BY <1>1, <1>4, <2>2, <3>1 DEF WholeInv
    <3>3. \A i \in 1..3 : Order[i] \in Slots
      BY OrderFacts
    <3> QED BY <1>1, <1>4, <2>2, <3>2, <3>3 DEF WholeInv
  <2> QED BY <1>1, <2>1, <2>2
<1> QED BY <1>5, <1>6

\* connectClient or bindServer makes one socket after the other.
LEMMA RunGenerate ==
  ASSUME IInv, NEW t \in Callers, CallInv(t), WholeInv(t), UNCHANGED <<role, Order, Side>>,
         GenerateStep(t)
  PROVE  CallInv(t)' /\ WholeInv(t)'
<1> DEFINE k == step[t]
           n == Order[k]
<1>1. /\ k \in 1..3 /\ n \in Slots /\ step'[t] = k + 1
      /\ callState[t] = "connect" /\ GenerateSocket(n)
      /\ pointer' = [pointer EXCEPT ![n] = created + 1]
      /\ UNCHANGED <<callState, callSlot, held, active, connected, errors>>
  BY OrderFacts DEF GenerateStep, IInv, TypeOK, history
<1> HIDE DEF n
<1>2. Open' = Open \cup {created + 1} /\ lost' = lost
  BY <1>1, GenerateEffect DEF IInv, TypeOK
<1>3. /\ pointer'[n] = created + 1
      /\ \A m \in Slots \ {n} : pointer'[m] = pointer[m]
      /\ created + 1 \notin connected /\ created + 1 # nullptr
  BY <1>1, PointerTypes DEF IInv, TypeOK, nullptr
<1>4. \A i \in 1..3 : Order[i] \in Slots /\ (Order[i] = n <=> i = k)
  BY <1>1, OrderFacts, SideFacts DEF n
<1>5. \A i \in 1..3 : i # k => pointer'[Order[i]] = pointer[Order[i]]
  BY <1>3, <1>4
<1>6. pointer'[Order[k]] = created + 1
  BY <1>3 DEF n
<1> HIDE DEF k
<1>7. CallInv(t)'
  <2>1. \A i \in 1..3 : i < step'[t] => pointer'[Order[i]] \in Open'
    <3> SUFFICES ASSUME NEW i \in 1..3, i < k + 1 PROVE pointer'[Order[i]] \in Open'
      BY <1>1
    <3>1. CASE i = k
      BY <3>1, <1>6, <1>2
    <3>2. CASE i # k
      <4>1. i < k
        BY <3>2, <1>1
      <4>2. pointer[Order[i]] \in Open
        BY <4>1, <1>1 DEF CallInv, k
      <4> QED BY <4>2, <3>2, <1>5, <1>2
    <3> QED BY <3>1, <3>2
  <2> QED BY <1>1, <2>1 DEF CallInv
<1>8. WholeInv(t)'
  <2> SUFFICES ASSUME errors = 0
               PROVE  /\ lost' = 0
                      /\ \A s \in Open' : \E m \in Slots : pointer'[m] = s
                      /\ \A i \in 1..3 : i >= k + 1 => pointer'[Order[i]] = nullptr
                      /\ \A i \in 1..3 : pointer'[Order[i]] \in connected <=> i + 3 < k + 1
    BY <1>1 DEF WholeInv
  <2>1. /\ lost = 0
        /\ \A s \in Open : \E m \in Slots : pointer[m] = s
        /\ \A i \in 1..3 : i >= k => pointer[Order[i]] = nullptr
        /\ \A i \in 1..3 : pointer[Order[i]] \in connected <=> i + 3 < k
    BY <1>1 DEF WholeInv, k
  <2>2. pointer[n] \notin Open
    <3>1. pointer[n] = nullptr
      BY <1>1, <2>1 DEF n
    <3> QED BY <3>1, NullFacts DEF IInv
  <2>3. \A s \in Open' : \E m \in Slots : pointer'[m] = s
    BY <1>1, <1>2, <1>3, <2>1, <2>2
  <2>4. \A i \in 1..3 : i >= k + 1 => pointer'[Order[i]] = nullptr
    BY <1>1, <1>5, <2>1
  <2>5. \A i \in 1..3 : pointer'[Order[i]] \in connected <=> i + 3 < k + 1
    BY <1>1, <1>3, <1>5, <1>6, <2>1
  <2> QED BY <1>2, <2>1, <2>3, <2>4, <2>5
<1> QED BY <1>7, <1>8

\* The second half of connectClient or bindServer.
LEMMA RunConnect ==
  ASSUME IInv, NEW t \in Callers, CallInv(t), WholeInv(t), UNCHANGED <<role, Order, Side>>,
         ConnectStep(t)
  PROVE  CallInv(t)' /\ WholeInv(t)'
<1> DEFINE k == step[t]
           n == Order[k - 3]
<1>1. /\ k \in 4..6 /\ k - 3 \in 1..3
      /\ callState[t] = "connect"
      /\ callState'[t] = IF k = 6 THEN "use" ELSE "connect"
      /\ step'[t] = IF k = 6 THEN 1 ELSE k + 1
  BY DEF ConnectStep, GoTo, IInv, TypeOK
<1>2. /\ connected' = connected \cup {pointer[n]}
      /\ UNCHANGED <<callSlot, held, active, pointer, errors, lost>> /\ Open' = Open
  BY DEF ConnectStep, zmqVars, history, Open
<1>3. \A i \in 1..3 : pointer[Order[i]] \in Open /\ Order[i] \in Slots
  BY <1>1, OrderFacts DEF CallInv
<1>4. \A i, j \in 1..3 : pointer[Order[i]] = pointer[Order[j]] => i = j
  <2>1. \A i \in 1..3 : allSockets[pointer[Order[i]]] = Order[i]
    BY <1>3 DEF IInv, NamedInv
  <2> QED BY <2>1, SideFacts
<1>5. \A i \in 1..3 : pointer[Order[i]] \in connected' <=>
                        pointer[Order[i]] \in connected \/ i = k - 3
  BY <1>1, <1>2, <1>4
<1>6. Target(t) \in Side /\ Target(t)' = Target(t)
  BY <1>1, <1>2, TargetFacts DEF Target
<1>7. pointer[Target(t)] \in Open
  BY <1>3, <1>6, SideFacts
<1> HIDE DEF k, n
<1>8. CallInv(t)'
  <2>1. callSlot[t] \in Side \cup {"setTimeout"}
    BY <1>1 DEF CallInv
  <2> QED BY <1>1, <1>2, <1>3, <1>6, <1>7, <2>1 DEF CallInv
<1>9. WholeInv(t)'
  <2> SUFFICES ASSUME errors = 0 PROVE WholeInv(t)'
    BY <1>2 DEF WholeInv
  <2>1. /\ lost = 0
        /\ \A s \in Open : \E m \in Slots : pointer[m] = s
        /\ \A i \in 1..3 : pointer[Order[i]] \in connected <=> i + 3 < k
    BY <1>1 DEF WholeInv, k
  <2>2. \A i \in 1..3 : pointer[Order[i]] \in connected' <=> i + 3 < k + 1
    BY <1>1, <1>5, <2>1
  <2>3. CASE k = 6
    <3>1. \A i \in 1..3 : pointer[Order[i]] \in Open \cap connected'
      BY <2>2, <2>3, <1>3
    <3>2. callState'[t] = "use"
      BY <1>1, <2>3
    <3> QED BY <1>2, <2>1, <3>1, <3>2 DEF WholeInv
  <2>4. CASE k # 6
    <3>1. callState'[t] = "connect" /\ step'[t] = k + 1
      BY <1>1, <2>4
    <3>2. \A i \in 1..3 : ~ (i >= k + 1)
      BY <1>1
    <3> QED BY <1>2, <2>1, <2>2, <3>1, <3>2 DEF WholeInv
  <2> QED BY <2>3, <2>4
<1> QED BY <1>8, <1>9

\* connectClient or bindServer fails: while nothing else failed it cannot, for
\* the context is open and no address is in use.
LEMMA RunConnectFails ==
  ASSUME IInv, MainInv, NEW t \in Callers, mainState = "run",
         CallInv(t), WholeInv(t), UNCHANGED <<role, Order, Side>>, ConnectFails(t)
  PROVE  CallInv(t)' /\ WholeInv(t)'
<1>1. /\ callState[t] = "connect" /\ callState'[t] = "idle" /\ step'[t] = 1
      /\ callSlot'[t] = "none"
  BY DEF ConnectFails, Return, GoTo, IInv, TypeOK
<1>2. CallInv(t)'
  BY <1>1 DEF CallInv
<1>3. errors' # 0
  <2>1. CASE errors' = errors + 1
    BY <2>1 DEF IInv, TypeOK
  <2>2. CASE errors' = errors /\ step[t] > 3 /\ AddressInUse(Order[step[t] - 3])
    <3> DEFINE j == step[t] - 3
    <3> SUFFICES ASSUME errors = 0 PROVE FALSE
      BY <2>2
    <3>1. j \in 1..3 /\ j + 3 = step[t]
      BY <2>2 DEF IInv, TypeOK
    <3>2. PICK s \in connected \cap Open : allSockets[s] = Order[j]
      BY <2>2 DEF AddressInUse
    <3>3. PICK m \in Slots : pointer[m] = s
      BY <3>2 DEF WholeInv
    <3>4. m = Order[j]
      BY <3>2, <3>3 DEF IInv, NamedInv
    <3>5. pointer[Order[j]] \notin connected
      <4>1. ~ (j + 3 < step[t])
        BY <3>1 DEF IInv, TypeOK
      <4> QED BY <1>1, <3>1, <4>1 DEF WholeInv
    <3> QED BY <3>2, <3>3, <3>4, <3>5
  <2>3. context = "open"
    BY DEF MainInv
  <2> QED BY <2>1, <2>2, <2>3 DEF ConnectFails
<1>4. WholeInv(t)'
  BY <1>3 DEF WholeInv
<1> QED BY <1>2, <1>4

\* The socket is used.
LEMMA RunBeginUse ==
  ASSUME IInv, NEW t \in Callers, CallInv(t), WholeInv(t), UNCHANGED <<role, Order, Side>>,
         BeginUse(t)
  PROVE  CallInv(t)' /\ WholeInv(t)'
<1> DEFINE n == callSlot[t]
<1>1. /\ n \in Slots /\ pointer[n] \in Open /\ held'[t] = pointer[n]
      /\ callState[t] = "use"
      /\ callState'[t] = IF n \in Receivers THEN "receive" ELSE "send"
      /\ UNCHANGED <<callSlot, step, pointer, connected, errors, lost>> /\ Open' = Open
  BY DEF BeginUse, GoTo, zmqVars, history, Open, IInv, TypeOK
<1>2. n \in Receivers => active'[n] = TRUE
  BY <1>1 DEF BeginUse, FlagsRaised, IInv, TypeOK
<1>3. CallInv(t)'
  BY <1>1, <1>2 DEF CallInv
<1>4. WholeInv(t)'
  BY <1>1 DEF WholeInv
<1> QED BY <1>3, <1>4

\* The call returns; if it had to clear its pointer, something had failed.
LEMMA RunReturn ==
  ASSUME IInv, NEW t \in Callers, CallInv(t), WholeInv(t), UNCHANGED <<role, Order, Side>>,
         \/ ReturnUnsent(t) \/ SetTimeout(t) \/ Send(t) \/ Receive(t) \/ ReceiveTimeout(t)
         \/ Interrupted(t) \/ ClearPointer(t)
  PROVE  CallInv(t)' /\ WholeInv(t)'
<1>1. /\ callState'[t] = "idle" /\ step'[t] = 1 /\ callSlot'[t] = "none"
      /\ callState[t] # "connect"
  BY DEF ReturnUnsent, SetTimeout, Send, Receive, ReceiveTimeout, Interrupted, ClearPointer,
     Return, GoTo, IInv, TypeOK
<1>2. CallInv(t)'
  BY <1>1 DEF CallInv
<1>3. CASE ClearPointer(t)
  <2>1. errors' = errors /\ callState[t] = "clear"
    BY <1>3 DEF ClearPointer, history
  <2> QED BY <1>2, <2>1 DEF WholeInv
<1>4. CASE ~ ClearPointer(t)
  <2>1. UNCHANGED <<lost, allSockets, pointer, connected>> /\ Open' = Open
    BY <1>4 DEF ReturnUnsent, SetTimeout, Send, Receive, ReceiveTimeout, Interrupted,
       zmqVars, ipcVars, Open
  <2>2. errors' = 0 => errors = 0
    BY <1>4 DEF ReturnUnsent, SetTimeout, Send, Receive, ReceiveTimeout, Interrupted,
       history, IInv, TypeOK
  <2>3. WholeInv(t)'
    BY <1>1, <2>1, <2>2 DEF WholeInv
  <2> QED BY <1>2, <2>3
<1> QED BY <1>3, <1>4

\* send or recv fails.
LEMMA RunFails ==
  ASSUME IInv, MainInv, NEW t \in Callers, mainState = "run", CallInv(t),
         UNCHANGED <<role, Order, Side>>, Fails(t)
  PROVE  CallInv(t)' /\ WholeInv(t)' /\ UNCHANGED misused
<1>1. /\ callState[t] \in {"send", "receive"} /\ step[t] = 1
      /\ callSlot[t] \in Slots /\ pointer[callSlot[t]] \in Open
  BY DEF Fails, CallInv
<1>2. /\ step'[t] = 1
      /\ \/ callState'[t] = "idle" /\ callSlot'[t] = "none"
         \/ callState'[t] = "clear" /\ callSlot'[t] = callSlot[t]
      /\ UNCHANGED <<active, misused, role>>
  BY <1>1 DEF Fails, Return, GoTo, ipcVars, IInv, TypeOK
<1>3. errors' # 0
  BY DEF Fails, MainInv, IInv, TypeOK
<1>4. CallInv(t)'
  BY <1>1, <1>2 DEF CallInv
<1>5. WholeInv(t)'
  BY <1>3 DEF WholeInv
<1> QED BY <1>2, <1>4, <1>5

\* Nothing that is gone is used, except that setTimeout goes through a
\* stateReceiver_ that a failed receive cleared.
LEMMA RunUseDestroyed ==
  ASSUME IInv, MainInv, NEW t \in Callers, mainState = "run",
         CallInv(t), WholeInv(t), UNCHANGED <<role, Order, Side>>, UseDestroyed(t)
  PROVE  CallInv(t)' /\ WholeInv(t)' /\ TimeoutOnNull'
<1>1. /\ callState'[t] = "undefined"
      /\ UNCHANGED <<callSlot, step, pointer, connected, errors, lost, role>> /\ Open' = Open
  BY DEF UseDestroyed, GoTo, zmqVars, ipcVars, Open, IInv, TypeOK
<1>2. /\ callState[t] = "use" /\ callSlot[t] = "setTimeout"
      /\ pointer["stateReceiver"] \notin Open
  <2>1. context = "open"
    BY DEF MainInv
  <2>2. ~ (callState[t] = "use" /\ pointer[Target(t)] \notin Open)
    BY DEF CallInv
  <2>3. ~ (callState[t] \in {"send", "receive"} /\ held[t] \notin Open)
    BY DEF CallInv
  <2>4. ~ (callState[t] = "connect" /\ step[t] > 3 /\ pointer[Order[step[t] - 3]] \notin Open)
    <3> SUFFICES ASSUME callState[t] = "connect", step[t] > 3
                 PROVE  pointer[Order[step[t] - 3]] \in Open
      OBVIOUS
    <3>1. step[t] - 3 \in 1..3 /\ step[t] - 3 < step[t]
      BY DEF IInv, TypeOK
    <3> QED BY <3>1 DEF CallInv
  <2> QED BY <2>1, <2>2, <2>3, <2>4 DEF UseDestroyed
<1>3. errors # 0
  <2> SUFFICES ASSUME errors = 0 PROVE FALSE
    OBVIOUS
  <2>1. role = "server" /\ Target(t) = "statisticsReceiver" /\ pointer[Target(t)] \in Open
    BY <1>2 DEF CallInv, Target
  <2>2. Order[1] = "stateReceiver" /\ Target(t) \in Slots
    BY <2>1, SideFacts, SlotFacts
  <2>3. pointer[Target(t)] # nullptr
    BY <2>1, NullFacts DEF IInv
  <2>4. pointer[Order[1]] \in Open
    BY <1>2, <2>2, <2>3 DEF WholeInv
  <2> QED BY <1>2, <2>2, <2>4
<1>4. CallInv(t)'
  BY <1>1, <1>2 DEF CallInv
<1>5. WholeInv(t)'
  BY <1>1, <1>3 DEF WholeInv
<1>6. TimeoutOnNull'
  <2>1. errors' > 0 /\ callSlot'[t] = "setTimeout"
    BY <1>1, <1>2, <1>3 DEF IInv, TypeOK
  <2> QED BY <1>1, <2>1 DEF TimeoutOnNull
<1> QED BY <1>4, <1>5, <1>6

-----------------------------------------------------------------------------
\* While the main thread shuts down.  Two socket variables do not share an open
\* socket.
LEMMA PointersDistinct ==
  ASSUME IInv, NEW m \in Slots, NEW n \in Slots, pointer[m] = pointer[n], pointer[m] \in Open
  PROVE  m = n
BY DEF IInv, NamedInv

\* The variables shutDown looks at are six different ones.
LEMMA ShutDownFacts ==
  /\ \A i \in 1..6 : ShutDownOrder[i] \in Slots
  /\ \A i, j \in 1..6 : ShutDownOrder[i] = ShutDownOrder[j] => i = j
  /\ Receivers \cap LoggedOnly = {}
BY SlotFacts DEF ShutDownOrder, Receivers, LoggedOnly

\* The only thing left to do for the caller is to come out of recv.
LEMMA StopCaller ==
  ASSUME IInv, MainInv, NEW t \in Callers, mainState # "run", StopInv(t), ~ overlapped',
         Caller(t) \/ \E n \in Slots \cup {"setTimeout"} : Call(t, n)
  PROVE  StopInv(t)' /\ UNCHANGED misused
<1> DEFINE n == callSlot[t]
<1>0. ~ running
  BY DEF MainInv
<1>1. callState[t] \in {"receive", "clear"} /\ Caller(t)
  BY <1>0 DEF StopInv, Call, Caller, CheckPointer, GenerateStep, ConnectStep, ConnectFails,
     ReturnUnsent, BeginUse, SetTimeout, Send, Receive, ReceiveTimeout, Interrupted, Fails,
     ClearPointer, UseDestroyed
<1>2. n \in Slots /\ n \in Receivers /\ n \notin LoggedOnly /\ active[n]
  BY <1>1, ShutDownFacts DEF StopInv
<1>3. callState[t] = "receive" => held[t] = pointer[n] /\ held[t] \in Open
  BY DEF StopInv
<1>4. shutStep \in 1..6 /\ \A i \in shutStep..6 : i \in 1..6 /\ ShutDownOrder[i] \in Slots
  BY ShutDownFacts DEF IInv, TypeOK
<1>5. CASE Receive(t) \/ ReceiveTimeout(t) \/ Interrupted(t)
  <2>4. callState'[t] = "idle" /\ callState[t] \in {"send", "receive"}
    BY <1>5 DEF Receive, ReceiveTimeout, Interrupted, Return, GoTo, IInv, TypeOK
  <2>1. /\ callState[t] = "receive" /\ callState'[t] = "idle"
        /\ UNCHANGED <<pointer, allSockets, mainState, shutStep, misused>> /\ Open' = Open
    BY <1>1, <1>5, <2>4 DEF Receive, ReceiveTimeout, Interrupted, zmqVars, ipcVars, history,
       mainVars, Open
  <2>2. \A m \in Slots : active'[m] => active[m]
    BY <1>5 DEF Receive, ReceiveTimeout, Interrupted, ipcVars, IInv, TypeOK
  <2>3. mainState' = "destroy" => ~ active'[ShutDownOrder[shutStep']]
    BY <2>1, <2>2, <1>4, ShutDownFacts DEF StopInv
  <2> QED BY <2>1, <2>3 DEF StopInv
<1>6. CASE Fails(t)
  <2>1. /\ callState[t] = "receive" /\ callState'[t] = "clear"
        /\ UNCHANGED <<pointer, active, callSlot, mainState, shutStep, misused>>
    BY <1>1, <1>2, <1>3, <1>6 DEF Fails, GoTo, ipcVars, mainVars, IInv, TypeOK
  <2>2. Open' = Open \/ Open' = Open \ {pointer[n]}
    BY <1>6, FailsTypes DEF IInv
  <2>3. ASSUME NEW i \in shutStep..6, mainState \in {"check", "destroy"}
        PROVE  \/ pointer[ShutDownOrder[i]] \in Open' \cup {nullptr}
               \/ n = ShutDownOrder[i]
    <3>1. pointer[ShutDownOrder[i]] \in Open \cup {nullptr}
      BY <2>1, <2>3 DEF StopInv
    <3>2. CASE pointer[ShutDownOrder[i]] = pointer[n]
      <4>1. pointer[n] \in Open
        BY <1>3, <2>1
      <4> QED BY <3>2, <4>1, <1>2, <1>4, PointersDistinct
    <3>3. CASE pointer[ShutDownOrder[i]] # pointer[n]
      BY <3>1, <3>3, <2>2
    <3> QED BY <3>2, <3>3
  <2> QED BY <1>2, <2>1, <2>3 DEF StopInv
<1>7. CASE ClearPointer(t)
  <2>1. /\ callState'[t] = "idle" /\ pointer'[n] = nullptr
        /\ \A m \in Slots : m # n => pointer'[m] = pointer[m]
        /\ UNCHANGED <<active, mainState, shutStep, misused>> /\ Open' = Open
    BY <1>2, <1>7 DEF ClearPointer, Cleared, Return, GoTo, zmqVars, mainVars, Open,
       IInv, TypeOK
  <2> QED BY <1>4, <2>1 DEF StopInv
<1>8. ~ UseDestroyed(t)
  BY <1>1, <1>3 DEF UseDestroyed
<1> QED
  BY <1>1, <1>5, <1>6, <1>7, <1>8 DEF Caller, CheckPointer, GenerateStep, ConnectStep,
     ConnectFails, ReturnUnsent, BeginUse, SetTimeout, Send

\* shutDown leaves the socket alone whose flag is raised.
LEMMA StopShutDown ==
  ASSUME IInv, NEW t \in Callers, StopInv(t), ShutDown
  PROVE  StopInv(t)' /\ UNCHANGED misused
<1> DEFINE m == ShutDownOrder[shutStep]
<1>1. UNCHANGED <<pointer, active, callState, callSlot, held>>
  BY MainTypes DEF IInv, callVars
<1>2. /\ shutStep \in 1..6 /\ m \in Slots
      /\ \A i \in shutStep..6 : i \in 1..6 /\ ShutDownOrder[i] \in Slots
  BY ShutDownFacts DEF IInv, TypeOK
<1>3. NextShutStep =>
        /\ mainState' \in {"check", "close"}
        /\ mainState' = "check" => \A i \in shutStep'..6 : i \in shutStep..6 /\ i # shutStep
  BY <1>2 DEF NextShutStep
<1>4. CASE CheckActive
  <2>1. UNCHANGED misused /\ Open' = Open
    BY <1>4 DEF CheckActive, zmqVars, history, Open
  <2>2. CASE active[m] /\ NextShutStep
    BY <1>1, <1>3, <2>1, <2>2, <1>4 DEF StopInv, CheckActive
  <2>3. CASE ~ active[m] /\ mainState' = "destroy" /\ UNCHANGED shutStep
    BY <1>1, <2>1, <2>3, <1>4 DEF StopInv, CheckActive
  <2> QED BY <1>4, <2>2, <2>3 DEF CheckActive
<1>5. CASE DestroyInactive
  <2>1. /\ UNCHANGED misused /\ NextShutStep /\ mainState = "destroy"
        /\ pointer[m] \in Open \cup {nullptr}
    BY <1>5 DEF DestroyInactive, history
  <2>2. Open' = Open \/ Open' = Open \ {pointer[m]}
    BY MainTypes DEF IInv
  <2>3. ~ active[m]
    BY <2>1 DEF StopInv
  <2>4. callState[t] = "receive" => held[t] \in Open'
    <3> SUFFICES ASSUME callState[t] = "receive" PROVE held[t] # pointer[m]
      BY <2>2 DEF StopInv
    <3>1. callSlot[t] \in Slots /\ active[callSlot[t]] /\ held[t] = pointer[callSlot[t]]
          /\ held[t] \in Open
      BY DEF StopInv
    <3> QED BY <2>3, <3>1, <1>2, PointersDistinct
  <2>5. ASSUME NEW i \in shutStep..6, i # shutStep
        PROVE  \/ pointer[ShutDownOrder[i]] \in Open' \cup {nullptr}
               \/ callState[t] = "clear" /\ callSlot[t] = ShutDownOrder[i]
    <3> SUFFICES ASSUME pointer[ShutDownOrder[i]] \in Open
                 PROVE  pointer[ShutDownOrder[i]] # pointer[m]
      BY <2>1, <2>2 DEF StopInv
    <3>1. ShutDownOrder[i] # m
      BY <2>5, <1>2, ShutDownFacts
    <3> QED BY <3>1, <1>2, PointersDistinct
  <2> QED BY <1>1, <1>3, <2>1, <2>4, <2>5 DEF StopInv
<1>6. ~ DestroyTwice
  <2> SUFFICES ASSUME DestroyTwice PROVE FALSE
    OBVIOUS
  <2>1. mainState = "destroy" /\ pointer[m] \notin Open \cup {nullptr}
    BY DEF DestroyTwice
  <2>2. shutStep \in shutStep..6
    BY <1>2
  <2>3. callState[t] = "clear" /\ callSlot[t] = m /\ ~ active[m]
    BY <2>1, <2>2 DEF StopInv
  <2> QED BY <2>3 DEF StopInv
<1>7. CASE MainBeginShutdown \/ MainEndShutdown
  <2>1. UNCHANGED misused /\ Open' = Open /\ mainState' \in {"wait", "done"}
    BY <1>7 DEF MainBeginShutdown, MainEndShutdown, BeginShutdown, EndShutdown, history, Open
  <2> QED BY <1>1, <2>1 DEF StopInv
<1> QED BY <1>4, <1>5, <1>6, <1>7 DEF ShutDown

\* ZMQ is stopped while no call is under way, other than in recv.
LEMMA StopBegins ==
  ASSUME IInv, OneCaller, NEW t \in Callers, CallInv(t), MainStop, ~ overlapped'
  PROVE  StopInv(t)'
<1>1. /\ mainState = "run" /\ mainState' = "check" /\ callState[t] \in {"idle", "receive"}
      /\ Open' = Open
  BY DEF MainStop, Stop, Open
<1>2. UNCHANGED <<pointer, active, callState, callSlot, held, shutStep>>
  BY DEF MainStop, callVars, ipcVars
<1>3. \A n \in Slots : pointer[n] = nullptr \/ pointer[n] \in Open
  BY <1>1, RunPointers
<1>4. \A i \in shutStep..6 : ShutDownOrder[i] \in Slots
  BY ShutDownFacts DEF IInv, TypeOK
<1> QED BY <1>1, <1>2, <1>3, <1>4 DEF StopInv, CallInv

-----------------------------------------------------------------------------
\* At the start nothing is set and nobody calls.
LEMMA SoloInit == Init => SoloInv
<1> SUFFICES ASSUME Init PROVE SoloInv
  OBVIOUS
<1>1. Open = {} /\ running = TRUE /\ context = "open" /\ lost = 0
  BY ZMQInitTypeOK DEF Init, ZMQInit
<1>2. MainInv
  BY <1>1, IPCAssumption DEF Init, MainInv
<1>3. \A t \in Callers : CallInv(t)
  BY DEF Init, CallInv
<1>4. \A t \in Callers : WholeInv(t)
  BY <1>1 DEF Init, WholeInv
<1> QED BY <1>2, <1>3, <1>4 DEF Init, SoloInv, MisuseExcused

\* A step of the only caller: a caller whose call went wrong takes none.
LEMMA SoloCaller ==
  ASSUME IInv, SoloInv, OneCaller, NEW t \in Callers, UNCHANGED <<role, Order, Side>>,
         Caller(t) \/ \E n \in Slots \cup {"setTimeout"} : Call(t, n)
  PROVE  /\ mainState' = "run" => CallInv(t)' /\ WholeInv(t)'
         /\ mainState' # "run" /\ ~ overlapped' => StopInv(t)'
         /\ MisuseExcused'
<1>1. callState[t] # "undefined"
  BY DEF Caller, CheckPointer, GenerateStep, ConnectStep, ConnectFails, ReturnUnsent, BeginUse,
     SetTimeout, Send, Receive, ReceiveTimeout, Interrupted, Fails, ClearPointer, UseDestroyed,
     Call
<1>2. mainState' = mainState
  BY DEF Caller, CheckPointer, GenerateStep, ConnectStep, ConnectFails, ReturnUnsent, BeginUse,
     SetTimeout, Send, Receive, ReceiveTimeout, Interrupted, Fails, ClearPointer, UseDestroyed,
     Call, mainVars
<1>3. overlapped => overlapped'
  BY DEF Caller, CheckPointer, GenerateStep, ConnectStep, ConnectFails, ReturnUnsent, BeginUse,
     SetTimeout, Send, Receive, ReceiveTimeout, Interrupted, Fails, ClearPointer, UseDestroyed,
     Call, history
<1>4. misused => overlapped
  BY <1>1 DEF SoloInv, MisuseExcused, TimeoutOnNull, OneCaller
<1>5. CASE mainState = "run"
  <2>1. MainInv /\ CallInv(t) /\ WholeInv(t)
    BY <1>5 DEF SoloInv
  <2>2. ~ misused
    BY <1>4, <1>5, <2>1 DEF MainInv
  <2>3. CASE UseDestroyed(t)
    BY <1>2, <1>5, <2>1, <2>3, RunUseDestroyed DEF MisuseExcused
  <2>4. CASE ~ UseDestroyed(t)
    <3>1. CallInv(t)' /\ WholeInv(t)'
      BY <1>5, <2>1, <2>4, RunCall, RunCheckPointer, RunGenerate, RunConnect,
         RunConnectFails, RunBeginUse, RunReturn, RunFails DEF Caller
    <3>2. UNCHANGED misused
      <4>1. CASE Fails(t)
        BY <1>5, <2>1, <4>1, RunFails
      <4> QED
        BY <2>4, <4>1 DEF Caller, CheckPointer, GenerateStep, ConnectStep, ConnectFails,
           ReturnUnsent, BeginUse, SetTimeout, Send, Receive, ReceiveTimeout, Interrupted,
           ClearPointer, Call, history
    <3> QED BY <1>2, <1>5, <2>2, <3>1, <3>2 DEF MisuseExcused
  <2> QED BY <2>3, <2>4
<1>6. CASE mainState # "run"
  <2>1. CASE overlapped'
    BY <1>2, <1>6, <2>1 DEF MisuseExcused
  <2>2. CASE ~ overlapped'
    <3>1. MainInv /\ StopInv(t)
      BY <1>3, <1>6, <2>2 DEF SoloInv
    <3>2. StopInv(t)' /\ UNCHANGED misused
      BY <1>6, <2>2, <3>1, StopCaller
    <3> QED BY <1>2, <1>3, <1>4, <1>6, <2>2, <3>2 DEF MisuseExcused
  <2> QED BY <2>1, <2>2
<1> QED BY <1>5, <1>6

\* A step of the main thread.
LEMMA SoloMain ==
  ASSUME IInv, SoloInv, OneCaller, NEW t \in Callers, MainStop \/ ShutDown
  PROVE  /\ mainState' # "run"
         /\ ~ overlapped' => StopInv(t)'
         /\ MisuseExcused'
<1>1. mainState' # "run" /\ UNCHANGED <<callState, callSlot>>
  BY MainTypes DEF IInv, callVars
<1>2. TimeoutOnNull => TimeoutOnNull'
  <2>1. errors' = errors
    BY DEF MainStop, ShutDown, CheckActive, DestroyInactive, DestroyTwice, MainBeginShutdown,
       MainEndShutdown, history
  <2> QED BY <1>1, <2>1 DEF TimeoutOnNull
<1>3. CASE MainStop
  <2>1. mainState = "run" /\ UNCHANGED misused
    BY <1>3 DEF MainStop
  <2>2. ~ overlapped /\ CallInv(t)
    BY <2>1 DEF SoloInv, MainInv
  <2>3. ~ overlapped' => StopInv(t)'
    BY <1>3, <2>2, StopBegins
  <2> QED BY <1>1, <1>2, <2>1, <2>2, <2>3 DEF SoloInv, MisuseExcused
<1>4. CASE ShutDown
  <2>1. mainState # "run" /\ overlapped' = overlapped
    BY <1>4 DEF ShutDown, CheckActive, DestroyInactive, DestroyTwice, MainBeginShutdown,
       MainEndShutdown, history
  <2>2. CASE overlapped
    BY <1>1, <2>1, <2>2 DEF MisuseExcused
  <2>3. CASE ~ overlapped
    <3>1. StopInv(t)
      BY <2>1, <2>3 DEF SoloInv
    <3>2. StopInv(t)' /\ UNCHANGED misused
      BY <1>4, <3>1, StopShutDown
    <3> QED BY <1>1, <1>2, <2>1, <2>3, <3>2 DEF SoloInv, MisuseExcused
  <2> QED BY <2>2, <2>3
<1> QED BY <1>3, <1>4

\* No step breaks the invariant of a single caller.
LEMMA SoloNext == ASSUME OneCaller PROVE IInv /\ SoloInv /\ [Next]_vars => SoloInv'
<1> SUFFICES ASSUME IInv, SoloInv, [Next]_vars PROVE SoloInv'
  OBVIOUS
<1>1. MainInv'
  BY MainInvNext DEF SoloInv
<1>2. UNCHANGED <<role, Order, Side>>
  BY RoleUnchanged
<1>3. PICK c \in Callers : \A t \in Callers : t = c
  BY DEF OneCaller
<1>4. CASE MainStop \/ ShutDown
  BY <1>1, <1>3, <1>4, SoloMain DEF SoloInv
<1>5. ASSUME NEW t \in Callers, Caller(t) \/ \E n \in Slots \cup {"setTimeout"} : Call(t, n)
      PROVE  SoloInv'
  <2>1. /\ mainState' = "run" => CallInv(t)' /\ WholeInv(t)'
        /\ mainState' # "run" /\ ~ overlapped' => StopInv(t)'
        /\ MisuseExcused'
    BY <1>2, <1>5, SoloCaller
  <2>2. \A u \in Callers : u = t
    BY <1>3
  <2> QED BY <1>1, <2>1, <2>2 DEF SoloInv
<1>6. CASE UNCHANGED vars
  <2>1. UNCHANGED <<Open, lost, pointer, active, connected, callState, callSlot, held, step,
                    errors, misused, overlapped, mainState, shutStep>>
    BY <1>6 DEF vars, zmqVars, callVars, ipcVars, history, mainVars, Open
  <2>2. \A t \in Callers : CallInv(t) => CallInv(t)'
    BY <1>2, <2>1 DEF CallInv, Target
  <2>3. \A t \in Callers : WholeInv(t) => WholeInv(t)'
    BY <1>2, <2>1 DEF WholeInv
  <2>4. \A t \in Callers : StopInv(t) => StopInv(t)'
    BY <2>1 DEF StopInv
  <2>5. MisuseExcused'
    BY <2>1 DEF SoloInv, MisuseExcused, TimeoutOnNull
  <2> QED BY <1>1, <2>1, <2>2, <2>3, <2>4, <2>5 DEF SoloInv
<1> QED BY <1>4, <1>5, <1>6 DEF Next

\* The invariant of a process in which one thread makes all calls.
THEOREM SoloInvariance == ASSUME OneCaller PROVE Spec => []SoloInv
<1>1. Init => SoloInv
  BY SoloInit
<1>2. IInv /\ SoloInv /\ [Next]_vars => SoloInv'
  BY SoloNext
<1> QED BY <1>1, <1>2, Invariance, PTL DEF Spec

\* With one calling thread, shutDown pulls no socket away from a thread that
\* waits in recv, and failed calls leave nothing dangling behind, for any
\* number of calls and failures.
THEOREM MisuseOverlaps == ASSUME OneCaller PROVE Spec => []MisuseOnlyIfOverlapped
<1>1. SoloInv => MisuseOnlyIfOverlapped
  BY DEF SoloInv, MisuseExcused, MisuseOnlyIfOverlapped
<1> QED BY <1>1, SoloInvariance, PTL

-----------------------------------------------------------------------------
(***************************************************************************)
(* The sockets left behind, for any number of threads.  Every socket is    *)
(* created in one of the three steps of connectClient or bindServer, and   *)
(* becomes an orphan when its pointer is overwritten or cleared.  So the   *)
(* orphans, the pointers that are set and the sockets still to be created  *)
(* are counted together: their number grows only when a thread enters      *)
(* connectClient, by three.  That costs a setback, unless the thread is    *)
(* alone and finds a pointer it needs null; and a pointer that is null and *)
(* that nobody is about to set is how the system starts, and what only a   *)
(* further setback brings back.                                            *)
(***************************************************************************)

SetPointers == {n \in Slots : pointer[n] # nullptr}

\* The sockets that the threads in connectClient have yet to create.
Todo == {c \in Callers \X (1..3) : callState[c[1]] = "connect" /\ step[c[1]] <= c[2]}

\* A pointer of this side is null and nobody is about to set it.
Uncovered ==
  \E i \in 1..3 : pointer[Order[i]] = nullptr /\ \A t \in Callers : <<t, i>> \notin Todo

\* A thread that begins to connect begins with the first socket, and misses
\* one of its side.
EntryInv ==
  \A t \in Callers :
    /\ callState[t] \notin {"connect", "undefined"} => step[t] = 1
    /\ callState[t] = "check" => Target(t) \in Side

OrphanInv ==
  ~ misused =>
    Cardinality(OrphanedSockets) + lost + Cardinality(SetPointers) + Cardinality(Todo)
      <= 3 * setbacks + (IF Uncovered THEN 0 ELSE 3)

\* connectClient and bindServer create three sockets.
LEMMA ThreeFinite == IsFiniteSet(1..3) /\ Cardinality(1..3) = 3
<1>1. 1 \in Int /\ 3 \in Int /\ ~ 1 > 3 /\ 3 - 1 + 1 = 3
  OBVIOUS
<1>2. IsFiniteSet(1..3) /\ Cardinality(1..3) = IF 1 > 3 THEN 0 ELSE 3 - 1 + 1
  BY <1>1, FS_Interval, Zenon
<1> QED BY <1>1, <1>2

\* A part of a finite set with one more element has at most one more element.
LEMMA OneMore ==
  ASSUME NEW S, IsFiniteSet(S), NEW x, NEW T, T \subseteq S \cup {x}
  PROVE  /\ IsFiniteSet(T) /\ Cardinality(T) \in Nat /\ Cardinality(S) \in Nat
         /\ Cardinality(T) <= Cardinality(S) + 1
         /\ T \subseteq S => Cardinality(T) <= Cardinality(S)
<1> DEFINE U == S \cup {x}
<1>1. /\ IsFiniteSet(U)
      /\ Cardinality(U) = IF x \in S THEN Cardinality(S) ELSE Cardinality(S) + 1
  BY FS_AddElement
<1> HIDE DEF U
<1>2. IsFiniteSet(T) /\ Cardinality(T) <= Cardinality(U)
  BY <1>1, FS_Subset DEF U
<1>3. T \subseteq S => Cardinality(T) <= Cardinality(S)
  BY FS_Subset
<1>4. Cardinality(S) \in Nat /\ Cardinality(T) \in Nat
  BY <1>2, FS_CardinalityType
<1> QED BY <1>1, <1>2, <1>3, <1>4

\* What is counted is finite.
LEMMA CountedFinite ==
  ASSUME TypeOK
  PROVE  /\ IsFiniteSet(OrphanedSockets) /\ Cardinality(OrphanedSockets) \in Nat
         /\ IsFiniteSet(SetPointers) /\ Cardinality(SetPointers) \in Nat
         /\ IsFiniteSet(Todo) /\ Cardinality(Todo) \in Nat
         /\ lost \in Nat /\ setbacks \in Nat
<1>1. IsFiniteSet(OrphanedSockets)
  BY OpenFinite, FS_Subset DEF TypeOK, OrphanedSockets
<1>2. IsFiniteSet(SetPointers)
  <2>1. Slots = {} \cup {"stateSender"} \cup {"statisticsSender"} \cup {"commandSender"}
                \cup {"stateReceiver"} \cup {"statisticsReceiver"} \cup {"commandReceiver"}
    BY SlotFacts
  <2>2. IsFiniteSet(Slots)
    BY <2>1, FS_EmptySet, FS_AddElement
  <2> QED BY <2>2, FS_Subset DEF SetPointers
<1>3. IsFiniteSet(Todo)
  <2>1. IsFiniteSet(1..3)
    BY ThreeFinite
  <2>2. IsFiniteSet(Callers \X (1..3))
    BY <2>1, FS_Product, IPCAssumption
  <2> QED BY <2>2, FS_Subset DEF Todo
<1> QED BY <1>1, <1>2, <1>3, FS_CardinalityType DEF TypeOK, ZMQTypeOK

\* At least three pointers are set or about to be, if none is uncovered.
LEMMA Covered ==
  ASSUME TypeOK, ~ Uncovered
  PROVE  Cardinality(SetPointers) + Cardinality(Todo) >= 3
<1> DEFINE A == {i \in 1..3 : pointer[Order[i]] # nullptr}
           B == {i \in 1..3 : pointer[Order[i]] = nullptr}
           f == [i \in A |-> Order[i]]
           g == [i \in B |-> CHOOSE c \in Todo : c[2] = i]
<1>1. Cardinality(1..3) = 3 /\ IsFiniteSet(1..3)
  BY ThreeFinite
<1>2. IsFiniteSet(A) /\ IsFiniteSet(B)
  BY <1>1, FS_Subset
<1>3. Cardinality(A) <= Cardinality(SetPointers)
  <2>1. f \in Injection(A, SetPointers)
    BY SideFacts DEF Injection, IsInjective, SetPointers
  <2> HIDE DEF f, A
  <2> QED BY <2>1, FS_Injection, CountedFinite
<1>4. Cardinality(B) <= Cardinality(Todo)
  <2>1. ASSUME NEW i \in B PROVE g[i] \in Todo /\ g[i][2] = i
    <3>1. PICK t \in Callers : <<t, i>> \in Todo
      BY <2>1 DEF Uncovered
    <3>2. <<t, i>>[2] = i
      OBVIOUS
    <3>3. \E c \in Todo : c[2] = i
      BY <3>1, <3>2
    <3> QED BY <3>3
  <2> HIDE DEF B
  <2>2. g \in Injection(B, Todo)
    BY <2>1 DEF Injection, IsInjective
  <2> HIDE DEF g
  <2> QED BY <2>2, FS_Injection, CountedFinite
<1>5. A \cup B = 1..3 /\ A \cap B = {}
  OBVIOUS
<1>6. Cardinality(A) + Cardinality(B) = 3
  <2> HIDE DEF A, B
  <2>1. Cardinality(A \cup B) = Cardinality(A) + Cardinality(B) - Cardinality(A \cap B)
    BY <1>2, FS_Union
  <2>2. Cardinality(A \cap B) = 0
    BY <1>5, FS_EmptySet
  <2>3. Cardinality(A) \in Nat /\ Cardinality(B) \in Nat
    BY <1>2, FS_CardinalityType
  <2>4. Cardinality(A \cup B) = 3
    BY <1>1, <1>5, Zenon
  <2> QED BY <2>1, <2>2, <2>3, <2>4
<1> HIDE DEF A, B
<1> QED BY <1>2, <1>3, <1>4, <1>6, CountedFinite, FS_CardinalityType

\* The invariant is what it takes.
LEMMA OrphansCounted == ASSUME TypeOK, OrphanInv PROVE OrphansAccounted
<1>1. CASE Uncovered
  BY <1>1, CountedFinite DEF OrphanInv, OrphansAccounted
<1>2. CASE ~ Uncovered
  BY <1>2, Covered, CountedFinite DEF OrphanInv, OrphansAccounted
<1> QED BY <1>1, <1>2

\* A step that opens no socket, sets and clears no pointer and takes no part in
\* connectClient or bindServer changes none of the numbers, unless it destroys
\* an orphan.
LEMMA OrphanFrame ==
  ASSUME TypeOK, TypeOK', OrphanInv, Open' \subseteq Open, misused => misused',
         UNCHANGED <<pointer, Order, lost, setbacks, Todo>>
  PROVE  OrphanInv'
<1>1. OrphanedSockets' \subseteq OrphanedSockets
  BY DEF OrphanedSockets
<1>2. Cardinality(OrphanedSockets') <= Cardinality(OrphanedSockets)
  BY <1>1, CountedFinite, FS_Subset
<1>3. SetPointers' = SetPointers /\ Uncovered' = Uncovered
  BY DEF SetPointers, Uncovered
<1>4. Cardinality(OrphanedSockets') \in Nat
  BY <1>1, CountedFinite, FS_Subset, FS_CardinalityType
<1> QED BY <1>2, <1>3, <1>4, CountedFinite DEF OrphanInv

\* A step of another kind leaves the sockets to be created alone.
LEMMA TodoFrame ==
  ASSUME \A u \in Callers :
           /\ callState'[u] = "connect" <=> callState[u] = "connect"
           /\ callState[u] = "connect" =>
                step'[u] = step[u] \/ \A i \in 1..3 : ~ step[u] <= i /\ ~ step'[u] <= i
  PROVE  Todo' = Todo
BY DEF Todo

\* A thread begins to connect: three more sockets are to be created.
LEMMA OrphanEnter ==
  ASSUME TypeOK, TypeOK', EntryInv, OrphanInv, NEW t \in Callers, CheckPointer(t),
         callState'[t] = "connect", Order' = Order
  PROVE  OrphanInv'
<1>1. /\ callState[t] = "check" /\ step[t] = 1 /\ step' = step
      /\ callState' = [callState EXCEPT ![t] = "connect"]
      /\ Target(t) \in Side /\ pointer[Target(t)] = nullptr
      /\ setbacks' = IF AnotherConnects(t) THEN setbacks + 1 ELSE setbacks
      /\ UNCHANGED <<pointer, allSockets, lost, misused>>
  BY DEF CheckPointer, MustConnect, Return, GoTo, EntryInv, TypeOK, zmqVars, ipcVars
<1>2. Todo' = Todo \cup {<<t, 1>>} \cup {<<t, 2>>} \cup {<<t, 3>>}
  BY <1>1 DEF Todo, TypeOK
<1>3. Cardinality(Todo') <= Cardinality(Todo) + 3 /\ Cardinality(Todo') \in Nat
  <2> DEFINE T1 == Todo \cup {<<t, 1>>}
             T2 == T1 \cup {<<t, 2>>}
  <2>1. /\ IsFiniteSet(T1) /\ Cardinality(T1) \in Nat /\ Cardinality(Todo) \in Nat
        /\ Cardinality(T1) <= Cardinality(Todo) + 1
    BY CountedFinite, OneMore
  <2>2. Todo' = T2 \cup {<<t, 3>>}
    BY <1>2
  <2> HIDE DEF T1
  <2>3. /\ IsFiniteSet(T2) /\ Cardinality(T2) \in Nat
        /\ Cardinality(T2) <= Cardinality(T1) + 1
    BY <2>1, OneMore
  <2> HIDE DEF T2
  <2>4. Cardinality(Todo') \in Nat /\ Cardinality(Todo') <= Cardinality(T2) + 1
    BY <2>2, <2>3, OneMore
  <2> QED BY <2>1, <2>3, <2>4
<1>4. OrphanedSockets' = OrphanedSockets /\ SetPointers' = SetPointers
  BY <1>1 DEF OrphanedSockets, SetPointers, Open
<1>5. CASE AnotherConnects(t)
  <2>1. setbacks' = setbacks + 1
    BY <1>1, <1>5
  <2>2. Uncovered' => Uncovered
    BY <1>1, <1>2 DEF Uncovered
  <2> QED BY <1>1, <1>3, <1>4, <2>1, <2>2, CountedFinite DEF OrphanInv
<1>6. CASE ~ AnotherConnects(t)
  <2>1. Todo = {}
    BY <1>1, <1>6 DEF Todo, AnotherConnects
  <2>2. Uncovered
    BY <1>1, <2>1, SideFacts DEF Uncovered
  <2>3. ~ Uncovered'
    <3>1. \A i \in 1..3 : <<t, i>> \in Todo'
      <4>1. <<t, 1>> \in Todo' /\ <<t, 2>> \in Todo' /\ <<t, 3>> \in Todo'
        BY <1>2
      <4> QED BY <4>1
    <3> QED BY <3>1 DEF Uncovered
  <2> QED BY <1>1, <1>3, <1>4, <1>6, <2>2, <2>3, CountedFinite DEF OrphanInv
<1> QED BY <1>5, <1>6

\* A socket to be created becomes one with a pointer; the one the pointer had
\* becomes an orphan.
LEMMA OrphanGenerate ==
  ASSUME TypeOK, TypeOK', OrphanInv, NEW t \in Callers, GenerateStep(t), Order' = Order
  PROVE  OrphanInv'
<1> DEFINE k == step[t]
           n == Order[k]
<1>1. k \in 1..3 /\ n \in Slots /\ callState[t] = "connect"
  BY OrderFacts DEF TypeOK, GenerateStep
<1>2. /\ GenerateSocket(n) /\ pointer' = [pointer EXCEPT ![n] = created + 1]
      /\ step' = [step EXCEPT ![t] = k + 1]
      /\ UNCHANGED <<callState, misused, setbacks>>
  BY DEF GenerateStep, history
<1> HIDE DEF n
<1>3. Open' = Open \cup {created + 1} /\ lost' = lost
  BY <1>2, GenerateEffect DEF TypeOK
<1>4. created + 1 # nullptr
  BY PointerTypes DEF nullptr
<1>5. Todo' = Todo \ {<<t, k>>} /\ <<t, k>> \in Todo
  BY <1>1, <1>2 DEF Todo, TypeOK
<1>6. Cardinality(Todo') = Cardinality(Todo) - 1
  BY <1>5, CountedFinite, FS_RemoveElement
<1>7. Uncovered' => Uncovered
  BY <1>1, <1>2, <1>4, <1>5, OrderFacts DEF Uncovered, TypeOK, n
<1>8. SetPointers' = SetPointers \cup {n}
  BY <1>1, <1>2, <1>4 DEF SetPointers, TypeOK
<1>9. OrphanedSockets' \subseteq OrphanedSockets \cup {pointer[n]}
  BY <1>1, <1>2, <1>3 DEF OrphanedSockets, TypeOK
<1>10. CASE pointer[n] = nullptr
  <2>1. OrphanedSockets' \subseteq OrphanedSockets
    BY <1>3, <1>4, <1>9, <1>10, OpenFinite DEF OrphanedSockets, TypeOK
  <2>2. /\ Cardinality(OrphanedSockets') \in Nat
        /\ Cardinality(OrphanedSockets') <= Cardinality(OrphanedSockets)
    BY <1>9, <2>1, CountedFinite, OneMore
  <2>3. /\ Cardinality(SetPointers') \in Nat
        /\ Cardinality(SetPointers') <= Cardinality(SetPointers) + 1
    BY <1>8, CountedFinite, OneMore
  <2> QED BY <1>2, <1>3, <1>6, <1>7, <2>2, <2>3, CountedFinite DEF OrphanInv
<1>11. CASE pointer[n] # nullptr
  <2>1. SetPointers' = SetPointers
    BY <1>1, <1>8, <1>11 DEF SetPointers
  <2>2. /\ Cardinality(OrphanedSockets') \in Nat
        /\ Cardinality(OrphanedSockets') <= Cardinality(OrphanedSockets) + 1
    BY <1>9, CountedFinite, OneMore
  <2> QED BY <1>2, <1>3, <1>6, <1>7, <2>1, <2>2, CountedFinite DEF OrphanInv
<1> QED BY <1>10, <1>11

\* A failed connectClient or bindServer is a setback; the socket GenerateSocket
\* left open is one the thread does not create any more.
LEMMA OrphanConnectFails ==
  ASSUME TypeOK, OrphanInv, NEW t \in Callers, ConnectFails(t)
  PROVE  OrphanInv'
<1>1. /\ callState[t] = "connect" /\ callState' = [callState EXCEPT ![t] = "idle"]
      /\ step' = [step EXCEPT ![t] = 1] /\ setbacks' = setbacks + 1
      /\ UNCHANGED <<pointer, misused>>
  BY DEF ConnectFails, Return, GoTo, ipcVars
<1>2. /\ UNCHANGED allSockets
      /\ \/ lost' = lost
         \/ lost' = lost + 1 /\ step[t] <= 3
  <2>1. CASE step[t] <= 3 /\ GenerateSocketThrows
    BY <2>1 DEF GenerateSocketThrows
  <2>2. CASE UNCHANGED zmqVars
    BY <2>2 DEF zmqVars
  <2> QED BY <2>1, <2>2 DEF ConnectFails
<1>3. OrphanedSockets' = OrphanedSockets /\ SetPointers' = SetPointers
  BY <1>1, <1>2 DEF OrphanedSockets, SetPointers, Open
<1>4. Todo' = {c \in Todo : c[1] # t}
  BY <1>1 DEF Todo, TypeOK
<1>5. /\ Cardinality(Todo') \in Nat
      /\ Cardinality(Todo') <= Cardinality(Todo)
  BY <1>4, CountedFinite, OneMore
<1>6. CASE lost' = lost
  BY <1>1, <1>3, <1>5, <1>6, CountedFinite DEF OrphanInv
<1>7. CASE lost' = lost + 1 /\ step[t] <= 3
  <2>1. step[t] \in 1..3 /\ <<t, step[t]>> \in Todo
    BY <1>1, <1>7 DEF Todo, TypeOK
  <2>2. Todo' \subseteq Todo \ {<<t, step[t]>>}
    BY <1>4
  <2>3. /\ IsFiniteSet(Todo \ {<<t, step[t]>>})
        /\ Cardinality(Todo \ {<<t, step[t]>>}) = Cardinality(Todo) - 1
    BY <2>1, CountedFinite, FS_RemoveElement
  <2>4. Cardinality(Todo') <= Cardinality(Todo) - 1
    BY <2>2, <2>3, FS_Subset
  <2> QED BY <1>1, <1>3, <1>5, <1>7, <2>4, CountedFinite DEF OrphanInv
<1> QED BY <1>6, <1>7, <1>2

\* Clearing a pointer is a setback: the socket it points to, if it is open, is
\* an orphan from then on.
LEMMA OrphanClear ==
  ASSUME TypeOK, SlotInv, OrphanInv, NEW t \in Callers, ClearPointer(t)
  PROVE  OrphanInv'
<1> DEFINE n == callSlot[t]
<1>1. /\ n \in Slots /\ callState[t] = "clear"
      /\ callState' = [callState EXCEPT ![t] = "idle"]
      /\ step' = [step EXCEPT ![t] = 1] /\ setbacks' = setbacks + 1
      /\ pointer' = [pointer EXCEPT ![n] = nullptr]
      /\ UNCHANGED <<allSockets, lost, misused>>
  BY DEF SlotInv, ClearPointer, Cleared, Return, GoTo, zmqVars
<1> HIDE DEF n
<1>2. Todo' = Todo
  BY <1>1, TodoFrame DEF TypeOK
<1>3. OrphanedSockets' \subseteq OrphanedSockets \cup {pointer[n]}
  BY <1>1 DEF OrphanedSockets, Open, TypeOK
<1>4. SetPointers' = SetPointers \ {n}
  BY <1>1 DEF SetPointers, TypeOK
<1>5. CASE pointer[n] = nullptr
  <2>1. OrphanedSockets' \subseteq OrphanedSockets /\ SetPointers' = SetPointers
    BY <1>1, <1>3, <1>4, <1>5, OpenFinite DEF OrphanedSockets, SetPointers, Open, TypeOK
  <2>2. /\ Cardinality(OrphanedSockets') \in Nat
        /\ Cardinality(OrphanedSockets') <= Cardinality(OrphanedSockets)
    BY <1>3, <2>1, CountedFinite, OneMore
  <2> QED BY <1>1, <1>2, <2>1, <2>2, CountedFinite DEF OrphanInv
<1>6. CASE pointer[n] # nullptr
  <2>1. Cardinality(SetPointers') = Cardinality(SetPointers) - 1
    <3>1. n \in SetPointers
      BY <1>1, <1>6 DEF SetPointers
    <3> QED BY <3>1, <1>4, CountedFinite, FS_RemoveElement
  <2>2. /\ Cardinality(OrphanedSockets') \in Nat
        /\ Cardinality(OrphanedSockets') <= Cardinality(OrphanedSockets) + 1
    BY <1>3, CountedFinite, OneMore
  <2> QED BY <1>1, <1>2, <2>1, <2>2, CountedFinite DEF OrphanInv
<1> QED BY <1>5, <1>6

\* The other steps of a call.
LEMMA OrphanCall ==
  ASSUME IInv, IInv', OrphanInv, NEW t \in Callers, Order' = Order,
         \/ CheckPointer(t) /\ callState'[t] # "connect"
         \/ ConnectStep(t) \/ ReturnUnsent(t) \/ BeginUse(t) \/ SetTimeout(t) \/ Send(t)
         \/ Receive(t) \/ ReceiveTimeout(t) \/ Interrupted(t) \/ Fails(t)
         \/ \E n \in Slots \cup {"setTimeout"} : Call(t, n)
  PROVE  OrphanInv'
<1>1. UNCHANGED <<pointer, lost, setbacks>> /\ Open' \subseteq Open
  <2>1. CASE Fails(t)
    BY <2>1, FailsTypes DEF IInv, Fails
  <2>2. CASE ~ Fails(t)
    BY <2>2 DEF CheckPointer, ConnectStep, ReturnUnsent, BeginUse, SetTimeout, Send,
       Receive, ReceiveTimeout, Interrupted, Call, zmqVars, ipcVars, history, Open
  <2> QED BY <2>1, <2>2
<1>2. misused => misused'
  BY DEF CheckPointer, ConnectStep, ReturnUnsent, BeginUse, SetTimeout, Send,
     Receive, ReceiveTimeout, Interrupted, Fails, Call, history
<1>3. Todo' = Todo
  <2>1. CASE ConnectStep(t)
    <3>1. /\ callState[t] = "connect" /\ step[t] \in 4..6
          /\ callState'[t] = "connect" => step'[t] = step[t] + 1
          /\ \A u \in Callers \ {t} : callState'[u] = callState[u] /\ step'[u] = step[u]
      BY <2>1 DEF ConnectStep, GoTo, IInv, TypeOK
    <3>2. \A i \in 1..3 : /\ ~ step[t] <= i
                          /\ callState'[t] = "connect" => ~ step'[t] <= i
      BY <3>1
    <3> QED BY <3>1, <3>2 DEF Todo
  <2>2. CASE ~ ConnectStep(t)
    <3>1. /\ callState[t] # "connect" /\ callState'[t] # "connect"
          /\ \A u \in Callers \ {t} : callState'[u] = callState[u] /\ step'[u] = step[u]
      BY <2>2 DEF CheckPointer, ReturnUnsent, BeginUse, SetTimeout, Send, Receive,
         ReceiveTimeout, Interrupted, Fails, Call, Return, GoTo, IInv, TypeOK
    <3> QED BY <3>1, TodoFrame
  <2> QED BY <2>1, <2>2
<1> QED BY <1>1, <1>2, <1>3, OrphanFrame DEF IInv

\* The main thread opens no socket and leaves the pointers alone.
LEMMA OrphanMain ==
  ASSUME IInv, IInv', OrphanInv, MainStop \/ ShutDown, Order' = Order
  PROVE  OrphanInv'
<1>1. UNCHANGED <<pointer, callVars>> /\ Open' \subseteq Open
  BY MainTypes DEF IInv
<1>2. UNCHANGED <<lost, setbacks>>
  BY DEF MainStop, ShutDown, CheckActive, DestroyInactive, DestroyTwice, MainBeginShutdown,
     MainEndShutdown, Stop, BeginShutdown, EndShutdown, DestroySocket, zmqVars, history
<1>3. misused => misused'
  BY DEF MainStop, ShutDown, CheckActive, DestroyInactive, DestroyTwice, MainBeginShutdown,
     MainEndShutdown, history
<1>4. Todo' = Todo
  BY <1>1, TodoFrame DEF callVars
<1> QED BY <1>1, <1>2, <1>3, <1>4, OrphanFrame DEF IInv

\* A call is about a variable of this side, and a thread that leaves
\* connectClient or bindServer begins with the first socket the next time.
LEMMA EntryNext == ASSUME IInv, EntryInv, [Next]_vars PROVE EntryInv'
<1>1. UNCHANGED <<role, Order, Side>>
  BY RoleUnchanged
<1>2. ASSUME NEW t \in Callers, Caller(t) \/ \E n \in Slots \cup {"setTimeout"} : Call(t, n)
      PROVE  EntryInv'
  <2>1. \A u \in Callers \ {t} : /\ callState'[u] = callState[u] /\ step'[u] = step[u]
                                 /\ callSlot'[u] = callSlot[u]
    BY <1>2 DEF Caller, CheckPointer, GenerateStep, ConnectStep, ConnectFails, ReturnUnsent,
       BeginUse, SetTimeout, Send, Receive, ReceiveTimeout, Interrupted, Fails, ClearPointer,
       UseDestroyed, Call, Return, GoTo, IInv, TypeOK
  <2>2. callState'[t] \notin {"connect", "undefined"} => step'[t] = 1
    BY <1>2 DEF EntryInv, Caller, CheckPointer, GenerateStep, ConnectStep, ConnectFails,
       ReturnUnsent, BeginUse, SetTimeout, Send, Receive, ReceiveTimeout, Interrupted, Fails,
       ClearPointer, UseDestroyed, Call, Return, GoTo, IInv, TypeOK
  <2>3. ASSUME callState'[t] = "check" PROVE Target(t)' \in Side
    <3>1. PICK n \in Slots \cup {"setTimeout"} : Call(t, n)
      BY <1>2, <2>3 DEF Caller, CheckPointer, GenerateStep, ConnectStep, ConnectFails,
         ReturnUnsent, BeginUse, SetTimeout, Send, Receive, ReceiveTimeout, Interrupted, Fails,
         ClearPointer, UseDestroyed, Return, GoTo, IInv, TypeOK
    <3>2. callSlot'[t] = n /\ (n \in Side \/ (role = "server" /\ n = "setTimeout"))
      <4>1. callSlot'[t] = n
        BY <3>1 DEF Call, IInv, TypeOK
      <4>2. n \in {Order[i] : i \in DOMAIN Order} \/ (role = "server" /\ n = "setTimeout")
        BY <3>1 DEF Call
      <4> QED BY <4>1, <4>2, SideFacts
    <3> QED BY <3>2, SideFacts DEF Target
  <2>4. \A u \in Callers \ {t} : Target(u)' = Target(u)
    BY <2>1 DEF Target
  <2> QED BY <1>1, <2>1, <2>2, <2>3, <2>4 DEF EntryInv
<1>3. ASSUME UNCHANGED <<callState, step, callSlot>> PROVE EntryInv'
  <2>1. \A u \in Callers : Target(u)' = Target(u)
    BY <1>3 DEF Target
  <2> QED BY <1>1, <1>3, <2>1 DEF EntryInv
<1>4. MainStop \/ ShutDown \/ UNCHANGED vars => UNCHANGED <<callState, step, callSlot>>
  BY MainTypes DEF IInv, callVars, vars
<1> QED BY <1>2, <1>3, <1>4 DEF Next

\* No step leaves behind more than it pays for; what happens once a destroyed
\* socket is used is not counted.
LEMMA OrphanNext ==
  ASSUME IInv, IInv', EntryInv, OrphanInv, [Next]_vars PROVE OrphanInv'
<1>1. Order' = Order
  BY RoleUnchanged
<1>2. CASE MainStop \/ ShutDown
  BY <1>1, <1>2, OrphanMain
<1>3. ASSUME NEW t \in Callers, Caller(t) \/ \E n \in Slots \cup {"setTimeout"} : Call(t, n)
      PROVE  OrphanInv'
  <2>1. CASE CheckPointer(t) /\ callState'[t] = "connect"
    BY <1>1, <2>1, OrphanEnter DEF IInv
  <2>2. CASE GenerateStep(t)
    BY <1>1, <2>2, OrphanGenerate DEF IInv
  <2>3. CASE ConnectFails(t)
    BY <2>3, OrphanConnectFails DEF IInv
  <2>4. CASE ClearPointer(t)
    BY <2>4, OrphanClear DEF IInv
  <2>5. CASE UseDestroyed(t)
    BY <2>5 DEF UseDestroyed, OrphanInv
  <2> QED BY <1>1, <1>3, <2>1, <2>2, <2>3, <2>4, <2>5, OrphanCall DEF Caller
<1>4. CASE UNCHANGED vars
  <2>1. /\ UNCHANGED <<pointer, lost, setbacks, misused, callState, step>>
        /\ Open' = Open
    BY <1>4 DEF vars, zmqVars, callVars, ipcVars, history, Open
  <2>2. Todo' = Todo
    BY <2>1, TodoFrame
  <2> QED BY <1>1, <2>1, <2>2, OrphanFrame DEF IInv
<1> QED BY <1>2, <1>3, <1>4 DEF Next

\* At the start all pointers are null, and nothing is counted.
LEMMA OrphanInit == Init => EntryInv /\ OrphanInv
<1> SUFFICES ASSUME Init PROVE EntryInv /\ OrphanInv
  OBVIOUS
<1>1. EntryInv
  BY DEF Init, EntryInv
<1>2. OrphanedSockets = {} /\ SetPointers = {} /\ Todo = {}
  BY ZMQInitTypeOK DEF Init, OrphanedSockets, SetPointers, Todo
<1>3. lost = 0 /\ setbacks = 0 /\ Uncovered
  BY <1>2, OrderFacts DEF Init, ZMQInit, Uncovered
<1> QED BY <1>1, <1>2, <1>3, FS_EmptySet DEF OrphanInv

\* Sockets are left behind at most three at a time, and only by first calls
\* that overlap, by failures in connectClient and bindServer and by the
\* clearing of pointers: for any number of threads, calls and failures,
\* whenever the main thread shuts down.
THEOREM OrphansBounded == Spec => []OrphansAccounted
<1>1. Init => EntryInv /\ OrphanInv
  BY OrphanInit
<1>2. IInv /\ IInv' /\ EntryInv /\ OrphanInv /\ [Next]_vars => EntryInv' /\ OrphanInv'
  BY EntryNext, OrphanNext
<1>3. IInv /\ OrphanInv => OrphansAccounted
  BY OrphansCounted DEF IInv
<1> QED BY <1>1, <1>2, <1>3, Invariance, PTL DEF Spec
=============================================================================
