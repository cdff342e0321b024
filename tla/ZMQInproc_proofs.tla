-------------------------- MODULE ZMQInproc_proofs --------------------------
(***************************************************************************)
(* The inproc connections of ZMQHandler are made in the right order, and a *)
(* sender comes to a destroyed socket only through a send that failed, for *)
(* any number of addresses and senders.                                    *)
(***************************************************************************)
EXTENDS ZMQInproc, FiniteSetTheorems, TLAPS

-----------------------------------------------------------------------------
(***************************************************************************)
(* What the operations of ZMQHandler do to the registry of sockets:        *)
(* numberOfActiveSockets_ is the number of open sockets as long as only    *)
(* open sockets, or null pointers, are destroyed.                          *)
(***************************************************************************)

\* There are finitely many open sockets, and the null pointer is none.
LEMMA OpenFinite ==
  ASSUME ZMQTypeOK
  PROVE  IsFiniteSet(Open) /\ nullptr \notin Open /\ created + 1 \notin Open
<1>1. created \in Nat /\ Open \subseteq 1..created
  BY DEF ZMQTypeOK
<1>2. IsFiniteSet(1..created)
  BY <1>1, FS_Interval
<1>3. IsFiniteSet(Open)
  BY <1>1, <1>2, FS_Subset
<1>4. nullptr \notin Open /\ created + 1 \notin Open
  BY <1>1 DEF nullptr
<1> QED BY <1>3, <1>4

\* At the start there is no socket.
LEMMA ZMQInitTypeOK == ASSUME ZMQInit PROVE ZMQTypeOK /\ Open = {}
<1>1. Open = {}
  BY DEF ZMQInit, Open
<1> QED BY <1>1, FS_EmptySet DEF ZMQInit, ZMQTypeOK

\* GenerateSocket opens a socket that never was open before.
LEMMA GenerateEffect ==
  ASSUME ZMQTypeOK, NEW name, GenerateSocket(name)
  PROVE  /\ ZMQTypeOK'
         /\ Open' = Open \cup {created + 1}
         /\ allSockets'[created + 1] = name
         /\ \A s \in Open : allSockets'[s] = allSockets[s]
         /\ created' = created + 1 /\ lost' = lost /\ running' = running
         /\ context = "open" /\ context' = "open"
<1>1. Open' = Open \cup {created + 1}
  BY DEF GenerateSocket, Open
<1>2. allSockets'[created + 1] = name
  BY DEF GenerateSocket
<1>3. \A s \in Open : allSockets'[s] = allSockets[s]
  BY OpenFinite DEF GenerateSocket
<1>4. created' = created + 1 /\ created \in Nat /\ Open \subseteq 1..created
  BY DEF GenerateSocket, ZMQTypeOK
<1>5. Open' \subseteq 1..created'
  BY <1>1, <1>4
<1>6. Cardinality(Open') = Cardinality(Open) + 1
  BY <1>1, OpenFinite, FS_AddElement
<1>7. numberOfActiveSockets' = Cardinality(Open')
  BY <1>6 DEF GenerateSocket, ZMQTypeOK
<1>8. /\ running' = running /\ context' = context /\ lost' = lost
      /\ context = "open"
  BY DEF GenerateSocket
<1>9. ZMQTypeOK'
  BY <1>4, <1>5, <1>7, <1>8 DEF ZMQTypeOK
<1> QED BY <1>1, <1>2, <1>3, <1>4, <1>8, <1>9

\* DestroySocket closes the socket it is given; a null pointer is ignored.
LEMMA DestroyEffect ==
  ASSUME ZMQTypeOK, NEW sock \in Open \cup {nullptr}, DestroySocket(sock)
  PROVE  /\ ZMQTypeOK'
         /\ Open' = Open \ {sock}
         /\ \A s \in Open \ {sock} : allSockets'[s] = allSockets[s]
         /\ UNCHANGED <<running, context, created, lost>>
<1>1. Open' = Open \ {sock}
  BY DEF DestroySocket, Open
<1>2. \A s \in Open \ {sock} : allSockets'[s] = allSockets[s]
  BY DEF DestroySocket
<1>3. UNCHANGED <<running, context, created, lost>>
  BY DEF DestroySocket
<1>4. numberOfActiveSockets' = Cardinality(Open')
  <2>1. CASE sock = nullptr
    <3>1. Open' = Open
      BY <1>1, <2>1, OpenFinite
    <3> QED BY <2>1, <3>1 DEF DestroySocket, RemainingSockets, ZMQTypeOK
  <2>2. CASE sock # nullptr
    <3>1. Cardinality(Open') = Cardinality(Open) - 1
      BY <1>1, <2>2, OpenFinite, FS_RemoveElement
    <3> QED BY <2>2, <3>1 DEF DestroySocket, RemainingSockets, ZMQTypeOK
  <2> QED BY <2>1, <2>2
<1>5. ZMQTypeOK'
  <2>1. Open' \subseteq 1..created'
    BY <1>1, <1>3 DEF ZMQTypeOK
  <2> QED BY <1>3, <1>4, <2>1 DEF ZMQTypeOK
<1> QED BY <1>1, <1>2, <1>3, <1>5

\* A step that leaves the registry alone, apart from running_ and the state of
\* the context, keeps it in order.
LEMMA RegistryUnchanged ==
  ASSUME ZMQTypeOK, running' \in BOOLEAN,
         context' \in {"open", "terminating", "closed"},
         UNCHANGED <<allSockets, numberOfActiveSockets, created>>, lost' \in Nat
  PROVE  ZMQTypeOK' /\ Open' = Open
BY DEF ZMQTypeOK, Open

-----------------------------------------------------------------------------
\* The points at which a thread owns an open socket whatever happened.
Owning == {"bind", "publish", "serve", "lock", "check", "connect"}

\* The points of sendMessage and around it.
Sending == {"run", "while", "send"}

\* No two threads have the same socket.
SocketsDistinct ==
  \A t, u \in Threads : t # u /\ socket[t] # nullptr => socket[t] # socket[u]

\* A thread's socket is open until the thread closes it, or until one of its
\* sends fails.
SocketsOpen ==
  \A t \in Threads :
    /\ state[t] \in Owning => socket[t] \in Open
    /\ state[t] \in Sending => socket[t] \in Open \/ t \in failed

\* boundAddresses_ never runs ahead of ZMQ, and connect is called only when
\* the address was seen there.
BoundBefore ==
  /\ boundAddresses \subseteq everBound
  /\ \A a \in Addresses : state[a] \in {"publish", "serve"} => a \in everBound
  /\ \A s \in Senders : state[s] = "connect" => Target[s] \in boundAddresses

\* The inductive invariant.
IInv ==
  /\ TypeOK
  /\ SocketsDistinct
  /\ SocketsOpen
  /\ BoundBefore
  /\ ConnectAfterBind
  /\ MisuseOnlyAfterFailure

\* At the start nothing is open, bound or connected.
LEMMA InitIInv == Init => IInv
<1> SUFFICES ASSUME Init PROVE IInv
  OBVIOUS
<1> USE InprocAssumption
<1>1. ZMQTypeOK
  BY ZMQInitTypeOK DEF Init
<1>2. TypeOK
  BY <1>1 DEF Init, TypeOK, ZMQInit, States, nullptr
<1>3. SocketsDistinct /\ SocketsOpen
  BY DEF Init, SocketsDistinct, SocketsOpen, Owning, Sending, Threads
<1>4. BoundBefore
  BY DEF Init, BoundBefore, Threads
<1>5. ConnectAfterBind /\ MisuseOnlyAfterFailure
  BY DEF Init, ConnectAfterBind, MisuseOnlyAfterFailure
<1> QED BY <1>2, <1>3, <1>4, <1>5 DEF IInv

\* Start makes a socket nobody else has.
LEMMA StartKeeps == ASSUME IInv, NEW t \in Threads, Start(t) PROVE IInv'
<1> USE InprocAssumption
<1>1. /\ ZMQTypeOK'
      /\ Open' = Open \cup {created + 1}
      /\ created' = created + 1 /\ created \in Nat
  BY GenerateEffect DEF Start, IInv, TypeOK, ZMQTypeOK
<1>2. /\ socket' = [socket EXCEPT ![t] = created + 1]
      /\ state' = [state EXCEPT ![t] = IF t \in Senders THEN "lock" ELSE "bind"]
      /\ UNCHANGED <<inprocVars, history>>
  BY DEF Start, Goto
<1>3. /\ socket \in [Threads -> 0..created] /\ state \in [Threads -> States]
      /\ Open \subseteq 1..created
  BY DEF IInv, TypeOK, ZMQTypeOK
<1>4. TypeOK'
  <2>1. socket' \in [Threads -> 0..created']
    BY <1>1, <1>2, <1>3
  <2>2. state' \in [Threads -> States]
    BY <1>2, <1>3 DEF States
  <2> QED BY <1>1, <1>2, <2>1, <2>2 DEF IInv, TypeOK, inprocVars, history
<1>5. SocketsDistinct'
  BY <1>1, <1>2, <1>3 DEF IInv, SocketsDistinct, nullptr
<1>6. SocketsOpen'
  BY <1>1, <1>2, <1>3 DEF IInv, SocketsOpen, Owning, Sending, history
<1>7. BoundBefore'
  BY <1>2, <1>3 DEF IInv, BoundBefore, inprocVars, history
<1>8. ConnectAfterBind' /\ MisuseOnlyAfterFailure'
  BY <1>2 DEF IInv, ConnectAfterBind, MisuseOnlyAfterFailure, history
<1> QED BY <1>4, <1>5, <1>6, <1>7, <1>8 DEF IInv

\* A thread that closes its own open socket takes nobody else's away.
LEMMA CloseKeeps ==
  ASSUME IInv, NEW t \in Threads, socket[t] \in Open, Close(t) PROVE IInv'
<1> USE InprocAssumption
<1>1. PICK s \in Open : s = socket[t]
  OBVIOUS
<1>2. /\ ZMQTypeOK' /\ Open' = Open \ {s}
      /\ created' = created
  BY <1>1, DestroyEffect DEF Close, IInv, TypeOK
<1>3. /\ state' = [state EXCEPT ![t] = "ended"]
      /\ listening' = listening \ {t}
      /\ UNCHANGED <<boundAddresses, connectMutex, socket, history>>
  BY DEF Close, Goto
<1>4. /\ socket \in [Threads -> 0..created] /\ state \in [Threads -> States]
      /\ s # nullptr
  BY OpenFinite DEF IInv, TypeOK
<1>5. TypeOK'
  <2>1. state' \in [Threads -> States]
    BY <1>3, <1>4 DEF States
  <2> QED BY <1>2, <1>3, <2>1 DEF IInv, TypeOK, history
<1>6. SocketsDistinct'
  BY <1>3 DEF IInv, SocketsDistinct
<1>7. SocketsOpen'
  BY <1>1, <1>2, <1>3, <1>4 DEF IInv, SocketsOpen, SocketsDistinct, Owning, Sending, history
<1>8. BoundBefore'
  BY <1>3, <1>4 DEF IInv, BoundBefore, history
<1>9. ConnectAfterBind' /\ MisuseOnlyAfterFailure'
  BY <1>3 DEF IInv, ConnectAfterBind, MisuseOnlyAfterFailure, history
<1> QED BY <1>5, <1>6, <1>7, <1>8, <1>9 DEF IInv

\* BindInproc: ZMQ knows the address before boundAddresses_ does.
LEMMA ReceiverKeeps ==
  ASSUME IInv, NEW a \in Addresses, Receiver(a) PROVE IInv'
<1> USE InprocAssumption
<1>1. a \in Threads /\ state \in [Threads -> States]
  BY DEF Threads, IInv, TypeOK
<1>2. CASE Bind(a)
  <2>1. /\ everBound' = everBound \cup {a} /\ listening' = listening \cup {a}
        /\ state' = [state EXCEPT ![a] = "publish"]
        /\ UNCHANGED <<zmqVars, boundAddresses, connectMutex, socket, calls,
                       connects, failed, misused>>
    BY <1>2 DEF Bind, Goto
  <2>2. TypeOK'
    <3>1. ZMQTypeOK' /\ created' = created
      BY <2>1, RegistryUnchanged DEF IInv, TypeOK, zmqVars, ZMQTypeOK
    <3>2. state' \in [Threads -> States]
      BY <1>1, <2>1 DEF States
    <3> QED BY <2>1, <3>1, <3>2 DEF IInv, TypeOK
  <2>3. SocketsDistinct' /\ SocketsOpen'
    BY <1>1, <1>2, <2>1 DEF Bind, IInv, SocketsDistinct, SocketsOpen, Owning, Sending, zmqVars, Open
  <2>4. BoundBefore'
    BY <1>1, <2>1 DEF IInv, BoundBefore, Threads
  <2> QED BY <2>1, <2>2, <2>3, <2>4 DEF IInv, ConnectAfterBind, MisuseOnlyAfterFailure
<1>3. CASE BindThrows(a)
  BY <1>1, <1>3, CloseKeeps DEF BindThrows, IInv, SocketsOpen, Owning
<1>4. CASE Publish(a)
  <2>1. /\ boundAddresses' = boundAddresses \cup {a} /\ state[a] = "publish"
        /\ state' = [state EXCEPT ![a] = "serve"]
        /\ UNCHANGED <<zmqVars, connectMutex, listening, socket, history>>
    BY <1>4 DEF Publish, Goto
  <2>2. TypeOK'
    <3>1. ZMQTypeOK' /\ created' = created
      BY <2>1, RegistryUnchanged DEF IInv, TypeOK, zmqVars, ZMQTypeOK
    <3>2. state' \in [Threads -> States]
      BY <1>1, <2>1 DEF States
    <3> QED BY <2>1, <3>1, <3>2 DEF IInv, TypeOK, history
  <2>3. SocketsDistinct' /\ SocketsOpen'
    BY <1>1, <2>1 DEF IInv, SocketsDistinct, SocketsOpen, Owning, Sending, zmqVars, Open, history
  <2>4. BoundBefore'
    BY <1>1, <2>1 DEF IInv, BoundBefore, Threads, history
  <2> QED BY <2>1, <2>2, <2>3, <2>4 DEF IInv, ConnectAfterBind, MisuseOnlyAfterFailure, history
<1>5. CASE StopServing(a)
  BY <1>1, <1>5, CloseKeeps DEF StopServing, IInv, SocketsOpen, Owning
<1> QED BY <1>2, <1>3, <1>4, <1>5 DEF Receiver

\* A step of a sender that leaves the sockets, the addresses and the history
\* alone: it goes from one point to another where it needs no more.
LEMMA SenderGoesOn ==
  ASSUME IInv, NEW s \in Senders, NEW l \in States,
         state' = [state EXCEPT ![s] = l],
         l \in Owning => state[s] \in Owning,
         l \in Sending => state[s] \in Owning \cup Sending,
         l = "connect" => Target[s] \in boundAddresses,
         connectMutex' \in Senders \cup {NoThread}, calls' \in 0..MaxMessages,
         UNCHANGED <<zmqVars, boundAddresses, listening, socket, everBound, failed>>
  PROVE  /\ SocketsDistinct' /\ SocketsOpen' /\ BoundBefore'
         /\ connects' \subseteq [sender : Senders, bound : BOOLEAN]
              /\ misused' \subseteq Senders => TypeOK'
<1> USE InprocAssumption
<1>1. s \in Threads /\ state \in [Threads -> States]
  BY DEF Threads, IInv, TypeOK
<1>2. ZMQTypeOK' /\ created' = created /\ Open' = Open
  BY RegistryUnchanged DEF IInv, TypeOK, zmqVars, ZMQTypeOK
<1>3. SocketsDistinct'
  BY DEF IInv, SocketsDistinct
<1>4. SocketsOpen'
  BY <1>1, <1>2 DEF IInv, SocketsOpen
<1>5. BoundBefore'
  BY <1>1 DEF IInv, BoundBefore, Threads
<1>6. connects' \subseteq [sender : Senders, bound : BOOLEAN]
        /\ misused' \subseteq Senders => TypeOK'
  <2>1. state' \in [Threads -> States]
    BY <1>1
  <2> QED BY <1>2, <2>1 DEF IInv, TypeOK
<1> QED BY <1>3, <1>4, <1>5, <1>6

\* sendMessage destroys the socket of its caller when the send failed.
LEMMA SendFailsKeeps ==
  ASSUME IInv, NEW s \in Senders, NEW error, SendFails(s, error) PROVE IInv'
<1> USE InprocAssumption
<1>1. s \in Threads /\ state \in [Threads -> States]
  BY DEF Threads, IInv, TypeOK
<1>2. CASE ~ Fatal(error)
  <2>1. /\ UNCHANGED <<zmqVars, boundAddresses, connectMutex, listening, socket,
                       calls, everBound, connects, misused, failed>>
        /\ state[s] = "send" /\ state' = [state EXCEPT ![s] = "while"]
    BY <1>2 DEF SendFails, Fatal, Goto, inprocVars
  <2>2. SocketsDistinct' /\ SocketsOpen' /\ BoundBefore' /\ TypeOK'
    BY <2>1, SenderGoesOn DEF Owning, Sending, States, IInv, TypeOK
  <2> QED BY <2>1, <2>2 DEF IInv, ConnectAfterBind, MisuseOnlyAfterFailure
<1>3. CASE Fatal(error)
  <2>1. PICK h \in Open : h = socket[s]
    BY DEF SendFails
  <2>2. /\ DestroySocket(h) /\ state' = [state EXCEPT ![s] = "run"]
        /\ failed' = failed \cup {s}
        /\ UNCHANGED <<boundAddresses, connectMutex, listening, socket, calls,
                       everBound, connects, misused>>
    BY <1>3, <2>1 DEF SendFails, Fatal, Goto, inprocVars, DestroySocket
  <2>3. /\ ZMQTypeOK' /\ Open' = Open \ {h}
        /\ created' = created /\ h # nullptr
    BY <2>2, DestroyEffect, OpenFinite DEF IInv, TypeOK
  <2>4. TypeOK'
    <3>1. state' \in [Threads -> States]
      BY <1>1, <2>2 DEF States
    <3> QED BY <2>2, <2>3, <3>1 DEF IInv, TypeOK
  <2>5. SocketsDistinct'
    BY <2>2 DEF IInv, SocketsDistinct
  <2>6. SocketsOpen'
    BY <1>1, <2>1, <2>2, <2>3 DEF IInv, SocketsOpen, SocketsDistinct, Owning, Sending
  <2>7. BoundBefore'
    BY <1>1, <2>2 DEF IInv, BoundBefore, Threads
  <2> QED BY <2>2, <2>4, <2>5, <2>6, <2>7 DEF IInv, ConnectAfterBind, MisuseOnlyAfterFailure
<1> QED BY <1>2, <1>3

\* The other steps of a sender: ConnectInproc and sendMessage.
LEMMA SenderKeeps ==
  ASSUME IInv, NEW s \in Senders, Sender(s) \/ CallSend(s) \/ SendRefused(s) PROVE IInv'
<1> USE InprocAssumption
<1>1. /\ connects \subseteq [sender : Senders, bound : BOOLEAN]
      /\ misused \subseteq Senders /\ s \in Threads
      /\ connectMutex \in Senders \cup {NoThread} /\ calls \in 0..MaxMessages
  BY DEF IInv, TypeOK, Threads
<1>2. ASSUME \/ Lock(s) \/ Check(s) \/ ConnectThrows(s) \/ CallSend(s) \/ While(s)
             \/ Send(s) \/ SendRefused(s)
      PROVE  IInv'
  <2>1. UNCHANGED <<connects, everBound, failed, misused>>
    BY <1>2 DEF Lock, Check, ConnectThrows, CallSend, While, Send, SendRefused, history
  <2>2. SocketsDistinct' /\ SocketsOpen' /\ BoundBefore' /\ TypeOK'
    <3> USE <1>1 DEF Owning, Sending, States, Goto, history, inprocVars
    <3>1. CASE Lock(s)
      BY <3>1, SenderGoesOn DEF Lock
    <3>2. CASE Check(s)
      <4>1. CASE Target[s] \in boundAddresses
        BY <3>2, <4>1, SenderGoesOn DEF Check
      <4>2. CASE Target[s] \notin boundAddresses
        BY <3>2, <4>2, SenderGoesOn DEF Check, WhileWaiting
      <4> QED BY <4>1, <4>2
    <3>3. CASE ConnectThrows(s)
      BY <3>3, SenderGoesOn DEF ConnectThrows
    <3>4. CASE CallSend(s)
      <4>1. calls' \in 0..MaxMessages
        BY <3>4 DEF CallSend
      <4> QED BY <3>4, <4>1, SenderGoesOn DEF CallSend
    <3>5. CASE While(s)
      BY <3>5, SenderGoesOn DEF While
    <3>6. CASE Send(s) \/ SendRefused(s)
      BY <3>6, SenderGoesOn DEF Send, SendRefused
    <3> QED BY <1>2, <3>1, <3>2, <3>3, <3>4, <3>5, <3>6
  <2> QED BY <2>1, <2>2 DEF IInv, ConnectAfterBind, MisuseOnlyAfterFailure
<1>3. CASE Connect(s)
  <2>1. Target[s] \in everBound
    BY <1>3 DEF Connect, IInv, BoundBefore
  <2>2. connects' = connects \cup {[sender |-> s, bound |-> TRUE]}
    BY <1>3, <2>1 DEF Connect
  <2>a. connects' \subseteq [sender : Senders, bound : BOOLEAN]
    <3>1. [sender |-> s, bound |-> TRUE] \in [sender : Senders, bound : BOOLEAN]
      OBVIOUS
    <3> QED BY <1>1, <2>2, <3>1, Zenon
  <2>b. misused' \subseteq Senders
    BY <1>1, <1>3 DEF Connect
  <2>3. SocketsDistinct' /\ SocketsOpen' /\ BoundBefore' /\ TypeOK'
    <3>1. /\ state[s] = "connect" /\ state' = [state EXCEPT ![s] = "run"]
          /\ connectMutex' = NoThread
          /\ UNCHANGED <<zmqVars, boundAddresses, listening, socket, everBound, failed, calls>>
      BY <1>3 DEF Connect, Goto
    <3> QED BY <1>1, <2>a, <2>b, <3>1, SenderGoesOn DEF Owning, Sending, States
  <2>4. ConnectAfterBind'
    BY <2>2 DEF IInv, ConnectAfterBind
  <2> QED BY <1>3, <2>3, <2>4 DEF Connect, IInv, MisuseOnlyAfterFailure
<1>4. CASE Finish(s)
  BY <1>1, <1>4, CloseKeeps DEF Finish
<1>5. CASE UseDestroyed(s)
  <2>1. s \in failed
    BY <1>1, <1>5 DEF UseDestroyed, IInv, SocketsOpen, Sending
  <2>2. misused' = misused \cup {s} /\ UNCHANGED <<connects, failed>>
    BY <1>5 DEF UseDestroyed
  <2>3. SocketsDistinct' /\ SocketsOpen' /\ BoundBefore' /\ TypeOK'
    BY <1>1, <1>5, SenderGoesOn DEF UseDestroyed, Owning, Sending, States, Goto, inprocVars
  <2> QED BY <2>1, <2>2, <2>3 DEF IInv, ConnectAfterBind, MisuseOnlyAfterFailure
<1> QED BY <1>2, <1>3, <1>4, <1>5, SendFailsKeeps DEF Sender

\* The main thread changes running_ and the context only.
LEMMA MainKeeps ==
  ASSUME IInv, MainStop \/ MainBeginShutdown \/ MainEndShutdown \/ UNCHANGED vars
  PROVE  IInv'
<1>1. UNCHANGED <<allSockets, numberOfActiveSockets, created, lost, inprocVars,
                  state, socket, history>>
  BY DEF MainStop, MainBeginShutdown, MainEndShutdown, Stop, BeginShutdown,
         EndShutdown, vars, zmqVars
<1>2. running' \in BOOLEAN /\ context' \in {"open", "terminating", "closed"}
  BY DEF IInv, TypeOK, ZMQTypeOK, MainStop, MainBeginShutdown, MainEndShutdown,
         Stop, BeginShutdown, EndShutdown, vars, zmqVars
<1>3. ZMQTypeOK' /\ Open' = Open
  BY <1>1, <1>2, RegistryUnchanged DEF IInv, TypeOK, ZMQTypeOK
<1> USE <1>1, <1>3 DEF IInv, inprocVars, history
<1>4. TypeOK'
  BY DEF TypeOK
<1>5. SocketsDistinct' /\ SocketsOpen'
  BY DEF SocketsDistinct, SocketsOpen
<1>6. BoundBefore' /\ ConnectAfterBind' /\ MisuseOnlyAfterFailure'
  BY DEF BoundBefore, ConnectAfterBind, MisuseOnlyAfterFailure
<1> QED BY <1>4, <1>5, <1>6

\* The invariant holds whatever the threads do.
THEOREM Invariance == Spec => []IInv
<1>1. IInv /\ [Next]_vars => IInv'
  BY StartKeeps, ReceiverKeeps, SenderKeeps, SendFailsKeeps, MainKeeps DEF Next
<1> QED BY <1>1, InitIInv, PTL DEF Spec

\* Every thread is where the code can be, and numberOfActiveSockets_ is the
\* number of open sockets: no socket is destroyed twice.
THEOREM TypeCorrect == Spec => []TypeOK
<1>1. IInv => TypeOK
  BY DEF IInv
<1> QED BY <1>1, Invariance, PTL

\* ConnectInproc connects only to an address that was bound before.
THEOREM ConnectedAfterBind == Spec => []ConnectAfterBind
<1>1. IInv => ConnectAfterBind
  BY DEF IInv
<1> QED BY <1>1, Invariance, PTL

\* A sender uses a destroyed socket only after sendMessage destroyed it.
THEOREM MisusedAfterFailure == Spec => []MisuseOnlyAfterFailure
<1>1. IInv => MisuseOnlyAfterFailure
  BY DEF IInv
<1> QED BY <1>1, Invariance, PTL
=============================================================================
