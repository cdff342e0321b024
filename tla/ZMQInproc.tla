----------------------------- MODULE ZMQInproc -----------------------------
(***************************************************************************)
(* The inproc connections of ZMQHandler, between threads of one process.   *)
(*                                                                         *)
(* For every address one thread (an event builder of the farm) makes a     *)
(* socket, binds it with BindInproc and receives.  Senders make a socket,  *)
(* connect it with ConnectInproc, which waits for the address to be bound, *)
(* and call sendMessage.  The address stands for its receiving thread.     *)
(***************************************************************************)
EXTENDS ZMQHandler

CONSTANTS
  Addresses,     \* inproc addresses, one receiving thread each
  Senders,       \* threads that connect and send
  Target,        \* the address each sender connects to
  NoThread,      \* connectMutex_ is free
  MaxMessages    \* bound: how often sendMessage is called

ASSUME InprocAssumption ==
  /\ Addresses \cap Senders = {}
  /\ NoThread \notin Addresses \cup Senders
  /\ Target \in [Senders -> Addresses]
  /\ MaxMessages \in Nat

VARIABLES
  boundAddresses,  \* boundAddresses_
  connectMutex,    \* the holder of connectMutex_
  listening,       \* the addresses ZMQ has an open, bound socket for
  state,           \* where each thread is
  socket,          \* each thread's pointer to its socket
  calls,           \* history: the calls of sendMessage
  everBound,       \* history: the addresses whose bind succeeded
  connects,        \* history: successful connects, by [sender, after a bind?]
  failed,          \* history: senders whose send failed (not with EINTR)
  misused          \* history: senders that used a destroyed socket

inprocVars == <<boundAddresses, connectMutex, listening>>
history == <<calls, everBound, connects, failed, misused>>
vars == <<zmqVars, inprocVars, state, socket, history>>

Threads == Addresses \cup Senders

Init ==
  /\ ZMQInit
  /\ boundAddresses = {}
  /\ connectMutex = NoThread
  /\ listening = {}
  /\ state = [t \in Threads |-> "start"]
  /\ socket = [t \in Threads |-> nullptr]
  /\ calls = 0
  /\ everBound = {}
  /\ connects = {}
  /\ failed = {}
  /\ misused = {}

Goto(t, l) == state' = [state EXCEPT ![t] = l]

\* Every thread makes its socket first.  (If GenerateSocket throws, the
\* exception ends the thread and with it the program.)
Start(t) ==
  /\ state[t] = "start"
  /\ GenerateSocket(t)
  /\ socket' = [socket EXCEPT ![t] = created + 1]
  /\ Goto(t, IF t \in Senders THEN "lock" ELSE "bind")
  /\ UNCHANGED <<inprocVars, history>>

\* The owner of a socket destroys it when it is done.
Close(t) ==
  /\ DestroySocket(socket[t])
  /\ listening' = listening \ {t}
  /\ Goto(t, "ended")
  /\ UNCHANGED <<boundAddresses, connectMutex, socket, history>>

-----------------------------------------------------------------------------
(***************************************************************************)
(* The receiving thread of address a: BindInproc, then it receives until   *)
(* the program stops.                                                      *)
(***************************************************************************)

\* Mutant: the address is inserted before the socket is bound.
BindEarly(a) ==
  /\ state[a] = "bind"
  /\ boundAddresses' = boundAddresses \cup {a}
  /\ Goto(a, "publish")
  /\ UNCHANGED <<zmqVars, connectMutex, listening, socket, history>>

\* socket->bind
Bind(a) ==
  /\ state[a] = "bind"
  /\ listening' = listening \cup {a}
  /\ everBound' = everBound \cup {a}
  /\ Goto(a, "publish")
  /\ UNCHANGED <<zmqVars, boundAddresses, connectMutex, socket, calls,
                 connects, failed, misused>>

\* bind throws: the caller gives up.
BindThrows(a) ==
  /\ state[a] = "bind"
  /\ Close(a)

\* lock_guard, insert.  The mutex is released at once.
Publish(a) ==
  /\ state[a] = "publish"
  /\ connectMutex = NoThread
  /\ boundAddresses' = boundAddresses \cup {a}
  /\ Goto(a, "serve")
  /\ UNCHANGED <<zmqVars, connectMutex, listening, socket, history>>

\* A receive ends with ETERM, or the loop around it sees running_.
StopServing(a) ==
  /\ state[a] = "serve"
  /\ ~ running \/ context = "terminating"
  /\ Close(a)

Receiver(a) == Bind(a) \/ BindThrows(a) \/ Publish(a) \/ StopServing(a)

-----------------------------------------------------------------------------
(***************************************************************************)
(* ConnectInproc, run by sender s.                                         *)
(***************************************************************************)
Lock(s) ==
  /\ state[s] = "lock"
  /\ connectMutex = NoThread
  /\ connectMutex' = s
  /\ Goto(s, "check")
  /\ UNCHANGED <<zmqVars, boundAddresses, listening, socket, history>>

\* Mutant: the thread sleeps with the mutex.
WhileWaitingKept(s) == s

\* connectMutex_.unlock() in front of the sleep.
WhileWaiting(s) == NoThread

\* The address is there, or the thread unlocks, sleeps and locks again.
Check(s) ==
  /\ state[s] = "check"
  /\ IF Target[s] \in boundAddresses
     THEN Goto(s, "connect") /\ UNCHANGED connectMutex
     ELSE Goto(s, "lock") /\ connectMutex' = WhileWaiting(s)
  /\ UNCHANGED <<zmqVars, boundAddresses, listening, socket, history>>

\* socket->connect, unlock.
Connect(s) ==
  /\ state[s] = "connect"
  /\ context = "open"
  /\ connects' = connects \cup {[sender |-> s, bound |-> Target[s] \in everBound]}
  /\ connectMutex' = NoThread
  /\ Goto(s, "run")
  /\ UNCHANGED <<zmqVars, boundAddresses, listening, socket, calls, everBound,
                 failed, misused>>

\* connect throws, with ETERM or because nobody listens any more: the
\* exception leaves ConnectInproc and the mutex stays locked.
ConnectThrows(s) ==
  /\ state[s] = "connect"
  /\ context # "open" \/ Target[s] \notin listening
  /\ Goto(s, "thrown")
  /\ UNCHANGED <<zmqVars, inprocVars, socket, history>>

-----------------------------------------------------------------------------
(***************************************************************************)
(* sendMessage, called by sender s again and again.                        *)
(***************************************************************************)
CallSend(s) ==
  /\ state[s] = "run"
  /\ calls < MaxMessages
  /\ calls' = calls + 1
  /\ Goto(s, "while")
  /\ UNCHANGED <<zmqVars, inprocVars, socket, everBound, connects, failed,
                 misused>>

\* while (IsRunning())
While(s) ==
  /\ state[s] = "while"
  /\ Goto(s, IF running THEN "send" ELSE "run")
  /\ UNCHANGED <<zmqVars, inprocVars, socket, history>>

\* The message is taken; without a peer, send blocks.
Send(s) ==
  /\ state[s] = "send"
  /\ socket[s] \in Open
  /\ Target[s] \in listening
  /\ Goto(s, "run")
  /\ UNCHANGED <<zmqVars, inprocVars, socket, history>>

\* With ZMQ_DONTWAIT in flags, send returns false where it would block, without
\* a peer or at a full pipe: the loop ends, and the message is dropped.
SendRefused(s) ==
  /\ state[s] = "send"
  /\ socket[s] \in Open
  /\ context = "open"
  /\ Goto(s, "run")
  /\ UNCHANGED <<zmqVars, inprocVars, socket, history>>

\* Mutant: a signal counts as a failure.
FatalAll(error) == TRUE

\* if (ex.num() != EINTR)
Fatal(error) == error # "EINTR"

\* send throws.  After a signal the loop goes on; after another error the
\* socket is destroyed and the call returns, with nothing to tell the caller.
SendFails(s, error) ==
  /\ state[s] = "send"
  /\ socket[s] \in Open
  /\ error = "ETERM" => context = "terminating"
  /\ IF Fatal(error)
     THEN DestroySocket(socket[s]) /\ Goto(s, "run")
     ELSE UNCHANGED zmqVars /\ Goto(s, "while")
  /\ failed' = IF error = "EINTR" THEN failed ELSE failed \cup {s}
  /\ UNCHANGED <<inprocVars, socket, calls, everBound, connects, misused>>

\* The owner destroys its socket when the program stops.
Finish(s) ==
  /\ state[s] = "run"
  /\ ~ running
  /\ socket[s] \in Open
  /\ Close(s)

\* The pointer is still the one sendMessage was given: undefined behaviour.
UseDestroyed(s) ==
  /\ state[s] = "send" \/ (state[s] = "run" /\ ~ running)
  /\ socket[s] \notin Open
  /\ misused' = misused \cup {s}
  /\ Goto(s, "undefined")
  /\ UNCHANGED <<zmqVars, inprocVars, socket, calls, everBound, connects,
                 failed>>

Sender(s) ==
  \/ Lock(s) \/ Check(s) \/ Connect(s) \/ ConnectThrows(s)
  \/ While(s) \/ Send(s) \/ SendFails(s, "ETERM")
  \/ Finish(s) \/ UseDestroyed(s)

-----------------------------------------------------------------------------
(***************************************************************************)
(* The main thread of the farm: it starts the threads, later it calls Stop *)
(* and shutdown.                                                           *)
(***************************************************************************)
MainStop ==
  /\ running
  /\ \A t \in Threads : state[t] # "start"
  /\ Stop
  /\ UNCHANGED <<inprocVars, state, socket, history>>

MainBeginShutdown ==
  /\ ~ running
  /\ context = "open"
  /\ BeginShutdown
  /\ UNCHANGED <<inprocVars, state, socket, history>>

MainEndShutdown ==
  /\ EndShutdown
  /\ UNCHANGED <<inprocVars, state, socket, history>>

Next ==
  \/ \E t \in Threads : Start(t)
  \/ \E a \in Addresses : Receiver(a)
  \/ \E s \in Senders : Sender(s) \/ CallSend(s) \/ SendRefused(s)
  \/ \E s \in Senders, e \in {"EINTR", "other"} : SendFails(s, e)
  \/ MainStop
  \/ MainBeginShutdown
  \/ MainEndShutdown

\* Threads run, the shutdown goes on once the program was stopped, a blocked
\* call on a socket ends with ETERM when the context is terminated; other
\* errors, that a sender sends at all, and that its flags keep it from
\* blocking, are left to chance.  Strong
\* fairness of the lock: connectMutex_ is held for a moment only, and a
\* thread that finds no address sleeps half a second before it locks again.
Fairness ==
  /\ \A a \in Addresses : WF_vars(Receiver(a)) /\ SF_vars(Publish(a))
  /\ \A s \in Senders : WF_vars(Sender(s)) /\ SF_vars(Lock(s))
  /\ WF_vars(MainBeginShutdown)
  /\ WF_vars(MainEndShutdown)

Spec == Init /\ [][Next]_vars /\ Fairness

-----------------------------------------------------------------------------
States == {"start", "ended", "bind", "publish", "serve", "lock", "check",
           "connect", "thrown", "run", "while", "send", "undefined"}

TypeOK ==
  /\ ZMQTypeOK
  /\ boundAddresses \subseteq Addresses
  /\ connectMutex \in Senders \cup {NoThread}
  /\ listening \subseteq Addresses
  /\ state \in [Threads -> States]
  /\ socket \in [Threads -> 0..created]
  /\ calls \in 0..MaxMessages
  /\ everBound \subseteq Addresses
  /\ connects \subseteq [sender : Senders, bound : BOOLEAN]
  /\ failed \subseteq Senders
  /\ misused \subseteq Senders

\* A socket is connected only to an address that was bound before: "Connects
\* to the specified address as soon as the address has been bound"
\* (ZMQHandler.h).  The set boundAddresses_ never runs ahead of ZMQ.
ConnectAfterBind == \A c \in connects : c.bound

\* The only way to a destroyed socket is a send that failed: sendMessage
\* destroys the socket of its caller, who keeps the pointer.
MisuseOnlyAfterFailure == misused \subseteq failed

\* connectMutex_ stays locked only where connect threw.  Every other holder is
\* on its way to release it.
MutexAbandoned == connectMutex # NoThread /\ state[connectMutex] = "thrown"

\* A sender that waits in ConnectInproc gets connected once the socket of its
\* address is bound, whoever else waits for other addresses; unless connect
\* threw, its own or that of a thread that left the mutex locked.
ConnectsOnceBound ==
  \A s \in Senders :
    (state[s] \in {"lock", "check", "connect"} /\ Target[s] \in everBound)
      ~> (state[s] \in {"run", "thrown"} \/ MutexAbandoned)

\* A sender waits for an address whose socket never was bound.
WaitsInVain ==
  \E s \in Senders : state[s] \in {"lock", "check"} /\ Target[s] \notin everBound

\* `delete context_` returns, although senders may be blocked in send and
\* receivers in recv; the exceptions are a connect that threw, a destroyed
\* socket that was used, and a sender that waits in ConnectInproc, which does
\* not look at running_.
ShutdownCompletes ==
  context = "terminating" ~>
    \/ context = "closed"
    \/ misused # {}
    \/ \E s \in Senders : state[s] = "thrown"
    \/ WaitsInVain
=============================================================================
