----------------------------- MODULE IPCHandler -----------------------------
(***************************************************************************)
(* IPCHandler: the connection between a farm program (the client) and the  *)
(* program that controls it (the server), over three ZMQ sockets on each   *)
(* side.  This module is one of the two processes, from its start to the   *)
(* end of its shutdown.                                                    *)
(*                                                                         *)
(* The sockets are created by the first call that needs one: connectClient *)
(* or bindServer creates all three.  The calls check running_ and the      *)
(* pointer first and use the socket afterwards, without a lock, while the  *)
(* main thread stops ZMQ, destroys the sockets and deletes the context.    *)
(***************************************************************************)
EXTENDS ZMQHandler, Sequences

CONSTANTS
  Roles,          \* the sides to look at: "client", "server"
  Callers,        \* threads that call IPCHandler
  JoinedCallers,  \* the ones that make no call while main shuts down
  MaxCalls,       \* bound: how many calls the threads make
  MaxErrors       \* bound: how many calls of ZMQ fail other than with ETERM

ASSUME IPCAssumption ==
  /\ Roles \subseteq {"client", "server"}
  /\ IsFiniteSet(Callers)
  /\ JoinedCallers \subseteq Callers
  /\ MaxCalls \in Nat
  /\ MaxErrors \in Nat

VARIABLES
  role,
  pointer,     \* stateSender_, statisticsSender_, ... commandReceiver_
  active,      \* stateSenderActive_, ... commandReceiverActive_
  connected,   \* the sockets that are bound or connected
  timed,       \* the sockets that have a receive timeout
  callState,   \* where each caller is in its call
  callSlot,    \* the socket variable the call is about, or "setTimeout"
  held,        \* the socket a caller is sending to or receiving from
  step,        \* its progress in connectClient or bindServer
  calls,       \* history: the number of calls each thread made
  errors,      \* history: the calls of ZMQ that failed other than with ETERM
  misused,     \* history: a caller used a socket that was destroyed
  overlapped,  \* history: a call was under way, other than in recv, when ZMQ
               \* was stopped, or setTimeout was called after that
  failedWhileRunning, \* history: connectClient or bindServer returned false
                      \* while running_ was true
  setbacks,    \* history: first calls that overlapped another one, failed
               \* connectClient or bindServer, and pointers cleared
  mainState,   \* where the main thread is in its shutdown
  shutStep     \* its progress in shutDown

callVars == <<callState, callSlot, held, step, calls>>
ipcVars == <<pointer, active, connected, timed>>
history == <<errors, misused, overlapped, failedWhileRunning, setbacks>>
mainVars == <<mainState, shutStep>>
vars == <<zmqVars, role, callVars, ipcVars, history, mainVars>>

-----------------------------------------------------------------------------
\* The order in which shutDown looks at the sockets.
ShutDownOrder ==
  <<"stateSender", "statisticsSender", "commandSender",
    "stateReceiver", "statisticsReceiver", "commandReceiver">>

Slots == {ShutDownOrder[i] : i \in DOMAIN ShutDownOrder}

\* Receivers are bound, senders are connected.
Receivers == {"stateReceiver", "statisticsReceiver", "commandReceiver"}

\* The order in which connectClient and bindServer create their sockets.
Order ==
  IF role = "client"
  THEN <<"stateSender", "statisticsSender", "commandReceiver">>
  ELSE <<"stateReceiver", "statisticsReceiver", "commandSender">>

Init ==
  /\ ZMQInit
  /\ role \in Roles
  /\ pointer = [n \in Slots |-> nullptr]
  /\ active = [n \in Slots |-> FALSE]
  /\ connected = {}
  /\ timed = {}
  /\ callState = [t \in Callers |-> "idle"]
  /\ callSlot = [t \in Callers |-> "none"]
  /\ held = [t \in Callers |-> nullptr]
  /\ step = [t \in Callers |-> 1]
  /\ calls = [t \in Callers |-> 0]
  /\ errors = 0
  /\ misused = FALSE
  /\ overlapped = FALSE
  /\ failedWhileRunning = FALSE
  /\ setbacks = 0
  /\ mainState = "run"
  /\ shutStep = 1

-----------------------------------------------------------------------------
(***************************************************************************)
(* A call: updateState, sendStatistics, sendCommand, getNextCommand,       *)
(* tryToReceiveStatistics, tryToReceiveState or setTimeout.                *)
(***************************************************************************)

GoTo(t, state) == callState' = [callState EXCEPT ![t] = state]

\* The call returns.
Return(t) ==
  /\ GoTo(t, "idle")
  /\ held' = [held EXCEPT ![t] = nullptr]
  /\ step' = [step EXCEPT ![t] = 1]
  /\ callSlot' = [callSlot EXCEPT ![t] = "none"]
  /\ UNCHANGED calls

\* The socket variable a call checks first.
Target(t) ==
  IF callSlot[t] = "setTimeout" THEN "statisticsReceiver" ELSE callSlot[t]

\* The calls of all threads together.
CallsMade ==
  Cardinality({c \in Callers \X (1..MaxCalls) : c[2] <= calls[c[1]]})

\* if (!ZMQHandler::IsRunning()) return: a refused call changes nothing.
\* setTimeout, a call for servers, does not ask.
Call(t, n) ==
  /\ callState[t] = "idle"
  /\ CallsMade < MaxCalls
  /\ t \in JoinedCallers => mainState = "run"
  /\ \/ running /\ n \in {Order[i] : i \in DOMAIN Order}
     \/ role = "server" /\ n = "setTimeout"
  /\ GoTo(t, "check")
  /\ callSlot' = [callSlot EXCEPT ![t] = n]
  /\ calls' = [calls EXCEPT ![t] = @ + 1]
  /\ overlapped' = (overlapped \/ ~ running)
  /\ UNCHANGED <<zmqVars, role, held, step, ipcVars, errors, misused,
                 failedWhileRunning, setbacks, mainVars>>

\* Mutant: every call connects.
MustConnectAlways(t) == TRUE

\* if (!pointer && ...
MustConnect(t) == pointer[Target(t)] = nullptr

AnotherConnects(t) ==
  \E u \in Callers : u # t /\ callState[u] = "connect"

\* if (!pointer && !connectClient()) return; connectClient asks IsRunning
\* again.
CheckPointer(t) ==
  /\ callState[t] = "check"
  /\ \/ /\ ~ MustConnect(t)
        /\ GoTo(t, "use")
        /\ UNCHANGED <<callSlot, held, step, calls>>
     \/ /\ MustConnect(t)
        /\ running
        /\ GoTo(t, "connect")
        /\ UNCHANGED <<callSlot, held, step, calls>>
     \/ /\ MustConnect(t)
        /\ ~ running
        /\ Return(t)
  /\ setbacks' = IF callState'[t] = "connect" /\ AnotherConnects(t)
                 THEN setbacks + 1 ELSE setbacks
  /\ UNCHANGED <<zmqVars, role, ipcVars, errors, misused, overlapped,
                 failedWhileRunning, mainVars>>

\* The first half of connectClient or bindServer, one socket at a time.
GenerateStep(t) ==
  /\ callState[t] = "connect"
  /\ step[t] <= 3
  /\ GenerateSocket(Order[step[t]])
  /\ pointer' = [pointer EXCEPT ![Order[step[t]]] = created + 1]
  /\ step' = [step EXCEPT ![t] = @ + 1]
  /\ UNCHANGED <<role, callState, callSlot, held, calls, active, connected,
                 timed, history, mainVars>>

\* An address can be bound once at a time.
AddressInUse(n) ==
  n \in Receivers /\ \E s \in connected \cap Open : allSockets[s] = n

\* The second half: connect or bind, one socket at a time.
ConnectStep(t) ==
  /\ callState[t] = "connect"
  /\ step[t] > 3
  /\ LET n == Order[step[t] - 3]
     IN  /\ context = "open"
         /\ pointer[n] \in Open
         /\ ~ AddressInUse(n)
         /\ connected' = connected \cup {pointer[n]}
  /\ step' = [step EXCEPT ![t] = IF @ = 6 THEN 1 ELSE @ + 1]
  /\ GoTo(t, IF step[t] = 6 THEN "use" ELSE "connect")
  /\ UNCHANGED <<zmqVars, role, callSlot, held, calls, pointer, active, timed,
                 history, mainVars>>

\* One of the six steps throws: the address is in use, the context is being
\* terminated, or ZMQ fails otherwise.  What was created stays.
ConnectFails(t) ==
  /\ callState[t] = "connect"
  /\ \/ step[t] <= 3 /\ GenerateSocketThrows
     \/ /\ step[t] > 3
        /\ pointer[Order[step[t] - 3]] \in Open
        /\ UNCHANGED zmqVars
  /\ \/ /\ \/ context = "terminating"
           \/ step[t] > 3 /\ AddressInUse(Order[step[t] - 3])
        /\ UNCHANGED errors
     \/ /\ errors < MaxErrors
        /\ errors' = errors + 1
  /\ failedWhileRunning' = (failedWhileRunning \/ running)
  /\ setbacks' = setbacks + 1
  /\ Return(t)
  /\ UNCHANGED <<role, ipcVars, misused, overlapped, mainVars>>

\* sendStatistics and sendCommand return at an empty argument, and look at
\* the pointer once more.
ReturnUnsent(t) ==
  /\ callState[t] = "use"
  /\ callSlot[t] \in {"statisticsSender", "commandSender"}
  /\ Return(t)
  /\ UNCHANGED <<zmqVars, role, ipcVars, history, mainVars>>

\* Mutant: the receiving calls do not raise their flags.
FlagsRaisedNever(n) == active

\* xxxReceiverActive_ = true
FlagsRaised(n) ==
  IF n \in Receivers THEN [active EXCEPT ![n] = TRUE] ELSE active

\* The socket is about to be used: it is read from the pointer once more, and
\* the receiving calls raise the flag first.
BeginUse(t) ==
  /\ callState[t] = "use"
  /\ callSlot[t] \in Slots
  /\ LET n == callSlot[t]
     IN  /\ pointer[n] \in Open
         /\ held' = [held EXCEPT ![t] = pointer[n]]
         /\ active' = FlagsRaised(n)
         /\ GoTo(t, IF n \in Receivers THEN "receive" ELSE "send")
  /\ UNCHANGED <<zmqVars, role, callSlot, step, calls, pointer, connected,
                 timed, history, mainVars>>

\* setTimeout sets the option on both receivers of the server, to a number of
\* milliseconds or to wait for ever; it does not check stateReceiver_.  If ZMQ
\* fails, none or one of them has it.
SetTimeout(t) ==
  LET first == pointer["statisticsReceiver"]
      second == pointer["stateReceiver"]
  IN  /\ callState[t] = "use"
      /\ callSlot[t] = "setTimeout"
      /\ {first, second} \subseteq Open
      /\ \/ /\ context = "open"
            /\ timed' \in {timed \cup {first, second}, timed \ {first, second}}
            /\ UNCHANGED errors
         \/ /\ errors < MaxErrors
            /\ errors' = errors + 1
            /\ timed' \in {timed, timed \cup {first}, timed \ {first}}
         \/ context # "open" /\ UNCHANGED <<timed, errors>>
      /\ Return(t)
      /\ UNCHANGED <<zmqVars, role, pointer, active, connected, misused,
                     overlapped, failedWhileRunning, setbacks, mainVars>>

\* send puts the message into the pipe of a connected socket; without a
\* connection it blocks.
Send(t) ==
  /\ callState[t] = "send"
  /\ held[t] \in connected \cap Open
  /\ context = "open"
  /\ Return(t)
  /\ UNCHANGED <<zmqVars, role, ipcVars, history, mainVars>>

\* A message arrives.  Only getNextCommand lowers the flag.
Receive(t) ==
  /\ callState[t] = "receive"
  /\ held[t] \in connected \cap Open
  /\ context = "open"
  /\ active' = IF callSlot[t] = "commandReceiver"
               THEN [active EXCEPT !["commandReceiver"] = FALSE] ELSE active
  /\ Return(t)
  /\ UNCHANGED <<zmqVars, role, pointer, connected, timed, history, mainVars>>

\* recv returns false: the timeout expired.
ReceiveTimeout(t) ==
  /\ callState[t] = "receive"
  /\ held[t] \in timed \cap Open
  /\ context = "open"
  /\ active' = [active EXCEPT ![callSlot[t]] = FALSE]
  /\ Return(t)
  /\ UNCHANGED <<zmqVars, role, pointer, connected, timed, history, mainVars>>

\* A signal: send or recv throws EINTR.  The socket and the flag stay.
Interrupted(t) ==
  /\ callState[t] \in {"send", "receive"}
  /\ held[t] \in Open
  /\ errors < MaxErrors
  /\ errors' = errors + 1
  /\ Return(t)
  /\ UNCHANGED <<zmqVars, role, ipcVars, misused, overlapped,
                 failedWhileRunning, setbacks, mainVars>>

\* Mutant: the failure is only logged.
LoggedOnlyAll == Slots

\* updateState and sendStatistics only log a failure.
LoggedOnly == {"stateSender", "statisticsSender"}

\* Mutant: the pointer to the destroyed socket is kept.
ClearedNot(n) == pointer

\* xxx_ = nullptr
Cleared(n) == [pointer EXCEPT ![n] = nullptr]

\* send or recv throws something else, ETERM once the context is being
\* terminated.  The call logs it, or destroys the socket the pointer points
\* to now; if another call just destroyed that one, what happens is undefined.
Fails(t) ==
  /\ callState[t] \in {"send", "receive"}
  /\ held[t] \in Open
  /\ \/ context # "open" /\ UNCHANGED errors
     \/ errors < MaxErrors /\ errors' = errors + 1
  /\ \/ /\ callSlot[t] \in LoggedOnly
        /\ Return(t)
        /\ UNCHANGED <<zmqVars, misused>>
     \/ /\ callSlot[t] \notin LoggedOnly
        /\ pointer[callSlot[t]] \in Open \cup {nullptr}
        /\ DestroySocket(pointer[callSlot[t]])
        /\ GoTo(t, "clear")
        /\ UNCHANGED <<callSlot, held, step, calls, misused>>
     \/ /\ callSlot[t] \notin LoggedOnly
        /\ pointer[callSlot[t]] \notin Open \cup {nullptr}
        /\ misused' = TRUE
        /\ GoTo(t, "undefined")
        /\ UNCHANGED <<zmqVars, callSlot, held, step, calls>>
  /\ UNCHANGED <<role, ipcVars, overlapped, failedWhileRunning, setbacks,
                 mainVars>>

\* ... and then clears the pointer.
ClearPointer(t) ==
  /\ callState[t] = "clear"
  /\ pointer' = Cleared(callSlot[t])
  /\ Return(t)
  /\ setbacks' = setbacks + 1
  /\ UNCHANGED <<zmqVars, role, active, connected, timed, errors, misused,
                 overlapped, failedWhileRunning, mainVars>>

\* The caller goes through a pointer to a socket, or to a context, that is
\* gone.  What happens then is undefined; the model records it and the thread
\* does not go on.
UseDestroyed(t) ==
  /\ \/ callState[t] = "use" /\ pointer[Target(t)] \notin Open
     \/ /\ callState[t] = "use"
        /\ callSlot[t] = "setTimeout"
        /\ pointer["stateReceiver"] \notin Open
     \/ callState[t] \in {"send", "receive"} /\ held[t] \notin Open
     \/ callState[t] = "connect" /\ step[t] <= 3 /\ context = "closed"
     \/ /\ callState[t] = "connect"
        /\ step[t] > 3
        /\ pointer[Order[step[t] - 3]] \notin Open
  /\ misused' = TRUE
  /\ GoTo(t, "undefined")
  /\ UNCHANGED <<zmqVars, role, callSlot, held, step, calls, ipcVars, errors,
                 overlapped, failedWhileRunning, setbacks, mainVars>>

Caller(t) ==
  \/ CheckPointer(t) \/ GenerateStep(t) \/ ConnectStep(t) \/ ConnectFails(t)
  \/ ReturnUnsent(t) \/ BeginUse(t) \/ SetTimeout(t) \/ Send(t) \/ Receive(t)
  \/ ReceiveTimeout(t) \/ Interrupted(t) \/ Fails(t) \/ ClearPointer(t)
  \/ UseDestroyed(t)

-----------------------------------------------------------------------------
(***************************************************************************)
(* The main thread: ZMQHandler::Stop, IPCHandler::shutDown,                *)
(* ZMQHandler::shutdown.                                                   *)
(***************************************************************************)

MainStop ==
  /\ mainState = "run"
  /\ \A t \in JoinedCallers : callState[t] = "idle"
  /\ Stop
  /\ mainState' = "check"
  /\ overlapped' = \E t \in Callers : callState[t] \notin {"idle", "receive"}
  /\ UNCHANGED <<role, callVars, ipcVars, errors, misused, failedWhileRunning,
                 setbacks, shutStep>>

NextShutStep ==
  IF shutStep = 6
  THEN mainState' = "close" /\ shutStep' = 1
  ELSE mainState' = "check" /\ shutStep' = shutStep + 1

\* if (!xxxActive_)
CheckActive ==
  /\ mainState = "check"
  /\ IF active[ShutDownOrder[shutStep]]
     THEN NextShutStep
     ELSE mainState' = "destroy" /\ UNCHANGED shutStep
  /\ UNCHANGED <<zmqVars, role, callVars, ipcVars, history>>

\* DestroySocket(xxx_): the pointer keeps its value.
DestroyInactive ==
  /\ mainState = "destroy"
  /\ pointer[ShutDownOrder[shutStep]] \in Open \cup {nullptr}
  /\ DestroySocket(pointer[ShutDownOrder[shutStep]])
  /\ NextShutStep
  /\ UNCHANGED <<role, callVars, ipcVars, history>>

\* A caller destroyed the socket and has not cleared the pointer yet.
DestroyTwice ==
  /\ mainState = "destroy"
  /\ pointer[ShutDownOrder[shutStep]] \notin Open \cup {nullptr}
  /\ misused' = TRUE
  /\ mainState' = "undefined"
  /\ UNCHANGED <<zmqVars, role, callVars, ipcVars, errors, overlapped,
                 failedWhileRunning, setbacks, shutStep>>

MainBeginShutdown ==
  /\ mainState = "close"
  /\ BeginShutdown
  /\ mainState' = "wait"
  /\ UNCHANGED <<role, callVars, ipcVars, history, shutStep>>

MainEndShutdown ==
  /\ mainState = "wait"
  /\ EndShutdown
  /\ mainState' = "done"
  /\ UNCHANGED <<role, callVars, ipcVars, history, shutStep>>

ShutDown ==
  \/ CheckActive \/ DestroyInactive \/ DestroyTwice
  \/ MainBeginShutdown \/ MainEndShutdown

Next ==
  \/ MainStop
  \/ ShutDown
  \/ \E t \in Callers :
       Caller(t) \/ \E n \in Slots \cup {"setTimeout"} : Call(t, n)

\* A shutdown that was begun goes on, the callers run, and a blocking call on
\* a socket returns with ETERM when the context is being terminated.
Fairness ==
  /\ WF_vars(ShutDown)
  /\ \A t \in Callers : WF_vars(Caller(t))

Spec == Init /\ [][Next]_vars /\ Fairness
-----------------------------------------------------------------------------
TypeOK ==
  /\ ZMQTypeOK
  /\ role \in Roles
  /\ pointer \in [Slots -> 0..created]
  /\ active \in [Slots -> BOOLEAN]
  /\ connected \subseteq 1..created
  /\ timed \subseteq 1..created
  /\ callState \in [Callers -> {"idle", "check", "connect", "use", "send",
                               "receive", "clear", "undefined"}]
  /\ callSlot \in [Callers -> Slots \cup {"setTimeout", "none"}]
  /\ held \in [Callers -> 0..created]
  /\ step \in [Callers -> 1..6]
  /\ calls \in [Callers -> Nat]
  /\ errors \in 0..MaxErrors
  /\ misused \in BOOLEAN
  /\ overlapped \in BOOLEAN
  /\ failedWhileRunning \in BOOLEAN
  /\ setbacks \in Nat
  /\ mainState \in {"run", "check", "destroy", "close", "wait", "done",
                    "undefined"}
  /\ shutStep \in 1..6

\* Until the process shuts down, a pointer that is not null points to an open
\* socket that was made for it, whatever calls failed before, except while a
\* failed call is about to clear it.
PointersValid ==
  mainState = "run" =>
    \A n \in Slots :
      \/ pointer[n] = nullptr
      \/ pointer[n] \in Open /\ allSockets[pointer[n]] = n
      \/ \E t \in Callers : callState[t] = "clear" /\ callSlot[t] = n

\* The open sockets no pointer leads to: shutDown cannot destroy them, and
\* `delete context_` waits for them for ever.
OrphanedSockets == {s \in Open : \A n \in Slots : pointer[n] # s}

\* Sockets are left behind only when something goes wrong, and at most three
\* at a time: whatever calls overlap and fail, and whenever main shuts down,
\* the open sockets without a pointer, or without an entry in allSockets_,
\* number at most three for each first call that overlapped another, each
\* connectClient or bindServer that failed and each pointer that a failed call
\* cleared, until a destroyed socket is used.
OrphansAccounted ==
  ~ misused => Cardinality(OrphanedSockets) + lost <= 3 * setbacks

\* At most one thread calls.
SoleCaller == \A t, u \in Callers : calls[t] > 0 /\ calls[u] > 0 => t = u

\* setTimeout went through the stateReceiver_ it does not check, after a failed
\* receive had cleared it.
TimeoutOnNull ==
  errors > 0 /\ \E t \in Callers :
    callState[t] = "undefined" /\ callSlot[t] = "setTimeout"

\* shutDown does not pull a socket away from a thread that waits in recv, and
\* failed calls leave nothing dangling behind: a destroyed socket is used only
\* by a call that was under way, but not yet in recv, when ZMQ was stopped, or
\* by setTimeout, called late or after a failed receive.  With two threads,
\* one's failed call may destroy the socket the other is about to use, so this
\* is said of one.
MisuseOnlyIfOverlapped ==
  misused /\ SoleCaller => overlapped \/ TimeoutOnNull

\* Every open socket is one that a thread waits on in recv, and no thread is
\* opening one.
OnlyReceiversLeft ==
  /\ lost = 0
  /\ \A t \in Callers : callState[t] # "connect"
  /\ \A s \in Open : \E t \in Callers :
       callState[t] = "receive" /\ held[t] = s /\ pointer[callSlot[t]] = s

\* The deletion of the context wakes the threads that wait in recv; they
\* close their sockets and the deletion returns, unless a signal gets them
\* out of recv first.
ShutdownCompletes ==
  \A e \in 0..MaxErrors :
    (mainState = "wait" /\ OnlyReceiversLeft /\ errors = e) ~>
      (mainState = "done" \/ errors > e)

-----------------------------------------------------------------------------
\* "Destroy all sockets" (shutDown): with no call under way, none is open
\* when shutDown returns.
ShutDownDestroysAll == mainState \in {"close", "wait", "done"} => Open = {}

\* "Returns true if all sockets were connected, false if ZMQ is shut down"
\* (connectClient, bindServer).
FalseOnlyIfShutDown == ~ failedWhileRunning
=============================================================================
