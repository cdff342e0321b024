----------------------------- MODULE ZMQHandler -----------------------------
(***************************************************************************)
(* The life cycle of ZMQHandler: the context, the flag running_ and the    *)
(* registry of the sockets that are open.                                  *)
(*                                                                         *)
(* Sockets are named by numbers, in the order of their creation; 0 is the  *)
(* null pointer.  A number is not used again, so that a socket that was    *)
(* destroyed is told apart from every other.                               *)
(***************************************************************************)
EXTENDS Integers, FiniteSets

VARIABLES
  running,                \* running_
  context,                \* the state of *context_
  allSockets,             \* the open sockets and their names
  numberOfActiveSockets,
  created,                \* history: the number of sockets ever created
  lost                    \* history: sockets opened but never registered

zmqVars ==
  <<running, context, allSockets, numberOfActiveSockets, created, lost>>

nullptr == 0

Open == DOMAIN allSockets

ZMQInit ==
  /\ running = TRUE
  /\ context = "open"
  /\ allSockets = <<>>
  /\ numberOfActiveSockets = 0
  /\ created = 0
  /\ lost = 0

Stop ==
  /\ running' = FALSE
  /\ UNCHANGED <<context, allSockets, numberOfActiveSockets, created, lost>>

\* The socket is opened, counted and registered.
GenerateSocket(name) ==
  /\ context = "open"
  /\ created' = created + 1
  /\ allSockets' = [s \in Open \cup {created + 1} |->
                      IF s = created + 1 THEN name ELSE allSockets[s]]
  /\ numberOfActiveSockets' = numberOfActiveSockets + 1
  /\ UNCHANGED <<running, context, lost>>

\* GenerateSocket throws: from new socket_t, or from setsockopt, and then the
\* socket stays open although nobody knows it.
GenerateSocketThrows ==
  /\ lost' \in {lost, lost + 1}
  /\ UNCHANGED <<running, context, allSockets, numberOfActiveSockets, created>>

\* Mutant: a null pointer is counted.
RemainingSocketsUnchecked(socket) == numberOfActiveSockets - 1

\* Mutant: nothing is counted down.
RemainingSocketsKept(socket) == numberOfActiveSockets

\* A null pointer is ignored.
RemainingSockets(socket) ==
  IF socket = nullptr THEN numberOfActiveSockets ELSE numberOfActiveSockets - 1

DestroySocket(socket) ==
  /\ allSockets' = [s \in Open \ {socket} |-> allSockets[s]]
  /\ numberOfActiveSockets' = RemainingSockets(socket)
  /\ UNCHANGED <<running, context, created, lost>>

\* delete context_: from now on every blocking call on a socket fails with
\* ETERM.
BeginShutdown ==
  /\ context' = "terminating"
  /\ UNCHANGED <<running, allSockets, numberOfActiveSockets, created, lost>>

\* The delete returns when all sockets are closed.
EndShutdown ==
  /\ context = "terminating"
  /\ Open = {} /\ lost = 0
  /\ context' = "closed"
  /\ UNCHANGED <<running, allSockets, numberOfActiveSockets, created, lost>>

ZMQTypeOK ==
  /\ running \in BOOLEAN
  /\ context \in {"open", "terminating", "closed"}
  /\ Open \subseteq 1..created
  /\ numberOfActiveSockets = Cardinality(Open)
  /\ created \in Nat
  /\ lost \in Nat
=============================================================================
