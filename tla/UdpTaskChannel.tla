---------------------------- MODULE UdpTaskChannel ----------------------------
(***************************************************************************)
(* The UDP channel of the FreeRTOS build that receives in a task of the    *)
(* kernel (src/ethutilities/freertos/UdpChannel.cpp), used by that task's  *)
(* callback and one thread of the application.  Hosts are in network byte  *)
(* order everywhere, ports where lwIP has them.                            *)
(***************************************************************************)
EXTENDS Integers, Sequences

CONSTANTS
  TaskHosts, \* that send datagrams or are sent to
  TaskPorts  \* in network byte order: pairs of bytes

ASSUME TaskAssumption == TaskPorts \subseteq Nat \X Nat

VARIABLES
  task,        \* where the receiving task is
  app,         \* where the thread of the application is
  taskSocket,  \* the open socket: -1 none, 0 number 0, 1 any other number
  taskCallback,\* whether callback_ is set
  taskDst,     \* dstAddr_
  dmSource_,   \* host and port (in host byte order) of the last datagram
  taskFrom,    \* history: the sender of the datagram being handled
  taskTo       \* where the callback's reply goes, Nowhere if there is none

taskVars ==
  <<task, app, taskSocket, taskCallback, taskDst, dmSource_, taskFrom, taskTo>>

Address == [host : TaskHosts, port : TaskPorts]
Nowhere == [host |-> 0, port |-> <<0, 0>>]

\* htons() and ntohs() on a little-endian processor.
Swapped(port) == <<port[2], port[1]>>

Ports == TaskPorts \cup {<<0, 0>>}
SwappedPorts == {Swapped(q) : q \in Ports}

TaskTypeOK ==
  /\ task \in {"none", "recv", "host", "port", "test", "call", "reply", "crashed",
               "deleted"}
  /\ app \in {"idle", "setHost", "delete", "gone"}
  /\ taskSocket \in {-1, 0, 1} /\ taskCallback \in BOOLEAN
  /\ taskDst \in [host : TaskHosts \cup {0}, port : Ports]
  /\ dmSource_ \in [host : TaskHosts \cup {0}, port : SwappedPorts]
  /\ taskFrom \in Address \cup {Nowhere}
  /\ taskTo \in [host : TaskHosts \cup {0}, port : Ports]

\* The constructor has failed or not been called.
TaskInit ==
  /\ task = "none" /\ app = "idle"
  /\ taskSocket = -1 /\ taskCallback = FALSE
  /\ taskDst = Nowhere /\ dmSource_ = Nowhere
  /\ taskFrom = Nowhere /\ taskTo = Nowhere

TaskGoto(here, there) == task = here /\ task' = there
AppGoto(here, there) == app = here /\ app' = there

-----------------------------------------------------------------------------
(* The task: voidCallback, which the kernel calls again and again.         *)

\* recvfrom() waits for a datagram; when it fails, voidCallback returns.
TaskRecv ==
  /\ taskSocket # -1
  /\ TaskGoto("recv", "port")
  /\ taskFrom' \in Address
  /\ UNCHANGED <<app, taskSocket, taskCallback, taskDst, dmSource_, taskTo>>

\* Mutant: the port is left as lwIP has it.
SourceUnswapped(port) == port

SourcePort(port) == Swapped(port)

StorePort ==
  /\ TaskGoto("port", "host")
  /\ dmSource_' = [dmSource_ EXCEPT !.port = SourcePort(taskFrom.port)]
  /\ UNCHANGED <<app, taskSocket, taskCallback, taskDst, taskFrom, taskTo>>

StoreHost ==
  /\ TaskGoto("host", "test")
  /\ dmSource_' = [dmSource_ EXCEPT !.host = taskFrom.host]
  /\ UNCHANGED <<app, taskSocket, taskCallback, taskDst, taskFrom, taskTo>>

TestCallback ==
  /\ TaskGoto("test", IF taskCallback THEN "call" ELSE "recv")
  /\ UNCHANGED <<app, taskSocket, taskCallback, taskDst, dmSource_, taskFrom, taskTo>>

\* Destination of a tx() with the callback's parameter, which points to dmSource_.
Parameter == [host |-> dmSource_.host, port |-> Swapped(dmSource_.port)]

\* callback_ is read again for the call: null if deinitialize() has come between.
\* The application may reply with the parameter it gets.
CallCallback ==
  /\ \/ taskCallback /\ TaskGoto("call", "recv") /\ UNCHANGED taskTo
     \/ taskCallback /\ TaskGoto("call", "reply") /\ taskTo' = Parameter
     \/ ~taskCallback /\ TaskGoto("call", "crashed") /\ UNCHANGED taskTo
  /\ UNCHANGED <<app, taskSocket, taskCallback, taskDst, dmSource_, taskFrom>>

\* sendto(), whatever its outcome.
Reply ==
  /\ TaskGoto("reply", "recv")
  /\ taskTo' = Nowhere
  /\ UNCHANGED <<app, taskSocket, taskCallback, taskDst, dmSource_, taskFrom>>

-----------------------------------------------------------------------------
(* The application's thread.                                               *)

TaskConstruct ==
  /\ app = "idle" /\ TaskGoto("none", "recv")
  /\ taskSocket' \in {0, 1}
  /\ taskDst' \in Address
  /\ UNCHANGED <<app, taskCallback, dmSource_, taskFrom, taskTo>>

\* initialize() and deinitialize().
TaskSetCallback ==
  /\ app = "idle"
  /\ taskCallback' = ~taskCallback
  /\ UNCHANGED <<task, app, taskSocket, taskDst, dmSource_, taskFrom, taskTo>>

\* setDestination() stores the port, then the host.
SetDestination ==
  /\ \/ /\ AppGoto("idle", "setHost")
        /\ \E q \in TaskPorts : taskDst' = [taskDst EXCEPT !.port = q]
     \/ /\ AppGoto("setHost", "idle")
        /\ \E h \in TaskHosts : taskDst' = [taskDst EXCEPT !.host = h]
  /\ UNCHANGED <<task, taskSocket, taskCallback, dmSource_, taskFrom, taskTo>>

\* The destructor closes the socket, unless its number is 0, then deletes the task
\* where it is.
TaskDestroy ==
  /\ \/ /\ AppGoto("idle", "delete") /\ UNCHANGED task
        /\ taskSocket' = IF taskSocket > 0 THEN -1 ELSE taskSocket
     \/ /\ AppGoto("delete", "gone") /\ UNCHANGED taskSocket
        /\ task' = IF task = "none" THEN "none" ELSE "deleted"
  /\ UNCHANGED <<taskCallback, taskDst, dmSource_, taskFrom, taskTo>>

TaskNext ==
  \/ TaskRecv \/ StorePort \/ StoreHost \/ TestCallback \/ CallCallback \/ Reply
  \/ TaskConstruct \/ TaskSetCallback \/ SetDestination \/ TaskDestroy

TaskSpec == TaskInit /\ [][TaskNext]_taskVars

-----------------------------------------------------------------------------
(* Properties.                                                             *)

\* A reply goes to the host and the port that the datagram came from, though its
\* address is kept in a member and turned over twice on the way.
RepliesToSender == task = "reply" => taskTo = taskFrom

=============================================================================
