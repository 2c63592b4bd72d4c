---------------------------- MODULE UdpVoidChannel ----------------------------
(***************************************************************************)
(* A UDP channel of the FreeRTOS build whose receiving thread and whose    *)
(* senders share a socket number and the address of the last sender        *)
(* (src/ethutilities/freertos/UdpVoidChannel.cpp).  Threads may be         *)
(* preempted between any two accesses to the object: a member is loaded in *)
(* one step and the call it is an argument of is made in a later one.      *)
(***************************************************************************)
EXTENDS Integers, Sequences

CONSTANTS
  Rx,       \* the receiving thread
  Senders,  \* the application's threads that call tx()
  Sockets,  \* the numbers lwIP gives to sockets
  Peers,    \* hosts and ports that send datagrams: pairs
  MaxInbox, \* bound: datagrams waiting in a socket
  None      \* no thread, nothing loaded

ASSUME VoidAssumption ==
  /\ Rx \notin Senders
  /\ Sockets \subseteq Nat /\ Peers \subseteq Nat \X Nat
  /\ MaxInbox \in Nat \ {0}
  /\ None \notin Senders \cup {Rx} \cup Sockets \cup {-1}

VARIABLES
  owner,   \* lwIP: whose socket a number is
  inbox,   \* lwIP: the senders of the datagrams in the channel's socket
  socket_,
  dstAddr_,
  mutex,   \* the thread that holds dstAddrMutex_
  pc,      \* the statement each thread is at
  arg,     \* the socket number it has loaded for its call
  fd,      \* fds.fd, the copy that rxHandler polls
  srcAddr, \* rxHandler's sender of the datagram
  dstAddr  \* tx's destination, for each thread

lwip == <<owner, inbox>>
members == <<socket_, dstAddr_, mutex>>
locals == <<fd, srcAddr, dstAddr>>
voidVars == <<lwip, members, pc, arg, locals>>

Threads == Senders \cup {Rx}
Numbers == Sockets \cup {-1}
Zero == <<0, 0>>
Halves == {p[1] : p \in Peers \cup {Zero}} \X {p[2] : p \in Peers \cup {Zero}}

\* An address that is being copied is a mixture of two.
VoidTypeOK ==
  /\ owner \in [Sockets -> {"free", "channel", "other"}]
  /\ inbox \in Seq(Peers) /\ Len(inbox) <= MaxInbox
  /\ socket_ \in Numbers
  /\ dstAddr_ \in Halves
  /\ mutex \in Threads \cup {None}
  /\ pc \in [Threads -> {"none", "start", "test", "poll", "ioctl", "recv", "callback",
                         "lock", "store1", "store2", "exit", "exitClear", "ended",
                         "idle", "txLock", "read1", "read2", "send", "close", "clear"}]
  /\ arg \in [Threads -> Numbers \cup {None}]
  /\ fd \in Numbers
  /\ srcAddr \in Halves
  /\ dstAddr \in [Threads -> Halves]

\* Before the constructor, which is also how it leaves the channel when lwIP has
\* no socket for it or its port is in use: without a thread.
VoidInit ==
  /\ owner = [s \in Sockets |-> "free"]
  /\ inbox = << >>
  /\ socket_ = -1
  /\ dstAddr_ = Zero
  /\ mutex = None
  /\ pc = [t \in Threads |-> IF t = Rx THEN "none" ELSE "idle"]
  /\ arg = [t \in Threads |-> None]
  /\ fd = -1
  /\ srcAddr = Zero
  /\ dstAddr = [t \in Threads |-> Zero]

-----------------------------------------------------------------------------

\* Thread t goes on from one statement to another.
Goto(t, here, there) == pc[t] = here /\ pc' = [pc EXCEPT ![t] = there]

\* The constructor succeeds.
Construct ==
  /\ \E s \in Sockets :
       /\ owner[s] = "free"
       /\ owner' = [owner EXCEPT ![s] = "channel"]
       /\ socket_' = s
  /\ Goto(Rx, "none", "start")
  /\ UNCHANGED <<inbox, dstAddr_, mutex, arg, locals>>

\* Load socket_ for the next call.
Load(t) ==
  /\ pc[t] \in {"ioctl", "recv", "exit", "send", "close"}
  /\ arg[t] = None
  /\ arg' = [arg EXCEPT ![t] = socket_]
  /\ UNCHANGED <<lwip, members, pc, locals>>

\* Make that call.
Call(t) == arg[t] # None /\ arg' = [arg EXCEPT ![t] = None]

\* Whose socket the number n is.
OwnerOf(n) == IF n \in Sockets THEN owner[n] ELSE "free"
Callee(t) == OwnerOf(arg[t])

\* closesocket().  What waits in the socket is lost.
CloseSocket(t, here, there) ==
  /\ Call(t)
  /\ Goto(t, here, there)
  /\ owner' = [s \in Sockets |-> IF s = arg[t] THEN "free" ELSE owner[s]]
  /\ inbox' = IF Callee(t) = "channel" THEN << >> ELSE inbox
  /\ UNCHANGED <<members, locals>>

\* Mutant: the number of the closed socket is kept.
Kept == socket_

Cleared == -1

\* this->socket_ = -1.
Clear(t, here, there) ==
  /\ Goto(t, here, there)
  /\ socket_' = Cleared
  /\ UNCHANGED <<lwip, dstAddr_, mutex, arg, locals>>

\* Mutant: the mutex is not waited for.
IsFreeForAll(t) == TRUE

IsFree(t) == mutex = None

Lock(t, here, there) ==
  /\ IsFree(t)
  /\ mutex' = t
  /\ Goto(t, here, there)
  /\ UNCHANGED <<lwip, socket_, dstAddr_, arg, locals>>

-----------------------------------------------------------------------------
(* rxHandler.                                                              *)

Start ==
  /\ Goto(Rx, "start", "test")
  /\ fd' = socket_
  /\ UNCHANGED <<lwip, members, arg, srcAddr, dstAddr>>

\* Mutant: the first socket is taken for none.
IsNoneOrFirst(s) == s <= 0

IsNone(s) == s < 0

Test ==
  /\ Goto(Rx, "test", IF IsNone(socket_) THEN "ended" ELSE "poll")
  /\ UNCHANGED <<lwip, members, arg, locals>>

\* What poll() reports of the number fd: data, no socket, or a failure.  It
\* waits otherwise, and may go on waiting when the socket is closed.
Poll ==
  /\ \/ /\ \/ OwnerOf(fd) = "other"
           \/ OwnerOf(fd) = "channel" /\ inbox # << >>
        /\ Goto(Rx, "poll", "ioctl")
     \/ OwnerOf(fd) = "free" /\ Goto(Rx, "poll", "test")
     \/ Goto(Rx, "poll", "exit")
  /\ UNCHANGED <<lwip, members, arg, locals>>

Ioctl ==
  /\ Call(Rx)
  /\ Goto(Rx, "ioctl", IF Callee(Rx) = "free" THEN "exit" ELSE "recv")
  /\ UNCHANGED <<lwip, members, locals>>

\* recvfrom() fails, or it takes a datagram, which may be empty, or waits for
\* one.  A datagram of another socket is from anybody.
Recv ==
  /\ Call(Rx)
  /\ \/ /\ Goto(Rx, "recv", "exit")
        /\ UNCHANGED <<inbox, srcAddr>>
     \/ /\ Callee(Rx) = "channel" /\ inbox # << >>
        /\ srcAddr' = Head(inbox) /\ inbox' = Tail(inbox)
        /\ Goto(Rx, "recv", "callback") \/ Goto(Rx, "recv", "test")
     \/ /\ Callee(Rx) = "other"
        /\ srcAddr' \in Peers /\ UNCHANGED inbox
        /\ Goto(Rx, "recv", "callback") \/ Goto(Rx, "recv", "test")
  /\ UNCHANGED <<owner, members, fd, dstAddr>>

\* The application has not called tx(), or does not any more.
CallbackReturns ==
  /\ Goto(Rx, "callback", "lock")
  /\ UNCHANGED <<lwip, members, arg, locals>>

\* Store one half of the address.
Store(k, here, there) ==
  /\ Goto(Rx, here, there)
  /\ dstAddr_' = [dstAddr_ EXCEPT ![k] = srcAddr[k]]
  /\ mutex' = IF k = 2 THEN None ELSE mutex
  /\ UNCHANGED <<lwip, socket_, arg, locals>>

RxHandler ==
  \/ Start \/ Test \/ Poll \/ Ioctl \/ Recv
  \/ CallbackReturns
  \/ Lock(Rx, "lock", "store1")
  \/ Store(1, "store1", "store2") \/ Store(2, "store2", "test")
  \/ CloseSocket(Rx, "exit", "exitClear") \/ Clear(Rx, "exitClear", "ended")

-----------------------------------------------------------------------------
(* tx, called by a thread of the application or by the callback.           *)

Caller(t) == IF t = Rx THEN "callback" ELSE "idle"
After(t) == IF t = Rx THEN "lock" ELSE "idle"

\* With a parameter the datagram goes there, without one to dstAddr_.
Tx(t) ==
  /\ ~IsNone(socket_)
  /\ \/ \E p \in IF t = Rx THEN {srcAddr} ELSE Peers :
          /\ Goto(t, Caller(t), "send")
          /\ dstAddr' = [dstAddr EXCEPT ![t] = p]
     \/ Goto(t, Caller(t), "txLock") /\ UNCHANGED dstAddr
  /\ UNCHANGED <<lwip, members, arg, fd, srcAddr>>

Read(t, k, here, there) ==
  /\ Goto(t, here, there)
  /\ dstAddr' = [dstAddr EXCEPT ![t][k] = dstAddr_[k]]
  /\ mutex' = IF k = 2 THEN None ELSE mutex
  /\ UNCHANGED <<lwip, socket_, dstAddr_, arg, fd, srcAddr>>

\* sendto() succeeds or there is no network (118), or fails otherwise.
Send(t) ==
  /\ Call(t)
  /\ \/ Callee(t) # "free" /\ Goto(t, "send", After(t))
     \/ Goto(t, "send", "close")
  /\ dstAddr' = [dstAddr EXCEPT ![t] = Zero]
  /\ UNCHANGED <<lwip, members, fd, srcAddr>>

TxSteps(t) ==
  \/ Lock(t, "txLock", "read1")
  \/ Read(t, 1, "read1", "read2") \/ Read(t, 2, "read2", "send")
  \/ Send(t)
  \/ CloseSocket(t, "close", "clear") \/ Clear(t, "clear", After(t))

-----------------------------------------------------------------------------
(* lwIP.                                                                   *)

Arrive ==
  /\ \E s \in Sockets : owner[s] = "channel"
  /\ Len(inbox) < MaxInbox
  /\ \E p \in Peers : inbox' = Append(inbox, p)
  /\ UNCHANGED <<owner, members, pc, arg, locals>>

\* The other users of lwIP open and close sockets.
OtherSocket ==
  /\ \E s \in Sockets, w \in {"free", "other"} :
       /\ owner[s] # "channel" /\ owner[s] # w
       /\ owner' = [owner EXCEPT ![s] = w]
  /\ UNCHANGED <<inbox, members, pc, arg, locals>>

VoidNext ==
  \/ Construct \/ RxHandler
  \/ \E t \in Threads : Load(t) \/ Tx(t) \/ TxSteps(t)
  \/ Arrive \/ OtherSocket

VoidSpec == VoidInit /\ [][VoidNext]_voidVars

\* The threads run, the mutex is fair, poll() reports the data that waits, and
\* the callback returns.
VoidFairness ==
  /\ WF_voidVars(RxHandler \/ Load(Rx))
  /\ SF_voidVars(Lock(Rx, "lock", "store1"))
  /\ \A t \in Threads : WF_voidVars(TxSteps(t) \/ Load(t))
  /\ SF_voidVars(Lock(Rx, "txLock", "read1"))

-----------------------------------------------------------------------------
(* Properties.                                                             *)

\* No datagram goes to a mixture of two addresses: to the host of one sender
\* and the port of another.
WholeDestination ==
  \A t \in Threads : pc[t] = "send" => dstAddr[t] \in Peers \cup {Zero}

\* The channel's number is that of another user's socket only while a thread is
\* between the two statements with which tx() and rxHandler() close it.
StaleOnlyWhileClosing ==
  socket_ # -1 /\ owner[socket_] # "channel" =>
    \E t \in Threads : pc[t] \in {"clear", "exitClear"}

\* The receiving thread takes what waits in the socket: the callback it calls,
\* which may send, and the senders do not block it.
DatagramsTaken == inbox # << >> ~> pc[Rx] = "recv" \/ inbox = << >>

=============================================================================
