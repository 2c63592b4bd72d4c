------------------------------ MODULE ChannelProofs ------------------------------
(***************************************************************************)
(* Theorems about the message channels, for any number of threads,         *)
(* sockets, connections, hosts, ports and sizes.  UdpVoidChannel: an       *)
(* address is copied as a whole, and the number in socket_ is another's    *)
(* only until it is cleared.  UdpTaskChannel: replies go to the sender.    *)
(* UdpChannel: a buffer is sent in its order.  WsChannel: an open          *)
(* websocket is listed, and the walk stands on a node that is there.       *)
(***************************************************************************)
EXTENDS MCChannels, ListTheorems

-----------------------------------------------------------------------------
(* UdpVoidChannel.                                                         *)

\* The addresses that are not torn.
Whole == Peers \cup {Zero}

\* The statements that are executed with the mutex held.
Holding == {"store1", "store2", "read1", "read2"}

\* tx()
Sending == {"txLock", "read1", "read2", "send", "close", "clear"}

\* The receiving thread has a datagram.
Handling == {"callback", "lock", "store1", "store2"} \cup Sending

\* Where a thread can be.
Places ==
  {"none", "start", "test", "poll", "ioctl", "recv", "exit", "exitClear", "ended",
   "idle"} \cup Handling

\* The types that the other parts of the invariant need.
TypeInv ==
  /\ owner \in [Sockets -> {"free", "channel", "other"}]
  /\ inbox \in Seq(Peers)
  /\ socket_ \in Numbers
  /\ pc \in [Threads -> Places]
  /\ dstAddr_ \in Halves
  /\ srcAddr \in Halves
  /\ dstAddr \in [Threads -> Halves]

\* The receiving task is never outside its loop, nor another thread in it.
PlaceInv ==
  /\ pc[Rx] # "idle"
  /\ \A t \in Senders : pc[t] \in Sending \cup {"idle"}

\* A thread that holds the mutex is its owner.
MutexInv == \A t \in Threads : pc[t] \in Holding => mutex = t

\* dstAddr_ is a mixture only between the two stores, and what has been read of
\* it is a half of what is there.
AddressInv ==
  /\ pc[Rx] \in Handling => srcAddr \in Peers
  /\ IF pc[Rx] = "store2" THEN dstAddr_[1] = srcAddr[1] ELSE dstAddr_ \in Whole
  /\ \A t \in Threads : pc[t] = "read2" => dstAddr[t][1] = dstAddr_[1]
  /\ \A t \in Threads : pc[t] = "send" => dstAddr[t] \in Whole

\* The inductive invariant of the freertos UdpVoidChannel.
IInv == TypeInv /\ PlaceInv /\ MutexInv /\ AddressInv

-----------------------------------------------------------------------------
(* Pairs.                                                                  *)

\* An address is a pair of halves.
LEMMA PeersAreHalves == Whole \subseteq Halves
BY VoidAssumption DEF Whole, Halves, Zero

\* An address is stored when both its halves are.
LEMMA BothStored ==
  ASSUME NEW p \in Halves, NEW q \in Halves, p[1] = q[1]
  PROVE  [p EXCEPT ![2] = q[2]] = q
BY DEF Halves, Zero

\* The same of one address.
LEMMA WholeIsHalf == ASSUME NEW p \in Peers PROVE p \in Halves
BY PeersAreHalves DEF Whole

-----------------------------------------------------------------------------
(* Steps that move a thread and change no address.                         *)

\* Thread t goes from one statement to another, neither of which is about an
\* address, and does not become the handler of a datagram.
LEMMA Quiet ==
  ASSUME IInv, TypeInv', NEW t \in Threads, NEW there \in Places,
         pc' = [pc EXCEPT ![t] = there],
         UNCHANGED <<dstAddr_, mutex, srcAddr, dstAddr>>,
         pc[t] # "store2",
         there \notin Holding \cup {"send"},
         IF t = Rx THEN there \in Handling => pc[Rx] \in Handling
                   ELSE there \in Sending \cup {"idle"},
         t = Rx => there # "idle"
  PROVE  IInv'
<1>1. PlaceInv'
  BY VoidAssumption DEF IInv, TypeInv, PlaceInv, Threads
<1>2. MutexInv'
  BY DEF IInv, TypeInv, MutexInv
<1>3. AddressInv'
  <2>1. pc'[Rx] \in Handling => srcAddr' \in Peers
    BY DEF IInv, TypeInv, AddressInv, Threads
  <2>2. IF pc'[Rx] = "store2" THEN dstAddr_'[1] = srcAddr'[1] ELSE dstAddr_' \in Whole'
    BY VoidAssumption DEF IInv, TypeInv, AddressInv, Threads, Holding, Whole
  <2>3. \A u \in Threads : pc'[u] = "read2" => dstAddr'[u][1] = dstAddr_'[1]
    BY DEF IInv, TypeInv, AddressInv, Holding
  <2>4. \A u \in Threads : pc'[u] = "send" => dstAddr'[u] \in Whole'
    BY DEF IInv, TypeInv, AddressInv, Whole
  <2>5. QED
    BY <2>1, <2>2, <2>3, <2>4 DEF AddressInv
<1>4. QED
  BY <1>1, <1>2, <1>3 DEF IInv

\* Nothing the address part of the invariant is about changes.
LEMMA Untouched ==
  ASSUME IInv, TypeInv', UNCHANGED <<dstAddr_, mutex, srcAddr, dstAddr, pc>>
  PROVE  IInv'
BY DEF IInv, PlaceInv, MutexInv, AddressInv, Whole

-----------------------------------------------------------------------------
(* The actions that are shared by the two procedures.                      *)

\* Reading socket_ keeps the invariant.
LEMMA LoadKeepsInv ==
  ASSUME IInv, NEW t \in Threads, Load(t)
  PROVE  IInv'
<1>1. TypeInv'
  BY DEF IInv, TypeInv, Load, lwip, members, locals
<1>2. QED
  BY <1>1, Untouched DEF Load, members, locals

\* Closing the socket keeps the invariant.
LEMMA CloseKeepsInv ==
  ASSUME IInv, NEW t \in Threads,
         NEW here \in {"exit", "close"}, NEW there \in {"exitClear", "clear"},
         here = "exit" <=> there = "exitClear", there = "exitClear" => t = Rx,
         CloseSocket(t, here, there)
  PROVE  IInv'
<1>1. /\ pc[t] = here /\ pc' = [pc EXCEPT ![t] = there]
      /\ UNCHANGED <<members, locals>>
  BY DEF CloseSocket, Goto
<1>2. TypeInv'
  <2>1. owner' \in [Sockets -> {"free", "channel", "other"}] /\ inbox' \in Seq(Peers)
    BY DEF IInv, TypeInv, CloseSocket
  <2>2. QED
    BY <1>1, <2>1 DEF IInv, TypeInv, members, locals, Places, Handling, Sending
<1>3. QED
  BY <1>1, <1>2, Quiet DEF members, locals, Holding, Sending, Handling, Places

\* Clearing socket_ keeps the invariant.
LEMMA ClearKeepsInv ==
  ASSUME IInv, NEW t \in Threads,
         NEW here \in {"exitClear", "clear"}, NEW there \in {"ended", After(t)},
         here = "exitClear" <=> there = "ended", there = "ended" => t = Rx,
         Clear(t, here, there)
  PROVE  IInv'
<1>1. /\ pc[t] = here /\ pc' = [pc EXCEPT ![t] = there]
      /\ UNCHANGED <<dstAddr_, mutex, locals>>
  BY DEF Clear, Goto
<1>2. there \in Places
  BY DEF After, Places, Handling
<1>3. TypeInv'
  BY <1>1, <1>2 DEF IInv, TypeInv, Clear, lwip, locals, Cleared, Numbers
<1>4. there \in {"ended", "lock", "idle"} /\ (there = "idle" <=> t # Rx)
  BY DEF After
<1>5. QED
  BY <1>1, <1>2, <1>3, <1>4, Quiet DEF locals, Holding, Sending, Handling

\* The mutex was free, so that no other thread is at a statement that needs it.
LEMMA LockKeepsInv ==
  ASSUME IInv, NEW t \in Threads,
         \/ t = Rx /\ Lock(t, "lock", "store1")
         \/ Lock(t, "txLock", "read1")
  PROVE  IInv'
<1>1. PICK here \in {"lock", "txLock"}, there \in {"store1", "read1"} :
        /\ here = "lock" <=> there = "store1"
        /\ there = "store1" => t = Rx
        /\ mutex = None /\ mutex' = t
        /\ pc[t] = here /\ pc' = [pc EXCEPT ![t] = there]
        /\ UNCHANGED <<lwip, socket_, dstAddr_, arg, locals>>
  BY DEF Lock, IsFree, Goto
<1>2. TypeInv'
  BY <1>1 DEF IInv, TypeInv, lwip, locals, Places, Handling, Sending
<1>3. PlaceInv'
  BY <1>1 DEF IInv, TypeInv, PlaceInv, Sending
<1>4. MutexInv'
  BY <1>1, VoidAssumption DEF IInv, TypeInv, MutexInv, Threads
<1>5. AddressInv'
  BY <1>1, VoidAssumption
  DEF IInv, TypeInv, AddressInv, Handling, Sending, locals, Threads, Whole
<1>6. QED
  BY <1>2, <1>3, <1>4, <1>5 DEF IInv

-----------------------------------------------------------------------------
(* rxHandler, and the rest of lwIP and of the program.                     *)

\* A step of the receiving thread without a datagram.
LEMMA RxQuiet ==
  ASSUME IInv,
         NEW here \in {"none", "start", "test", "poll", "ioctl", "recv"},
         NEW there \in {"start", "test", "poll", "ioctl", "recv", "exit", "ended"},
         Goto(Rx, here, there), owner' \in [Sockets -> {"free", "channel", "other"}],
         inbox' \in Seq(Peers), socket_' \in Numbers,
         UNCHANGED <<dstAddr_, mutex, srcAddr, dstAddr>>
  PROVE  IInv'
<1>1. there \in Places \ (Handling \cup Holding \cup {"idle"})
  BY DEF Places, Handling, Sending, Holding
<1>2. TypeInv'
  BY <1>1 DEF IInv, TypeInv, Goto, Threads
<1>3. pc[Rx] # "store2" /\ pc' = [pc EXCEPT ![Rx] = there]
  BY DEF Goto
<1>4. QED
  BY <1>1, <1>2, <1>3, Quiet DEF Threads, Handling, Sending

\* A datagram received keeps the invariant.
LEMMA RecvKeepsInv ==
  ASSUME IInv, Recv
  PROVE  IInv'
<1>1. CASE Goto(Rx, "recv", "exit") /\ UNCHANGED <<inbox, srcAddr>>
  <2>1. /\ UNCHANGED <<owner, inbox, socket_, dstAddr_, mutex, srcAddr, dstAddr>>
        /\ Goto(Rx, "recv", "exit")
    BY <1>1 DEF Recv, members
  <2>2. QED
    BY <2>1, RxQuiet DEF IInv, TypeInv
<1>2. CASE \E there \in {"callback", "test"} :
             srcAddr' \in Peers /\ inbox' \in Seq(Peers) /\ Goto(Rx, "recv", there)
  <2>1. TypeInv'
    BY <1>2, WholeIsHalf
    DEF Recv, IInv, TypeInv, Goto, members, Places, Handling, Threads
  <2>2. PlaceInv'
    BY <1>2, VoidAssumption DEF IInv, TypeInv, PlaceInv, Goto, Threads
  <2>3. MutexInv'
    BY <1>2 DEF Recv, IInv, TypeInv, MutexInv, Goto, members, Holding, Threads
  <2>4. AddressInv'
    BY <1>2 DEF Recv, IInv, TypeInv, AddressInv, Goto, members, Threads, Whole
  <2>5. QED
    BY <2>1, <2>2, <2>3, <2>4 DEF IInv
<1>3. Callee(Rx) = "channel" /\ inbox # << >> =>
        Head(inbox) \in Peers /\ Tail(inbox) \in Seq(Peers)
  BY DEF IInv, TypeInv
<1>4. QED
  BY <1>1, <1>2, <1>3 DEF Recv, IInv, TypeInv

\* The thread holds the mutex: no other one has read the first half only.
LEMMA StoreKeepsInv ==
  ASSUME IInv, Store(1, "store1", "store2") \/ Store(2, "store2", "test")
  PROVE  IInv'
<1>1. PICK k \in {1, 2} :
        /\ pc[Rx] = (IF k = 1 THEN "store1" ELSE "store2")
        /\ pc' = [pc EXCEPT ![Rx] = IF k = 1 THEN "store2" ELSE "test"]
        /\ dstAddr_' = [dstAddr_ EXCEPT ![k] = srcAddr[k]]
        /\ mutex' = IF k = 2 THEN None ELSE mutex
        /\ UNCHANGED <<lwip, socket_, arg, locals>>
  BY DEF Store, Goto
<1>2. /\ mutex = Rx /\ srcAddr \in Peers
      /\ \A t \in Threads : t # Rx => pc[t] \notin Holding
  BY <1>1 DEF IInv, MutexInv, AddressInv, Holding, Handling, Threads
<1>3. /\ dstAddr_' \in Halves
      /\ k = 1 => dstAddr_'[1] = srcAddr[1]
  <2>1. dstAddr_ \in Halves /\ srcAddr \in Halves /\ k \in {1, 2}
    BY DEF IInv, TypeInv
  <2>2. /\ [dstAddr_ EXCEPT ![k] = srcAddr[k]] \in Halves
        /\ [dstAddr_ EXCEPT ![k] = srcAddr[k]][k] = srcAddr[k]
    BY <2>1 DEF Halves, Zero
  <2>3. QED
    BY <1>1, <2>2
<1>4. TypeInv'
  BY <1>1, <1>3 DEF IInv, TypeInv, lwip, locals, Places, Handling
<1>5. PlaceInv'
  BY <1>1, VoidAssumption DEF IInv, TypeInv, PlaceInv, Threads
<1>6. MutexInv'
  BY <1>1, <1>2 DEF IInv, TypeInv, MutexInv, Holding, Threads
<1>7. AddressInv'
  <2>1. CASE k = 1
    BY <1>1, <1>2, <1>3, <2>1
    DEF IInv, TypeInv, AddressInv, Holding, Threads, locals, Whole
  <2>2. CASE k = 2
    <3>1. dstAddr_' = srcAddr
      BY <1>1, <2>2, BothStored DEF IInv, TypeInv, AddressInv
    <3>2. QED
      BY <1>1, <1>2, <2>2, <3>1
      DEF IInv, TypeInv, AddressInv, Holding, Handling, Sending, Threads, locals, Whole
  <2>3. QED
    BY <2>1, <2>2
<1>8. QED
  BY <1>4, <1>5, <1>6, <1>7 DEF IInv

\* Every step of the receiving task keeps the invariant.
LEMMA RxHandlerKeepsInv ==
  ASSUME IInv, RxHandler
  PROVE  IInv'
<1>1. CASE Start
  BY <1>1, RxQuiet DEF Start, lwip, members, IInv, TypeInv
<1>2. CASE Test
  <2>1. \E there \in {"ended", "poll"} : Goto(Rx, "test", there)
    BY <1>2 DEF Test
  <2>2. QED
    BY <1>2, <2>1, RxQuiet
    DEF Test, lwip, members, locals, IInv, TypeInv
<1>3. CASE Poll
  <2>1. \E there \in {"ioctl", "test", "exit"} : Goto(Rx, "poll", there)
    BY <1>3 DEF Poll
  <2>2. QED
    BY <1>3, <2>1, RxQuiet
    DEF Poll, lwip, members, locals, IInv, TypeInv
<1>4. CASE Ioctl
  <2>1. \E there \in {"recv", "exit"} : Goto(Rx, "ioctl", there)
    BY <1>4 DEF Ioctl
  <2>2. QED
    BY <1>4, <2>1, RxQuiet
    DEF Ioctl, lwip, members, locals, IInv, TypeInv
<1>5. CASE CallbackReturns
  <2>1. /\ pc[Rx] = "callback" /\ pc' = [pc EXCEPT ![Rx] = "lock"]
        /\ UNCHANGED <<owner, inbox, socket_, dstAddr_, mutex, srcAddr, dstAddr>>
    BY <1>5 DEF CallbackReturns, Goto, lwip, members, locals
  <2>2. TypeInv'
    BY <2>1 DEF IInv, TypeInv, Places, Handling
  <2>3. QED
    BY <2>1, <2>2, Quiet DEF Threads, Places, Handling, Holding
<1>6. CASE Lock(Rx, "lock", "store1")
  BY <1>6, LockKeepsInv DEF Threads
<1>7. CASE CloseSocket(Rx, "exit", "exitClear")
  BY <1>7, CloseKeepsInv DEF Threads
<1>8. CASE Clear(Rx, "exitClear", "ended")
  BY <1>8, ClearKeepsInv DEF Threads
<1>9. QED
  BY <1>1, <1>2, <1>3, <1>4, <1>5, <1>6, <1>7, <1>8, RecvKeepsInv, StoreKeepsInv
  DEF RxHandler

\* What the constructor, the network and other sockets do keeps it.
LEMMA OutsideKeepsInv ==
  ASSUME IInv, Construct \/ Arrive \/ OtherSocket
  PROVE  IInv'
<1>1. CASE Construct
  <2>1. /\ owner' \in [Sockets -> {"free", "channel", "other"}]
        /\ socket_' \in Numbers
        /\ Goto(Rx, "none", "start")
        /\ UNCHANGED <<inbox, dstAddr_, mutex, srcAddr, dstAddr>>
    BY <1>1 DEF Construct, IInv, TypeInv, Numbers, locals
  <2>2. QED
    BY <2>1, RxQuiet DEF IInv, TypeInv
<1>2. CASE Arrive
  <2>1. TypeInv'
    BY <1>2 DEF Arrive, IInv, TypeInv, members, locals
  <2>2. QED
    BY <1>2, <2>1, Untouched DEF Arrive, members, locals
<1>3. CASE OtherSocket
  <2>1. TypeInv'
    BY <1>3 DEF OtherSocket, IInv, TypeInv, members, locals
  <2>2. QED
    BY <1>3, <2>1, Untouched DEF OtherSocket, members, locals
<1>4. QED
  BY <1>1, <1>2, <1>3

-----------------------------------------------------------------------------
(* tx.                                                                     *)

\* A call of tx() keeps the invariant.
LEMMA TxKeepsInv ==
  ASSUME IInv, NEW t \in Threads, Tx(t)
  PROVE  IInv'
<1>1. pc[t] = Caller(t) /\ UNCHANGED <<lwip, members, srcAddr>>
  BY DEF Tx, Goto
<1>2. PICK to \in {"send", "txLock"}, d \in Halves :
        /\ pc' = [pc EXCEPT ![t] = to]
        /\ dstAddr' = [dstAddr EXCEPT ![t] = d]
        /\ to = "send" => d \in Peers
  <2>1. CASE \E p \in IF t = Rx THEN {srcAddr} ELSE Peers :
               /\ Goto(t, Caller(t), "send")
               /\ dstAddr' = [dstAddr EXCEPT ![t] = p]
    <3>1. t = Rx => srcAddr \in Peers
      BY <1>1 DEF IInv, AddressInv, Caller, Handling
    <3>2. QED
      BY <2>1, <3>1, WholeIsHalf DEF Goto
  <2>2. CASE Goto(t, Caller(t), "txLock") /\ UNCHANGED dstAddr
    <3>1. dstAddr[t] \in Halves /\ dstAddr = [dstAddr EXCEPT ![t] = dstAddr[t]]
      BY DEF IInv, TypeInv
    <3>2. QED
      BY <2>2, <3>1 DEF Goto
  <2>3. QED
    BY <2>1, <2>2 DEF Tx
<1>3. TypeInv'
  BY <1>1, <1>2 DEF IInv, TypeInv, lwip, members, Places, Handling, Sending
<1>4. PlaceInv'
  BY <1>2 DEF IInv, TypeInv, PlaceInv, Sending
<1>5. MutexInv'
  BY <1>1, <1>2 DEF IInv, TypeInv, MutexInv, members, Holding
<1>6. AddressInv'
  BY <1>1, <1>2
  DEF IInv, TypeInv, AddressInv, members, Caller, Handling, Whole, Threads
<1>7. QED
  BY <1>3, <1>4, <1>5, <1>6 DEF IInv

\* The receiving thread does not store while this one holds the mutex.
LEMMA ReadKeepsInv ==
  ASSUME IInv, NEW t \in Threads,
         Read(t, 1, "read1", "read2") \/ Read(t, 2, "read2", "send")
  PROVE  IInv'
<1>1. PICK k \in {1, 2} :
        /\ pc[t] = (IF k = 1 THEN "read1" ELSE "read2")
        /\ pc' = [pc EXCEPT ![t] = IF k = 1 THEN "read2" ELSE "send"]
        /\ dstAddr' = [dstAddr EXCEPT ![t] = [@ EXCEPT ![k] = dstAddr_[k]]]
        /\ mutex' = IF k = 2 THEN None ELSE mutex
        /\ UNCHANGED <<lwip, socket_, dstAddr_, arg, fd, srcAddr>>
  BY DEF Read, Goto
<1>2. /\ mutex = t
      /\ \A u \in Threads : u # t => pc[u] \notin Holding
  BY <1>1 DEF IInv, MutexInv, Holding
<1>3. dstAddr_ \in Whole
  BY <1>1, <1>2 DEF IInv, AddressInv, Holding, Threads
<1>4. /\ dstAddr'[t] \in Halves
      /\ k = 1 => dstAddr'[t][1] = dstAddr_[1]
  <2>1. dstAddr[t] \in Halves /\ dstAddr_ \in Halves /\ k \in {1, 2}
    BY DEF IInv, TypeInv
  <2>2. /\ [dstAddr[t] EXCEPT ![k] = dstAddr_[k]] \in Halves
        /\ [dstAddr[t] EXCEPT ![k] = dstAddr_[k]][k] = dstAddr_[k]
    BY <2>1 DEF Halves, Zero
  <2>3. dstAddr'[t] = [dstAddr[t] EXCEPT ![k] = dstAddr_[k]]
    BY <1>1 DEF IInv, TypeInv
  <2>4. QED
    BY <2>2, <2>3
<1>5. TypeInv'
  BY <1>1, <1>4 DEF IInv, TypeInv, lwip, Places, Handling, Sending
<1>6. PlaceInv'
  BY <1>1 DEF IInv, TypeInv, PlaceInv, Sending
<1>7. MutexInv'
  BY <1>1, <1>2 DEF IInv, TypeInv, MutexInv, Holding
<1>8. AddressInv'
  <2>1. k = 2 => dstAddr'[t] = dstAddr_
    <3>1. SUFFICES ASSUME k = 2 PROVE dstAddr'[t] = dstAddr_
      OBVIOUS
    <3>2. dstAddr[t] \in Halves /\ dstAddr_ \in Halves /\ dstAddr[t][1] = dstAddr_[1]
      BY <1>1, <3>1 DEF IInv, TypeInv, AddressInv
    <3>3. dstAddr'[t] = [dstAddr[t] EXCEPT ![2] = dstAddr_[2]]
      BY <1>1, <3>1 DEF IInv, TypeInv
    <3>4. QED
      BY <3>2, <3>3, BothStored
  <2>2. pc'[Rx] \in Handling => srcAddr' \in Peers
    BY <1>1 DEF IInv, TypeInv, AddressInv, Handling, Sending, Threads
  <2>3. pc'[Rx] # "store2" /\ dstAddr_' \in Whole'
    BY <1>1, <1>2, <1>3 DEF IInv, TypeInv, Holding, Threads, Whole
  <2>4. \A u \in Threads : pc'[u] = "read2" => dstAddr'[u][1] = dstAddr_'[1]
    BY <1>1, <1>2, <1>4 DEF IInv, TypeInv, Holding
  <2>5. \A u \in Threads : pc'[u] = "send" => dstAddr'[u] \in Whole'
    BY <1>1, <1>3, <2>1 DEF IInv, TypeInv, AddressInv, Whole
  <2>6. QED
    BY <2>2, <2>3, <2>4, <2>5 DEF AddressInv
<1>9. QED
  BY <1>5, <1>6, <1>7, <1>8 DEF IInv

\* Sending keeps the invariant: the address it uses is whole.
LEMMA SendKeepsInv ==
  ASSUME IInv, NEW t \in Threads, Send(t)
  PROVE  IInv'
<1>1. PICK to \in {"lock", "idle", "close"} :
        /\ pc[t] = "send" /\ pc' = [pc EXCEPT ![t] = to]
        /\ dstAddr' = [dstAddr EXCEPT ![t] = Zero]
        /\ to = "idle" => t # Rx
        /\ to = "lock" => t = Rx
        /\ UNCHANGED <<lwip, members, fd, srcAddr>>
  BY DEF Send, Goto, After
<1>2. TypeInv'
  BY <1>1, PeersAreHalves
  DEF IInv, TypeInv, lwip, members, Places, Handling, Sending, Whole
<1>3. PlaceInv'
  BY <1>1, VoidAssumption DEF IInv, TypeInv, PlaceInv, Sending
<1>4. MutexInv'
  BY <1>1 DEF IInv, TypeInv, MutexInv, members, Holding
<1>5. AddressInv'
  BY <1>1
  DEF IInv, TypeInv, AddressInv, members, Handling, Sending, Whole, Threads
<1>6. QED
  BY <1>2, <1>3, <1>4, <1>5 DEF IInv

\* Every step of tx() keeps the invariant.
LEMMA TxStepsKeepInv ==
  ASSUME IInv, NEW t \in Threads, TxSteps(t)
  PROVE  IInv'
<1>1. CASE Clear(t, "clear", After(t))
  <2>1. "clear" # "exitClear" /\ After(t) # "ended"
    BY DEF After
  <2>2. QED
    BY <1>1, <2>1, ClearKeepsInv
<1>2. CASE CloseSocket(t, "close", "clear")
  BY <1>2, CloseKeepsInv
<1>3. QED
  BY <1>1, <1>2, LockKeepsInv, ReadKeepsInv, SendKeepsInv DEF TxSteps

-----------------------------------------------------------------------------

\* At first no thread runs.
LEMMA InitInv == VoidInit => IInv
<1>1. SUFFICES ASSUME VoidInit PROVE IInv
  OBVIOUS
<1>2. Zero \in Halves /\ Zero \in Whole
  BY PeersAreHalves DEF Whole
<1>3. TypeInv
  BY <1>1, <1>2 DEF VoidInit, TypeInv, Numbers, Places
<1>4. PlaceInv /\ MutexInv /\ AddressInv
  BY <1>1, <1>2, VoidAssumption
  DEF VoidInit, PlaceInv, MutexInv, AddressInv, Threads, Holding, Handling, Sending
<1>5. QED
  BY <1>3, <1>4 DEF IInv

\* The invariant is inductive.
LEMMA NextInv == IInv /\ [VoidNext]_voidVars => IInv'
<1>1. SUFFICES ASSUME IInv, [VoidNext]_voidVars PROVE IInv'
  OBVIOUS
<1>2. CASE UNCHANGED voidVars
  <2>1. TypeInv'
    BY <1>1, <1>2 DEF IInv, TypeInv, voidVars, lwip, members, locals
  <2>2. QED
    BY <1>1, <1>2, <2>1, Untouched DEF voidVars, members, locals
<1>3. CASE VoidNext
  BY <1>1, <1>3, RxHandlerKeepsInv, OutsideKeepsInv, LoadKeepsInv, TxKeepsInv,
     TxStepsKeepInv DEF VoidNext
<1>4. QED
  BY <1>1, <1>2, <1>3

\* No datagram of a FreeRTOS UDP channel (UdpVoidChannel::tx) goes to a mixture of
\* two addresses, however many threads send and receive.
THEOREM SpecWholeDestination == VoidSpec => []WholeDestination
<1>1. IInv => WholeDestination
  BY DEF IInv, AddressInv, WholeDestination, Whole
<1>2. QED
  BY <1>1, InitInv, NextInv, PTL DEF VoidSpec

-----------------------------------------------------------------------------
(* The socket's number.                                                    *)

\* A step that leaves the number alone, takes the socket from nobody but the
\* thread that closes it, and keeps whoever is about to clear the number there.
LEMMA NumberUntouched ==
  ASSUME StaleOnlyWhileClosing, UNCHANGED socket_,
         \A s \in Sockets : owner[s] = "channel" => owner'[s] = "channel",
         \A t \in Threads : pc[t] \in {"clear", "exitClear"} => pc'[t] = pc[t],
         TypeInv
  PROVE  StaleOnlyWhileClosing'
BY DEF StaleOnlyWhileClosing, TypeInv, Numbers

\* Thread t goes from a statement at which it does not clear the number.
LEMMA NumberPassed ==
  ASSUME StaleOnlyWhileClosing, TypeInv, NEW t \in Threads, NEW there,
         pc[t] \notin {"clear", "exitClear"}, pc' = [pc EXCEPT ![t] = there],
         UNCHANGED <<owner, socket_>>
  PROVE  StaleOnlyWhileClosing'
BY NumberUntouched DEF TypeInv

\* A number is stale at most from its close to its clearing.
LEMMA NumberClosed ==
  ASSUME TypeInv, NEW t \in Threads, NEW here, NEW there \in {"exitClear", "clear"},
         CloseSocket(t, here, there)
  PROVE  StaleOnlyWhileClosing'
<1>1. pc'[t] = there
  BY DEF CloseSocket, Goto, TypeInv
<1>2. QED
  BY <1>1 DEF StaleOnlyWhileClosing

\* The claim about stale numbers is inductive.
LEMMA NextStaleInv ==
  ASSUME IInv, StaleOnlyWhileClosing, [VoidNext]_voidVars
  PROVE  StaleOnlyWhileClosing'
<1>1. TypeInv
  BY DEF IInv
<1>2. CASE UNCHANGED voidVars
  BY <1>1, <1>2, NumberUntouched DEF voidVars, lwip, members
<1>3. CASE Construct
  BY <1>1, <1>3 DEF Construct, StaleOnlyWhileClosing, TypeInv
<1>4. CASE RxHandler
  <2>1. CASE CloseSocket(Rx, "exit", "exitClear")
    BY <1>1, <2>1, NumberClosed DEF Threads
  <2>2. CASE Clear(Rx, "exitClear", "ended")
    BY <2>2 DEF Clear, Cleared, StaleOnlyWhileClosing
  <2>3. CASE \/ Start \/ Test \/ Poll \/ Ioctl \/ Recv \/ CallbackReturns
             \/ Lock(Rx, "lock", "store1")
             \/ Store(1, "store1", "store2") \/ Store(2, "store2", "test")
    <3>1. \E there : pc' = [pc EXCEPT ![Rx] = there]
      BY <2>3
      DEF Start, Test, Poll, Ioctl, Recv, CallbackReturns, Lock, Store, Goto
    <3>2. pc[Rx] \notin {"clear", "exitClear"} /\ UNCHANGED <<owner, socket_>>
      BY <2>3
      DEF Start, Test, Poll, Ioctl, Recv, CallbackReturns, Lock, Store, Goto, lwip,
          members
    <3>3. QED
      BY <1>1, <3>1, <3>2, NumberPassed DEF Threads
  <2>4. QED
    BY <1>4, <2>1, <2>2, <2>3 DEF RxHandler
<1>5. ASSUME NEW t \in Threads, Load(t) \/ Tx(t) \/ TxSteps(t)
      PROVE  StaleOnlyWhileClosing'
  <2>1. CASE CloseSocket(t, "close", "clear")
    BY <1>1, <2>1, NumberClosed
  <2>2. CASE Clear(t, "clear", After(t))
    BY <2>2 DEF Clear, Cleared, StaleOnlyWhileClosing
  <2>3. CASE Load(t)
    BY <1>1, <2>3, NumberUntouched DEF Load, lwip, members
  <2>4. CASE \/ Tx(t) \/ Lock(t, "txLock", "read1") \/ Send(t)
             \/ Read(t, 1, "read1", "read2") \/ Read(t, 2, "read2", "send")
    <3>1. \E there : pc' = [pc EXCEPT ![t] = there]
      BY <2>4 DEF Tx, Lock, Send, Read, Goto
    <3>2. pc[t] \notin {"clear", "exitClear"} /\ UNCHANGED <<owner, socket_>>
      BY <2>4 DEF Tx, Lock, Send, Read, Goto, Caller, lwip, members
    <3>3. QED
      BY <1>1, <3>1, <3>2, NumberPassed
  <2>5. QED
    BY <1>5, <2>1, <2>2, <2>3, <2>4 DEF TxSteps
<1>6. CASE Arrive \/ OtherSocket
  BY <1>1, <1>6, NumberUntouched DEF Arrive, OtherSocket, members, TypeInv
<1>7. QED
  BY <1>2, <1>3, <1>4, <1>5, <1>6 DEF VoidNext

\* The number a FreeRTOS UDP channel has for its socket (UdpVoidChannel's socket_)
\* belongs to another user of lwIP only while a thread is about to clear it.
THEOREM SpecStaleOnlyWhileClosing == VoidSpec => []StaleOnlyWhileClosing
<1>1. VoidInit => StaleOnlyWhileClosing
  BY DEF VoidInit, StaleOnlyWhileClosing
<1>2. IInv /\ StaleOnlyWhileClosing /\ [VoidNext]_voidVars => StaleOnlyWhileClosing'
  BY NextStaleInv
<1>3. QED
  BY <1>1, <1>2, InitInv, NextInv, PTL DEF VoidSpec

-----------------------------------------------------------------------------
(* The other types of UdpVoidChannel.                                      *)

\* What lwIP and the threads have besides TypeInv.
RestInv ==
  /\ Len(inbox) <= MaxInbox
  /\ mutex \in Threads \cup {None}
  /\ arg \in [Threads -> Numbers \cup {None}]
  /\ fd \in Numbers

\* No socket has been loaded at first.
LEMMA RestInit == VoidInit => RestInv
<1>1. SUFFICES ASSUME VoidInit PROVE RestInv
  OBVIOUS
<1>2. Len(inbox) <= MaxInbox
  BY <1>1, VoidAssumption DEF VoidInit
<1>3. QED
  BY <1>1, <1>2 DEF VoidInit, RestInv, Numbers

\* What a step does with the datagrams that wait, the mutex and the numbers that
\* are loaded.
LEMMA VoidEffects ==
  ASSUME VoidNext
  PROVE  /\ \/ UNCHANGED inbox \/ inbox' = << >>
            \/ inbox # << >> /\ inbox' = Tail(inbox)
            \/ Len(inbox) < MaxInbox /\ \E p \in Peers : inbox' = Append(inbox, p)
         /\ mutex' \in Threads \cup {mutex, None}
         /\ \/ UNCHANGED arg
            \/ \E t \in Threads, n \in {socket_, None} : arg' = [arg EXCEPT ![t] = n]
         /\ fd' \in {fd, socket_}
<1>1. Rx \in Threads
  BY DEF Threads
<1>2. \/ UNCHANGED inbox \/ inbox' = << >>
      \/ inbox # << >> /\ inbox' = Tail(inbox)
      \/ Len(inbox) < MaxInbox /\ \E p \in Peers : inbox' = Append(inbox, p)
  BY
  DEF VoidNext, Construct, RxHandler, Start, Test, Poll, Ioctl, Recv, CallbackReturns, Lock,
      Store, CloseSocket, Clear, Load, Call, Tx, TxSteps, Read, Send, Arrive,
      OtherSocket, lwip, members, locals
<1>3. mutex' \in Threads \cup {mutex, None}
  BY <1>1
  DEF VoidNext, Construct, RxHandler, Start, Test, Poll, Ioctl, Recv, CallbackReturns, Lock,
      Store, CloseSocket, Clear, Load, Call, Tx, TxSteps, Read, Send, Arrive,
      OtherSocket, lwip, members, locals
<1>4. \/ UNCHANGED arg
      \/ \E t \in Threads, n \in {socket_, None} : arg' = [arg EXCEPT ![t] = n]
  BY <1>1
  DEF VoidNext, Construct, RxHandler, Start, Test, Poll, Ioctl, Recv, CallbackReturns, Lock,
      Store, CloseSocket, Clear, Load, Call, Tx, TxSteps, Read, Send, Arrive,
      OtherSocket, lwip, members, locals
<1>5. fd' \in {fd, socket_}
  BY
  DEF VoidNext, Construct, RxHandler, Start, Test, Poll, Ioctl, Recv, CallbackReturns, Lock,
      Store, CloseSocket, Clear, Load, Call, Tx, TxSteps, Read, Send, Arrive,
      OtherSocket, lwip, members, locals
<1>6. QED
  BY <1>2, <1>3, <1>4, <1>5

\* The rest of the types is inductive.
LEMMA RestNext ==
  ASSUME TypeInv, RestInv, [VoidNext]_voidVars
  PROVE  RestInv'
<1>1. CASE UNCHANGED voidVars
  BY <1>1 DEF voidVars, lwip, members, locals, RestInv
<1>2. CASE VoidNext
  <2>1. inbox \in Seq(Peers) /\ Len(inbox) <= MaxInbox /\ MaxInbox \in Nat
    BY VoidAssumption DEF TypeInv, RestInv
  <2>2. Len(inbox') <= MaxInbox
    <3>1. CASE UNCHANGED inbox \/ inbox' = << >>
      BY <2>1, <3>1
    <3>2. CASE inbox # << >> /\ inbox' = Tail(inbox)
      BY <2>1, <3>2
    <3>3. CASE Len(inbox) < MaxInbox /\ \E p \in Peers : inbox' = Append(inbox, p)
      BY <2>1, <3>3
    <3>4. QED
      BY <1>2, <3>1, <3>2, <3>3, VoidEffects
  <2>3. mutex' \in Threads \cup {None}
    BY <1>2, VoidEffects DEF RestInv
  <2>4. arg' \in [Threads -> Numbers \cup {None}]
    BY <1>2, VoidEffects DEF RestInv, TypeInv
  <2>5. fd' \in Numbers
    BY <1>2, VoidEffects DEF RestInv, TypeInv
  <2>6. QED
    BY <2>2, <2>3, <2>4, <2>5 DEF RestInv
<1>3. QED
  BY <1>1, <1>2

\* The variables of UdpVoidChannel keep their types.
LEMMA SpecVoidTypeOK == VoidSpec => []VoidTypeOK
<1>1. IInv /\ RestInv /\ [VoidNext]_voidVars => RestInv'
  BY RestNext DEF IInv
<1>2. IInv /\ RestInv => VoidTypeOK
  BY DEF IInv, TypeInv, RestInv, VoidTypeOK, Places, Handling, Sending
<1>3. QED
  BY <1>1, <1>2, RestInit, InitInv, NextInv, PTL DEF VoidSpec

-----------------------------------------------------------------------------
(* UdpTaskChannel.                                                         *)

\* How much of the sender is in dmSource_ at each of the task's statements.
SourceInv ==
  /\ taskFrom \in [host : TaskHosts \cup {0}, port : Nat \X Nat]
  /\ dmSource_ \in [host : TaskHosts \cup {0}, port : Nat \X Nat]
  /\ task \in {"host", "test", "call"} => dmSource_.port = Swapped(taskFrom.port)
  /\ task \in {"test", "call"} => dmSource_.host = taskFrom.host
  /\ RepliesToSender

\* The byte order of a port turned over twice is the port's again.
LEMMA SwappedTwice ==
  ASSUME NEW q \in Nat \X Nat
  PROVE  Swapped(q) \in Nat \X Nat /\ Swapped(Swapped(q)) = q
BY DEF Swapped

\* At first no address is stored.
LEMMA SourceInitInv == TaskInit => SourceInv
BY DEF TaskInit, SourceInv, Nowhere, RepliesToSender

\* The invariant of the addresses is inductive.
LEMMA SourceNextInv ==
  ASSUME SourceInv, [TaskNext]_taskVars
  PROVE  SourceInv'
<1>1. CASE TaskRecv
  <2>1. taskFrom' \in [host : TaskHosts \cup {0}, port : Nat \X Nat]
    BY <1>1, TaskAssumption DEF TaskRecv, Address
  <2>2. QED
    BY <1>1, <2>1 DEF TaskRecv, TaskGoto, SourceInv, RepliesToSender
<1>2. CASE StorePort
  <2>1. Swapped(taskFrom.port) \in Nat \X Nat
    BY SwappedTwice DEF SourceInv
  <2>2. QED
    BY <1>2, <2>1 DEF StorePort, SourcePort, TaskGoto, SourceInv, RepliesToSender
<1>3. CASE StoreHost
  BY <1>3 DEF StoreHost, TaskGoto, SourceInv, RepliesToSender
<1>4. CASE CallCallback
  <2>1. CASE taskTo' = Parameter /\ TaskGoto("call", "reply")
    <3>1. dmSource_.host = taskFrom.host /\ dmSource_.port = Swapped(taskFrom.port)
      BY <2>1 DEF SourceInv, TaskGoto
    <3>2. Swapped(dmSource_.port) = taskFrom.port
      BY <3>1, SwappedTwice DEF SourceInv
    <3>3. Parameter = taskFrom
      BY <3>1, <3>2 DEF Parameter, SourceInv
    <3>4. QED
      BY <1>4, <2>1, <3>3 DEF CallCallback, TaskGoto, SourceInv, RepliesToSender
  <2>2. CASE task' \in {"recv", "crashed"}
    BY <1>4, <2>2 DEF CallCallback, SourceInv, RepliesToSender
  <2>3. QED
    BY <1>4, <2>1, <2>2 DEF CallCallback, TaskGoto
<1>5. CASE TestCallback \/ Reply
  BY <1>5 DEF TestCallback, Reply, TaskGoto, SourceInv, RepliesToSender
<1>6. CASE TaskConstruct \/ TaskSetCallback \/ SetDestination \/ TaskDestroy
  BY <1>6
  DEF TaskConstruct, TaskSetCallback, SetDestination, TaskDestroy, TaskGoto,
      SourceInv, RepliesToSender
<1>7. CASE UNCHANGED taskVars
  BY <1>7 DEF taskVars, SourceInv, RepliesToSender
<1>8. QED
  BY <1>1, <1>2, <1>3, <1>4, <1>5, <1>6, <1>7 DEF TaskNext

\* A reply of the task's callback goes to the host and the port that the datagram
\* came from (voidCallback and tx of the FreeRTOS UdpChannel), whatever the
\* application's thread does meanwhile.
THEOREM SpecRepliesToSender == TaskSpec => []RepliesToSender
<1>1. SourceInv => RepliesToSender
  BY DEF SourceInv
<1>2. QED
  BY <1>1, SourceInitInv, SourceNextInv, PTL DEF TaskSpec

\* A port that is turned over is a port of dmSource_, and turned over again the
\* port that it was.
LEMMA PortTypes ==
  /\ \A q \in Ports : Swapped(q) \in SwappedPorts
  /\ \A q \in SwappedPorts : Swapped(q) \in Ports
  /\ Nowhere.port \in Ports /\ Nowhere.port \in SwappedPorts
<1>1. Ports \subseteq Nat \X Nat
  BY TaskAssumption DEF Ports
<1>2. \A q \in Ports : Swapped(Swapped(q)) = q
  BY <1>1, SwappedTwice
<1>3. <<0, 0>> \in Ports /\ Swapped(<<0, 0>>) = <<0, 0>>
  BY DEF Ports, Swapped
<1>4. QED
  BY <1>2, <1>3, Zenon DEF SwappedPorts, Nowhere

\* The types are inductive: each port is swapped as often as the code says.
LEMMA TaskTypeNext ==
  ASSUME TaskTypeOK, [TaskNext]_taskVars
  PROVE  TaskTypeOK'
<1>1. CASE TaskRecv
  BY <1>1 DEF TaskRecv, TaskGoto, TaskTypeOK
<1>2. CASE StorePort
  <2>1. taskFrom.port \in Ports
    BY PortTypes DEF TaskTypeOK, Address, Ports, Nowhere
  <2>2. Swapped(taskFrom.port) \in SwappedPorts
    BY <2>1, PortTypes
  <2>3. QED
    BY <1>2, <2>2 DEF StorePort, SourcePort, TaskGoto, TaskTypeOK
<1>3. CASE StoreHost
  <2>1. taskFrom.host \in TaskHosts \cup {0}
    BY DEF TaskTypeOK, Address, Nowhere
  <2>2. QED
    BY <1>3, <2>1 DEF StoreHost, TaskGoto, TaskTypeOK
<1>4. CASE CallCallback
  <2>1. Parameter \in [host : TaskHosts \cup {0}, port : Ports]
    BY PortTypes DEF Parameter, TaskTypeOK
  <2>2. QED
    BY <1>4, <2>1 DEF CallCallback, TaskGoto, TaskTypeOK
<1>5. CASE TestCallback \/ Reply
  BY <1>5, PortTypes DEF TestCallback, Reply, TaskGoto, TaskTypeOK, Nowhere
<1>6. CASE TaskConstruct \/ TaskSetCallback \/ SetDestination \/ TaskDestroy
  <2>1. taskDst' \in [host : TaskHosts \cup {0}, port : Ports]
    BY <1>6
    DEF TaskConstruct, TaskSetCallback, SetDestination, TaskDestroy, TaskTypeOK, Address,
        Ports
  <2>2. QED
    BY <1>6, <2>1
    DEF TaskConstruct, TaskSetCallback, SetDestination, TaskDestroy, TaskGoto, AppGoto,
        TaskTypeOK
<1>7. CASE UNCHANGED taskVars
  BY <1>7 DEF taskVars, TaskTypeOK
<1>8. QED
  BY <1>1, <1>2, <1>3, <1>4, <1>5, <1>6, <1>7 DEF TaskNext

\* The variables of the freertos UdpChannel keep their types.
LEMMA SpecTaskTypeOK == TaskSpec => []TaskTypeOK
<1>1. TaskInit => TaskTypeOK
  <2>1. /\ Nowhere \in [host : TaskHosts \cup {0}, port : Ports]
        /\ Nowhere \in [host : TaskHosts \cup {0}, port : SwappedPorts]
    BY PortTypes DEF Nowhere
  <2>2. QED
    BY <2>1 DEF TaskInit, TaskTypeOK
<1>2. QED
  BY <1>1, TaskTypeNext, PTL DEF TaskSpec

-----------------------------------------------------------------------------
(* UdpChannel.                                                             *)

\* The datagrams are the first ones of the buffer.
IsSplit(s) ==
  \E n \in 0 .. (s.size + MSS - 1) \div MSS :
    s.datagrams = [k \in 1 .. n |-> Datagram(k, s.size)]

\* The inductive invariant of the UdpChannel over lwIP.
UdpInv ==
  /\ UdpTypeOK
  /\ called => chain > 0
  /\ dmSource = sender
  /\ sent.from # Unset => sent.to = sent.from
  /\ IsSplit(sent)

\* The numbers from 1 to n: the bytes of a buffer in their order.
Count(n) == [k \in 1 .. n |-> k]

\* The bytes of datagram k, which is not empty when it begins within the buffer.
BytesOf(k, size) == IF size - (k - 1) * MSS < MSS THEN size - (k - 1) * MSS ELSE MSS

\* Each datagram of a buffer begins within it, and all but the last are full.
LEMMA DatagramsWithin ==
  ASSUME NEW size \in Nat, NEW n \in 0 .. (size + MSS - 1) \div MSS, NEW k \in 1 .. n
  PROVE  /\ (k - 1) * MSS \in Nat /\ (k - 1) * MSS < size
         /\ k < n => k * MSS < size
         /\ k * MSS = (k - 1) * MSS + MSS
<1>1. MSS \in Nat /\ MSS > 0 /\ k \in Nat /\ n \in Nat /\ k <= n
  BY UdpAssumption
<1> DEFINE q == (size + MSS - 1) \div MSS
<1>2. q \in Nat /\ q * MSS <= size + MSS - 1
  BY <1>1
<1>3. n <= q
  BY <1>1, <1>2
<1> HIDE DEF q
<1>4. n * MSS <= q * MSS
  BY <1>1, <1>2, <1>3
<1>5. \A j \in Nat : j < n => j * MSS < size
  <2>1. SUFFICES ASSUME NEW j \in Nat, j < n PROVE j * MSS < size
    OBVIOUS
  <2>2. (j + 1) * MSS <= n * MSS
    BY <1>1, <2>1
  <2>3. (j + 1) * MSS = j * MSS + MSS /\ j * MSS \in Nat
    BY <1>1
  <2>4. n * MSS \in Nat /\ q * MSS \in Nat
    BY <1>1, <1>2
  <2>5. QED
    BY <1>1, <1>2, <1>4, <2>2, <2>3, <2>4
<1>6. k - 1 \in Nat /\ k - 1 < n
  BY <1>1
<1>7. (k - 1) * MSS \in Nat
  BY <1>1, <1>6
<1>8. k * MSS = (k - 1) * MSS + MSS
  BY <1>1
<1>9. QED
  BY <1>1, <1>5, <1>6, <1>7, <1>8

\* Counting on.
LEMMA CountOn ==
  ASSUME NEW a \in Nat, NEW b \in Nat
  PROVE  /\ Count(a) \in Seq(Nat) /\ Len(Count(a)) = a
         /\ Count(a) \o [i \in 1 .. b |-> a + i] = Count(a + b)
<1>1. Count(a) \in Seq(Nat) /\ Len(Count(a)) = a /\ \A k \in 1 .. a : Count(a)[k] = k
  BY DEF Count
<1> DEFINE t == [i \in 1 .. b |-> a + i]
           u == Count(a) \o t
<1>2. t \in Seq(Nat) /\ Len(t) = b /\ \A i \in 1 .. b : t[i] = a + i
  OBVIOUS
<1> HIDE DEF t
<1>3. u \in Seq(Nat) /\ Len(u) = a + b
  BY <1>1, <1>2
<1>4. \A k \in 1 .. a + b : u[k] = k
  <2>1. SUFFICES ASSUME NEW k \in 1 .. a + b PROVE u[k] = k
    OBVIOUS
  <2>2. CASE k <= a
    <3>1. k \in 1 .. Len(Count(a))
      BY <1>1, <2>2
    <3>2. u[k] = Count(a)[k]
      BY <1>1, <1>2, <3>1
    <3>3. QED
      BY <1>1, <3>1, <3>2
  <2>3. CASE k > a
    <3>1. k - a \in 1 .. b
      BY <2>3
    <3>2. u[k] = t[k - a]
      BY <1>1, <1>2, <2>3, <3>1
    <3>3. QED
      BY <1>2, <3>1, <3>2
  <2> HIDE DEF u
  <2>4. QED
    BY <2>2, <2>3
<1> HIDE DEF u
<1>5. u = Count(a + b)
  <2>1. u = [k \in 1 .. Len(u) |-> u[k]]
    BY <1>3
  <2>2. QED
    BY <1>3, <1>4, <2>1 DEF Count
<1>6. QED
  BY <1>1, <1>5 DEF u, t

\* The bytes of datagram k are those that follow the bytes of the ones before.
LEMMA DatagramBytes ==
  ASSUME NEW size \in Nat, NEW n \in 0 .. (size + MSS - 1) \div MSS, NEW k \in 1 .. n
  PROVE  /\ BytesOf(k, size) \in 1 .. MSS
         /\ Datagram(k, size) = [i \in 1 .. BytesOf(k, size) |-> (k - 1) * MSS + i]
         /\ (k - 1) * MSS + BytesOf(k, size) <= size
         /\ k < n => BytesOf(k, size) = MSS
<1> DEFINE a == (k - 1) * MSS
           b == BytesOf(k, size)
<1>1. a \in Nat /\ a < size /\ (k < n => k * MSS < size) /\ k * MSS = a + MSS
  BY DatagramsWithin
<1>2. b = IF size - a < MSS THEN size - a ELSE MSS
  BY DEF BytesOf
<1>3. Datagram(k, size) = [i \in 1 .. b |-> a + 1 + i - 1]
  BY Zenon DEF Datagram, BytesOf, FirstByteOf
<1> HIDE DEF a, b
<1>4. b \in 1 .. MSS /\ a + b <= size /\ (k < n => b = MSS)
  BY <1>1, <1>2, UdpAssumption
<1>5. \A i \in 1 .. b : a + 1 + i - 1 = a + i
  BY <1>1, <1>4
<1>6. Datagram(k, size) = [i \in 1 .. b |-> a + i]
  BY <1>3, <1>5
<1>7. QED
  BY <1>4, <1>6 DEF a, b

\* The datagrams one behind the other are the buffer from its first byte on.
LEMMA SplitIsInOrder ==
  ASSUME NEW size \in Nat, NEW n \in 0 .. (size + MSS - 1) \div MSS
  PROVE  \E m \in 0 .. size :
           FlattenSeq([k \in 1 .. n |-> Datagram(k, size)]) = Count(m)
<1> DEFINE seqs == [k \in 1 .. n |-> Datagram(k, size)]
           To(i) == (i - 1) * MSS + BytesOf(i, size)
           Def(f) == f = [i \in 1 .. n |-> IF i = 1 THEN seqs[i] ELSE f[i - 1] \o seqs[i]]
           g == [i \in 1 .. n |-> Count(To(i))]
           f == CHOOSE h : Def(h)
<1>1. n \in Nat /\ Len(seqs) = n
  OBVIOUS
<1>2. CASE n = 0
  <2>1. FlattenSeq(seqs) = seqs
    BY <1>1, <1>2 DEF FlattenSeq
  <2>2. seqs = Count(0)
    BY <1>2 DEF Count
  <2>3. 0 \in 0 .. size
    OBVIOUS
  <2>4. QED
    BY <2>1, <2>2, <2>3, Zenon
<1>3. CASE n # 0
  <2>1. \A i \in 1 .. n : To(i) \in 0 .. size
    BY DatagramsWithin, DatagramBytes, UdpAssumption
  <2>2. ASSUME NEW i \in 1 .. n
        PROVE  /\ i = 1 => Count(To(i)) = seqs[i]
               /\ i # 1 => i - 1 \in 1 .. n /\ Count(To(i)) = Count(To(i - 1)) \o seqs[i]
    <3> DEFINE a == (i - 1) * MSS
               b == BytesOf(i, size)
    <3>1. a \in Nat /\ b \in Nat /\ seqs[i] = [j \in 1 .. b |-> a + j] /\ To(i) = a + b
      BY DatagramsWithin, DatagramBytes, UdpAssumption
    <3> HIDE DEF a, b, seqs, To
    <3>2. CASE i = 1
      <4>1. a = 0
        BY <3>2, UdpAssumption DEF a
      <4>2. QED
        BY <3>1, <3>2, <4>1 DEF Count
    <3>3. CASE i # 1
      <4>1. i - 1 \in 1 .. n /\ i - 1 < n
        BY <1>1, <3>3
      <4>2. To(i - 1) = a
        <5>1. BytesOf(i - 1, size) = MSS
          BY <4>1, DatagramBytes
        <5>2. (i - 1) * MSS = (i - 1 - 1) * MSS + MSS
          BY <4>1, DatagramsWithin
        <5>3. QED
          BY <5>1, <5>2 DEF To, a
      <4>3. QED
        BY <3>1, <3>3, <4>1, <4>2, CountOn
    <3>4. QED
      BY <3>2, <3>3
  <2>3. Def(g)
    <3> HIDE DEF To, seqs
    <3>1. \A i \in 1 .. n : i # 1 => g[i - 1] = Count(To(i - 1))
      BY <2>2
    <3>2. \A i \in 1 .. n : g[i] = IF i = 1 THEN seqs[i] ELSE g[i - 1] \o seqs[i]
      BY <2>2, <3>1
    <3>3. g = [i \in 1 .. n |-> g[i]]
      OBVIOUS
    <3> HIDE DEF g
    <3>4. QED
      BY <3>2, <3>3
  <2>4. Def(f)
    <3> HIDE DEF Def, g
    <3>1. QED
      BY <2>3, Zenon
  <2>5. FlattenSeq(seqs) = f[n]
    <3> HIDE DEF seqs
    <3>1. FlattenSeq(seqs) = f[Len(seqs)]
      BY <1>1, <1>3 DEF FlattenSeq
    <3>2. QED
      BY <1>1, <3>1
  <2> HIDE DEF f, To, seqs
  <2>6. \A i \in 1 .. n : f[i] = IF i = 1 THEN seqs[i] ELSE f[i - 1] \o seqs[i]
    BY <2>4
  <2> DEFINE Good == {i \in 0 .. n : i = 0 \/ f[i] = Count(To(i))}
  <2>7. 0 \in Good
    BY <1>1
  <2>8. ASSUME NEW i \in 1 .. n, i - 1 \in Good PROVE i \in Good
    <3>1. ASSUME i = 1 PROVE f[i] = Count(To(i))
      BY <2>2, <2>6, <3>1, Zenon
    <3>2. ASSUME i # 1 PROVE f[i] = Count(To(i))
      <4>1. f[i - 1] = Count(To(i - 1))
        BY <2>8, <3>2
      <4>2. f[i] = f[i - 1] \o seqs[i] /\ Count(To(i)) = Count(To(i - 1)) \o seqs[i]
        BY <2>2, <2>6, <3>2, Zenon
      <4>3. QED
        BY <4>1, <4>2, Zenon
    <3>3. i \in 0 .. n
      BY <1>1
    <3>4. QED
      BY <3>1, <3>2, <3>3, Zenon
  <2>9. 0 .. n \subseteq Good
    <3> HIDE DEF Good
    <3>1. QED
      BY <1>1, <2>7, <2>8, InductionOf
  <2>10. n \in 1 .. n /\ n \in 0 .. n
    BY <1>1, <1>3
  <2>11. f[n] = Count(To(n))
    BY <1>3, <2>9, <2>10
  <2>12. QED
    BY <2>1, <2>5, <2>10, <2>11, Zenon DEF seqs
<1>4. QED
  BY <1>2, <1>3

\* What the assumptions on the constants say of each.
LEMMA UdpConstants == MSS \in Nat \ {0} /\ MaxSize \in Nat /\ MaxChain \in Nat \ {0}
BY UdpAssumption

\* At first nothing is sent.
LEMMA UdpInitInv == UdpInit => UdpInv
<1> SUFFICES ASSUME UdpInit PROVE UdpInv
  OBVIOUS
<1>1. UdpTypeOK
  <2>1. 0 \in 0 .. MaxChain /\ 0 \in 0 .. MaxSize
    BY UdpConstants
  <2>2. QED
    BY <2>1 DEF UdpInit, UdpTypeOK, NothingSent
<1>2. IsSplit(sent)
  <2>1. sent.datagrams = << >> /\ sent.size = 0
    BY DEF UdpInit, NothingSent
  <2>2. 0 \in 0 .. (sent.size + MSS - 1) \div MSS
    BY <2>1, UdpConstants
  <2>3. << >> = [k \in 1 .. 0 |-> Datagram(k, sent.size)]
    OBVIOUS
  <2>4. QED
    BY <2>1, <2>2, <2>3, Zenon DEF IsSplit
<1>3. QED
  BY <1>1, <1>2 DEF UdpInit, UdpInv, NothingSent

\* A step that sends nothing and brings no datagram.
LEMMA UdpKept ==
  ASSUME UdpInv, UdpTypeOK', UNCHANGED <<dmSource, sender, sent>>, called' => chain' > 0
  PROVE  UdpInv'
<1>1. IsSplit(sent')
  BY DEF UdpInv
<1>2. QED
  BY <1>1 DEF UdpInv, IsSplit

\* The invariant is inductive.
LEMMA UdpNextInv == UdpInv /\ [UdpNext]_udpVars => UdpInv'
<1> SUFFICES ASSUME UdpInv, [UdpNext]_udpVars PROVE UdpInv'
  OBVIOUS
<1>1. UdpTypeOK
  BY DEF UdpInv
<1>2. ASSUME NEW size \in 0 .. MaxSize, NEW reply \in BOOLEAN, UdpTx(size, reply)
      PROVE  UdpInv'
  <2>1. PICK n \in 0 .. (size + MSS - 1) \div MSS :
          sent' = [to |-> IF reply THEN dmSource ELSE dstIpaddr_,
                   from |-> IF reply THEN sender ELSE Unset,
                   size |-> size, datagrams |-> [k \in 1 .. n |-> Datagram(k, size)]]
    BY <1>2 DEF UdpTx
  <2>2. UNCHANGED <<pcb_, callback_, dstIpaddr_, dmSource, chain, sender, called>>
    BY <1>2 DEF UdpTx
  <2>3. /\ sent'.to = IF reply THEN dmSource ELSE dstIpaddr_
        /\ sent'.from = IF reply THEN sender ELSE Unset
        /\ sent'.size = size
        /\ sent'.datagrams = [k \in 1 .. n |-> Datagram(k, size)]
    BY <2>1
  <2>4. IsSplit(sent')
    BY <2>3, Zenon DEF IsSplit
  <2>5. UdpTypeOK'
    BY <1>1, <2>2, <2>3 DEF UdpTypeOK
  <2>6. QED
    BY <2>2, <2>3, <2>4, <2>5 DEF UdpInv, IsSplit
<1>3. CASE initialize \/ deinitialize \/ (\E to \in UdpPeers : setDestination(to))
  <2>1. /\ UNCHANGED <<dmSource, sender, sent, called, chain, pcb_>>
        /\ callback_' \in BOOLEAN /\ dstIpaddr_' \in UdpPeers \cup {Unset}
    BY <1>1, <1>3 DEF initialize, deinitialize, setDestination, UdpTypeOK
  <2>2. UdpTypeOK'
    BY <1>1, <2>1, Zenon DEF UdpTypeOK
  <2>3. QED
    BY <2>1, <2>2, UdpKept DEF UdpInv
<1>4. CASE UdpConstruct \/ UdpDestroy
  <2>1. /\ UNCHANGED <<dmSource, sender, sent, called, chain>>
        /\ pcb_' \in BOOLEAN /\ callback_' \in BOOLEAN
        /\ dstIpaddr_' \in UdpPeers \cup {Unset}
    BY <1>1, <1>4 DEF UdpConstruct, UdpDestroy, UdpTypeOK
  <2>2. UdpTypeOK'
    BY <1>1, <2>1, Zenon DEF UdpTypeOK
  <2>3. QED
    BY <2>1, <2>2, UdpKept DEF UdpInv
<1>5. CASE recieveCallback
  <2>1. chain' \in 0 .. MaxChain
    BY <1>5, UdpConstants DEF recieveCallback
  <2>2. ~called
    BY <1>1, <1>5 DEF recieveCallback, UdpInv
  <2>3. QED
    BY <1>1, <1>5, <2>1, <2>2 DEF recieveCallback, UdpInv, UdpTypeOK, IsSplit
<1>6. CASE NextPbuf \/ CallbackReturned
  <2>1. chain \in Nat /\ chain > 0 /\ (chain' = chain \/ (chain' = chain - 1 /\ ~called'))
    BY <1>1, <1>6, UdpConstants DEF NextPbuf, CallbackReturned, UdpInv, UdpTypeOK
  <2>2. chain' \in 0 .. MaxChain /\ (called' => chain' > 0)
    BY <1>1, <2>1, UdpConstants DEF UdpTypeOK
  <2>3. /\ UNCHANGED <<pcb_, callback_, dstIpaddr_, dmSource, sender, sent>>
        /\ called' \in BOOLEAN
    BY <1>1, <1>6 DEF NextPbuf, CallbackReturned, UdpTypeOK
  <2>4. UdpTypeOK'
    BY <1>1, <2>2, <2>3, Zenon DEF UdpTypeOK
  <2>5. QED
    BY <2>2, <2>3, <2>4, UdpKept
<1>7. CASE UNCHANGED udpVars
  BY <1>7 DEF udpVars, UdpInv, UdpTypeOK, IsSplit
<1>8. QED
  BY <1>2, <1>3, <1>4, <1>5, <1>6, <1>7 DEF UdpNext

\* For every size of buffer and every TCP_MSS: tx() sends the bytes of the buffer
\* in their order from the first one on, a reply to whom the datagram came from.
THEOREM SpecSentInOrder == UdpSpec => []SentInOrder
<1>1. ASSUME UdpInv PROVE SentInOrder
  <2>1. sent.size \in Nat
    BY <1>1, UdpConstants DEF UdpInv, UdpTypeOK
  <2>2. PICK n \in 0 .. (sent.size + MSS - 1) \div MSS :
          sent.datagrams = [k \in 1 .. n |-> Datagram(k, sent.size)]
    BY <1>1 DEF UdpInv, IsSplit
  <2>3. PICK m \in 0 .. sent.size : FlattenSeq(sent.datagrams) = Count(m)
    <3>1. \E m \in 0 .. sent.size :
            FlattenSeq([k \in 1 .. n |-> Datagram(k, sent.size)]) = Count(m)
      BY <2>1, SplitIsInOrder
    <3>2. QED
      BY <2>2, <3>1
  <2>4. Len(Count(m)) = m /\ m <= sent.size
    BY <2>1 DEF Count
  <2>5. ASSUME NEW k \in DOMAIN sent.datagrams
        PROVE  Len(sent.datagrams[k]) \in 1 .. MSS
    <3>1. k \in 1 .. n /\ sent.datagrams[k] = Datagram(k, sent.size)
      BY <2>2
    <3> DEFINE b == BytesOf(k, sent.size)
    <3>2. /\ b \in 1 .. MSS
          /\ Datagram(k, sent.size) = [i \in 1 .. b |-> (k - 1) * MSS + i]
      BY <2>1, <3>1, DatagramBytes
    <3> HIDE DEF b
    <3>3. b \in Nat
      BY <3>2, UdpConstants
    <3>4. Len(Datagram(k, sent.size)) = b
      BY <3>2, <3>3
    <3>5. QED
      BY <3>1, <3>2, <3>4
  <2>6. sent.from # Unset => sent.to = sent.from
    BY <1>1 DEF UdpInv
  <2>7. QED
    BY <2>3, <2>4, <2>5, <2>6, Zenon DEF SentInOrder, Count
<1>2. QED
  BY <1>1, UdpInitInv, UdpNextInv, PTL DEF UdpSpec

-----------------------------------------------------------------------------
(* WsChannel.                                                              *)

\* The walk stands on a node of the connection, which is still in the list
\* unless the connection was not open when the node was erased.
WalkInv ==
  walk # Idle =>
    /\ walk.pcb \in Pcbs /\ walk.uri \in Uris
    /\ ~walk.erased => /\ walk.node \in 1 .. Len(pcbsList_[walk.uri])
                       /\ pcbsList_[walk.uri][walk.node] = walk.pcb
    /\ walk.erased => pcbState[walk.pcb] # "established"

\* The inductive invariant of the WsChannel.
WsInv ==
  /\ WsTypeOK
  /\ \A v \in wsCallback : HasChannel(v)
  /\ \A p \in Pcbs : pcbState[p] = "closed" => uriOf[p] = NoUri
  /\ OpenIsListed
  /\ WalkInv

\* What a walk may be.
WalkType ==
  [pcb : Pcbs \cup {NoUri}, uri : Uris \cup {NoUri}, node : Nat, erased : BOOLEAN]

\* The node a walk goes on to has the connection.
LEMMA NextNodeFound ==
  ASSUME WsTypeOK, \A v \in wsCallback : HasChannel(v),
         NEW p \in Pcbs, NEW u \in Uris, NEW n \in Nat, NextNode(p, u, n) # Idle
  PROVE  \E v \in Uris : \E k \in 1 .. Len(pcbsList_[v]) :
           /\ pcbsList_[v][k] = p
           /\ NextNode(p, u, n) = [pcb |-> p, uri |-> v, erased |-> FALSE, node |-> k]
<1> DEFINE From(v) == IF v = u THEN n + 1 ELSE 1
           Place(v) == CHOOSE i \in DOMAIN wsChannelsList_ : wsChannelsList_[i] = v
           Found(v) == {k \in From(v) .. Len(pcbsList_[v]) : pcbsList_[v][k] = p}
           Channels == {v \in wsCallback : Place(v) >= Place(u) /\ Found(v) # {}}
           First(v) == v \in Channels /\ \A w \in Channels : Place(v) <= Place(w)
           Least(v, k) == k \in Found(v) /\ \A j \in Found(v) : k <= j
           v1 == CHOOSE v \in Channels : \A w \in Channels : Place(v) <= Place(w)
           k1 == CHOOSE k \in Found(v1) : \A j \in Found(v1) : k <= j
<1>1. /\ Channels # {}
      /\ NextNode(p, u, n) = [pcb |-> p, uri |-> v1, erased |-> FALSE, node |-> k1]
  <2>1. NextNode(p, u, n) =
          IF Channels = {} THEN Idle
          ELSE [pcb |-> p, uri |-> v1, erased |-> FALSE, node |-> k1]
    BY Zenon DEF NextNode
  <2> HIDE DEF Channels, v1, k1
  <2>2. QED
    BY <2>1, Zenon
<1>2. \A v \in wsCallback : Place(v) \in Nat
  <2>1. DOMAIN wsChannelsList_ \subseteq Nat
    BY DEF WsTypeOK
  <2>2. \A v \in wsCallback : \E i \in DOMAIN wsChannelsList_ : wsChannelsList_[i] = v
    BY DEF HasChannel
  <2>3. QED
    BY <2>1, <2>2, Zenon
<1>3. \E v : First(v)
  <2> DEFINE S == {Place(v) : v \in Channels}
  <2>1. S \subseteq Nat /\ S # {}
    <3> HIDE DEF Place, Found
    <3>1. QED
      BY <1>1, <1>2
  <2> HIDE DEF S
  <2>2. PICK m \in S : \A s \in S : m <= s
    BY <2>1, LeastOf
  <2> USE DEF S
  <2> HIDE DEF Place, Found
  <2>3. QED
    BY <2>2, Zenon
<1>4. v1 \in Channels
  <2>1. \E v \in Channels : \A w \in Channels : Place(v) <= Place(w)
    BY <1>3, Zenon
  <2> HIDE DEF Channels, Place
  <2>2. QED
    BY <2>1, Zenon
<1> HIDE DEF v1
<1>5. v1 \in Uris /\ Found(v1) # {}
  <2>1. v1 \in wsCallback /\ Found(v1) # {}
    BY <1>4, Zenon
  <2>2. QED
    BY <2>1, Zenon DEF WsTypeOK
<1>6. pcbsList_[v1] \in Seq(Pcbs)
  BY <1>5 DEF WsTypeOK
<1>7. Found(v1) \subseteq 1 .. Len(pcbsList_[v1])
  BY <1>6
<1>8. k1 \in Found(v1)
  <2>1. Found(v1) \subseteq Nat
    BY <1>7
  <2> HIDE DEF Found
  <2>2. \E k \in Found(v1) : \A j \in Found(v1) : k <= j
    BY <1>5, <2>1, LeastOf
  <2>3. QED
    BY <2>2, Zenon
<1> HIDE DEF k1
<1>9. k1 \in 1 .. Len(pcbsList_[v1]) /\ pcbsList_[v1][k1] = p
  BY <1>7, <1>8
<1>10. QED
  BY <1>1, <1>5, <1>9, Zenon

\* What checkPcbs() leaves: the connections of the list that are open.
LEMMA OpenStays ==
  ASSUME WsTypeOK, NEW u \in Uris
  PROVE  /\ pcbsList_[u] \in Seq(Pcbs) /\ checkPcbs(u) \in Seq(Pcbs)
         /\ \A p \in Pcbs : Stays(p) /\ (\E i \in DOMAIN pcbsList_[u] : pcbsList_[u][i] = p)
              => \E i \in DOMAIN checkPcbs(u) : checkPcbs(u)[i] = p
<1>1. pcbsList_[u] \in Seq(Pcbs)
  BY DEF WsTypeOK
<1> DEFINE list == pcbsList_[u]
           left == Filtered(list, Staying)
<1> HIDE DEF list
<1>2. list \in Seq(Pcbs)
  BY <1>1 DEF list
<1>3. /\ left \in Seq(Pcbs)
      /\ \A j \in 1 .. Len(list) :
           list[j] \in Staying => \E k \in 1 .. Len(left) : left[k] = list[j]
  BY <1>2, FilteredElements
<1> HIDE DEF left
<1>4. DOMAIN list = 1 .. Len(list) /\ DOMAIN left = 1 .. Len(left)
  BY <1>2, <1>3
<1>5. checkPcbs(u) = left
  BY DEF checkPcbs, left, list
<1>6. ASSUME NEW p \in Pcbs, Stays(p), NEW i \in DOMAIN list, list[i] = p
      PROVE  \E k \in DOMAIN left : left[k] = p
  BY <1>3, <1>4, <1>6 DEF Staying
<1>7. QED
  BY <1>1, <1>3, <1>5, <1>6, Zenon DEF list

\* At first there are no channels.
LEMMA WsInitInv == WsInit => WsInv
<1> SUFFICES ASSUME WsInit PROVE WsInv
  OBVIOUS
<1> USE WsAssumption
<1>1. WsTypeOK
  <2>1. wsChannelsList_ \in Seq(Uris) /\ IsInjective(wsChannelsList_)
    BY DEF WsInit, IsInjective
  <2>2. QED
    BY <2>1 DEF WsInit, WsTypeOK, Idle
<1>2. QED
  BY <1>1 DEF WsInit, WsInv, OpenIsListed, WalkInv

\* The constructor keeps the invariant.
LEMMA CreateKeepsInv ==
  ASSUME WsInv, NEW u \in Uris, Create(u)
  PROVE  WsInv'
<1>1. WsTypeOK /\ UNCHANGED <<wsCallback, pcbsList_, pcbState, uriOf, walk>>
      /\ wsChannelsList_' = <<u>> \o wsChannelsList_ /\ ~HasChannel(u)
  BY DEF WsInv, Create
<1> DEFINE old == wsChannelsList_
           new == wsChannelsList_'
<1>2. /\ old \in Seq(Uris) /\ Len(old) \in Nat /\ new \in Seq(Uris)
      /\ Len(new) = Len(old) + 1 /\ new[1] = u
      /\ \A i \in 1 .. Len(old) : new[i + 1] = old[i] /\ i + 1 \in 1 .. Len(new)
      /\ \A i \in 1 .. Len(new) : i # 1 => i - 1 \in 1 .. Len(old) /\ new[i] = old[i - 1]
      /\ DOMAIN old = 1 .. Len(old) /\ DOMAIN new = 1 .. Len(new)
  BY <1>1 DEF WsTypeOK
<1>3. \A i \in 1 .. Len(old) : old[i] # u
  BY <1>1, <1>2 DEF HasChannel
<1>4. IsInjective(new)
  <2>1. \A i, j \in 1 .. Len(old) : old[i] = old[j] => i = j
    BY <1>1, <1>2 DEF WsTypeOK, IsInjective
  <2> HIDE DEF old, new
  <2>2. ASSUME NEW i \in 1 .. Len(new), NEW j \in 1 .. Len(new), new[i] = new[j]
        PROVE  i = j
    <3>1. CASE i # 1 /\ j # 1
      <4>1. i - 1 = j - 1
        BY <1>2, <2>1, <2>2, <3>1
      <4>2. QED
        BY <4>1
    <3>2. CASE i = 1 \/ j = 1
      BY <1>2, <1>3, <2>2, <3>2
    <3>3. QED
      BY <3>1, <3>2
  <2>3. QED
    BY <1>2, <2>2, Zenon DEF IsInjective
<1>5. WsTypeOK'
  BY <1>1, <1>2, <1>4 DEF WsTypeOK
<1>6. \A v \in wsCallback' : HasChannel(v)'
  <2>1. \A v \in wsCallback : HasChannel(v)
    BY DEF WsInv
  <2> HIDE DEF old, new
  <2>2. ASSUME NEW v \in wsCallback PROVE \E i \in DOMAIN new : new[i] = v
    <3>1. PICK i \in DOMAIN old : old[i] = v
      BY <2>1, Zenon DEF HasChannel, old
    <3>2. new[i + 1] = v /\ i + 1 \in DOMAIN new
      BY <1>2, <3>1
    <3>3. QED
      BY <3>2
  <2>3. QED
    BY <1>1, <2>2, Zenon DEF HasChannel, new
<1>7. QED
  BY <1>1, <1>5, <1>6 DEF WsInv, OpenIsListed, WalkInv

\* setCallback() keeps the invariant.
LEMMA CallbackKeepsWsInv ==
  ASSUME WsInv, NEW u \in Uris, SetCallback(u)
  PROVE  WsInv'
BY DEF WsInv, SetCallback, WsTypeOK, HasChannel, OpenIsListed, WalkInv

\* tx() keeps the invariant while it walks the list.
LEMMA TxKeepsWsInv ==
  ASSUME WsInv, NEW u \in Uris, WsTx(u)
  PROVE  WsInv'
<1>1. /\ WsTypeOK /\ WalkInv /\ OpenIsListed
      /\ UNCHANGED <<wsChannelsList_, wsCallback, pcbState, uriOf>>
      /\ pcbsList_' = [pcbsList_ EXCEPT ![u] = checkPcbs(u)]
  BY DEF WsInv, WsTx
<1>2. /\ pcbsList_'[u] = checkPcbs(u) /\ checkPcbs(u) \in Seq(Pcbs)
      /\ pcbsList_' \in [Uris -> Seq(Pcbs)]
      /\ \A v \in Uris : v # u => pcbsList_'[v] = pcbsList_[v]
  BY <1>1, OpenStays DEF WsTypeOK
<1>3. OpenIsListed'
  <2>1. SUFFICES ASSUME NEW p \in Pcbs, NEW v \in Uris, pcbState[p] = "established",
                        uriOf[p] = v
                 PROVE  \E i \in DOMAIN pcbsList_'[v] : pcbsList_'[v][i] = p
    BY <1>1 DEF OpenIsListed
  <2>2. \E i \in DOMAIN pcbsList_[v] : pcbsList_[v][i] = p
    BY <1>1, <2>1 DEF OpenIsListed
  <2>3. CASE v = u
    <3>1. Stays(p)
      BY <2>1 DEF Stays
    <3>2. \E i \in DOMAIN checkPcbs(u) : checkPcbs(u)[i] = p
      BY <1>1, <2>2, <2>3, <3>1, OpenStays
    <3>3. QED
      BY <1>2, <2>3, <3>2, Zenon
  <2>4. CASE v # u
    BY <1>2, <2>2, <2>4, Zenon
  <2>5. QED
    BY <2>3, <2>4
<1>4. walk' \in WalkType /\ WalkInv'
  <2>1. CASE walk.uri # u \/ walk.erased
    <3>1. walk' = walk
      BY <2>1 DEF WsTx
    <3>2. walk \in WalkType
      BY <1>1 DEF WsTypeOK, WalkType
    <3>3. CASE walk = Idle
      BY <3>1, <3>2, <3>3 DEF WalkInv, Idle
    <3>4. CASE walk # Idle
      BY <1>1, <1>2, <2>1, <3>1, <3>2, <3>4 DEF WalkInv
    <3>5. QED
      BY <3>3, <3>4
  <2>2. CASE walk.uri = u /\ ~walk.erased
    <3> DEFINE list == pcbsList_[u]
               n == walk.node
               m == Len(Filtered(SubSeq(list, 1, n), Staying))
               p == walk.pcb
    <3>1. walk # Idle
      BY <2>2, WsAssumption DEF Idle
    <3>2. n \in 1 .. Len(list) /\ list[n] = p /\ p \in Pcbs /\ list \in Seq(Pcbs)
          /\ walk \in WalkType
      BY <1>1, <2>2, <3>1, OpenStays DEF WalkInv, WsTypeOK, WalkType
    <3>3. walk' = [walk EXCEPT !.node = m, !.erased = ~Stays(p)]
      BY <2>2, Zenon DEF WsTx
    <3> HIDE DEF list, n, p
    <3>4. m \in Nat
      <4>1. SubSeq(list, 1, n) \in Seq(Pcbs)
        BY <3>2
      <4>2. Filtered(SubSeq(list, 1, n), Staying) \in Seq(Pcbs)
        BY <4>1, FilteredElements, Zenon
      <4>3. QED
        BY <4>2
    <3>5. Stays(p) => m \in 1 .. Len(checkPcbs(u)) /\ checkPcbs(u)[m] = p
      <4>1. Stays(p) => list[n] \in Staying
        BY <3>2 DEF Staying
      <4>2. QED
        BY <3>2, <4>1, FilteredPlace, Zenon DEF checkPcbs, list
    <3> HIDE DEF m
    <3>6. Stays(p) \in BOOLEAN
      BY DEF Stays
    <3>7. walk' \in WalkType
      BY <3>2, <3>3, <3>4, <3>6 DEF WalkType
    <3>8. walk'.pcb = p /\ walk'.uri = u /\ walk'.node = m /\ walk'.erased = ~Stays(p)
      BY <2>2, <3>2, <3>3 DEF WalkType, p
    <3>9. WalkInv'
      BY <1>1, <1>2, <3>2, <3>5, <3>8, Zenon DEF WalkInv, Stays
    <3>10. QED
      BY <3>7, <3>9
  <2>3. QED
    BY <2>1, <2>2
<1>5. WsTypeOK'
  BY <1>1, <1>2, <1>4 DEF WsTypeOK, WalkType
<1>6. QED
  BY <1>1, <1>3, <1>4, <1>5 DEF WsInv, HasChannel

\* The server accepting a connection keeps the invariant.
LEMMA AcceptKeepsWsInv ==
  ASSUME WsInv, walk = Idle, NEW p \in Pcbs, Accept(p)
  PROVE  WsInv'
<1>1. /\ WsTypeOK /\ pcbState' = [pcbState EXCEPT ![p] = "established"]
      /\ UNCHANGED <<wsChannelsList_, wsCallback, pcbsList_, uriOf, walk>>
      /\ uriOf[p] = NoUri
  BY DEF WsInv, Accept
<1>2. WsTypeOK'
  BY <1>1 DEF WsTypeOK
<1>3. OpenIsListed'
  BY <1>1, WsAssumption DEF WsInv, WsTypeOK, OpenIsListed
<1>4. QED
  BY <1>1, <1>2, <1>3 DEF WsInv, WsTypeOK, HasChannel, WalkInv

\* The end of a connection keeps the invariant.
LEMMA CloseKeepsWsInv ==
  ASSUME WsInv, walk = Idle, NEW p \in Pcbs, Close(p)
  PROVE  WsInv'
<1>1. /\ WsTypeOK /\ UNCHANGED <<wsChannelsList_, wsCallback, pcbsList_, walk>>
      /\ \/ pcbState' = [pcbState EXCEPT ![p] = "closing"] /\ UNCHANGED uriOf
         \/ /\ pcbState' = [pcbState EXCEPT ![p] = "closed"]
            /\ uriOf' = [uriOf EXCEPT ![p] = NoUri]
  BY DEF WsInv, Close
<1>2. WsTypeOK'
  BY <1>1 DEF WsTypeOK
<1>3. \A q \in Pcbs :
        /\ pcbState'[q] = "closed" => uriOf'[q] = NoUri
        /\ pcbState'[q] = "established" =>
             pcbState[q] = "established" /\ uriOf'[q] = uriOf[q]
  BY <1>1 DEF WsInv, WsTypeOK
<1>4. OpenIsListed'
  BY <1>1, <1>3 DEF WsInv, OpenIsListed
<1>5. QED
  BY <1>1, <1>2, <1>3, <1>4 DEF WsInv, HasChannel, WalkInv

\* websocketOpenCallback() keeps the invariant: it drops closed connections.
LEMMA OpenKeepsWsInv ==
  ASSUME WsInv, walk = Idle, NEW p \in Pcbs, NEW u \in Uris, websocketOpenCallback(p, u)
  PROVE  WsInv'
<1>1. /\ WsTypeOK /\ OpenIsListed
      /\ pcbState[p] = "established" /\ uriOf[p] = NoUri
      /\ UNCHANGED <<wsChannelsList_, wsCallback, pcbState, walk>>
  BY DEF WsInv, websocketOpenCallback
<1>2. CASE HasChannel(u)
  <2> DEFINE left == checkPcbs(u)
             list == PushFront(p, left)
  <2>1. /\ uriOf' = [uriOf EXCEPT ![p] = u]
        /\ pcbsList_' = [pcbsList_ EXCEPT ![u] = list]
    BY <1>2 DEF websocketOpenCallback
  <2>2. left \in Seq(Pcbs)
    BY <1>1, OpenStays
  <2>3. /\ list \in Seq(Pcbs) /\ 1 \in DOMAIN list /\ list[1] = p
        /\ \A i \in DOMAIN left : i + 1 \in DOMAIN list /\ list[i + 1] = left[i]
    <3> HIDE DEF left
    <3>1. QED
      BY <2>2 DEF PushFront
  <2> HIDE DEF list
  <2>4. WsTypeOK'
    BY <1>1, <2>1, <2>3 DEF WsTypeOK
  <2>5. /\ pcbsList_'[u] = list /\ uriOf'[p] = u
        /\ \A v \in Uris : v # u => pcbsList_'[v] = pcbsList_[v]
        /\ \A q \in Pcbs : q # p => uriOf'[q] = uriOf[q]
    BY <1>1, <2>1 DEF WsTypeOK
  <2>6. ASSUME NEW q \in Pcbs, NEW v \in Uris, pcbState[q] = "established", uriOf'[q] = v
        PROVE  \E i \in DOMAIN pcbsList_'[v] : pcbsList_'[v][i] = q
    <3>1. CASE q = p
      BY <2>3, <2>5, <2>6, <3>1, Zenon
    <3>2. CASE q # p
      <4>1. \E i \in DOMAIN pcbsList_[v] : pcbsList_[v][i] = q
        BY <1>1, <2>5, <2>6, <3>2, Zenon DEF OpenIsListed
      <4>2. CASE v # u
        BY <2>5, <4>1, <4>2, Zenon
      <4>3. CASE v = u
        <5>1. Stays(q)
          BY <2>6 DEF Stays
        <5>2. PICK i \in DOMAIN left : left[i] = q
          BY <1>1, <4>1, <4>3, <5>1, OpenStays
        <5>3. QED
          BY <2>3, <2>5, <4>3, <5>2, Zenon
      <4>4. QED
        BY <4>2, <4>3
    <3>3. QED
      BY <3>1, <3>2
  <2>7. OpenIsListed'
    BY <1>1, <2>6 DEF OpenIsListed
  <2>8. \A q \in Pcbs : pcbState'[q] = "closed" => uriOf'[q] = NoUri
    BY <1>1, <2>5 DEF WsInv
  <2>9. QED
    BY <1>1, <2>4, <2>7, <2>8 DEF WsInv, HasChannel, WalkInv
<1>3. CASE ~HasChannel(u)
  <2>1. uriOf' = [uriOf EXCEPT ![p] = Missed] /\ UNCHANGED pcbsList_
    BY <1>3 DEF websocketOpenCallback
  <2>2. WsTypeOK'
    BY <1>1, <2>1 DEF WsTypeOK
  <2>3. \A q \in Pcbs : /\ pcbState'[q] = "closed" => uriOf'[q] = NoUri
                        /\ uriOf'[q] \in Uris => uriOf'[q] = uriOf[q]
    BY <1>1, <2>1, WsAssumption DEF WsInv, WsTypeOK
  <2>4. OpenIsListed'
    BY <1>1, <2>1, <2>3 DEF OpenIsListed
  <2>5. QED
    BY <1>1, <2>1, <2>2, <2>3, <2>4 DEF WsInv, HasChannel, WalkInv
<1>4. QED
  BY <1>2, <1>3

\* The walk goes to another node, and nothing else changes.
LEMMA WalkKeepsWsInv ==
  ASSUME WsInv, NEW p \in Pcbs, NEW u \in Uris, NEW n \in Nat, walk' = NextNode(p, u, n),
         UNCHANGED <<wsChannelsList_, wsCallback, pcbsList_, pcbState, uriOf>>
  PROVE  WsInv'
<1>1. WsTypeOK /\ \A v \in wsCallback : HasChannel(v)
  BY DEF WsInv
<1>2. walk' \in WalkType /\ WalkInv'
  <2>1. CASE NextNode(p, u, n) = Idle
    BY <2>1 DEF WalkType, WalkInv, Idle
  <2>2. CASE NextNode(p, u, n) # Idle
    <3>1. PICK v \in Uris : \E k \in 1 .. Len(pcbsList_[v]) :
            /\ pcbsList_[v][k] = p
            /\ NextNode(p, u, n) = [pcb |-> p, uri |-> v, erased |-> FALSE, node |-> k]
      BY <1>1, <2>2, NextNodeFound
    <3>2. PICK k \in 1 .. Len(pcbsList_[v]) :
            /\ pcbsList_[v][k] = p
            /\ NextNode(p, u, n) = [pcb |-> p, uri |-> v, erased |-> FALSE, node |-> k]
      BY <3>1
    <3>3. /\ walk' = [pcb |-> p, uri |-> v, erased |-> FALSE, node |-> k]
          /\ pcbsList_' = pcbsList_ /\ k \in Nat
      BY <3>2
    <3>4. walk' \in WalkType
      BY <3>3 DEF WalkType
    <3>5. WalkInv'
      BY <3>2, <3>3 DEF WalkInv
    <3>6. QED
      BY <3>4, <3>5
  <2>3. QED
    BY <2>1, <2>2
<1>3. WsTypeOK'
  BY <1>1, <1>2 DEF WsTypeOK, WalkType
<1>4. QED
  BY <1>2, <1>3 DEF WsInv, OpenIsListed, HasChannel

\* The invariant is inductive.
LEMMA WsNextInv == WsInv /\ [WsNext]_wsVars => WsInv'
<1> SUFFICES ASSUME WsInv, [WsNext]_wsVars PROVE WsInv'
  OBVIOUS
<1>1. ASSUME NEW u \in Uris, Create(u) \/ SetCallback(u) \/ WsTx(u) PROVE WsInv'
  BY <1>1, CreateKeepsInv, CallbackKeepsWsInv, TxKeepsWsInv
<1>2. ASSUME walk = Idle, NEW p \in Pcbs, Accept(p) \/ Close(p) PROVE WsInv'
  BY <1>2, AcceptKeepsWsInv, CloseKeepsWsInv
<1>3. ASSUME NEW p \in Pcbs, websocketCallback(p) PROVE WsInv'
  <2>1. Head(wsChannelsList_) \in Uris
    BY <1>3 DEF WsInv, WsTypeOK, websocketCallback
  <2>2. 0 \in Nat
    OBVIOUS
  <2>3. /\ walk' = NextNode(p, Head(wsChannelsList_), 0)
        /\ UNCHANGED <<wsChannelsList_, wsCallback, pcbsList_, pcbState, uriOf>>
    BY <1>3 DEF websocketCallback
  <2>4. QED
    BY <2>1, <2>2, <2>3, WalkKeepsWsInv
<1>4. ASSUME walk = Idle, NEW p \in Pcbs, NEW u \in Uris, websocketOpenCallback(p, u)
      PROVE  WsInv'
  BY <1>4, OpenKeepsWsInv
<1>5. CASE walk # Idle /\ CallbackDone
  <2>1. /\ walk.pcb \in Pcbs /\ walk.uri \in Uris /\ walk.node \in Nat
        /\ UNCHANGED <<wsChannelsList_, wsCallback, pcbsList_, pcbState, uriOf>>
    BY <1>5 DEF WsInv, WalkInv, WsTypeOK, CallbackDone
  <2>2. CASE ~walk.erased
    <3>1. walk' = NextNode(walk.pcb, walk.uri, walk.node)
      BY <1>5, <2>2 DEF CallbackDone
    <3>2. QED
      BY <2>1, <3>1, WalkKeepsWsInv
  <2>3. CASE walk.erased
    <3>1. walk' = Idle
      BY <1>5, <2>3 DEF CallbackDone
    <3>2. WsTypeOK' /\ WalkInv'
      BY <2>1, <3>1 DEF WsInv, WsTypeOK, WalkInv, Idle
    <3>3. QED
      BY <2>1, <3>2 DEF WsInv, OpenIsListed, HasChannel
  <2>4. QED
    BY <2>2, <2>3
<1>6. CASE UNCHANGED wsVars
  BY <1>6 DEF wsVars, WsInv, WsTypeOK, HasChannel, OpenIsListed, WalkInv
<1>7. QED
  BY <1>1, <1>2, <1>3, <1>4, <1>5, <1>6 DEF WsNext

\* The invariant holds in every state.
LEMMA SpecWsInv == WsSpec => []WsInv
BY WsInitInv, WsNextInv, PTL DEF WsSpec

\* Whatever blocks are closed and used again and whenever the lists are cleaned,
\* an open websocket is in the list of its channel.
THEOREM SpecOpenIsListed == WsSpec => []OpenIsListed
<1>1. WsInv => OpenIsListed
  BY DEF WsInv
<1>2. QED
  BY <1>1, SpecWsInv, PTL

\* The node the walk stands on outlives whatever the application does in its
\* callback, as long as the connection is open.
THEOREM SpecWalkSafe == WsSpec => []WalkSafe
<1>1. ASSUME WsInv PROVE WalkSafe
  <2>1. SUFFICES ASSUME walk # Idle, pcbState[walk.pcb] = "established"
                 PROVE  /\ ~walk.erased
                        /\ walk.node \in DOMAIN pcbsList_[walk.uri]
                        /\ pcbsList_[walk.uri][walk.node] = walk.pcb
    BY DEF WalkSafe
  <2>2. walk.erased \in BOOLEAN /\ pcbsList_ \in [Uris -> Seq(Pcbs)] /\ walk.uri \in Uris
    BY <1>1, <2>1 DEF WsInv, WsTypeOK, WalkInv
  <2>3. DOMAIN pcbsList_[walk.uri] = 1 .. Len(pcbsList_[walk.uri])
    BY <2>2
  <2>4. QED
    BY <1>1, <2>1, <2>2, <2>3 DEF WsInv, WalkInv
<1>2. QED
  BY <1>1, SpecWsInv, PTL

-----------------------------------------------------------------------------
(* MCChannels, where one of the four is made.                              *)

\* What holds of each of them holds of all.
LEMMA AllImplement == Spec => VoidSpec /\ TaskSpec /\ UdpSpec /\ WsSpec
<1>1. Init => VoidInit /\ TaskInit /\ UdpInit /\ WsInit
  BY DEF Init
<1>2. [Next]_vars => /\ [VoidNext]_voidVars /\ [TaskNext]_taskVars
                     /\ [UdpNext]_udpVars /\ [WsNext]_wsVars
  BY DEF Next, vars
<1>3. QED
  BY <1>1, <1>2, PTL DEF Spec, VoidSpec, TaskSpec, UdpSpec, WsSpec

\* In every channel what is copied, sent and listed has its type, and what waits in
\* a socket, the buffers and the lists of websockets stay within their sizes.
THEOREM SpecTypeOK == Spec => []TypeOK
<1>1. UdpSpec => []UdpTypeOK
  <2>1. UdpInv => UdpTypeOK
    BY DEF UdpInv
  <2>2. QED
    BY <2>1, UdpInitInv, UdpNextInv, PTL DEF UdpSpec
<1>2. WsInv => WsTypeOK
  BY DEF WsInv
<1>3. VoidTypeOK /\ TaskTypeOK /\ UdpTypeOK /\ WsTypeOK => TypeOK
  BY DEF TypeOK
<1>4. QED
  BY <1>1, <1>2, <1>3, AllImplement, SpecVoidTypeOK, SpecTaskTypeOK, SpecWsInv, PTL

=============================================================================
