--------------------------- MODULE TcpServerChannel ---------------------------
(***************************************************************************)
(* The TCP server channel (src/ethutilities/TcpServerChannel.cpp): lwIP's   *)
(* callbacks for accepted connections, the table of broadcast connections, *)
(* and the application's calls.                                            *)
(*                                                                         *)
(* A connection is named by the heap address of its TcpServerParameters_t  *)
(* ("ss" in the code); malloc_s may hand a freed address out again.  The   *)
(* bare-metal build is single threaded: an lwIP callback runs to           *)
(* completion, so it is one step.  tx() with no target loops over the      *)
(* table; each iteration is a step, and nothing else runs in between.      *)
(* Payload is abstracted to pbufs: a message is a number of pbufs, and one *)
(* pbuf takes one unit of the connection's lwIP send buffer.               *)
(***************************************************************************)
EXTENDS Integers, FiniteSets

CONSTANTS
  Ss,            \* heap addresses malloc_s can return for a connection
  NULL,          \* the null pointer
  NumBroadcast,  \* TCP_SERVER_NUM_BROADCAST_CONNECTIONS
  NumPcb,        \* connections lwIP's pcb pool lets be open at once
  MaxChunks,     \* the most pbufs one tx() message needs
  SndBuf,        \* a connection's lwIP send buffer, in pbufs
  Console        \* is it a build with USE_CONSOLE and TCP_SERVER_USE_CONSOLE

ASSUME ChannelAssumption ==
  /\ IsFiniteSet(Ss)
  /\ NULL \notin Ss
  /\ NumBroadcast \in Nat \ {0}
  /\ NumPcb \in Nat
  /\ MaxChunks \in Nat
  /\ SndBuf \in Nat
  /\ Console \in BOOLEAN

VARIABLES
  state,     \* ss->state of each address, "FREE" when it is not allocated
  p,         \* length of the pbuf chain ss->p still to be written
  sndbuf,    \* tcp_sndbuf(ss->pcb)
  sentCb,    \* has tcp_sent(pcb, sent) been called
  connectionsBuffer,
  connectionsCounter,
  callback,  \* is callback_ set
  handles,   \* connection parameters channelCallback has shown to the user
  server,    \* life of the channel object and its listening pcb
  txLoop,    \* the loop of a tx() without a target
  reached,   \* history: how often that loop has called tx() per connection
  fault      \* history: freed memory, or a null pointer, has been used

connVars  == <<state, p, sndbuf, sentCb>>
tableVars == <<connectionsBuffer, connectionsCounter>>
appVars   == <<callback, handles>>
loopVars  == <<txLoop, reached>>
vars == <<connVars, tableVars, appVars, loopVars, server, fault>>

Slots == 0 .. NumBroadcast - 1

Open == {c \in Ss : state[c] # "FREE"}

NoLoop == [active |-> FALSE, i |-> 0, n |-> 0]

TypeOK ==
  /\ state \in [Ss -> {"FREE", "ACCEPTED", "CLOSING"}]
  /\ p \in [Ss -> 0 .. MaxChunks]
  /\ sndbuf \in [Ss -> 0 .. SndBuf]
  /\ sentCb \in [Ss -> BOOLEAN]
  /\ connectionsBuffer \in [Slots -> Ss \cup {NULL}]
  /\ connectionsCounter \in 0 .. NumBroadcast
  /\ callback \in BOOLEAN
  /\ handles \in SUBSET Ss
  /\ server \in {"listening", "unbound", "destroyed"}
  /\ txLoop \in [active : BOOLEAN, i : 0 .. NumBroadcast, n : 0 .. MaxChunks]
  /\ reached \in [Ss -> Nat]
  /\ fault \in BOOLEAN

\* construct(): tcp_new or tcp_bind may fail, and then nothing listens.
Init ==
  /\ state = [c \in Ss |-> "FREE"]
  /\ p = [c \in Ss |-> 0]
  /\ sndbuf = [c \in Ss |-> 0]
  /\ sentCb = [c \in Ss |-> FALSE]
  /\ connectionsBuffer = [i \in Slots |-> NULL]
  /\ connectionsCounter = 0
  /\ callback = FALSE
  /\ handles = {}
  /\ server \in {"listening", "unbound"}
  /\ txLoop = NoLoop
  /\ reached = [c \in Ss |-> 0]
  /\ fault = FALSE

-----------------------------------------------------------------------------
(* The table of broadcast connections.                                     *)

isConnectionInBuffer(c) ==
  \E i \in 0 .. connectionsCounter - 1 : connectionsBuffer[i] = c

\* The slot addConnectionToBuffer stops at: the first that is free or c's.
IsSlotFor(i, c) ==
  /\ connectionsBuffer[i] \in {c, NULL}
  /\ \A j \in 0 .. i - 1 : connectionsBuffer[j] \notin {c, NULL}

addConnectionToBuffer(c) ==
  IF connectionsCounter = NumBroadcast
  THEN UNCHANGED tableVars
  ELSE /\ connectionsBuffer' = [i \in Slots |->
             IF IsSlotFor(i, c) THEN c ELSE connectionsBuffer[i]]
       /\ connectionsCounter' = connectionsCounter + 1

\* Where the search of deleteConnectionFromBuffer ends: one past the last
\* slot when c is not in the table.
IndexOf(c) ==
  IF \E i \in Slots : connectionsBuffer[i] = c
  THEN CHOOSE i \in Slots : /\ connectionsBuffer[i] = c
                            /\ \A j \in 0 .. i - 1 : connectionsBuffer[j] # c
  ELSE NumBroadcast

\* Mutant: the shift stops before it has copied the terminating NULL.
IsShiftedStopsEarly(i, c) ==
  /\ IndexOf(c) <= i
  /\ i < NumBroadcast - 1
  /\ \A j \in IndexOf(c) + 1 .. i + 1 : connectionsBuffer[j] # NULL

\* Slot i takes its right neighbour's entry: the shift starts at c's slot,
\* stops after copying a NULL, and never writes the last slot.
IsShifted(i, c) ==
  /\ IndexOf(c) <= i
  /\ i < NumBroadcast - 1
  /\ \A j \in IndexOf(c) + 1 .. i : connectionsBuffer[j] # NULL

\* Mutant: the slot is cleared and the entries behind it stay where they are.
deleteWithoutShift(c) ==
  IF connectionsCounter = 0
  THEN UNCHANGED tableVars
  ELSE /\ connectionsBuffer' = [i \in Slots |->
             IF i = IndexOf(c) THEN NULL ELSE connectionsBuffer[i]]
       /\ connectionsCounter' = connectionsCounter - 1

deleteConnectionFromBuffer(c) ==
  IF connectionsCounter = 0
  THEN UNCHANGED tableVars
  ELSE /\ connectionsBuffer' = [i \in Slots |->
             IF IsShifted(i, c) THEN connectionsBuffer[i + 1]
             ELSE IF i = NumBroadcast - 1 /\ IndexOf(c) = i THEN NULL
             ELSE connectionsBuffer[i]]
       /\ connectionsCounter' = connectionsCounter - 1

-----------------------------------------------------------------------------
(* Helpers of the callbacks.                                               *)

\* free_s(ss).  A chain still hanging from ss->p is not freed with it.
Free(c) ==
  /\ state' = [state EXCEPT ![c] = "FREE"]
  /\ p' = [p EXCEPT ![c] = 0]
  /\ sndbuf' = [sndbuf EXCEPT ![c] = 0]
  /\ sentCb' = [sentCb EXCEPT ![c] = FALSE]

\* Mutant: the connection is freed and its table entry is forgotten.
ReleaseKeepsEntry(c, printed) ==
  /\ fault' = (printed \/ server = "destroyed")
  /\ UNCHANGED tableVars
  /\ Free(c)

\* The end of close() and of error(): ss->tcpServer->deleteConnection...
\* and free_s.  A connection that outlived its channel uses freed memory, and
\* so does a caller of close() that prints ss->tcpServer->srcPort_ after it.
Release(c, printed) ==
  /\ fault' = (printed \/ server = "destroyed")
  /\ IF server = "destroyed" THEN UNCHANGED tableVars
                             ELSE deleteConnectionFromBuffer(c)
  /\ Free(c)

\* send(): w of the queued pbufs go to tcp_write before it, or the send
\* buffer, runs out.  tcp_write may fail at any pbuf (ERR_MEM).
send(c, queued, space, w) ==
  /\ w <= queued
  /\ w <= space
  /\ p' = [p EXCEPT ![c] = queued - w]
  /\ sndbuf' = [sndbuf EXCEPT ![c] = space - w]

\* The callbacks run while the application is not inside tx().
LwipRuns == ~txLoop.active /\ ~fault

-----------------------------------------------------------------------------
(* lwIP's callbacks.                                                       *)

\* accept(): malloc_s returned c.
Accept(c) ==
  /\ LwipRuns
  /\ server = "listening"
  /\ state[c] = "FREE"
  /\ Cardinality(Open) < NumPcb
  /\ state' = [state EXCEPT ![c] = "ACCEPTED"]
  /\ sndbuf' = [sndbuf EXCEPT ![c] = SndBuf]
  /\ addConnectionToBuffer(c)
  /\ UNCHANGED <<p, sentCb, appVars, loopVars, server, fault>>

\* accept() when malloc_s returns NULL: lwIP aborts the new pcb.  The message
\* takes the port from ss, which is null.
AcceptFails ==
  /\ LwipRuns
  /\ server = "listening"
  /\ Cardinality(Open) < NumPcb
  /\ fault' = Console
  /\ UNCHANGED <<connVars, tableVars, appVars, loopVars, server>>

\* receive() with data on an accepted connection: the user's callback sees
\* the connection parameter and may keep it.  What it transmits from inside
\* the callback are steps of its own: receive() changes nothing after it.
ReceiveData(c) ==
  /\ LwipRuns
  /\ state[c] = "ACCEPTED"
  /\ server # "destroyed"
  /\ callback
  /\ handles' = handles \cup {c}
  /\ UNCHANGED <<connVars, tableVars, loopVars, callback, server, fault>>

\* receive() with p == NULL: the remote host has closed its side.  The message
\* behind close() reads ss, which close() has freed.
ReceiveFin(c, w) ==
  /\ LwipRuns
  /\ state[c] = "ACCEPTED"
  /\ \/ /\ p[c] = 0
        /\ w = 0
        /\ Release(c, Console)
     \/ /\ p[c] > 0
        /\ state' = [state EXCEPT ![c] = "CLOSING"]
        /\ sentCb' = [sentCb EXCEPT ![c] = TRUE]
        /\ send(c, p[c], sndbuf[c], w)
        /\ UNCHANGED <<tableVars, fault>>
  /\ UNCHANGED <<appVars, loopVars, server>>

\* Mutant: poll() only finishes a close and never retries the chain.
PollNoRetry(c, w) ==
  /\ LwipRuns
  /\ p[c] = 0
  /\ state[c] = "CLOSING"
  /\ w = 0
  /\ Release(c, Console)
  /\ UNCHANGED <<appVars, loopVars, server>>

\* Mutant: once the peer has closed, poll() leaves the chain to sent().
PollNoRetryWhenClosing(c, w) ==
  /\ LwipRuns
  /\ \/ /\ p[c] > 0
        /\ state[c] = "ACCEPTED"
        /\ sentCb' = [sentCb EXCEPT ![c] = TRUE]
        /\ send(c, p[c], sndbuf[c], w)
        /\ UNCHANGED <<state, tableVars, fault>>
     \/ /\ p[c] = 0
        /\ state[c] = "CLOSING"
        /\ w = 0
        /\ Release(c, Console)
  /\ UNCHANGED <<appVars, loopVars, server>>

\* poll(), lwIP's slow timer.  With nothing queued and no close pending it
\* does nothing.  Here too the message behind close() reads ss.
Poll(c, w) ==
  /\ LwipRuns
  /\ \/ /\ p[c] > 0
        /\ sentCb' = [sentCb EXCEPT ![c] = TRUE]
        /\ send(c, p[c], sndbuf[c], w)
        /\ UNCHANGED <<state, tableVars, fault>>
     \/ /\ p[c] = 0
        /\ state[c] = "CLOSING"
        /\ w = 0
        /\ Release(c, Console)
  /\ UNCHANGED <<appVars, loopVars, server>>

\* sent(), with the send space the acknowledgement has left.
sent(c, space, w) ==
  \/ /\ p[c] > 0
     /\ send(c, p[c], space, w)
     /\ UNCHANGED <<state, sentCb, tableVars, fault>>
  \/ /\ p[c] = 0
     /\ state[c] = "CLOSING"
     /\ w = 0
     /\ Release(c, FALSE)
  \/ /\ p[c] = 0
     /\ state[c] = "ACCEPTED"
     /\ w = 0
     /\ sndbuf' = [sndbuf EXCEPT ![c] = space]
     /\ UNCHANGED <<state, p, sentCb, tableVars, fault>>

\* The peer acknowledges k pbufs: lwIP gives the space back and calls
\* sent() if it has been registered.
Ack(c, k, w) ==
  /\ LwipRuns
  /\ state[c] # "FREE"
  /\ sndbuf[c] + k <= SndBuf
  /\ \/ /\ sentCb[c]
        /\ sent(c, sndbuf[c] + k, w)
     \/ /\ ~sentCb[c]
        /\ w = 0
        /\ sndbuf' = [sndbuf EXCEPT ![c] = @ + k]
        /\ UNCHANGED <<state, p, sentCb, tableVars, fault>>
  /\ UNCHANGED <<appVars, loopVars, server>>

\* error(): lwIP has aborted the connection (reset, timeout, no memory).
Error(c) ==
  /\ LwipRuns
  /\ state[c] # "FREE"
  /\ Release(c, FALSE)
  /\ UNCHANGED <<appVars, loopVars, server>>

-----------------------------------------------------------------------------
(* The application's calls.                                                *)

AppRuns == LwipRuns /\ server # "destroyed"

initialize ==
  /\ AppRuns
  /\ callback' = TRUE
  /\ UNCHANGED <<connVars, tableVars, loopVars, handles, server, fault>>

deinitialize ==
  /\ AppRuns
  /\ callback' = FALSE
  /\ UNCHANGED <<connVars, tableVars, loopVars, handles, server, fault>>

\* Mutant: a message is chained behind one that is still queued.
txToAppends(c, n, k, w) ==
  /\ fault' = (isConnectionInBuffer(c) /\ state[c] = "FREE")
  /\ IF isConnectionInBuffer(c) /\ state[c] # "FREE"
     THEN /\ k <= n
          /\ send(c, p[c] + k, sndbuf[c], w)
          /\ UNCHANGED <<state, sentCb>>
     ELSE UNCHANGED connVars

\* tx() of a message of n pbufs to connection c: k of them could be
\* allocated, and w of those are written at once.  It returns when c is not
\* in the table, or has pbufs queued, and follows c if it is in the table.
txTo(c, n, k, w) ==
  /\ fault' = (isConnectionInBuffer(c) /\ state[c] = "FREE")
  /\ IF isConnectionInBuffer(c) /\ state[c] # "FREE" /\ p[c] = 0
     THEN /\ k <= n
          /\ send(c, k, sndbuf[c], w)
          /\ UNCHANGED <<state, sentCb>>
     ELSE UNCHANGED connVars

\* tx() with a connection parameter the user has been shown, perhaps of a
\* connection that is gone.
Tx(c, n, k, w) ==
  /\ AppRuns
  /\ c \in handles
  /\ connectionsCounter # 0
  /\ txTo(c, n, k, w)
  /\ UNCHANGED <<tableVars, appVars, loopVars, server>>

\* tx() with parameter NULL.
TxAllBegin(n) ==
  /\ AppRuns
  /\ connectionsCounter # 0
  /\ txLoop' = [active |-> TRUE, i |-> 0, n |-> n]
  /\ UNCHANGED <<connVars, tableVars, appVars, reached, server, fault>>

TxAllStep(k, w) ==
  /\ txLoop.active
  /\ ~fault
  /\ txLoop.i < connectionsCounter
  /\ LET c == connectionsBuffer[txLoop.i]
     IN  IF c = NULL THEN UNCHANGED <<connVars, reached, fault>>
         ELSE /\ txTo(c, txLoop.n, k, w)
              /\ reached' = [reached EXCEPT ![c] = @ + 1]
  /\ txLoop' = [txLoop EXCEPT !.i = @ + 1]
  /\ UNCHANGED <<tableVars, appVars, server>>

TxAllEnd ==
  /\ txLoop.active
  /\ ~fault
  /\ txLoop.i >= connectionsCounter
  /\ txLoop' = NoLoop
  /\ reached' = [c \in Ss |-> 0]
  /\ UNCHANGED <<connVars, tableVars, appVars, server, fault>>

\* The entries ~TcpServerChannel walks over.
Walked == {i \in 0 .. connectionsCounter - 1 : connectionsBuffer[i] # NULL}

\* ~TcpServerChannel: closes and frees what the table holds.  An entry that
\* is stale or there twice makes it use freed memory.
Destroy ==
  /\ AppRuns
  /\ LET gone == {connectionsBuffer[i] : i \in Walked}
     IN  /\ state' = [c \in Ss |-> IF c \in gone THEN "FREE" ELSE state[c]]
         /\ p' = [c \in Ss |-> IF c \in gone THEN 0 ELSE p[c]]
         /\ sndbuf' = [c \in Ss |-> IF c \in gone THEN 0 ELSE sndbuf[c]]
         /\ sentCb' = [c \in Ss |-> IF c \in gone THEN FALSE ELSE sentCb[c]]
         /\ fault' = \/ \E c \in gone : state[c] = "FREE"
                     \/ \E i, j \in Walked :
                          i # j /\ connectionsBuffer[i] = connectionsBuffer[j]
  /\ server' = "destroyed"
  /\ UNCHANGED <<tableVars, appVars, loopVars>>

-----------------------------------------------------------------------------

Next ==
  \/ \E c \in Ss : Accept(c) \/ ReceiveData(c) \/ Error(c)
  \/ \E c \in Ss, w \in 0 .. MaxChunks : ReceiveFin(c, w) \/ Poll(c, w)
  \/ \E c \in Ss, k \in 1 .. SndBuf, w \in 0 .. MaxChunks : Ack(c, k, w)
  \/ \E c \in Ss, n, k, w \in 0 .. MaxChunks : Tx(c, n, k, w)
  \/ \E n \in 0 .. MaxChunks : TxAllBegin(n)
  \/ \E k, w \in 0 .. MaxChunks : TxAllStep(k, w)
  \/ AcceptFails \/ TxAllEnd \/ initialize \/ deinitialize \/ Destroy

Spec == Init /\ [][Next]_vars

(* Fairness.  lwIP's slow timer keeps calling poll(), and memory is not low *)
(* every time: a poll() infinitely often meets a tcp_write that takes all  *)
(* the send buffer has room for.  Data in flight is acknowledged, or lwIP  *)
(* gives the connection up and calls error().  A tx() once begun runs to   *)
(* its end.  Nothing is assumed of the application or of the remote host.  *)

PollWritesAll(c) ==
  \E w \in 0 .. MaxChunks : /\ w = p[c] \/ w = sndbuf[c]
                            /\ Poll(c, w)

Answered(c) ==
  /\ sndbuf[c] < SndBuf
  /\ \/ Error(c)
     \/ \E k \in 1 .. SndBuf, w \in 0 .. MaxChunks : Ack(c, k, w)

FairSpec ==
  /\ Spec
  /\ WF_vars(TxAllEnd \/ \E k, w \in 0 .. MaxChunks : TxAllStep(k, w))
  /\ \A c \in Ss : SF_vars(PollWritesAll(c)) /\ SF_vars(Answered(c))

-----------------------------------------------------------------------------
(* Properties.                                                             *)

\* While the channel lives, the first connectionsCounter slots hold the open
\* connections, each once, and the other slots are NULL: accepting, closing,
\* and losing connections in any order leaves no stale entry, no duplicate
\* and no gap.  True when lwIP has fewer pcbs than the table has slots.
TableInv ==
  server # "destroyed" =>
    /\ connectionsCounter = Cardinality(Open)
    /\ \A i \in Slots : IF i < connectionsCounter
                        THEN connectionsBuffer[i] \in Open
                        ELSE connectionsBuffer[i] = NULL
    /\ \A i, j \in 0 .. connectionsCounter - 1 :
          connectionsBuffer[i] = connectionsBuffer[j] => i = j
    /\ \A c \in Open : isConnectionInBuffer(c)

\* In a build without the console's messages no callback, tx() or destructor
\* uses a TcpServerParameters_t after free_s, nor the channel after its
\* destructor: tx() looks the parameter it is given up before it follows the
\* pointer, and the destructor closes what is open.  With the messages it is
\* not so: receive() and poll() print a port they read from the connection that
\* close() has just freed, and accept() one it reads through a null pointer.
NoUseAfterFree == ~Console => ~fault

\* ~TcpServerChannel closes every open connection: none is left whose
\* callbacks would call into the destroyed channel.
DestroyClosesAll == server = "destroyed" => Open = {}

\* A tx() with parameter NULL calls tx() for every open connection exactly
\* once, whatever was accepted and closed before.  (For one that still has
\* pbufs queued that call drops the message.)
BroadcastReachesAllOnce ==
  [][TxAllEnd => \A c \in Ss : reached[c] = (IF c \in Open THEN 1 ELSE 0)]_vars

\* A queued chain does not stay queued for ever: poll() retries what
\* tcp_write refused, whether or not sent() has been registered.
FlushEventually == \A c \in Ss : p[c] > 0 ~> p[c] = 0

\* tx() hands pbufs to connection c.
Sends(c) ==
  /\ p[c] = 0
  /\ \/ \E n, k, w \in 0 .. MaxChunks : Tx(c, n, k, w)
     \/ \E k, w \in 0 .. MaxChunks : /\ TxAllStep(k, w)
                                     /\ connectionsBuffer[txLoop.i] = c

\* A connection whose remote host has closed is closed here too, unless the
\* application transmits to it over and over.
ClosingEventuallyCloses ==
  \A c \in Ss : \/ []<>(state[c] # "CLOSING")
                \/ []<><<Sends(c)>>_vars

\* While the table's limit is not exceeded every open connection is in it,
\* as the only message for one that is left out says ("Max number of
\* broadcast connections achieved").
EveryConnectionTracked ==
  (server # "destroyed" /\ Cardinality(Open) <= NumBroadcast)
    => \A c \in Open : isConnectionInBuffer(c)

=============================================================================
