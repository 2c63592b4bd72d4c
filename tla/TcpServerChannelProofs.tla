----------------------- MODULE TcpServerChannelProofs -----------------------
(***************************************************************************)
(* Theorems about TcpServerChannel, for every value of its constants that  *)
(* leaves lwIP fewer pcbs than the table of broadcast connections has      *)
(* slots, and their proofs.                                                *)
(***************************************************************************)
EXTENDS TcpServerChannel, FiniteSetTheorems, TLAPS

-----------------------------------------------------------------------------
(* Typing needs nothing but the assumptions on the constants.              *)

\* The table operations keep the table well typed whatever it holds.
LEMMA TableTyping ==
  ASSUME TypeOK, NEW c \in Ss,
         addConnectionToBuffer(c) \/ deleteConnectionFromBuffer(c)
            \/ UNCHANGED tableVars
  PROVE  /\ connectionsBuffer' \in [Slots -> Ss \cup {NULL}]
         /\ connectionsCounter' \in 0 .. NumBroadcast
<1> USE ChannelAssumption DEF TypeOK, tableVars
<1>1. CASE UNCHANGED tableVars
  BY <1>1
<1>2. CASE addConnectionToBuffer(c)
  BY <1>2 DEF addConnectionToBuffer
<1>3. CASE deleteConnectionFromBuffer(c)
  <2>1. ASSUME NEW i \in Slots, IsShifted(i, c)
        PROVE  i + 1 \in Slots
    BY <2>1 DEF IsShifted, Slots
  <2>2. connectionsBuffer' \in [Slots -> Ss \cup {NULL}]
    BY <1>3, <2>1 DEF deleteConnectionFromBuffer
  <2>3. connectionsCounter' \in 0 .. NumBroadcast
    BY <1>3 DEF deleteConnectionFromBuffer
  <2> QED
    BY <2>2, <2>3
<1> QED
  BY <1>1, <1>2, <1>3

\* Releasing a connection keeps what it writes well typed.
LEMMA ReleaseTyping ==
  ASSUME TypeOK, NEW c \in Ss, NEW printed \in BOOLEAN, Release(c, printed)
  PROVE  /\ state' \in [Ss -> {"FREE", "ACCEPTED", "CLOSING"}]
         /\ p' \in [Ss -> 0 .. MaxChunks]
         /\ sndbuf' \in [Ss -> 0 .. SndBuf]
         /\ sentCb' \in [Ss -> BOOLEAN]
         /\ connectionsBuffer' \in [Slots -> Ss \cup {NULL}]
         /\ connectionsCounter' \in 0 .. NumBroadcast
         /\ fault' \in BOOLEAN
<1>1. deleteConnectionFromBuffer(c) \/ UNCHANGED tableVars
  BY DEF Release
<1>2. /\ connectionsBuffer' \in [Slots -> Ss \cup {NULL}]
      /\ connectionsCounter' \in 0 .. NumBroadcast
  BY <1>1, TableTyping
<1>3. /\ state' \in [Ss -> {"FREE", "ACCEPTED", "CLOSING"}]
      /\ p' \in [Ss -> 0 .. MaxChunks]
      /\ sndbuf' \in [Ss -> 0 .. SndBuf]
      /\ sentCb' \in [Ss -> BOOLEAN]
  BY ChannelAssumption DEF Release, Free, TypeOK
<1>4. fault' \in BOOLEAN
  BY DEF Release
<1> QED
  BY <1>2, <1>3, <1>4

\* Sending from a chain that is not too long keeps the chain and the send
\* buffer well typed.
LEMMA SendTyping ==
  ASSUME TypeOK, NEW c \in Ss, NEW queued \in 0 .. MaxChunks,
         NEW space \in 0 .. SndBuf, NEW w \in 0 .. MaxChunks,
         send(c, queued, space, w)
  PROVE  p' \in [Ss -> 0 .. MaxChunks] /\ sndbuf' \in [Ss -> 0 .. SndBuf]
BY ChannelAssumption DEF send, TypeOK

\* What a tx() to one connection writes.
LEMMA TxToTyping ==
  ASSUME TypeOK, NEW c \in Ss, NEW n \in 0 .. MaxChunks,
         NEW k \in 0 .. MaxChunks, NEW w \in 0 .. MaxChunks, txTo(c, n, k, w)
  PROVE  /\ state' = state
         /\ sentCb' = sentCb
         /\ p' \in [Ss -> 0 .. MaxChunks]
         /\ sndbuf' \in [Ss -> 0 .. SndBuf]
         /\ fault' \in BOOLEAN
<1>1. fault' \in BOOLEAN
  BY DEF txTo
<1>2. CASE UNCHANGED connVars
  BY <1>1, <1>2 DEF connVars, TypeOK
<1>3. CASE /\ send(c, k, sndbuf[c], w)
           /\ UNCHANGED <<state, sentCb>>
  <2>1. sndbuf[c] \in 0 .. SndBuf
    BY DEF TypeOK
  <2> QED
    BY <1>1, <1>3, <2>1, SendTyping
<1> QED
  BY <1>2, <1>3 DEF txTo

\* Every step keeps the variables well typed.
LEMMA TypeStep ==
  TypeOK /\ [Next]_vars => TypeOK'
<1> SUFFICES ASSUME TypeOK, [Next]_vars
             PROVE  TypeOK'
  OBVIOUS
<1> USE DEF connVars, tableVars, appVars, loopVars
<1>1. ASSUME NEW c \in Ss, Accept(c)
      PROVE  TypeOK'
  <2>1. /\ connectionsBuffer' \in [Slots -> Ss \cup {NULL}]
        /\ connectionsCounter' \in 0 .. NumBroadcast
    BY <1>1, TableTyping DEF Accept
  <2> QED
    BY <1>1, <2>1, ChannelAssumption DEF Accept, TypeOK
<1>2. ASSUME NEW c \in Ss, ReceiveData(c)
      PROVE  TypeOK'
  BY <1>2 DEF ReceiveData, TypeOK
<1>3. ASSUME NEW c \in Ss, Error(c)
      PROVE  TypeOK'
  BY <1>3, ReleaseTyping DEF Error, TypeOK
<1>4. ASSUME NEW c \in Ss, NEW w \in 0 .. MaxChunks, ReceiveFin(c, w)
      PROVE  TypeOK'
  <2>1. CASE Release(c, Console)
    BY <1>4, <2>1, ChannelAssumption, ReleaseTyping DEF ReceiveFin, TypeOK
  <2>2. CASE /\ state' = [state EXCEPT ![c] = "CLOSING"]
             /\ sentCb' = [sentCb EXCEPT ![c] = TRUE]
             /\ send(c, p[c], sndbuf[c], w)
             /\ UNCHANGED <<tableVars, fault>>
    <3>1. p' \in [Ss -> 0 .. MaxChunks] /\ sndbuf' \in [Ss -> 0 .. SndBuf]
      <4>1. p[c] \in 0 .. MaxChunks /\ sndbuf[c] \in 0 .. SndBuf
        BY DEF TypeOK
      <4> QED
        BY <2>2, <4>1, SendTyping
    <3> QED
      BY <1>4, <2>2, <3>1 DEF ReceiveFin, TypeOK
  <2> QED
    BY <1>4, <2>1, <2>2 DEF ReceiveFin
<1>5. ASSUME NEW c \in Ss, NEW w \in 0 .. MaxChunks, Poll(c, w)
      PROVE  TypeOK'
  <2>1. CASE Release(c, Console)
    BY <1>5, <2>1, ChannelAssumption, ReleaseTyping DEF Poll, TypeOK
  <2>2. CASE /\ sentCb' = [sentCb EXCEPT ![c] = TRUE]
             /\ send(c, p[c], sndbuf[c], w)
             /\ UNCHANGED <<state, tableVars, fault>>
    <3>1. p' \in [Ss -> 0 .. MaxChunks] /\ sndbuf' \in [Ss -> 0 .. SndBuf]
      <4>1. p[c] \in 0 .. MaxChunks /\ sndbuf[c] \in 0 .. SndBuf
        BY DEF TypeOK
      <4> QED
        BY <2>2, <4>1, SendTyping
    <3> QED
      BY <1>5, <2>2, <3>1 DEF Poll, TypeOK
  <2> QED
    BY <1>5, <2>1, <2>2 DEF Poll
<1>6. ASSUME NEW c \in Ss, NEW k \in 1 .. SndBuf, NEW w \in 0 .. MaxChunks,
             Ack(c, k, w)
      PROVE  TypeOK'
  <2>1. p[c] \in 0 .. MaxChunks /\ sndbuf[c] + k \in 0 .. SndBuf
    BY <1>6, ChannelAssumption DEF Ack, TypeOK
  <2>2. CASE Release(c, FALSE)
    BY <1>6, <2>2, ReleaseTyping DEF Ack, TypeOK
  <2>3. CASE /\ send(c, p[c], sndbuf[c] + k, w)
             /\ UNCHANGED <<state, sentCb, tableVars, fault>>
    <3>1. p' \in [Ss -> 0 .. MaxChunks] /\ sndbuf' \in [Ss -> 0 .. SndBuf]
      BY <2>1, <2>3, SendTyping
    <3> QED
      BY <1>6, <2>3, <3>1 DEF Ack, TypeOK
  <2>4. CASE /\ sndbuf' = [sndbuf EXCEPT ![c] = sndbuf[c] + k]
             /\ UNCHANGED <<state, p, sentCb, tableVars, fault>>
    <3>1. sndbuf' \in [Ss -> 0 .. SndBuf]
      BY <2>1, <2>4 DEF TypeOK
    <3> QED
      BY <1>6, <2>4, <3>1 DEF Ack, TypeOK
  <2> QED
    BY <1>6, <2>2, <2>3, <2>4 DEF Ack, sent
<1>7. ASSUME NEW c \in Ss, NEW n \in 0 .. MaxChunks, NEW k \in 0 .. MaxChunks,
             NEW w \in 0 .. MaxChunks, Tx(c, n, k, w)
      PROVE  TypeOK'
  BY <1>7, TxToTyping DEF Tx, TypeOK
<1>8. ASSUME NEW n \in 0 .. MaxChunks, TxAllBegin(n)
      PROVE  TypeOK'
  <2>1. txLoop' \in [active : BOOLEAN, i : 0 .. NumBroadcast, n : 0 .. MaxChunks]
    BY <1>8, ChannelAssumption DEF TxAllBegin
  <2> QED
    BY <1>8, <2>1 DEF TxAllBegin, TypeOK
<1>9. ASSUME NEW k \in 0 .. MaxChunks, NEW w \in 0 .. MaxChunks,
             TxAllStep(k, w)
      PROVE  TypeOK'
  <2> DEFINE c == connectionsBuffer[txLoop.i]
  <2>1. txLoop.i \in Slots /\ txLoop.n \in 0 .. MaxChunks
    BY <1>9, ChannelAssumption DEF TxAllStep, TypeOK, Slots
  <2>2. txLoop' \in [active : BOOLEAN, i : 0 .. NumBroadcast, n : 0 .. MaxChunks]
    <3>1. txLoop \in [active : BOOLEAN, i : 0 .. NumBroadcast, n : 0 .. MaxChunks]
      BY DEF TypeOK
    <3>2. txLoop.i + 1 \in 0 .. NumBroadcast
      BY <2>1, ChannelAssumption DEF Slots
    <3>3. txLoop' = [txLoop EXCEPT !.i = txLoop.i + 1]
      BY <1>9 DEF TxAllStep
    <3> QED
      BY <3>1, <3>2, <3>3
  <2>3. c \in Ss \cup {NULL}
    BY <2>1 DEF TypeOK
  <2>4. CASE c = NULL
    BY <1>9, <2>2, <2>4 DEF TxAllStep, TypeOK
  <2>5. CASE c # NULL
    <3>1. txTo(c, txLoop.n, k, w) /\ reached' = [reached EXCEPT ![c] = @ + 1]
      BY <1>9, <2>5 DEF TxAllStep
    <3>2. reached' \in [Ss -> Nat]
      BY <3>1, <2>3, <2>5 DEF TypeOK
    <3>3. /\ state' = state
          /\ sentCb' = sentCb
          /\ p' \in [Ss -> 0 .. MaxChunks]
          /\ sndbuf' \in [Ss -> 0 .. SndBuf]
          /\ fault' \in BOOLEAN
      <4> HIDE DEF c
      <4> QED
        BY <2>1, <2>3, <2>5, <3>1, TxToTyping
    <3> QED
      BY <1>9, <2>2, <3>2, <3>3 DEF TxAllStep, TypeOK
  <2> QED
    BY <2>4, <2>5
<1>10. CASE TxAllEnd
  <2>1. txLoop' \in [active : BOOLEAN, i : 0 .. NumBroadcast, n : 0 .. MaxChunks]
    BY <1>10, ChannelAssumption DEF TxAllEnd, NoLoop
  <2> QED
    BY <1>10, <2>1 DEF TxAllEnd, TypeOK
<1>11. CASE initialize \/ deinitialize
  BY <1>11 DEF initialize, deinitialize, TypeOK
<1>12. CASE Destroy
  <2> DEFINE gone == {connectionsBuffer[i] : i \in Walked}
  <2>1. /\ state' = [c \in Ss |-> IF c \in gone THEN "FREE" ELSE state[c]]
        /\ p' = [c \in Ss |-> IF c \in gone THEN 0 ELSE p[c]]
        /\ sndbuf' = [c \in Ss |-> IF c \in gone THEN 0 ELSE sndbuf[c]]
        /\ sentCb' = [c \in Ss |-> IF c \in gone THEN FALSE ELSE sentCb[c]]
    BY <1>12 DEF Destroy
  <2>2. fault' \in BOOLEAN
    BY <1>12 DEF Destroy
  <2>3. server' = "destroyed" /\ UNCHANGED <<tableVars, appVars, loopVars>>
    BY <1>12 DEF Destroy
  <2> HIDE DEF gone
  <2>4. state' \in [Ss -> {"FREE", "ACCEPTED", "CLOSING"}]
    BY <2>1 DEF TypeOK
  <2>5. p' \in [Ss -> 0 .. MaxChunks] /\ sndbuf' \in [Ss -> 0 .. SndBuf]
    BY <2>1, ChannelAssumption DEF TypeOK
  <2>6. sentCb' \in [Ss -> BOOLEAN]
    BY <2>1, Zenon DEF TypeOK
  <2> QED
    BY <2>2, <2>3, <2>4, <2>5, <2>6 DEF TypeOK
<1>13. CASE AcceptFails
  BY <1>13, ChannelAssumption DEF AcceptFails, TypeOK
<1>14. CASE UNCHANGED vars
  BY <1>14 DEF vars, TypeOK
<1> QED
  BY <1>1, <1>2, <1>3, <1>4, <1>5, <1>6, <1>7, <1>8, <1>9, <1>10, <1>11,
     <1>12, <1>13, <1>14 DEF Next

\* The initial states are well typed.
LEMMA InitTypeOK ==
  Init => TypeOK
<1> SUFFICES ASSUME Init
             PROVE  TypeOK
  OBVIOUS
<1>1. txLoop \in [active : BOOLEAN, i : 0 .. NumBroadcast, n : 0 .. MaxChunks]
  BY ChannelAssumption DEF Init, NoLoop
<1>2. connectionsBuffer \in [Slots -> Ss \cup {NULL}]
  BY DEF Init
<1>3. sentCb \in [Ss -> BOOLEAN] /\ callback \in BOOLEAN /\ fault \in BOOLEAN
  BY DEF Init
<1> QED
  BY <1>1, <1>2, <1>3, ChannelAssumption DEF Init, TypeOK

\* The channel's variables keep their types whatever the constants: the
\* counter stays within the table, no index leaves it, and a connection's
\* chain never grows beyond one message.
THEOREM SpecTypeOK == Spec => []TypeOK
<1>1. Init => TypeOK
  BY InitTypeOK
<1>2. TypeOK /\ [Next]_vars => TypeOK'
  BY TypeStep
<1> QED
  BY <1>1, <1>2, PTL DEF Spec

-----------------------------------------------------------------------------
(* The table.  TableInv is not inductive by itself: a delete restores it   *)
(* only when the last slot is free, which holds because lwIP cannot open   *)
(* as many connections as the table has slots.                             *)

\* The connections open are within lwIP's pool of pcbs.
PcbInv == Cardinality(Open) <= NumPcb

\* What the loop of a tx() without a target has done so far.
LoopInv ==
  IF txLoop.active
  THEN /\ server # "destroyed"
       /\ \A c \in Ss : reached[c] =
             IF \E j \in Slots : j < txLoop.i /\ connectionsBuffer[j] = c
             THEN 1 ELSE 0
       /\ txLoop.i <= connectionsCounter
  ELSE \A c \in Ss : reached[c] = 0

\* The inductive invariant of the channel.
IInv ==
  /\ TypeOK
  /\ PcbInv
  /\ TableInv
  /\ NoUseAfterFree
  /\ DestroyClosesAll
  /\ LoopInv

\* The open connections are a finite set, and the live table has a free slot.
LEMMA TableFacts ==
  ASSUME NumPcb < NumBroadcast, TypeOK, PcbInv, TableInv,
         server # "destroyed"
  PROVE  /\ IsFiniteSet(Open)
         /\ connectionsCounter = Cardinality(Open)
         /\ connectionsCounter \in Nat
         /\ connectionsCounter \in Slots
         /\ connectionsBuffer[connectionsCounter] = NULL
<1>1. IsFiniteSet(Open) /\ Cardinality(Open) \in Nat
  BY ChannelAssumption, FS_Subset, FS_CardinalityType DEF Open
<1>2. connectionsCounter = Cardinality(Open)
  BY DEF TableInv
<1>3. connectionsCounter \in Slots
  BY <1>1, <1>2, ChannelAssumption DEF PcbInv, Slots
<1> QED
  BY <1>1, <1>2, <1>3 DEF TableInv

\* Accepting a connection while a pcb was free keeps the table exact.
LEMMA AddKeepsTable ==
  ASSUME NumPcb < NumBroadcast, TypeOK, PcbInv, TableInv,
         server # "destroyed", NEW c \in Ss, state[c] = "FREE",
         Cardinality(Open) < NumPcb,
         state' = [state EXCEPT ![c] = "ACCEPTED"],
         addConnectionToBuffer(c), server' = server
  PROVE  TableInv' /\ PcbInv'
<1> DEFINE n == connectionsCounter
<1>1. /\ IsFiniteSet(Open) /\ n = Cardinality(Open) /\ n \in Nat
      /\ n \in Slots /\ connectionsBuffer[n] = NULL
  BY TableFacts
<1>2. Open' = Open \cup {c} /\ c \notin Open
  BY DEF Open, TypeOK
<1>3. Cardinality(Open') = n + 1 /\ PcbInv'
  <2>1. Cardinality(Open \cup {c}) = n + 1
    BY <1>1, <1>2, FS_AddElement
  <2> QED
    BY <1>1, <1>2, <2>1, ChannelAssumption DEF PcbInv
<1>4. \A i \in Slots : IsSlotFor(i, c) <=> i = n
  <2>1. \A j \in Slots : j < n => connectionsBuffer[j] \notin {c, NULL}
    BY <1>2, ChannelAssumption DEF TableInv, Open
  <2>2. IsSlotFor(n, c)
    BY <1>1, <2>1, ChannelAssumption DEF IsSlotFor, Slots
  <2>3. ASSUME NEW i \in Slots, IsSlotFor(i, c)
        PROVE  i = n
    <3>1. ~(i < n)
      BY <2>1, <2>3 DEF IsSlotFor
    <3>2. ~(n < i)
      <4>1. ASSUME n < i
            PROVE  FALSE
        <5>1. n \in 0 .. i - 1
          BY <1>1, <4>1 DEF Slots
        <5> QED
          BY <1>1, <2>3, <5>1 DEF IsSlotFor
      <4> QED
        BY <4>1
    <3> QED
      BY <1>1, <3>1, <3>2 DEF Slots
  <2> QED
    BY <2>2, <2>3
<1>5. /\ connectionsCounter' = n + 1
      /\ connectionsBuffer' = [i \in Slots |->
             IF i = n THEN c ELSE connectionsBuffer[i]]
  <2>1. n # NumBroadcast
    BY <1>1 DEF Slots
  <2> QED
    BY <1>4, <2>1 DEF addConnectionToBuffer
<1>6. \A i \in Slots : IF i < n + 1
                       THEN connectionsBuffer'[i] \in Open'
                       ELSE connectionsBuffer'[i] = NULL
  BY <1>1, <1>2, <1>5 DEF TableInv, Slots
<1>7. ASSUME NEW i \in 0 .. n, NEW j \in 0 .. n,
             connectionsBuffer'[i] = connectionsBuffer'[j]
      PROVE  i = j
  <2>1. i \in Slots /\ j \in Slots
    BY <1>1, ChannelAssumption DEF Slots
  <2>2. \A k \in Slots : k < n => connectionsBuffer[k] # c
    BY <1>2 DEF TableInv
  <2>3. CASE i < n /\ j < n
    BY <1>1, <1>5, <1>7, <2>1, <2>3 DEF TableInv
  <2> QED
    BY <1>1, <1>5, <1>7, <2>1, <2>2, <2>3
<1>8. ASSUME NEW d \in Open'
      PROVE  \E i \in 0 .. n : connectionsBuffer'[i] = d
  <2>1. CASE d = c
    BY <1>1, <1>5, <2>1
  <2>2. CASE d # c
    <3>1. PICK i \in 0 .. n - 1 : connectionsBuffer[i] = d
      BY <1>2, <1>8, <2>2 DEF TableInv, isConnectionInBuffer
    <3>2. i \in Slots /\ i # n /\ i \in 0 .. n
      BY <1>1, ChannelAssumption DEF Slots
    <3> QED
      BY <1>5, <3>1, <3>2
  <2> QED
    BY <2>1, <2>2
<1>9. (connectionsCounter - 1)' = n
  BY <1>1, <1>5
<1> QED
  BY <1>3, <1>5, <1>6, <1>7, <1>8, <1>9 DEF TableInv, isConnectionInBuffer

\* Freeing an open connection and deleting its entry keeps the table exact.
LEMMA DeleteKeepsTable ==
  ASSUME NumPcb < NumBroadcast, TypeOK, PcbInv, TableInv,
         server # "destroyed", NEW c \in Ss, state[c] # "FREE",
         state' = [state EXCEPT ![c] = "FREE"],
         deleteConnectionFromBuffer(c), server' = server
  PROVE  TableInv' /\ PcbInv'
<1> DEFINE n == connectionsCounter
           k == IndexOf(c)
<1> USE ChannelAssumption
<1>1. /\ IsFiniteSet(Open) /\ n = Cardinality(Open) /\ n \in Nat
      /\ n \in Slots /\ connectionsBuffer[n] = NULL
  BY TableFacts
<1>2. Open' = Open \ {c} /\ c \in Open
  BY DEF Open, TypeOK
<1>3. n > 0 /\ Cardinality(Open') = n - 1 /\ PcbInv'
  <2>1. Cardinality(Open \ {c}) = n - 1
    BY <1>1, <1>2, FS_RemoveElement
  <2>2. n # 0
    BY <1>1, <1>2, FS_EmptySet
  <2> QED
    BY <1>1, <1>2, <2>1, <2>2 DEF PcbInv
<1>4. k \in 0 .. n - 1 /\ connectionsBuffer[k] = c
  <2>1. PICK i \in 0 .. n - 1 : connectionsBuffer[i] = c
    BY <1>2 DEF TableInv, isConnectionInBuffer
  <2>2. i \in Slots
    BY <1>1, <2>1 DEF Slots
  <2>3. \A j \in 0 .. i - 1 : connectionsBuffer[j] # c
    BY <1>1, <2>1 DEF TableInv
  <2>4. k \in Slots /\ connectionsBuffer[k] = c
    BY <2>1, <2>2, <2>3 DEF IndexOf
  <2>5. k < n
    BY <1>2, <2>4 DEF TableInv, Open
  <2> QED
    BY <1>1, <2>4, <2>5 DEF Slots
<1>5. \A i \in Slots : IsShifted(i, c) <=> k <= i /\ i < n
  <2>1. \A j \in Slots : j < n => connectionsBuffer[j] # NULL
    BY DEF TableInv, Open
  <2>2. ASSUME NEW i \in Slots, IsShifted(i, c)
        PROVE  k <= i /\ i < n
    <3>1. k <= i
      BY <2>2 DEF IsShifted
    <3>2. ASSUME n <= i
          PROVE  FALSE
      <4>1. n \in k + 1 .. i
        BY <1>1, <1>4, <3>2 DEF Slots
      <4> QED
        BY <1>1, <2>2, <4>1 DEF IsShifted
    <3> QED
      BY <1>1, <3>1, <3>2 DEF Slots
  <2>3. ASSUME NEW i \in Slots, k <= i, i < n
        PROVE  IsShifted(i, c)
    <3>1. i < NumBroadcast - 1
      BY <1>1, <2>3 DEF Slots
    <3>2. \A j \in k + 1 .. i : j \in Slots /\ j < n
      BY <1>1, <1>4, <2>3 DEF Slots
    <3> QED
      BY <2>1, <2>3, <3>1, <3>2 DEF IsShifted
  <2> QED
    BY <2>2, <2>3
<1>6. /\ connectionsCounter' = n - 1
      /\ \A i \in Slots :
           connectionsBuffer'[i] =
             IF k <= i /\ i < n THEN connectionsBuffer[i + 1]
                                ELSE connectionsBuffer[i]
  <2>1. ~(k = NumBroadcast - 1)
    BY <1>1, <1>4 DEF Slots
  <2> QED
    BY <1>3, <1>5, <2>1 DEF deleteConnectionFromBuffer
<1> HIDE DEF k
<1>7. \A i \in Slots : i < n =>
        /\ connectionsBuffer[i] \in Open
        /\ connectionsBuffer[i] = c => i = k
  <2>1. \A i \in Slots : i < n => i \in 0 .. n - 1
    BY <1>1 DEF Slots
  <2> QED
    BY <1>4, <2>1 DEF TableInv
<1>8. ASSUME NEW i \in Slots
      PROVE  IF i < n - 1 THEN connectionsBuffer'[i] \in Open'
                          ELSE connectionsBuffer'[i] = NULL
  <2>1. CASE i < n - 1 /\ i < k
    <3>1. connectionsBuffer'[i] = connectionsBuffer[i] /\ i < n /\ i # k
      BY <1>1, <1>4, <1>6, <2>1 DEF Slots
    <3> QED
      BY <1>2, <1>7, <2>1, <3>1
  <2>2. CASE i < n - 1 /\ ~(i < k)
    <3>1. /\ connectionsBuffer'[i] = connectionsBuffer[i + 1]
          /\ i + 1 < n /\ i + 1 # k /\ i + 1 \in Slots
      BY <1>1, <1>4, <1>6, <2>2 DEF Slots
    <3> QED
      BY <1>2, <1>7, <2>2, <3>1
  <2>3. CASE i = n - 1
    <3>1. connectionsBuffer'[i] = connectionsBuffer[n]
      BY <1>1, <1>4, <1>6, <2>3 DEF Slots
    <3> QED
      BY <1>1, <2>3, <3>1
  <2>4. CASE i > n - 1 /\ i # n - 1
    <3>1. ~(i < n) /\ ~(i < n - 1)
      BY <1>1, <2>4 DEF Slots
    <3> QED
      BY <1>6, <3>1 DEF TableInv
  <2> QED
    BY <1>1, <2>1, <2>2, <2>3, <2>4 DEF Slots
<1>9. ASSUME NEW i \in 0 .. n - 2, NEW j \in 0 .. n - 2,
             connectionsBuffer'[i] = connectionsBuffer'[j]
      PROVE  i = j
  <2> DEFINE from(x) == IF k <= x THEN x + 1 ELSE x
  <2>1. /\ i \in Slots /\ j \in Slots
        /\ from(i) \in 0 .. n - 1 /\ from(j) \in 0 .. n - 1
    BY <1>1, <1>4 DEF Slots
  <2>2. /\ connectionsBuffer'[i] = connectionsBuffer[from(i)]
        /\ connectionsBuffer'[j] = connectionsBuffer[from(j)]
    BY <1>1, <1>4, <1>6, <2>1
  <2>3. from(i) = from(j)
    BY <1>9, <2>1, <2>2 DEF TableInv
  <2> QED
    BY <1>1, <1>4, <2>3
<1>10. ASSUME NEW d \in Open'
       PROVE  \E i \in 0 .. n - 2 : connectionsBuffer'[i] = d
  <2>1. PICK j \in 0 .. n - 1 : connectionsBuffer[j] = d
    BY <1>2 DEF TableInv, isConnectionInBuffer
  <2>2. j # k
    BY <1>2, <1>4, <2>1
  <2>3. CASE j < k
    <3>1. j \in Slots /\ j \in 0 .. n - 2 /\ ~(k <= j)
      BY <1>1, <1>4, <2>1, <2>3 DEF Slots
    <3> QED
      BY <1>6, <2>1, <3>1
  <2>4. CASE k < j
    <3>1. /\ j - 1 \in Slots /\ j - 1 \in 0 .. n - 2
          /\ k <= j - 1 /\ j - 1 < n /\ (j - 1) + 1 = j
      BY <1>1, <1>4, <2>1, <2>4 DEF Slots
    <3>2. connectionsBuffer'[j - 1] = d
      BY <1>6, <2>1, <3>1
    <3> QED
      BY <3>1, <3>2
  <2> QED
    BY <1>1, <1>4, <2>1, <2>2, <2>3, <2>4
<1>11. (connectionsCounter - 1)' = n - 2
  BY <1>1, <1>6
<1>12. Cardinality(Open') = connectionsCounter'
  BY <1>3, <1>6
<1>13. \A i \in Slots : IF i < connectionsCounter'
                        THEN connectionsBuffer'[i] \in Open'
                        ELSE connectionsBuffer'[i] = NULL
  BY <1>6, <1>8
<1> QED
  BY <1>3, <1>9, <1>10, <1>11, <1>12, <1>13 DEF TableInv, isConnectionInBuffer

\* What is open, the table and the channel's life decide these three.
LEMMA SameTable ==
  ASSUME IInv, UNCHANGED tableVars, server' = server, Open' = Open
  PROVE  PcbInv' /\ TableInv' /\ DestroyClosesAll'
<1>1. PcbInv' /\ DestroyClosesAll'
  BY DEF IInv, PcbInv, DestroyClosesAll
<1>2. TableInv'
  BY DEF IInv, TableInv, tableVars, isConnectionInBuffer
<1> QED
  BY <1>1, <1>2

\* Outside a tx() without a target the loop's history stays empty.
LEMMA SameLoop ==
  ASSUME IInv, ~txLoop.active, UNCHANGED loopVars
  PROVE  LoopInv'
BY DEF IInv, LoopInv, loopVars

\* A callback that ends in close() or error() releases one open connection,
\* and the channel it belongs to is alive.
LEMMA ReleaseStep ==
  ASSUME NumPcb < NumBroadcast, IInv, NEW c \in Ss, state[c] # "FREE",
         NEW printed \in BOOLEAN, printed => Console, Release(c, printed),
         server' = server
  PROVE  PcbInv' /\ TableInv' /\ NoUseAfterFree' /\ DestroyClosesAll'
<1>1. server # "destroyed"
  BY DEF IInv, DestroyClosesAll, Open
<1>2. /\ fault' = printed
      /\ deleteConnectionFromBuffer(c)
      /\ state' = [state EXCEPT ![c] = "FREE"]
  BY <1>1 DEF Release, Free
<1>3. TableInv' /\ PcbInv'
  BY <1>1, <1>2, DeleteKeepsTable DEF IInv
<1> QED
  BY <1>1, <1>2, <1>3 DEF NoUseAfterFree, DestroyClosesAll

\* tx() to an address that is NULL or in the table never follows a pointer
\* to freed memory, and opens and closes nothing.
LEMMA TxToStep ==
  ASSUME IInv, server # "destroyed", NEW c \in Ss,
         NEW n, NEW k, NEW w, txTo(c, n, k, w)
  PROVE  ~fault' /\ state' = state
<1>1. isConnectionInBuffer(c) => state[c] # "FREE"
  <2>1. ASSUME NEW i \in 0 .. connectionsCounter - 1
        PROVE  connectionsBuffer[i] \in Open
    <3>1. i \in Slots /\ i < connectionsCounter
      BY <2>1, ChannelAssumption DEF IInv, TypeOK, Slots
    <3> QED
      BY <3>1 DEF IInv, TableInv
  <2> QED
    BY <2>1 DEF isConnectionInBuffer, Open
<1>2. fault' = FALSE
  BY <1>1 DEF txTo
<1>3. state' = state
  BY DEF txTo, connVars
<1> QED
  BY <1>2, <1>3

\* Every step keeps the table exact and uses no freed memory.
LEMMA InvStep ==
  ASSUME NumPcb < NumBroadcast, IInv, [Next]_vars
  PROVE  IInv'
<1> USE DEF connVars, tableVars, appVars, NoUseAfterFree
<1>0. TypeOK'
  BY TypeStep DEF IInv
<1>1. ASSUME NEW c \in Ss, Accept(c)
      PROVE  IInv'
  <2>1. server # "destroyed" /\ server' = server /\ ~fault'
    BY <1>1 DEF Accept, LwipRuns, IInv
  <2>2. TableInv' /\ PcbInv'
    BY <1>1, <2>1, AddKeepsTable DEF Accept, LwipRuns, IInv
  <2>3. LoopInv'
    BY <1>1, SameLoop DEF Accept, LwipRuns
  <2> QED
    BY <1>0, <2>1, <2>2, <2>3 DEF IInv, DestroyClosesAll
<1>2. ASSUME NEW c \in Ss, ReceiveData(c)
      PROVE  IInv'
  <2>1. Open' = Open
    BY <1>2 DEF ReceiveData, Open
  <2>2. LoopInv'
    BY <1>2, SameLoop DEF ReceiveData, LwipRuns
  <2> QED
    BY <1>0, <1>2, <2>1, <2>2, SameTable DEF IInv, ReceiveData
<1>3. ASSUME NEW c \in Ss, Error(c)
      PROVE  IInv'
  <2>1. LoopInv'
    BY <1>3, SameLoop DEF Error, LwipRuns
  <2>2. PcbInv' /\ TableInv' /\ NoUseAfterFree' /\ DestroyClosesAll'
    BY <1>3, ReleaseStep DEF Error
  <2> QED
    BY <1>0, <2>1, <2>2 DEF IInv
<1>4. ASSUME NEW c \in Ss, NEW w \in 0 .. MaxChunks, ReceiveFin(c, w)
      PROVE  IInv'
  <2>1. LoopInv' /\ server' = server /\ state[c] # "FREE"
    BY <1>4, SameLoop DEF ReceiveFin, LwipRuns
  <2>2. CASE Release(c, Console)
    BY <1>0, <2>1, <2>2, ChannelAssumption, ReleaseStep DEF IInv
  <2>3. CASE /\ state' = [state EXCEPT ![c] = "CLOSING"]
             /\ UNCHANGED <<tableVars, fault>>
    <3>1. Open' = Open
      BY <2>1, <2>3 DEF Open, IInv, TypeOK
    <3> QED
      BY <1>0, <2>1, <2>3, <3>1, SameTable DEF IInv
  <2> QED
    BY <1>4, <2>2, <2>3 DEF ReceiveFin
<1>5. ASSUME NEW c \in Ss, NEW w \in 0 .. MaxChunks, Poll(c, w)
      PROVE  IInv'
  <2>1. LoopInv' /\ server' = server
    BY <1>5, SameLoop DEF Poll, LwipRuns
  <2>2. CASE Release(c, Console) /\ state[c] = "CLOSING"
    BY <1>0, <2>1, <2>2, ChannelAssumption, ReleaseStep DEF IInv
  <2>3. CASE UNCHANGED <<state, tableVars, fault>>
    <3>1. Open' = Open
      BY <2>3 DEF Open
    <3> QED
      BY <1>0, <2>1, <2>3, <3>1, SameTable DEF IInv
  <2> QED
    BY <1>5, <2>2, <2>3 DEF Poll
<1>6. ASSUME NEW c \in Ss, NEW k \in 1 .. SndBuf, NEW w \in 0 .. MaxChunks,
             Ack(c, k, w)
      PROVE  IInv'
  <2>1. LoopInv' /\ server' = server
    BY <1>6, SameLoop DEF Ack, LwipRuns
  <2>2. CASE Release(c, FALSE) /\ state[c] = "CLOSING"
    BY <1>0, <2>1, <2>2, ReleaseStep DEF IInv
  <2>3. CASE UNCHANGED <<state, tableVars, fault>>
    <3>1. Open' = Open
      BY <2>3 DEF Open
    <3> QED
      BY <1>0, <2>1, <2>3, <3>1, SameTable DEF IInv
  <2> QED
    BY <1>6, <2>2, <2>3 DEF Ack, sent
<1>7. ASSUME NEW c \in Ss, NEW n \in 0 .. MaxChunks, NEW k \in 0 .. MaxChunks,
             NEW w \in 0 .. MaxChunks, Tx(c, n, k, w)
      PROVE  IInv'
  <2>1. LoopInv' /\ server' = server /\ UNCHANGED tableVars
    BY <1>7, SameLoop DEF Tx, AppRuns, LwipRuns
  <2>2. ~fault' /\ state' = state
    BY <1>7, TxToStep DEF Tx, AppRuns
  <2>3. Open' = Open
    BY <2>2 DEF Open
  <2> QED
    BY <1>0, <2>1, <2>2, <2>3, SameTable DEF IInv
<1>8. ASSUME NEW n \in 0 .. MaxChunks, TxAllBegin(n)
      PROVE  IInv'
  <2>1. Open' = Open
    BY <1>8 DEF TxAllBegin, Open
  <2>2. LoopInv'
    <3>1. /\ txLoop'.active /\ txLoop'.i = 0 /\ server' # "destroyed"
          /\ UNCHANGED <<reached, tableVars>>
      BY <1>8 DEF TxAllBegin, AppRuns
    <3>2. \A c \in Ss : reached[c] = 0
      BY <1>8 DEF TxAllBegin, AppRuns, LwipRuns, IInv, LoopInv
    <3>3. \A j \in Slots : ~(j < 0)
      BY DEF Slots
    <3>4. 0 <= connectionsCounter
      BY DEF IInv, TypeOK
    <3> QED
      BY <3>1, <3>2, <3>3, <3>4 DEF LoopInv
  <2> QED
    BY <1>0, <1>8, <2>1, <2>2, SameTable DEF IInv, TxAllBegin
<1>9. ASSUME NEW k \in 0 .. MaxChunks, NEW w \in 0 .. MaxChunks,
             TxAllStep(k, w)
      PROVE  IInv'
  <2> DEFINE at == txLoop.i
             c  == connectionsBuffer[at]
  <2>1. /\ server # "destroyed" /\ at \in Slots /\ at < connectionsCounter
        /\ at \in Nat /\ connectionsCounter \in Nat
    BY <1>9, ChannelAssumption DEF TxAllStep, IInv, LoopInv, TypeOK, Slots
  <2>2. c \in Ss /\ c # NULL
    BY <2>1, ChannelAssumption DEF IInv, TableInv, Open
  <2>3. /\ txTo(c, txLoop.n, k, w)
        /\ reached' = [reached EXCEPT ![c] = @ + 1]
        /\ txLoop' = [txLoop EXCEPT !.i = @ + 1]
        /\ UNCHANGED <<tableVars, server>>
    BY <1>9, <2>2 DEF TxAllStep
  <2>4. ~fault' /\ state' = state
    BY <2>1, <2>2, <2>3, TxToStep
  <2>5. Open' = Open
    BY <2>4 DEF Open
  <2>6. LoopInv'
    <3>1. txLoop'.active /\ txLoop'.i = at + 1
      BY <1>9, <2>3 DEF TxAllStep, IInv, TypeOK
    <3>2. \A j \in Slots : j < at + 1 <=> j < at \/ j = at
      BY <2>1 DEF Slots
    <3>3. \A j \in Slots : j < at => connectionsBuffer[j] # c
      <4>1. \A j \in Slots : j < connectionsCounter
                               => j \in 0 .. connectionsCounter - 1
        BY <2>1 DEF Slots
      <4> QED
        BY <2>1, <4>1 DEF IInv, TableInv, Slots
    <3>4. ASSUME NEW d \in Ss
          PROVE  reached'[d] =
                   IF \E j \in Slots : j < at + 1 /\ connectionsBuffer[j] = d
                   THEN 1 ELSE 0
      <4>1. reached[d] = IF \E j \in Slots : j < at /\ connectionsBuffer[j] = d
                         THEN 1 ELSE 0
        BY <1>9 DEF TxAllStep, IInv, LoopInv
      <4>2. CASE d = c
        <5>1. reached[d] = 0
          BY <3>3, <4>1, <4>2
        <5>2. reached'[d] = 1
          BY <2>2, <2>3, <4>2, <5>1 DEF IInv, TypeOK
        <5> QED
          BY <2>1, <3>2, <4>2, <5>2
      <4>3. CASE d # c
        <5>1. reached'[d] = reached[d]
          BY <2>3, <4>3 DEF IInv, TypeOK
        <5>2. \A j \in Slots :
                 j < at + 1 /\ connectionsBuffer[j] = d
                   <=> j < at /\ connectionsBuffer[j] = d
          BY <3>2, <4>3
        <5> QED
          BY <4>1, <5>1, <5>2
      <4> QED
        BY <4>2, <4>3
    <3>5. at + 1 <= connectionsCounter
      BY <2>1
    <3> QED
      BY <2>1, <2>3, <3>1, <3>4, <3>5 DEF LoopInv
  <2> QED
    BY <1>0, <2>3, <2>4, <2>5, <2>6, SameTable DEF IInv
<1>10. CASE TxAllEnd
  <2>1. Open' = Open
    BY <1>10 DEF TxAllEnd, Open
  <2>2. LoopInv'
    BY <1>10 DEF TxAllEnd, NoLoop, LoopInv
  <2> QED
    BY <1>0, <1>10, <2>1, <2>2, SameTable DEF IInv, TxAllEnd
<1>11. CASE initialize \/ deinitialize
  <2>1. Open' = Open
    BY <1>11 DEF initialize, deinitialize, Open
  <2>2. LoopInv'
    BY <1>11, SameLoop DEF initialize, deinitialize, AppRuns, LwipRuns
  <2> QED
    BY <1>0, <1>11, <2>1, <2>2, SameTable DEF IInv, initialize, deinitialize
<1>12. CASE Destroy
  <2> DEFINE gone == {connectionsBuffer[i] : i \in Walked}
  <2>1. server # "destroyed" /\ connectionsCounter \in Nat
    BY <1>12 DEF Destroy, AppRuns, IInv, TypeOK
  <2>2. Walked = 0 .. connectionsCounter - 1 /\ Walked \subseteq Slots
    <3>1. \A i \in 0 .. connectionsCounter - 1 : i \in Slots /\ i < connectionsCounter
      BY <2>1, ChannelAssumption DEF IInv, TypeOK, Slots
    <3>2. \A i \in 0 .. connectionsCounter - 1 : connectionsBuffer[i] # NULL
      BY <2>1, <3>1, ChannelAssumption DEF IInv, TableInv, Open
    <3> QED
      BY <3>1, <3>2 DEF Walked
  <2>3. gone = Open
    <3>1. \A i \in Walked : connectionsBuffer[i] \in Open
      BY <2>1, <2>2 DEF IInv, TableInv
    <3>2. \A d \in Open : \E i \in Walked : connectionsBuffer[i] = d
      BY <2>1, <2>2 DEF IInv, TableInv, isConnectionInBuffer
    <3> QED
      BY <3>1, <3>2
  <2>4. /\ state' = [d \in Ss |-> IF d \in gone THEN "FREE" ELSE state[d]]
        /\ fault' = \/ \E d \in gone : state[d] = "FREE"
                    \/ \E i, j \in Walked :
                         i # j /\ connectionsBuffer[i] = connectionsBuffer[j]
        /\ server' = "destroyed"
        /\ UNCHANGED <<tableVars, loopVars>>
    BY <1>12 DEF Destroy
  <2> HIDE DEF gone
  <2>5. ~fault'
    <3>1. ~ \E d \in gone : state[d] = "FREE"
      BY <2>3 DEF Open
    <3>2. \A i, j \in Walked :
             connectionsBuffer[i] = connectionsBuffer[j] => i = j
      BY <2>1, <2>2 DEF IInv, TableInv
    <3> QED
      BY <2>4, <3>1, <3>2
  <2>6. Open' = {}
    BY <2>3, <2>4 DEF Open
  <2>7. PcbInv'
    BY <2>6, FS_EmptySet, ChannelAssumption DEF PcbInv
  <2>8. LoopInv'
    BY <1>12, <2>4, SameLoop DEF Destroy, AppRuns, LwipRuns
  <2> QED
    BY <1>0, <2>4, <2>5, <2>6, <2>7, <2>8
       DEF IInv, TableInv, DestroyClosesAll
<1>13. CASE AcceptFails
  <2>1. Open' = Open
    BY <1>13 DEF AcceptFails, Open
  <2>2. LoopInv'
    BY <1>13, SameLoop DEF AcceptFails, LwipRuns
  <2>3. NoUseAfterFree'
    BY <1>13 DEF AcceptFails
  <2> QED
    BY <1>0, <1>13, <2>1, <2>2, <2>3, SameTable DEF IInv, AcceptFails
<1>14. CASE UNCHANGED vars
  <2>1. UNCHANGED <<state, tableVars, loopVars, server, fault>>
    BY <1>14 DEF vars, loopVars
  <2>2. Open' = Open
    BY <2>1 DEF Open
  <2>3. LoopInv'
    BY <2>1 DEF IInv, LoopInv, loopVars
  <2> QED
    BY <1>0, <2>1, <2>2, <2>3, SameTable DEF IInv
<1> QED
  BY <1>1, <1>2, <1>3, <1>4, <1>5, <1>6, <1>7, <1>8, <1>9, <1>10, <1>11,
     <1>12, <1>13, <1>14 DEF Next

\* Initially nothing is open and the table is empty.
LEMMA InvInit ==
  Init => IInv
<1> SUFFICES ASSUME Init
             PROVE  IInv
  OBVIOUS
<1>1. TypeOK
  BY InitTypeOK
<1>2. Open = {} /\ server # "destroyed"
  BY DEF Init, Open
<1>3. PcbInv /\ Cardinality(Open) = 0
  BY <1>2, FS_EmptySet, ChannelAssumption DEF PcbInv
<1>4. TableInv
  BY <1>2, <1>3 DEF Init, TableInv, Slots
<1>5. LoopInv
  BY DEF Init, LoopInv, NoLoop
<1> QED
  BY <1>1, <1>2, <1>3, <1>4, <1>5 DEF IInv, NoUseAfterFree, DestroyClosesAll, Init

\* With fewer pcbs than table slots, accepts, closes and errors in any order
\* keep the table exactly the open connections, the destructor leaves none
\* open, and in a build without the console's messages no call uses a
\* connection after free_s.
THEOREM SpecTable ==
  ASSUME NumPcb < NumBroadcast
  PROVE  Spec => [](TableInv /\ NoUseAfterFree /\ DestroyClosesAll)
<1>1. Init => IInv
  BY InvInit
<1>2. IInv /\ [Next]_vars => IInv'
  BY InvStep
<1>3. IInv => TableInv /\ NoUseAfterFree /\ DestroyClosesAll
  BY DEF IInv
<1> QED
  BY <1>1, <1>2, <1>3, PTL DEF Spec

\* So in a build without the console's messages no callback and no tx() uses a
\* connection that free_s has given back.  (With the messages, close() in
\* receive() and poll() is followed by such a use, which the model has.)
THEOREM SpecNoUseAfterFree ==
  ASSUME NumPcb < NumBroadcast
  PROVE  Spec => []NoUseAfterFree
BY SpecTable, PTL

\* Under the same condition a tx() without a target, when it returns, has
\* handed its message to every open connection once and to nothing else.
THEOREM SpecBroadcast ==
  ASSUME NumPcb < NumBroadcast
  PROVE  Spec => BroadcastReachesAllOnce
<1>1. Init => IInv
  BY InvInit
<1>2. IInv /\ [Next]_vars => IInv'
  BY InvStep
<1>3. IInv => [TxAllEnd => \A c \in Ss : reached[c] =
                              (IF c \in Open THEN 1 ELSE 0)]_vars
  <2> SUFFICES ASSUME IInv, TxAllEnd, NEW c \in Ss
               PROVE  reached[c] = IF c \in Open THEN 1 ELSE 0
    OBVIOUS
  <2>1. /\ server # "destroyed" /\ txLoop.i = connectionsCounter
        /\ reached[c] = IF \E j \in Slots : /\ j < connectionsCounter
                                            /\ connectionsBuffer[j] = c
                        THEN 1 ELSE 0
    BY DEF TxAllEnd, IInv, LoopInv, TypeOK
  <2>2. c \in Open => \E j \in Slots : /\ j < connectionsCounter
                                       /\ connectionsBuffer[j] = c
    <3> SUFFICES ASSUME c \in Open
                 PROVE  \E j \in Slots : /\ j < connectionsCounter
                                         /\ connectionsBuffer[j] = c
      OBVIOUS
    <3>1. PICK j \in 0 .. connectionsCounter - 1 : connectionsBuffer[j] = c
      BY <2>1 DEF IInv, TableInv, isConnectionInBuffer
    <3>2. j \in Slots /\ j < connectionsCounter
      BY <3>1, ChannelAssumption DEF Slots, IInv, TypeOK
    <3> QED
      BY <3>1, <3>2
  <2>3. (\E j \in Slots : /\ j < connectionsCounter
                          /\ connectionsBuffer[j] = c) => c \in Open
    BY <2>1 DEF IInv, TableInv
  <2> QED
    BY <2>1, <2>2, <2>3
<1> QED
  BY <1>1, <1>2, <1>3, PTL DEF Spec, BroadcastReachesAllOnce

=============================================================================
