------------------------- MODULE EthernetQueueProofs -------------------------
(***************************************************************************)
(* Theorems about EthernetQueue when the producer is the interrupt, for    *)
(* queues of every size, and their proofs.                                 *)
(***************************************************************************)
EXTENDS EthernetQueue, SequenceTheorems, TLAPS

\* pull() is copying the slot at br.
Copying == pulling \in {"counted", "size", "head", "tail"}

\* What is in the ring.  The producer's slot is outside the live range, so a
\* push in progress disturbs neither the frames in it nor the pull that is
\* copying the first of them.
RingInv ==
  /\ bw = Size => pushing = "advanced"
  /\ br = Size => pulling = "advanced"
  /\ room + Live <= Size - 1
  /\ pushing \in {"head", "tail", "size"} => room > 0 /\ frame \in Frames
  /\ \A i \in 0 .. Live - 1 :
        \E m \in Frames : Slot(Wrap(Wrap(br) + i)) = <<m, m, m>>
  /\ pushing \in {"head", "tail", "size"} => head[bw] = frame
  /\ pushing \in {"tail", "size"} => tail[bw] = frame
  /\ pushing = "size" => frameSizes[bw] = frame
  /\ Copying => Live > 0
  /\ pulling \in {"size", "head", "tail"} => buf[3] = frameSizes[br]
  /\ pulling \in {"head", "tail"} => buf[1] = head[br]
  /\ pulling = "tail" => buf[2] = tail[br]
  /\ sure <= Live
  /\ ~isInitialized => room = 0 /\ pushing = "idle" /\ Live = 0

\* The inductive invariant of the queue.
IInv == TypeOK /\ RingInv

\* What a slot may hold.
Triples == (Frames \cup {NULL}) \X (Frames \cup {NULL}) \X (Frames \cup {NULL})

-----------------------------------------------------------------------------

\* A function on 1 .. n is a sequence of length n.
LEMMA FunctionIsSeq ==
  ASSUME NEW S, NEW n \in Nat, NEW f \in [1 .. n -> S]
  PROVE  f \in Seq(S) /\ Len(f) = n
<1>1. f \in Seq(S)
  BY SeqDef
<1>2. DOMAIN f = 1 .. Len(f) /\ Len(f) \in Nat
  BY <1>1, LenProperties
<1> QED
  BY <1>1, <1>2

\* Live counts frames, and both indices stay in the ring once wrapped.
LEMMA LiveType ==
  ASSUME TypeOK
  PROVE  /\ Live \in 0 .. Size - 1
         /\ Wrap(bw) \in Index
         /\ Wrap(br) \in Index
         /\ \A i \in 0 .. Live - 1 : Wrap(Wrap(br) + i) \in Index
BY QueueAssumption DEF TypeOK, Live, Wrap, Index

\* Outside a pull the consumer counts the live frames, if no push is between
\* its increment and its wrap; the producer always does.
LEMMA CountIsLive ==
  ASSUME TypeOK, RingInv, pushing = "idle"
  PROVE  Count = Live
BY QueueAssumption DEF TypeOK, RingInv, Live, Wrap, Count

\* The slot a push writes is not in the live range.
LEMMA PushedSlotApart ==
  ASSUME TypeOK, RingInv, pushing \in {"head", "tail", "size"} \/ room > 0,
         pushing # "advanced"
  PROVE  /\ bw \in Index
         /\ \A i \in 0 .. Live - 1 : Wrap(Wrap(br) + i) # bw
BY QueueAssumption DEF TypeOK, RingInv, Live, Wrap, Index

\* The slot a pull copies is the first of the live range.
LEMMA CopiedSlotLive ==
  ASSUME TypeOK, RingInv, Copying
  PROVE  br \in Index /\ 0 \in 0 .. Live - 1 /\ Wrap(Wrap(br) + 0) = br
BY QueueAssumption, LiveType DEF TypeOK, RingInv, Wrap, Index, Copying

\* Content is a sequence of as many triples as frames are live.
ContentTyped ==
  /\ Content \in Seq(Triples)
  /\ Len(Content) = Live
  /\ \A i \in 1 .. Live : Content[i] = Slot(Wrap(Wrap(br) + i - 1))

\* Content is a sequence of slots.
LEMMA ContentType ==
  ASSUME TypeOK
  PROVE  ContentTyped
<1>1. Live \in Nat
  BY LiveType
<1>2. ASSUME NEW i \in 1 .. Live
      PROVE  Slot(Wrap(Wrap(br) + i - 1)) \in Triples
  <2>1. i - 1 \in 0 .. Live - 1 /\ Wrap(br) + i - 1 = Wrap(br) + (i - 1)
    BY <1>1, <1>2, LiveType, QueueAssumption DEF Index
  <2>2. Wrap(Wrap(br) + i - 1) \in Index
    BY <2>1, LiveType
  <2> QED
    BY <2>2 DEF TypeOK, Slot, Triples
<1>3. Content \in [1 .. Live -> Triples]
  BY <1>2 DEF Content
<1> QED
  BY <1>1, <1>3, FunctionIsSeq DEF Content, ContentTyped

\* The same of the next state.
LEMMA ContentTypeNext ==
  TypeOK' => ContentTyped'
<1>1. TypeOK => ContentTyped
  BY ContentType
<1> QED
  BY <1>1, PTL

\* Steps that move neither index change neither Live nor where it starts.
LEMMA SameIndices ==
  ASSUME UNCHANGED <<bw, br>>
  PROVE  Live' = Live /\ Count' = Count /\ Wrap(bw)' = Wrap(bw)
         /\ Wrap(br)' = Wrap(br)
         /\ \A i : Wrap(Wrap(br) + i)' = Wrap(Wrap(br) + i)
BY DEF Live, Count, Wrap

\* Every step keeps the variables well typed.
LEMMA TypeStep ==
  ASSUME Preempting = "producer", IInv, [Next]_vars
  PROVE  TypeOK'
<1> USE QueueAssumption DEF IInv, TypeOK, memVars, prodVars, consVars
<1>1. CASE GetFree
  <2>1. pushing = "idle"
    BY <1>1 DEF GetFree
  <2>2. getFree \in 0 .. Size - 1
    BY <2>1, CountIsLive, LiveType DEF getFree
  <2> QED
    BY <1>1, <2>2 DEF GetFree
<1>2. ASSUME NEW m \in Frames, PushHead(m)
      PROVE  TypeOK'
  <2>1. head' \in [Index -> Frames \cup {NULL}]
    BY <1>2 DEF PushHead
  <2> QED
    BY <1>2, <2>1 DEF PushHead
<1>3. CASE PushTail
  <2>1. tail' \in [Index -> Frames \cup {NULL}]
    BY <1>3 DEF PushTail
  <2> QED
    BY <1>3, <2>1 DEF PushTail
<1>4. CASE PushSize
  <2>1. frameSizes' \in [Index -> Frames \cup {NULL}]
    BY <1>4 DEF PushSize
  <2> QED
    BY <1>4, <2>1 DEF PushSize
<1>5. CASE PushAdvance
  <2>1. room > 0 /\ bw < Size
    BY <1>5 DEF PushAdvance, RingInv
  <2> QED
    BY <1>5, <2>1 DEF PushAdvance
<1>6. CASE PushWrap
  BY <1>6 DEF PushWrap
<1>7. ASSUME NEW t \in 0 .. Size, setTreshold(t)
      PROVE  TypeOK'
  BY <1>7 DEF setTreshold
<1>8. CASE IsAboveTreshold
  BY <1>8 DEF IsAboveTreshold
<1>9. CASE PullNothing
  BY <1>9 DEF PullNothing, None
<1>10. CASE PullCount
  BY <1>10 DEF PullCount
<1>11. CASE PullSize \/ PullHead \/ PullTail
  <2>1. Copying
    BY <1>11 DEF PullSize, PullHead, PullTail, Copying
  <2>2. br \in Index
    BY <2>1, CopiedSlotLive
  <2> QED
    BY <1>11, <2>2 DEF PullSize, PullHead, PullTail
<1>12. CASE PullAdvance
  <2>1. br \in Index
    BY <1>12, CopiedSlotLive DEF PullAdvance, Copying
  <2> QED
    BY <1>12, <2>1 DEF PullAdvance, Index
<1>13. CASE PullWrap
  BY <1>13 DEF PullWrap
<1>14. CASE UNCHANGED vars
  BY <1>14 DEF vars
<1> QED
  BY <1>1, <1>2, <1>3, <1>4, <1>5, <1>6, <1>7, <1>8, <1>9, <1>10, <1>11,
     <1>12, <1>13, <1>14 DEF Next, Push, Pull

\* Every live slot holds a whole frame.
LiveWhole ==
  \A i \in 0 .. Live - 1 :
     \E m \in Frames : Slot(Wrap(Wrap(br) + i)) = <<m, m, m>>

\* Writing one part of the pushed slot disturbs no live slot, and not the
\* slot a pull is copying.
LEMMA WriteApart ==
  ASSUME IInv, UNCHANGED <<bw, br>>,
         pushing \in {"head", "tail", "size"} \/ room > 0,
         pushing # "advanced",
         NEW v,
         \/ head' = [head EXCEPT ![bw] = v] /\ UNCHANGED <<tail, frameSizes>>
         \/ tail' = [tail EXCEPT ![bw] = v] /\ UNCHANGED <<head, frameSizes>>
         \/ frameSizes' = [frameSizes EXCEPT ![bw] = v] /\ UNCHANGED <<head, tail>>
  PROVE  /\ LiveWhole'
         /\ Copying => /\ head'[br] = head[br]
                       /\ tail'[br] = tail[br]
                       /\ frameSizes'[br] = frameSizes[br]
<1>1. \A i \in 0 .. Live - 1 : /\ Wrap(Wrap(br) + i) \in Index
                               /\ Wrap(Wrap(br) + i) # bw
  BY LiveType, PushedSlotApart DEF IInv
<1>2. \A j \in Index : j # bw => /\ head'[j] = head[j]
                                 /\ tail'[j] = tail[j]
                                 /\ frameSizes'[j] = frameSizes[j]
  BY DEF IInv, TypeOK
<1>3. LiveWhole'
  <2> SUFFICES ASSUME NEW i \in (0 .. Live - 1)'
               PROVE  (\E m \in Frames : Slot(Wrap(Wrap(br) + i)) = <<m, m, m>>)'
    BY DEF LiveWhole
  <2>1. i \in 0 .. Live - 1
    BY SameIndices
  <2>2. Wrap(Wrap(br) + i)' = Wrap(Wrap(br) + i)
    BY SameIndices
  <2>3. PICK m \in Frames : Slot(Wrap(Wrap(br) + i)) = <<m, m, m>>
    BY <2>1 DEF IInv, RingInv
  <2>4. Slot(Wrap(Wrap(br) + i))' = <<m, m, m>>
    BY <1>1, <1>2, <2>1, <2>2, <2>3 DEF Slot
  <2> QED
    BY <2>4
<1>4. Copying => br \in Index /\ br # bw
  BY <1>1, CopiedSlotLive DEF IInv
<1> QED
  BY <1>2, <1>3, <1>4

\* Moving a push or a pull past its wrap test moves neither end of the ring.
LEMMA WrapKeeps ==
  ASSUME IInv, \/ bw' = (IF bw = Size THEN 0 ELSE bw) /\ br' = br
               \/ br' = (IF br = Size THEN 0 ELSE br) /\ bw' = bw
  PROVE  Wrap(bw') = Wrap(bw) /\ Wrap(br') = Wrap(br)
BY QueueAssumption DEF IInv, TypeOK, Wrap

\* Every step keeps what is in the ring.
LEMMA RingStep ==
  ASSUME Preempting = "producer", IInv, [Next]_vars
  PROVE  RingInv'
<1> USE DEF memVars, prodVars, consVars
<1>0. TypeOK' /\ TypeOK /\ RingInv /\ LiveWhole
  BY TypeStep DEF IInv, RingInv, LiveWhole
<1>1. CASE GetFree
  <2>1. Live' = Live /\ LiveWhole'
    BY <1>0, <1>1 DEF GetFree, Live, Wrap, LiveWhole, Slot
  <2>2. room' + Live <= Size - 1
    <3>1. isInitialized => room' = Size - 1 - Live
      BY <1>0, <1>1, CountIsLive DEF GetFree, getFree
    <3>2. ~isInitialized => room' = 0
      BY <1>1 DEF GetFree, getFree
    <3> QED
      BY <1>0, <3>1, <3>2, LiveType, QueueAssumption
  <2>3. ~isInitialized => room' = 0
    BY <1>1 DEF GetFree, getFree
  <2> QED
    BY <1>0, <1>1, <2>1, <2>2, <2>3 DEF GetFree, RingInv, LiveWhole, Copying
<1>2. ASSUME NEW m \in Frames, PushHead(m)
      PROVE  RingInv'
  <2>1. /\ LiveWhole'
        /\ Copying => /\ head'[br] = head[br]
                      /\ tail'[br] = tail[br]
                      /\ frameSizes'[br] = frameSizes[br]
    BY <1>2, WriteApart DEF PushHead
  <2>2. Live' = Live /\ bw \in Index
    BY <1>0, <1>2, SameIndices, PushedSlotApart DEF PushHead
  <2>3. head'[bw] = m
    BY <1>0, <1>2, <2>2 DEF PushHead, TypeOK
  <2> QED
    BY <1>0, <1>2, <2>1, <2>2, <2>3 DEF PushHead, RingInv, LiveWhole, Copying
<1>3. CASE PushTail
  <2>1. /\ LiveWhole'
        /\ Copying => /\ head'[br] = head[br]
                      /\ tail'[br] = tail[br]
                      /\ frameSizes'[br] = frameSizes[br]
    BY <1>3, WriteApart DEF PushTail
  <2>2. Live' = Live /\ bw \in Index
    BY <1>0, <1>3, SameIndices, PushedSlotApart DEF PushTail
  <2>3. tail'[bw] = frame
    BY <1>0, <1>3, <2>2 DEF PushTail, TypeOK
  <2> QED
    BY <1>0, <1>3, <2>1, <2>2, <2>3 DEF PushTail, RingInv, LiveWhole, Copying
<1>4. CASE PushSize
  <2>1. /\ LiveWhole'
        /\ Copying => /\ head'[br] = head[br]
                      /\ tail'[br] = tail[br]
                      /\ frameSizes'[br] = frameSizes[br]
    BY <1>4, WriteApart DEF PushSize
  <2>2. Live' = Live /\ bw \in Index
    BY <1>0, <1>4, SameIndices, PushedSlotApart DEF PushSize
  <2>3. frameSizes'[bw] = frame
    BY <1>0, <1>4, <2>2 DEF PushSize, TypeOK
  <2> QED
    BY <1>0, <1>4, <2>1, <2>2, <2>3 DEF PushSize, RingInv, LiveWhole, Copying
<1>5. CASE PushAdvance
  <2>1. /\ Live' = Live + 1 /\ Wrap(br)' = Wrap(br)
        /\ Wrap(Wrap(br) + Live) = bw
    BY <1>0, <1>5, QueueAssumption
       DEF PushAdvance, RingInv, TypeOK, Live, Wrap
  <2>2. LiveWhole'
    <3> SUFFICES ASSUME NEW i \in (0 .. Live - 1)'
                 PROVE  (\E m \in Frames : Slot(Wrap(Wrap(br) + i)) = <<m, m, m>>)'
      BY DEF LiveWhole
    <3>1. Slot(Wrap(Wrap(br) + i))' = Slot(Wrap(Wrap(br) + i))
      BY <1>5, <2>1 DEF PushAdvance, Slot, Wrap
    <3>2. CASE i = Live
      <4>1. Slot(bw) = <<frame, frame, frame>> /\ frame \in Frames
        BY <1>0, <1>5 DEF PushAdvance, RingInv, Slot
      <4> QED
        BY <2>1, <3>1, <3>2, <4>1
    <3>3. CASE i \in 0 .. Live - 1
      BY <1>0, <3>1, <3>3 DEF LiveWhole
    <3> QED
      BY <1>0, <2>1, <3>2, <3>3, LiveType
  <2>3. room' + Live' <= Size - 1
    BY <1>0, <1>5, <2>1, LiveType, QueueAssumption DEF PushAdvance, RingInv, TypeOK
  <2>4. Copying => Live' > 0
    BY <1>0, <2>1, LiveType
  <2>5. sure <= Live'
    BY <1>0, <2>1, LiveType, QueueAssumption DEF RingInv, TypeOK
  <2> QED
    BY <1>0, <1>5, <2>2, <2>3, <2>4, <2>5
       DEF PushAdvance, RingInv, LiveWhole, Copying
<1>6. CASE PushWrap
  <2>1. Live' = Live /\ Wrap(br)' = Wrap(br) /\ bw' # Size
    BY <1>6, WrapKeeps, QueueAssumption DEF PushWrap, Live
  <2>2. LiveWhole'
    BY <1>0, <1>6, <2>1 DEF PushWrap, LiveWhole, Slot, Wrap
  <2> QED
    BY <1>0, <1>6, <2>1, <2>2 DEF PushWrap, RingInv, LiveWhole, Copying
<1>7. ASSUME NEW t \in 0 .. Size, setTreshold(t)
      PROVE  RingInv'
  <2>1. Live' = Live /\ LiveWhole'
    BY <1>0, <1>7 DEF setTreshold, Live, Wrap, LiveWhole, Slot
  <2> QED
    BY <1>0, <1>7, <2>1 DEF setTreshold, RingInv, LiveWhole, Copying
<1>8. CASE IsAboveTreshold
  <2>1. Live' = Live /\ LiveWhole'
    BY <1>0, <1>8 DEF IsAboveTreshold, Live, Wrap, LiveWhole, Slot
  <2>2. Count = Live
    BY <1>0, <1>8, CountIsLive DEF IsAboveTreshold, ConsumerRuns
  <2>3. sure' <= Live
    BY <1>0, <1>8, <2>2 DEF IsAboveTreshold, RingInv
  <2> QED
    BY <1>0, <1>8, <2>1, <2>3 DEF IsAboveTreshold, RingInv, LiveWhole, Copying
<1>9. CASE PullNothing
  <2>1. Live' = Live /\ LiveWhole'
    BY <1>0, <1>9 DEF PullNothing, Live, Wrap, LiveWhole, Slot
  <2> QED
    BY <1>0, <1>9, <2>1 DEF PullNothing, RingInv, LiveWhole, Copying
<1>10. CASE PullCount
  <2>1. Live' = Live /\ LiveWhole'
    BY <1>0, <1>10 DEF PullCount, Live, Wrap, LiveWhole, Slot
  <2>2. Live > 0
    BY <1>0, <1>10, CountIsLive, LiveType DEF PullCount, ConsumerRuns
  <2> QED
    BY <1>0, <1>10, <2>1, <2>2 DEF PullCount, RingInv, LiveWhole, Copying
<1>11. CASE PullSize \/ PullHead \/ PullTail
  <2>1. Live' = Live /\ LiveWhole'
    BY <1>0, <1>11 DEF PullSize, PullHead, PullTail, Live, Wrap, LiveWhole, Slot
  <2>2. CASE PullSize
    BY <1>0, <2>1, <2>2 DEF PullSize, RingInv, LiveWhole, Copying, TypeOK
  <2>3. CASE PullHead
    BY <1>0, <2>1, <2>3 DEF PullHead, RingInv, LiveWhole, Copying, TypeOK
  <2>4. CASE PullTail
    BY <1>0, <2>1, <2>4 DEF PullTail, RingInv, LiveWhole, Copying, TypeOK
  <2> QED
    BY <1>11, <2>2, <2>3, <2>4
<1>12. CASE PullAdvance
  <2>1. Live > 0 /\ br \in Index
    BY <1>0, <1>12, CopiedSlotLive DEF PullAdvance, RingInv, Copying
  <2>2. /\ Live' = Live - 1
        /\ \A i \in 0 .. Live' - 1 :
              Wrap(Wrap(br') + i) = Wrap(Wrap(br) + (i + 1))
    <3>1. br' = br + 1 /\ bw' = bw /\ br \in 0 .. Size - 1 /\ bw \in 0 .. Size
      BY <1>0, <1>12, <2>1 DEF PullAdvance, TypeOK, Index
    <3>2. Size \in Nat /\ Size > 0
      BY QueueAssumption
    <3>3. Live' = Live - 1
      BY <2>1, <3>1, <3>2 DEF Live, Wrap
    <3>4. ASSUME NEW i \in 0 .. Live' - 1
          PROVE  Wrap(Wrap(br') + i) = Wrap(Wrap(br) + (i + 1))
      <4>1. i \in Nat /\ i + 1 <= Size - 1
        BY <1>0, <3>2, <3>3, <3>4, LiveType
      <4>2. Wrap(br) = br /\ Wrap(br') = IF br + 1 = Size THEN 0 ELSE br + 1
        BY <3>1, <3>2 DEF Wrap
      <4> QED
        BY <3>1, <3>2, <4>1, <4>2 DEF Wrap
    <3> QED
      BY <3>3, <3>4
  <2>3. LiveWhole'
    <3> SUFFICES ASSUME NEW i \in (0 .. Live - 1)'
                 PROVE  (\E m \in Frames : Slot(Wrap(Wrap(br) + i)) = <<m, m, m>>)'
      BY DEF LiveWhole
    <3>1. i + 1 \in 0 .. Live - 1
      BY <1>0, <2>2, LiveType
    <3>2. PICK m \in Frames : Slot(Wrap(Wrap(br) + (i + 1))) = <<m, m, m>>
      BY <1>0, <3>1 DEF LiveWhole
    <3>3. Slot(Wrap(Wrap(br) + i))' = <<m, m, m>>
      BY <1>12, <2>2, <3>2 DEF PullAdvance, Slot, Wrap
    <3> QED
      BY <3>3
  <2>4. room + Live' <= Size - 1 /\ sure' <= Live'
    BY <1>0, <1>12, <2>1, <2>2, LiveType, QueueAssumption
       DEF PullAdvance, RingInv, TypeOK
  <2> QED
    BY <1>0, <1>12, <2>1, <2>3, <2>4
       DEF PullAdvance, RingInv, LiveWhole, Copying
<1>13. CASE PullWrap
  <2>1. Live' = Live /\ Wrap(br') = Wrap(br) /\ br' # Size
    BY <1>13, WrapKeeps, QueueAssumption DEF PullWrap, Live
  <2>2. LiveWhole'
    BY <1>0, <1>13, <2>1 DEF PullWrap, LiveWhole, Slot, Wrap
  <2> QED
    BY <1>0, <1>13, <2>1, <2>2 DEF PullWrap, RingInv, LiveWhole, Copying
<1>14. CASE UNCHANGED vars
  BY <1>0, <1>14 DEF vars, RingInv, Live, Wrap, Slot, Copying
<1> QED
  BY <1>1, <1>2, <1>3, <1>4, <1>5, <1>6, <1>7, <1>8, <1>9, <1>10, <1>11,
     <1>12, <1>13, <1>14 DEF Next, Push, Pull

\* At first the ring is empty.
LEMMA InvInit ==
  Init => IInv /\ Live = 0
BY QueueAssumption DEF Init, IInv, TypeOK, RingInv, Live, Wrap, Copying, None

\* The inductive invariant of the queue whose producer is the interrupt.
LEMMA InvStep ==
  ASSUME Preempting = "producer", IInv, [Next]_vars
  PROVE  IInv'
BY TypeStep, RingStep DEF IInv

\* For every size, when the producer is the interrupt: the variables keep
\* their types, no index leaves the ring, and a push never writes the slot
\* that the pull it interrupts is copying.
THEOREM SpecCopiesApart ==
  ASSUME Preempting = "producer"
  PROVE  Spec => [](TypeOK /\ CopiesApart)
<1>1. Init => IInv
  BY InvInit
<1>2. IInv /\ [Next]_vars => IInv'
  BY InvStep
<1>3. IInv => TypeOK /\ CopiesApart
  <2> SUFFICES ASSUME IInv
               PROVE  CopiesApart
    BY DEF IInv
  <2>1. Copying => br \in Index /\ 0 \in 0 .. Live - 1 /\ Wrap(Wrap(br) + 0) = br
    BY CopiedSlotLive DEF IInv
  <2>2. pushing \in {"head", "tail", "size"}
          => \A i \in 0 .. Live - 1 : Wrap(Wrap(br) + i) # bw
    BY PushedSlotApart DEF IInv
  <2> QED
    BY <2>1, <2>2 DEF CopiesApart, Copying
<1> QED
  BY <1>1, <1>2, <1>3, PTL DEF Spec

\* The variables keep their types: no step of push() or pull() takes an index
\* more than one place past the ring before it wraps it.
THEOREM SpecTypeOK ==
  ASSUME Preempting = "producer"
  PROVE  Spec => []TypeOK
<1>1. TypeOK /\ CopiesApart => TypeOK
  OBVIOUS
<1> QED
  BY <1>1, SpecCopiesApart, PTL

\* For every size and treshold, when the producer is the interrupt: the pulls
\* isAboveTreshold() vouches for find a frame.
THEOREM SpecTresholdKept ==
  ASSUME Preempting = "producer"
  PROVE  Spec => TresholdKept
<1>1. Init => IInv
  BY InvInit
<1>2. IInv /\ [Next]_vars => IInv'
  BY InvStep
<1>3. IInv => [PullNothing => sure = 0]_vars
  <2> SUFFICES ASSUME IInv, PullNothing
               PROVE  sure = 0
    OBVIOUS
  <2>1. Live = 0
    BY CountIsLive DEF IInv, RingInv, PullNothing, ConsumerRuns
  <2> QED
    BY <2>1 DEF IInv, RingInv, TypeOK
<1> QED
  BY <1>1, <1>2, <1>3, PTL DEF Spec, TresholdKept

-----------------------------------------------------------------------------
(* The refinement.  A push takes effect at bw_++ and a pull at br_++.      *)

\* Content depends on the ends of the ring and the live slots only.
LEMMA ContentKept ==
  ASSUME TypeOK, TypeOK', Wrap(bw') = Wrap(bw), Wrap(br') = Wrap(br),
         \A i \in 0 .. Live - 1 :
            /\ head'[Wrap(Wrap(br) + i)] = head[Wrap(Wrap(br) + i)]
            /\ tail'[Wrap(Wrap(br) + i)] = tail[Wrap(Wrap(br) + i)]
            /\ frameSizes'[Wrap(Wrap(br) + i)] = frameSizes[Wrap(Wrap(br) + i)]
  PROVE  Content' = Content
<1>1. Live' = Live /\ Live \in Nat
  BY LiveType DEF Live
<1>2. \A i \in 1 .. Live : Wrap(Wrap(br) + i - 1)' = Wrap(Wrap(br) + i - 1)
  BY DEF Wrap
<1>3. ASSUME NEW i \in 1 .. Live
      PROVE  Slot(Wrap(Wrap(br) + i - 1))' = Slot(Wrap(Wrap(br) + i - 1))
  <2>1. /\ i - 1 \in 0 .. Live - 1
        /\ Wrap(br) + i - 1 = Wrap(br) + (i - 1)
    BY <1>1, <1>3, LiveType DEF Index
  <2> QED
    BY <1>2, <2>1 DEF Slot
<1> QED
  BY <1>1, <1>3 DEF Content

\* Committing a push appends the pushed frame.
LEMMA PushAppends ==
  ASSUME IInv, TypeOK', PushAdvance
  PROVE  \E m \in {<<f, f, f>> : f \in Frames} : Fifo!Push(m)
<1> DEFINE m == <<frame, frame, frame>>
<1>1. m \in {<<f, f, f>> : f \in Frames} /\ m \in Triples
  BY DEF PushAdvance, IInv, RingInv, Triples
<1>2. /\ Live' = Live + 1 /\ Wrap(br)' = Wrap(br)
      /\ Wrap(Wrap(br) + Live) = bw
      /\ Live < Size - 1
  BY QueueAssumption
     DEF PushAdvance, IInv, RingInv, TypeOK, Live, Wrap, consVars
<1>3. /\ Content \in Seq(Triples) /\ Len(Content) = Live /\ Live \in Nat
      /\ \A i \in 1 .. Live : Content[i] = Slot(Wrap(Wrap(br) + i - 1))
  BY ContentType, LiveType DEF IInv, ContentTyped
<1>4. /\ Content' \in Seq(Triples) /\ Len(Content') = Live'
      /\ \A i \in 1 .. Live' : Content'[i] = Slot(Wrap(Wrap(br) + i - 1))'
  BY ContentTypeNext DEF ContentTyped
<1>5. \A i \in 1 .. Live' : Content'[i] = Slot(Wrap(Wrap(br) + i - 1))
  BY <1>2, <1>4 DEF PushAdvance, memVars, Slot, Wrap
<1>6. Slot(bw) = m
  BY DEF PushAdvance, IInv, RingInv, Slot
<1>7. Content' = Append(Content, m)
  <2>1. /\ Append(Content, m) \in Seq(Triples)
        /\ Len(Append(Content, m)) = Live + 1
        /\ \A i \in 1 .. Live + 1 :
             Append(Content, m)[i] = IF i <= Live THEN Content[i] ELSE m
    BY <1>1, <1>3, AppendProperties
  <2>2. ASSUME NEW i \in 1 .. Live + 1
        PROVE  Content'[i] = Append(Content, m)[i]
    <3>1. CASE i <= Live
      BY <1>2, <1>3, <1>5, <2>1, <2>2, <3>1
    <3>2. CASE i = Live + 1
      <4>1. Wrap(br) + i - 1 = Wrap(br) + Live
        BY <1>3, <3>2, LiveType DEF IInv, Index
      <4> QED
        BY <1>2, <1>3, <1>5, <1>6, <2>1, <3>2, <4>1
    <3> QED
      BY <1>3, <2>2, <3>1, <3>2
  <2> QED
    BY <1>2, <1>4, <2>1, <2>2, SeqEqual
<1>8. UNCHANGED got
  BY DEF PushAdvance, consVars
<1> QED
  BY <1>1, <1>2, <1>3, <1>7, <1>8 DEF Fifo!Push

\* Committing a pull takes the first frame, and returns it whole.
LEMMA PullTakesHead ==
  ASSUME IInv, TypeOK', PullAdvance, Preempting = "producer"
  PROVE  Fifo!Pull
<1>1. Live > 0 /\ br \in Index /\ Wrap(Wrap(br) + 0) = br
  BY CopiedSlotLive DEF PullAdvance, IInv, RingInv, Copying
<1>2. /\ Content \in Seq(Triples) /\ Len(Content) = Live /\ Live \in Nat
      /\ \A i \in 1 .. Live : Content[i] = Slot(Wrap(Wrap(br) + i - 1))
  BY ContentType, LiveType DEF IInv, ContentTyped
<1>3. /\ Content' \in Seq(Triples) /\ Len(Content') = Live'
      /\ \A i \in 1 .. Live' : Content'[i] = Slot(Wrap(Wrap(br) + i - 1))'
  BY ContentTypeNext DEF ContentTyped
<1>4. /\ Live' = Live - 1
      /\ \A i \in 1 .. Live' :
            Wrap(Wrap(br') + i - 1) = Wrap(Wrap(br) + (i + 1) - 1)
  BY <1>1, QueueAssumption
     DEF IInv, PullAdvance, TypeOK, Live, Wrap, Index, ConsumerRuns, prodVars
<1>5. Content # << >>
  BY <1>1, <1>2, EmptySeq
<1>6. got' = Head(Content)
  <2>1. Wrap(br) + 1 - 1 = Wrap(br) + 0 /\ 1 \in 1 .. Live
    BY <1>1, <1>2, LiveType DEF IInv, Index
  <2>2. Content[1] = Slot(br)
    BY <1>1, <1>2, <2>1
  <2>3. buf = <<buf[1], buf[2], buf[3]>>
    BY DEF IInv, TypeOK
  <2>4. buf = Slot(br)
    BY <2>3 DEF PullAdvance, IInv, RingInv, Slot
  <2> QED
    BY <2>2, <2>4 DEF PullAdvance
<1>7. Content' = Tail(Content)
  <2>1. /\ Tail(Content) \in Seq(Triples)
        /\ Len(Tail(Content)) = Live - 1
        /\ \A i \in 1 .. Live - 1 : Tail(Content)[i] = Content[i + 1]
    BY <1>2, <1>5, HeadTailProperties
  <2>2. ASSUME NEW i \in 1 .. Live - 1
        PROVE  Content'[i] = Tail(Content)[i]
    <3>1. Content'[i] = Slot(Wrap(Wrap(br) + (i + 1) - 1))
      BY <1>3, <1>4, <2>2 DEF PullAdvance, memVars, Slot, Wrap
    <3>2. i + 1 \in 1 .. Live
      BY <1>2, <2>2
    <3> QED
      BY <1>2, <2>1, <2>2, <3>1, <3>2
  <2> QED
    BY <1>3, <1>4, <2>1, <2>2, SeqEqual
<1> QED
  BY <1>5, <1>6, <1>7 DEF Fifo!Pull

\* Every other step leaves the abstract queue alone, or is a pull that finds
\* it empty.
LEMMA StepRefines ==
  ASSUME Preempting = "producer", IInv, IInv', [Next]_vars
  PROVE  [Fifo!Next]_(Fifo!vars)
<1> USE DEF memVars, prodVars, consVars
<1>1. CASE PushAdvance
  BY <1>1, PushAppends DEF IInv, Fifo!Next
<1>2. CASE PullAdvance
  BY <1>2, PullTakesHead DEF IInv, Fifo!Next
<1>3. CASE PullNothing
  <2>1. Content' = Content
    BY <1>3, ContentKept DEF IInv, PullNothing
  <2>2. Live = 0
    BY <1>3, CountIsLive DEF IInv, RingInv, PullNothing, ConsumerRuns
  <2>3. Content = << >>
    BY <2>2, ContentType, EmptySeq DEF IInv, ContentTyped
  <2> QED
    BY <1>3, <2>1, <2>3 DEF PullNothing, Fifo!PullNothing, Fifo!Next
<1>4. CASE (\E m \in Frames : PushHead(m)) \/ PushTail \/ PushSize
  <2>1. /\ UNCHANGED <<bw, br, got>>
        /\ \A j \in Index : j # bw => /\ head'[j] = head[j]
                                      /\ tail'[j] = tail[j]
                                      /\ frameSizes'[j] = frameSizes[j]
    BY <1>4 DEF PushHead, PushTail, PushSize, IInv, TypeOK
  <2>2. \A i \in 0 .. Live - 1 : /\ Wrap(Wrap(br) + i) \in Index
                                 /\ Wrap(Wrap(br) + i) # bw
    BY <1>4, LiveType, PushedSlotApart DEF IInv, PushHead, PushTail, PushSize
  <2>3. Content' = Content
    BY <2>1, <2>2, ContentKept DEF IInv
  <2> QED
    BY <2>1, <2>3 DEF Fifo!vars
<1>5. CASE PushWrap \/ PullWrap
  <2>1. Wrap(bw') = Wrap(bw) /\ Wrap(br') = Wrap(br)
    BY <1>5, WrapKeeps DEF PushWrap, PullWrap
  <2>2. Content' = Content
    BY <1>5, <2>1, ContentKept DEF IInv, PushWrap, PullWrap
  <2> QED
    BY <1>5, <2>2 DEF Fifo!vars, PushWrap, PullWrap
<1>6. CASE \/ GetFree \/ IsAboveTreshold \/ PullCount
           \/ PullSize \/ PullHead \/ PullTail
           \/ (\E t \in 0 .. Size : setTreshold(t))
           \/ UNCHANGED vars
  <2>1. UNCHANGED <<head, tail, frameSizes, bw, br, got>>
    BY <1>6 DEF GetFree, IsAboveTreshold, PullCount, PullSize, PullHead,
                PullTail, setTreshold, vars
  <2>2. Content' = Content
    BY <2>1, ContentKept DEF IInv
  <2> QED
    BY <2>1, <2>2 DEF Fifo!vars
<1> QED
  BY <1>1, <1>2, <1>3, <1>4, <1>5, <1>6 DEF Next, Push, Pull

\* For every size, when the producer is the interrupt: the lock-free ring is
\* a FIFO queue of size_ - 1 frames that loses, repeats, reorders and tears
\* none, and reports empty only when nothing has been pushed.
THEOREM SpecImplementsFifo ==
  ASSUME Preempting = "producer"
  PROVE  Spec => ImplementsFifo
<1>1. Init => IInv
  BY InvInit
<1>2. IInv /\ [Next]_vars => IInv'
  BY InvStep
<1>3. Init => Fifo!Init
  <2> SUFFICES ASSUME Init
               PROVE  Fifo!Init
    OBVIOUS
  <2>1. Content = << >>
    BY InvInit, ContentType, EmptySeq DEF IInv, ContentTyped
  <2> QED
    BY <2>1 DEF Init, Fifo!Init
<1>4. IInv /\ IInv' /\ [Next]_vars => [Fifo!Next]_(Fifo!vars)
  BY StepRefines
<1> QED
  BY <1>1, <1>2, <1>3, <1>4, PTL DEF Spec, ImplementsFifo, Fifo!Spec

=============================================================================
