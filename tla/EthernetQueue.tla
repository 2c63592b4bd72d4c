---------------------------- MODULE EthernetQueue ----------------------------
(***************************************************************************)
(* The queue between an Ethernet driver and the main loop                  *)
(* (src/ethutilities/EthernetQueue.cpp), statement by statement.  One      *)
(* context pushes and the other pulls; push() writes bw_ only and pull()   *)
(* writes br_ only, and there is no lock.  One context is an interrupt     *)
(* that may preempt the other between any two statements and then runs its *)
(* call to the end.                                                        *)
(*                                                                         *)
(* A frame is named; its two halves, which memcpy writes one after the     *)
(* other, and its size carry its name.                                     *)
(***************************************************************************)
EXTENDS Integers, Sequences

CONSTANTS
  Frames,     \* the frames pushed
  NULL,       \* no frame: uninitialised memory, and pull()'s 0
  Size,       \* size_
  Preempting  \* which side is the interrupt: "producer" or "consumer"

ASSUME QueueAssumption ==
  /\ NULL \notin Frames
  /\ Size \in Nat \ {0}
  /\ Preempting \in {"producer", "consumer"}

VARIABLES
  isInitialized,
  head, tail, frameSizes,  \* frames_, in halves, and frameSizes_
  bw, br,
  treshold,
  pushing,  \* where push() is, "idle" outside it
  frame,    \* the frame being pushed
  room,     \* pushes the producer may still do after its last getFree()
  pulling,  \* where pull() is, "idle" outside it
  buf,      \* the caller's buffer and the size read: <<head, tail, size>>
  got,      \* what the last pull() returned
  sure      \* history: pulls the last isAboveTreshold() vouches for

memVars  == <<head, tail, frameSizes>>
prodVars == <<pushing, frame, room, bw>>
consVars == <<pulling, buf, got, sure, br>>
vars == <<isInitialized, memVars, prodVars, consVars, treshold>>

Index == 0 .. Size - 1
None == <<NULL, NULL, NULL>>

\* D_A_MIN_B_MOD_C(bw_, br_, size_): a - b, plus c when that is negative.
Count == IF bw >= br THEN bw - br ELSE bw - br + Size

\* Mutant: the slot that keeps a full ring apart from an empty one counts.
getFreeAll == IF isInitialized THEN Size - Count ELSE 0

getFree == IF isInitialized THEN Size - 1 - Count ELSE 0

TypeOK ==
  /\ isInitialized \in BOOLEAN
  /\ head \in [Index -> Frames \cup {NULL}]
  /\ tail \in [Index -> Frames \cup {NULL}]
  /\ frameSizes \in [Index -> Frames \cup {NULL}]
  /\ bw \in 0 .. Size
  /\ br \in 0 .. Size
  /\ treshold \in 0 .. Size
  /\ pushing \in {"idle", "head", "tail", "size", "advanced"}
  /\ frame \in Frames \cup {NULL}
  /\ room \in 0 .. Size - 1
  /\ pulling \in {"idle", "counted", "size", "head", "tail", "advanced"}
  /\ buf \in (Frames \cup {NULL}) \X (Frames \cup {NULL}) \X (Frames \cup {NULL})
  /\ got \in (Frames \cup {NULL}) \X (Frames \cup {NULL}) \X (Frames \cup {NULL})
  /\ sure \in 0 .. Size

\* The constructor: either malloc_s may fail.
Init ==
  /\ isInitialized \in BOOLEAN
  /\ head = [i \in Index |-> NULL]
  /\ tail = [i \in Index |-> NULL]
  /\ frameSizes = [i \in Index |-> NULL]
  /\ bw = 0
  /\ br = 0
  /\ treshold = 0
  /\ pushing = "idle"
  /\ frame = NULL
  /\ room = 0
  /\ pulling = "idle"
  /\ buf = None
  /\ got = None
  /\ sure = 0

ProducerRuns == Preempting = "producer" \/ pulling = "idle"
ConsumerRuns == Preempting = "consumer" \/ pushing = "idle"

-----------------------------------------------------------------------------
(* The producer.                                                           *)

\* getFree(): the producer pushes no more frames than it has seen room for.
GetFree ==
  /\ ProducerRuns
  /\ pushing = "idle"
  /\ room' = getFree
  /\ UNCHANGED <<isInitialized, memVars, consVars, pushing, frame, bw, treshold>>

\* push(): the first half of the frame.
PushHead(m) ==
  /\ ProducerRuns
  /\ pushing = "idle"
  /\ room > 0
  /\ frame' = m
  /\ head' = [head EXCEPT ![bw] = m]
  /\ pushing' = "head"
  /\ UNCHANGED <<isInitialized, tail, frameSizes, consVars, room, bw, treshold>>

PushTail ==
  /\ ProducerRuns
  /\ pushing = "head"
  /\ tail' = [tail EXCEPT ![bw] = frame]
  /\ pushing' = "tail"
  /\ UNCHANGED <<isInitialized, head, frameSizes, consVars, frame, room, bw,
                 treshold>>

PushSize ==
  /\ ProducerRuns
  /\ pushing = "tail"
  /\ frameSizes' = [frameSizes EXCEPT ![bw] = frame]
  /\ pushing' = "size"
  /\ UNCHANGED <<isInitialized, head, tail, consVars, frame, room, bw, treshold>>

\* bw_++
PushAdvance ==
  /\ ProducerRuns
  /\ pushing = "size"
  /\ bw' = bw + 1
  /\ room' = room - 1
  /\ pushing' = "advanced"
  /\ UNCHANGED <<isInitialized, memVars, consVars, frame, treshold>>

\* Mutant: the wrap test lets the index one past the end.
PushWrapBeyond ==
  /\ ProducerRuns
  /\ pushing = "advanced"
  /\ bw' = (IF bw > Size THEN 0 ELSE bw)
  /\ pushing' = "idle"
  /\ UNCHANGED <<isInitialized, memVars, consVars, frame, room, treshold>>

\* Mutant: the wrap test leaves the last slot out.
PushWrapEarly ==
  /\ ProducerRuns
  /\ pushing = "advanced"
  /\ bw' = (IF bw >= Size - 1 THEN 0 ELSE bw)
  /\ pushing' = "idle"
  /\ UNCHANGED <<isInitialized, memVars, consVars, frame, room, treshold>>

PushWrap ==
  /\ ProducerRuns
  /\ pushing = "advanced"
  /\ bw' = (IF bw = Size THEN 0 ELSE bw)
  /\ pushing' = "idle"
  /\ UNCHANGED <<isInitialized, memVars, consVars, frame, room, treshold>>

-----------------------------------------------------------------------------
(* The consumer.                                                           *)

setTreshold(t) ==
  /\ ConsumerRuns
  /\ pulling = "idle"
  /\ treshold' = t
  /\ UNCHANGED <<isInitialized, memVars, prodVars, consVars>>

\* Mutant: above the treshold when one frame short of it.
IsAboveTresholdEarly ==
  /\ ConsumerRuns
  /\ pulling = "idle"
  /\ isInitialized
  /\ Count + 1 >= treshold
  /\ sure' = IF treshold > sure THEN treshold ELSE sure
  /\ UNCHANGED <<isInitialized, memVars, prodVars, pulling, buf, got, br,
                 treshold>>

\* isAboveTreshold(), answering true: treshold frames can be pulled.
IsAboveTreshold ==
  /\ ConsumerRuns
  /\ pulling = "idle"
  /\ isInitialized
  /\ Count >= treshold
  /\ sure' = IF treshold > sure THEN treshold ELSE sure
  /\ UNCHANGED <<isInitialized, memVars, prodVars, pulling, buf, got, br,
                 treshold>>

\* pull() of an empty queue returns 0.
PullNothing ==
  /\ ConsumerRuns
  /\ pulling = "idle"
  /\ isInitialized => Count = 0
  /\ got' = None
  /\ UNCHANGED <<isInitialized, memVars, prodVars, pulling, buf, sure, br,
                 treshold>>

PullCount ==
  /\ ConsumerRuns
  /\ pulling = "idle"
  /\ isInitialized
  /\ Count # 0
  /\ pulling' = "counted"
  /\ UNCHANGED <<isInitialized, memVars, prodVars, buf, got, sure, br, treshold>>

PullSize ==
  /\ ConsumerRuns
  /\ pulling = "counted"
  /\ buf' = [buf EXCEPT ![3] = frameSizes[br]]
  /\ pulling' = "size"
  /\ UNCHANGED <<isInitialized, memVars, prodVars, got, sure, br, treshold>>

PullHead ==
  /\ ConsumerRuns
  /\ pulling = "size"
  /\ buf' = [buf EXCEPT ![1] = head[br]]
  /\ pulling' = "head"
  /\ UNCHANGED <<isInitialized, memVars, prodVars, got, sure, br, treshold>>

PullTail ==
  /\ ConsumerRuns
  /\ pulling = "head"
  /\ buf' = [buf EXCEPT ![2] = tail[br]]
  /\ pulling' = "tail"
  /\ UNCHANGED <<isInitialized, memVars, prodVars, got, sure, br, treshold>>

\* br_++.  From here on the slot is the producer's, and buf is the result.
PullAdvance ==
  /\ ConsumerRuns
  /\ pulling = "tail"
  /\ br' = br + 1
  /\ got' = buf
  /\ sure' = IF sure > 0 THEN sure - 1 ELSE 0
  /\ pulling' = "advanced"
  /\ UNCHANGED <<isInitialized, memVars, prodVars, buf, treshold>>

PullWrap ==
  /\ ConsumerRuns
  /\ pulling = "advanced"
  /\ br' = (IF br = Size THEN 0 ELSE br)
  /\ pulling' = "idle"
  /\ UNCHANGED <<isInitialized, memVars, prodVars, buf, got, sure, treshold>>

-----------------------------------------------------------------------------

Push == PushTail \/ PushSize \/ PushAdvance \/ PushWrap
Pull == PullCount \/ PullSize \/ PullHead \/ PullTail \/ PullAdvance \/ PullWrap

Next ==
  \/ GetFree \/ Push
  \/ \E m \in Frames : PushHead(m)
  \/ PullNothing \/ Pull \/ IsAboveTreshold
  \/ \E t \in 0 .. Size : setTreshold(t)

Spec == Init /\ [][Next]_vars

-----------------------------------------------------------------------------
(* Properties.                                                             *)

Wrap(i) == IF i >= Size THEN i - Size ELSE i

\* The frames committed and not yet pulled.
Live == IF Wrap(bw) >= Wrap(br) THEN Wrap(bw) - Wrap(br)
                                ELSE Wrap(bw) - Wrap(br) + Size

Slot(i) == <<head[i], tail[i], frameSizes[i]>>

\* The queue the two indices delimit, for the abstract queue.
Content == [i \in 1 .. Live |-> Slot(Wrap(Wrap(br) + i - 1))]

Fifo == INSTANCE EthernetFifo
          WITH Frames <- {<<m, m, m>> : m \in Frames}, None <- None,
               Capacity <- Size - 1, q <- Content

\* The ring and its indices are a bounded FIFO queue: every frame is pulled
\* once, in order and whole, with the size it was pushed with, and a pull
\* that returns nothing found nothing pushed.
ImplementsFifo == Fifo!Spec

\* push() never writes the slot pull() is copying from.
CopiesApart ==
  ~ /\ pushing \in {"head", "tail", "size"}
    /\ pulling \in {"counted", "size", "head", "tail"}
    /\ bw = br

\* After isAboveTreshold() has answered true, as many pulls as the treshold
\* named find a frame, however the producer is interleaved.
TresholdKept == [][PullNothing => sure = 0]_vars

\* getFree()'s formula counts on at most size_ - 1 frames in the queue: it
\* would wrap below 0 otherwise.
CountWithinCapacity == Count <= Size - 1

=============================================================================
