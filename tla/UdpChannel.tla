------------------------------- MODULE UdpChannel -------------------------------
(***************************************************************************)
(* The UDP channel of the bare-metal build (src/ethutilities/UdpChannel.cpp): *)
(* lwIP hands it a datagram as a chain of pbufs, and the application is    *)
(* called back for each of them.                                           *)
(***************************************************************************)
EXTENDS Integers, Sequences, SequencesExt

CONSTANTS
  UdpPeers, \* the hosts, with their ports
  MaxChain, \* bound: pbufs of a datagram that comes in
  MSS,      \* TCP_MSS
  MaxSize,  \* bound: bytes of a buffer that is sent
  Unset     \* no peer, no callback's parameter

ASSUME UdpAssumption ==
  /\ MaxChain \in Nat \ {0} /\ MSS \in Nat \ {0} /\ MaxSize \in Nat
  /\ Unset \notin UdpPeers

VARIABLES
  pcb_,      \* whether the channel exists: constructed and not destroyed
  callback_, \* whether it is set
  dstIpaddr_,\* the peer that tx() sends to, with dstPort_
  dmSource,  \* dmSource_
  chain,     \* pbufs of the datagram that are still to be handed over
  sender,    \* history: the peer that sent it
  called,    \* whether the application is being called back
  sent       \* history: of the last tx(), where to, in reply to whom, and what

udpVars == <<pcb_, callback_, dstIpaddr_, dmSource, chain, sender, called, sent>>

NothingSent == [to |-> Unset, from |-> Unset, size |-> 0, datagrams |-> << >>]

UdpTypeOK ==
  /\ pcb_ \in BOOLEAN /\ callback_ \in BOOLEAN
  /\ dstIpaddr_ \in UdpPeers \cup {Unset}
  /\ dmSource \in UdpPeers \cup {Unset}
  /\ chain \in 0 .. MaxChain
  /\ sender \in UdpPeers \cup {Unset}
  /\ called \in BOOLEAN
  /\ sent.to \in UdpPeers \cup {Unset} /\ sent.size \in 0 .. MaxSize

UdpInit ==
  /\ pcb_ = FALSE /\ callback_ = FALSE
  /\ dstIpaddr_ = Unset /\ dmSource = Unset
  /\ chain = 0 /\ sender = Unset /\ called = FALSE
  /\ sent = NothingSent

-----------------------------------------------------------------------------
(* The application's calls, from the main loop or from within its callback. *)

UdpConstruct ==
  /\ ~pcb_
  /\ pcb_' = TRUE
  /\ dstIpaddr_' \in UdpPeers \cup {Unset}
  /\ UNCHANGED <<callback_, dmSource, chain, sender, called, sent>>

\* The destructor is not called from within the callback.
UdpDestroy ==
  /\ pcb_ /\ ~called
  /\ pcb_' = FALSE
  /\ callback_' = FALSE
  /\ UNCHANGED <<dstIpaddr_, dmSource, chain, sender, called, sent>>

initialize ==
  /\ pcb_ /\ ~callback_
  /\ callback_' = TRUE
  /\ UNCHANGED <<pcb_, dstIpaddr_, dmSource, chain, sender, called, sent>>

deinitialize ==
  /\ pcb_ /\ callback_
  /\ callback_' = FALSE
  /\ UNCHANGED <<pcb_, dstIpaddr_, dmSource, chain, sender, called, sent>>

setDestination(to) ==
  /\ pcb_
  /\ dstIpaddr_' = to
  /\ UNCHANGED <<pcb_, callback_, dmSource, chain, sender, called, sent>>

\* Mutant: the buffer is not advanced.
FirstByte(k) == 1

FirstByteOf(k) == (k - 1) * MSS + 1

\* The k-th datagram of a buffer of size bytes.
Datagram(k, size) ==
  LET payloadSize == IF size - (k - 1) * MSS < MSS THEN size - (k - 1) * MSS ELSE MSS
  IN  [i \in 1 .. payloadSize |-> FirstByteOf(k) + i - 1]

\* tx() splits the buffer; when there is no pbuf for a datagram it leaves off.
UdpTx(size, reply) ==
  /\ pcb_ /\ (reply => called)
  /\ \E n \in 0 .. (size + MSS - 1) \div MSS :
       sent' = [to |-> IF reply THEN dmSource ELSE dstIpaddr_,
                from |-> IF reply THEN sender ELSE Unset,
                size |-> size, datagrams |-> [k \in 1 .. n |-> Datagram(k, size)]]
  /\ UNCHANGED <<pcb_, callback_, dstIpaddr_, dmSource, chain, sender, called>>

-----------------------------------------------------------------------------
(* lwIP.                                                                   *)

recieveCallback ==
  /\ pcb_ /\ chain = 0
  /\ \E from \in UdpPeers : dmSource' = from /\ sender' = from
  /\ IF callback_ THEN chain' \in 1 .. MaxChain ELSE chain' = 0
  /\ UNCHANGED <<pcb_, callback_, dstIpaddr_, called, sent>>

\* The next pbuf of the chain; the last one frees it.
NextPbuf ==
  /\ chain > 0 /\ ~called
  /\ IF callback_ THEN called' = TRUE /\ UNCHANGED chain
     ELSE chain' = chain - 1 /\ UNCHANGED called
  /\ UNCHANGED <<pcb_, callback_, dstIpaddr_, dmSource, sender, sent>>

CallbackReturned ==
  /\ called
  /\ called' = FALSE /\ chain' = chain - 1
  /\ UNCHANGED <<pcb_, callback_, dstIpaddr_, dmSource, sender, sent>>

UdpNext ==
  \/ /\ called \/ chain = 0
     /\ \/ initialize \/ deinitialize
        \/ \E to \in UdpPeers : setDestination(to)
        \/ \E size \in 0 .. MaxSize, reply \in BOOLEAN : UdpTx(size, reply)
  \/ chain = 0 /\ (UdpConstruct \/ UdpDestroy)
  \/ recieveCallback \/ NextPbuf \/ CallbackReturned

UdpSpec == UdpInit /\ [][UdpNext]_udpVars

-----------------------------------------------------------------------------
(* Properties.                                                             *)

\* What tx() sends is the buffer from its first byte on, in datagrams of at most
\* MSS bytes, none of them empty; a reply goes to whom the datagram came from.
SentInOrder ==
  LET bytes == FlattenSeq(sent.datagrams)
  IN  /\ bytes = [k \in 1 .. Len(bytes) |-> k] /\ Len(bytes) <= sent.size
      /\ \A k \in DOMAIN sent.datagrams : Len(sent.datagrams[k]) \in 1 .. MSS
      /\ sent.from # Unset => sent.to = sent.from

=============================================================================
