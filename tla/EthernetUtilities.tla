-------------------------- MODULE EthernetUtilities --------------------------
(***************************************************************************)
(* The checksums of the UDP frames that are made and of the IP frames that *)
(* are forwarded (src/ethutilities/EthernetUtilities.cpp; the ZYNQ, whose  *)
(* hardware computes some of them, is left out).                           *)
(*                                                                         *)
(* A frame is what its two checksums are about: the addresses, which       *)
(* changeIp() replaces, and the sum of the other words each one covers.    *)
(***************************************************************************)
EXTENDS Integers, Sequences

CONSTANTS
  Bytes,     \* number of values of a byte, 256
  Addresses, \* IP addresses, as pairs of words
  Ports,
  Payloads,  \* the data of datagrams, sequences of bytes
  Rests,     \* sums of what a checksum covers besides the addresses
  Ihl, Ttl,  \* ETX_IPH_IHL_DEF_VAL, ETX_IPH_TTL_DEF_VAL
  UDP, TCP, Other, \* the protocols' numbers
  NoFrame    \* no frame has been made yet

MaxWord == Bytes * Bytes - 1
Word == 0 .. MaxWord

ASSUME EthernetAssumption ==
  /\ Bytes \in Nat /\ Bytes > 1
  /\ Addresses \subseteq Word \X Word
  /\ Ports \subseteq Word
  /\ Payloads \subseteq Seq(0 .. Bytes - 1)
  /\ \A data \in Payloads : 20 + Len(data) <= 2 * MaxWord \* EMAC_ETH_MAX_FLEN
  /\ Rests \subseteq Nat \ {0}
  /\ {Ihl, Ttl, UDP} \subseteq 1 .. Bytes - 1

VARIABLES
  ipId_,
  sent, \* the last frame createUdpFrame() made
  frame, \* a frame that came from the network and is forwarded
  checked \* history: it came with a checksum of its datagram or segment

frameVars == <<ipId_, sent, frame, checked>>

HiLo(word) == <<(word \div Bytes) % Bytes, word % Bytes>>

\* _HI and _LO of each word in turn.
InBytes(words) ==
  [k \in 1 .. 2 * Len(words) |-> HiLo(words[(k + 1) \div 2])[2 - (k % 2)]]

-----------------------------------------------------------------------------

\* ~x & 0xFFFF
Complement(x) == MaxWord - x

\* Mutant: the last byte of an odd number of bytes is the lower one of its word.
LastWordLow(data) ==
  LET n == Len(data)
  IN  IF n % 2 = 1 THEN data[n] ELSE data[n - 1] * Bytes + data[n]

\* The last word, of which there may be the upper byte only.
LastWord(data) ==
  LET n == Len(data)
  IN  IF n % 2 = 1 THEN data[n] * Bytes ELSE data[n - 1] * Bytes + data[n]

\* Fold the carries once into the lower 16 bits.
Fold(sum) == (sum % (MaxWord + 1)) + (sum \div (MaxWord + 1))

\* The sum of a sequence of numbers, added one after the other.
Total(terms) ==
  LET total[i \in 0 .. Len(terms)] == IF i = 0 THEN 0 ELSE total[i - 1] + terms[i]
  IN  total[Len(terms)]

\* The words of data in front of the last one.
Words(data) ==
  [i \in 1 .. (Len(data) - 1) \div 2 |-> data[2 * i - 1] * Bytes + data[2 * i]]

\* Mutant: the carries are folded once.
FoldedOnce(sum) == Fold(sum) % (MaxWord + 1)

\* The carries of the first fold are folded too, and the sum returned as a word.
Folded(sum) == Fold(Fold(sum)) % (MaxWord + 1)

calculateNetworkChecksum(data, startValue) ==
  Folded(Total(Words(data)) + LastWord(data) + startValue)

\* Subtract and add in ones' complement.
Minus(x, old) == IF x - old <= 0 THEN (x - old - 1) % (MaxWord + 1) ELSE x - old
Plus(x, new) == IF x + new > MaxWord THEN (x + new + 1) % (MaxWord + 1) ELSE x + new

adjustNetworkChecksum(chksum, old, new) ==
  Complement(Plus(Plus(Minus(Minus(Complement(chksum),
                                   old[1]), old[2]), new[1]), new[2]))

-----------------------------------------------------------------------------

\* The sum of the words of data, as a receiver computes it.
SumOf(data) ==
  Total([k \in 1 .. Len(data) |-> IF k % 2 = 1 THEN data[k] * Bytes ELSE data[k]])

UdpLen(data) == 8 + Len(data)

\* The IP header, without its checksum and the addresses.
IpHeader(data) ==
  InBytes(<<Ihl * Bytes, 20 + UdpLen(data), ipId_, 0, Ttl * Bytes + UDP>>)

\* The rest of the pseudo header.
PseudoHeader(data) == <<0, UDP>> \o HiLo(UdpLen(data))

UdpHeader(srcPort, dstPort, data, checksum) ==
  InBytes(<<srcPort, dstPort, UdpLen(data), checksum>>)

UdpFrame(dstIp, dstPort, srcIp, srcPort, data) ==
  LET datagram == UdpHeader(srcPort, dstPort, data, 0) \o data
      addresses == InBytes(srcIp \o dstIp)
  IN  [src |-> srcIp, dst |-> dstIp, protocol |-> UDP, fragmentOffset |-> 0,
       checksum |-> Complement(calculateNetworkChecksum(datagram,
                      calculateNetworkChecksum(addresses \o PseudoHeader(data), 0))),
       rest |-> SumOf(PseudoHeader(data)) + SumOf(datagram),
       ipChecksum |-> Complement(calculateNetworkChecksum(
                        IpHeader(data) \o <<0, 0>> \o addresses, 0)),
       ipRest |-> SumOf(IpHeader(data))]

createUdpFrame(dstIp, dstPort, srcIp, srcPort, data) ==
  /\ sent' = UdpFrame(dstIp, dstPort, srcIp, srcPort, data)
  /\ ipId_' = (ipId_ + 1) % (MaxWord + 1)
  /\ UNCHANGED <<frame, checked>>

\* The frames in which changeIp() adjusts a checksum behind the IP header: those
\* with the header of a datagram or segment, which the first fragment has.
needProtoCsCalculation(f) == f.fragmentOffset = 0 /\ f.protocol \in {UDP, TCP}

\* Mutant: the addresses are overwritten before the checksum is adjusted.
AdjustedLate(f, newDstIp, newSrcIp) ==
  adjustNetworkChecksum(
    adjustNetworkChecksum(f.checksum, newSrcIp, newSrcIp), newDstIp, newDstIp)

Adjusted(f, newDstIp, newSrcIp) ==
  adjustNetworkChecksum(
    adjustNetworkChecksum(f.checksum, f.src, newSrcIp), f.dst, newDstIp)

\* The checksum 0 of a datagram whose sender computed none is adjusted like any
\* other.  The IP header's own checksum is adjusted after the addresses have been
\* overwritten, from the new ones to the new ones.
changeIp(newDstIp, newSrcIp) ==
  /\ frame' = [frame EXCEPT
       !.checksum = IF needProtoCsCalculation(frame)
                   THEN Adjusted(frame, newDstIp, newSrcIp) ELSE @,
       !.dst = newDstIp, !.src = newSrcIp,
       !.ipChecksum = adjustNetworkChecksum(
                        adjustNetworkChecksum(@, newSrcIp, newSrcIp),
                        newDstIp, newDstIp)]
  /\ UNCHANGED <<ipId_, sent, checked>>

-----------------------------------------------------------------------------

SumOfAddresses(f) == f.src[1] + f.src[2] + f.dst[1] + f.dst[2]

\* The sender of a segment always computes a checksum, that of a datagram may
\* leave 0 in its place, which tells the receiver not to test.
HasChecksum(f) ==
  needProtoCsCalculation(f) /\ (f.protocol = UDP => f.checksum # 0)

\* What a receiver tests: the words and the checksum have the sum 0 in ones'
\* complement.
Verifies(f) == (f.rest + SumOfAddresses(f) + f.checksum) % MaxWord = 0

IpVerifies(f) == (f.ipRest + SumOfAddresses(f) + f.ipChecksum) % MaxWord = 0

Frame ==
  [src : Addresses, dst : Addresses, protocol : {UDP, TCP, Other},
   fragmentOffset : {0, 1}, checksum : Word, rest : Rests,
   ipChecksum : Word, ipRest : Rests]

\* The network delivers frames in which the checksums that are there are right.
FrameInit ==
  /\ ipId_ = 0
  /\ sent = NoFrame
  /\ frame \in Frame
  /\ checked = HasChecksum(frame)
  /\ checked => Verifies(frame)
  /\ IpVerifies(frame)

Send ==
  \E dst, src \in Addresses, dstPort, srcPort \in Ports, data \in Payloads :
    createUdpFrame(dst, dstPort, src, srcPort, data)

Forward == \E newDst, newSrc \in Addresses : changeIp(newDst, newSrc)

FrameNext == Send \/ Forward

FrameSpec == FrameInit /\ [][FrameNext]_frameVars

-----------------------------------------------------------------------------
(* Properties.                                                             *)

\* Both checksums of a frame that createUdpFrame() made are right, whether the
\* number of bytes is even or odd and however many carries there are.
SentVerifies == sent # NoFrame => Verifies(sent) /\ IpVerifies(sent)

\* A datagram or segment that came with a checksum has a right one after its
\* addresses were replaced, any number of times, although the data was not read.
\* Nothing is said of a datagram that came without one, which gets a wrong one,
\* nor of the IP header's checksum, which stays that of the old addresses.
ForwardedVerifies == checked => Verifies(frame)

=============================================================================
