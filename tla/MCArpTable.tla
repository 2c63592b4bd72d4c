------------------------------ MODULE MCArpTable ------------------------------
(***************************************************************************)
(* TLC instance of ArpController and, each on its own, of the two uses of  *)
(* EthernetUtilities: a sender of datagrams and a forwarder of frames.     *)
(***************************************************************************)
EXTENDS MCArpController, EthernetUtilities

VARIABLE part \* which of the three this behaviour is about

allVars == <<vars, frameVars, part>>

\* With bytes of two bits: sums with and without carries, to and from both
\* zeros of ones' complement, of even and odd numbers of bytes.
MCAddresses == {<<0, 0>>, <<0, 1>>, <<15, 15>>, <<9, 7>>}
MCPayloads == {<<1>>, <<3, 3>>, <<0, 0, 0>>, <<3, 3, 3>>, <<1, 0, 3, 2>>}

OneFrame == CHOOSE f \in Frame : HasChecksum(f) /\ Verifies(f) /\ IpVerifies(f)

\* The parts this behaviour is not about begin in one state only, and so do the
\* fields of the forwarded frame that do not matter.
AllInit ==
  /\ Init /\ FrameInit
  /\ \/ part \in {"arp", "send"} /\ frame = OneFrame
     \/ /\ part = "forward" /\ frame.ipRest = OneFrame.ipRest
        /\ needProtoCsCalculation(frame) \/ frame.checksum = 0

AllNext ==
  /\ \/ part = "arp" /\ Next /\ UNCHANGED frameVars
     \/ part = "send" /\ Send /\ UNCHANGED vars
     \/ part = "forward" /\ Forward /\ UNCHANGED vars
  /\ UNCHANGED part

AllSpec == AllInit /\ [][AllNext]_allVars

=============================================================================
