---------------------------- MODULE EthernetFifo ----------------------------
(***************************************************************************)
(* What a user of an EthernetQueue counts on: a bounded queue of frames    *)
(* that delivers every pushed frame once, whole, and in order.             *)
(***************************************************************************)
EXTENDS Naturals, Sequences

CONSTANTS
  Frames,    \* the frames that may be pushed
  None,      \* what a pull of an empty queue returns
  Capacity   \* the most frames it holds

VARIABLES
  q,         \* the frames pushed and not yet pulled
  got        \* what the last pull returned

vars == <<q, got>>

Init == q = << >> /\ got = None

Push(m) ==
  /\ Len(q) < Capacity
  /\ q' = Append(q, m)
  /\ UNCHANGED got

Pull ==
  /\ q # << >>
  /\ got' = Head(q)
  /\ q' = Tail(q)

PullNothing ==
  /\ q = << >>
  /\ got' = None
  /\ UNCHANGED q

Next == Pull \/ PullNothing \/ \E m \in Frames : Push(m)

Spec == Init /\ [][Next]_vars

=============================================================================
