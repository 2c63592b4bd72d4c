------------------------------- MODULE DnsQuery -------------------------------
(***************************************************************************)
(* How the DNS servers read the name out of a query: parse_next_query of   *)
(* src/ethutilities/DnsServer.cpp, which is parseNextQuery of              *)
(* src/ethutilities/freertos/DnsServer.cpp word for word.                  *)
(***************************************************************************)
EXTENDS Integers, Sequences

CONSTANTS
  Byte,    \* the values of a byte that occur: numbers, as lengths are bytes
  Dot,     \* the one that is put between two labels
  NameMax, \* DNS_SERVER_HOST_NAME_MAX_SIZE, the size of query->name
  MaxSize  \* bound: bytes of a packet behind its header

ASSUME QueryAssumption ==
  /\ Byte \subseteq Nat /\ 0 \in Byte /\ Dot \in Byte
  /\ NameMax \in Nat \ {0}
  /\ MaxSize \in Nat \ {0}

VARIABLES
  data,   \* the packet behind its header
  ptr,    \* how many of its bytes are read
  size,
  name,   \* the bytes of query->name written so far; len is their number
  lables,
  result, \* what the call returns, 0 while it runs
  lengths \* history: where the lengths of the labels were, and the next one is

vars == <<data, ptr, size, name, lables, result, lengths>>

Packets == UNION {[1 .. n -> Byte] : n \in 1 .. MaxSize}

\* The bytes that are read lie in the packet.
TypeOK ==
  /\ data \in Packets
  /\ ptr \in 0 .. Len(data)
  /\ size \in 0 .. Len(data)
  /\ name \in Seq(Byte)
  /\ lables \in Nat
  /\ result \in {-1, -2} \cup 0 .. Len(data)
  /\ lengths \subseteq 1 .. Len(data) + 1

\* udp_recv_proc drops a packet that is not longer than its header.
Init ==
  /\ data \in Packets
  /\ ptr = 0 /\ size = Len(data)
  /\ name = << >>
  /\ lables = 0
  /\ result = 0
  /\ lengths = {1}

\* Byte k of the packet, or what lies behind it.
At(k) == IF k \in DOMAIN data THEN data[k] ELSE 0

-----------------------------------------------------------------------------

lable_len == At(ptr + 1)

Return(r) ==
  /\ result' = r
  /\ UNCHANGED <<data, ptr, size, name, lables, lengths>>

\* Mutant: the length byte is counted as one of the label's.
IsCutOffLate == lable_len > size

\* The label, without its length byte, is longer than what is left.
IsCutOff == lable_len > size - 1

\* Mutant: no room is kept for the terminating zero.
IsTooLongLate(before) == Len(before) + lable_len > NameMax

\* The label does not fit behind the name so far.
IsTooLong(before) == Len(before) + lable_len >= NameMax

\* Mutant: a dot comes before the first label, too.
DottedFirst == Append(name, Dot)

Dotted == IF lables > 0 THEN Append(name, Dot) ELSE name

\* What the turn of the loop returns for the next label, 0 when it goes on.  The
\* dot is written before the label is looked at.
Verdict ==
  IF lables > 0 /\ Len(name) = NameMax THEN -2
  ELSE IF IsCutOff THEN -1
  ELSE IF IsTooLong(Dotted) THEN -2
  ELSE 0

LabelRefused ==
  /\ result = 0 /\ size > 0 /\ lable_len # 0
  /\ Verdict # 0
  /\ Return(Verdict)

LabelCopied ==
  /\ result = 0 /\ size > 0 /\ lable_len # 0
  /\ Verdict = 0
  /\ name' = Dotted \o [k \in 1 .. lable_len |-> At(ptr + 1 + k)]
  /\ ptr' = ptr + 1 + lable_len
  /\ size' = size - 1 - lable_len
  /\ lables' = lables + 1
  /\ lengths' = lengths \cup {ptr' + 1}
  /\ UNCHANGED <<data, result>>

\* The type and the class follow.
HasTypeAndClass(left) == left >= 4

\* The packet ends within the name, or the name ends.
End ==
  /\ result = 0
  /\ \/ /\ size = 0
        /\ Return(-1)
     \/ /\ size > 0 /\ lable_len = 0
        /\ Return(IF HasTypeAndClass(size - 1) THEN ptr + 5 ELSE -1)

Next == LabelRefused \/ LabelCopied \/ End

Spec == Init /\ [][Next]_vars

-----------------------------------------------------------------------------
(* Properties.                                                             *)

\* What is written to query->name fits into it, with the terminating zero that
\* an accepted name gets.
NameFits == Len(name) < NameMax

\* S is where the lengths of a name's labels are, and byte e, the zero that ends
\* it, if it has been reached: they lead from the first byte to e.
IsChain(S, e) ==
  /\ S \subseteq 1 .. e /\ 1 \in S /\ e \in S
  /\ \A k \in S \ {e} : /\ At(k) # 0
                      /\ k + At(k) + 1 \in S
                      /\ \A j \in S : j <= k \/ k + At(k) + 1 <= j

\* The packet is a query whose name ends with byte e: the name fits, with a
\* zero for the length of its first label, and the type and the class follow.
IsQuery(S, e) ==
  /\ IsChain(S, e) /\ At(e) = 0
  /\ e - 2 < NameMax
  /\ e + 4 <= Len(data)

\* The bytes between the first one and byte e, with dots for the lengths.
NameOf(S, e) == [k \in 1 .. e - 2 |-> IF k + 1 \in S THEN Dot ELSE At(k + 1)]

\* A packet is accepted if and only if it is a query, and then its name is read
\* from the first label to the last, with dots between them.
ParsesQuery ==
  /\ result < 0 => \A S \in SUBSET DOMAIN data : \A e \in S : ~IsQuery(S, e)
  /\ result > 0 => /\ IsQuery(lengths, result - 4)
                   /\ name = NameOf(lengths, result - 4)

=============================================================================
