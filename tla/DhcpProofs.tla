----------------------------- MODULE DhcpProofs -----------------------------
(***************************************************************************)
(* Theorems about the DHCP server, for any number of clients, addresses    *)
(* and messages in flight, and bytes of any width.                         *)
(*                                                                         *)
(* DhcpPool: the loop's variables are functions of its turns.              *)
(*                                                                         *)
(* DhcpServer: what keeps the address of a client its own is the order of  *)
(* its messages: those of its present exchange come behind those of        *)
(* earlier ones (CurrentLast), so when one of them has been answered no    *)
(* earlier one, which could ask for another address, is left (Settled).    *)
(***************************************************************************)
EXTENDS DhcpSystem, TLAPS, FiniteSetTheorems, WellFoundedInduction

-----------------------------------------------------------------------------
(* DhcpPool.                                                               *)

\* The own address is among the first k of the range.
Passed(k) == first <= own /\ own < first + k

\* What the k-th turn of the loop writes.
Entry(k) == (IF Passed(k) THEN first + k ELSE first + k - 1) % Bytes

\* The loop's variables as functions of the number of turns it has made.
LoopInv ==
  /\ first + number <= Bytes
  /\ startIp = IF Passed(Len(entries)) THEN (first + 1) % Bytes ELSE first
  /\ ipCount = IF Passed(Len(entries)) THEN number - 1 ELSE number
  /\ \A k \in 1 .. Len(entries) : entries[k] = Entry(k)
  /\ num_entry # 0 => num_entry = ipCount /\ ~IsMore

\* Taking a number that fits in a byte for a byte changes nothing, and the
\* first that does not fit is 0.
LEMMA ByteOf ==
  /\ \A x \in Byte : x % Bytes = x
  /\ Bytes % Bytes = 0
  /\ \A x \in Nat : x % Bytes \in Byte
<1>1. Bytes \in Nat /\ Bytes > 0
  BY PoolAssumption
<1>2. \A x \in Byte : x % Bytes = x
  BY <1>1 DEF Byte
<1>3. Bytes % Bytes = 0
  BY <1>1
<1>4. \A x \in Nat : x % Bytes \in Byte
  BY <1>1 DEF Byte
<1> QED
  BY <1>2, <1>3, <1>4

\* The loop's variables keep their types, and no entry is written behind the
\* memory of the table: the loop invariant is needed for the bound.
THEOREM SpecInv == PoolSpec => [](PoolTypeOK /\ LoopInv)
<1>1. PoolInit => PoolTypeOK /\ LoopInv
  <2> SUFFICES ASSUME PoolInit PROVE PoolTypeOK /\ LoopInv
    OBVIOUS
  <2>1. 0 \in Byte
    BY PoolAssumption DEF Byte
  <2>2. ~Passed(0)
    BY DEF PoolInit, Passed, Byte
  <2>3. Len(entries) = 0 /\ entries \in Seq(Byte)
    BY DEF PoolInit
  <2>4. number \in Nat
    BY DEF PoolInit, Byte
  <2>5. PoolTypeOK
    BY <2>1, <2>3, <2>4 DEF PoolInit, PoolTypeOK
  <2>6. LoopInv
    BY <2>2, <2>3 DEF PoolInit, LoopInv
  <2> QED
    BY <2>5, <2>6
<1>2. PoolTypeOK /\ LoopInv /\ [PoolNext]_poolVars => (PoolTypeOK /\ LoopInv)'
  <2> SUFFICES ASSUME PoolTypeOK, LoopInv, [PoolNext]_poolVars
               PROVE  PoolTypeOK' /\ LoopInv'
    OBVIOUS
  <2>1. CASE Fill
    <3> DEFINE n == Len(entries)
               own_is_next == startIp + n = own
               start == IF own_is_next THEN (startIp + 1) % Bytes ELSE startIp
    <3>1. n \in Nat /\ own \in Nat /\ first \in Nat /\ number \in Nat /\ Bytes \in Nat \ {0}
      BY PoolAssumption DEF PoolTypeOK, Byte
    <3>2. /\ n < ipCount
          /\ startIp' = start
          /\ ipCount' = IF own_is_next THEN ipCount - 1 ELSE ipCount
          /\ entries' = Append(entries, (start + n) % Bytes)
          /\ UNCHANGED <<own, first, number, num_entry>>
      BY <2>1 DEF Fill, IsMore, CountLeft
    <3>3. num_entry = 0
      BY <3>1, <3>2 DEF LoopInv, IsMore, PoolTypeOK, Byte
    <3>4. n + 1 <= number /\ first + n < Bytes /\ first + number <= Bytes
      BY <3>1, <3>2 DEF LoopInv
    <3>5. own_is_next <=> ~Passed(n) /\ Passed(n + 1)
      <4>1. CASE Passed(n)
        <5>1. first + 1 \in Byte
          BY <4>1, <3>1, <3>4, <3>2 DEF Passed, Byte, LoopInv
        <5>2. startIp = first + 1
          BY <4>1, <5>1, ByteOf DEF LoopInv
        <5> QED
          BY <4>1, <5>2, <3>1 DEF Passed
      <4>2. CASE ~Passed(n)
        <5>1. startIp = first
          BY <4>2 DEF LoopInv
        <5> QED
          BY <4>2, <5>1, <3>1 DEF Passed
      <4> QED
        BY <4>1, <4>2
    <3>6. Passed(n) => Passed(n + 1)
      BY <3>1 DEF Passed
    <3>7. start = IF Passed(n + 1) THEN (first + 1) % Bytes ELSE first
      BY <3>5, <3>6 DEF LoopInv
    <3>8. (start + n) % Bytes = Entry(n + 1)
      <4>1. CASE Passed(n + 1) /\ first + 1 < Bytes
        <5>1. start = first + 1
          BY <4>1, <3>7, <3>1, ByteOf DEF Byte
        <5>2. start + n = first + (n + 1)
          BY <5>1, <3>1
        <5> QED
          BY <4>1, <5>2 DEF Entry
      <4>2. CASE Passed(n + 1) /\ ~(first + 1 < Bytes)
        <5>1. n = 0 /\ first + 1 = Bytes
          BY <4>2, <3>1, <3>4
        <5>2. start = 0
          BY <4>2, <5>1, <3>7, ByteOf
        <5>3. 0 % Bytes = 0
          BY ByteOf, PoolAssumption DEF Byte
        <5>4. Entry(n + 1) = Bytes % Bytes
          BY <4>2, <5>1 DEF Entry
        <5> QED
          BY <5>1, <5>2, <5>3, <5>4, ByteOf
      <4>3. CASE ~Passed(n + 1)
        <5>1. start + n = first + (n + 1) - 1
          BY <4>3, <3>7, <3>1
        <5> QED
          BY <4>3, <5>1 DEF Entry
      <4> QED
        BY <4>1, <4>2, <4>3
    <3>9. /\ entries \in Seq(Byte)
          /\ (start + n) % Bytes \in Byte
          /\ start \in Byte
      <4> HIDE DEF n, start
      <4>1. first + 1 \in Nat
        BY <3>1
      <4>2. (first + 1) % Bytes \in Byte
        BY <4>1, ByteOf
      <4>3. start \in Byte
        BY <3>7, <4>2 DEF PoolTypeOK
      <4>4. start + n \in Nat
        BY <3>1, <4>3 DEF Byte
      <4>5. (start + n) % Bytes \in Byte
        BY <4>4, ByteOf
      <4> QED
        BY <4>3, <4>5 DEF PoolTypeOK
    <3>10. /\ Len(entries') = n + 1
           /\ entries' \in Seq(Byte)
           /\ \A k \in 1 .. n : entries'[k] = entries[k]
           /\ entries'[n + 1] = Entry(n + 1)
      BY <3>2, <3>8, <3>9
    <3>11. ipCount' \in Byte
      BY <3>1, <3>2 DEF PoolTypeOK, Byte
    <3>12. PoolTypeOK'
      BY <3>2, <3>4, <3>9, <3>10, <3>11 DEF PoolTypeOK
    <3>13. \A k : Passed(k)' = Passed(k) /\ Entry(k)' = Entry(k)
      BY <3>2 DEF Passed, Entry
    <3>14. ipCount' = IF Passed(n + 1) THEN number - 1 ELSE number
      BY <3>1, <3>2, <3>5, <3>6 DEF LoopInv
    <3>15. \A k \in 1 .. n + 1 : entries'[k] = Entry(k)
      BY <3>1, <3>10 DEF LoopInv
    <3> QED
      BY <3>2, <3>3, <3>4, <3>7, <3>10, <3>12, <3>13, <3>14, <3>15 DEF LoopInv
  <2>2. CASE PoolEnd
    BY <2>2 DEF PoolEnd, PoolTypeOK, LoopInv, IsMore, Passed, Entry
  <2>3. CASE UNCHANGED poolVars
    BY <2>3 DEF poolVars, PoolTypeOK, LoopInv, IsMore, Passed, Entry
  <2> QED
    BY <2>1, <2>2, <2>3 DEF PoolNext
<1> QED
  BY <1>1, <1>2, PTL DEF PoolSpec

\* Every address of the range but the server's own is in the table once.
THEOREM SpecPoolIsRange == PoolSpec => []PoolIsRange
<1>1. PoolTypeOK /\ LoopInv => PoolIsRange
  <2> SUFFICES ASSUME PoolTypeOK, LoopInv, num_entry # 0
               PROVE  /\ {entries[k] : k \in 1 .. num_entry} = (first .. first + number - 1) \ {own}
                      /\ \A j, k \in 1 .. num_entry : entries[j] = entries[k] => j = k
    BY DEF PoolIsRange
  <2> DEFINE n == Len(entries)
  <2>1. /\ n \in Nat /\ own \in Nat /\ first \in Nat /\ number \in Nat /\ Bytes \in Nat \ {0}
        /\ n <= number /\ first + number <= Bytes
    BY PoolAssumption DEF PoolTypeOK, LoopInv, Byte
  <2>2. num_entry = ipCount /\ ipCount <= n
    BY <2>1 DEF LoopInv, IsMore, PoolTypeOK, Byte
  <2>3. num_entry = IF Passed(number) THEN number - 1 ELSE number
    BY <2>1, <2>2 DEF LoopInv, Passed
  <2>4. ASSUME NEW k \in 1 .. num_entry
        PROVE  entries[k] = IF Passed(k) THEN first + k ELSE first + k - 1
    <3>1. entries[k] = Entry(k)
      BY <2>1, <2>2 DEF LoopInv
    <3>2. Passed(k) => first + k \in Byte
      BY <2>1, <2>3 DEF Passed, Byte
    <3>3. first + k - 1 \in Byte
      BY <2>1, <2>3 DEF Byte
    <3> QED
      BY <3>1, <3>2, <3>3, ByteOf DEF Entry
  <2>5. ASSUME NEW k \in 1 .. num_entry
        PROVE  entries[k] \in (first .. first + number - 1) \ {own}
    BY <2>1, <2>3, <2>4 DEF Passed
  <2>6. ASSUME NEW x \in (first .. first + number - 1) \ {own}
        PROVE  \E k \in 1 .. num_entry : entries[k] = x
    <3>1. CASE first <= own /\ own < x
      <4>1. x - first \in 1 .. num_entry
        BY <2>1, <2>3, <3>1 DEF Passed
      <4>2. entries[x - first] = x
        BY <2>1, <2>4, <3>1, <4>1 DEF Passed
      <4> QED
        BY <4>1, <4>2
    <3>2. CASE ~(first <= own /\ own < x)
      <4>1. x - first + 1 \in 1 .. num_entry
        BY <2>1, <2>3, <3>2 DEF Passed
      <4>2. entries[x - first + 1] = x
        BY <2>1, <2>4, <3>2, <4>1 DEF Passed
      <4> QED
        BY <4>1, <4>2
    <3> QED
      BY <3>1, <3>2
  <2>7. ASSUME NEW j \in 1 .. num_entry, NEW k \in 1 .. num_entry, entries[j] = entries[k]
        PROVE  j = k
    BY <2>1, <2>3, <2>4, <2>7 DEF Passed
  <2> QED
    BY <2>5, <2>6, <2>7
<1> QED
  BY <1>1, SpecInv, PTL

-----------------------------------------------------------------------------
(* DhcpServer.                                                             *)

\* Behind a message of the present exchange come only such messages.
CurrentLast(s) ==
  \A i, j \in DOMAIN s : i < j /\ s[i].current => s[j].current

\* All messages are of the present exchange.
AllCurrent(s) == \A i \in DOMAIN s : s[i].current

\* The present exchange has only looked for a server.
OnlyDiscovers(s) ==
  \A i \in DOMAIN s : s[i].current => s[i].type = "DISCOVER"

\* The present exchange asks for address a only.
AsksFor(s, a) ==
  \A i \in DOMAIN s : s[i].current => s[i].type = "DISCOVER" \/ s[i].addr = a

\* An acknowledgement of the present exchange is on its way.
HasAck(s) == \E i \in DOMAIN s : s[i].current /\ s[i].type = "ACK"

\* The client uses its address, or will when it reads what the server sent.
Settled(c) ==
  \/ state[c] = "bound"
  \/ state[c] = "requesting" /\ HasAck(toClient[c])

\* What holds of the messages of a client in each of its states.
ClientInv(c) ==
  /\ CurrentLast(toServer[c])
  /\ state[c] = "selecting" => OnlyDiscovers(toServer[c]) /\ ~HasAck(toClient[c])
  /\ state[c] \in {"requesting", "bound"} => AsksFor(toServer[c], addr[c])
  /\ Settled(c) => /\ addr[c] \in Entries /\ mac[addr[c]] = c
                   /\ AllCurrent(toServer[c])

\* The messages to the server.
ToServer == [type : {"DISCOVER", "REQUEST", "INFORM"},
             addr : Addresses \cup {NULL}, current : BOOLEAN]

\* The messages to a client.
ToClient == [type : {"OFFER", "ACK"}, addr : Entries, current : BOOLEAN]

\* What holds even where pbuf_alloc may fail.
TableInv == TypeOK /\ OneEntryPerClient

-----------------------------------------------------------------------------
(* Sequences.                                                              *)

\* The elements of a sequence.
LEMMA ElementIn ==
  ASSUME NEW S, NEW s \in Seq(S)
  PROVE  \A i \in DOMAIN s : s[i] \in S
  OBVIOUS

\* The tail of a sequence, by its elements.
LEMMA TailOf ==
  ASSUME NEW S, NEW s \in Seq(S), s # << >>
  PROVE  /\ Tail(s) \in Seq(S)
         /\ Len(s) \in Nat \ {0} /\ Len(Tail(s)) = Len(s) - 1
         /\ Head(s) = s[1] /\ Head(s) \in S /\ 1 \in DOMAIN s
         /\ \A i \in DOMAIN Tail(s) : i + 1 \in DOMAIN s /\ Tail(s)[i] = s[i + 1]
  OBVIOUS

\* An extended sequence, by its elements.
LEMMA AppendOf ==
  ASSUME NEW S, NEW s \in Seq(S), NEW e \in S
  PROVE  /\ Append(s, e) \in Seq(S)
         /\ Len(Append(s, e)) = Len(s) + 1 /\ Len(s) \in Nat
         /\ DOMAIN s = 1 .. Len(s) /\ DOMAIN Append(s, e) = 1 .. Len(s) + 1
         /\ \A i \in DOMAIN s : Append(s, e)[i] = s[i]
         /\ Append(s, e)[Len(s) + 1] = e
  OBVIOUS

\* A message read from the front takes no property away.
LEMMA TailKeeps ==
  ASSUME NEW S, NEW s \in Seq(S), s # << >>, NEW a
  PROVE  /\ CurrentLast(s) => CurrentLast(Tail(s))
         /\ AllCurrent(s) => AllCurrent(Tail(s))
         /\ OnlyDiscovers(s) => OnlyDiscovers(Tail(s))
         /\ AsksFor(s, a) => AsksFor(Tail(s), a)
         /\ HasAck(Tail(s)) => HasAck(s)
         /\ CurrentLast(s) /\ Head(s).current => AllCurrent(Tail(s))
<1>1. /\ Head(s) = s[1] /\ 1 \in DOMAIN s
      /\ \A i \in DOMAIN Tail(s) : i + 1 \in DOMAIN s /\ Tail(s)[i] = s[i + 1]
      /\ DOMAIN Tail(s) \subseteq Nat \ {0}
  BY TailOf
<1>2. CurrentLast(s) => CurrentLast(Tail(s))
  BY <1>1 DEF CurrentLast
<1>3. AllCurrent(s) => AllCurrent(Tail(s))
  BY <1>1 DEF AllCurrent
<1>4. OnlyDiscovers(s) => OnlyDiscovers(Tail(s))
  BY <1>1 DEF OnlyDiscovers
<1>5. AsksFor(s, a) => AsksFor(Tail(s), a)
  BY <1>1 DEF AsksFor
<1>6. HasAck(Tail(s)) => HasAck(s)
  BY <1>1 DEF HasAck
<1>7. CurrentLast(s) /\ Head(s).current => AllCurrent(Tail(s))
  BY <1>1 DEF CurrentLast, AllCurrent
<1>. QED
  BY <1>2, <1>3, <1>4, <1>5, <1>6, <1>7

\* What a message sent at the end must be for the properties to last.
LEMMA AppendKeeps ==
  ASSUME NEW S, NEW s \in Seq(S), NEW e \in S, NEW a
  PROVE  /\ CurrentLast(s) /\ e.current => CurrentLast(Append(s, e))
         /\ AllCurrent(s) /\ e.current => AllCurrent(Append(s, e))
         /\ OnlyDiscovers(s) /\ (e.current => e.type = "DISCOVER")
              => OnlyDiscovers(Append(s, e))
         /\ AsksFor(s, a) /\ (e.current => e.type = "DISCOVER" \/ e.addr = a)
              => AsksFor(Append(s, e), a)
         /\ HasAck(Append(s, e)) => HasAck(s) \/ (e.current /\ e.type = "ACK")
<1>1. /\ DOMAIN s = 1 .. Len(s) /\ DOMAIN Append(s, e) = 1 .. Len(s) + 1
      /\ \A i \in DOMAIN s : Append(s, e)[i] = s[i]
      /\ Append(s, e)[Len(s) + 1] = e /\ Len(s) \in Nat
  BY AppendOf
<1>2. \A i \in DOMAIN Append(s, e) : i \in DOMAIN s \/ i = Len(s) + 1
  BY <1>1
<1>3. CurrentLast(s) /\ e.current => CurrentLast(Append(s, e))
  BY <1>1, <1>2 DEF CurrentLast
<1>4. AllCurrent(s) /\ e.current => AllCurrent(Append(s, e))
  BY <1>1, <1>2 DEF AllCurrent
<1>5. OnlyDiscovers(s) /\ (e.current => e.type = "DISCOVER")
        => OnlyDiscovers(Append(s, e))
  BY <1>1, <1>2 DEF OnlyDiscovers
<1>6. AsksFor(s, a) /\ (e.current => e.type = "DISCOVER" \/ e.addr = a)
        => AsksFor(Append(s, e), a)
  BY <1>1, <1>2 DEF AsksFor
<1>7. HasAck(Append(s, e)) => HasAck(s) \/ (e.current /\ e.type = "ACK")
  BY <1>1, <1>2 DEF HasAck
<1>. QED
  BY <1>3, <1>4, <1>5, <1>6, <1>7

\* No message of an earlier exchange is current.
LEMMA OldOf ==
  ASSUME NEW T, NEW A,
         NEW s \in Seq([type : T, addr : A, current : BOOLEAN]), NEW a
  PROVE  /\ Old(s) \in Seq([type : T, addr : A, current : BOOLEAN])
         /\ Len(Old(s)) = Len(s)
         /\ CurrentLast(Old(s)) /\ OnlyDiscovers(Old(s)) /\ AsksFor(Old(s), a)
         /\ ~HasAck(Old(s))
<1>1. DOMAIN s = 1 .. Len(s) /\ Len(s) \in Nat
  OBVIOUS
<1>2. ASSUME NEW m \in [type : T, addr : A, current : BOOLEAN]
      PROVE  /\ [m EXCEPT !.current = FALSE] \in [type : T, addr : A, current : BOOLEAN]
             /\ [m EXCEPT !.current = FALSE].current = FALSE
  OBVIOUS
<1>3. \A i \in DOMAIN s : s[i] \in [type : T, addr : A, current : BOOLEAN]
  BY ElementIn
<1>4. Old(s) \in Seq([type : T, addr : A, current : BOOLEAN]) /\ Len(Old(s)) = Len(s)
  BY <1>1, <1>2, <1>3 DEF Old
<1>5. DOMAIN Old(s) = DOMAIN s
  BY DEF Old
<1>6. \A i \in DOMAIN s : Old(s)[i].current = FALSE
  BY <1>2, <1>3 DEF Old
<1>. QED
  BY <1>4, <1>5, <1>6 DEF CurrentLast, OnlyDiscovers, AsksFor, HasAck

-----------------------------------------------------------------------------
(* The table.                                                              *)

\* The search of the table finds an entry if there is one.
LEMMA FirstOfIn ==
  ASSUME NEW S \in SUBSET Entries
  PROVE  /\ S = {} => FirstOf(S) = NULL
         /\ S # {} => FirstOf(S) \in S
<1>1. S = {} => FirstOf(S) = NULL
  BY DEF FirstOf
<1>2. ASSUME S # {} PROVE \E i \in S : \A j \in S : i <= j
  <2>1. S \subseteq Nat
    BY DhcpAssumption DEF Entries
  <2>2. PICK i \in S : \A j \in S : <<j, i>> \notin OpToRel(<, Nat)
    BY <1>2, <2>1, WFMin, NatLessThanWellFounded, Zenon
  <2>3. \A j \in S : ~(j < i)
    BY <2>1, <2>2 DEF OpToRel
  <2>. QED
    BY <2>1, <2>3
<1>. QED
  BY <1>1, <1>2 DEF FirstOf

\* After free_entry() the client has no entry, and the others have theirs.
LEMMA FreedOf ==
  ASSUME TableInv, NEW c \in Clients
  PROVE  /\ Freed(c) \in [Entries -> Clients \cup {NULL}]
         /\ \A i \in Entries : Freed(c)[i] = IF mac[i] = c THEN NULL ELSE mac[i]
<1>1. c # NULL /\ NULL \notin Entries /\ mac \in [Entries -> Clients \cup {NULL}]
  BY DhcpAssumption DEF TableInv, TypeOK, Entries
<1>2. ASSUME NEW i \in Entries
      PROVE  i = entry_by_mac(c) <=> mac[i] = c
  <2>1. CASE {j \in Entries : mac[j] = c} = {}
    BY <1>1, <2>1, FirstOfIn DEF entry_by_mac
  <2>2. CASE {j \in Entries : mac[j] = c} # {}
    <3>1. entry_by_mac(c) \in {j \in Entries : mac[j] = c}
      BY <2>2, FirstOfIn DEF entry_by_mac
    <3>. QED
      BY <1>1, <3>1 DEF TableInv, OneEntryPerClient
  <2>. QED
    BY <2>1, <2>2
<1>3. \A i \in Entries : Freed(c)[i] = IF i = entry_by_mac(c) THEN NULL ELSE mac[i]
  BY DEF Freed
<1>4. \A i \in Entries : Freed(c)[i] = IF mac[i] = c THEN NULL ELSE mac[i]
  BY <1>2, <1>3
<1>. QED
  BY <1>1, <1>4 DEF Freed

\* DHCPREQUEST and DHCPINFORM leave the table in order, and the entries of the
\* other clients as they are.
LEMMA RegisterTable ==
  ASSUME TableInv, NEW c \in Clients, NEW a, Register(c, a)
  PROVE  /\ mac' \in [Entries -> Clients \cup {NULL}]
         /\ OneEntryPerClient'
         /\ \A i \in Entries : mac[i] # c /\ mac[i] # NULL => mac'[i] = mac[i]
<1>1. c # NULL
  BY DhcpAssumption
<1>2. /\ Freed(c) \in [Entries -> Clients \cup {NULL}]
      /\ \A i \in Entries : Freed(c)[i] = IF mac[i] = c THEN NULL ELSE mac[i]
  BY FreedOf
<1>3. CASE IsVacant(c, a) /\ mac' = [Freed(c) EXCEPT ![a] = c]
  <2>1. a \in Entries /\ Freed(c)[a] = NULL
    BY <1>3 DEF IsVacant
  <2>2. \A i \in Entries : mac'[i] = IF i = a THEN c
                                     ELSE IF mac[i] = c THEN NULL ELSE mac[i]
    BY <1>2, <1>3, <2>1
  <2>3. OneEntryPerClient'
    BY <1>1, <2>2 DEF TableInv, OneEntryPerClient
  <2>4. mac' \in [Entries -> Clients \cup {NULL}]
    BY <1>2, <1>3
  <2>. QED
    BY <1>2, <2>1, <2>2, <2>3, <2>4
<1>4. CASE mac' = Freed(c)
  BY <1>1, <1>2, <1>4 DEF TableInv, OneEntryPerClient
<1>. QED
  BY <1>3, <1>4 DEF Register

-----------------------------------------------------------------------------
(* Types.                                                                  *)

\* A queue of messages from M for each client, of bounded length.
QueueOK(q, M) ==
  q \in [Clients -> Seq(M)] /\ \A c \in Clients : Len(q[c]) <= MaxQueue

\* Taking a message keeps the queues typed.
LEMMA QueueTail ==
  ASSUME NEW M, NEW q, QueueOK(q, M), NEW c \in Clients, q[c] # << >>
  PROVE  QueueOK([q EXCEPT ![c] = Tail(@)], M) /\ Head(q[c]) \in M
<1>1. Tail(q[c]) \in Seq(M) /\ Len(Tail(q[c])) = Len(q[c]) - 1 /\ Head(q[c]) \in M
      /\ Len(q[c]) \in Nat
  BY TailOf DEF QueueOK
<1>2. Len(Tail(q[c])) <= MaxQueue
  BY <1>1, DhcpAssumption DEF QueueOK
<1>. QED
  BY <1>1, <1>2 DEF QueueOK

\* Adding one where there is room keeps the queues typed.
LEMMA QueueAppend ==
  ASSUME NEW M, NEW q, QueueOK(q, M), NEW c \in Clients,
         NEW m \in M, Len(q[c]) < MaxQueue
  PROVE  QueueOK([q EXCEPT ![c] = Append(@, m)], M)
<1>1. Append(q[c], m) \in Seq(M) /\ Len(Append(q[c], m)) = Len(q[c]) + 1
      /\ Len(q[c]) \in Nat
  BY AppendOf DEF QueueOK
<1>2. Len(Append(q[c], m)) <= MaxQueue
  BY <1>1, DhcpAssumption
<1>. QED
  BY <1>1, <1>2 DEF QueueOK

\* The types, with the queues as QueueOK says.
LEMMA TypeParts ==
  TypeOK <=> /\ mac \in [Entries -> Clients \cup {NULL}]
             /\ state \in [Clients -> {"init", "selecting", "requesting", "bound"}]
             /\ addr \in [Clients -> Addresses \cup {NULL}]
             /\ QueueOK(toServer, ToServer) /\ QueueOK(toClient, ToClient)
  BY DEF TypeOK, QueueOK, ToServer, ToClient

\* The same of the next state.
LEMMA TypePartsNext ==
  TypeOK' <=> /\ mac' \in [Entries -> Clients \cup {NULL}]
              /\ state' \in [Clients -> {"init", "selecting", "requesting", "bound"}]
              /\ addr' \in [Clients -> Addresses \cup {NULL}]
              /\ QueueOK(toServer', ToServer) /\ QueueOK(toClient', ToClient)
  BY DEF TypeOK, QueueOK, ToServer, ToClient

\* A client that repeats a message keeps the types.
LEMMA SendType ==
  ASSUME TypeOK, NEW c \in Clients, NEW type \in {"DISCOVER", "REQUEST", "INFORM"},
         NEW a \in Addresses \cup {NULL}, Send(c, type, a)
  PROVE  QueueOK(toServer', ToServer) /\ Message(type, a, TRUE) \in ToServer
<1>1. Message(type, a, TRUE) \in ToServer
  BY DEF Message, ToServer
<1>. QED
  BY <1>1, TypeParts, QueueAppend DEF Send

\* A client that starts an exchange keeps the types.
LEMMA StartType ==
  ASSUME TypeOK, NEW c \in Clients, NEW type \in {"DISCOVER", "REQUEST", "INFORM"},
         NEW a \in Addresses \cup {NULL}, Start(c, type, a)
  PROVE  /\ QueueOK(toServer', ToServer) /\ QueueOK(toClient', ToClient)
         /\ Message(type, a, TRUE) \in ToServer
         /\ Old(toServer[c]) \in Seq(ToServer) /\ Old(toClient[c]) \in Seq(ToClient)
<1>1. Message(type, a, TRUE) \in ToServer
  BY DEF Message, ToServer
<1>2. QueueOK(toServer, ToServer) /\ QueueOK(toClient, ToClient)
  BY TypeParts
<1>3. Old(toServer[c]) \in Seq(ToServer) /\ Len(Old(toServer[c])) = Len(toServer[c])
  BY <1>2, OldOf DEF QueueOK, ToServer
<1>4. Old(toClient[c]) \in Seq(ToClient) /\ Len(Old(toClient[c])) = Len(toClient[c])
  BY <1>2, OldOf DEF QueueOK, ToClient
<1>5. ASSUME NEW old \in Seq(ToServer), NEW m \in ToServer, Len(old) < MaxQueue
      PROVE  Append(old, m) \in Seq(ToServer) /\ Len(Append(old, m)) <= MaxQueue
  BY <1>5, AppendOf, DhcpAssumption
<1>6. /\ Append(Old(toServer[c]), Message(type, a, TRUE)) \in Seq(ToServer)
      /\ Len(Append(Old(toServer[c]), Message(type, a, TRUE))) <= MaxQueue
  BY <1>1, <1>3, <1>5 DEF Start
<1>7. QueueOK(toServer', ToServer)
  BY <1>2, <1>6 DEF Start, QueueOK
<1>8. QueueOK(toClient', ToClient)
  BY <1>2, <1>4 DEF Start, QueueOK
<1>. QED
  BY <1>1, <1>3, <1>4, <1>7, <1>8

\* The message that is handled, and the answer to it.
LEMMA RecvType ==
  ASSUME TypeOK, NEW c \in Clients, NEW type, Recv(c, type)
  PROVE  /\ QueueOK(toServer', ToServer)
         /\ toServer[c] \in Seq(ToServer) /\ toServer[c] # << >>
         /\ Head(toServer[c]) \in ToServer /\ Head(toServer[c]).type = type
  BY TypeParts, QueueTail DEF Recv, QueueOK

\* A reply of the server keeps the types.
LEMMA ReplyType ==
  ASSUME TypeOK, NEW c \in Clients, Head(toServer[c]) \in ToServer,
         NEW type \in {"OFFER", "ACK"}, NEW i \in Entries, Reply(c, type, i)
  PROVE  /\ QueueOK(toClient', ToClient)
         /\ Message(type, i, Head(toServer[c]).current) \in ToClient
<1>1. Message(type, i, Head(toServer[c]).current) \in ToClient
  BY DEF Message, ToClient, ToServer
<1>. QED
  BY <1>1, TypeParts, QueueAppend DEF Reply

\* A message taken keeps the types.
LEMMA TakeType ==
  ASSUME TypeOK, NEW c \in Clients, Take(c)
  PROVE  /\ QueueOK(toClient', ToClient)
         /\ toClient[c] \in Seq(ToClient) /\ toClient[c] # << >>
         /\ Head(toClient[c]) \in ToClient
  BY TypeParts, QueueTail DEF Take, QueueOK

-----------------------------------------------------------------------------
(* A client's step leaves the table, and the server's step its order.      *)

\* At first no entry is registered.
LEMMA InitTable == Init => TableInv
  BY DhcpAssumption DEF Init, TableInv, TypeOK, OneEntryPerClient

\* DHCPDISCOVER keeps the table.
LEMMA DiscoverTable ==
  ASSUME TableInv, NEW c \in Clients, Discover(c)
  PROVE  TableInv'
<1>. DEFINE entry == IF entry_by_mac(c) # NULL THEN entry_by_mac(c) ELSE vacant_address
<1>1. TypeOK /\ Recv(c, "DISCOVER") /\ UNCHANGED <<mac, state, addr>>
  BY DEF TableInv, Discover
<1>2. QueueOK(toServer', ToServer) /\ Head(toServer[c]) \in ToServer
  BY <1>1, RecvType
<1>3. entry # NULL => entry \in Entries
  BY FirstOfIn DEF entry_by_mac, vacant_address
<1>4. QueueOK(toClient', ToClient)
  <2>1. CASE entry # NULL /\ Reply(c, "OFFER", entry)
    <3>. HIDE DEF entry
    <3>. QED
      BY <1>1, <1>2, <1>3, <2>1, ReplyType
  <2>2. CASE UNCHANGED toClient
    BY <1>1, <2>2, TypeParts
  <2>. QED
    BY <2>1, <2>2 DEF Discover
<1>5. TypeOK'
  BY <1>1, <1>2, <1>4, TypeParts, TypePartsNext
<1>. QED
  BY <1>1, <1>5 DEF TableInv, OneEntryPerClient

\* DHCPREQUEST and DHCPINFORM leave the client at most one entry.
LEMMA RegisterStep ==
  ASSUME TableInv, NEW c \in Clients, NEW type \in {"REQUEST", "INFORM"},
         Recv(c, type), Register(c, Head(toServer[c]).addr),
         UNCHANGED <<state, addr>>
  PROVE  TableInv'
<1>. DEFINE a == Head(toServer[c]).addr
<1>1. TypeOK
  BY DEF TableInv
<1>2. QueueOK(toServer', ToServer) /\ Head(toServer[c]) \in ToServer
  BY <1>1, RecvType
<1>3. QueueOK(toClient', ToClient)
  <2>1. CASE IsVacant(c, a) /\ Reply(c, "ACK", a)
    <3>1. a \in Entries
      BY <2>1 DEF IsVacant
    <3>. QED
      BY <1>1, <1>2, <2>1, <3>1, ReplyType
  <2>2. CASE UNCHANGED toClient
    BY <1>1, <2>2, TypeParts
  <2>. QED
    BY <2>1, <2>2 DEF Register
<1>4. mac' \in [Entries -> Clients \cup {NULL}] /\ OneEntryPerClient'
  BY RegisterTable
<1>5. TypeOK'
  BY <1>1, <1>2, <1>3, <1>4, TypeParts, TypePartsNext
<1>. QED
  BY <1>4, <1>5 DEF TableInv

\* The clients and the network do not change the table.
LEMMA ClientTable ==
  ASSUME TableInv, NEW c \in Clients,
         \/ SendDiscover(c) \/ Reboot(c) \/ Resend(c) \/ SendInform(c)
         \/ AcceptOffer(c) \/ AcceptAck(c) \/ Ignore(c)
         \/ Timeout(c) \/ Leave(c) \/ Roam(c) \/ Lose(c)
  PROVE  TableInv'
<1>. USE TypeParts DEF TableInv
<1>1. addr[c] \in Addresses \cup {NULL} /\ UNCHANGED mac
  BY DEF SendDiscover, Reboot, Resend, SendInform, AcceptOffer, AcceptAck, Ignore,
         Timeout, Leave, Roam, Lose
<1>2. state' \in [Clients -> {"init", "selecting", "requesting", "bound"}]
  BY DEF SendDiscover, Reboot, Resend, SendInform, AcceptOffer, AcceptAck, Ignore,
         Timeout, Leave, Roam, Lose
<1>3. CASE SendDiscover(c)
  <2>1. QueueOK(toServer', ToServer) /\ QueueOK(toClient', ToClient)
    BY <1>3, StartType DEF SendDiscover
  <2>2. addr' \in [Clients -> Addresses \cup {NULL}]
    BY <1>3 DEF SendDiscover
  <2>. QED
    BY <1>1, <1>2, <2>1, <2>2, TypePartsNext DEF OneEntryPerClient
<1>4. CASE Reboot(c)
  <2>1. QueueOK(toServer', ToServer) /\ QueueOK(toClient', ToClient)
    BY <1>1, <1>4, StartType DEF Reboot
  <2>. QED
    BY <1>1, <1>2, <1>4, <2>1, TypePartsNext DEF OneEntryPerClient, Reboot
<1>5. CASE Resend(c) \/ SendInform(c)
  <2>1. QueueOK(toServer', ToServer) /\ UNCHANGED <<addr, toClient>>
    BY <1>1, <1>5, SendType DEF Resend, SendInform
  <2>. QED
    BY <1>1, <1>2, <2>1, TypePartsNext DEF OneEntryPerClient
<1>6. CASE AcceptOffer(c)
  <2>. DEFINE m == Head(toClient[c])
  <2>1. m \in ToClient /\ QueueOK(toClient', ToClient)
    BY <1>6, TakeType DEF AcceptOffer
  <2>2. m.addr \in Addresses
    BY <2>1 DEF ToClient, Addresses
  <2>3. QueueOK(toServer', ToServer)
    BY <1>6, <2>2, SendType DEF AcceptOffer
  <2>4. addr' \in [Clients -> Addresses \cup {NULL}]
    BY <1>6, <2>2 DEF AcceptOffer
  <2>. QED
    BY <1>1, <1>2, <2>1, <2>3, <2>4, TypePartsNext DEF OneEntryPerClient
<1>7. CASE AcceptAck(c) \/ Ignore(c)
  <2>1. QueueOK(toClient', ToClient) /\ UNCHANGED <<addr, toServer>>
    BY <1>7, TakeType DEF AcceptAck, Ignore
  <2>. QED
    BY <1>1, <1>2, <2>1, TypePartsNext DEF OneEntryPerClient
<1>8. CASE Timeout(c) \/ Leave(c) \/ Roam(c)
  <2>1. addr' \in [Clients -> Addresses \cup {NULL}] /\ UNCHANGED <<toServer, toClient>>
    BY <1>8 DEF Timeout, Leave, Roam, Addresses
  <2>. QED
    BY <1>1, <1>2, <2>1, TypePartsNext DEF OneEntryPerClient
<1>9. CASE Lose(c)
  <2>1. QueueOK(toServer', ToServer) /\ QueueOK(toClient', ToClient)
    <3>1. CASE /\ toServer[c] # << >> /\ UNCHANGED toClient
               /\ toServer' = [toServer EXCEPT ![c] = Tail(@)]
      BY <3>1, QueueTail
    <3>2. CASE /\ toClient[c] # << >> /\ UNCHANGED toServer
               /\ toClient' = [toClient EXCEPT ![c] = Tail(@)]
      BY <3>2, QueueTail
    <3>. QED
      BY <1>9, <3>1, <3>2 DEF Lose
  <2>. QED
    BY <1>1, <1>2, <1>9, <2>1, TypePartsNext DEF OneEntryPerClient, Lose
<1>. QED
  BY <1>3, <1>4, <1>5, <1>6, <1>7, <1>8, <1>9

\* The table is inductive.
LEMMA StepTable == TableInv /\ [Next]_vars => TableInv'
<1>. SUFFICES ASSUME TableInv, [Next]_vars PROVE TableInv'
  OBVIOUS
<1>1. ASSUME NEW c \in Clients, Request(c) \/ Inform(c) PROVE TableInv'
  BY <1>1, RegisterStep DEF Request, Inform
<1>2. CASE UNCHANGED vars
  BY <1>2 DEF vars, TableInv, TypeOK, OneEntryPerClient
<1>. QED
  BY <1>1, <1>2, DiscoverTable, ClientTable DEF Next

\* A client has one entry of the table at most (udp_recv_proc frees the entry it
\* has before it writes another one), even when there is no memory for answers.
THEOREM SpecOneEntry == Spec => [](TypeOK /\ OneEntryPerClient)
<1>1. TableInv => TypeOK /\ OneEntryPerClient
  BY DEF TableInv
<1>. QED
  BY InitTable, StepTable, <1>1, PTL DEF Spec

-----------------------------------------------------------------------------
(* The address of a client.                                                *)

\* The heap and the pools of lwIP suffice.
NoFailure == AllocFails = FALSE

\* What the steps below need of the client's queues.
LEMMA QueueTypes ==
  ASSUME TypeOK, NEW c \in Clients
  PROVE  toServer[c] \in Seq(ToServer) /\ toClient[c] \in Seq(ToClient)
  BY TypeParts DEF QueueOK

\* A step of another client takes nothing from this one.
LEMMA OthersKept ==
  ASSUME NEW d, ClientInv(d),
         toServer'[d] = toServer[d], toClient'[d] = toClient[d],
         state'[d] = state[d], addr'[d] = addr[d],
         \A i \in Entries : mac[i] = d => mac'[i] = d
  PROVE  ClientInv(d)'
  BY DEF ClientInv, Settled

\* DHCPDISCOVER keeps what holds of its client.
LEMMA DiscoverOwn ==
  ASSUME TableInv, NEW c \in Clients, ClientInv(c), Discover(c)
  PROVE  ClientInv(c)'
<1>1. TypeOK /\ Recv(c, "DISCOVER") /\ UNCHANGED <<mac, state, addr>>
  BY DEF TableInv, Discover
<1>2. /\ toServer[c] \in Seq(ToServer) /\ toServer[c] # << >>
      /\ toServer'[c] = Tail(toServer[c]) /\ toClient[c] \in Seq(ToClient)
      /\ Head(toServer[c]) \in ToServer
  BY <1>1, RecvType, QueueTypes DEF Recv, TypeOK
<1>3. HasAck(toClient'[c]) => HasAck(toClient[c])
  <2>1. ASSUME NEW i, i # NULL, Reply(c, "OFFER", i), i \in Entries
        PROVE  HasAck(toClient'[c]) => HasAck(toClient[c])
    <3>. DEFINE e == Message("OFFER", i, Head(toServer[c]).current)
    <3>1. e \in ToClient /\ e.type = "OFFER"
      BY <1>1, <1>2, <2>1, ReplyType DEF Message
    <3>2. toClient'[c] = Append(toClient[c], e)
      BY <1>1, <2>1 DEF Reply, TypeOK
    <3>. HIDE DEF e
    <3>. QED
      BY <1>2, <3>1, <3>2, AppendKeeps
  <2>2. entry_by_mac(c) # NULL => entry_by_mac(c) \in Entries
    BY FirstOfIn DEF entry_by_mac
  <2>3. vacant_address # NULL => vacant_address \in Entries
    BY FirstOfIn DEF vacant_address
  <2>. QED
    BY <2>1, <2>2, <2>3 DEF Discover
<1>4. /\ CurrentLast(toServer[c]) => CurrentLast(toServer'[c])
      /\ AllCurrent(toServer[c]) => AllCurrent(toServer'[c])
      /\ OnlyDiscovers(toServer[c]) => OnlyDiscovers(toServer'[c])
      /\ AsksFor(toServer[c], addr[c]) => AsksFor(toServer'[c], addr[c])
  BY <1>2, TailKeeps
<1>. QED
  BY <1>1, <1>3, <1>4 DEF ClientInv, Settled

\* A request that is current asks for the client's own address, which is free
\* for it after its entry is freed if it is settled, and settles it otherwise.
LEMMA RegisterOwn ==
  ASSUME NoFailure, TableInv, NEW c \in Clients, ClientInv(c),
         NEW type \in {"REQUEST", "INFORM"},
         Recv(c, type), Register(c, Head(toServer[c]).addr),
         UNCHANGED <<state, addr>>
  PROVE  ClientInv(c)'
<1>. DEFINE h == Head(toServer[c])
            e == Message("ACK", h.addr, h.current)
<1>1. /\ TypeOK
      /\ toServer[c] \in Seq(ToServer) /\ toServer[c] # << >>
      /\ toServer'[c] = Tail(toServer[c]) /\ toClient[c] \in Seq(ToClient)
      /\ h \in ToServer /\ h.type # "DISCOVER"
  BY RecvType, QueueTypes DEF TableInv, Recv, TypeOK
<1>2. h = toServer[c][1] /\ 1 \in DOMAIN toServer[c]
  BY <1>1, TailOf
<1>3. CASE IsVacant(c, h.addr) /\ mac' = [Freed(c) EXCEPT ![h.addr] = c]
           /\ Reply(c, "ACK", h.addr)
  <2>1. h.addr \in Entries /\ mac'[h.addr] = c
    BY <1>3, FreedOf DEF IsVacant
  <2>2. e \in ToClient /\ e.current = h.current /\ toClient'[c] = Append(toClient[c], e)
    <3>1. e \in ToClient
      BY <1>1, <1>3, <2>1, ReplyType
    <3>. QED
      BY <1>1, <1>3, <3>1 DEF Reply, TypeOK, Message
  <2>3. HasAck(toClient'[c]) => HasAck(toClient[c]) \/ h.current
    <3>. HIDE DEF e
    <3>. QED
      BY <1>1, <2>2, AppendKeeps
  <2>4. h.current /\ state[c] \in {"requesting", "bound"} => h.addr = addr[c]
    BY <1>1, <1>2 DEF ClientInv, AsksFor
  <2>5. state[c] = "selecting" => ~h.current
    BY <1>1, <1>2 DEF ClientInv, OnlyDiscovers
  <2>6. Settled(c) => h.current
    BY <1>2 DEF ClientInv, AllCurrent
  <2>7. Settled(c)' => /\ h.current /\ state[c] \in {"requesting", "bound"}
    BY <2>3, <2>6 DEF Settled
  <2>8. Settled(c)' => /\ addr[c] \in Entries /\ mac'[addr[c]] = c
                       /\ AllCurrent(toServer'[c])
    BY <1>1, <2>1, <2>4, <2>7, TailKeeps DEF ClientInv
  <2>9. /\ CurrentLast(toServer[c]) => CurrentLast(toServer'[c])
        /\ OnlyDiscovers(toServer[c]) => OnlyDiscovers(toServer'[c])
        /\ AsksFor(toServer[c], addr[c]) => AsksFor(toServer'[c], addr[c])
    BY <1>1, TailKeeps
  <2>. QED
    BY <2>3, <2>5, <2>8, <2>9 DEF ClientInv
<1>4. CASE ~IsVacant(c, h.addr) /\ mac' = Freed(c) /\ UNCHANGED toClient
  <2>1. ~Settled(c)
    <3>. SUFFICES ASSUME Settled(c) PROVE IsVacant(c, h.addr)
      BY <1>4
    <3>1. addr[c] \in Entries /\ mac[addr[c]] = c /\ h.current
      BY <1>2 DEF ClientInv, AllCurrent
    <3>2. h.addr = addr[c]
      BY <1>1, <1>2, <3>1 DEF ClientInv, Settled, AsksFor
    <3>. QED
      BY <3>1, <3>2, FreedOf DEF IsVacant
  <2>2. ~Settled(c)'
    BY <1>4, <2>1 DEF Settled
  <2>3. /\ CurrentLast(toServer[c]) => CurrentLast(toServer'[c])
        /\ OnlyDiscovers(toServer[c]) => OnlyDiscovers(toServer'[c])
        /\ AsksFor(toServer[c], addr[c]) => AsksFor(toServer'[c], addr[c])
    BY <1>1, TailKeeps
  <2>. QED
    BY <1>4, <2>2, <2>3 DEF ClientInv
<1>. QED
  BY <1>3, <1>4 DEF Register, NoFailure

\* A client that starts an exchange makes its earlier messages old.
LEMMA StartOwn ==
  ASSUME TypeOK, NEW c \in Clients, NEW type \in {"DISCOVER", "REQUEST", "INFORM"},
         NEW a \in Addresses \cup {NULL}, Start(c, type, a)
  PROVE  /\ CurrentLast(toServer'[c]) /\ AsksFor(toServer'[c], a)
         /\ type = "DISCOVER" => OnlyDiscovers(toServer'[c])
         /\ ~HasAck(toClient'[c])
<1>. DEFINE m == Message(type, a, TRUE)
            old == Old(toServer[c])
<1>1. /\ m \in ToServer /\ m.type = type /\ m.addr = a /\ m.current = TRUE
      /\ old \in Seq(ToServer)
  BY StartType DEF Message
<1>2. CurrentLast(old) /\ OnlyDiscovers(old) /\ AsksFor(old, a)
  BY QueueTypes, OldOf DEF ToServer
<1>3. ~HasAck(Old(toClient[c]))
  BY QueueTypes, OldOf DEF ToClient
<1>4. toServer'[c] = Append(old, m) /\ toClient'[c] = Old(toClient[c])
  BY DEF Start, TypeOK
<1>. HIDE DEF m, old
<1>. QED
  BY <1>1, <1>2, <1>3, <1>4, AppendKeeps

\* A client that repeats a message keeps what holds of it.
LEMMA SendOwn ==
  ASSUME TypeOK, NEW c \in Clients, NEW type \in {"DISCOVER", "REQUEST", "INFORM"},
         NEW a \in Addresses \cup {NULL}, Send(c, type, a)
  PROVE  /\ CurrentLast(toServer[c]) => CurrentLast(toServer'[c])
         /\ AllCurrent(toServer[c]) => AllCurrent(toServer'[c])
         /\ AsksFor(toServer[c], a) => AsksFor(toServer'[c], a)
         /\ type = "DISCOVER" /\ OnlyDiscovers(toServer[c])
              => OnlyDiscovers(toServer'[c])
         /\ OnlyDiscovers(toServer[c]) => AsksFor(toServer'[c], a)
<1>. DEFINE m == Message(type, a, TRUE)
<1>1. m \in ToServer /\ m.type = type /\ m.addr = a /\ m.current = TRUE
  BY SendType DEF Message
<1>2. toServer'[c] = Append(toServer[c], m) /\ toServer[c] \in Seq(ToServer)
  BY QueueTypes DEF Send, TypeOK
<1>3. OnlyDiscovers(toServer[c]) => AsksFor(toServer[c], a)
  BY DEF OnlyDiscovers, AsksFor
<1>. HIDE DEF m
<1>. QED
  BY <1>1, <1>2, <1>3, AppendKeeps

\* So does one that takes a message.
LEMMA TakeOwn ==
  ASSUME TypeOK, NEW c \in Clients, Take(c)
  PROVE  HasAck(toClient'[c]) => HasAck(toClient[c])
  BY QueueTypes, TailKeeps DEF Take, TypeOK

\* So does every step of a client and of the network.
LEMMA ClientOwn ==
  ASSUME TableInv, NEW c \in Clients, ClientInv(c),
         \/ SendDiscover(c) \/ Reboot(c) \/ Resend(c) \/ SendInform(c)
         \/ AcceptOffer(c) \/ AcceptAck(c) \/ Ignore(c)
         \/ Timeout(c) \/ Leave(c) \/ Roam(c) \/ Lose(c)
  PROVE  ClientInv(c)'
<1>1. /\ TypeOK /\ addr[c] \in Addresses \cup {NULL}
      /\ state \in [Clients -> {"init", "selecting", "requesting", "bound"}]
      /\ addr \in [Clients -> Addresses \cup {NULL}]
  BY DEF TableInv, TypeOK
<1>2. CASE SendDiscover(c)
  <2>1. state'[c] = "selecting" /\ Start(c, "DISCOVER", NULL)
    BY <1>1, <1>2 DEF SendDiscover
  <2>. QED
    BY <1>1, <2>1, StartOwn DEF ClientInv, Settled
<1>3. CASE Reboot(c)
  <2>1. /\ state'[c] = "requesting" /\ addr'[c] = addr[c]
        /\ Start(c, "REQUEST", addr[c])
    BY <1>1, <1>3 DEF Reboot
  <2>. QED
    BY <1>1, <2>1, StartOwn DEF ClientInv, Settled
<1>4. CASE Resend(c) \/ SendInform(c)
  <2>1. UNCHANGED <<mac, state, addr, toClient>>
    BY <1>4 DEF Resend, SendInform
  <2>2. CASE state[c] = "selecting" /\ Send(c, "DISCOVER", NULL)
    BY <1>1, <2>1, <2>2, SendOwn DEF ClientInv, Settled
  <2>3. CASE \/ state[c] = "requesting" /\ Send(c, "REQUEST", addr[c])
             \/ state[c] = "bound" /\ Send(c, "INFORM", addr[c])
    BY <1>1, <2>1, <2>3, SendOwn DEF ClientInv, Settled
  <2>. QED
    BY <1>4, <2>2, <2>3 DEF Resend, SendInform
<1>5. CASE AcceptOffer(c)
  <2>. DEFINE m == Head(toClient[c])
  <2>1. Take(c) /\ m \in ToClient /\ state[c] = "selecting" /\ m.addr \in Addresses
    BY <1>1, <1>5, TakeType DEF AcceptOffer, IsAwaited, ToClient, Addresses
  <2>2. state'[c] = "requesting" /\ addr'[c] = m.addr /\ Send(c, "REQUEST", m.addr)
    BY <1>1, <1>5 DEF AcceptOffer
  <2>3. CurrentLast(toServer'[c]) /\ AsksFor(toServer'[c], m.addr)
    BY <1>1, <2>1, <2>2, SendOwn DEF ClientInv
  <2>4. ~HasAck(toClient'[c])
    BY <1>1, <2>1, TakeOwn DEF ClientInv
  <2>. QED
    BY <2>2, <2>3, <2>4 DEF ClientInv, Settled
<1>6. CASE AcceptAck(c)
  <2>. DEFINE m == Head(toClient[c])
  <2>1. /\ state[c] = "requesting" /\ state'[c] = "bound"
        /\ m.current /\ m.type = "ACK" /\ toClient[c] # << >>
        /\ UNCHANGED <<mac, addr, toServer>>
    BY <1>1, <1>6 DEF AcceptAck, IsAwaited, Take
  <2>2. Settled(c)
    <3>1. m = toClient[c][1] /\ 1 \in DOMAIN toClient[c]
      BY <1>1, <2>1, QueueTypes, TailOf
    <3>. QED
      BY <2>1, <3>1 DEF Settled, HasAck
  <2>. QED
    BY <2>1, <2>2 DEF ClientInv
<1>7. CASE Ignore(c)
  <2>1. UNCHANGED <<mac, state, addr, toServer>> /\ Take(c)
    BY <1>7 DEF Ignore
  <2>. QED
    BY <1>1, <2>1, TakeOwn DEF ClientInv, Settled
<1>8. CASE Timeout(c) \/ Leave(c) \/ Roam(c)
  <2>1. state'[c] = "init" /\ UNCHANGED toServer
    BY <1>1, <1>8 DEF Timeout, Leave, Roam
  <2>. QED
    BY <2>1 DEF ClientInv, Settled
<1>9. CASE Lose(c)
  <2>1. UNCHANGED <<mac, state, addr>>
    BY <1>9 DEF Lose
  <2>2. /\ CurrentLast(toServer[c]) => CurrentLast(toServer'[c])
        /\ AllCurrent(toServer[c]) => AllCurrent(toServer'[c])
        /\ OnlyDiscovers(toServer[c]) => OnlyDiscovers(toServer'[c])
        /\ AsksFor(toServer[c], addr[c]) => AsksFor(toServer'[c], addr[c])
        /\ HasAck(toClient'[c]) => HasAck(toClient[c])
    <3>1. CASE toServer[c] # << >> /\ toServer'[c] = Tail(toServer[c])
               /\ UNCHANGED toClient
      BY <1>1, <3>1, QueueTypes, TailKeeps
    <3>2. CASE toClient[c] # << >> /\ toClient'[c] = Tail(toClient[c])
               /\ UNCHANGED toServer
      BY <1>1, <3>2, QueueTypes, TailKeeps
    <3>. QED
      BY <1>1, <1>9, <3>1, <3>2 DEF Lose, TypeOK
  <2>. QED
    BY <2>1, <2>2 DEF ClientInv, Settled
<1>. QED
  BY <1>2, <1>3, <1>4, <1>5, <1>6, <1>7, <1>8, <1>9

\* The inductive invariant of the server and its clients.
IInv == TableInv /\ \A c \in Clients : ClientInv(c)

\* At first nothing is in flight.
LEMMA InitIInv == Init => IInv
<1>. SUFFICES ASSUME Init, NEW c \in Clients PROVE ClientInv(c)
  BY InitTable DEF IInv
<1>1. state[c] = "init" /\ toServer[c] = << >>
  BY DEF Init
<1>2. CurrentLast(toServer[c])
  BY <1>1 DEF CurrentLast
<1>. QED
  BY <1>1, <1>2 DEF ClientInv, Settled

\* The steps that are made for client c.
Step(c) ==
  \/ Discover(c) \/ Request(c) \/ Inform(c)
  \/ SendDiscover(c) \/ Reboot(c) \/ Resend(c) \/ SendInform(c)
  \/ AcceptOffer(c) \/ AcceptAck(c) \/ Ignore(c)
  \/ Timeout(c) \/ Leave(c) \/ Roam(c) \/ Lose(c)

\* A step for a client keeps what holds of that client.
LEMMA StepOwn ==
  ASSUME NoFailure, IInv, NEW c \in Clients, Step(c)
  PROVE  ClientInv(c)'
<1>1. CASE Request(c) \/ Inform(c)
  BY <1>1, RegisterOwn DEF IInv, Request, Inform
<1>2. CASE Discover(c)
  BY <1>2, DiscoverOwn DEF IInv
<1>. QED
  BY <1>1, <1>2, ClientOwn DEF IInv, Step

\* A step for a client keeps what holds of another.
LEMMA StepOthers ==
  ASSUME IInv, NEW c \in Clients, Step(c), NEW d \in Clients, d # c
  PROVE  ClientInv(d)'
<1>1. TypeOK /\ TableInv /\ ClientInv(d) /\ d # NULL
  BY DhcpAssumption DEF IInv, TableInv
<1>2. toServer'[d] = toServer[d] /\ toClient'[d] = toClient[d]
  BY <1>1 DEF Step, TypeOK, Discover, Request, Inform, Recv, Register, Reply,
    SendDiscover, Reboot, Resend, SendInform, Start, Send, AcceptOffer, AcceptAck,
    Ignore, Take, Timeout, Leave, Roam, Lose
<1>3. state'[d] = state[d] /\ addr'[d] = addr[d]
  BY <1>1 DEF Step, TypeOK, Discover, Request, Inform,
    SendDiscover, Reboot, Resend, SendInform, AcceptOffer, AcceptAck,
    Ignore, Timeout, Leave, Roam, Lose
<1>4. \A i \in Entries : mac[i] = d => mac'[i] = d
  <2>1. CASE Request(c) \/ Inform(c)
    BY <1>1, <2>1, RegisterTable DEF Request, Inform
  <2>2. CASE ~(Request(c) \/ Inform(c))
    BY <2>2 DEF Step, Discover, SendDiscover, Reboot, Resend, SendInform,
      AcceptOffer, AcceptAck, Ignore, Timeout, Leave, Roam, Lose
  <2>. QED
    BY <2>1, <2>2
<1>. QED
  BY <1>1, <1>2, <1>3, <1>4, OthersKept

\* The invariant is inductive where pbuf_alloc does not fail.
LEMMA StepIInv == NoFailure /\ IInv /\ [Next]_vars => IInv'
<1>. SUFFICES ASSUME NoFailure, IInv, [Next]_vars, NEW d \in Clients
              PROVE  ClientInv(d)'
  BY StepTable DEF IInv
<1>1. CASE UNCHANGED vars
  BY <1>1, OthersKept DEF vars, IInv
<1>2. ASSUME NEW c \in Clients, Step(c) PROVE ClientInv(d)'
  BY <1>2, StepOwn, StepOthers
<1>. QED
  BY <1>1, <1>2 DEF Next, Step

\* As long as pbuf_alloc does not fail, the address that a client uses is
\* registered for it and for nobody else, whatever arrives late, twice or never.
THEOREM SpecRegistered ==
  ASSUME NoFailure
  PROVE  Spec => [](BoundIsRegistered /\ NoDuplicateAddress)
<1>1. IInv => BoundIsRegistered /\ NoDuplicateAddress
  BY DEF IInv, ClientInv, Settled, BoundIsRegistered, NoDuplicateAddress
<1>2. IInv /\ [Next]_vars => IInv'
  BY StepIInv
<1>. QED
  BY InitIInv, <1>1, <1>2, PTL DEF Spec

-----------------------------------------------------------------------------
(* DhcpSystem.                                                             *)

\* The bytes the constructor's arguments leave for the clients.
Pool == (first .. first + number - 1) \ {own}

\* The clients wait for the constructor, whose arguments leave NumEntry bytes.
SystemInv ==
  /\ Cardinality(Pool) = NumEntry
  /\ num_entry = 0 => \A c \in Clients : state[c] = "init"

\* What a client that is bound puts at the end of its address.
LastByte(c) == entries[addr[c]]

\* Clients that are bound have addresses of the range, none of them the
\* server's, and no two of them the same.
LeasesApart ==
  /\ \A c \in Clients : state[c] = "bound" => LastByte(c) \in Pool
  /\ \A c, d \in Clients :
       state[c] = "bound" /\ state[d] = "bound" /\ LastByte(c) = LastByte(d) => c = d

\* Neither part of the system disturbs the other.
LEMMA SystemImplements == SystemSpec => Spec /\ PoolSpec
<1>1. SystemInit => Init /\ PoolInit
  BY DEF SystemInit
<1>2. [SystemNext]_<<vars, poolVars>> => [Next]_vars /\ [PoolNext]_poolVars
  BY DEF SystemNext, Construct, Serve
<1> QED
  BY <1>1, <1>2, PTL DEF SystemSpec, Spec, PoolSpec

\* It holds in every state.
LEMMA SpecSystemInv == SystemSpec => []SystemInv
<1>1. SystemInit => SystemInv
  BY DEF SystemInit, Init, SystemInv, Pool
<1>2. SystemInv /\ [SystemNext]_<<vars, poolVars>> => SystemInv'
  <2> SUFFICES ASSUME SystemInv, [SystemNext]_<<vars, poolVars>>
               PROVE  SystemInv'
    OBVIOUS
  <2>1. UNCHANGED <<own, first, number>>
    BY DEF SystemNext, Construct, Serve, PoolNext, Fill, PoolEnd, poolVars
  <2>2. (Cardinality(Pool) = NumEntry)'
    BY <2>1 DEF SystemInv, Pool
  <2>3. num_entry' = 0 => num_entry = 0
    BY DEF SystemNext, Construct, Serve, poolVars
  <2>4. num_entry = 0 => state' = state
    BY DEF SystemNext, Construct, Serve, vars
  <2> QED
    BY <2>2, <2>3, <2>4 DEF SystemInv
<1> QED
  BY <1>1, <1>2, PTL DEF SystemSpec

\* A table without repetitions has as many entries as it has addresses.
LEMMA NumEntryIs ==
  ASSUME PoolTypeOK, SystemInv, PoolIsRange, num_entry # 0
  PROVE  num_entry = NumEntry
<1> DEFINE f == [k \in 1 .. num_entry |-> entries[k]]
<1>1. num_entry \in Nat
  BY PoolAssumption DEF PoolTypeOK, Byte
<1>2. /\ Pool = {entries[k] : k \in 1 .. num_entry}
      /\ \A j, k \in 1 .. num_entry : entries[j] = entries[k] => j = k
  BY DEF PoolIsRange, Pool
<1>3. f \in Bijection(1 .. num_entry, Pool)
  <2>1. f \in [1 .. num_entry -> Pool]
    BY <1>2
  <2>2. \A a, b \in 1 .. num_entry : f[a] = f[b] => a = b
    BY <1>2
  <2>3. \A t \in Pool : \E k \in 1 .. num_entry : f[k] = t
    BY <1>2
  <2> HIDE DEF f
  <2> QED
    BY <2>1, <2>2, <2>3 DEF Bijection, Injection, Surjection, IsInjective
<1>4. Cardinality(Pool) = num_entry
  <2>1. ExistsBijection(1 .. num_entry, Pool)
    BY <1>3 DEF ExistsBijection
  <2> QED
    BY <1>1, <2>1, FS_CountingElements
<1> QED
  BY <1>4 DEF SystemInv

\* From the constructor on, whatever range it was given and whatever the
\* network loses or delays: as long as pbuf_alloc does not fail, no two clients
\* use the same IP address, and none uses the server's or one out of the range.
THEOREM SystemLeasesApart ==
  ASSUME NoFailure
  PROVE  SystemSpec => []LeasesApart
<1>1. IInv /\ PoolTypeOK /\ SystemInv /\ PoolIsRange => LeasesApart
  <2> SUFFICES ASSUME IInv, PoolTypeOK, SystemInv, PoolIsRange
               PROVE  LeasesApart
    OBVIOUS
  <2>1. ASSUME NEW c \in Clients, state[c] = "bound"
        PROVE  /\ num_entry # 0 /\ addr[c] \in 1 .. num_entry
               /\ mac[addr[c]] = c
    <3>1. num_entry # 0
      BY <2>1 DEF SystemInv
    <3>2. addr[c] \in Entries /\ mac[addr[c]] = c
      BY <2>1 DEF IInv, ClientInv, Settled
    <3> QED
      BY <3>1, <3>2, NumEntryIs DEF Entries
  <2>2. ASSUME NEW c \in Clients, state[c] = "bound"
        PROVE  LastByte(c) \in Pool
    BY <2>1, <2>2 DEF LastByte, Pool, PoolIsRange
  <2>3. ASSUME NEW c \in Clients, NEW d \in Clients, state[c] = "bound",
               state[d] = "bound", LastByte(c) = LastByte(d)
        PROVE  c = d
    <3>1. addr[c] = addr[d]
      BY <2>1, <2>3 DEF LastByte, PoolIsRange
    <3> QED
      BY <2>1, <2>3, <3>1
  <2> QED
    BY <2>2, <2>3 DEF LeasesApart
<1>2. Spec => []IInv
  <2>1. IInv /\ [Next]_vars => IInv'
    BY StepIInv
  <2> QED
    BY InitIInv, <2>1, PTL DEF Spec
<1> QED
  BY <1>1, <1>2, SystemImplements, SpecSystemInv, SpecInv, SpecPoolIsRange, PTL

\* From the constructor on, even where pbuf_alloc may fail: the table has every
\* address of the range once, and a client has at most one of its entries.
THEOREM SystemOneEntry == SystemSpec => [](OneEntryPerClient /\ PoolIsRange)
<1>1. TypeOK /\ OneEntryPerClient => OneEntryPerClient
  OBVIOUS
<1> QED
  BY <1>1, SystemImplements, SpecOneEntry, SpecPoolIsRange, PTL

=============================================================================
