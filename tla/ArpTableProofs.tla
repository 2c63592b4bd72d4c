--------------------------- MODULE ArpTableProofs ---------------------------
(***************************************************************************)
(* Theorems about ArpController and EthernetUtilities, for any number of   *)
(* hosts, any table, bytes of any width and data of any length.            *)
(*                                                                         *)
(* ArpController: a record counts the callbacks since its host was last    *)
(* heard, and how many requests it was sent says how many these are.       *)
(*                                                                         *)
(* EthernetUtilities: every step of the computations keeps the sum up to   *)
(* multiples of MaxWord.                                                   *)
(***************************************************************************)
EXTENDS ArpController, EthernetUtilities, ListTheorems, FiniteSetTheorems

-----------------------------------------------------------------------------
(* ArpController.                                                          *)

\* Deleted, line by line: a record that has expired is deleted unless the one
\* before it was.
LEMMA DeletedLines ==
  ASSUME TypeOK
  PROVE  /\ Len(table) \in Nat
         /\ \A i \in 0 .. Len(table) : Deleted[i] \in BOOLEAN
         /\ ~Deleted[0]
         /\ \A i \in 1 .. Len(table) :
              Deleted[i] <=> IsExpired(table[i]) /\ ~Deleted[i - 1]
<1> DEFINE n == Len(table)
           Def(f) == f = [i \in 0 .. n |-> i # 0 /\ IsExpired(table[i]) /\ ~f[i - 1]]
           step == [i \in 1 .. n |-> [v \in BOOLEAN |-> IsExpired(table[i]) /\ ~v]]
<1>1. n \in Nat
  BY DEF TypeOK
<1>2. PICK g : IsRecursion(g, n, BOOLEAN, FALSE, step)
  <2>1. step \in [1 .. n -> [BOOLEAN -> BOOLEAN]]
    OBVIOUS
  <2> HIDE DEF step, n
  <2>2. QED
    BY <1>1, <2>1, RecursionOf
<1>3. Def(g)
  <2>1. g \in [0 .. n -> BOOLEAN] /\ g[0] = FALSE
    BY <1>2, Zenon DEF IsRecursion
  <2>2. \A i \in 1 .. n : g[i] = step[i][g[i - 1]]
    BY <1>2, Zenon DEF IsRecursion
  <2>3. ASSUME NEW i \in 1 .. n PROVE g[i] = (IsExpired(table[i]) /\ ~g[i - 1])
    <3>1. i - 1 \in 0 .. n
      BY <1>1
    <3>2. g[i - 1] \in BOOLEAN
      BY <2>1, <3>1, Zenon
    <3>3. step[i][g[i - 1]] = (IsExpired(table[i]) /\ ~g[i - 1])
      BY <3>2, Zenon
    <3>4. QED
      BY <2>2, <3>3, Zenon
  <2>4. ASSUME NEW i \in 0 .. n
        PROVE  g[i] = (i # 0 /\ IsExpired(table[i]) /\ ~g[i - 1])
    <3>1. CASE i = 0
      BY <2>1, <3>1, Zenon
    <3>2. CASE i # 0
      <4>1. i \in 1 .. n
        BY <1>1, <3>2
      <4>2. g[i] = (IsExpired(table[i]) /\ ~g[i - 1])
        BY <2>3, <4>1, Zenon
      <4>3. QED
        BY <3>2, <4>2, Zenon
    <3>3. QED
      BY <3>1, <3>2, Zenon
  <2>5. QED
    BY <2>1, <2>4, Zenon
<1>4. Def(Deleted)
  <2>1. Deleted = CHOOSE f : Def(f)
    BY Zenon DEF Deleted
  <2> HIDE DEF Def
  <2>2. QED
    BY <1>3, <2>1, Zenon
<1>5. \A i \in 0 .. n : Deleted[i] = (i # 0 /\ IsExpired(table[i]) /\ ~Deleted[i - 1])
  BY <1>4, Zenon
<1>6. 0 \in 0 .. n /\ \A i \in 1 .. n : i \in 0 .. n /\ i # 0
  BY <1>1
<1>7. QED
  BY <1>1, <1>5, <1>6, Zenon

\* The line p after an ageing that does not delete it.
Aging(p) == IF Deleted[p - 1] THEN table[p] ELSE [table[p] EXCEPT !.time = @ + 1]

\* The first i lines after an ageing, from those in front of line i.
IsAging(g) ==
  /\ \A i \in 0 .. Len(table) : g[i] \in Seq(Record)
  /\ g[0] = << >>
  /\ \A i \in 1 .. Len(table) :
       /\ Deleted[i] => g[i] = g[i - 1]
       /\ ~Deleted[i] => g[i] = Append(g[i - 1], Aging(i))

\* A record that stays keeps its addresses, and is older unless it is skipped.
LEMMA AgingIsRecord ==
  ASSUME TypeOK, NEW i \in 1 .. Len(table), ~Deleted[i]
  PROVE  /\ Aging(i) \in Record
         /\ Aging(i).ip = table[i].ip /\ Aging(i).mac = table[i].mac
         /\ Deleted[i - 1] => Aging(i).time = table[i].time
         /\ ~Deleted[i - 1] => Aging(i).time = table[i].time + 1
<1>1. table[i] \in Record /\ Delete \in Nat
  BY ArpAssumption DEF TypeOK
<1>2. CASE Deleted[i - 1]
  BY <1>1, <1>2 DEF Aging
<1>3. CASE ~Deleted[i - 1]
  <2>1. ~IsExpired(table[i])
    BY <1>3, DeletedLines
  <2>2. table[i].time + 1 \in 0 .. Delete
    BY <1>1, <2>1 DEF Record, IsExpired
  <2>3. Aging(i) = [table[i] EXCEPT !.time = @ + 1]
    BY <1>3, Zenon DEF Aging
  <2>4. QED
    BY <1>1, <1>3, <2>2, <2>3 DEF Record
<1>4. QED
  BY <1>2, <1>3

\* Aged, line by line, is what IsAging says.
LEMMA AgedLines ==
  ASSUME TypeOK
  PROVE  IsAging(Aged)
<1> DEFINE n == Len(table)
           V == Seq(Record)
           b == << >>
           Line(i, t) == IF Deleted[i] THEN t ELSE Append(t, Aging(i))
           step == [i \in 1 .. n |-> [t \in V |-> Line(i, t)]]
           Def(f) == f = [i \in 0 .. n |->
             IF i = 0 THEN << >>
             ELSE IF Deleted[i] THEN f[i - 1]
             ELSE IF Deleted[i - 1] THEN Append(f[i - 1], table[i])
             ELSE Append(f[i - 1], [table[i] EXCEPT !.time = @ + 1])]
<1>1. n \in Nat /\ \A i \in 1 .. n : i \in 0 .. n /\ i # 0 /\ i - 1 \in 0 .. n
  BY DEF TypeOK
<1>2. PICK g : IsRecursion(g, n, V, b, step)
  <2>1. ASSUME NEW i \in 1 .. n, NEW t \in V PROVE Line(i, t) \in V
    <3>1. CASE Deleted[i]
      BY <3>1, Zenon
    <3>2. CASE ~Deleted[i]
      <4>1. Aging(i) \in Record
        BY <3>2, AgingIsRecord
      <4>2. Append(t, Aging(i)) \in V
        BY <4>1
      <4>3. QED
        BY <3>2, <4>2, Zenon
    <3>3. QED
      BY <3>1, <3>2, Zenon
  <2> HIDE DEF Line
  <2>2. step \in [1 .. n -> [V -> V]]
    BY <2>1
  <2>3. b \in V
    OBVIOUS
  <2> HIDE DEF step, n, V, b
  <2>4. QED
    BY <1>1, <2>2, <2>3, RecursionOf
<1>3. g \in [0 .. n -> V] /\ g[0] = b /\ \A i \in 1 .. n : g[i] = step[i][g[i - 1]]
  BY <1>2, Zenon DEF IsRecursion
<1>4. \A i \in 1 .. n : g[i] = Line(i, g[i - 1])
  <2>1. ASSUME NEW i \in 1 .. n PROVE g[i] = Line(i, g[i - 1])
    <3>1. g[i - 1] \in V
      BY <1>1, <1>3, Zenon
    <3>2. step[i][g[i - 1]] = Line(i, g[i - 1])
      BY <3>1, Zenon
    <3>3. QED
      BY <1>3, <3>2, Zenon
  <2>2. QED
    BY <2>1, Zenon
<1>5. Def(g)
  <2>1. ASSUME NEW i \in 0 .. n
        PROVE  g[i] = IF i = 0 THEN << >>
                      ELSE IF Deleted[i] THEN g[i - 1]
                      ELSE IF Deleted[i - 1] THEN Append(g[i - 1], table[i])
                      ELSE Append(g[i - 1], [table[i] EXCEPT !.time = @ + 1])
    <3>1. CASE i = 0
      BY <1>3, <3>1, Zenon
    <3>2. CASE i # 0
      <4>1. i \in 1 .. n
        BY <1>1, <3>2
      <4>2. QED
        BY <1>4, <3>2, <4>1, Zenon DEF Aging
    <3>3. QED
      BY <3>1, <3>2, Zenon
  <2>2. QED
    BY <1>3, <2>1, Zenon
<1>6. Def(Aged)
  <2>1. Aged = CHOOSE f : Def(f)
    BY Zenon DEF Aged
  <2> HIDE DEF Def
  <2>2. QED
    BY <1>5, <2>1, Zenon
<1>7. Aged = g
  <2> DEFINE Same == {i \in 0 .. n : Aged[i] = g[i]}
  <2>1. \A i \in 0 .. n :
          Aged[i] = IF i = 0 THEN << >>
                    ELSE IF Deleted[i] THEN Aged[i - 1]
                    ELSE IF Deleted[i - 1] THEN Append(Aged[i - 1], table[i])
                    ELSE Append(Aged[i - 1], [table[i] EXCEPT !.time = @ + 1])
    BY <1>6, Zenon
  <2>2. 0 \in Same
    <3>1. 0 \in 0 .. n
      BY <1>1
    <3>2. Aged[0] = << >>
      BY <2>1, <3>1, Zenon
    <3>3. QED
      BY <1>3, <3>1, <3>2, Zenon
  <2>3. ASSUME NEW i \in 1 .. n, i - 1 \in Same PROVE i \in Same
    <3>1. Aged[i - 1] = g[i - 1]
      BY <2>3, Zenon
    <3>2. Aged[i] = Line(i, g[i - 1])
      BY <1>1, <2>1, <3>1, Zenon DEF Aging
    <3>3. QED
      BY <1>1, <1>4, <3>2, Zenon
  <2>4. 0 .. n \subseteq Same
    <3> HIDE DEF Same, n
    <3>1. QED
      BY <1>1, <2>2, <2>3, InductionOf
  <2>5. \A i \in 0 .. n : Aged[i] = g[i]
    BY <2>4, Zenon
  <2>6. Aged = [i \in 0 .. n |-> Aged[i]]
    BY <1>6, Zenon
  <2>7. QED
    BY <1>3, <2>5, <2>6, Zenon
<1>8. \A i \in 0 .. n : g[i] \in V
  BY <1>3, Zenon
<1>9. QED
  BY <1>3, <1>4, <1>7, <1>8, Zenon DEF IsAging

\* Line j of t is what an ageing makes of line p.
IsFrom(t, j, p) ==
  /\ ~Deleted[p] /\ t[j] = Aging(p)
  /\ j <= p
  /\ Deleted[p - 1] => j < p

\* No address has two records.
OneRecord == \A i, j \in 1 .. Len(table) : table[i].ip = table[j].ip => i = j

\* t is what an ageing makes of the first i lines.
IsAgedTo(t, i) ==
  /\ t \in Seq(Record)
  /\ Len(t) <= i
  /\ Deleted[i] => Len(t) < i
  /\ \A j \in 1 .. Len(t) : \E p \in 1 .. i : IsFrom(t, j, p)
  /\ \A p \in 1 .. i : ~Deleted[p] => \E j \in 1 .. Len(t) : t[j] = Aging(p)
  /\ \A j, k \in 1 .. Len(t) : t[j].ip = t[k].ip => j = k

\* What a pass leaves are the records it does not delete, each address once.
LEMMA AgedPlaces ==
  ASSUME TypeOK, OneRecord
  PROVE  IsAgedTo(Aged[Len(table)], Len(table))
<1> DEFINE n == Len(table)
           Good == {i \in 0 .. n : IsAgedTo(Aged[i], i)}
<1>1. n \in Nat /\ IsAging(Aged) /\ ~Deleted[0]
  BY AgedLines, DeletedLines
<1>2. 0 \in Good
  <2>1. Aged[0] = << >> /\ 0 \in 0 .. n
    BY <1>1 DEF IsAging
  <2>2. IsAgedTo(<< >>, 0)
    BY <1>1 DEF IsAgedTo
  <2>3. QED
    BY <2>1, <2>2
<1>3. ASSUME NEW i \in 1 .. n, i - 1 \in Good
      PROVE  i \in Good
  <2> DEFINE t == Aged[i - 1]
  <2>1. IsAgedTo(t, i - 1) /\ i \in 0 .. n /\ i \in Nat /\ \A p \in 1 .. i : p \in 1 .. i - 1 \/ p = i
    BY <1>1, <1>3
  <2> HIDE DEF t
  <2>2. CASE Deleted[i]
    <3>1. Aged[i] = t
      BY <1>1, <2>2, Zenon DEF IsAging, t
    <3>2. IsAgedTo(t, i)
      BY <2>1, <2>2 DEF IsAgedTo
    <3>3. QED
      BY <2>1, <3>1, <3>2
  <2>3. CASE ~Deleted[i]
    <3> DEFINE a == Aging(i)
               u == Append(t, a)
               m == Len(t)
    <3>1. Aged[i] = u
      BY <1>1, <2>3, Zenon DEF IsAging, t
    <3>2. a \in Record /\ a.ip = table[i].ip /\ a = Aging(i)
      BY <2>3, AgingIsRecord
    <3>3. t \in Seq(Record) /\ m \in Nat /\ m <= i - 1 /\ (Deleted[i - 1] => m < i - 1)
      BY <2>1 DEF IsAgedTo
    <3> HIDE DEF a
    <3>4. /\ u \in Seq(Record) /\ Len(u) = m + 1 /\ u[m + 1] = a
          /\ \A j \in 1 .. m : u[j] = t[j]
          /\ \A j \in 1 .. m + 1 : j \in 1 .. m \/ j = m + 1
      BY <3>2, <3>3
    <3> HIDE DEF u, m
    <3>5. ASSUME NEW j \in 1 .. m PROVE \E p \in 1 .. i - 1 : IsFrom(u, j, p)
      <4>1. PICK p \in 1 .. i - 1 : IsFrom(t, j, p)
        BY <2>1, Zenon DEF IsAgedTo, m
      <4>2. u[j] = t[j]
        BY <3>4
      <4>3. IsFrom(u, j, p)
        BY <4>1, <4>2, Zenon DEF IsFrom
      <4>4. QED
        BY <4>3
    <3>6. IsFrom(u, m + 1, i)
      BY <2>3, <3>2, <3>3, <3>4 DEF IsFrom
    <3>7. \A j \in 1 .. m + 1 : \E p \in 1 .. i : IsFrom(u, j, p)
      <4>1. 1 .. i - 1 \subseteq 1 .. i /\ i \in 1 .. i
        BY <2>1
      <4>2. QED
        BY <3>4, <3>5, <3>6, <4>1, Zenon
    <3>8. ASSUME NEW p \in 1 .. i, ~Deleted[p]
          PROVE  \E j \in 1 .. m + 1 : u[j] = Aging(p)
      <4>1. m + 1 \in 1 .. m + 1 /\ 1 .. m \subseteq 1 .. m + 1
        BY <3>3
      <4>2. CASE p = i
        BY <3>2, <3>4, <4>1, <4>2, Zenon
      <4>3. CASE p \in 1 .. i - 1
        <5>1. PICK j \in 1 .. m : t[j] = Aging(p)
          BY <2>1, <3>8, <4>3, Zenon DEF IsAgedTo, m
        <5>2. QED
          BY <3>4, <4>1, <5>1, Zenon
      <4>4. QED
        BY <2>1, <4>2, <4>3, Zenon
    <3>9. ASSUME NEW j \in 1 .. m PROVE u[j].ip # a.ip
      <4>1. PICK p \in 1 .. i - 1 : IsFrom(u, j, p)
        BY <3>5
      <4>2. p \in 1 .. n /\ p # i
        BY <1>1
      <4>3. u[j].ip = table[p].ip
        BY <4>1, <4>2, AgingIsRecord DEF IsFrom
      <4>4. QED
        BY <3>2, <4>2, <4>3 DEF OneRecord
    <3>10. ASSUME NEW j \in 1 .. m + 1, NEW k \in 1 .. m + 1, u[j].ip = u[k].ip
           PROVE  j = k
      <4>1. CASE j \in 1 .. m /\ k \in 1 .. m
        <5>1. t[j].ip = t[k].ip
          BY <3>4, <3>10, <4>1, Zenon
        <5>2. QED
          BY <2>1, <4>1, <5>1, Zenon DEF IsAgedTo, m
      <4>2. CASE j = m + 1 /\ k = m + 1
        BY <4>2
      <4>3. CASE j = m + 1 /\ k \in 1 .. m
        BY <3>4, <3>9, <3>10, <4>3, Zenon
      <4>4. CASE j \in 1 .. m /\ k = m + 1
        BY <3>4, <3>9, <3>10, <4>4, Zenon
      <4>5. QED
        BY <3>4, <4>1, <4>2, <4>3, <4>4, Zenon
    <3>11. m + 1 <= i
      BY <2>1, <3>3
    <3>12. IsAgedTo(u, i)
      BY <2>3, <3>4, <3>7, <3>8, <3>10, <3>11, Zenon DEF IsAgedTo
    <3>13. QED
      BY <2>1, <3>1, <3>12
  <2>4. QED
    BY <2>2, <2>3
<1>4. 0 .. n \subseteq Good
  <2> HIDE DEF Good, n
  <2>1. QED
    BY <1>1, <1>2, <1>3, InductionOf
<1>5. n \in Good
  <2>1. n \in 0 .. n
    BY <1>1
  <2>2. QED
    BY <1>4, <2>1, Zenon
<1>6. QED
  BY <1>5

-----------------------------------------------------------------------------
(* The inductive invariant.                                                *)

\* What the record in line i tells of its host: the address it announced last;
\* its time is no longer than the host's silence, and behind it by no more
\* callbacks than lines that were in front of it; in each callback since the
\* refresh time a request was sent or could not be.
IsTold(i) ==
  /\ table[i].mac = heard[table[i].ip]
  /\ table[i].time <= age[table[i].ip]
  /\ age[table[i].ip] + i + 1 <= table[i].time + Size
  /\ table[i].time <= asked[table[i].ip] + hindered[table[i].ip] + Refresh

\* The inductive invariant of the ARP table.
ArpInv ==
  /\ TypeOK
  /\ OneRecord
  /\ \A i \in 1 .. Len(table) : IsTold(i)
  /\ \A h \in Hosts : asked[h] <= age[h] /\ hindered[h] <= age[h]

\* What the assumptions on the constants say of each.
LEMMA ArpConstants ==
  /\ Size \in Nat \ {0} /\ NumReply \in Nat \ {0} /\ Refresh \in Nat /\ Delete \in Nat
  /\ Refresh < Delete /\ MaxAge \in Nat /\ MaxAge = Delete + Size
BY ArpAssumption DEF MaxAge

\* The line getArpTableIndex() finds is the only one of the address.
LEMMA IndexFound ==
  ASSUME TypeOK, OneRecord, NEW ip \in Visible
  PROVE  /\ getArpTableIndex(ip) \in 1 .. Len(table)
         /\ table[getArpTableIndex(ip)].ip = ip
<1> DEFINE At(i) == table[i].ip = ip /\ \A j \in 1 .. i - 1 : table[j].ip # ip
<1>1. DOMAIN table = 1 .. Len(table) /\ Len(table) \in Nat
  BY DEF TypeOK
<1>2. PICK i \in 1 .. Len(table) : table[i].ip = ip
  BY <1>1 DEF Visible
<1>3. At(i)
  <2>1. \A j \in 1 .. i - 1 : j \in 1 .. Len(table) /\ j # i
    BY <1>1
  <2>2. QED
    BY <1>2, <2>1 DEF OneRecord
<1>4. getArpTableIndex(ip) = CHOOSE k \in 1 .. Len(table) : At(k)
  BY <1>1, Zenon DEF getArpTableIndex
<1> HIDE DEF At
<1>5. getArpTableIndex(ip) \in 1 .. Len(table) /\ At(getArpTableIndex(ip))
  BY <1>3, <1>4, Zenon
<1>6. QED
  BY <1>5 DEF At

\* At first the table is empty.
LEMMA ArpInitInv == Init => ArpInv
<1> SUFFICES ASSUME Init PROVE ArpInv
  OBVIOUS
<1> USE ArpConstants
<1>1. Len(table) = 0 /\ table \in Seq(Record) /\ Len(replyIps) = 0 /\ replyIps \in Seq(ReplyRecord)
  BY DEF Init
<1>2. TypeOK
  BY <1>1 DEF Init, TypeOK
<1>3. QED
  BY <1>1, <1>2 DEF Init, ArpInv, OneRecord

\* addIpForArpReply() takes nothing from the table.
LEMMA AddKeepsArpInv ==
  ASSUME ArpInv, NEW ip \in Own, NEW subnet \in Subnets,
         addIpForArpReply(ip, subnet)
  PROVE  ArpInv'
<1> DEFINE record == [ip |-> ip, subnet |-> subnet]
<1>1. /\ TypeOK /\ UNCHANGED <<table, heard, age, asked, hindered>>
      /\ replyIps' = ReplyIps(record)
  BY DEF ArpInv, addIpForArpReply
<1>2. record \in ReplyRecord
  BY DEF ReplyRecord
<1> HIDE DEF record
<1>3. replyIps' \in Seq(ReplyRecord) /\ Len(replyIps') < NumReply
  BY <1>1, <1>2, ArpConstants DEF TypeOK, ReplyIps
<1>4. TypeOK'
  BY <1>1, <1>3 DEF TypeOK
<1>5. QED
  BY <1>1, <1>4 DEF ArpInv, OneRecord, IsTold

\* A frame changes what is known of its host only, and no line of another.
LEMMA FrameKeepsArpInv ==
  ASSUME ArpInv, NEW ip \in Hosts, NEW mac \in Macs, NEW target \in Own,
         NEW parameter \in BOOLEAN, parseFrame(ip, mac, target, parameter)
  PROVE  ArpInv'
<1> USE ArpConstants
<1>1. TypeOK /\ OneRecord
  BY DEF ArpInv
<1>2. /\ heard' = [heard EXCEPT ![ip] = mac] /\ age' = [age EXCEPT ![ip] = 0]
      /\ asked' = [asked EXCEPT ![ip] = 0] /\ hindered' = [hindered EXCEPT ![ip] = 0]
      /\ UNCHANGED replyIps
      /\ table' = Learn(ip, mac)
  BY DEF parseFrame
<1>3. /\ heard'[ip] = mac /\ age'[ip] = 0 /\ asked'[ip] = 0 /\ hindered'[ip] = 0
      /\ \A h \in Hosts : h # ip => /\ heard'[h] = heard[h] /\ age'[h] = age[h]
                                   /\ asked'[h] = asked[h] /\ hindered'[h] = hindered[h]
  BY <1>1, <1>2 DEF TypeOK
<1>4. \A h \in Hosts : asked'[h] <= age'[h] /\ hindered'[h] <= age'[h]
  BY <1>3 DEF ArpInv
<1> DEFINE r == Fresh(ip, mac)
<1>5. r \in Record /\ r.ip = ip /\ r.mac = mac /\ r.time = 0
  BY DEF Fresh, Record
<1>6. \A i \in 1 .. Len(table) : table[i] \in Record /\ table[i].ip \in Hosts
  <2>1. \A i \in 1 .. Len(table) : table[i] \in Record
    BY <1>1 DEF TypeOK
  <2>2. QED
    BY <2>1 DEF Record
<1>7. /\ table' \in Seq(Record) /\ Len(table') < Size /\ OneRecord'
      /\ \A i \in 1 .. Len(table') :
           IF table'[i].ip = ip THEN table'[i] = r
           ELSE i \in 1 .. Len(table) /\ table'[i] = table[i]
  <2>1. CASE ip \in Visible
    <3> DEFINE k == getArpTableIndex(ip)
    <3>1. k \in 1 .. Len(table) /\ table[k].ip = ip
      BY <1>1, <2>1, IndexFound
    <3>2. table' = [table EXCEPT ![k] = r]
      BY <1>2, <2>1 DEF Learn
    <3> HIDE DEF k, r
    <3>3. /\ table' \in Seq(Record) /\ Len(table') = Len(table) /\ table'[k] = r
          /\ \A i \in 1 .. Len(table) : i # k => table'[i] = table[i]
      BY <1>1, <1>5, <3>1, <3>2 DEF TypeOK
    <3>4. \A i \in 1 .. Len(table) : i # k => table'[i].ip # ip
      BY <1>1, <3>1, <3>3 DEF OneRecord
    <3>5. \A i \in 1 .. Len(table) : table'[i].ip = table[i].ip
      BY <1>5, <3>1, <3>3
    <3>6. OneRecord'
      BY <1>1, <3>3, <3>5 DEF OneRecord
    <3>7. QED
      BY <1>1, <1>5, <3>3, <3>4, <3>6 DEF TypeOK
  <2>2. CASE ip \notin Visible
    <3>1. \A i \in 1 .. Len(table) : table[i].ip # ip
      BY <1>1, <2>2 DEF Visible, TypeOK
    <3>2. CASE Len(table) + 1 = Size
      <4>1. table' = << >>
        BY <1>2, <2>2, <3>2 DEF Learn, Create
      <4>2. QED
        BY <4>1 DEF OneRecord
    <3>3. CASE Len(table) + 1 # Size
      <4>1. table' = Append(table, r)
        BY <1>2, <2>2, <3>3 DEF Learn, Create
      <4> HIDE DEF r
      <4>2. /\ table' \in Seq(Record) /\ Len(table') = Len(table) + 1
            /\ table'[Len(table) + 1] = r
            /\ \A i \in 1 .. Len(table) : table'[i] = table[i]
            /\ \A i \in 1 .. Len(table') : i \in 1 .. Len(table) \/ i = Len(table) + 1
        BY <1>1, <1>5, <4>1 DEF TypeOK
      <4>3. OneRecord'
        BY <1>1, <1>5, <3>1, <4>2 DEF OneRecord
      <4>4. Len(table') < Size
        BY <1>1, <3>3, <4>2 DEF TypeOK
      <4>5. \A i \in 1 .. Len(table') :
              IF table'[i].ip = ip THEN table'[i] = r
              ELSE i \in 1 .. Len(table) /\ table'[i] = table[i]
        BY <1>5, <3>1, <4>2
      <4>6. QED
        BY <4>2, <4>3, <4>4, <4>5
    <3>4. QED
      BY <3>2, <3>3
  <2>3. QED
    BY <2>1, <2>2
<1> HIDE DEF r
<1>8. ASSUME NEW i \in 1 .. Len(table') PROVE IsTold(i)'
  <2>1. i \in Nat /\ i < Size
    BY <1>7
  <2>2. CASE table'[i].ip = ip
    BY <1>3, <1>5, <1>7, <2>1, <2>2 DEF IsTold
  <2>3. CASE table'[i].ip # ip
    <3>1. i \in 1 .. Len(table) /\ table'[i] = table[i]
      BY <1>7, <2>3
    <3>2. IsTold(i)
      BY <3>1 DEF ArpInv
    <3>3. table[i].ip \in Hosts /\ table[i].ip # ip
      BY <1>6, <2>3, <3>1
    <3>4. QED
      BY <1>3, <3>1, <3>2, <3>3 DEF IsTold
  <2>4. QED
    BY <2>2, <2>3
<1>9. TypeOK'
  <2>1. heard' \in [Hosts -> Macs \cup {NULL}]
    BY <1>1, <1>2 DEF TypeOK
  <2>2. 0 \in 0 .. MaxAge
    OBVIOUS
  <2>3. /\ age' \in [Hosts -> 0 .. MaxAge] /\ asked' \in [Hosts -> 0 .. MaxAge]
        /\ hindered' \in [Hosts -> 0 .. MaxAge]
    BY <1>1, <1>2, <2>2 DEF TypeOK
  <2>4. QED
    BY <1>1, <1>2, <1>7, <2>1, <2>3 DEF TypeOK
<1>10. QED
  BY <1>4, <1>7, <1>8, <1>9 DEF ArpInv

\* A callback more of silence, and a line that is j now and was i: its time is
\* counted up, or the line has moved up.
LEMMA SilenceIsTold ==
  ASSUME NEW time \in Nat, NEW silence \in Nat, NEW i \in Nat, NEW j \in Nat,
         NEW told \in Nat, silence + i + 1 <= time + Size, j <= i,
         told = time + 1 \/ (told = time /\ j < i), time <= silence
  PROVE  silence + 1 + j + 1 <= told + Size /\ told <= silence + 1
BY ArpConstants

\* A host with a record has not been silent for as long as the counts go.
LEMMA SilenceIsBelow ==
  ASSUME NEW time \in Nat, NEW silence \in Nat, NEW i \in Nat, time <= Delete,
         silence + i + 1 <= time + Size
  PROVE  silence < MaxAge /\ silence <= Delete + Size - 1 - i
BY ArpConstants

\* Once the refresh time is reached, a time that is counted up is a request more,
\* or a callback more in which none could be sent.
LEMMA RequestsAreTold ==
  ASSUME NEW time \in Nat, NEW told \in Nat, NEW requests \in Nat, NEW more \in Nat,
         more >= requests, time <= requests + Refresh,
         \/ told = time
         \/ told = time + 1 /\ (time >= Refresh => more >= requests + 1)
  PROVE  told <= more + Refresh
BY ArpConstants

\* A host with a record is counted up when it is in S, unless its count is at the
\* bound, and the count of a host without one is 0.
LEMMA CountedUp ==
  ASSUME NEW n \in [Hosts -> 0 .. MaxAge], NEW S
  PROVE  /\ CountUp(n, S) \in [Hosts -> 0 .. MaxAge]
         /\ \A h \in Hosts :
              /\ n[h] \in 0 .. MaxAge
              /\ h \notin Visible => CountUp(n, S)[h] = 0
              /\ h \in Visible /\ h \in S /\ n[h] < MaxAge => CountUp(n, S)[h] = n[h] + 1
              /\ h \in Visible /\ ~(h \in S /\ n[h] < MaxAge) => CountUp(n, S)[h] = n[h]
<1>1. MaxAge \in Nat
  BY ArpConstants
<1>2. \A h \in Hosts : n[h] \in 0 .. MaxAge
  OBVIOUS
<1>3. \A h \in Hosts :
        (IF h \notin Visible THEN 0
         ELSE IF h \in S /\ n[h] < MaxAge THEN n[h] + 1 ELSE n[h]) \in 0 .. MaxAge
  BY <1>1, <1>2
<1>4. QED
  BY <1>2, <1>3 DEF CountUp

\* What a callback counts for a host: a callback more, or nothing when it has no
\* record; and for a host that is due, a request or a hindrance.
LEMMA HostCounts ==
  ASSUME ArpInv, NEW noMemory, voidCallback(noMemory), NEW h \in Hosts,
         h \in Visible => age[h] < MaxAge
  PROVE  /\ asked'[h] <= age'[h] /\ hindered'[h] <= age'[h]
         /\ h \in Visible =>
              /\ age'[h] = age[h] + 1
              /\ asked'[h] + hindered'[h] >= asked[h] + hindered[h]
              /\ h \in Due /\ age[h] >= Refresh
                   => asked'[h] + hindered'[h] >= asked[h] + hindered[h] + 1
<1> USE ArpConstants
<1> DEFINE A == Requested(noMemory)
           B == Hindered(noMemory)
<1>1. /\ TypeOK /\ age' = CountUp(age, Visible)
      /\ asked' = CountUp(asked, A) /\ hindered' = CountUp(hindered, B)
      /\ asked[h] <= age[h] /\ hindered[h] <= age[h]
  BY DEF ArpInv, voidCallback
<1>2. h \in Visible /\ h \in Due /\ age[h] >= Refresh => h \in A \/ h \in B
  BY DEF Requested, Hindered
<1> HIDE DEF A, B
<1>3. /\ age \in [Hosts -> 0 .. MaxAge] /\ asked \in [Hosts -> 0 .. MaxAge]
      /\ hindered \in [Hosts -> 0 .. MaxAge]
  BY <1>1 DEF TypeOK
<1>4. /\ age[h] \in Nat /\ asked[h] \in Nat /\ hindered[h] \in Nat
  BY <1>3
<1>5. CASE h \notin Visible
  <2>1. age'[h] = 0 /\ asked'[h] = 0 /\ hindered'[h] = 0
    BY <1>1, <1>3, <1>5, CountedUp
  <2>2. QED
    BY <1>5, <2>1
<1>6. CASE h \in Visible
  <2>1. age'[h] = age[h] + 1
    BY <1>1, <1>3, <1>6, CountedUp
  <2>2. /\ h \in A => asked'[h] = asked[h] + 1
        /\ h \notin A => asked'[h] = asked[h]
    BY <1>1, <1>3, <1>4, <1>6, CountedUp
  <2>3. /\ h \in B => hindered'[h] = hindered[h] + 1
        /\ h \notin B => hindered'[h] = hindered[h]
    BY <1>1, <1>3, <1>4, <1>6, CountedUp
  <2>4. QED
    BY <1>1, <1>2, <1>4, <2>1, <2>2, <2>3
<1>7. QED
  BY <1>5, <1>6

\* The same for the host of a line, which is due when the loop does not pass over
\* the line and its time has come.
LEMMA CallbackCounts ==
  ASSUME ArpInv, NEW noMemory, voidCallback(noMemory)
  PROVE  /\ age' \in [Hosts -> 0 .. MaxAge] /\ asked' \in [Hosts -> 0 .. MaxAge]
         /\ hindered' \in [Hosts -> 0 .. MaxAge]
         /\ \A i \in 1 .. Len(table) :
              LET h == table[i].ip
              IN  /\ age'[h] = age[h] + 1
                  /\ asked'[h] + hindered'[h] >= asked[h] + hindered[h]
                  /\ ~Deleted[i - 1] /\ IsDue(table[i])
                       => asked'[h] + hindered'[h] >= asked[h] + hindered[h] + 1
         /\ \A h \in Hosts : asked'[h] <= age'[h] /\ hindered'[h] <= age'[h]
<1> USE ArpConstants
<1>1. /\ TypeOK /\ age' = CountUp(age, Visible)
      /\ asked' = CountUp(asked, Requested(noMemory))
      /\ hindered' = CountUp(hindered, Hindered(noMemory))
  BY DEF ArpInv, voidCallback
<1>2. /\ age \in [Hosts -> 0 .. MaxAge] /\ asked \in [Hosts -> 0 .. MaxAge]
      /\ hindered \in [Hosts -> 0 .. MaxAge]
      /\ DOMAIN table = 1 .. Len(table) /\ Len(table) \in Nat
  BY <1>1 DEF TypeOK
<1>3. /\ age' \in [Hosts -> 0 .. MaxAge] /\ asked' \in [Hosts -> 0 .. MaxAge]
      /\ hindered' \in [Hosts -> 0 .. MaxAge]
  BY <1>1, <1>2, CountedUp
<1>4. \A i \in 1 .. Len(table) : table[i] \in Record /\ table[i].ip \in Visible
  <2>1. \A i \in 1 .. Len(table) : table[i] \in Record
    BY <1>1 DEF TypeOK
  <2>2. QED
    BY <1>2, <2>1 DEF Visible
<1>5. \A i \in 1 .. Len(table) : table[i].ip \in Hosts /\ table[i].time \in 0 .. Delete
  BY <1>4 DEF Record
<1>6. \A i \in 1 .. Len(table) : IsTold(i)
  BY DEF ArpInv
<1>7. ASSUME NEW i \in 1 .. Len(table)
      PROVE  age[table[i].ip] < MaxAge /\ (IsDue(table[i]) => age[table[i].ip] >= Refresh)
  <2>1. age[table[i].ip] \in Nat /\ table[i].time \in Nat /\ table[i].time <= Delete
    BY <1>2, <1>5
  <2>2. /\ age[table[i].ip] + i + 1 <= table[i].time + Size
        /\ table[i].time <= age[table[i].ip]
    BY <1>6 DEF IsTold
  <2>3. i \in Nat
    OBVIOUS
  <2>4. age[table[i].ip] < MaxAge
    BY <2>1, <2>2, <2>3, SilenceIsBelow, Zenon
  <2>5. IsDue(table[i]) => age[table[i].ip] >= Refresh
    BY <2>1, <2>2 DEF IsDue
  <2>6. QED
    BY <2>4, <2>5
<1>8. \A i \in 1 .. Len(table) :
        ~Deleted[i - 1] /\ IsDue(table[i]) => table[i].ip \in Due
  BY <1>2 DEF Due
<1>9. ASSUME NEW h \in Hosts, h \in Visible PROVE age[h] < MaxAge
  BY <1>2, <1>7, <1>9 DEF Visible
<1>10. \A h \in Hosts : asked'[h] <= age'[h] /\ hindered'[h] <= age'[h]
  BY <1>9, HostCounts
<1>11. ASSUME NEW i \in 1 .. Len(table), NEW h, h = table[i].ip
       PROVE  /\ age'[h] = age[h] + 1
              /\ asked'[h] + hindered'[h] >= asked[h] + hindered[h]
              /\ ~Deleted[i - 1] /\ IsDue(table[i])
                   => asked'[h] + hindered'[h] >= asked[h] + hindered[h] + 1
  <2>1. /\ h \in Hosts /\ h \in Visible
        /\ age[h] < MaxAge /\ (IsDue(table[i]) => age[h] >= Refresh)
        /\ ~Deleted[i - 1] /\ IsDue(table[i]) => h \in Due
    BY <1>4, <1>5, <1>7, <1>8, <1>11
  <2>2. QED
    BY <2>1, HostCounts, Zenon
<1>12. QED
  BY <1>3, <1>10, <1>11

\* The pass of the timer keeps the invariant.
LEMMA CallbackKeepsArpInv ==
  ASSUME ArpInv, NEW noMemory, voidCallback(noMemory)
  PROVE  ArpInv'
<1> DEFINE n == Len(table)
<1>1. /\ TypeOK /\ OneRecord /\ n \in Nat /\ n < Size
      /\ table' = Aged[n] /\ UNCHANGED <<replyIps, heard>>
  BY ArpConstants DEF ArpInv, voidCallback, TypeOK
<1>2. IsAgedTo(table', n)
  BY <1>1, AgedPlaces
<1>3. table' \in Seq(Record) /\ Len(table') \in Nat /\ Len(table') <= n /\ OneRecord'
  BY <1>2 DEF IsAgedTo, OneRecord
<1> HIDE DEF n
<1>4. Len(table') < Size
  BY <1>1, <1>3, ArpConstants
<1>5. TypeOK'
  BY <1>1, <1>3, <1>4, CallbackCounts, Zenon DEF TypeOK
<1>6. ASSUME NEW j \in 1 .. Len(table') PROVE IsTold(j)'
  <2>1. PICK p \in 1 .. Len(table) : IsFrom(table', j, p)
    BY <1>2 DEF IsAgedTo, n
  <2> DEFINE h == table[p].ip
             r == table[p]
             t == table'[j]
             q == asked[h] + hindered[h]
             m == asked'[h] + hindered'[h]
  <2>2. r \in Record /\ h \in Hosts /\ r.time \in 0 .. Delete
    <3>1. r \in Record
      BY <1>1 DEF TypeOK
    <3>2. QED
      BY <3>1 DEF Record
  <2>3. /\ t.ip = h /\ t.mac = r.mac /\ j <= p /\ j \in Nat /\ p \in Nat
        /\ Deleted[p - 1] => t.time = r.time /\ j < p
        /\ ~Deleted[p - 1] => t.time = r.time + 1
    BY <1>1, <2>1, AgingIsRecord DEF IsFrom
  <2>4. /\ r.mac = heard[h] /\ r.time <= age[h]
        /\ age[h] + p + 1 <= r.time + Size /\ r.time <= q + Refresh
    BY DEF ArpInv, IsTold
  <2>5. /\ age'[h] = age[h] + 1 /\ m >= q
        /\ ~Deleted[p - 1] /\ IsDue(r) => m >= q + 1
    BY CallbackCounts
  <2>6. age[h] \in Nat /\ q \in Nat /\ m \in Nat /\ heard' = heard
    <3>1. age[h] \in Nat /\ asked[h] \in Nat /\ hindered[h] \in Nat
      BY <1>1, <2>2, ArpConstants DEF TypeOK
    <3>2. asked'[h] \in Nat /\ hindered'[h] \in Nat
      BY <1>5, <2>2, ArpConstants DEF TypeOK
    <3>3. q \in Nat /\ m \in Nat
      <4>1. \A a, b \in Nat : a + b \in Nat
        OBVIOUS
      <4>2. QED
        BY <3>1, <3>2, <4>1, Zenon
    <3>4. heard' = heard
      BY <1>1
    <3>5. QED
      BY <3>1, <3>3, <3>4, Zenon
  <2>7. IsDue(r) <=> r.time >= Refresh
    BY DEF IsDue
  <2>8. \/ t.time = r.time /\ j < p
        \/ t.time = r.time + 1 /\ (r.time >= Refresh => m >= q + 1)
    BY <2>3, <2>5, <2>7, Zenon
  <2>9. p \in Nat /\ j \in Nat /\ j <= p /\ t.mac = r.mac
    BY <2>3
  <2> HIDE DEF h, r, t, q, m
  <2>10. t.time \in Nat /\ r.time \in Nat /\ Size \in Nat /\ Refresh \in Nat
    BY <2>2, <2>8, ArpConstants
  <2>11. m >= q /\ age'[h] = age[h] + 1 /\ age[h] + p + 1 <= r.time + Size
         /\ r.time <= age[h] /\ r.time <= q + Refresh
    BY <2>4, <2>5, Zenon
  <2>12. t.time <= m + Refresh
    BY <2>6, <2>8, <2>10, <2>11, RequestsAreTold, Zenon
  <2>13. age[h] + 1 + j + 1 <= t.time + Size /\ t.time <= age[h] + 1
    BY <2>6, <2>8, <2>9, <2>10, <2>11, SilenceIsTold, Zenon
  <2>14. t.mac = heard'[h]
    BY <2>4, <2>6, <2>9, Zenon
  <2>15. QED
    BY <2>3, <2>12, <2>13, <2>14, <2>11, Zenon DEF IsTold, t, m
<1>7. QED
  BY <1>3, <1>5, <1>6, CallbackCounts DEF ArpInv

\* The invariant is inductive.
LEMMA ArpNextInv == ArpInv /\ [Next]_vars => ArpInv'
<1> SUFFICES ASSUME ArpInv, [Next]_vars PROVE ArpInv'
  OBVIOUS
<1>1. ASSUME NEW ip \in Own, NEW subnet \in Subnets, addIpForArpReply(ip, subnet)
      PROVE  ArpInv'
  BY <1>1, AddKeepsArpInv
<1>2. ASSUME NEW ip \in Hosts, NEW mac \in Macs, NEW target \in Own,
             NEW parameter \in BOOLEAN, parseFrame(ip, mac, target, parameter)
      PROVE  ArpInv'
  BY <1>2, FrameKeepsArpInv
<1>3. CASE Ageing
  BY <1>3, CallbackKeepsArpInv DEF Ageing
<1>4. CASE UNCHANGED vars
  BY <1>4 DEF vars, ArpInv, TypeOK, OneRecord, IsTold
<1>5. QED
  BY <1>1, <1>2, <1>3, <1>4 DEF Next

\* The invariant holds in every state.
LEMMA SpecArpInv == Spec => []ArpInv
BY ArpInitInv, ArpNextInv, PTL DEF Spec

-----------------------------------------------------------------------------
(* The theorems.                                                           *)

\* The values the variables have, for every table size and every two times:
\* no counter of the two tables ever passes its end.
THEOREM SpecArpTypeOK == Spec => []TypeOK
<1>1. ArpInv => TypeOK
  BY DEF ArpInv
<1>2. QED
  BY <1>1, SpecArpInv, PTL

\* One record for a host, and the address it announced last.
THEOREM SpecLatestMac == Spec => []LatestMac
<1>1. ASSUME ArpInv PROVE LatestMac
  <2>1. TypeOK /\ OneRecord /\ DOMAIN table = 1 .. Len(table)
    BY <1>1 DEF ArpInv, TypeOK
  <2>2. ASSUME NEW ip \in Visible PROVE getMac(ip) = heard[ip]
    <3>1. PICK i \in 1 .. Len(table) : i = getArpTableIndex(ip) /\ table[i].ip = ip
      BY <2>1, IndexFound
    <3>2. IsTold(i)
      BY <1>1 DEF ArpInv
    <3>3. QED
      BY <3>1, <3>2 DEF getMac, IsTold
  <2>3. QED
    BY <2>1, <2>2 DEF LatestMac, OneRecord
<1>2. QED
  BY <1>1, SpecArpInv, PTL

\* The silence a record survives is bounded by the delete time and the lines in
\* front of it, whatever frames of other hosts come in between.
THEOREM SpecSilentHostExpires == Spec => []SilentHostExpires
<1>1. ASSUME ArpInv PROVE SilentHostExpires
  <2>1. TypeOK /\ DOMAIN table = 1 .. Len(table) /\ Len(table) \in Nat
    BY <1>1 DEF ArpInv, TypeOK
  <2>2. ASSUME NEW i \in 1 .. Len(table)
        PROVE  age[table[i].ip] <= Delete + Size - 1 - i
    <3>1. table[i] \in Record
      BY <2>1 DEF TypeOK
    <3>2. table[i].ip \in Hosts /\ table[i].time \in 0 .. Delete
      BY <3>1 DEF Record
    <3>3. age[table[i].ip] \in Nat
      BY <2>1, <3>2, ArpConstants DEF TypeOK
    <3>4. age[table[i].ip] + i + 1 <= table[i].time + Size
      BY <1>1 DEF ArpInv, IsTold
    <3>5. QED
      BY <3>2, <3>3, <3>4, ArpConstants
  <2>3. QED
    BY <2>1, <2>2 DEF SilentHostExpires
<1>2. QED
  BY <1>1, SpecArpInv, PTL

\* A host that an ageing drops was in a line whose time had come.
LEMMA Dropped ==
  ASSUME ArpInv, NEW noMemory, voidCallback(noMemory), NEW h \in Visible, h \notin Visible'
  PROVE  age[h] >= Delete /\ asked[h] + hindered[h] >= Delete - Refresh
<1> DEFINE n == Len(table)
<1>1. /\ TypeOK /\ OneRecord /\ n \in Nat /\ table' = Aged[n]
      /\ DOMAIN table = 1 .. n
  BY DEF ArpInv, voidCallback, TypeOK
<1>2. PICK i \in 1 .. n : table[i].ip = h
  BY <1>1 DEF Visible
<1>3. Deleted[i]
  <2>1. SUFFICES ASSUME ~Deleted[i] PROVE h \in Visible'
    OBVIOUS
  <2>2. PICK j \in 1 .. Len(table') : table'[j] = Aging(i)
    BY <1>1, <2>1, AgedPlaces DEF IsAgedTo
  <2>3. table'[j].ip = h
    BY <1>1, <1>2, <2>1, <2>2, AgingIsRecord
  <2>4. DOMAIN table' = 1 .. Len(table')
    BY <1>1, AgedPlaces DEF IsAgedTo
  <2>5. QED
    BY <2>3, <2>4 DEF Visible
<1>4. table[i].time >= Delete /\ table[i].time <= age[h] /\ table[i].time <= asked[h] + hindered[h] + Refresh
  BY <1>1, <1>2, <1>3, DeletedLines DEF ArpInv, IsExpired, IsTold
<1>5. table[i] \in Record
  BY <1>1 DEF TypeOK
<1>6. h \in Hosts /\ table[i].time \in 0 .. Delete
  BY <1>2, <1>5 DEF Record
<1>7. age[h] \in Nat /\ asked[h] + hindered[h] \in Nat
  BY <1>1, <1>6, ArpConstants DEF TypeOK
<1>8. QED
  <2>1. ASSUME NEW t \in Nat, NEW a \in Nat, NEW q \in Nat,
               t >= Delete, t <= a, t <= q + Refresh
        PROVE  a >= Delete /\ q >= Delete - Refresh
    BY <2>1, ArpConstants
  <2>2. table[i].time \in Nat
    BY <1>6
  <2>3. QED
    BY <1>4, <1>7, <2>1, <2>2, Zenon

\* An ageing keeps every record of a host heard from within the delete time.
THEOREM SpecFreshRecordKept == Spec => FreshRecordKept
<1>1. ArpInv /\ [Next]_vars =>
        [\A h \in Visible : h \notin Visible' /\ Ageing => age[h] >= Delete]_vars
  BY Dropped DEF Ageing
<1>2. QED
  BY <1>1, SpecArpInv, PTL DEF Spec, FreshRecordKept

\* A host that an ageing drops was sent a request in every callback between the
\* refresh and the delete time in which one could be sent.
THEOREM SpecAskedBeforeDelete == Spec => AskedBeforeDelete
<1>1. ArpInv /\ [Next]_vars =>
        [\A h \in Visible : h \notin Visible' /\ Ageing
                              => asked[h] + hindered[h] >= Delete - Refresh]_vars
  BY Dropped DEF Ageing
<1>2. QED
  BY <1>1, SpecArpInv, PTL DEF Spec, AskedBeforeDelete

\* A table with more lines than there are hosts is never emptied by a new
\* record: as many records would be of different hosts.
LEMMA RoomForHosts ==
  ASSUME Cardinality(Hosts) < Size, TypeOK, OneRecord, NEW ip \in Hosts, ip \notin Visible
  PROVE  Len(table) + 1 # Size
<1> SUFFICES ASSUME Len(table) + 1 = Size PROVE FALSE
  OBVIOUS
<1> DEFINE f == [i \in 1 .. Size |-> IF i = Size THEN ip ELSE table[i].ip]
<1>1. DOMAIN table = 1 .. Len(table) /\ Len(table) \in Nat /\ Size \in Nat \ {0}
  BY ArpConstants DEF TypeOK
<1>2. \A i \in 1 .. Size : i # Size => i \in 1 .. Len(table)
  BY <1>1
<1>3. \A i \in 1 .. Len(table) : table[i].ip \in Hosts /\ table[i].ip # ip
  <2>1. \A i \in 1 .. Len(table) : table[i] \in Record
    BY <1>1 DEF TypeOK
  <2>2. \A i \in 1 .. Len(table) : table[i].ip \in Visible
    BY <1>1 DEF Visible
  <2>3. QED
    BY <2>1, <2>2 DEF Record
<1>4. f \in [1 .. Size -> Hosts]
  BY <1>2, <1>3
<1>5. IsFiniteSet(1 .. Size) /\ Cardinality(1 .. Size) = Size
  BY <1>1, FS_Interval
<1>6. \E x, y \in 1 .. Size : x # y /\ f[x] = f[y]
  <2>1. IsFiniteSet(Hosts)
    BY ArpAssumption
  <2> HIDE DEF f
  <2>2. QED
    BY <1>4, <1>5, <2>1, FS_PigeonHole
<1>7. PICK x \in 1 .. Size, y \in 1 .. Size : x # y /\ f[x] = f[y]
  BY <1>6
<1>8. CASE x = Size
  BY <1>2, <1>3, <1>7, <1>8
<1>9. CASE y = Size
  BY <1>2, <1>3, <1>7, <1>9
<1>10. CASE x # Size /\ y # Size
  BY <1>2, <1>7, <1>10 DEF OneRecord
<1>11. QED
  BY <1>8, <1>9, <1>10

\* With more lines than hosts a record that is created can be found.  Without
\* the hypothesis a run shows the table emptied.
THEOREM SpecCreatedRecordFound ==
  ASSUME Cardinality(Hosts) < Size
  PROVE  Spec => CreatedRecordFound
<1>1. ASSUME ArpInv, [Next]_vars, NEW ip \in Hosts, heard'[ip] # heard[ip]
      PROVE  ip \in Visible'
  <2>1. TypeOK /\ OneRecord
    BY <1>1 DEF ArpInv
  <2>2. PICK host \in Hosts, mac \in Macs, target \in Own, parameter \in BOOLEAN :
          parseFrame(host, mac, target, parameter)
    BY <1>1 DEF Next, vars, addIpForArpReply, Ageing, voidCallback
  <2>3. ip = host
    BY <1>1, <2>1, <2>2 DEF parseFrame, TypeOK
  <2> DEFINE r == Fresh(ip, mac)
  <2>4. table' = Learn(ip, mac)
    BY <2>2, <2>3 DEF parseFrame
  <2>5. r.ip = ip /\ r \in Record /\ DOMAIN table = 1 .. Len(table)
    BY <2>1, ArpConstants DEF Fresh, Record, TypeOK
  <2>6. CASE ip \in Visible
    <3> DEFINE k == getArpTableIndex(ip)
    <3>1. k \in 1 .. Len(table)
      BY <2>1, <2>6, IndexFound
    <3>2. table' = [table EXCEPT ![k] = r]
      BY <2>4, <2>6 DEF Learn
    <3> HIDE DEF k, r
    <3>3. k \in DOMAIN table' /\ table'[k] = r
      BY <2>5, <3>1, <3>2
    <3>4. QED
      BY <2>5, <3>3 DEF Visible
  <2>7. CASE ip \notin Visible
    <3>1. table' = Append(table, r)
      BY <2>1, <2>4, <2>7, RoomForHosts DEF Learn, Create
    <3> HIDE DEF r
    <3>2. Len(table) + 1 \in DOMAIN table' /\ table'[Len(table) + 1] = r
      BY <2>1, <2>5, <3>1 DEF TypeOK
    <3>3. QED
      BY <2>5, <3>2 DEF Visible
  <2>8. QED
    BY <2>6, <2>7
<1>2. ArpInv /\ [Next]_vars =>
        [\A ip \in Hosts : heard'[ip] # heard[ip] => ip \in Visible']_vars
  BY <1>1
<1>3. QED
  BY <1>2, SpecArpInv, PTL DEF Spec, CreatedRecordFound

-----------------------------------------------------------------------------
(* Replacing addresses (EthernetUtilities).                                *)

\* A word is not a single number.
LEMMA MaxWordIsPositive == MaxWord \in Nat \ {0}
<1>1. Bytes \in Nat /\ Bytes >= 2
  BY EthernetAssumption
<1>2. Bytes * Bytes >= 2 * Bytes
  BY <1>1
<1> QED
  BY <1>1, <1>2 DEF MaxWord

\* The remainder of a number that is not smaller than -n, or smaller than 2n.
LEMMA RemainderNear ==
  ASSUME NEW n \in Nat \ {0}, NEW x \in Int
  PROVE  /\ -n <= x /\ x < 0 => x % n = x + n
         /\ n <= x /\ x < 2 * n => x % n = x - n
<1>1. ASSUME -n <= x, x < 0 PROVE x % n = x + n
  BY <1>1
<1>2. ASSUME n <= x, x < 2 * n PROVE x % n = x - n
  BY <1>2
<1> QED
  BY <1>1, <1>2

\* What is a multiple of n stays one when multiples of n are added.
LEMMA MultipleShifted ==
  ASSUME NEW n \in Nat \ {0}, NEW a \in Int, NEW j \in Int, a % n = 0
  PROVE  (a + j * n) % n = 0
<1>1. PICK q \in Int : a = q * n
  <2>1. a = (a \div n) * n + (a % n) /\ a \div n \in Int
    OBVIOUS
  <2> QED
    BY <2>1
<1>2. a + j * n = (q + j) * n
  BY <1>1
<1>3. ((q + j) * n) % n = 0
  <2> DEFINE p == q + j
  <2>1. p \in Int
    OBVIOUS
  <2> HIDE DEF p
  <2>2. (p * n) % n = 0
    BY <2>1
  <2> QED
    BY <2>2 DEF p
<1> QED
  BY <1>2, <1>3

\* Minus and Plus stay among the words and are right up to a multiple of MaxWord.
LEMMA MinusIsRight ==
  ASSUME NEW x \in Word, NEW old \in Word
  PROVE  /\ Minus(x, old) \in Word
         /\ Minus(x, old) = x - old \/ Minus(x, old) = x - old + MaxWord
<1>1. MaxWord \in Nat \ {0} /\ x \in 0 .. MaxWord /\ old \in 0 .. MaxWord
  BY MaxWordIsPositive DEF Word
<1>2. CASE x - old <= 0
  <2> DEFINE d == x - old - 1
             n == MaxWord + 1
  <2>1. n \in Nat \ {0} /\ d \in Int /\ -n <= d /\ d < 0
    BY <1>1, <1>2
  <2> HIDE DEF d, n
  <2>2. d % n = d + n
    BY <2>1, RemainderNear
  <2>3. (x - old - 1) % (MaxWord + 1) = x - old - 1 + (MaxWord + 1)
    BY <2>2 DEF d, n
  <2> QED
    BY <1>1, <1>2, <2>3 DEF Minus, Word
<1>3. CASE ~(x - old <= 0)
  BY <1>1, <1>3 DEF Minus, Word
<1> QED
  BY <1>2, <1>3

\* The sum of words is theirs, less the carry that comes back at the low end.
LEMMA PlusIsRight ==
  ASSUME NEW x \in Word, NEW new \in Word
  PROVE  /\ Plus(x, new) \in Word
         /\ Plus(x, new) = x + new \/ Plus(x, new) = (x + new) - MaxWord
<1>1. MaxWord \in Nat \ {0} /\ x \in 0 .. MaxWord /\ new \in 0 .. MaxWord
  BY MaxWordIsPositive DEF Word
<1>2. CASE x + new > MaxWord
  <2> DEFINE d == x + new + 1
             n == MaxWord + 1
  <2>1. n \in Nat \ {0} /\ d \in Int /\ n <= d /\ d < 2 * n
    BY <1>1, <1>2
  <2> HIDE DEF d, n
  <2>2. d % n = d - n
    BY <2>1, RemainderNear
  <2>3. (x + new + 1) % (MaxWord + 1) = x + new + 1 - (MaxWord + 1)
    BY <1>1, <2>2 DEF d, n
  <2> QED
    BY <1>1, <1>2, <2>3 DEF Plus, Word
<1>3. CASE ~(x + new > MaxWord)
  BY <1>1, <1>3 DEF Plus, Word
<1> QED
  BY <1>2, <1>3

\* The adjusted checksum makes up for the change of the address.
LEMMA AdjustIsRight ==
  ASSUME NEW c \in Word, NEW old \in Word \X Word, NEW new \in Word \X Word
  PROVE  /\ adjustNetworkChecksum(c, old, new) \in Word
         /\ \E j \in Int :
              adjustNetworkChecksum(c, old, new) + new[1] + new[2]
                = c + old[1] + old[2] + j * MaxWord
<1> DEFINE x0 == Complement(c)
           x1 == Minus(x0, old[1])
           x2 == Minus(x1, old[2])
           x3 == Plus(x2, new[1])
           x4 == Plus(x3, new[2])
<1>1. MaxWord \in Nat \ {0} /\ Word = 0 .. MaxWord
  BY MaxWordIsPositive DEF Word
<1>0. 0 * MaxWord = 0 /\ 1 * MaxWord = MaxWord /\ (-1) * MaxWord = 0 - MaxWord
  BY <1>1
<1>2. /\ old[1] \in Word /\ old[2] \in Word
      /\ new[1] \in Word /\ new[2] \in Word
  OBVIOUS
<1>3. x0 \in Word /\ x0 = MaxWord - c
  BY <1>1 DEF Complement
<1> HIDE DEF x0
<1>4. x1 \in Word /\ \E j \in Int : x1 = x0 - old[1] + j * MaxWord
  <2>1. /\ x1 \in Word
        /\ x1 = x0 - old[1] \/ x1 = x0 - old[1] + MaxWord
    BY <1>2, <1>3, MinusIsRight
  <2>2. x0 - old[1] \in Int
    BY <1>1, <1>2, <1>3
  <2>3. x1 = x0 - old[1] + 0 * MaxWord \/ x1 = x0 - old[1] + 1 * MaxWord
    BY <1>0, <1>1, <2>1, <2>2
  <2> QED
    BY <2>1, <2>3
<1> HIDE DEF x1
<1>5. x2 \in Word /\ \E j \in Int : x2 = x1 - old[2] + j * MaxWord
  <2>1. /\ x2 \in Word
        /\ x2 = x1 - old[2] \/ x2 = x1 - old[2] + MaxWord
    BY <1>2, <1>4, MinusIsRight
  <2>2. x1 - old[2] \in Int
    BY <1>1, <1>2, <1>4
  <2>3. x2 = x1 - old[2] + 0 * MaxWord \/ x2 = x1 - old[2] + 1 * MaxWord
    BY <1>0, <1>1, <2>1, <2>2
  <2> QED
    BY <2>1, <2>3
<1> HIDE DEF x2
<1>6. x3 \in Word /\ \E j \in Int : x3 = x2 + new[1] + j * MaxWord
  <2>1. /\ x3 \in Word
        /\ x3 = x2 + new[1] \/ x3 = (x2 + new[1]) - MaxWord
    BY <1>2, <1>5, PlusIsRight
  <2>2. x2 + new[1] \in Int
    BY <1>1, <1>2, <1>5
  <2>3. x3 = x2 + new[1] + 0 * MaxWord \/ x3 = x2 + new[1] + (-1) * MaxWord
    <3> DEFINE y == x2 + new[1]
    <3>1. y \in Int /\ (x3 = y \/ x3 = y - MaxWord)
      BY <2>1, <2>2
    <3> HIDE DEF y
    <3>2. x3 = y + 0 * MaxWord \/ x3 = y + (-1) * MaxWord
      BY <1>0, <1>1, <3>1
    <3> QED
      BY <3>2 DEF y
  <2> QED
    BY <2>1, <2>3
<1> HIDE DEF x3
<1>7. x4 \in Word /\ \E j \in Int : x4 = x3 + new[2] + j * MaxWord
  <2>1. /\ x4 \in Word
        /\ x4 = x3 + new[2] \/ x4 = (x3 + new[2]) - MaxWord
    BY <1>2, <1>6, PlusIsRight
  <2>2. x3 + new[2] \in Int
    BY <1>1, <1>2, <1>6
  <2>3. x4 = x3 + new[2] + 0 * MaxWord \/ x4 = x3 + new[2] + (-1) * MaxWord
    <3> DEFINE y == x3 + new[2]
    <3>1. y \in Int /\ (x4 = y \/ x4 = y - MaxWord)
      BY <2>1, <2>2
    <3> HIDE DEF y
    <3>2. x4 = y + 0 * MaxWord \/ x4 = y + (-1) * MaxWord
      BY <1>0, <1>1, <3>1
    <3> QED
      BY <3>2 DEF y
  <2> QED
    BY <2>1, <2>3
<1>8. adjustNetworkChecksum(c, old, new) = MaxWord - x4
  BY DEF adjustNetworkChecksum, Complement, x0, x1, x2, x3
<1> HIDE DEF x4
<1>9. MaxWord - x4 \in Word
  BY <1>1, <1>7
<1>10. PICK j1 \in Int, j2 \in Int, j3 \in Int, j4 \in Int :
         /\ x1 = x0 - old[1] + j1 * MaxWord
         /\ x2 = x1 - old[2] + j2 * MaxWord
         /\ x3 = x2 + new[1] + j3 * MaxWord
         /\ x4 = x3 + new[2] + j4 * MaxWord
  BY <1>4, <1>5, <1>6, <1>7
<1>11. MaxWord - x4 + new[1] + new[2]
         = c + old[1] + old[2] + (-(j1 + j2 + j3 + j4)) * MaxWord
  <2> DEFINE p1 == j1 * MaxWord
             p2 == j2 * MaxWord
             p3 == j3 * MaxWord
             p4 == j4 * MaxWord
  <2>1. p1 \in Int /\ p2 \in Int /\ p3 \in Int /\ p4 \in Int
    BY <1>1
  <2>2. (-(j1 + j2 + j3 + j4)) * MaxWord = -p1 - p2 - p3 - p4
    BY <1>1
  <2>3. /\ x1 = x0 - old[1] + p1 /\ x2 = x1 - old[2] + p2
        /\ x3 = x2 + new[1] + p3 /\ x4 = x3 + new[2] + p4
    BY <1>10
  <2> HIDE DEF p1, p2, p3, p4
  <2> DEFINE p == (-(j1 + j2 + j3 + j4)) * MaxWord
             y == c + old[1] + old[2]
  <2>4. MaxWord - x4 + new[1] + new[2] = y - p1 - p2 - p3 - p4
    <3>1. /\ MaxWord \in Int /\ c \in Int /\ x0 \in Int /\ x1 \in Int
          /\ x2 \in Int /\ x3 \in Int /\ x4 \in Int
          /\ old[1] \in Int /\ old[2] \in Int /\ new[1] \in Int /\ new[2] \in Int
      BY <1>1, <1>2, <1>3, <1>4, <1>5, <1>6, <1>7
    <3>2. x2 = MaxWord - c - old[1] + p1 - old[2] + p2
      BY <1>3, <2>1, <2>3, <3>1
    <3>3. x4 = x2 + new[1] + p3 + new[2] + p4
      BY <2>1, <2>3, <3>1
    <3> QED
      BY <2>1, <3>1, <3>2, <3>3
  <2>5. y \in Int
    BY <1>1, <1>2
  <2> HIDE DEF p, y
  <2>6. p = -p1 - p2 - p3 - p4
    BY <2>2, Zenon DEF p
  <2>7. y - p1 - p2 - p3 - p4 = y + p
    BY <2>1, <2>5, <2>6
  <2>8. MaxWord - x4 + new[1] + new[2] = y + p
    BY <2>4, <2>7
  <2> QED
    BY <2>8 DEF p, y
<1> QED
  BY <1>8, <1>9, <1>11

\* The same for addresses.
LEMMA AdjustedAddress ==
  ASSUME NEW c \in Word, NEW old \in Addresses, NEW new \in Addresses
  PROVE  /\ adjustNetworkChecksum(c, old, new) \in Word
         /\ \E j \in Int :
              adjustNetworkChecksum(c, old, new) + new[1] + new[2]
                = c + old[1] + old[2] + j * MaxWord
<1>1. old \in Word \X Word /\ new \in Word \X Word
  BY EthernetAssumption
<1> QED
  BY <1>1, AdjustIsRight

\* The inductive invariant: the frame's fields have their types, and a frame that
\* came with a checksum is one in which changeIp() adjusts it.
FrameInv ==
  /\ frame \in Frame
  /\ checked => needProtoCsCalculation(frame)
  /\ ForwardedVerifies

\* Replacing the addresses of a frame keeps its checksum right.
LEMMA ChangeKeepsInv ==
  ASSUME NEW newDst \in Addresses, NEW newSrc \in Addresses,
         FrameInv, changeIp(newDst, newSrc)
  PROVE  FrameInv'
<1> DEFINE a == adjustNetworkChecksum(frame.checksum, frame.src, newSrc)
           b == adjustNetworkChecksum(a, frame.dst, newDst)
           d == adjustNetworkChecksum(frame.ipChecksum, newSrc, newSrc)
           e == adjustNetworkChecksum(d, newDst, newDst)
<1>1. frame \in Frame
  BY DEF FrameInv
<1>2. /\ newDst \in Addresses /\ newSrc \in Addresses
      /\ frame.src \in Addresses /\ frame.dst \in Addresses
      /\ newDst \in Word \X Word /\ newSrc \in Word \X Word
      /\ frame.src \in Word \X Word /\ frame.dst \in Word \X Word
      /\ frame.checksum \in Word /\ frame.ipChecksum \in Word
      /\ frame.rest \in Nat
  BY <1>1, EthernetAssumption DEF Frame
<1>3. a \in Word /\ b \in Word
  BY <1>2, AdjustIsRight
<1>4. d \in Word /\ e \in Word
  BY <1>2, AdjustIsRight
<1>5. frame' = [frame EXCEPT
        !.checksum = IF needProtoCsCalculation(frame) THEN b ELSE @,
        !.dst = newDst, !.src = newSrc, !.ipChecksum = e]
  BY DEF changeIp, Adjusted
<1>6. /\ frame'.checksum = IF needProtoCsCalculation(frame) THEN b ELSE frame.checksum
      /\ frame'.dst = newDst /\ frame'.src = newSrc
      /\ frame'.rest = frame.rest
      /\ needProtoCsCalculation(frame') = needProtoCsCalculation(frame)
      /\ checked' = checked
  BY <1>1, <1>5 DEF Frame, needProtoCsCalculation, changeIp
<1>7. (frame \in Frame)'
  BY <1>1, <1>3, <1>4, <1>5 DEF Frame
<1>8. ASSUME checked PROVE Verifies(frame')
  <2> DEFINE s == frame.rest + SumOfAddresses(frame) + frame.checksum
  <2>1. PICK i \in Int : a + newSrc[1] + newSrc[2]
                           = frame.checksum + frame.src[1] + frame.src[2] + i * MaxWord
    BY <1>2, AdjustedAddress, Zenon
  <2>2. PICK j \in Int : b + newDst[1] + newDst[2]
                           = a + frame.dst[1] + frame.dst[2] + j * MaxWord
    <3> HIDE DEF a
    <3>1. a \in Word /\ frame.dst \in Addresses /\ newDst \in Addresses
      BY <1>2, <1>3
    <3> QED
      BY <3>1, AdjustedAddress, Zenon
  <2>3. MaxWord \in Nat \ {0}
    BY MaxWordIsPositive
  <2>4. /\ a \in Int /\ b \in Int /\ frame.checksum \in Int
        /\ frame.src[1] \in Int /\ frame.src[2] \in Int
        /\ frame.dst[1] \in Int /\ frame.dst[2] \in Int
        /\ newSrc[1] \in Int /\ newSrc[2] \in Int
        /\ newDst[1] \in Int /\ newDst[2] \in Int
    BY <1>2, <1>3, <2>3 DEF Word
  <2>5. s \in Int /\ s % MaxWord = 0
    BY <1>2, <1>8, <2>4 DEF FrameInv, ForwardedVerifies, Verifies, SumOfAddresses
  <2> DEFINE p == i * MaxWord
             q == j * MaxWord
  <2>6. p \in Int /\ q \in Int /\ (i + j) * MaxWord = p + q
    BY <2>3
  <2>7. frame'.rest + SumOfAddresses(frame') + frame'.checksum = s + (p + q)
    <3>1. SumOfAddresses(frame') = newSrc[1] + newSrc[2] + newDst[1] + newDst[2]
      BY <1>6 DEF SumOfAddresses
    <3>2. frame'.rest = frame.rest /\ frame'.checksum = b
      BY <1>6, <1>8 DEF FrameInv
    <3>3. /\ a + newSrc[1] + newSrc[2] = frame.checksum + frame.src[1] + frame.src[2] + p
          /\ b + newDst[1] + newDst[2] = a + frame.dst[1] + frame.dst[2] + q
      BY <2>1, <2>2
    <3>4. s = frame.rest + (frame.src[1] + frame.src[2] + frame.dst[1] + frame.dst[2])
                + frame.checksum
      BY DEF SumOfAddresses
    <3> HIDE DEF a, b, p, q, s
    <3>5. frame.rest \in Int
      BY <1>2
    <3>6. /\ a \in Int /\ b \in Int /\ frame.checksum \in Int
          /\ p \in Int /\ q \in Int
      BY <2>4, <2>6
    <3>7. b = ((((a + frame.dst[1]) + frame.dst[2]) + q) - newDst[1]) - newDst[2]
      BY <2>4, <3>3, <3>6
    <3>8. a = ((((frame.checksum + frame.src[1]) + frame.src[2]) + p) - newSrc[1]) - newSrc[2]
      BY <2>4, <3>3, <3>6
    <3> QED
      BY <2>4, <3>1, <3>2, <3>4, <3>5, <3>6, <3>7, <3>8
  <2>8. (s + (i + j) * MaxWord) % MaxWord = 0
    <3> DEFINE k == i + j
    <3>1. k \in Int
      OBVIOUS
    <3> HIDE DEF s, k
    <3>2. (s + k * MaxWord) % MaxWord = 0
      BY <2>3, <2>5, <3>1, MultipleShifted
    <3> QED
      BY <3>2 DEF k
  <2> QED
    BY <2>6, <2>7, <2>8 DEF Verifies
<1> QED
  BY <1>6, <1>7, <1>8 DEF FrameInv, ForwardedVerifies

\* A datagram or segment that comes with a right checksum keeps a right one when
\* changeIp() replaces its addresses, for bytes of any width, any addresses and any
\* number of changes.
THEOREM SpecForwarded == FrameSpec => []ForwardedVerifies
<1>1. FrameInit => FrameInv
  BY DEF FrameInit, FrameInv, ForwardedVerifies, HasChecksum
<1>2. FrameInv /\ [FrameNext]_frameVars => FrameInv'
  <2> SUFFICES ASSUME FrameInv, [FrameNext]_frameVars PROVE FrameInv'
    OBVIOUS
  <2>1. CASE Send
    BY <2>1 DEF Send, createUdpFrame, FrameInv, ForwardedVerifies
  <2>2. CASE Forward
    BY <2>2, ChangeKeepsInv DEF Forward
  <2>3. CASE UNCHANGED frameVars
    BY <2>3 DEF frameVars, FrameInv, ForwardedVerifies
  <2> QED
    BY <2>1, <2>2, <2>3 DEF FrameNext
<1>3. FrameInv => ForwardedVerifies
  BY DEF FrameInv
<1> QED
  BY <1>1, <1>2, <1>3, PTL DEF FrameSpec

-----------------------------------------------------------------------------
(* Totals.                                                                 *)

\* g[i] is the total of the first i terms.
IsTotal(g, terms) ==
  /\ \A i \in 0 .. Len(terms) : g[i] \in Nat
  /\ g[0] = 0
  /\ \A i \in 1 .. Len(terms) : g[i] = g[i - 1] + terms[i]

\* Total, line by line.
LEMMA TotalLines ==
  ASSUME NEW terms \in Seq(Nat)
  PROVE  \E g : IsTotal(g, terms) /\ Total(terms) = g[Len(terms)]
<1> DEFINE n == Len(terms)
           step == [i \in 1 .. n |-> [t \in Nat |-> t + terms[i]]]
           Def(h) == h = [i \in 0 .. n |-> IF i = 0 THEN 0 ELSE h[i - 1] + terms[i]]
           f == CHOOSE h : Def(h)
<1>1. n \in Nat /\ \A i \in 1 .. n : terms[i] \in Nat /\ i # 0 /\ i - 1 \in 0 .. n /\ i \in 0 .. n
  OBVIOUS
<1>2. PICK g : IsRecursion(g, n, Nat, 0, step)
  <2>1. step \in [1 .. n -> [Nat -> Nat]] /\ 0 \in Nat
    BY <1>1
  <2> HIDE DEF step, n
  <2>2. QED
    BY <1>1, <2>1, RecursionOf
<1>3. g \in [0 .. n -> Nat] /\ g[0] = 0 /\ \A i \in 1 .. n : g[i] = step[i][g[i - 1]]
  BY <1>2, Zenon DEF IsRecursion
<1>4. \A i \in 0 .. n : g[i] \in Nat
  BY <1>3
<1>5. \A i \in 1 .. n : g[i] = g[i - 1] + terms[i]
  <2>1. SUFFICES ASSUME NEW i \in 1 .. n PROVE g[i] = g[i - 1] + terms[i]
    OBVIOUS
  <2>2. g[i - 1] \in Nat
    BY <1>1, <1>4, Zenon
  <2>3. step[i][g[i - 1]] = g[i - 1] + terms[i]
    BY <2>2, Zenon
  <2>4. QED
    BY <1>3, <2>3, Zenon
<1>6. Def(f)
  <2>1. Def(g)
    <3>1. \A i \in 0 .. n : g[i] = IF i = 0 THEN 0 ELSE g[i - 1] + terms[i]
      BY <1>1, <1>3, <1>5
    <3>2. QED
      BY <1>3, <3>1, Zenon
  <2> HIDE DEF Def
  <2>2. QED
    BY <2>1, Zenon
<1> HIDE DEF f
<1>7. \A i \in 0 .. n : f[i] = IF i = 0 THEN 0 ELSE f[i - 1] + terms[i]
  BY <1>6, Zenon
<1> DEFINE Same == {i \in 0 .. n : f[i] = g[i]}
<1>8. 0 \in Same
  BY <1>1, <1>3, <1>7
<1>9. ASSUME NEW i \in 1 .. n, i - 1 \in Same PROVE i \in Same
  BY <1>1, <1>5, <1>7, <1>9, Zenon
<1>10. 0 .. n \subseteq Same
  <2> HIDE DEF Same, n
  <2>1. QED
    BY <1>1, <1>8, <1>9, InductionOf
<1>11. n \in 0 .. n /\ Total(terms) = f[n]
  BY <1>1 DEF Total, f
<1>12. Total(terms) = g[n]
  BY <1>10, <1>11, Zenon
<1>13. QED
  BY <1>3, <1>4, <1>5, <1>12, Zenon DEF IsTotal

\* The lines determine the total.
LEMMA TotalIs ==
  ASSUME NEW terms \in Seq(Nat), NEW g, IsTotal(g, terms)
  PROVE  Total(terms) = g[Len(terms)]
<1> DEFINE n == Len(terms)
<1>1. n \in Nat
  OBVIOUS
<1>2. PICK f : IsTotal(f, terms) /\ Total(terms) = f[n]
  BY TotalLines
<1> DEFINE Same == {i \in 0 .. n : f[i] = g[i]}
<1>3. 0 \in Same
  BY <1>1, <1>2 DEF IsTotal
<1>4. ASSUME NEW i \in 1 .. n, i - 1 \in Same PROVE i \in Same
  <2>1. i \in 0 .. n /\ f[i - 1] = g[i - 1]
    BY <1>1, <1>4
  <2>2. QED
    BY <1>2, <2>1, Zenon DEF IsTotal
<1>5. 0 .. n \subseteq Same
  <2> HIDE DEF Same, n
  <2>1. QED
    BY <1>1, <1>3, <1>4, InductionOf
<1>6. n \in 0 .. n
  BY <1>1
<1>7. QED
  BY <1>2, <1>5, <1>6, Zenon

\* A sum is at most its number of terms times the greatest.
LEMMA TotalBounded ==
  ASSUME NEW terms \in Seq(Nat), NEW b \in Nat, \A i \in 1 .. Len(terms) : terms[i] <= b
  PROVE  Total(terms) \in Nat /\ Total(terms) <= Len(terms) * b
<1> DEFINE n == Len(terms)
<1>1. n \in Nat
  OBVIOUS
<1>2. PICK g : IsTotal(g, terms) /\ Total(terms) = g[n]
  BY TotalLines
<1> DEFINE Good == {i \in 0 .. n : g[i] <= i * b}
<1>3. 0 \in Good
  BY <1>1, <1>2 DEF IsTotal
<1>4. ASSUME NEW i \in 1 .. n, i - 1 \in Good PROVE i \in Good
  <2>1. i \in 0 .. n /\ i - 1 \in 0 .. n /\ g[i - 1] <= (i - 1) * b
    BY <1>1, <1>4
  <2>2. g[i] = g[i - 1] + terms[i] /\ g[i - 1] \in Nat /\ terms[i] \in Nat /\ terms[i] <= b
    BY <1>2, <2>1 DEF IsTotal
  <2>3. (i - 1) * b + b = i * b /\ (i - 1) * b \in Int
    BY <2>1
  <2>4. g[i] <= i * b
    BY <2>1, <2>2, <2>3
  <2>5. QED
    BY <2>1, <2>4
<1>5. 0 .. n \subseteq Good
  <2> HIDE DEF Good, n
  <2>1. QED
    BY <1>1, <1>3, <1>4, InductionOf
<1>6. n \in 0 .. n
  BY <1>1
<1>7. g[n] <= n * b
  BY <1>5, <1>6
<1>8. QED
  BY <1>2, <1>6, <1>7 DEF IsTotal

-----------------------------------------------------------------------------
(* The sum of the bytes of a frame.                                        *)

\* The values of a byte.
Byte == 0 .. Bytes - 1

\* Each byte with its weight in its word.
Weighed(data) ==
  [k \in 1 .. Len(data) |-> IF k % 2 = 1 THEN data[k] * Bytes ELSE data[k]]

\* Two bytes make a word.
LEMMA WordOfBytes ==
  ASSUME NEW a \in Byte, NEW b \in Byte
  PROVE  a * Bytes \in Nat /\ a * Bytes + b \in Word /\ a * Bytes \in Word /\ b \in Nat
<1>1. Bytes \in Nat /\ a \in Nat /\ b \in Nat /\ a <= Bytes - 1 /\ b <= Bytes - 1
  BY EthernetAssumption DEF Byte
<1>2. a * Bytes <= (Bytes - 1) * Bytes
  BY <1>1
<1>3. (Bytes - 1) * Bytes = Bytes * Bytes - Bytes /\ Bytes * Bytes \in Nat /\ a * Bytes \in Nat
  BY <1>1
<1>4. QED
  BY <1>1, <1>2, <1>3 DEF Word, MaxWord

\* The bytes at odd places weigh Bytes, the others 1.
LEMMA WeighedLines ==
  ASSUME NEW data \in Seq(Byte)
  PROVE  /\ Weighed(data) \in Seq(Nat) /\ Len(Weighed(data)) = Len(data)
         /\ SumOf(data) = Total(Weighed(data))
         /\ \A k \in 1 .. Len(data) :
              /\ data[k] \in Byte
              /\ k % 2 = 1 => Weighed(data)[k] = data[k] * Bytes
              /\ k % 2 = 0 => Weighed(data)[k] = data[k]
<1>1. \A k \in 1 .. Len(data) : data[k] \in Byte
  OBVIOUS
<1>2. \A k \in 1 .. Len(data) : data[k] * Bytes \in Nat /\ data[k] \in Nat
  BY <1>1, WordOfBytes
<1>3. Weighed(data) \in Seq(Nat) /\ Len(Weighed(data)) = Len(data)
  BY <1>2 DEF Weighed
<1>4. SumOf(data) = Total(Weighed(data))
  BY DEF SumOf, Weighed
<1>5. \A k \in 1 .. Len(data) : /\ k % 2 = 1 => Weighed(data)[k] = data[k] * Bytes
                                /\ k % 2 = 0 => Weighed(data)[k] = data[k]
  BY DEF Weighed
<1>6. QED
  BY <1>1, <1>3, <1>4, <1>5

\* The totals of the bytes in front of each place.
LEMMA SumLines ==
  ASSUME NEW data \in Seq(Byte)
  PROVE  \E g : IsTotal(g, Weighed(data)) /\ SumOf(data) = g[Len(data)]
<1>1. /\ Weighed(data) \in Seq(Nat) /\ Len(Weighed(data)) = Len(data)
      /\ SumOf(data) = Total(Weighed(data))
  BY WeighedLines
<1>2. \E g : IsTotal(g, Weighed(data)) /\ Total(Weighed(data)) = g[Len(Weighed(data))]
  BY <1>1, TotalLines, Zenon
<1>3. QED
  BY <1>1, <1>2, Zenon

\* The sum of any bytes is a number.
LEMMA SumIsNat ==
  ASSUME NEW data \in Seq(Byte)
  PROVE  SumOf(data) \in Nat
<1>1. PICK g : IsTotal(g, Weighed(data)) /\ SumOf(data) = g[Len(data)]
  BY SumLines
<1>2. Len(data) \in 0 .. Len(data) /\ Len(Weighed(data)) = Len(data)
  BY WeighedLines
<1>3. QED
  BY <1>1, <1>2, Zenon DEF IsTotal

\* The words and the last word, which may be half a word, are all the bytes.
LEMMA WordsAreBytes ==
  ASSUME NEW data \in Seq(Byte), Len(data) >= 2
  PROVE  /\ Total(Words(data)) + LastWord(data) = SumOf(data)
         /\ SumOf(data) \in Nat
         /\ SumOf(data) <= ((Len(data) - 1) \div 2 + 1) * MaxWord
<1> DEFINE n == Len(data)
           m == (n - 1) \div 2
           w == Words(data)
<1>1. /\ n \in Nat /\ m \in Nat /\ n >= 2
      /\ (n = 2 * m + 2 /\ n % 2 = 0) \/ (n = 2 * m + 1 /\ n % 2 = 1)
  OBVIOUS
<1> HIDE DEF m
<1>2. \A i \in 1 .. m : /\ 2 * i - 1 \in 1 .. n /\ 2 * i \in 1 .. n
                        /\ (2 * i - 1) % 2 = 1 /\ (2 * i) % 2 = 0
  BY <1>1
<1>3. w = [i \in 1 .. m |-> data[2 * i - 1] * Bytes + data[2 * i]]
  BY DEF Words, m
<1>4. \A i \in 1 .. m : data[2 * i - 1] * Bytes + data[2 * i] \in Word
  BY <1>2, WordOfBytes, WeighedLines
<1>5. MaxWord \in Nat /\ Word = 0 .. MaxWord
  BY MaxWordIsPositive DEF Word
<1> HIDE DEF w, n
<1>6. /\ w \in Seq(Nat) /\ Len(w) = m
      /\ \A i \in 1 .. m : w[i] = data[2 * i - 1] * Bytes + data[2 * i] /\ w[i] <= MaxWord
  BY <1>1, <1>3, <1>4, <1>5
<1>7. PICK g : IsTotal(g, w) /\ Total(w) = g[m]
  BY <1>6, TotalLines
<1>8. PICK h : IsTotal(h, Weighed(data)) /\ SumOf(data) = h[n]
  BY SumLines, Zenon DEF n
<1>9. /\ \A k \in 0 .. n : h[k] \in Nat
      /\ h[0] = 0
      /\ \A k \in 1 .. n : /\ data[k] \in Byte /\ k - 1 \in 0 .. n
                           /\ k % 2 = 1 => h[k] = h[k - 1] + data[k] * Bytes
                           /\ k % 2 = 0 => h[k] = h[k - 1] + data[k]
  BY <1>8, WeighedLines DEF IsTotal, n
<1> DEFINE Good == {i \in 0 .. m : g[i] = h[2 * i]}
<1>10. 0 \in Good
  BY <1>1, <1>6, <1>7, <1>9 DEF IsTotal
<1>11. ASSUME NEW i \in 1 .. m, i - 1 \in Good PROVE i \in Good
  <2>1. i \in 0 .. m /\ i - 1 \in 0 .. m /\ g[i - 1] = h[2 * (i - 1)]
    BY <1>1, <1>11
  <2>2. g[i] = g[i - 1] + (data[2 * i - 1] * Bytes + data[2 * i])
    BY <1>6, <1>7 DEF IsTotal
  <2>3. h[2 * i] = h[2 * i - 1] + data[2 * i]
    BY <1>2, <1>9
  <2>4. h[2 * i - 1] = h[2 * i - 1 - 1] + data[2 * i - 1] * Bytes
    BY <1>2, <1>9
  <2>5. 2 * i - 1 - 1 = 2 * (i - 1) /\ 2 * (i - 1) \in 0 .. n
    BY <1>1
  <2>6. h[2 * (i - 1)] \in Nat /\ data[2 * i - 1] * Bytes \in Nat /\ data[2 * i] \in Nat
    BY <1>2, <1>9, <2>5, WordOfBytes
  <2>7. h[2 * i - 1] = h[2 * (i - 1)] + data[2 * i - 1] * Bytes
    BY <2>4, <2>5
  <2>8. g[i] = h[2 * i]
    BY <2>1, <2>2, <2>3, <2>6, <2>7
  <2>9. QED
    BY <2>1, <2>8
<1>12. 0 .. m \subseteq Good
  <2> HIDE DEF Good
  <2>1. QED
    BY <1>1, <1>10, <1>11, InductionOf
<1>13. Total(w) = h[2 * m]
  <2>1. m \in 0 .. m
    BY <1>1
  <2>2. QED
    BY <1>7, <1>12, <2>1, Zenon
<1>14. h[2 * m] + LastWord(data) = h[n] /\ LastWord(data) \in Word
  <2>1. h[2 * m] \in Nat
    BY <1>1, <1>9
  <2>2. CASE n = 2 * m + 2 /\ n % 2 = 0
    <3>1. n \in 1 .. n /\ n - 1 \in 1 .. n /\ (n - 1) % 2 = 1 /\ n - 1 - 1 = 2 * m
      BY <1>1, <2>2
    <3>2. LastWord(data) = data[n - 1] * Bytes + data[n]
      BY <2>2 DEF LastWord, n
    <3>3. h[n] = h[n - 1] + data[n] /\ data[n] \in Byte
      BY <1>9, <2>2, <3>1
    <3>4. h[n - 1] = h[n - 1 - 1] + data[n - 1] * Bytes /\ data[n - 1] \in Byte
      BY <1>9, <3>1
    <3>5. data[n - 1] * Bytes \in Nat /\ data[n] \in Nat
          /\ data[n - 1] * Bytes + data[n] \in Word
      BY <3>3, <3>4, WordOfBytes
    <3>6. h[n - 1] = h[2 * m] + data[n - 1] * Bytes
      BY <3>1, <3>4
    <3>7. QED
      BY <2>1, <3>2, <3>3, <3>5, <3>6
  <2>3. CASE n = 2 * m + 1 /\ n % 2 = 1
    <3>1. n \in 1 .. n /\ n - 1 = 2 * m
      BY <1>1, <2>3
    <3>2. LastWord(data) = data[n] * Bytes
      BY <2>3 DEF LastWord, n
    <3>3. h[n] = h[n - 1] + data[n] * Bytes /\ data[n] \in Byte
      BY <1>9, <2>3, <3>1
    <3>4. data[n] * Bytes \in Word
      BY <3>3, WordOfBytes
    <3>5. QED
      BY <3>1, <3>2, <3>3, <3>4
  <2>4. QED
    BY <1>1, <2>2, <2>3
<1>15. Total(w) \in Nat /\ Total(w) <= m * MaxWord
  <2>1. Total(w) \in Nat /\ Total(w) <= Len(w) * MaxWord
    BY <1>5, <1>6, TotalBounded
  <2>2. QED
    BY <1>6, <2>1
<1>16. Total(w) + LastWord(data) = SumOf(data)
  BY <1>8, <1>13, <1>14
<1>17. (m + 1) * MaxWord = m * MaxWord + MaxWord /\ m * MaxWord \in Nat
  BY <1>1, <1>5
<1> DEFINE total == Total(w)
           last == LastWord(data)
<1>18. total + last \in Nat /\ total + last <= (m + 1) * MaxWord
  <2>1. total \in Nat /\ total <= m * MaxWord /\ last \in 0 .. MaxWord
    BY <1>5, <1>14, <1>15
  <2> HIDE DEF total, last
  <2>2. QED
    BY <1>5, <1>17, <2>1
<1>19. QED
  BY <1>16, <1>18 DEF w, m, n

\* The sum of bytes in front of which there is an even number of others.
LEMMA SumOfConcat ==
  ASSUME NEW s \in Seq(Byte), NEW t \in Seq(Byte), Len(s) % 2 = 0
  PROVE  SumOf(s \o t) = SumOf(s) + SumOf(t)
<1> DEFINE u == s \o t
           n == Len(s)
           m == Len(t)
<1>1. /\ u \in Seq(Byte) /\ Len(u) = n + m /\ n \in Nat /\ m \in Nat
      /\ \A k \in 1 .. n : u[k] = s[k] /\ k \in 1 .. n + m
      /\ \A k \in 1 .. m : u[n + k] = t[k] /\ n + k \in 1 .. n + m
  OBVIOUS
<1> HIDE DEF u
<1>2. PICK f : IsTotal(f, Weighed(u)) /\ SumOf(u) = f[n + m]
  BY <1>1, SumLines, Zenon
<1>3. PICK g : IsTotal(g, Weighed(s)) /\ SumOf(s) = g[n]
  BY SumLines, Zenon
<1>4. PICK h : IsTotal(h, Weighed(t)) /\ SumOf(t) = h[m]
  BY SumLines, Zenon
<1>5. /\ \A k \in 0 .. n + m : f[k] \in Nat
      /\ f[0] = 0 /\ \A k \in 1 .. n + m : f[k] = f[k - 1] + Weighed(u)[k]
  BY <1>1, <1>2, WeighedLines DEF IsTotal
<1>6. /\ \A k \in 0 .. n : g[k] \in Nat
      /\ g[0] = 0 /\ \A k \in 1 .. n : g[k] = g[k - 1] + Weighed(s)[k]
  BY <1>3, WeighedLines DEF IsTotal
<1>7. /\ \A k \in 0 .. m : h[k] \in Nat
      /\ h[0] = 0 /\ \A k \in 1 .. m : h[k] = h[k - 1] + Weighed(t)[k]
  BY <1>4, WeighedLines DEF IsTotal
<1>8. PICK p \in Nat : n = 2 * p
  BY <1>1
<1>9. ASSUME NEW k \in 1 .. n PROVE Weighed(u)[k] = Weighed(s)[k]
  <2>1. k \in 1 .. n + m /\ u[k] = s[k]
    BY <1>1, Zenon
  <2>2. Weighed(u)[k] = IF k % 2 = 1 THEN u[k] * Bytes ELSE u[k]
    BY <1>1, <2>1 DEF Weighed
  <2>3. Weighed(s)[k] = IF k % 2 = 1 THEN s[k] * Bytes ELSE s[k]
    BY DEF Weighed
  <2>4. QED
    BY <2>1, <2>2, <2>3
<1>10. ASSUME NEW k \in 1 .. m PROVE Weighed(u)[n + k] = Weighed(t)[k]
  <2>1. n + k \in 1 .. n + m /\ u[n + k] = t[k]
    BY <1>1
  <2>2. Weighed(u)[n + k] = IF (n + k) % 2 = 1 THEN u[n + k] * Bytes ELSE u[n + k]
    BY <1>1, <2>1 DEF Weighed
  <2>3. Weighed(t)[k] = IF k % 2 = 1 THEN t[k] * Bytes ELSE t[k]
    BY DEF Weighed
  <2>4. (n + k) % 2 = k % 2
    <3>1. k \in Nat
      BY <1>1
    <3> HIDE DEF n
    <3>2. QED
      BY <1>8, <3>1
  <2>5. QED
    BY <2>1, <2>2, <2>3, <2>4, Zenon
<1> HIDE DEF n, m
<1> DEFINE Same == {k \in 0 .. n : f[k] = g[k]}
<1>11. n \in Same
  <2>1. 0 \in Same
    BY <1>1, <1>5, <1>6
  <2>2. ASSUME NEW k \in 1 .. n, k - 1 \in Same PROVE k \in Same
    <3>1. k \in 0 .. n /\ k \in 1 .. n + m
      BY <1>1
    <3>2. f[k - 1] = g[k - 1]
      BY <2>2
    <3>3. f[k] = g[k]
      BY <1>5, <1>6, <1>9, <3>1, <3>2, Zenon
    <3>4. QED
      BY <3>1, <3>3
  <2>3. 0 .. n \subseteq Same
    <3> HIDE DEF Same
    <3>1. QED
      BY <1>1, <2>1, <2>2, InductionOf
  <2>4. n \in 0 .. n
    BY <1>1
  <2>5. QED
    BY <2>3, <2>4, Zenon
<1>12. f[n] = g[n]
  BY <1>11
<1> DEFINE On == {k \in 0 .. m : f[n + k] = f[n] + h[k]}
<1>13. m \in On
  <2>1. 0 \in On
    <3>1. n + 0 = n /\ f[n] + 0 = f[n] /\ 0 \in 0 .. m
      BY <1>1, <1>5
    <3>2. QED
      BY <1>7, <3>1
  <2>2. ASSUME NEW k \in 1 .. m, k - 1 \in On PROVE k \in On
    <3>1. /\ k \in 0 .. m /\ n + k \in 1 .. n + m /\ n + k - 1 \in 0 .. n + m
          /\ n + k - 1 = n + (k - 1) /\ k - 1 \in 0 .. m /\ n \in 0 .. n + m
      BY <1>1
    <3>2. f[n + (k - 1)] = f[n] + h[k - 1]
      BY <2>2
    <3>3. f[n + k] = f[n + (k - 1)] + Weighed(t)[k]
      <4>1. f[n + k] = f[n + k - 1] + Weighed(u)[n + k]
        BY <1>5, <3>1
      <4>2. QED
        BY <1>10, <3>1, <4>1
    <3>4. h[k] = h[k - 1] + Weighed(t)[k] /\ Weighed(t)[k] \in Nat
      BY <1>7, WeighedLines DEF m
    <3>5. f[n] \in Nat /\ h[k - 1] \in Nat
      BY <1>5, <1>7, <3>1
    <3>6. f[n + k] = f[n] + h[k]
      BY <3>2, <3>3, <3>4, <3>5
    <3>7. QED
      BY <3>1, <3>6
  <2>3. 0 .. m \subseteq On
    <3> HIDE DEF On
    <3>1. QED
      BY <1>1, <2>1, <2>2, InductionOf
  <2>4. m \in 0 .. m
    BY <1>1
  <2>5. QED
    BY <2>3, <2>4, Zenon
<1>14. f[n + m] = f[n] + h[m]
  BY <1>13
<1>15. QED
  BY <1>2, <1>3, <1>4, <1>12, <1>14 DEF u

\* Both bytes of a word.
LEMMA WordInBytes ==
  ASSUME NEW w \in Nat
  PROVE  /\ HiLo(w)[1] \in Byte /\ HiLo(w)[2] \in Byte
         /\ w \in Word => HiLo(w)[1] * Bytes + HiLo(w)[2] = w
<1>1. Bytes \in Nat /\ Bytes > 1
  BY EthernetAssumption
<1> DEFINE q == w \div Bytes
           r == w % Bytes
<1>2. q \in Nat /\ r \in 0 .. Bytes - 1 /\ w = q * Bytes + r
  BY <1>1
<1>3. HiLo(w)[1] = q % Bytes /\ HiLo(w)[2] = r
  BY DEF HiLo
<1> HIDE DEF q, r
<1>4. q % Bytes \in 0 .. Bytes - 1
  BY <1>1, <1>2
<1>5. ASSUME w \in Word PROVE q % Bytes = q
  <2>1. w <= Bytes * Bytes - 1 /\ Bytes * Bytes \in Nat /\ q * Bytes \in Nat
    BY <1>1, <1>2, <1>5 DEF Word, MaxWord
  <2>2. q * Bytes < Bytes * Bytes
    BY <1>1, <1>2, <2>1
  <2>3. q < Bytes
    BY <1>1, <1>2, <2>2
  <2>4. QED
    BY <1>1, <1>2, <2>3
<1>6. QED
  BY <1>2, <1>3, <1>4, <1>5 DEF Byte

\* The words of a header in bytes.
LEMMA InBytesLines ==
  ASSUME NEW words \in Seq(Nat)
  PROVE  /\ InBytes(words) \in Seq(Byte) /\ Len(InBytes(words)) = 2 * Len(words)
         /\ \A i \in 1 .. Len(words) : /\ InBytes(words)[2 * i - 1] = HiLo(words[i])[1]
                                       /\ InBytes(words)[2 * i] = HiLo(words[i])[2]
<1> DEFINE n == Len(words)
           At(k) == HiLo(words[(k + 1) \div 2])[2 - (k % 2)]
<1>1. n \in Nat /\ InBytes(words) = [k \in 1 .. 2 * n |-> At(k)]
  BY DEF InBytes
<1>2. ASSUME NEW k \in 1 .. 2 * n PROVE At(k) \in Byte
  <2>1. (k + 1) \div 2 \in 1 .. n /\ 2 - (k % 2) \in {1, 2}
    BY <1>1
  <2>2. words[(k + 1) \div 2] \in Nat
    BY <2>1
  <2>3. QED
    BY <2>1, <2>2, WordInBytes
<1>3. ASSUME NEW i \in 1 .. n
      PROVE  /\ 2 * i - 1 \in 1 .. 2 * n /\ At(2 * i - 1) = HiLo(words[i])[1]
             /\ 2 * i \in 1 .. 2 * n /\ At(2 * i) = HiLo(words[i])[2]
  <2>1. /\ 2 * i - 1 \in 1 .. 2 * n /\ 2 * i \in 1 .. 2 * n
        /\ (2 * i - 1 + 1) \div 2 = i /\ 2 - ((2 * i - 1) % 2) = 1
        /\ (2 * i + 1) \div 2 = i /\ 2 - ((2 * i) % 2) = 2
    BY <1>1
  <2>2. QED
    BY <2>1, Zenon
<1> HIDE DEF At, n
<1>4. InBytes(words) \in Seq(Byte) /\ Len(InBytes(words)) = 2 * n
  BY <1>1, <1>2
<1>5. \A i \in 1 .. n : /\ InBytes(words)[2 * i - 1] = HiLo(words[i])[1]
                        /\ InBytes(words)[2 * i] = HiLo(words[i])[2]
  BY <1>1, <1>3
<1>6. QED
  BY <1>4, <1>5 DEF n

\* A word adds its value to the sum of the bytes.
LEMMA WordAdded ==
  ASSUME NEW words \in Seq(Nat), NEW g, IsTotal(g, Weighed(InBytes(words))),
         NEW i \in 1 .. Len(words), words[i] \in Word
  PROVE  g[2 * i] \in Nat /\ g[2 * i - 2] \in Nat /\ g[2 * i] = g[2 * i - 2] + words[i]
<1> DEFINE data == InBytes(words)
           w == words[i]
<1>1. /\ data \in Seq(Byte) /\ Len(data) = 2 * Len(words)
      /\ data[2 * i - 1] = HiLo(w)[1] /\ data[2 * i] = HiLo(w)[2] /\ w \in Nat
      /\ Len(words) \in Nat
  BY InBytesLines
<1>2. /\ HiLo(w)[1] * Bytes + HiLo(w)[2] = w
      /\ HiLo(w)[1] * Bytes \in Nat /\ HiLo(w)[2] \in Nat
  BY <1>1, WordInBytes, WordOfBytes
<1> HIDE DEF data, w
<1>3. /\ 2 * i - 1 \in 1 .. Len(data) /\ 2 * i \in 1 .. Len(data)
      /\ (2 * i - 1) % 2 = 1 /\ (2 * i) % 2 = 0
      /\ 2 * i - 1 - 1 = 2 * i - 2 /\ 2 * i - 2 \in 0 .. Len(data)
  BY <1>1
<1>4. /\ \A k \in 0 .. Len(data) : g[k] \in Nat
      /\ \A k \in 1 .. Len(data) : g[k] = g[k - 1] + Weighed(data)[k]
  BY <1>1, WeighedLines DEF IsTotal, data
<1>5. Weighed(data)[2 * i - 1] = HiLo(w)[1] * Bytes /\ Weighed(data)[2 * i] = HiLo(w)[2]
  BY <1>1, <1>3, WeighedLines
<1>6. g[2 * i - 1] = g[2 * i - 1 - 1] + HiLo(w)[1] * Bytes
      /\ g[2 * i] = g[2 * i - 1] + HiLo(w)[2] /\ g[2 * i - 2] \in Nat
  BY <1>3, <1>4, <1>5
<1>7. g[2 * i - 1] = g[2 * i - 2] + HiLo(w)[1] * Bytes
  BY <1>3, <1>6
<1>8. g[2 * i] = g[2 * i - 2] + w
  <2> DEFINE hi == HiLo(w)[1] * Bytes
             lo == HiLo(w)[2]
             x == g[2 * i - 2]
  <2>1. hi \in Nat /\ lo \in Nat /\ x \in Nat /\ w = hi + lo
    BY <1>2, <1>6
  <2>2. g[2 * i] = (x + hi) + lo
    BY <1>6, <1>7, Zenon
  <2> HIDE DEF hi, lo, x
  <2>3. (x + hi) + lo = x + w
    BY <2>1
  <2>4. QED
    BY <2>2, <2>3, Zenon DEF x
<1>9. g[2 * i] \in Nat
  BY <1>3, <1>4
<1>10. QED
  BY <1>6, <1>8, <1>9 DEF w

\* The elements of two sequences, one after the other.
LEMMA ConcatLines ==
  ASSUME NEW S, NEW s \in Seq(S), NEW t \in Seq(S)
  PROVE  /\ s \o t \in Seq(S) /\ Len(s \o t) = Len(s) + Len(t)
         /\ \A k \in 1 .. Len(s) : (s \o t)[k] = s[k]
         /\ \A k \in 1 .. Len(t) : (s \o t)[Len(s) + k] = t[k]
  OBVIOUS

\* The sum of the bytes of two addresses is the sum of their words.
LEMMA SumOfTwoAddresses ==
  ASSUME NEW src \in Addresses, NEW dst \in Addresses
  PROVE  /\ InBytes(src \o dst) \in Seq(Byte) /\ Len(InBytes(src \o dst)) = 8
         /\ SumOf(InBytes(src \o dst)) = src[1] + src[2] + dst[1] + dst[2]
         /\ src[1] \in Nat /\ src[2] \in Nat /\ dst[1] \in Nat /\ dst[2] \in Nat
<1> DEFINE words == src \o dst
           data == InBytes(words)
<1>1. /\ src[1] \in Word /\ src[2] \in Word /\ dst[1] \in Word /\ dst[2] \in Word
      /\ Word \subseteq Nat
  BY EthernetAssumption, MaxWordIsPositive DEF Word
<1>2. /\ words \in Seq(Nat) /\ Len(words) = 4 /\ words[1] = src[1] /\ words[2] = src[2]
      /\ words[3] = dst[1] /\ words[4] = dst[2]
  <2>1. src \in Word \X Word /\ dst \in Word \X Word
    BY EthernetAssumption
  <2>2. PICK a \in Word, b \in Word : src = <<a, b>>
    BY <2>1
  <2>3. PICK c \in Word, d \in Word : dst = <<c, d>>
    BY <2>1
  <2>4. a \in Nat /\ b \in Nat /\ c \in Nat /\ d \in Nat
    BY <1>1
  <2> DEFINE s == <<a, b>>
             t == <<c, d>>
  <2>5. /\ s \in Seq(Nat) /\ Len(s) = 2 /\ s[1] = a /\ s[2] = b
        /\ t \in Seq(Nat) /\ Len(t) = 2 /\ t[1] = c /\ t[2] = d
    BY <2>4
  <2>6. words = s \o t /\ src[1] = a /\ src[2] = b /\ dst[1] = c /\ dst[2] = d
    BY <2>2, <2>3
  <2> HIDE DEF words, s, t
  <2>7. /\ s \o t \in Seq(Nat) /\ Len(s \o t) = Len(s) + Len(t)
        /\ \A k \in 1 .. Len(s) : (s \o t)[k] = s[k]
        /\ \A k \in 1 .. Len(t) : (s \o t)[Len(s) + k] = t[k]
    <3>1. s \in Seq(Nat) /\ t \in Seq(Nat)
      BY <2>5
    <3>2. QED
      BY <3>1, ConcatLines
  <2> DEFINE u == s \o t
  <2> HIDE DEF u
  <2>8. /\ u \in Seq(Nat) /\ Len(u) = 4
        /\ u[1] = s[1] /\ u[2] = s[2] /\ u[3] = t[1] /\ u[4] = t[2]
    <3>1. /\ Len(u) = 2 + 2 /\ \A k \in 1 .. 2 : u[k] = s[k]
          /\ \A k \in 1 .. 2 : u[2 + k] = t[k]
      BY <2>5, <2>7, Zenon DEF u
    <3>2. u \in Seq(Nat)
      BY <2>7 DEF u
    <3>3. /\ 2 + 2 = 4 /\ 2 + 1 = 3 /\ 1 \in 1 .. 2 /\ 2 \in 1 .. 2
      OBVIOUS
    <3>4. QED
      BY <3>1, <3>2, <3>3, Zenon
  <2>9. QED
    BY <2>5, <2>6, <2>8, Zenon DEF u
<1> HIDE DEF words
<1>3. data \in Seq(Byte) /\ Len(data) = 2 * Len(words)
  BY <1>2, InBytesLines
<1>4. PICK g : IsTotal(g, Weighed(data)) /\ SumOf(data) = g[8]
  <2> HIDE DEF data
  <2>1. Len(data) = 8
    BY <1>2, <1>3
  <2>2. QED
    BY <1>3, <2>1, SumLines, Zenon
<1>5. \A i \in 1 .. 4 : /\ g[2 * i] \in Nat /\ g[2 * i - 2] \in Nat
                        /\ g[2 * i] = g[2 * i - 2] + words[i]
  <2>1. \A i \in 1 .. 4 : words[i] \in Word /\ i \in 1 .. Len(words)
    BY <1>1, <1>2
  <2>2. QED
    BY <1>2, <1>4, <2>1, WordAdded
<1>6. /\ g[2] = g[0] + words[1] /\ g[4] = g[2] + words[2]
      /\ g[6] = g[4] + words[3] /\ g[8] = g[6] + words[4]
  <2>1. /\ 2 * 1 = 2 /\ 2 * 1 - 2 = 0 /\ 2 * 2 = 4 /\ 2 * 2 - 2 = 2
        /\ 2 * 3 = 6 /\ 2 * 3 - 2 = 4 /\ 2 * 4 = 8 /\ 2 * 4 - 2 = 6
        /\ 1 \in 1 .. 4 /\ 2 \in 1 .. 4 /\ 3 \in 1 .. 4 /\ 4 \in 1 .. 4
    OBVIOUS
  <2>2. g[2 * 1] = g[2 * 1 - 2] + words[1] /\ g[2 * 2] = g[2 * 2 - 2] + words[2]
    BY <1>5, <2>1, Zenon
  <2>3. g[2 * 3] = g[2 * 3 - 2] + words[3] /\ g[2 * 4] = g[2 * 4 - 2] + words[4]
    BY <1>5, <2>1, Zenon
  <2>4. QED
    BY <2>1, <2>2, <2>3
<1>7. g[0] = 0
  BY <1>4 DEF IsTotal
<1>8. g[8] = src[1] + src[2] + dst[1] + dst[2]
  <2>1. src[1] \in Nat
    BY <1>1
  <2>2. 0 + src[1] = src[1]
    BY <2>1
  <2>3. g[2] = src[1]
    BY <1>2, <1>6, <1>7, <2>2, Zenon
  <2>4. g[4] = src[1] + src[2]
    BY <1>2, <1>6, <2>3, Zenon
  <2>5. g[6] = src[1] + src[2] + dst[1]
    BY <1>2, <1>6, <2>4, Zenon
  <2>6. QED
    BY <1>2, <1>6, <2>5, Zenon
<1>9. Len(data) = 8
  BY <1>2, <1>3
<1>10. QED
  BY <1>1, <1>3, <1>4, <1>8, <1>9 DEF words

-----------------------------------------------------------------------------
(* The checksum.                                                           *)

\* One fold takes multiples of MaxWord away.
LEMMA FoldIsRight ==
  ASSUME NEW x \in Nat
  PROVE  /\ Fold(x) \in Nat
         /\ \E j \in Nat : Fold(x) = x - j * MaxWord
         /\ x <= MaxWord * (MaxWord + 1) => Fold(x) <= 2 * MaxWord
         /\ x <= 2 * MaxWord => Fold(x) \in Word
<1> DEFINE M == MaxWord
           d == M + 1
           q == x \div d
           r == x % d
<1>1. M \in Nat /\ M > 0 /\ d \in Nat /\ d > 0 /\ d = M + 1 /\ Word = 0 .. M
  BY MaxWordIsPositive DEF Word
<1>2. Fold(x) = r + q
  BY DEF Fold
<1> HIDE DEF M, d
<1>3. q \in Nat /\ r \in 0 .. M /\ x = q * (M + 1) + r
  <2>1. q \in Nat /\ r \in 0 .. d - 1 /\ x = q * d + r
    BY <1>1
  <2> HIDE DEF q, r
  <2>2. QED
    BY <1>1, <2>1
<1> HIDE DEF q, r
<1>4. q * (M + 1) = q * M + q /\ q * M \in Nat
  BY <1>1, <1>3
<1>5. Fold(x) = x - q * M
  BY <1>1, <1>3, <1>2, <1>4
<1>6. ASSUME x <= M * (M + 1) PROVE q <= M
  <2>1. q * (M + 1) <= M * (M + 1)
    BY <1>1, <1>3, <1>6
  <2>2. QED
    BY <1>1, <1>3, <2>1
<1>7. ASSUME x <= 2 * M PROVE r + q <= M
  <2>1. q < 2
    BY <1>1, <1>3, <1>4, <1>7
  <2>2. CASE q = 0
    BY <1>1, <1>3, <2>2
  <2>3. CASE q = 1
    BY <1>1, <1>3, <1>7, <2>3
  <2>4. QED
    BY <1>3, <2>1, <2>2, <2>3
<1>8. ASSUME x <= M * (M + 1) PROVE Fold(x) <= 2 * M
  BY <1>1, <1>3, <1>2, <1>6, <1>8
<1>9. ASSUME x <= 2 * M PROVE Fold(x) \in Word
  BY <1>1, <1>3, <1>2, <1>7, <1>9
<1>10. Fold(x) \in Nat
  BY <1>1, <1>3, <1>2
<1>11. QED
  BY <1>3, <1>5, <1>8, <1>9, <1>10 DEF M

\* Two folds are enough for the sum of as many words as a word can count.
LEMMA FoldedIsRight ==
  ASSUME NEW x \in Nat, x <= MaxWord * (MaxWord + 1)
  PROVE  Folded(x) \in Word /\ \E j \in Int : Folded(x) = x + j * MaxWord
<1>1. MaxWord \in Nat /\ Word = 0 .. MaxWord
  BY MaxWordIsPositive DEF Word
<1>2. PICK i \in Nat : Fold(x) = x - i * MaxWord
  BY FoldIsRight
<1> DEFINE y == Fold(x)
<1>3. y \in Nat /\ y <= 2 * MaxWord
  BY FoldIsRight
<1> HIDE DEF y
<1>4. PICK k \in Nat : Fold(y) = y - k * MaxWord
  BY <1>3, FoldIsRight
<1>5. Fold(y) \in Word
  BY <1>3, FoldIsRight
<1> DEFINE z == Fold(y)
<1> HIDE DEF z
<1>6. z % (MaxWord + 1) = z
  <2>1. z \in 0 .. MaxWord
    BY <1>1, <1>5 DEF z
  <2>2. QED
    BY <1>1, <2>1
<1>7. Folded(x) = z
  BY <1>6 DEF Folded, y, z
<1>8. z = x + (-i - k) * MaxWord /\ -i - k \in Int
  <2>1. (-i - k) * MaxWord = -(i * MaxWord) - k * MaxWord
    BY <1>1
  <2>2. i * MaxWord \in Int /\ k * MaxWord \in Int
    BY <1>1
  <2>3. z = x - i * MaxWord - k * MaxWord
    BY <1>2, <1>4 DEF y, z
  <2>4. QED
    BY <2>1, <2>2, <2>3
<1>9. QED
  BY <1>5, <1>7, <1>8 DEF z

\* The checksum of any bytes, even or odd in number, that are no more words than
\* a word can count, is their sum with the start value, in ones' complement.
LEMMA ChecksumIsRight ==
  ASSUME NEW data \in Seq(Byte), Len(data) >= 2, Len(data) <= 2 * MaxWord,
         NEW start \in Word
  PROVE  /\ calculateNetworkChecksum(data, start) \in Word
         /\ SumOf(data) \in Nat
         /\ \E j \in Int :
              calculateNetworkChecksum(data, start) = SumOf(data) + start + j * MaxWord
<1>1. MaxWord \in Nat /\ start \in 0 .. MaxWord
  BY MaxWordIsPositive DEF Word
<1> DEFINE m == (Len(data) - 1) \div 2 + 1
           x == SumOf(data)
<1>2. m \in Nat /\ m <= MaxWord
  <2>1. Len(data) \in Nat
    OBVIOUS
  <2>2. QED
    BY <1>1, <2>1
<1>3. x \in Nat /\ x <= m * MaxWord /\ Total(Words(data)) + LastWord(data) = x
  BY WordsAreBytes
<1> HIDE DEF m, x
<1>4. m * MaxWord <= MaxWord * MaxWord
  BY <1>1, <1>2
<1>5. MaxWord * (MaxWord + 1) = MaxWord * MaxWord + MaxWord /\ MaxWord * MaxWord \in Nat
      /\ m * MaxWord \in Nat
  BY <1>1, <1>2
<1>6. x + start \in Nat /\ x + start <= MaxWord * (MaxWord + 1)
  BY <1>1, <1>3, <1>4, <1>5
<1>7. calculateNetworkChecksum(data, start) = Folded(x + start)
  BY <1>3, Zenon DEF calculateNetworkChecksum
<1>8. Folded(x + start) \in Word /\ \E j \in Int : Folded(x + start) = x + start + j * MaxWord
  BY <1>6, FoldedIsRight
<1>9. QED
  BY <1>3, <1>7, <1>8, Zenon DEF x

-----------------------------------------------------------------------------
(* The frames that are made.                                               *)

\* Two bytes, such as those of a word.
LEMMA TwoBytes ==
  ASSUME NEW a \in Byte, NEW b \in Byte
  PROVE  <<a, b>> \in Seq(Byte) /\ Len(<<a, b>>) = 2
  OBVIOUS

\* Two zeros add nothing.
LEMMA SumOfZeros ==
  /\ <<0, 0>> \in Seq(Byte) /\ Len(<<0, 0>>) = 2
  /\ SumOf(<<0, 0>>) = 0
<1> DEFINE z == <<0, 0>>
<1>1. 0 \in Byte
  BY EthernetAssumption DEF Byte
<1>2. z \in Seq(Byte) /\ Len(z) = 2 /\ z[1] = 0 /\ z[2] = 0
  BY <1>1
<1> HIDE DEF z
<1>3. PICK g : IsTotal(g, Weighed(z)) /\ SumOf(z) = g[Len(z)]
  BY <1>2, SumLines, Zenon
<1>4. Weighed(z)[1] = 0 * Bytes /\ Weighed(z)[2] = 0 /\ Len(Weighed(z)) = 2
  <2>1. 1 \in 1 .. Len(z) /\ 2 \in 1 .. Len(z) /\ 1 % 2 = 1 /\ 2 % 2 = 0
    BY <1>2
  <2>2. QED
    BY <1>2, <2>1, WeighedLines, Zenon
<1>5. /\ g[0] = 0 /\ \A i \in 1 .. 2 : g[i] = g[i - 1] + Weighed(z)[i]
  BY <1>3, <1>4, Zenon DEF IsTotal
<1>6. 0 * Bytes = 0
  BY EthernetAssumption
<1>7. g[2] = 0
  BY <1>4, <1>5, <1>6
<1>8. QED
  BY <1>2, <1>3, <1>7, Zenon DEF z

\* The parts of a datagram and of its headers are sequences of bytes.
LEMMA PartsAreBytes ==
  ASSUME NEW srcPort \in Ports, NEW dstPort \in Ports, NEW data \in Payloads,
         ipId_ \in Word
  PROVE  /\ data \in Seq(Byte)
         /\ PseudoHeader(data) \in Seq(Byte) /\ Len(PseudoHeader(data)) = 4
         /\ UdpHeader(srcPort, dstPort, data, 0) \in Seq(Byte)
         /\ Len(UdpHeader(srcPort, dstPort, data, 0)) = 8
         /\ IpHeader(data) \in Seq(Byte) /\ Len(IpHeader(data)) = 10
<1>1. data \in Seq(Byte)
  BY EthernetAssumption DEF Byte
<1> DEFINE n == UdpLen(data)
<1>2. n \in Nat
  BY <1>1 DEF UdpLen
<1> HIDE DEF n
<1>3. PseudoHeader(data) \in Seq(Byte) /\ Len(PseudoHeader(data)) = 4
  <2> DEFINE s == <<0, UDP>>
             t == HiLo(n)
  <2>1. 0 \in Byte /\ UDP \in Byte
    BY EthernetAssumption DEF Byte
  <2>2. s \in Seq(Byte) /\ Len(s) = 2
    BY <2>1, TwoBytes
  <2>3. t \in Seq(Byte) /\ Len(t) = 2
    <3> DEFINE hi == (n \div Bytes) % Bytes
               lo == n % Bytes
    <3>1. hi \in Byte /\ lo \in Byte
      BY <1>2, WordInBytes DEF HiLo
    <3> HIDE DEF hi, lo
    <3>2. <<hi, lo>> \in Seq(Byte) /\ Len(<<hi, lo>>) = 2
      BY <3>1, TwoBytes
    <3>3. QED
      BY <3>2 DEF HiLo, hi, lo
  <2>4. PseudoHeader(data) = s \o t
    BY DEF PseudoHeader, n
  <2> HIDE DEF s, t
  <2>5. s \in Seq(Byte) /\ t \in Seq(Byte)
    BY <2>2, <2>3
  <2>6. s \o t \in Seq(Byte) /\ Len(s \o t) = Len(s) + Len(t)
    BY <2>5, ConcatLines
  <2>7. Len(s \o t) = 2 + 2
    BY <2>2, <2>3, <2>6, Zenon
  <2>8. QED
    BY <2>4, <2>6, <2>7
<1>4. Word \subseteq Nat /\ 0 \in Nat
  BY MaxWordIsPositive DEF Word
<1>5. /\ UdpHeader(srcPort, dstPort, data, 0) \in Seq(Byte)
      /\ Len(UdpHeader(srcPort, dstPort, data, 0)) = 8
  <2> DEFINE words == <<srcPort, dstPort, n, 0>>
  <2>1. srcPort \in Nat /\ dstPort \in Nat
    BY <1>4, EthernetAssumption
  <2>2. words \in Seq(Nat) /\ Len(words) = 4
    BY <1>2, <1>4, <2>1
  <2>3. UdpHeader(srcPort, dstPort, data, 0) = InBytes(words)
    BY DEF UdpHeader, n
  <2> HIDE DEF words
  <2>4. InBytes(words) \in Seq(Byte) /\ Len(InBytes(words)) = 2 * Len(words)
    BY <2>2, InBytesLines, Zenon
  <2>5. 2 * 4 = 8
    OBVIOUS
  <2>6. QED
    BY <2>2, <2>3, <2>4, <2>5, Zenon
<1>6. IpHeader(data) \in Seq(Byte) /\ Len(IpHeader(data)) = 10
  <2> DEFINE first == Ihl * Bytes
             last == Ttl * Bytes + UDP
             len == 20 + n
             words == <<first, len, ipId_, 0, last>>
  <2>1. first \in Nat /\ last \in Nat /\ len \in Nat /\ ipId_ \in Nat
    <3>1. Ihl \in Nat /\ Ttl \in Nat /\ UDP \in Nat /\ Bytes \in Nat
      BY EthernetAssumption
    <3>2. Ihl * Bytes \in Nat /\ Ttl * Bytes \in Nat
      BY <3>1
    <3>3. QED
      BY <1>2, <1>4, <3>1, <3>2
  <2> HIDE DEF first, last, len
  <2>2. words \in Seq(Nat) /\ Len(words) = 5
    BY <1>4, <2>1
  <2>3. IpHeader(data) = InBytes(words)
    BY DEF IpHeader, n, first, last, len
  <2> HIDE DEF words
  <2>4. InBytes(words) \in Seq(Byte) /\ Len(InBytes(words)) = 2 * Len(words)
    BY <2>2, InBytesLines, Zenon
  <2>5. 2 * 5 = 10
    OBVIOUS
  <2>6. QED
    BY <2>2, <2>3, <2>4, <2>5, Zenon
<1>7. QED
  BY <1>1, <1>3, <1>5, <1>6

\* Sequences of bytes, the first of an even length, one after the other.
LEMMA SumOfParts ==
  ASSUME NEW s \in Seq(Byte), NEW t \in Seq(Byte), Len(s) % 2 = 0
  PROVE  /\ s \o t \in Seq(Byte) /\ Len(s \o t) = Len(s) + Len(t)
         /\ SumOf(s \o t) = SumOf(s) + SumOf(t)
<1>1. s \o t \in Seq(Byte) /\ Len(s \o t) = Len(s) + Len(t)
  BY ConcatLines
<1>2. QED
  BY <1>1, SumOfConcat

\* Both checksums of a frame that is made are right.
LEMMA FrameVerifies ==
  ASSUME NEW src \in Addresses, NEW dst \in Addresses,
         NEW srcPort \in Ports, NEW dstPort \in Ports, NEW data \in Payloads,
         ipId_ \in Word
  PROVE  /\ Verifies(UdpFrame(dst, dstPort, src, srcPort, data))
         /\ IpVerifies(UdpFrame(dst, dstPort, src, srcPort, data))
<1> DEFINE f == UdpFrame(dst, dstPort, src, srcPort, data)
           header == UdpHeader(srcPort, dstPort, data, 0)
           datagram == header \o data
           addresses == InBytes(src \o dst)
           pseudo == PseudoHeader(data)
           ip == IpHeader(data)
           zeros == <<0, 0>>
           first == calculateNetworkChecksum(addresses \o pseudo, 0)
           second == calculateNetworkChecksum(datagram, first)
           third == calculateNetworkChecksum((ip \o zeros) \o addresses, 0)
           M == MaxWord
           sum == src[1] + src[2] + dst[1] + dst[2]
<1>1. /\ f.src = src /\ f.dst = dst
      /\ f.checksum = M - second /\ f.rest = SumOf(pseudo) + SumOf(datagram)
      /\ f.ipChecksum = M - third /\ f.ipRest = SumOf(ip)
  BY DEF UdpFrame, Complement
<1>2. /\ SumOfAddresses(f) = sum
  BY <1>1 DEF SumOfAddresses
<1>3. /\ data \in Seq(Byte)
      /\ pseudo \in Seq(Byte) /\ Len(pseudo) = 4
      /\ header \in Seq(Byte) /\ Len(header) = 8
      /\ ip \in Seq(Byte) /\ Len(ip) = 10
  BY PartsAreBytes
<1>4. /\ addresses \in Seq(Byte) /\ Len(addresses) = 8 /\ SumOf(addresses) = sum
      /\ sum \in Nat
  <2>1. /\ addresses \in Seq(Byte) /\ Len(addresses) = 8 /\ SumOf(addresses) = sum
        /\ src[1] \in Nat /\ src[2] \in Nat /\ dst[1] \in Nat /\ dst[2] \in Nat
    BY SumOfTwoAddresses, Zenon
  <2>2. sum \in Nat
    BY <2>1
  <2>3. QED
    BY <2>1, <2>2, Zenon
<1>5. zeros \in Seq(Byte) /\ Len(zeros) = 2 /\ SumOf(zeros) = 0
  BY SumOfZeros
<1>6. Len(data) \in Nat /\ 20 + Len(data) <= 2 * M /\ M \in Nat \ {0} /\ 0 \in Word
  BY <1>3, EthernetAssumption, MaxWordIsPositive DEF Word
<1> HIDE DEF f, header, datagram, addresses, pseudo, ip, zeros, first, second, third, M, sum
<1>7. datagram \in Seq(Byte) /\ Len(datagram) = 8 + Len(data)
  <2>1. datagram \in Seq(Byte) /\ Len(datagram) = Len(header) + Len(data)
    <3>1. header \in Seq(Byte) /\ data \in Seq(Byte)
      BY <1>3
    <3>2. header \o data \in Seq(Byte) /\ Len(header \o data) = Len(header) + Len(data)
      BY <3>1, ConcatLines, Zenon
    <3>3. QED
      BY <3>2, Zenon DEF datagram
  <2>2. QED
    BY <1>3, <2>1, Zenon
<1>8. /\ addresses \o pseudo \in Seq(Byte) /\ Len(addresses \o pseudo) = 12
      /\ SumOf(addresses \o pseudo) = sum + SumOf(pseudo)
  <2>1. 8 + 4 = 12 /\ 8 % 2 = 0
    OBVIOUS
  <2>2. Len(addresses) % 2 = 0
    BY <1>4, <2>1, Zenon
  <2>3. /\ addresses \o pseudo \in Seq(Byte)
        /\ Len(addresses \o pseudo) = Len(addresses) + Len(pseudo)
        /\ SumOf(addresses \o pseudo) = SumOf(addresses) + SumOf(pseudo)
    BY <1>3, <1>4, <2>2, SumOfParts, Zenon
  <2>4. QED
    BY <1>3, <1>4, <2>1, <2>3, Zenon
<1> DEFINE front == ip \o zeros
<1>9. /\ front \in Seq(Byte) /\ Len(front) = 12 /\ SumOf(front) = SumOf(ip) + 0
  <2>1. 10 + 2 = 12 /\ 10 % 2 = 0
    OBVIOUS
  <2>2. Len(ip) % 2 = 0
    BY <1>3, <2>1, Zenon
  <2>3. /\ front \in Seq(Byte) /\ Len(front) = Len(ip) + Len(zeros)
        /\ SumOf(front) = SumOf(ip) + SumOf(zeros)
    BY <1>3, <1>5, <2>2, SumOfParts, Zenon
  <2> HIDE DEF front
  <2>4. QED
    BY <1>3, <1>5, <2>1, <2>3, Zenon
<1> HIDE DEF front
<1>10. /\ front \o addresses \in Seq(Byte) /\ Len(front \o addresses) = 20
       /\ SumOf(front \o addresses) = (SumOf(ip) + 0) + sum
  <2>1. 12 + 8 = 20 /\ 12 % 2 = 0
    OBVIOUS
  <2>2. Len(front) % 2 = 0
    BY <1>9, <2>1, Zenon
  <2>3. /\ front \o addresses \in Seq(Byte)
        /\ Len(front \o addresses) = Len(front) + Len(addresses)
        /\ SumOf(front \o addresses) = SumOf(front) + SumOf(addresses)
    BY <1>4, <1>9, <2>2, SumOfParts, Zenon
  <2>4. QED
    BY <1>4, <1>9, <2>1, <2>3, Zenon
<1>11. /\ first \in Word /\ sum + SumOf(pseudo) \in Nat
       /\ \E j \in Int : first = (sum + SumOf(pseudo)) + 0 + j * M
  <2> DEFINE bytes == addresses \o pseudo
  <2>1. bytes \in Seq(Byte) /\ Len(bytes) = 12 /\ SumOf(bytes) = sum + SumOf(pseudo)
    BY <1>8
  <2> HIDE DEF bytes
  <2>2. Len(bytes) >= 2 /\ Len(bytes) <= 2 * MaxWord
    BY <1>6, <2>1 DEF M
  <2>3. first = calculateNetworkChecksum(bytes, 0)
    BY DEF first, bytes
  <2>4. bytes \in Seq(Byte) /\ 0 \in Word
    BY <1>6, <2>1
  <2>5. /\ calculateNetworkChecksum(bytes, 0) \in Word /\ SumOf(bytes) \in Nat
        /\ \E j \in Int :
             calculateNetworkChecksum(bytes, 0) = SumOf(bytes) + 0 + j * MaxWord
    BY <2>2, <2>4, ChecksumIsRight, Zenon
  <2>6. QED
    BY <2>1, <2>3, <2>5, Zenon DEF M
<1>12. /\ second \in Word /\ SumOf(datagram) \in Nat
       /\ \E j \in Int : second = SumOf(datagram) + first + j * M
  <2>1. Len(datagram) >= 2 /\ Len(datagram) <= 2 * MaxWord
    BY <1>6, <1>7 DEF M
  <2>2. QED
    BY <1>7, <1>11, <2>1, ChecksumIsRight, Zenon DEF M, second
<1>13. /\ third \in Word /\ (SumOf(ip) + 0) + sum \in Nat
       /\ \E j \in Int : third = (SumOf(ip) + 0) + sum + 0 + j * M
  <2> DEFINE bytes == front \o addresses
  <2>1. bytes \in Seq(Byte) /\ Len(bytes) = 20 /\ SumOf(bytes) = (SumOf(ip) + 0) + sum
    BY <1>10
  <2> HIDE DEF bytes
  <2>2. Len(bytes) >= 2 /\ Len(bytes) <= 2 * MaxWord
    BY <1>6, <2>1 DEF M
  <2>3. third = calculateNetworkChecksum(bytes, 0)
    BY DEF third, bytes, front
  <2>4. bytes \in Seq(Byte) /\ 0 \in Word
    BY <1>6, <2>1
  <2>5. /\ calculateNetworkChecksum(bytes, 0) \in Word /\ SumOf(bytes) \in Nat
        /\ \E j \in Int :
             calculateNetworkChecksum(bytes, 0) = SumOf(bytes) + 0 + j * MaxWord
    BY <2>2, <2>4, ChecksumIsRight, Zenon
  <2>6. QED
    BY <2>1, <2>3, <2>5, Zenon DEF M
<1>14. SumOf(pseudo) \in Nat /\ SumOf(ip) \in Nat
  BY <1>3, SumIsNat
<1> DEFINE p == SumOf(pseudo)
           d == SumOf(datagram)
           h == SumOf(ip)
<1> HIDE DEF p, d, h
<1>15. /\ p \in Nat /\ d \in Nat /\ h \in Nat /\ sum \in Nat
       /\ first \in Nat /\ second \in Nat /\ third \in Nat
  BY <1>4, <1>11, <1>12, <1>13, <1>14, MaxWordIsPositive DEF p, d, h, Word
<1>16. ASSUME NEW j \in Int PROVE (0 + j * M) % M = 0
  <2>1. 0 % M = 0
    BY <1>6
  <2>2. QED
    BY <1>6, <2>1, MultipleShifted
<1>17. Verifies(f)
  <2>1. PICK i \in Int : first = (sum + p) + 0 + i * M
    BY <1>11 DEF p
  <2>2. PICK j \in Int : second = d + first + j * M
    BY <1>12 DEF d
  <2> DEFINE x == i * M
             y == j * M
  <2>3. x \in Int /\ y \in Int /\ 0 + (1 - i - j) * M = M - x - y
    BY <1>6
  <2>4. 1 - i - j \in Int
    OBVIOUS
  <2>5. first = (sum + p) + 0 + x /\ second = d + first + y
    BY <2>1, <2>2
  <2> HIDE DEF x, y
  <2>6. (p + d) + sum + (M - second) = M - x - y
    BY <1>6, <1>15, <2>3, <2>5
  <2>7. f.rest + SumOfAddresses(f) + f.checksum = 0 + (1 - i - j) * M
    BY <1>1, <1>2, <2>3, <2>6, Zenon DEF p, d
  <2>8. (0 + (1 - i - j) * M) % M = 0
    BY <1>16, <2>4
  <2>9. QED
    BY <2>7, <2>8, Zenon DEF Verifies, M
<1>18. IpVerifies(f)
  <2>1. PICK i \in Int : third = (h + 0) + sum + 0 + i * M
    BY <1>13 DEF h
  <2> DEFINE x == i * M
  <2>2. x \in Int /\ 0 + (1 - i) * M = M - x
    BY <1>6
  <2>3. 1 - i \in Int
    OBVIOUS
  <2>4. third = (h + 0) + sum + 0 + x
    BY <2>1
  <2> HIDE DEF x
  <2>5. h + sum + (M - third) = M - x
    BY <1>6, <1>15, <2>2, <2>4
  <2>6. f.ipRest + SumOfAddresses(f) + f.ipChecksum = 0 + (1 - i) * M
    BY <1>1, <1>2, <2>2, <2>5, Zenon DEF h
  <2>7. (0 + (1 - i) * M) % M = 0
    BY <1>16, <2>3
  <2>8. QED
    BY <2>6, <2>7, Zenon DEF IpVerifies, M
<1>19. QED
  BY <1>17, <1>18 DEF f

\* The counter of the frames is a word.
SentInv == ipId_ \in Word /\ SentVerifies

\* Both checksums of every UDP frame that is made are right: for bytes of any
\* width, an even or odd number of data bytes, and any number of carries.
THEOREM SpecSentVerifies == FrameSpec => []SentVerifies
<1>1. FrameInit => SentInv
  BY MaxWordIsPositive DEF FrameInit, SentInv, SentVerifies, Word
<1>2. SentInv /\ [FrameNext]_frameVars => SentInv'
  <2> SUFFICES ASSUME SentInv, [FrameNext]_frameVars PROVE SentInv'
    OBVIOUS
  <2>1. CASE Send
    <3>1. PICK dst \in Addresses, src \in Addresses, dstPort \in Ports,
               srcPort \in Ports, data \in Payloads :
                 createUdpFrame(dst, dstPort, src, srcPort, data)
      BY <2>1 DEF Send
    <3>2. ipId_' \in Word
      BY <3>1, MaxWordIsPositive DEF createUdpFrame, SentInv, Word
    <3>3. Verifies(sent') /\ IpVerifies(sent')
      BY <3>1, FrameVerifies DEF createUdpFrame, SentInv
    <3>4. QED
      BY <3>2, <3>3 DEF SentInv, SentVerifies, Verifies, IpVerifies, SumOfAddresses
  <2>2. CASE Forward
    BY <2>2 DEF Forward, changeIp, SentInv, SentVerifies, Verifies, IpVerifies,
                SumOfAddresses
  <2>3. CASE UNCHANGED frameVars
    BY <2>3 DEF frameVars, SentInv, SentVerifies, Verifies, IpVerifies, SumOfAddresses
  <2>4. QED
    BY <2>1, <2>2, <2>3 DEF FrameNext
<1>3. SentInv => SentVerifies
  BY DEF SentInv
<1>4. QED
  BY <1>1, <1>2, <1>3, PTL DEF FrameSpec

=============================================================================
