---------------------------- MODULE ArpController ----------------------------
(***************************************************************************)
(* The ARP table and the ageing of its records                             *)
(* (src/ethutilities/ArpController.cpp).                                   *)
(*                                                                         *)
(* The table is the sequence of the first recordCounter lines: no function *)
(* of the class reads a line beyond the counter before writing it.  The    *)
(* frames the class sends are not kept: Requested is what matters of them. *)
(***************************************************************************)
EXTENDS Integers, Sequences, FiniteSets

CONSTANTS
  Hosts,     \* IP addresses of the hosts on the link
  Own,       \* IP addresses the application adds for replies
  Subnets,   \* the sets of hosts that the masks it adds them with leave in a subnet
  Macs,      \* hardware addresses
  NULL,      \* no hardware address
  Size,      \* ARP_CONTROLLER_ARP_TABLE_SIZE
  NumReply,  \* ARP_CONTROLLER_MAX_NUM_IP_FOR_REPLY
  Refresh,   \* ARP_CONTROLLER_REFRESH_RECORD_TIME, in callbacks
  Delete     \* ARP_CONTROLLER_DELETE_RECORD_TIME, in callbacks

ASSUME ArpAssumption ==
  /\ IsFiniteSet(Hosts)
  /\ Subnets \subseteq SUBSET Hosts
  /\ NULL \notin Macs
  /\ Size \in Nat \ {0}
  /\ NumReply \in Nat \ {0}
  /\ Refresh \in Nat
  /\ Delete \in Nat
  /\ Refresh < Delete

VARIABLES
  table,    \* the records [ip, mac, timeAfterUpdate]
  replyIps, \* ipTableForReply_: [ip, subnet], the hosts ip's mask leaves in its subnet
  heard,    \* history: the mac each host last announced here
  age,      \* history: callbacks since then
  asked,    \* history: callbacks since then that sent the host a request
  hindered  \* history: callbacks since then, once the refresh time had passed, in
            \* which no request could be sent to it

vars == <<table, replyIps, heard, age, asked, hindered>>

ReplyRecord == [ip : Own, subnet : Subnets]

Record == [ip : Hosts, mac : Macs, time : 0 .. Delete]

\* The bound of the counting histories: past the longest time a record
\* may be in the table after its host has fallen silent.
MaxAge == Delete + Size

\* The tables never fill up: their counters go back to 0 instead.
TypeOK ==
  /\ table \in Seq(Record) /\ Len(table) < Size
  /\ replyIps \in Seq(ReplyRecord) /\ Len(replyIps) < NumReply
  /\ heard \in [Hosts -> Macs \cup {NULL}]
  /\ age \in [Hosts -> 0 .. MaxAge]
  /\ asked \in [Hosts -> 0 .. MaxAge]
  /\ hindered \in [Hosts -> 0 .. MaxAge]

Init ==
  /\ table = << >>
  /\ replyIps = << >>
  /\ heard = [h \in Hosts |-> NULL]
  /\ age = [h \in Hosts |-> 0]
  /\ asked = [h \in Hosts |-> 0]
  /\ hindered = [h \in Hosts |-> 0]

Visible == {table[i].ip : i \in DOMAIN table}

\* getArpTableIndex(ip) of an address that is in the table.
getArpTableIndex(ip) ==
  CHOOSE i \in DOMAIN table :
    table[i].ip = ip /\ \A j \in 1 .. i - 1 : table[j].ip # ip

\* getMac(ip) of an address that is in the table.
getMac(ip) == table[getArpTableIndex(ip)].mac

isIpInTableForReply(ip) == \E i \in DOMAIN replyIps : replyIps[i].ip = ip

-----------------------------------------------------------------------------
(* The calls.                                                              *)

\* Mutant: the counter is compared before it is counted up.
ReplyIpsBeyond(record) ==
  IF Len(replyIps) = NumReply THEN << >> ELSE Append(replyIps, record)

\* The counter of the reply table goes back to 0 when it reaches the end.
ReplyIps(record) ==
  IF Len(replyIps) + 1 = NumReply THEN << >> ELSE Append(replyIps, record)

\* The same address may be added again, with the same mask or another.
addIpForArpReply(ip, subnet) ==
  /\ replyIps' = ReplyIps([ip |-> ip, subnet |-> subnet])
  /\ UNCHANGED <<table, heard, age, asked, hindered>>

Fresh(ip, mac) == [ip |-> ip, mac |-> mac, time |-> 0]

\* A record goes to the line recordCounter, and the counter goes back to 0
\* when it reaches the end.
Create(ip, mac) ==
  IF Len(table) + 1 = Size THEN << >> ELSE Append(table, Fresh(ip, mac))

\* Mutant: a known host's time is reset and its address kept.
LearnKeepsMac(ip, mac) ==
  IF ip \in Visible
  THEN [table EXCEPT ![getArpTableIndex(ip)].time = 0]
  ELSE Create(ip, mac)

\* Mutant: a known host's address is refreshed and its time is not.
LearnKeepsTime(ip, mac) ==
  IF ip \in Visible
  THEN [table EXCEPT ![getArpTableIndex(ip)].mac = mac]
  ELSE Create(ip, mac)

\* The table after a frame of host ip at mac.
Learn(ip, mac) ==
  IF ip \in Visible
  THEN [table EXCEPT ![getArpTableIndex(ip)] = Fresh(ip, mac)]
  ELSE Create(ip, mac)

\* parseFrame() of an ARP request or reply of a host for one of our
\* addresses.  With a parameter every ARP frame is accepted, otherwise those
\* for an address in the reply table.
parseFrame(ip, mac, target, parameter) ==
  /\ parameter \/ isIpInTableForReply(target)
  /\ table' = Learn(ip, mac)
  /\ heard' = [heard EXCEPT ![ip] = mac]
  /\ age' = [age EXCEPT ![ip] = 0]
  /\ asked' = [asked EXCEPT ![ip] = 0]
  /\ hindered' = [hindered EXCEPT ![ip] = 0]
  /\ UNCHANGED replyIps

-----------------------------------------------------------------------------
(* voidCallback(): once a second the router ages every record.             *)

\* Mutant: a request is sent with the last ageing only.
IsDueAtDelete(r) == r.time >= Delete

\* The record is asked for: its time, counted up, exceeds the refresh time.
IsDue(r) == r.time >= Refresh

\* Mutant: compared before the time is counted up.
IsExpiredLate(r) == r.time > Delete

\* The record is deleted: its time, counted up, exceeds the delete time.
IsExpired(r) == r.time >= Delete

\* The loop deletes line i.  When it does the next record moves to line i and
\* the loop goes on behind it: that one is passed over this time.
Deleted[i \in 0 .. Len(table)] == i # 0 /\ IsExpired(table[i]) /\ ~Deleted[i - 1]

\* The first i lines after the loop.
Aged[i \in 0 .. Len(table)] ==
  IF i = 0 THEN << >>
  ELSE IF Deleted[i] THEN Aged[i - 1]
  ELSE IF Deleted[i - 1] THEN Append(Aged[i - 1], table[i])
  ELSE Append(Aged[i - 1], [table[i] EXCEPT !.time = @ + 1])

\* The hosts sendArpRequest() is called for.
Due ==
  {table[i].ip : i \in {i \in DOMAIN table : ~Deleted[i - 1] /\ IsDue(table[i])}}

\* sendArpRequest(h, NULL) asks from each address whose subnet h is in, if malloc_s
\* gives it a frame: for the hosts of noMemory it does not.
CanAsk(h, noMemory) ==
  /\ h \notin noMemory
  /\ \E i \in DOMAIN replyIps : h \in replyIps[i].subnet

\* The hosts a request is sent to.
Requested(noMemory) == {h \in Due : CanAsk(h, noMemory)}

\* The hosts that have been silent for the refresh time and cannot be asked.
Hindered(noMemory) == {h \in Visible : age[h] >= Refresh /\ ~CanAsk(h, noMemory)}

\* n counted up for the hosts of S; the histories of a host without a record are
\* not kept.
CountUp(n, S) ==
  [h \in Hosts |-> IF h \notin Visible THEN 0
                   ELSE IF h \in S /\ n[h] < MaxAge THEN n[h] + 1 ELSE n[h]]

voidCallback(noMemory) ==
  /\ table' = Aged[Len(table)]
  /\ age' = CountUp(age, Visible)
  /\ asked' = CountUp(asked, Requested(noMemory))
  /\ hindered' = CountUp(hindered, Hindered(noMemory))
  /\ UNCHANGED <<replyIps, heard>>

Ageing == \E noMemory \in SUBSET Due : voidCallback(noMemory)

-----------------------------------------------------------------------------

Next ==
  \/ \E ip \in Own, subnet \in Subnets : addIpForArpReply(ip, subnet)
  \/ \E ip \in Hosts, mac \in Macs, target \in Own, parameter \in BOOLEAN :
        parseFrame(ip, mac, target, parameter)
  \/ Ageing

Spec == Init /\ [][Next]_vars

-----------------------------------------------------------------------------
(* Properties.                                                             *)

\* The table has one record for a host, and getMac() answers with the
\* address the host last announced.
LatestMac ==
  /\ \A i, j \in DOMAIN table : table[i].ip = table[j].ip => i = j
  /\ \A ip \in Visible : getMac(ip) = heard[ip]

\* The record of a host that has fallen silent leaves the table: every
\* deletion in front of it may cost it one callback, and it started no
\* further back than the last line.
SilentHostExpires ==
  \A i \in DOMAIN table : age[table[i].ip] <= Delete + Size - 1 - i

\* Ageing drops no record of a host heard from recently enough.
FreshRecordKept ==
  [][\A h \in Visible : h \notin Visible' /\ Ageing => age[h] >= Delete]_vars

\* Before its record is dropped for silence a host is asked in every callback
\* between the refresh and the delete time, except in those in which there is no
\* memory for a request or no address for replies has the host in its subnet, as
\* after the reply table has gone back to empty: it had the chance to stay.
AskedBeforeDelete ==
  [][\A h \in Visible :
       h \notin Visible' /\ Ageing
         => asked[h] + hindered[h] >= Delete - Refresh]_vars

\* A record that is created can be found ("Create Arp record").
CreatedRecordFound ==
  [][\A ip \in Hosts : heard'[ip] # heard[ip] => ip \in Visible']_vars

=============================================================================
