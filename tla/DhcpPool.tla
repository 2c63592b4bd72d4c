------------------------------- MODULE DhcpPool -------------------------------
(***************************************************************************)
(* How the constructor of the DHCP server fills its table of addresses     *)
(* (src/ethutilities/DhcpServer.cpp): the addresses from startIp on, but   *)
(* not the server's own.  Only the last byte of an address varies.         *)
(***************************************************************************)
EXTENDS Integers, Sequences

CONSTANT Bytes \* 2^w for the w bits of startIp, ipCount and addr[3]

ASSUME PoolAssumption == Bytes \in Nat \ {0}

VARIABLES
  own,      \* config_.addr[3], the last byte of the server's address
  first,    \* history: the argument startIp
  number,   \* history: the argument ipCount
  startIp,  \* the arguments as the loop changes them
  ipCount,
  entries,  \* addr[3] of the entries written so far; i is their number
  num_entry \* config_.num_entry, 0 before the loop has ended

poolVars == <<own, first, number, startIp, ipCount, entries, num_entry>>

Byte == 0 .. Bytes - 1

\* No entry is written behind the memory for the ipCount of the call.
PoolTypeOK ==
  /\ own \in Byte /\ first \in Byte /\ number \in Byte
  /\ startIp \in Byte /\ ipCount \in Byte
  /\ entries \in Seq(Byte) /\ Len(entries) <= number
  /\ num_entry \in Byte

\* The application asks for addresses of the subnet: first + number - 1 is the
\* last byte of one.
PoolInit ==
  /\ own \in Byte
  /\ first \in Byte /\ number \in Byte /\ first + number <= Bytes
  /\ startIp = first /\ ipCount = number
  /\ entries = << >>
  /\ num_entry = 0

\* The condition of the loop.
IsMore == Len(entries) < ipCount

\* Mutant: the number of entries is not taken back for the own address.
CountKept(own_is_next) == ipCount

CountLeft(own_is_next) == IF own_is_next THEN ipCount - 1 ELSE ipCount

\* One turn of the loop: the own address is stepped over.
Fill ==
  LET n == Len(entries)
      own_is_next == startIp + n = own
      start == IF own_is_next THEN (startIp + 1) % Bytes ELSE startIp
  IN  /\ IsMore
      /\ startIp' = start
      /\ ipCount' = CountLeft(own_is_next)
      /\ entries' = Append(entries, (start + n) % Bytes)
      /\ UNCHANGED <<own, first, number, num_entry>>

\* The loop has ended.
PoolEnd ==
  /\ ~IsMore
  /\ num_entry' = ipCount
  /\ UNCHANGED <<own, first, number, startIp, ipCount, entries>>

PoolNext == Fill \/ PoolEnd

PoolSpec == PoolInit /\ [][PoolNext]_poolVars

-----------------------------------------------------------------------------
(* Properties.                                                             *)

\* The table has every address of the range but the server's own, and each of
\* them once: entry_by_ip finds one entry, and the server offers every address
\* it was given and never its own.
PoolIsRange ==
  num_entry # 0 =>
    /\ {entries[k] : k \in 1 .. num_entry} = (first .. first + number - 1) \ {own}
    /\ \A j, k \in 1 .. num_entry : entries[j] = entries[k] => j = k

=============================================================================
