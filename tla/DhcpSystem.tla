------------------------------ MODULE DhcpSystem ------------------------------
(***************************************************************************)
(* The DHCP server from its constructor on: the constructor builds the     *)
(* table of addresses (DhcpPool), and the server (DhcpServer) leases them  *)
(* afterwards.  Its entry i is the address that entries[i] ends with.      *)
(***************************************************************************)
EXTENDS DhcpServer, DhcpPool

\* The arguments of the constructor that leave NumEntry addresses.
SystemInit ==
  /\ PoolInit
  /\ Cardinality((first .. first + number - 1) \ {own}) = NumEntry
  /\ Init

\* lwIP does not call the server before the constructor has registered it.
Construct ==
  /\ num_entry = 0
  /\ PoolNext
  /\ UNCHANGED vars

Serve ==
  /\ num_entry # 0
  /\ Next
  /\ UNCHANGED poolVars

SystemNext == Construct \/ Serve

\* The constructor comes to its end, and then DhcpServer's fairness holds.
SystemSpec ==
  /\ SystemInit /\ [][SystemNext]_<<vars, poolVars>>
  /\ WF_poolVars(Construct)
  /\ Fairness

=============================================================================
