----------------------------- MODULE MCDnsServer -----------------------------
(***************************************************************************)
(* TLC instance of the FreeRTOS build's DNS server: its task, and, on its  *)
(* own, the reading of a query, which no other step takes part in.         *)
(***************************************************************************)
EXTENDS DnsQuery, DnsServerTask

VARIABLE part \* which of the two this behaviour is about

\* The part that this behaviour is not about begins in one state only.
BothInit ==
  /\ Init /\ ServerInit
  /\ \/ part = "query" /\ asked = CHOOSE n \in HostNames : TRUE
     \/ part = "task" /\ data = <<0>>

BothNext ==
  /\ \/ part = "query" /\ Next /\ UNCHANGED serverVars
     \/ part = "task" /\ ServerNext /\ UNCHANGED vars
  /\ UNCHANGED part

BothSpec == BothInit /\ [][BothNext]_<<vars, serverVars, part>>

BothTypeOK == TypeOK /\ ServerTypeOK

=============================================================================
