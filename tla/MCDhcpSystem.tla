----------------------------- MODULE MCDhcpSystem -----------------------------
(***************************************************************************)
(* TLC instance of DhcpSystem.                                             *)
(***************************************************************************)
EXTENDS DhcpSystem

\* The range contains the server's own address, which the table leaves out.
MCInit ==
  /\ SystemInit
  /\ own \in first .. first + number - 1

MCSpec ==
  /\ MCInit /\ [][SystemNext]_<<vars, poolVars>>
  /\ WF_poolVars(Construct)
  /\ Fairness

=============================================================================
