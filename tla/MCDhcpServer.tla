----------------------------- MODULE MCDhcpServer -----------------------------
(***************************************************************************)
(* TLC instances of DhcpServer.                                            *)
(***************************************************************************)
EXTENDS DhcpServer, TLC

\* The clients are not told apart.
Symmetry == Permutations(Clients)

=============================================================================
