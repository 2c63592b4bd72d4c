------------------------- MODULE MCTcpServerChannel -------------------------
(***************************************************************************)
(* TLC instance of TcpServerChannel.                                       *)
(***************************************************************************)
EXTENDS TcpServerChannel, TLC

Symmetry == Permutations(Ss)

=============================================================================
