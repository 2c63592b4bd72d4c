--------------------------- MODULE MCEthernetQueue ---------------------------
(***************************************************************************)
(* TLC instance of EthernetQueue.                                          *)
(***************************************************************************)
EXTENDS EthernetQueue, TLC

Symmetry == Permutations(Frames)

=============================================================================
