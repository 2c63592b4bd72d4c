--------------------------- MODULE MCEthernetRouter ---------------------------
(***************************************************************************)
(* TLC instance of EthernetRouter.                                         *)
(***************************************************************************)
EXTENDS EthernetRouter, TLC

=============================================================================
