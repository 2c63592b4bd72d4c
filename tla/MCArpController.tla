--------------------------- MODULE MCArpController ---------------------------
(***************************************************************************)
(* TLC instances of ArpController.                                         *)
(***************************************************************************)
EXTENDS ArpController, TLC

\* Two hosts share a subnet, or all three do.
MCSubnets == {S \in SUBSET Hosts : Cardinality(S) >= 2}

\* Neither hosts nor hardware addresses are told apart.
Symmetry == Permutations(Hosts) \cup Permutations(Macs)

=============================================================================
