------------------------------ MODULE MCTestnet ------------------------------
(* Constants of Testnet for TLC. *)
EXTENDS Testnet

\* The accounts of an empty tranche and of a full one.
SomeAccounts == {<<>>, <<"k1", "k2">>}
=============================================================================
