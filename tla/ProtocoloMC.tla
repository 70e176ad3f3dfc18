----------------------------- MODULE ProtocoloMC -----------------------------
(***************************************************************************)
(* Values of the constants of Protocolo for the model checker.             *)
(***************************************************************************)
EXTENDS Protocolo, TLC

CONSTANTS c1, c2

Simetria == Permutations(Clientes)
=============================================================================
