----------------------------- MODULE RegistroMC -----------------------------
(***************************************************************************)
(* Values of the constants of Registro for the model checker.              *)
(***************************************************************************)
EXTENDS Registro, TLC

CONSTANTS e1, e2, p1, p2

Simetria == Permutations(Correos) \cup Permutations(Consolas)
=============================================================================
