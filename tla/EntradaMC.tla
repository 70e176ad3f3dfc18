------------------------------ MODULE EntradaMC ------------------------------
(***************************************************************************)
(* Values of the constants of Entrada for the model checker.  The lengths  *)
(* fill or pass an array: those of the options, of an ISBN with and        *)
(* without its hyphens, one more than a telephone, as many as an author.   *)
(***************************************************************************)
EXTENDS Entrada

LosLargos == {0, 1, 4, 13, 17, 20, 29}
=============================================================================
