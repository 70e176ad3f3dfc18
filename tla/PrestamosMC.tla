---------------------------- MODULE PrestamosMC ----------------------------
(***************************************************************************)
(* Values of the constants of Prestamos for the model checker.             *)
(***************************************************************************)
EXTENDS Prestamos, TLC

CONSTANTS u1, u2, i1, i2, i3

UnEjemplar    == i1 :> 1
DosEjemplares == i1 :> 2
DosLibros     == i1 :> 1 @@ i2 :> 2
TresLibros    == i1 :> 1 @@ i2 :> 1 @@ i3 :> 1
=============================================================================
