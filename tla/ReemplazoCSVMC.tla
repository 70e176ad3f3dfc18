--------------------------- MODULE ReemplazoCSVMC ---------------------------
(***************************************************************************)
(* Values of the constants of ReemplazoCSV for the model checker.          *)
(***************************************************************************)
EXTENDS ReemplazoCSV, TLC

CONSTANTS p1, p2, p3

Simetria == Permutations(Procesos)
=============================================================================
