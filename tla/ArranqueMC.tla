----------------------------- MODULE ArranqueMC -----------------------------
(***************************************************************************)
(* Values of the constants of Arranque for the model checker: one book     *)
(* whose lines fit in the buffer and one whose lines do not; the second is *)
(* on loan, and the first was taken and brought back today.                *)
(***************************************************************************)
EXTENDS Arranque, TLC

CONSTANTS u1, u2, corto, largo

DosLibros  == <<largo, corto>>
Ejemplares == largo :> 0 @@ corto :> 1

EnLasFechas == largo :> [hasta |-> "fechas", resto |-> "numero"]

UnaDeCada ==
  << [usuario |-> u1, isbn |-> largo, fecha |-> Ayer, estado |-> "activo"],
     [usuario |-> u1, isbn |-> corto, fecha |-> Hoy, estado |-> "cerrado"] >>

Simetria == Permutations(Consolas)
=============================================================================
