----------------------------- MODULE Inventario -----------------------------
(***************************************************************************)
(* What the lending database promises, without SQL, files or processes:    *)
(* every copy of a book is on the shelf, lent, or written off because an   *)
(* operation on it was cut short.  A step moves one copy between these     *)
(* places; only a recount (the start-up rebuild of the tables from the CSV *)
(* files) may change how many copies there are.                            *)
(*                                                                         *)
(* The shelf is an integer, not a natural number: the server lends without *)
(* looking at the number of copies (see Prestamos, PedirRestar), so this   *)
(* promise does not include "never below zero".                            *)
(***************************************************************************)
EXTENDS Integers, TLAPS

CONSTANT
  ISBNs       \* the books of the catalogue

VARIABLES
  estante,    \* copies on the shelf, per book
  prestados,  \* copies lent, per book
  baja,       \* copies written off since the last recount, per book
  fondo       \* copies there were at the last recount, per book

inventario == <<estante, prestados, baja, fondo>>

TypeOK ==
  /\ estante   \in [ISBNs -> Int]
  /\ prestados \in [ISBNs -> Nat]
  /\ baja      \in [ISBNs -> Nat]
  /\ fondo     \in [ISBNs -> Int]

(***************************************************************************)
(* A count of the shelf and of the loans starts a new account.             *)
(***************************************************************************)
Cuenta(e, p) == [i \in ISBNs |-> e[i] + p[i]]

Init ==
  /\ estante \in [ISBNs -> Int]
  /\ prestados = [i \in ISBNs |-> 0]
  /\ baja = [i \in ISBNs |-> 0]
  /\ fondo = estante

Prestar(i) ==
  /\ estante' = [estante EXCEPT ![i] = @ - 1]
  /\ prestados' = [prestados EXCEPT ![i] = @ + 1]
  /\ UNCHANGED <<baja, fondo>>

Devolver(i) ==
  /\ prestados[i] > 0
  /\ prestados' = [prestados EXCEPT ![i] = @ - 1]
  /\ estante' = [estante EXCEPT ![i] = @ + 1]
  /\ UNCHANGED <<baja, fondo>>

(***************************************************************************)
(* A loan that stops after the copy left the shelf.                        *)
(***************************************************************************)
PerderAlPrestar(i) ==
  /\ estante' = [estante EXCEPT ![i] = @ - 1]
  /\ baja' = [baja EXCEPT ![i] = @ + 1]
  /\ UNCHANGED <<prestados, fondo>>

(***************************************************************************)
(* A return that stops before the copy is back on the shelf.               *)
(***************************************************************************)
PerderAlDevolver(i) ==
  /\ prestados[i] > 0
  /\ prestados' = [prestados EXCEPT ![i] = @ - 1]
  /\ baja' = [baja EXCEPT ![i] = @ + 1]
  /\ UNCHANGED <<estante, fondo>>

Recontar ==
  /\ estante' \in [ISBNs -> Int]
  /\ prestados' \in [ISBNs -> Nat]
  /\ baja' = [i \in ISBNs |-> 0]
  /\ fondo' = Cuenta(estante', prestados')

Next ==
  \/ \E i \in ISBNs :
       \/ Prestar(i)
       \/ Devolver(i)
       \/ PerderAlPrestar(i)
       \/ PerderAlDevolver(i)
  \/ Recontar

Spec == Init /\ [][Next]_inventario

(***************************************************************************)
(* Conservation: shelf, loans and write-offs add up to the last count.     *)
(* No sequence of loans and returns, cut short or not, creates a copy.     *)
(***************************************************************************)
Conservacion ==
  \A i \in ISBNs : estante[i] + prestados[i] + baja[i] = fondo[i]

(***************************************************************************)
(* Every reachable inventory is balanced.                                  *)
(***************************************************************************)
LEMMA TiposPaso ==
  ASSUME TypeOK, [Next]_inventario
  PROVE  TypeOK'
<1>1. ASSUME NEW i \in ISBNs, Prestar(i)
      PROVE  TypeOK'
  BY <1>1 DEF TypeOK, Prestar
<1>2. ASSUME NEW i \in ISBNs, Devolver(i)
      PROVE  TypeOK'
  BY <1>2 DEF TypeOK, Devolver
<1>3. ASSUME NEW i \in ISBNs, PerderAlPrestar(i)
      PROVE  TypeOK'
  BY <1>3 DEF TypeOK, PerderAlPrestar
<1>4. ASSUME NEW i \in ISBNs, PerderAlDevolver(i)
      PROVE  TypeOK'
  BY <1>4 DEF TypeOK, PerderAlDevolver
<1>5. CASE Recontar
  BY <1>5 DEF TypeOK, Recontar, Cuenta
<1>6. CASE UNCHANGED inventario
  BY <1>6 DEF TypeOK, inventario
<1> QED
  BY <1>1, <1>2, <1>3, <1>4, <1>5, <1>6 DEF Next

LEMMA ConservaPaso ==
  ASSUME TypeOK, Conservacion, [Next]_inventario
  PROVE  Conservacion'
<1> USE DEF TypeOK, Conservacion
<1>1. ASSUME NEW i \in ISBNs, Prestar(i)
      PROVE  Conservacion'
  BY <1>1 DEF Prestar
<1>2. ASSUME NEW i \in ISBNs, Devolver(i)
      PROVE  Conservacion'
  BY <1>2 DEF Devolver
<1>3. ASSUME NEW i \in ISBNs, PerderAlPrestar(i)
      PROVE  Conservacion'
  BY <1>3 DEF PerderAlPrestar
<1>4. ASSUME NEW i \in ISBNs, PerderAlDevolver(i)
      PROVE  Conservacion'
  BY <1>4 DEF PerderAlDevolver
<1>5. CASE Recontar
  BY <1>5 DEF Recontar, Cuenta
<1>6. CASE UNCHANGED inventario
  BY <1>6 DEF inventario
<1> QED
  BY <1>1, <1>2, <1>3, <1>4, <1>5, <1>6 DEF Next

THEOREM Conserva == Spec => []Conservacion
<1>1. Init => TypeOK /\ Conservacion
  BY DEF Init, TypeOK, Conservacion
<1>2. TypeOK /\ Conservacion /\ [Next]_inventario => (TypeOK /\ Conservacion)'
  BY TiposPaso, ConservaPaso
<1> QED
  BY <1>1, <1>2, PTL DEF Spec

=============================================================================
