------------------------------ MODULE Numeros ------------------------------
(***************************************************************************)
(* What the proofs need of the natural numbers: every set of them has a    *)
(* least one, by which what a step keeps is shown of every state or of     *)
(* every place of a sequence; and every finite set has a largest one.      *)
(***************************************************************************)
EXTENDS Naturals, FiniteSetTheorems, WellFoundedInduction, TLAPS

\* The order of the natural numbers is well founded.
LEMMA HayMenorQue ==
  \E R : IsWellFoundedOn(R, Nat) /\ \A x, y \in Nat : x < y => <<x, y>> \in R
<1>1. \A x, y \in Nat : x < y => <<x, y>> \in OpToRel(<, Nat)
  BY DEF OpToRel
<1>2. QED
  BY <1>1, NatLessThanWellFounded, Zenon

(***************************************************************************)
(* The least-number principle.                                             *)
(***************************************************************************)
LEMMA Minimo ==
  ASSUME NEW T \in SUBSET Nat, T # {}
  PROVE  \E x \in T : \A y \in T : x <= y
<1>1. T \subseteq Nat
  OBVIOUS
<1>2. PICK R : IsWellFoundedOn(R, Nat) /\ \A x, y \in Nat : x < y => <<x, y>> \in R
  BY HayMenorQue
<1>3. PICK x \in T : \A y \in T : ~ (<<y, x>> \in R)
  <2>1. IsWellFoundedOn(R, Nat)
    BY <1>2
  <2>2. QED
    BY <1>1, <2>1, WFMin, Zenon
<1>4. x \in Nat /\ \A y \in T : y \in Nat
  OBVIOUS
<1>5. SUFFICES ASSUME NEW y \in T PROVE x <= y
  OBVIOUS
<1>6. ~ (y < x)
  BY <1>2, <1>3, <1>4
<1>7. QED
  BY <1>4, <1>6

(***************************************************************************)
(* A finite set of numbers has a largest one: a smallest set without one   *)
(* would be left without one by taking out any of its numbers.             *)
(***************************************************************************)
SinMaximo(U) == /\ U \in SUBSET Nat /\ U # {} /\ IsFiniteSet(U)
                /\ ~ \E x \in U : \A y \in U : y <= x

LEMMA Maximo ==
  ASSUME NEW S \in SUBSET Nat, IsFiniteSet(S), S # {}
  PROVE  \E x \in S : \A y \in S : y <= x
<1> DEFINE T == {n \in Nat : \E U : SinMaximo(U) /\ Cardinality(U) = n}
<1> SUFFICES ASSUME SinMaximo(S) PROVE FALSE
  BY DEF SinMaximo
<1>1. Cardinality(S) \in T
  BY FS_CardinalityType
<1>2. PICK n \in T : \A m \in T : n <= m
  <2>1. T \in SUBSET Nat /\ T # {}
    BY <1>1
  <2> HIDE DEF T
  <2>2. QED
    BY <2>1, Minimo
<1>3. PICK U : SinMaximo(U) /\ Cardinality(U) = n
  BY <1>2
<1>4. PICK u \in U : TRUE
  BY <1>3 DEF SinMaximo
<1>5. IsFiniteSet(U \ {u}) /\ Cardinality(U \ {u}) = n - 1 /\ Cardinality(U \ {u}) \in Nat
  BY <1>3, <1>4, FS_RemoveElement, FS_CardinalityType DEF SinMaximo
<1>6. U \ {u} # {} /\ U \ {u} \in SUBSET Nat
  BY <1>3, <1>4 DEF SinMaximo
<1>7. n - 1 \notin T
  BY <1>2, <1>5
<1>8. ~ SinMaximo(U \ {u})
  BY <1>5, <1>7
<1>9. PICK x \in U \ {u} : \A y \in U \ {u} : y <= x
  BY <1>5, <1>6, <1>8 DEF SinMaximo
<1>10. QED
  BY <1>3, <1>4, <1>9 DEF SinMaximo
=============================================================================
