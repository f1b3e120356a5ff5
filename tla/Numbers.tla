------------------------------- MODULE Numbers ------------------------------
(***************************************************************************)
(* Largest and smallest elements of sets of numbers.                       *)
(***************************************************************************)
EXTENDS Integers, TLAPS, WellFoundedInduction

(* A finite set of numbers has a largest one.                                *)
LEMMA MaxExists ==
  ASSUME NEW N \in Nat, NEW T \in SUBSET (0..N), T # {}
  PROVE  \E x \in T : \A y \in T : y <= x
  <1> DEFINE D == {N - x : x \in T}
  <1>1. \A x \in T : x \in Nat /\ N - x \in Nat
    OBVIOUS
  <1>a. PICK t \in T : TRUE
    OBVIOUS
  <1>b. N - t \in D
    BY <1>a
  <1>c. D \subseteq Nat /\ D # {}
    BY <1>1, <1>b
  <1>2. PICK d \in D : \A e \in D : ~(<<e, d>> \in OpToRel(<, Nat))
    <2> HIDE DEF D
    <2> QED
      BY <1>c, NatLessThanWellFounded, WFMin, Zenon
  <1>3. \A e \in D : d <= e
    <2> SUFFICES ASSUME NEW e \in D PROVE d <= e
      OBVIOUS
    <2> HIDE DEF D
    <2>1. e \in Nat /\ d \in Nat
      BY <1>c
    <2>2. ~(e < d)
      BY <1>2, <2>1 DEF OpToRel
    <2> QED
      BY <2>1, <2>2
  <1>4. PICK x \in T : d = N - x
    OBVIOUS
  <1>5. \A y \in T : y <= x
    BY <1>3, <1>4
  <1> QED
    BY <1>5

(* A set of numbers has a smallest one.                                      *)
LEMMA MinExists ==
  ASSUME NEW T \in SUBSET Nat, T # {}
  PROVE  \E x \in T : \A y \in T : x <= y
  <1>1. PICK x \in T : \A y \in T : ~(<<y, x>> \in OpToRel(<, Nat))
    BY NatLessThanWellFounded, WFMin, Zenon
  <1>2. \A y \in T : x <= y
    <2> SUFFICES ASSUME NEW y \in T PROVE x <= y
      OBVIOUS
    <2>1. ~(y < x)
      BY <1>1 DEF OpToRel
    <2> QED
      BY <2>1
  <1> QED
    BY <1>2
=============================================================================
