------------------------------ MODULE NatSets ------------------------------
(***************************************************************************)
(* Facts about sets of natural numbers that stand in for induction: the    *)
(* provers at hand cannot instantiate an induction principle that takes a  *)
(* predicate, but they can use these, which take a set.                    *)
(***************************************************************************)
EXTENDS Naturals, WellFoundedInduction, TLAPS

LEMMA LtWellFounded ==
    IsWellFoundedOn({ss \in Nat \X Nat : ss[1] < ss[2]}, Nat)
BY NatLessThanWellFounded DEF OpToRel

(* Every set of naturals that is not empty has a least element.            *)
THEOREM NatLeast ==
    ASSUME NEW T \in SUBSET Nat, T # {}
    PROVE  \E x \in T : \A y \in T : x <= y
<1> DEFINE R == {ss \in Nat \X Nat : ss[1] < ss[2]}
<1>1. IsWellFoundedOn(R, Nat)
  BY LtWellFounded
<1>2. PICK x \in T : \A y \in T : <<y, x>> \notin R
  <2> HIDE DEF R
  <2> QED BY <1>1, WFMin
<1>3. \A y \in T : ~(y < x)
  BY <1>2
<1> QED BY <1>3

(* Every bounded set of naturals that is not empty has a greatest element. *)
THEOREM NatGreatest ==
    ASSUME NEW n \in Nat, NEW T \in SUBSET 0..n, T # {}
    PROVE  \E x \in T : \A y \in T : y <= x
<1> DEFINE D == {d \in 0..n : n - d \in T}
<1>1. D \in SUBSET Nat
  OBVIOUS
<1>2. PICK t \in T : TRUE
  OBVIOUS
<1>3. n - t \in 0..n /\ n - (n - t) = t
  OBVIOUS
<1>4. D # {}
  BY <1>2, <1>3
<1>5. PICK d \in D : \A e \in D : d <= e
  <2> HIDE DEF D
  <2> QED BY <1>1, <1>4, NatLeast
<1>6. ASSUME NEW y \in T PROVE y <= n - d
  <2>1. n - y \in 0..n /\ n - (n - y) = y
    OBVIOUS
  <2>2. n - y \in D
    BY <2>1
  <2>3. d \in Nat /\ y \in Nat /\ d <= n - y
    BY <1>5, <2>2
  <2> QED BY <2>3
<1>7. n - d \in T
  BY <1>5
<1> QED BY <1>6, <1>7

(* Induction: a set that contains 0 and the successor of each of its       *)
(* members contains every natural number.                                  *)
THEOREM NatSetInduction ==
    ASSUME NEW S \in SUBSET Nat, 0 \in S, \A n \in S : n + 1 \in S
    PROVE  S = Nat
<1> SUFFICES ASSUME Nat \ S # {} PROVE FALSE
  OBVIOUS
<1>1. PICK x \in Nat \ S : \A y \in Nat \ S : x <= y
  BY NatLeast
<1>2. x - 1 \in Nat /\ x - 1 \in S
  BY <1>1
<1> QED BY <1>1, <1>2
=============================================================================
