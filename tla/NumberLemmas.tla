---------------------------- MODULE NumberLemmas ----------------------------
(***************************************************************************)
(* Induction over the natural numbers, in the form the proofs about walks  *)
(* and loops use: stated of a set of numbers, not of a predicate, and      *)
(* shown through the least number that is not in the set.                  *)
(***************************************************************************)
EXTENDS Integers, WellFoundedInduction, TLAPS

\* A set of numbers that is not empty has a least one.
LEMMA LeastNat ==
    ASSUME NEW T \in SUBSET Nat, T # {}
    PROVE  \E m \in T : \A k \in T : m <= k
  <1>1. PICK R : R = OpToRel(<, Nat)
    OBVIOUS
  <1>2. IsWellFoundedOn(R, Nat)
    BY <1>1, NatLessThanWellFounded, Zenon
  <1>3. \A x, y \in Nat : x < y => <<x, y>> \in R
    BY <1>1 DEF OpToRel
  <1>4. PICK x \in T : \A y \in T : ~(<<y, x>> \in R)
    BY <1>2, WFMin
  <1>5. ASSUME NEW k \in T PROVE x <= k
    <2>1. x \in Nat /\ k \in Nat
      OBVIOUS
    <2>2. ~(k < x)
      BY <1>3, <1>4, <2>1
    <2> QED BY <2>1, <2>2
  <1> QED BY <1>4, <1>5

\* What holds at 0 and from each number to the next holds up to n.
LEMMA UpTo ==
    ASSUME NEW n \in Nat, NEW T, 0 \in T, \A j \in 1..n : j - 1 \in T => j \in T
    PROVE  \A j \in 0..n : j \in T
  <1> SUFFICES ASSUME NEW x \in 0..n, x \notin T PROVE FALSE
    OBVIOUS
  <1>1. PICK B : B = {j \in 0..n : j \notin T}
    OBVIOUS
  <1>2. B \in SUBSET Nat /\ B # {}
    BY <1>1
  <1>3. PICK m \in B : \A k \in B : m <= k
    BY <1>2, LeastNat
  <1>4. m \in 1..n
    <2>1. m \in 0..n /\ m # 0
      BY <1>1, <1>3
    <2> QED BY <2>1
  <1>5. m - 1 \in 0..n /\ ~(m <= m - 1)
    BY <1>4
  <1>6. m - 1 \in T
    BY <1>1, <1>3, <1>5
  <1>7. m \in T
    BY <1>4, <1>6
  <1> QED BY <1>1, <1>7
=============================================================================
