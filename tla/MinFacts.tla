------------------------------- MODULE MinFacts -------------------------------
(***************************************************************************)
(* The least element of a set of natural numbers: what the proofs need to  *)
(* know of Min, which the models use for "the next in order"; and         *)
(* induction over the natural numbers, which follows from it.              *)
(***************************************************************************)
EXTENDS Naturals, FiniteSetsExt, NaturalsInduction, WellFoundedInduction, TLAPS

Less == {r \in Nat \X Nat : r[1] < r[2]}

LEMMA LessWellFounded == IsWellFoundedOn(Less, Nat)
  BY NatLessThanWellFounded DEF OpToRel, Less

\* A set of natural numbers that is not empty has a least element.
LEMMA MinOfNats ==
  ASSUME NEW S \in SUBSET Nat, S # {}
  PROVE  Min(S) \in S /\ \A y \in S : Min(S) <= y
<1>1. PICK x \in S : \A y \in S : <<y, x>> \notin Less
  BY LessWellFounded, WFMin
<1>2. ASSUME NEW y \in S PROVE x <= y
  <2>1. <<y, x>> \in Nat \X Nat
    OBVIOUS
  <2>2. <<y, x>>[1] = y /\ <<y, x>>[2] = x
    OBVIOUS
  <2> QED
    BY <1>1, <2>1, <2>2 DEF Less
<1> QED
  BY <1>2 DEF Min

\* Induction, with a set in the place of a predicate.
LEMMA InductionBySet ==
  ASSUME NEW S, 0 \in S, \A n \in Nat : n \in S => n + 1 \in S
  PROVE  Nat \subseteq S
<1> SUFFICES ASSUME Nat \ S # {} PROVE FALSE
  OBVIOUS
<1>1. /\ Min(Nat \ S) \in Nat \ S
      /\ \A y \in Nat \ S : Min(Nat \ S) <= y
  BY MinOfNats
<1>2. Min(Nat \ S) - 1 \in Nat /\ Min(Nat \ S) - 1 \in S
  BY <1>1
<1> QED
  BY <1>1, <1>2
=============================================================================
