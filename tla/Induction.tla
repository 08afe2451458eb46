-------------------------------- MODULE Induction --------------------------------
(* Induction over an initial part of the numbers, for the proofs about what a      *)
(* recursive function computes. The library states it for an operator, which the   *)
(* provers cannot instantiate; here it is stated for a set.                        *)
EXTENDS Naturals, WellFoundedInduction, TLAPS

(* A nonempty set of numbers has a least one. *)
LEMMA LeastNumber ==
    ASSUME NEW T \in SUBSET Nat, T # {}
    PROVE  \E n \in T : \A k \in T : n <= k
<1> DEFINE R == OpToRel(<, Nat)
<1>1. R = {ss \in Nat \X Nat : ss[1] < ss[2]}
    BY DEF OpToRel
<1>2. IsWellFoundedOn(R, Nat)
    BY NatLessThanWellFounded, Zenon
<1> HIDE DEF R
<1>3. PICK n \in T : \A k \in T : ~ (<<k, n>> \in R)
    BY <1>2, WFMin
<1>4. \A k \in T : ~ (k < n)
    BY <1>1, <1>3
<1> QED BY <1>4

(* A set that has 0, and each number up to n with the one before, has them all.    *)
LEMMA UpTo ==
    ASSUME NEW n \in Nat, NEW S \in SUBSET (0..n), 0 \in S,
           \A k \in 1..n : k - 1 \in S => k \in S
    PROVE  S = 0..n
<1> SUFFICES ASSUME (0..n) \ S # {} PROVE FALSE
    OBVIOUS
<1>1. PICK k \in (0..n) \ S : \A i \in (0..n) \ S : k <= i
    <2>1. (0..n) \ S \in SUBSET Nat
        OBVIOUS
    <2> QED BY <2>1, LeastNumber
<1>2. k \in 1..n /\ k - 1 \in 0..n
    BY <1>1
<1>3. k - 1 \in S
    BY <1>1, <1>2
<1> QED BY <1>1, <1>2, <1>3
==================================================================================
