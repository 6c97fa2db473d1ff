---------------------------- MODULE NumberLemmas ----------------------------
(***************************************************************************)
(* Lemmas about numbers that the proofs of several modules need.           *)
(***************************************************************************)
EXTENDS Integers, WellFoundedInduction, TLAPS

(* A set of numbers has a least one.  A proof by least counterexample      *)
(* stands where one by induction would need a predicate as a parameter.    *)
LEMMA LeastNumber ==
    ASSUME NEW T \in SUBSET Nat, T # {}
    PROVE  \E x \in T : \A y \in T : x <= y
<1> DEFINE R == OpToRel(<, Nat)
<1>1. IsWellFoundedOn(R, Nat)
  BY NatLessThanWellFounded, Zenon
<1>2. \A x, y \in Nat : <<y, x>> \in R <=> y < x
  BY Zenon DEF OpToRel
<1> HIDE DEF R
<1>3. PICK x \in T : \A y \in T : <<y, x>> \notin R
  BY <1>1, WFMin
<1>4. ASSUME NEW y \in T
      PROVE  x <= y
  <2>1. <<y, x>> \notin R
    BY <1>3
  <2>2. ~(y < x)
    BY <1>2, <2>1
  <2>3. QED  BY <2>2
<1>5. QED  BY <1>4

(* A remainder, without multiplication by a divisor that is not known.     *)
LEMMA SmallRemainder ==
    ASSUME NEW w \in Nat, NEW n \in Nat, n < 2 * w
    PROVE  n % w = IF n < w THEN n ELSE n - w
<1>1. w > 0
  OBVIOUS
<1>2. CASE n < w
  BY <1>1, <1>2
<1>3. CASE n >= w
  BY <1>1, <1>3
<1>4. QED  BY <1>2, <1>3
=============================================================================
