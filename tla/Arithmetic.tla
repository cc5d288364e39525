----------------------------- MODULE Arithmetic -----------------------------
(***************************************************************************)
(* Facts about numbers that the proofs of several components need.         *)
(***************************************************************************)
EXTENDS Integers, WellFoundedInduction, TLAPS

\* Integer division: the quotient times the divisor is the last multiple that
\* does not exceed the dividend.
LEMMA DivisionBounds ==
  ASSUME NEW a \in Nat, NEW b \in Nat \ {0}
  PROVE  /\ a \div b \in Nat
         /\ (a \div b) * b <= a
         /\ a < (a \div b) * b + b
  BY SMTT(30)

\* Only one multiple of the divisor is within one divisor of the dividend.
LEMMA DivisionUnique ==
  ASSUME NEW a \in Nat, NEW b \in Nat \ {0}, NEW q \in Nat,
         q * b <= a, a < q * b + b
  PROVE  a \div b = q
<1> DEFINE d == a \div b
<1>1. d \in Nat /\ d * b <= a /\ a < d * b + b
  BY DivisionBounds
<1>2. ASSUME d < q PROVE FALSE
  <2>1. d + 1 <= q
    BY <1>1, <1>2
  <2>2. (d + 1) * b <= q * b
    BY <2>1, <1>1, SMTT(30)
  <2>3. (d + 1) * b = d * b + b
    BY <1>1, SMTT(30)
  <2> QED
    BY <1>1, <2>2, <2>3
<1>3. ASSUME q < d PROVE FALSE
  <2>1. q + 1 <= d
    BY <1>1, <1>3
  <2>2. (q + 1) * b <= d * b
    BY <2>1, <1>1, SMTT(30)
  <2>3. (q + 1) * b = q * b + b
    BY SMTT(30)
  <2> QED
    BY <1>1, <2>2, <2>3
<1> QED
  BY <1>1, <1>2, <1>3

\* A nonempty set of naturals has a least element.
LEMMA LeastNatural ==
  ASSUME NEW S, S \subseteq Nat, S # {}
  PROVE  \E n \in S : \A m \in S : n <= m
<1> DEFINE R == OpToRel(<, Nat)
<1>1. \E x \in S : \A y \in S : ~ (<<y, x>> \in R)
  <2>1. IsWellFoundedOn(R, Nat)
    BY NatLessThanWellFounded
  <2> HIDE DEF R
  <2> QED
    BY <2>1, WFMin
<1>2. \A x, y \in Nat : x < y => <<x, y>> \in R
  BY DEF OpToRel
<1> HIDE DEF R
<1>3. PICK x \in S : \A y \in S : ~ (<<y, x>> \in R)
  BY <1>1
<1>4. ASSUME NEW m \in S PROVE x <= m
  <2>1. x \in Nat /\ m \in Nat
    OBVIOUS
  <2>2. m < x => <<m, x>> \in R
    BY <1>2, <2>1, Zenon
  <2>3. ~(m < x)
    BY <1>3, <2>2, Zenon
  <2> QED
    BY <2>1, <2>3
<1> QED
  BY <1>4

=============================================================================
