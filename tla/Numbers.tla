------------------------------- MODULE Numbers -------------------------------
(***************************************************************************)
(* The least and the greatest of a set of natural numbers, and remainders: *)
(* facts for the proofs of the other modules.                              *)
(***************************************************************************)
EXTENDS Integers, FiniteSetsExt, TLAPS, WellFoundedInduction

(* Every set of natural numbers that is not empty has a least one.         *)
LEMMA LeastNumber ==
  ASSUME NEW S, S \subseteq Nat, S # {}
  PROVE  \E n \in S : \A m \in S : n <= m
<1>1. PICK n \in S : \A m \in S : ~ (<<m, n>> \in OpToRel(<, Nat))
  BY NatLessThanWellFounded, WFMin
<1>2. SUFFICES ASSUME NEW m \in S PROVE n <= m
  BY <1>1
<1>3. ~ (m < n)
  BY <1>1, <1>2 DEF OpToRel
<1> QED
  BY <1>3

(* Every set of natural numbers that is bounded has a greatest one: its    *)
(* least bound.                                                            *)
LEMMA GreatestNumber ==
  ASSUME NEW S, S \subseteq Nat, S # {}, NEW b \in Nat, \A m \in S : m <= b
  PROVE  \E n \in S : \A m \in S : m <= n
<1> DEFINE bounds == {n \in Nat : \A m \in S : m <= n}
<1>1. b \in bounds /\ bounds \subseteq Nat
  OBVIOUS
<1>2. PICK n \in bounds : \A k \in bounds : n <= k
  BY <1>1, LeastNumber
<1>3. ASSUME n \notin S PROVE FALSE
  <2>1. PICK m \in S : m <= n /\ m # n
    BY <1>2, <1>3
  <2>2. \A k \in S : k <= n - 1
    BY <1>2, <1>3
  <2>3. n - 1 \in Nat
    BY <2>1, <1>2
  <2> QED
    BY <1>2, <2>2, <2>3
<1> QED
  BY <1>2, <1>3

(* Min() and Max() find them.                                              *)
LEMMA MinFound ==
  ASSUME NEW S, S \subseteq Nat, S # {}
  PROVE  Min(S) \in S /\ \A m \in S : Min(S) <= m
<1>1. \E n \in S : \A m \in S : n <= m
  BY LeastNumber
<1> QED
  BY <1>1 DEF Min

(* The greatest of numbers that have a bound.                              *)
LEMMA MaxFound ==
  ASSUME NEW S, S \subseteq Nat, S # {}, NEW b \in Nat, \A m \in S : m <= b
  PROVE  Max(S) \in S /\ \A m \in S : m <= Max(S)
<1>1. \E n \in S : \A m \in S : n >= m
  BY GreatestNumber
<1> QED
  BY <1>1 DEF Max

(* A remainder is the only one in its range.                               *)
LEMMA Remainder ==
  ASSUME NEW c \in Nat, NEW q \in Nat, NEW s \in 0 .. c - 1, NEW x \in Nat,
         x = c * q + s
  PROVE  x % c = s
<1>1. c > 0
  OBVIOUS
<1>2. PICK d \in Nat, m \in 0 .. c - 1 : d = x \div c /\ m = x % c
  BY <1>1
<1>3. x = c * d + m
  BY <1>1, <1>2
<1>4. ASSUME d < q PROVE FALSE
  <2>1. PICK e \in Nat : q = d + 1 + e
    <3>1. q - d - 1 \in Nat
      BY <1>4, <1>2
    <3> QED
      BY <3>1, <1>2
  <2>2. c * q = c * d + c + c * e
    BY <2>1, <1>2
  <2>3. c * e \in Nat /\ c * d \in Nat
    BY <2>1, <1>2
  <2> QED
    BY <1>2, <1>3, <2>2, <2>3
<1>5. ASSUME q < d PROVE FALSE
  <2>1. PICK e \in Nat : d = q + 1 + e
    <3>1. d - q - 1 \in Nat
      BY <1>5, <1>2
    <3> QED
      BY <3>1, <1>2
  <2>2. c * d = c * q + c + c * e
    BY <2>1, <1>2
  <2>3. c * e \in Nat /\ c * q \in Nat
    BY <2>1, <1>2
  <2> QED
    BY <1>2, <1>3, <2>2, <2>3
<1>6. d = q
  BY <1>2, <1>4, <1>5
<1> QED
  BY <1>2, <1>3, <1>6

=============================================================================
