----------------------------- MODULE LeastNumber -----------------------------
(***************************************************************************)
(* Induction in the form the provers can use it: a set of natural numbers  *)
(* that is not empty has a least element.                                  *)
(***************************************************************************)
EXTENDS Integers, WellFoundedInduction, TLAPS

LEMMA LeastExists ==
  ASSUME NEW X, X \subseteq Nat, X /= {}
  PROVE  \E n \in X : \A m \in X : n <= m
<1>1. PICK n \in X : \A m \in X : <<m, n>> \notin OpToRel(<, Nat)
  BY NatLessThanWellFounded, WFMin
<1>2. \A m \in X : ~(m < n)
  BY <1>1 DEF OpToRel
<1> QED
  BY <1>2

(* So has a greatest one a set with an upper bound.                        *)
LEMMA GreatestExists ==
  ASSUME NEW n \in Nat, NEW X, X \subseteq 0 .. n, X /= {}
  PROVE  \E g \in X : \A m \in X : m <= g
<1> DEFINE Y == {n - m : m \in X}
<1>1. Y \subseteq Nat /\ Y /= {}
  <2>1. \A m \in X : n - m \in Nat
    OBVIOUS
  <2>2. \E m \in X : n - m \in Y
    OBVIOUS
  <2> QED
    BY <2>1, <2>2
<1> HIDE DEF Y
<1>2. PICK y \in Y : \A k \in Y : y <= k
  BY <1>1, LeastExists
<1>3. PICK g \in X : y = n - g
  BY <1>2 DEF Y
<1>4. \A m \in X : n - g <= n - m
  BY <1>2, <1>3 DEF Y
<1> QED
  BY <1>4

(* What holds of 0 and goes from each number to the next up to n holds of  *)
(* them all; the numbers it holds of are given as a set.                   *)
LEMMA UpTo ==
  ASSUME NEW n \in Nat, NEW G,
         0 \in G,
         \A i \in 0 .. n - 1 : i \in G => i + 1 \in G
  PROVE  \A i \in 0 .. n : i \in G
<1> DEFINE X == (0 .. n) \ G
<1>1. SUFFICES ASSUME X /= {} PROVE FALSE
  OBVIOUS
<1>2. PICK m \in X : \A k \in X : m <= k
  <2>1. X \subseteq Nat
    OBVIOUS
  <2> HIDE DEF X
  <2> QED
    BY <1>1, <2>1, LeastExists
<1>3. m - 1 \in 0 .. n - 1 /\ m - 1 \notin X
  BY <1>2
<1> QED
  BY <1>2, <1>3

(* Pairs of numbers, the second at most c, in the order of the first.      *)
LEMMA LessWork ==
  ASSUME NEW c \in Nat, NEW x \in Nat, NEW y \in Nat, NEW t \in 0 .. c, NEW u \in 0 .. c,
         y < x \/ (y = x /\ u < t)
  PROVE  y * (c + 1) + u < x * (c + 1) + t
<1>1. CASE y < x
  <2>1. PICK d \in Nat : x = y + 1 + d
    <3>1. x - y - 1 \in Nat /\ x = y + 1 + (x - y - 1)
      BY <1>1
    <3> QED
      BY <3>1
  <2>2. x * (c + 1) = y * (c + 1) + (c + 1) + d * (c + 1)
    BY <2>1
  <2>3. d * (c + 1) \in Nat /\ y * (c + 1) \in Nat
    OBVIOUS
  <2> QED
    BY <2>2, <2>3
<1>2. CASE y = x /\ u < t
  <2>1. y * (c + 1) \in Nat
    OBVIOUS
  <2> QED
    BY <1>2, <2>1
<1> QED
  BY <1>1, <1>2

=============================================================================
