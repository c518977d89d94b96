----------------------------- MODULE BoundedSets -----------------------------
(****************************************************************************)
(* Facts about numbers and bounded sets of them.  A highest element is what *)
(* CHOOSE needs where the code keeps the largest number so far: the         *)
(* restored ID of the query log and the longest candidate that a table of   *)
(* the router has.  It also gives induction up to a bound, over the set of  *)
(* the numbers for which something holds, and with it what a recursive      *)
(* function computes.                                                       *)
(****************************************************************************)
EXTENDS Integers, FiniteSetTheorems, TLAPS

\* A set of bounded naturals that is not empty has a highest element: the
\* smallest of the intervals that contain the set ends with it.
LEMMA Highest ==
    ASSUME NEW N \in Nat, NEW T \in SUBSET (0 .. N), T # {}
    PROVE  \E m \in T : \A x \in T : x <= m
<1> DEFINE Bounds == {k \in 0 .. N : T \subseteq 0 .. k}
           Family == {0 .. k : k \in Bounds}
           R      == StrictSubsetOrdering(0 .. N)
<1>1. IsFiniteSet(0 .. N)
  BY FS_Interval
<1>2. IsWellFoundedOn(R, FiniteSubsetsOf(0 .. N))
  BY FS_StrictSubsetOrderingWellFounded
<1>3. Family \subseteq FiniteSubsetsOf(0 .. N) /\ Family # {}
  <2>1. N \in Bounds
    OBVIOUS
  <2>2. \A k \in Bounds : 0 .. k \subseteq 0 .. N
    OBVIOUS
  <2>3. \A k \in Bounds : IsFiniteSet(0 .. k)
    BY <1>1, <2>2, FS_Subset
  <2> QED
    BY <2>1, <2>2, <2>3 DEF FiniteSubsetsOf
<1>4. PICK X \in Family : \A Y \in Family : <<Y, X>> \notin R
  <2> HIDE DEF Family, R
  <2> QED
    BY <1>2, <1>3, WFMin
<1>5. PICK m \in Bounds : X = 0 .. m
  OBVIOUS
<1>6. m \in T
  <2> SUFFICES ASSUME m \notin T PROVE FALSE
    OBVIOUS
  <2>1. m - 1 \in Bounds
    <3>1. \A x \in T : x \in 0 .. (m - 1)
      <4> SUFFICES ASSUME NEW x \in T PROVE x \in 0 .. (m - 1)
        OBVIOUS
      <4>1. x \in 0 .. m /\ x # m /\ m \in 0 .. N
        OBVIOUS
      <4> QED
        BY <4>1
    <3>2. PICK x \in T : x \in 0 .. (m - 1)
      BY <3>1
    <3>3. m \in 0 .. N
      OBVIOUS
    <3>4. m - 1 \in 0 .. N
      BY <3>2, <3>3
    <3> QED
      BY <3>1, <3>4
  <2>2. /\ 0 .. (m - 1) \subseteq 0 .. N /\ X \subseteq 0 .. N
        /\ 0 .. (m - 1) \subseteq X /\ 0 .. (m - 1) # X
    <3>1. m \in 0 .. m /\ m \notin 0 .. (m - 1)
      OBVIOUS
    <3> QED
      BY <1>5, <3>1
  <2>3. <<0 .. (m - 1), X>> \in R
    BY <2>2, Zenon DEF StrictSubsetOrdering
  <2> QED
    BY <1>4, <2>1, <2>3
<1> QED
  BY <1>5, <1>6

\* Induction up to N: a set with 0, and with every successor of an element
\* below N, has all numbers up to N.
LEMMA BoundedInduction ==
    ASSUME NEW N \in Nat, NEW T, 0 \in T, \A n \in 0 .. N - 1 : n \in T => n + 1 \in T
    PROVE  0 .. N \subseteq T
<1> DEFINE Upto == {n \in 0 .. N : 0 .. n \subseteq T}
<1>1. Upto \in SUBSET (0 .. N) /\ 0 \in Upto
  OBVIOUS
<1>2. PICK m \in Upto : \A n \in Upto : n <= m
  <2> HIDE DEF Upto
  <2> QED
    BY <1>1, Highest
<1>3. CASE m = N
  BY <1>3
<1>4. CASE m # N
  <2>1. m \in 0 .. N - 1 /\ 0 .. m \subseteq T
    BY <1>4
  <2>2. m + 1 \in T
    BY <2>1
  <2>3. m + 1 \in Upto
    <3>1. \A n \in 0 .. m + 1 : n \in 0 .. m \/ n = m + 1
      BY <2>1
    <3> QED
      BY <2>1, <2>2, <3>1
  <2> QED
    BY <1>2, <2>1, <2>3
<1> QED
  BY <1>3, <1>4

\* What is left over by a division is less than the divisor.
LEMMA Division ==
    ASSUME NEW a \in Nat, NEW b \in Nat \ {0}
    PROVE  a \div b \in Nat /\ (a \div b) * b <= a /\ a < (a \div b + 1) * b
<1> DEFINE d == a \div b
           r == a % b
<1>1. d \in Int /\ r \in 0 .. b - 1 /\ a = b * d + r
  OBVIOUS
<1> HIDE DEF d, r
<1>2. d >= 0
  <2>1. d <= -1 => b * d <= -b
    BY <1>1
  <2> QED
    BY <1>1, <2>1
<1> QED
  BY <1>1, <1>2 DEF d

\* Multiples grow with their number.
LEMMA Multiples ==
    ASSUME NEW i \in Nat, NEW k \in Nat, NEW b \in Nat, i <= k
    PROVE  i * b \in Nat /\ i * b <= k * b /\ (i + 1) * b = i * b + b
  OBVIOUS
=============================================================================
