----------------------------- MODULE Induction ------------------------------
(***************************************************************************)
(* Induction over the natural numbers in the form of sets instead of       *)
(* predicates, and what it says of the running sums of a function, such as *)
(* the totals that loops over queues, clients and words add up.            *)
(***************************************************************************)
EXTENDS Integers, FiniteSets, FiniteSetTheorems, WellFoundedInduction, TLAPS

(* A set of natural numbers has a least element, if it has any.             *)
LEMMA LeastElement ==
  ASSUME NEW S, S \subseteq Nat, S # {}
  PROVE  \E n \in S : \A k \in S : n <= k
<1> DEFINE R == {ss \in Nat \X Nat : ss[1] < ss[2]}
<1>1. R = OpToRel(<, Nat)
  BY DEF OpToRel
<1>2. IsWellFoundedOn(R, Nat)
  BY <1>1, NatLessThanWellFounded
<1>3. \A j, k \in Nat : <<k, j>> \in R <=> k < j
  OBVIOUS
<1> HIDE DEF R
<1>4. PICK n \in S : \A k \in S : <<k, n>> \notin R
  BY <1>2, WFMin
<1>5. \A k \in S : ~(k < n)
  BY <1>3, <1>4
<1> QED
  BY <1>5

(* One that is bounded has a greatest element as well.                      *)
LEMMA GreatestElement ==
  ASSUME NEW b \in Nat, NEW S, S \subseteq 0..b, S # {}
  PROVE  \E n \in S : \A k \in S : k <= n
<1> DEFINE T == {b - k : k \in S}
<1>1. T \subseteq Nat /\ T # {}
  <2>1. \A k \in S : b - k \in Nat
    OBVIOUS
  <2> QED
    BY <2>1
<1>2. PICK m \in T : \A j \in T : m <= j
  <2> HIDE DEF T
  <2> QED
    BY <1>1, LeastElement
<1>3. PICK n \in S : m = b - n
  BY <1>2
<1>4. \A k \in S : b - n <= b - k
  BY <1>2, <1>3
<1> QED
  BY <1>3, <1>4

(* What holds for 0 and, with n, for n + 1 holds for all up to a bound.     *)
LEMMA UpTo ==
  ASSUME NEW b \in Nat, NEW S, 0 \in S, \A n \in 0..(b - 1) : n \in S => n + 1 \in S
  PROVE  0..b \subseteq S
<1> SUFFICES ASSUME (0..b) \ S # {} PROVE FALSE
  OBVIOUS
<1>1. PICK n \in (0..b) \ S : \A k \in (0..b) \ S : n <= k
  <2>1. (0..b) \ S \subseteq Nat
    OBVIOUS
  <2> QED
    BY <2>1, LeastElement
<1>2. n # 0 /\ n - 1 \in 0..(b - 1)
  BY <1>1
<1>3. n - 1 \in S
  BY <1>1, <1>2
<1> QED
  BY <1>1, <1>2, <1>3

-----------------------------------------------------------------------------
(* The running sums of d: what a loop that adds up d[1], d[2], ... holds    *)
(* after each turn.                                                         *)
IsSums(s, d, n) == s = [k \in 0..n |-> IF k = 0 THEN 0 ELSE s[k - 1] + d[k]]

(* A recursive definition of sums defines something.                        *)
LEMMA SumsExist ==
  ASSUME NEW n \in Nat, NEW d
  PROVE  \E s : IsSums(s, d, n)
<1> DEFINE G == {k \in 0..n : \E s : IsSums(s, d, k)}
<1>1. 0 \in G
  <2> DEFINE s == [k \in 0..0 |-> 0]
  <2>1. s = [k \in 0..0 |-> IF k = 0 THEN 0 ELSE s[k - 1] + d[k]]
    OBVIOUS
  <2> HIDE DEF s
  <2>2. IsSums(s, d, 0)
    BY <2>1 DEF IsSums
  <2> QED
    BY <2>2
<1>2. ASSUME NEW k \in 0..(n - 1), k \in G PROVE k + 1 \in G
  <2>1. PICK s : s = [j \in 0..k |-> IF j = 0 THEN 0 ELSE s[j - 1] + d[j]]
    BY <1>2 DEF IsSums
  <2> DEFINE r == [j \in 0..(k + 1) |-> IF j = k + 1 THEN s[k] + d[k + 1] ELSE s[j]]
  <2>2. /\ \A j \in 0..k : r[j] = s[j]
        /\ r[k + 1] = s[k] + d[k + 1]
        /\ r = [j \in 0..(k + 1) |-> r[j]]
    OBVIOUS
  <2>3. \A j \in 0..k : s[j] = IF j = 0 THEN 0 ELSE s[j - 1] + d[j]
    BY <2>1
  <2> HIDE DEF r
  <2>4. ASSUME NEW j \in 0..(k + 1)
        PROVE  r[j] = IF j = 0 THEN 0 ELSE r[j - 1] + d[j]
    <3>1. CASE j = k + 1
      BY <2>2, <3>1
    <3>2. CASE j # k + 1
      <4>1. j \in 0..k /\ (j # 0 => j - 1 \in 0..k)
        BY <3>2
      <4> QED
        BY <2>2, <2>3, <4>1
    <3> QED
      BY <3>1, <3>2
  <2>5. r = [j \in 0..(k + 1) |-> IF j = 0 THEN 0 ELSE r[j - 1] + d[j]]
    BY <2>2, <2>4
  <2> QED
    BY <2>5 DEF IsSums
<1> HIDE DEF G
<1>3. n \in G
  <2>1. 0..n \subseteq G
    BY <1>1, <1>2, UpTo
  <2> QED
    BY <2>1
<1> QED
  BY <1>3 DEF G

(* What the definition says of each sum.                                    *)
LEMMA SumsStep ==
  ASSUME NEW n \in Nat, NEW d, NEW s, IsSums(s, d, n)
  PROVE  s[0] = 0 /\ \A k \in 1..n : s[k] = s[k - 1] + d[k]
<1>1. \A k \in 0..n : s[k] = IF k = 0 THEN 0 ELSE s[k - 1] + d[k]
  BY DEF IsSums
<1> QED
  BY <1>1

(* Sums of natural numbers are natural numbers.                             *)
LEMMA SumsType ==
  ASSUME NEW n \in Nat, NEW d \in [1..n -> Nat], NEW s, IsSums(s, d, n)
  PROVE  \A k \in 0..n : s[k] \in Nat
<1> DEFINE G == {k \in 0..n : s[k] \in Nat}
<1>1. s[0] = 0 /\ \A k \in 1..n : s[k] = s[k - 1] + d[k]
  BY SumsStep
<1>2. 0 \in G
  BY <1>1
<1>3. ASSUME NEW k \in 0..(n - 1), k \in G PROVE k + 1 \in G
  <2>1. k + 1 \in 1..n /\ s[k + 1] = s[k] + d[k + 1] /\ d[k + 1] \in Nat
    BY <1>1
  <2> QED
    BY <1>3, <2>1
<1> HIDE DEF G
<1>4. 0..n \subseteq G
  BY <1>2, <1>3, UpTo
<1> QED
  BY <1>4 DEF G

(* What x grows to y by when d grows to e.                                  *)
Grows(d, e, n, x, y) ==
  \A q \in 1..n, a \in Nat :
    e[q] = d[q] + a /\ (\A k \in 1..n : k # q => e[k] = d[k]) => y = x + a

(* Adding to one number adds as much to the sum.                            *)
LEMMA SumsGrow ==
  ASSUME NEW n \in Nat, NEW d \in [1..n -> Nat], NEW e \in [1..n -> Nat],
         NEW s, NEW r, IsSums(s, d, n), IsSums(r, e, n)
  PROVE  Grows(d, e, n, s[n], r[n])
<1> SUFFICES ASSUME NEW q \in 1..n, NEW a \in Nat, e[q] = d[q] + a,
                    \A k \in 1..n : k # q => e[k] = d[k]
             PROVE  r[n] = s[n] + a
  BY DEF Grows
<1> DEFINE G == {k \in 0..n : r[k] = s[k] + IF k >= q THEN a ELSE 0}
<1>1. /\ s[0] = 0 /\ \A k \in 1..n : s[k] = s[k - 1] + d[k]
      /\ r[0] = 0 /\ \A k \in 1..n : r[k] = r[k - 1] + e[k]
      /\ \A k \in 0..n : s[k] \in Nat /\ r[k] \in Nat
  <2>1. s[0] = 0 /\ \A k \in 1..n : s[k] = s[k - 1] + d[k]
    BY SumsStep
  <2>2. r[0] = 0 /\ \A k \in 1..n : r[k] = r[k - 1] + e[k]
    BY SumsStep
  <2>3. \A k \in 0..n : s[k] \in Nat
    BY SumsType
  <2>4. \A k \in 0..n : r[k] \in Nat
    BY SumsType
  <2> QED
    BY <2>1, <2>2, <2>3, <2>4
<1>2. 0 \in G
  BY <1>1
<1>3. ASSUME NEW k \in 0..(n - 1), k \in G PROVE k + 1 \in G
  <2>1. /\ k + 1 \in 1..n /\ s[k + 1] = s[k] + d[k + 1] /\ r[k + 1] = r[k] + e[k + 1]
        /\ d[k + 1] \in Nat /\ e[k + 1] \in Nat /\ s[k] \in Nat /\ r[k] \in Nat
    BY <1>1
  <2>2. r[k] = s[k] + IF k >= q THEN a ELSE 0
    BY <1>3
  <2>3. CASE k + 1 = q
    <3>1. e[k + 1] = d[k + 1] + a /\ ~(k >= q) /\ k + 1 >= q
      BY <2>3
    <3>2. r[k] = s[k]
      BY <2>1, <2>2, <3>1
    <3>3. r[k + 1] = s[k + 1] + a
      BY <2>1, <3>1, <3>2
    <3> QED
      BY <3>1, <3>3
  <2>4. CASE k + 1 # q
    <3>1. e[k + 1] = d[k + 1]
      BY <2>1, <2>4
    <3>2. k + 1 >= q <=> k >= q
      BY <2>4
    <3> QED
      BY <2>1, <2>2, <3>1, <3>2
  <2> QED
    BY <2>3, <2>4
<1> HIDE DEF G
<1>4. n \in G
  <2>1. 0..n \subseteq G
    BY <1>2, <1>3, UpTo
  <2> QED
    BY <2>1
<1> QED
  BY <1>1, <1>4 DEF G

(* Numbers that are nowhere larger, and whose sum is not smaller, are equal.*)
LEMMA SumsEqual ==
  ASSUME NEW n \in Nat, NEW d \in [1..n -> Nat], NEW e \in [1..n -> Nat],
         NEW s, NEW r, IsSums(s, d, n), IsSums(r, e, n),
         \A k \in 1..n : d[k] <= e[k], s[n] >= r[n]
  PROVE  \A k \in 1..n : d[k] = e[k]
<1> DEFINE G == {k \in 0..n : /\ s[k] <= r[k]
                              /\ s[k] = r[k] => \A j \in 1..k : d[j] = e[j]}
<1>1. /\ s[0] = 0 /\ \A k \in 1..n : s[k] = s[k - 1] + d[k]
      /\ r[0] = 0 /\ \A k \in 1..n : r[k] = r[k - 1] + e[k]
      /\ \A k \in 0..n : s[k] \in Nat /\ r[k] \in Nat
  <2>1. s[0] = 0 /\ \A k \in 1..n : s[k] = s[k - 1] + d[k]
    BY SumsStep
  <2>2. r[0] = 0 /\ \A k \in 1..n : r[k] = r[k - 1] + e[k]
    BY SumsStep
  <2>3. \A k \in 0..n : s[k] \in Nat
    BY SumsType
  <2>4. \A k \in 0..n : r[k] \in Nat
    BY SumsType
  <2> QED
    BY <2>1, <2>2, <2>3, <2>4
<1>2. 0 \in G
  BY <1>1
<1>3. ASSUME NEW k \in 0..(n - 1), k \in G PROVE k + 1 \in G
  <2>1. /\ k + 1 \in 1..n /\ s[k + 1] = s[k] + d[k + 1] /\ r[k + 1] = r[k] + e[k + 1]
        /\ d[k + 1] \in Nat /\ e[k + 1] \in Nat /\ s[k] \in Nat /\ r[k] \in Nat
        /\ d[k + 1] <= e[k + 1]
    BY <1>1
  <2>2. s[k] <= r[k] /\ (s[k] = r[k] => \A j \in 1..k : d[j] = e[j])
    BY <1>3
  <2>3. s[k + 1] <= r[k + 1]
    BY <2>1, <2>2
  <2>4. ASSUME s[k + 1] = r[k + 1] PROVE \A j \in 1..(k + 1) : d[j] = e[j]
    <3>1. s[k] = r[k] /\ d[k + 1] = e[k + 1]
      BY <2>1, <2>2, <2>4
    <3>2. \A j \in 1..(k + 1) : j \in 1..k \/ j = k + 1
      OBVIOUS
    <3> QED
      BY <2>2, <3>1, <3>2
  <2> QED
    BY <2>3, <2>4
<1> HIDE DEF G
<1>4. n \in G
  <2>1. 0..n \subseteq G
    BY <1>2, <1>3, UpTo
  <2> QED
    BY <2>1
<1>5. s[n] \in Nat /\ r[n] \in Nat
  BY <1>1
<1> QED
  BY <1>4, <1>5 DEF G

(* The sum of zeros is zero.                                                *)
LEMMA SumsZero ==
  ASSUME NEW n \in Nat, NEW d, NEW s, IsSums(s, d, n), \A k \in 1..n : d[k] = 0
  PROVE  s[n] = 0
<1> DEFINE G == {k \in 0..n : s[k] = 0}
<1>1. s[0] = 0 /\ \A k \in 1..n : s[k] = s[k - 1] + d[k]
  BY SumsStep
<1>2. 0 \in G
  BY <1>1
<1>3. ASSUME NEW k \in 0..(n - 1), k \in G PROVE k + 1 \in G
  <2>1. k + 1 \in 1..n /\ s[k + 1] = s[k] + d[k + 1] /\ d[k + 1] = 0
    BY <1>1
  <2> QED
    BY <1>3, <2>1
<1> HIDE DEF G
<1>4. 0..n \subseteq G
  BY <1>2, <1>3, UpTo
<1> QED
  BY <1>4 DEF G

(* The sum of zeros and ones is the number of ones.                         *)
LEMMA SumsCount ==
  ASSUME NEW n \in Nat, NEW d \in [1..n -> 0..1], NEW s, IsSums(s, d, n)
  PROVE  s[n] = Cardinality({k \in 1..n : d[k] = 1})
<1> DEFINE Ones(k) == {j \in 1..k : d[j] = 1}
           G == {k \in 0..n : s[k] = Cardinality(Ones(k))}
<1>1. s[0] = 0 /\ \A k \in 1..n : s[k] = s[k - 1] + d[k]
  BY SumsStep
<1>2. 0 \in G
  <2>1. Ones(0) = {}
    OBVIOUS
  <2> QED
    BY <1>1, <2>1, FS_EmptySet
<1>3. ASSUME NEW k \in 0..(n - 1), k \in G PROVE k + 1 \in G
  <2>1. k + 1 \in 1..n /\ s[k + 1] = s[k] + d[k + 1] /\ s[k] = Cardinality(Ones(k))
    BY <1>1, <1>3
  <2>2. IsFiniteSet(Ones(k)) /\ Cardinality(Ones(k)) \in Nat
    <3>1. IsFiniteSet(1..k) /\ Ones(k) \subseteq 1..k
      BY FS_Interval
    <3> QED
      BY <3>1, FS_Subset, FS_CardinalityType
  <2>3. CASE d[k + 1] = 1
    <3>1. Ones(k + 1) = Ones(k) \cup {k + 1} /\ k + 1 \notin Ones(k)
      BY <2>3
    <3>2. Cardinality(Ones(k + 1)) = Cardinality(Ones(k)) + 1
      BY <2>2, <3>1, FS_AddElement
    <3> QED
      BY <2>1, <2>2, <2>3, <3>2
  <2>4. CASE d[k + 1] = 0
    <3>1. Ones(k + 1) = Ones(k)
      BY <2>4
    <3> HIDE DEF Ones
    <3> QED
      BY <2>1, <2>2, <2>4, <3>1
  <2> QED
    BY <2>1, <2>3, <2>4
<1> HIDE DEF G, Ones
<1>4. n \in G
  <2>1. 0..n \subseteq G
    BY <1>2, <1>3, UpTo
  <2> QED
    BY <2>1
<1> QED
  BY <1>4 DEF G, Ones
=============================================================================
