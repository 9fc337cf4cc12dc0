----------------------------- MODULE SumLemmas -----------------------------
(***************************************************************************)
(* Facts about the finite sums of module Sums, for sums of every length.   *)
(* They rest on induction over a set of numbers, RangeInduction, which     *)
(* needs no operator parameter.  Then what a quotient that is rounded down *)
(* keeps.                                                                  *)
(***************************************************************************)
EXTENDS Sums, FiniteSetsExt, WellFoundedInduction, TLAPS

(* Every inhabited set of naturals has a least element. *)
LEMMA LeastNat ==
  ASSUME NEW T \in SUBSET Nat, T # {}
  PROVE  \E m \in T : \A k \in T : m <= k
<1>1. IsWellFoundedOn(OpToRel(<, Nat), Nat)
  BY NatLessThanWellFounded
<1>2. PICK x \in T : \A y \in T : ~ (<<y, x>> \in OpToRel(<, Nat))
  BY <1>1, WFMin
<1>3. \A y \in T : ~(y < x)
  BY <1>2 DEF OpToRel
<1> QED BY <1>3

(* The least and the greatest of a set of naturals, if it has one. *)
LEMMA MinOfNats ==
  ASSUME NEW T \in SUBSET Nat, T # {}
  PROVE  Min(T) \in T /\ \A k \in T : Min(T) <= k
BY LeastNat DEF Min

LEMMA MaxOfBounded ==
  ASSUME NEW b \in Nat, NEW T \in SUBSET (0..b), T # {}
  PROVE  Max(T) \in T /\ \A k \in T : k <= Max(T)
<1> DEFINE R == {b - x : x \in T}
<1>1. R \in SUBSET Nat /\ R # {}
  <2>1. \A x \in T : b - x \in Nat
    OBVIOUS
  <2>2. PICK x \in T : TRUE
    OBVIOUS
  <2>3. b - x \in R
    OBVIOUS
  <2> QED BY <2>1, <2>3
<1>2. PICK m \in R : \A k \in R : m <= k
  BY <1>1, LeastNat
<1>3. PICK x \in T : m = b - x
  BY <1>2
<1>4. \A k \in T : k <= x
  <2> SUFFICES ASSUME NEW k \in T PROVE k <= x
    OBVIOUS
  <2>1. b - k \in R
    OBVIOUS
  <2>2. b - x <= b - k
    BY <1>2, <1>3, <2>1
  <2> QED BY <2>2
<1> QED BY <1>4 DEF Max

(* A set that holds 0 and the successor of each of its members below n     *)
(* holds 0..n.                                                             *)
LEMMA RangeInduction ==
  ASSUME NEW n \in Nat, NEW T,
         0 \in T,
         \A m \in 0..n : m < n /\ m \in T => m + 1 \in T
  PROVE  \A m \in 0..n : m \in T
<1> DEFINE Missing == {m \in 0..n : m \notin T}
<1> SUFFICES ASSUME Missing # {} PROVE FALSE
  OBVIOUS
<1>1. PICK m \in Missing : \A k \in Missing : m <= k
  <2>1. Missing \in SUBSET Nat
    OBVIOUS
  <2> QED BY <2>1, LeastNat
<1>2. m # 0 /\ m - 1 \in 0..n /\ m - 1 < n
  OBVIOUS
<1>3. m - 1 \in T
  BY <1>1, <1>2
<1>4. m \in T
  BY <1>2, <1>3
<1> QED BY <1>1, <1>4
-----------------------------------------------------------------------------
PartialSums(g, n, f) == g = [i \in 0..n |-> IF i = 0 THEN 0 ELSE g[i - 1] + f[i]]

(* The recursive function of SumTo exists. *)
LEMMA PartialSumsExist ==
  ASSUME NEW n \in Nat, NEW f, \A i \in 1..n : f[i] \in Int
  PROVE  \E g \in [0..n -> Int] : PartialSums(g, n, f)
<1> DEFINE T == {m \in 0..n : \E g \in [0..m -> Int] : PartialSums(g, m, f)}
<1>1. 0 \in T
  <2> DEFINE g == [i \in 0..0 |-> 0]
  <2>1. g \in [0..0 -> Int] /\ PartialSums(g, 0, f)
    BY DEF PartialSums
  <2> QED BY <2>1
<1>2. \A m \in 0..n : m < n /\ m \in T => m + 1 \in T
  <2> SUFFICES ASSUME NEW m \in 0..n, m < n, m \in T PROVE m + 1 \in T
    OBVIOUS
  <2>1. PICK g \in [0..m -> Int] : PartialSums(g, m, f)
    OBVIOUS
  <2> DEFINE h == [i \in 0..(m + 1) |-> IF i = m + 1 THEN g[m] + f[m + 1] ELSE g[i]]
  <2>2. f[m + 1] \in Int
    OBVIOUS
  <2>3. h \in [0..(m + 1) -> Int]
    BY <2>2
  <2>4. \A i \in 0..(m + 1) : h[i] = IF i = 0 THEN 0 ELSE h[i - 1] + f[i]
    BY <2>1 DEF PartialSums
  <2>5. PartialSums(h, m + 1, f)
    BY <2>3, <2>4 DEF PartialSums
  <2> QED BY <2>3, <2>5
<1> HIDE DEF T
<1>3. n \in T
  BY <1>1, <1>2, RangeInduction
<1> QED BY <1>3 DEF T

(* What the sum is computed by: partial sums that start at 0. *)
LEMMA SumToPartial ==
  ASSUME NEW n \in Nat, NEW f, \A i \in 1..n : f[i] \in Int
  PROVE  \E g \in [0..n -> Int] :
            /\ g[0] = 0
            /\ \A i \in 1..n : g[i] = g[i - 1] + f[i]
            /\ SumTo(n, f) = g[n]
<1> DEFINE s == CHOOSE g : g = [i \in 0..n |-> IF i = 0 THEN 0 ELSE g[i - 1] + f[i]]
<1>1. PICK g0 \in [0..n -> Int] : PartialSums(g0, n, f)
  BY PartialSumsExist
<1>2. s = [i \in 0..n |-> IF i = 0 THEN 0 ELSE s[i - 1] + f[i]]
  BY <1>1 DEF PartialSums
<1>3. SumTo(n, f) = s[n]
  BY DEF SumTo
<1> HIDE DEF s
<1>4. s[0] = 0 /\ \A i \in 1..n : s[i] = s[i - 1] + f[i]
  BY <1>2
<1> DEFINE T == {m \in 0..n : s[m] \in Int}
<1>5. \A m \in 0..n : m \in T
  <2>1. 0 \in T
    BY <1>4
  <2>2. \A m \in 0..n : m < n /\ m \in T => m + 1 \in T
    <3> SUFFICES ASSUME NEW m \in 0..n, m < n, m \in T PROVE m + 1 \in T
      OBVIOUS
    <3>1. m + 1 \in 1..n /\ (m + 1) - 1 = m
      OBVIOUS
    <3>2. s[m + 1] = s[m] + f[m + 1] /\ f[m + 1] \in Int
      BY <1>4, <3>1
    <3> QED BY <3>1, <3>2
  <2> HIDE DEF T
  <2> QED BY <2>1, <2>2, RangeInduction
<1>6. s \in [0..n -> Int]
  BY <1>2, <1>5
<1> QED BY <1>3, <1>4, <1>6
-----------------------------------------------------------------------------
(* A sum of integers is an integer, one of naturals a natural. *)
LEMMA SumToInt ==
  ASSUME NEW n \in Nat, NEW f, \A i \in 1..n : f[i] \in Int
  PROVE  SumTo(n, f) \in Int
BY SumToPartial

LEMMA SumToLeq ==
  ASSUME NEW n \in Nat, NEW f, NEW h,
         \A i \in 1..n : f[i] \in Int /\ h[i] \in Int /\ f[i] <= h[i]
  PROVE  SumTo(n, f) <= SumTo(n, h)
<1>1. PICK a \in [0..n -> Int] : /\ a[0] = 0
                                 /\ \A i \in 1..n : a[i] = a[i - 1] + f[i]
                                 /\ SumTo(n, f) = a[n]
  BY SumToPartial
<1>2. PICK b \in [0..n -> Int] : /\ b[0] = 0
                                 /\ \A i \in 1..n : b[i] = b[i - 1] + h[i]
                                 /\ SumTo(n, h) = b[n]
  BY SumToPartial
<1> DEFINE T == {m \in 0..n : a[m] <= b[m]}
<1>3. 0 \in T
  BY <1>1, <1>2
<1>4. \A m \in 0..n : m < n /\ m \in T => m + 1 \in T
  <2> SUFFICES ASSUME NEW m \in 0..n, m < n, m \in T PROVE m + 1 \in T
    OBVIOUS
  <2>1. m + 1 \in 1..n /\ (m + 1) - 1 = m
    OBVIOUS
  <2>2. a[m + 1] = a[m] + f[m + 1] /\ b[m + 1] = b[m] + h[m + 1]
    BY <1>1, <1>2, <2>1
  <2>3. f[m + 1] <= h[m + 1] /\ f[m + 1] \in Int /\ h[m + 1] \in Int
    BY <2>1
  <2> QED BY <2>1, <2>2, <2>3
<1> HIDE DEF T
<1>5. \A m \in 0..n : m \in T
  BY <1>3, <1>4, RangeInduction
<1>6. n \in T
  BY <1>5
<1> QED BY <1>1, <1>2, <1>6 DEF T

(* Sums that differ in one entry differ by what that entry changed by. *)
LEMMA SumToChange ==
  ASSUME NEW n \in Nat, NEW f, NEW h, NEW j \in 1..n,
         \A i \in 1..n : f[i] \in Int /\ h[i] \in Int,
         \A i \in 1..n : i # j => h[i] = f[i]
  PROVE  SumTo(n, h) = SumTo(n, f) + h[j] - f[j]
<1>1. PICK a \in [0..n -> Int] : /\ a[0] = 0
                                 /\ \A i \in 1..n : a[i] = a[i - 1] + f[i]
                                 /\ SumTo(n, f) = a[n]
  BY SumToPartial
<1>2. PICK b \in [0..n -> Int] : /\ b[0] = 0
                                 /\ \A i \in 1..n : b[i] = b[i - 1] + h[i]
                                 /\ SumTo(n, h) = b[n]
  BY SumToPartial
<1> DEFINE T == {m \in 0..n : b[m] = a[m] + (IF m < j THEN 0 ELSE h[j] - f[j])}
<1>3. 0 \in T
  BY <1>1, <1>2
<1>4. \A m \in 0..n : m < n /\ m \in T => m + 1 \in T
  <2> SUFFICES ASSUME NEW m \in 0..n, m < n, m \in T PROVE m + 1 \in T
    OBVIOUS
  <2>1. m + 1 \in 1..n /\ (m + 1) - 1 = m
    OBVIOUS
  <2>2. a[m + 1] = a[m] + f[m + 1] /\ b[m + 1] = b[m] + h[m + 1]
    BY <1>1, <1>2, <2>1
  <2>3. CASE m + 1 = j
    <3>1. ~(m < j) => FALSE
      BY <2>3
    <3>2. a[m] \in Int /\ b[m] \in Int /\ f[m + 1] \in Int /\ h[m + 1] \in Int
      BY <2>1
    <3>3. b[m] = a[m]
      BY <3>1
    <3>4. b[m + 1] = a[m + 1] + h[j] - f[j]
      <4>1. b[m + 1] = a[m] + h[m + 1] /\ a[m + 1] = a[m] + f[m + 1]
        BY <2>2, <3>3
      <4>2. b[m + 1] = a[m + 1] + h[m + 1] - f[m + 1]
        <5> HIDE DEF T
        <5> QED BY <4>1, <3>2
      <4> QED BY <4>2, <2>3
    <3> QED BY <2>1, <2>3, <3>4
  <2>4. CASE m + 1 # j
    <3>1. h[m + 1] = f[m + 1]
      BY <2>1, <2>4
    <3>2. (m < j) <=> (m + 1 < j)
      BY <2>4
    <3>3. a[m] \in Int /\ b[m] \in Int /\ f[m + 1] \in Int
      BY <2>1
    <3>4. b[m + 1] = a[m + 1] + (IF m < j THEN 0 ELSE h[j] - f[j])
      <4>1. b[m] = a[m] + (IF m < j THEN 0 ELSE h[j] - f[j])
        OBVIOUS
      <4> DEFINE d == IF m < j THEN 0 ELSE h[j] - f[j]
      <4>2. d \in Int
        OBVIOUS
      <4>3. b[m] = a[m] + d
        BY <4>1
      <4> HIDE DEF d
      <4>4. b[m + 1] = a[m] + d + f[m + 1] /\ a[m + 1] = a[m] + f[m + 1]
        BY <2>2, <3>1, <4>3
      <4>5. b[m + 1] = a[m + 1] + d
        <5> HIDE DEF T
        <5> QED BY <3>3, <4>2, <4>4
      <4> QED BY <4>5 DEF d
    <3>5. b[m + 1] = a[m + 1] + (IF m + 1 < j THEN 0 ELSE h[j] - f[j])
      BY <3>2, <3>4
    <3> QED BY <2>1, <3>5
  <2> QED BY <2>3, <2>4
<1> HIDE DEF T
<1>5. \A m \in 0..n : m \in T
  BY <1>3, <1>4, RangeInduction
<1>6. n \in T
  BY <1>5
<1> QED BY <1>1, <1>2, <1>6 DEF T

(* A sum depends on its entries only. *)
LEMMA SumToSame ==
  ASSUME NEW n \in Nat, NEW f, NEW h,
         \A i \in 1..n : f[i] \in Int /\ h[i] = f[i]
  PROVE  SumTo(n, h) = SumTo(n, f)
<1>1. SumTo(n, f) <= SumTo(n, h) /\ SumTo(n, h) <= SumTo(n, f)
  BY SumToLeq
<1>2. SumTo(n, f) \in Int /\ SumTo(n, h) \in Int
  BY SumToInt
<1> QED BY <1>1, <1>2

(* The sum of two sums, and of multiples. *)
LEMMA SumToPlus ==
  ASSUME NEW n \in Nat, NEW f, NEW h, NEW k,
         \A i \in 1..n : f[i] \in Int /\ h[i] \in Int /\ k[i] = f[i] + h[i]
  PROVE  SumTo(n, k) = SumTo(n, f) + SumTo(n, h)
<1>1. PICK a \in [0..n -> Int] : /\ a[0] = 0
                                 /\ \A i \in 1..n : a[i] = a[i - 1] + f[i]
                                 /\ SumTo(n, f) = a[n]
  BY SumToPartial
<1>2. PICK b \in [0..n -> Int] : /\ b[0] = 0
                                 /\ \A i \in 1..n : b[i] = b[i - 1] + h[i]
                                 /\ SumTo(n, h) = b[n]
  BY SumToPartial
<1>3. PICK c \in [0..n -> Int] : /\ c[0] = 0
                                 /\ \A i \in 1..n : c[i] = c[i - 1] + k[i]
                                 /\ SumTo(n, k) = c[n]
  <2>1. \A i \in 1..n : k[i] \in Int
    OBVIOUS
  <2> QED BY <2>1, SumToPartial
<1> DEFINE T == {m \in 0..n : c[m] = a[m] + b[m]}
<1>4. 0 \in T
  BY <1>1, <1>2, <1>3
<1>5. \A m \in 0..n : m < n /\ m \in T => m + 1 \in T
  <2> SUFFICES ASSUME NEW m \in 0..n, m < n, m \in T PROVE m + 1 \in T
    OBVIOUS
  <2>1. m + 1 \in 1..n /\ (m + 1) - 1 = m
    OBVIOUS
  <2>2. /\ a[m + 1] = a[m] + f[m + 1] /\ b[m + 1] = b[m] + h[m + 1]
        /\ c[m + 1] = c[m] + k[m + 1]
    BY <1>1, <1>2, <1>3, <2>1
  <2>3. f[m + 1] \in Int /\ h[m + 1] \in Int /\ k[m + 1] = f[m + 1] + h[m + 1]
    BY <2>1
  <2>4. c[m] = a[m] + b[m] /\ a[m] \in Int /\ b[m] \in Int
    OBVIOUS
  <2>5. c[m + 1] = a[m + 1] + b[m + 1]
    <3> HIDE DEF T
    <3>1. c[m + 1] = (a[m] + b[m]) + (f[m + 1] + h[m + 1])
      BY <2>2, <2>3, <2>4
    <3> DEFINE x == a[m]
               y == b[m]
               u == f[m + 1]
               v == h[m + 1]
    <3>2. x \in Int /\ y \in Int /\ u \in Int /\ v \in Int
      BY <2>3, <2>4
    <3>3. a[m + 1] = x + u /\ b[m + 1] = y + v /\ c[m + 1] = (x + y) + (u + v)
      BY <2>2, <3>1
    <3> HIDE DEF x, y, u, v
    <3>4. (x + y) + (u + v) = (x + u) + (y + v)
      BY <3>2
    <3> QED BY <3>3, <3>4
  <2> QED BY <2>1, <2>5
<1> HIDE DEF T
<1>6. \A m \in 0..n : m \in T
  BY <1>4, <1>5, RangeInduction
<1>7. n \in T
  BY <1>6
<1> QED BY <1>1, <1>2, <1>3, <1>7 DEF T

LEMMA SumToTimes ==
  ASSUME NEW n \in Nat, NEW c \in Int, NEW f, NEW h,
         \A i \in 1..n : f[i] \in Int /\ h[i] = c * f[i]
  PROVE  SumTo(n, h) = c * SumTo(n, f)
<1>0. \A i \in 1..n : h[i] \in Int
  OBVIOUS
<1>1. PICK a \in [0..n -> Int] : /\ a[0] = 0
                                 /\ \A i \in 1..n : a[i] = a[i - 1] + f[i]
                                 /\ SumTo(n, f) = a[n]
  BY SumToPartial
<1>2. PICK b \in [0..n -> Int] : /\ b[0] = 0
                                 /\ \A i \in 1..n : b[i] = b[i - 1] + h[i]
                                 /\ SumTo(n, h) = b[n]
  BY <1>0, SumToPartial
<1> DEFINE T == {m \in 0..n : b[m] = c * a[m]}
<1>4. 0 \in T
  BY <1>1, <1>2
<1>5. \A m \in 0..n : m < n /\ m \in T => m + 1 \in T
  <2> SUFFICES ASSUME NEW m \in 0..n, m < n, m \in T PROVE m + 1 \in T
    OBVIOUS
  <2>1. m + 1 \in 1..n /\ (m + 1) - 1 = m
    OBVIOUS
  <2>2. a[m + 1] = a[m] + f[m + 1] /\ b[m + 1] = b[m] + h[m + 1]
    BY <1>1, <1>2, <2>1
  <2>3. f[m + 1] \in Int /\ h[m + 1] = c * f[m + 1]
    BY <2>1
  <2>4. b[m] = c * a[m] /\ a[m] \in Int
    OBVIOUS
  <2>5. b[m + 1] = c * a[m + 1]
    <3> HIDE DEF T
    <3> DEFINE x == a[m]
               y == f[m + 1]
    <3>1. x \in Int /\ y \in Int /\ a[m + 1] = x + y /\ b[m + 1] = c * x + c * y
      BY <2>2, <2>3, <2>4
    <3> HIDE DEF x, y
    <3>2. c * (x + y) = c * x + c * y
      BY <3>1
    <3> QED BY <3>1, <3>2
  <2> QED BY <2>1, <2>5
<1> HIDE DEF T
<1>6. \A m \in 0..n : m \in T
  BY <1>4, <1>5, RangeInduction
<1>7. n \in T
  BY <1>6
<1> QED BY <1>1, <1>2, <1>7 DEF T

(* The last term of a sum. *)
LEMMA SumToNext ==
  ASSUME NEW n \in Nat, NEW f, \A i \in 1..(n + 1) : f[i] \in Int
  PROVE  SumTo(n + 1, f) = SumTo(n, f) + f[n + 1]
<1>1. PICK a \in [0..n -> Int] : /\ a[0] = 0
                                 /\ \A i \in 1..n : a[i] = a[i - 1] + f[i]
                                 /\ SumTo(n, f) = a[n]
  <2>1. \A i \in 1..n : f[i] \in Int
    OBVIOUS
  <2> QED BY <2>1, SumToPartial
<1>2. PICK b \in [0..(n + 1) -> Int] : /\ b[0] = 0
                                       /\ \A i \in 1..(n + 1) : b[i] = b[i - 1] + f[i]
                                       /\ SumTo(n + 1, f) = b[n + 1]
  <2>1. n + 1 \in Nat
    OBVIOUS
  <2> QED BY <2>1, SumToPartial
<1> DEFINE T == {m \in 0..n : b[m] = a[m]}
<1>3. 0 \in T
  BY <1>1, <1>2
<1>4. \A m \in 0..n : m < n /\ m \in T => m + 1 \in T
  <2> SUFFICES ASSUME NEW m \in 0..n, m < n, m \in T PROVE m + 1 \in T
    OBVIOUS
  <2>1. m + 1 \in 1..n /\ m + 1 \in 1..(n + 1) /\ (m + 1) - 1 = m
    OBVIOUS
  <2>2. a[m + 1] = a[m] + f[m + 1] /\ b[m + 1] = b[m] + f[m + 1]
    BY <1>1, <1>2, <2>1
  <2> QED BY <2>1, <2>2
<1> HIDE DEF T
<1>5. \A m \in 0..n : m \in T
  BY <1>3, <1>4, RangeInduction
<1>6. n \in T
  BY <1>5
<1>7. b[n] = a[n]
  BY <1>6 DEF T
<1>8. b[n + 1] = b[n] + f[n + 1]
  <2>1. n + 1 \in 1..(n + 1) /\ (n + 1) - 1 = n
    OBVIOUS
  <2> QED BY <1>2, <2>1
<1> QED BY <1>1, <1>2, <1>7, <1>8

LEMMA SumToZero ==
  ASSUME NEW n \in Nat
  PROVE  SumTo(n, [i \in 1..n |-> 0]) = 0
<1> DEFINE z == [i \in 1..n |-> 0]
<1>0. \A i \in 1..n : z[i] = 0
  OBVIOUS
<1> HIDE DEF z
<1>1. PICK a \in [0..n -> Int] : /\ a[0] = 0
                                 /\ \A i \in 1..n : a[i] = a[i - 1] + z[i]
                                 /\ SumTo(n, z) = a[n]
  <2>1. \A i \in 1..n : z[i] \in Int
    BY <1>0
  <2> QED BY <2>1, SumToPartial
<1> DEFINE T == {m \in 0..n : a[m] = 0}
<1>2. 0 \in T /\ \A m \in 0..n : m < n /\ m \in T => m + 1 \in T
  BY <1>0, <1>1
<1> HIDE DEF T
<1>3. \A m \in 0..n : m \in T
  BY <1>2, RangeInduction
<1>4. n \in T
  BY <1>3
<1> QED BY <1>1, <1>4 DEF T, z

LEMMA SumToNat ==
  ASSUME NEW n \in Nat, NEW f, \A i \in 1..n : f[i] \in Nat
  PROVE  SumTo(n, f) \in Nat
<1> DEFINE z == [i \in 1..n |-> 0]
<1>1. SumTo(n, z) <= SumTo(n, f)
  BY SumToLeq
<1> QED BY <1>1, SumToZero, SumToInt

(* No term is larger than a sum of naturals. *)
LEMMA SumToTerm ==
  ASSUME NEW n \in Nat, NEW f, NEW j \in 1..n, \A i \in 1..n : f[i] \in Nat
  PROVE  f[j] <= SumTo(n, f)
<1> DEFINE z == [i \in 1..n |-> IF i = j THEN 0 ELSE f[i]]
<1>1. z[j] = 0 /\ \A i \in 1..n : z[i] \in Nat /\ (i # j => f[i] = z[i])
  OBVIOUS
<1> HIDE DEF z
<1>2. SumTo(n, f) = SumTo(n, z) + f[j] - z[j]
  <2>1. \A i \in 1..n : z[i] \in Int /\ f[i] \in Int
    BY <1>1
  <2>2. \A i \in 1..n : i # j => f[i] = z[i]
    BY <1>1
  <2> QED BY <2>1, <2>2, SumToChange
<1>3. SumTo(n, z) \in Nat
  BY <1>1, SumToNat
<1> QED BY <1>1, <1>2, <1>3

LEMMA SumInNat ==
  ASSUME NEW n \in Nat, NEW S, NEW f, \A i \in 1..n : i \in S => f[i] \in Nat
  PROVE  SumIn(S, n, f) \in Nat
<1> DEFINE g == [i \in 1..n |-> IF i \in S THEN f[i] ELSE 0]
<1>1. SumTo(n, g) \in Nat
  BY SumToNat
<1> QED BY <1>1 DEF SumIn

(* Sums over a set depend on the entries in it only, and split into those  *)
(* over a subset and over the rest.                                        *)
LEMMA SumInSame ==
  ASSUME NEW n \in Nat, NEW S, NEW f, NEW h, \A i \in 1..n : i \in S => f[i] \in Int /\ h[i] = f[i]
  PROVE  SumIn(S, n, h) = SumIn(S, n, f)
<1> DEFINE a == [i \in 1..n |-> IF i \in S THEN f[i] ELSE 0]
           b == [i \in 1..n |-> IF i \in S THEN h[i] ELSE 0]
<1>1. \A i \in 1..n : a[i] \in Int /\ b[i] = a[i]
  OBVIOUS
<1> HIDE DEF a, b
<1>2. SumTo(n, b) = SumTo(n, a)
  BY <1>1, SumToSame
<1> QED BY <1>2 DEF SumIn, a, b

LEMMA SumInSplit ==
  ASSUME NEW n \in Nat, NEW S, NEW D, D \subseteq S, NEW f, \A i \in 1..n : i \in S => f[i] \in Int
  PROVE  SumIn(S, n, f) = SumIn(S \ D, n, f) + SumIn(D, n, f)
<1> DEFINE a == [i \in 1..n |-> IF i \in S \ D THEN f[i] ELSE 0]
           b == [i \in 1..n |-> IF i \in D THEN f[i] ELSE 0]
           c == [i \in 1..n |-> IF i \in S THEN f[i] ELSE 0]
<1>1. \A i \in 1..n : a[i] \in Int /\ b[i] \in Int /\ c[i] = a[i] + b[i]
  OBVIOUS
<1> HIDE DEF a, b, c
<1>2. SumTo(n, c) = SumTo(n, a) + SumTo(n, b)
  BY <1>1, SumToPlus
<1> QED BY <1>2 DEF SumIn, a, b, c

(* Shares of an amount, each rounded down, are together no more than it.   *)
LEMMA SharesWithin ==
  ASSUME NEW n \in Nat, NEW f, NEW h, NEW c \in Nat, \A i \in 1..n : f[i] \in Nat,
         SumTo(n, f) > 0,
         \A i \in 1..n : h[i] = (c * f[i]) \div SumTo(n, f)
  PROVE  SumTo(n, h) <= c
<1> DEFINE T == SumTo(n, f)
           whole == [i \in 1..n |-> T * h[i]]
           exact == [i \in 1..n |-> c * f[i]]
<1>1. T \in Nat /\ T > 0
  BY SumToNat
<1> HIDE DEF T
<1>2. \A i \in 1..n : h[i] \in Int /\ T * h[i] <= c * f[i]
  <2> SUFFICES ASSUME NEW i \in 1..n PROVE h[i] \in Int /\ T * h[i] <= c * f[i]
    OBVIOUS
  <2> DEFINE x == c * f[i]
  <2>1. x \in Nat
    OBVIOUS
  <2>2. h[i] = x \div T
    BY DEF T
  <2> HIDE DEF x
  <2>3. x \div T \in Int /\ T * (x \div T) <= x
    BY <1>1, <2>1
  <2> QED BY <2>2, <2>3 DEF x
<1>3. \A i \in 1..n : /\ whole[i] \in Int /\ whole[i] = T * h[i]
                       /\ exact[i] \in Int /\ exact[i] = c * f[i] /\ whole[i] <= exact[i]
  BY <1>1, <1>2
<1> HIDE DEF whole, exact
<1>4. SumTo(n, whole) = T * SumTo(n, h)
  BY <1>1, <1>2, <1>3, SumToTimes
<1>5. SumTo(n, exact) = c * T
  <2>1. \A i \in 1..n : f[i] \in Int /\ exact[i] = c * f[i]
    BY <1>3
  <2>2. SumTo(n, exact) = c * SumTo(n, f)
    BY <2>1, SumToTimes
  <2> QED BY <2>2 DEF T
<1>6. SumTo(n, whole) <= SumTo(n, exact)
  BY <1>3, SumToLeq
<1>7. SumTo(n, h) \in Int
  BY <1>2, SumToInt
<1> DEFINE s == SumTo(n, h)
<1> HIDE DEF s
<1>8. T * s <= c * T /\ s \in Int
  BY <1>4, <1>5, <1>6, <1>7 DEF s
<1>9. s <= c
  <2> SUFFICES ASSUME s >= c + 1 PROVE FALSE
    BY <1>8
  <2>1. T * s >= T * (c + 1)
    BY <1>1, <1>8
  <2>2. T * (c + 1) = c * T + T
    BY <1>1
  <2> QED BY <1>1, <1>8, <2>1, <2>2
<1> QED BY <1>9 DEF s

LEMMA SumInOne ==
  ASSUME NEW n \in Nat, NEW j \in 1..n, NEW f, f[j] \in Int
  PROVE  SumIn({j}, n, f) = f[j]
<1> DEFINE z == [i \in 1..n |-> 0]
           a == [i \in 1..n |-> IF i \in {j} THEN f[i] ELSE 0]
<1>1. /\ \A i \in 1..n : z[i] \in Int /\ a[i] \in Int
      /\ \A i \in 1..n : i # j => a[i] = z[i]
      /\ z[j] = 0 /\ a[j] = f[j]
  OBVIOUS
<1>2. SumTo(n, z) = 0
  BY SumToZero
<1> HIDE DEF z, a
<1>3. SumTo(n, a) = SumTo(n, z) + a[j] - z[j]
  BY <1>1, SumToChange
<1> QED BY <1>1, <1>2, <1>3 DEF SumIn, a

LEMMA SumInAdd ==
  ASSUME NEW n \in Nat, NEW S, NEW j \in 1..n, j \notin S, NEW U, U = S \cup {j}, NEW f,
         \A i \in 1..n : i \in U => f[i] \in Int
  PROVE  SumIn(U, n, f) = SumIn(S, n, f) + f[j]
<1>1. {j} \subseteq U /\ U \ {j} = S
  OBVIOUS
<1>2. SumIn(U, n, f) = SumIn(U \ {j}, n, f) + SumIn({j}, n, f)
  BY <1>1, SumInSplit
<1>3. SumIn({j}, n, f) = f[j]
  BY SumInOne
<1> QED BY <1>1, <1>2, <1>3

LEMMA SumInNone ==
  ASSUME NEW n \in Nat, NEW f
  PROVE  SumIn({}, n, f) = 0
<1>1. [i \in 1..n |-> IF i \in {} THEN f[i] ELSE 0] = [i \in 1..n |-> 0]
  OBVIOUS
<1> QED BY <1>1, SumToZero DEF SumIn

(* The sequence q lists the elements of S, numbers up to N, once each. *)
Enumerates(q, n, S, N) ==
  /\ n \in Nat /\ q \in [1..n -> 1..N]
  /\ \A i, j \in 1..n : q[i] = q[j] => i = j
  /\ S = {q[i] : i \in 1..n}

(* A sum over a set is the sum over any enumeration of the set. *)
LEMMA SumInEnumerated ==
  ASSUME NEW N \in Nat, NEW n, NEW q, NEW S, Enumerates(q, n, S, N),
         NEW f, NEW h, \A i \in 1..n : f[q[i]] \in Int /\ h[i] = f[q[i]]
  PROVE  SumIn(S, N, f) = SumTo(n, h)
<1> DEFINE R(m) == {q[i] : i \in 1..m}
           T == {m \in 0..n : SumIn(R(m), N, f) = SumTo(m, h)}
<1>0. /\ n \in Nat /\ q \in [1..n -> 1..N]
      /\ \A i, j \in 1..n : q[i] = q[j] => i = j
  BY DEF Enumerates
<1>1. 0 \in T
  <2>1. R(0) = {}
    OBVIOUS
  <2>2. SumTo(0, h) = 0
    <3>1. \A i \in 1..0 : h[i] \in Int
      OBVIOUS
    <3> QED BY <3>1, SumToPartial
  <2>3. SumIn(R(0), N, f) = 0
    BY <2>1, SumInNone
  <2> QED BY <1>0, <2>2, <2>3
<1>2. \A m \in 0..n : m < n /\ m \in T => m + 1 \in T
  <2> SUFFICES ASSUME NEW m \in 0..n, m < n, m \in T PROVE m + 1 \in T
    OBVIOUS
  <2>1. m \in Nat /\ m + 1 \in 1..n /\ m + 1 \in 0..n
    BY <1>0
  <2>2. R(m + 1) = R(m) \cup {q[m + 1]}
    <3>1. 1..(m + 1) = (1..m) \cup {m + 1}
      BY <2>1
    <3> QED BY <3>1
  <2>3. q[m + 1] \in 1..N /\ q[m + 1] \notin R(m)
    <3>1. \A i \in 1..m : i \in 1..n /\ i # m + 1
      BY <1>0, <2>1
    <3> QED BY <1>0, <2>1, <3>1
  <2>4. \A i \in R(m + 1) : f[i] \in Int
    <3>1. \A i \in 1..(m + 1) : i \in 1..n
      BY <1>0, <2>1
    <3> QED BY <3>1
  <2>5. SumIn(R(m), N, f) = SumTo(m, h)
    OBVIOUS
  <2>6. \A i \in 1..(m + 1) : h[i] \in Int
    <3>1. \A i \in 1..(m + 1) : i \in 1..n
      BY <1>0, <2>1
    <3> QED BY <3>1
  <2>7. f[q[m + 1]] = h[m + 1]
    BY <2>1
  <2>8. SumIn(R(m + 1), N, f) = SumIn(R(m), N, f) + f[q[m + 1]]
    <3> DEFINE A == R(m)
               B == R(m + 1)
               j == q[m + 1]
    <3>1. N \in Nat /\ j \in 1..N /\ j \notin A /\ B = A \cup {j}
      BY <2>2, <2>3
    <3>2. \A i \in 1..N : i \in B => f[i] \in Int
      BY <2>4
    <3> HIDE DEF A, B, j
    <3>3. SumIn(B, N, f) = SumIn(A, N, f) + f[j]
      BY ONLY <3>1, <3>2, SumInAdd
    <3> QED BY <3>3 DEF A, B, j
  <2> HIDE DEF R, T
  <2>9. SumTo(m + 1, h) = SumTo(m, h) + h[m + 1]
    BY <2>1, <2>6, SumToNext
  <2>10. SumIn(R(m + 1), N, f) = SumTo(m + 1, h)
    BY <2>5, <2>7, <2>8, <2>9
  <2> QED BY <2>1, <2>10 DEF T
<1> HIDE DEF T
<1>3. \A m \in 0..n : m \in T
  BY <1>0, <1>1, <1>2, RangeInduction
<1>4. n \in T
  BY <1>0, <1>3
<1>5. S = R(n)
  BY DEF Enumerates
<1> HIDE DEF R
<1> QED BY <1>4, <1>5 DEF T
-----------------------------------------------------------------------------
(* Rounding down.                                                          *)

LEMMA DivBounds ==
  ASSUME NEW x \in Int, NEW y \in Nat \ {0}
  PROVE  /\ x \div y \in Int
         /\ (x \div y) * y <= x
         /\ x < (x \div y) * y + y
BY SMT

LEMMA Cancel ==
  ASSUME NEW a \in Int, NEW b \in Int, NEW c \in Nat \ {0}, a * c <= b * c
  PROVE  a <= b
BY SMT

LEMMA CancelLess ==
  ASSUME NEW a \in Int, NEW b \in Int, NEW c \in Nat \ {0}, a * c < b * c
  PROVE  a < b
BY SMT

LEMMA Scaled ==
  ASSUME NEW a \in Int, NEW b \in Int, NEW c \in Nat, a <= b
  PROVE  a * c <= b * c
BY SMT

LEMMA DivNat ==
  ASSUME NEW x \in Nat, NEW y \in Nat \ {0}
  PROVE  x \div y \in Nat
<1>1. x \div y \in Int /\ x < (x \div y) * y + y
  BY DivBounds
<1> DEFINE q == x \div y
<1>2. 0 * y < (q + 1) * y
  <2> HIDE DEF q
  <2>1. (q + 1) * y = q * y + y
    BY <1>1 DEF q
  <2> QED BY <2>1, <1>1 DEF q
<1>3. 0 < q + 1
  BY <1>1, <1>2, CancelLess
<1> QED BY <1>1, <1>3
-----------------------------------------------------------------------------
(* Remainders. *)
LEMMA ModBounds ==
  ASSUME NEW x \in Int, NEW c \in Nat \ {0}
  PROVE  /\ x % c \in 0..(c - 1) /\ x \div c \in Int
         /\ x = c * (x \div c) + (x % c)
BY SMT

LEMMA ModUnique ==
  ASSUME NEW c \in Nat \ {0}, NEW a \in Int, NEW b \in Int,
         NEW r \in 0..(c - 1), NEW s \in 0..(c - 1), c * a + r = c * b + s
  PROVE  a = b /\ r = s
<1>1. ASSUME NEW x \in Int, NEW y \in Int, x < y, NEW t \in 0..(c - 1), NEW u \in 0..(c - 1)
      PROVE  c * x + t # c * y + u
  <2>1. (x + 1) * c <= y * c
    BY <1>1, Scaled
  <2>2. (x + 1) * c = c * x + c /\ y * c = c * y /\ c * x \in Int /\ c * y \in Int
    BY <1>1
  <2> QED BY <1>1, <2>1, <2>2
<1>2. ~(a < b) /\ ~(b < a)
  BY <1>1
<1> QED BY <1>2

LEMMA ModIs ==
  ASSUME NEW c \in Nat \ {0}, NEW k \in Int, NEW r \in 0..(c - 1), NEW x \in Int, x = c * k + r
  PROVE  x % c = r
<1>1. x % c \in 0..(c - 1) /\ x \div c \in Int /\ x = c * (x \div c) + (x % c)
  BY ModBounds
<1> DEFINE a == x \div c
           s == x % c
<1>2. c * a + s = c * k + r
  BY <1>1
<1> HIDE DEF a, s
<1>3. a \in Int /\ s \in 0..(c - 1)
  BY <1>1 DEF a, s
<1>4. s = r
  BY <1>2, <1>3, ModUnique
<1> QED BY <1>4 DEF s

(* One round more, and steps from one or the other. *)
LEMMA ModRound ==
  ASSUME NEW c \in Nat \ {0}, NEW x \in Int, NEW y \in Int, y = x + c
  PROVE  y % c = x % c
<1> DEFINE a == x \div c
           r == x % c
<1>1. a \in Int /\ r \in 0..(c - 1) /\ x = c * a + r
  BY ModBounds
<1> HIDE DEF a, r
<1>2. y = c * (a + 1) + r /\ a + 1 \in Int
  BY <1>1
<1>3. y % c = r
  BY <1>1, <1>2, ModIs
<1> QED BY <1>3 DEF r

(* Any number of rounds leave the remainder. *)
LEMMA ModShift ==
  ASSUME NEW c \in Nat \ {0}, NEW x \in Int, NEW k \in Int, NEW y, y = x + c * k
  PROVE  y % c = x % c
<1> DEFINE a == x \div c
           r == x % c
           b == a + k
<1>1. a \in Int /\ r \in 0..(c - 1) /\ x = c * a + r
  BY ModBounds
<1>2. y \in Int /\ b \in Int /\ y = c * b + r
  <2> HIDE DEF a, r
  <2>1. c * b = c * a + c * k /\ c * a \in Int /\ c * k \in Int /\ b \in Int
    BY <1>1
  <2> HIDE DEF b
  <2> QED BY <1>1, <2>1
<1> HIDE DEF a, r, b
<1>3. y % c = r
  BY <1>1, <1>2, ModIs
<1> QED BY <1>3 DEF r

(* A remainder may be taken first. *)
RemainderFirst(c, x, y) == ((x % c) + y) % c = (x + y) % c

LEMMA ModAdd ==
  ASSUME NEW c \in Nat \ {0}, NEW x \in Int, NEW y \in Int
  PROVE  RemainderFirst(c, x, y)
<1> DEFINE h == x % c
           z == h + y
           a == x \div c
           b == z \div c
           s == z % c
           d == a + b
           w == x + y
<1>1. a \in Int /\ h \in 0..(c - 1) /\ x = c * a + h
  BY ModBounds
<1> HIDE DEF a, h
<1>2. z \in Int
  BY <1>1
<1>3. b \in Int /\ s \in 0..(c - 1) /\ z = c * b + s
  BY <1>2, ModBounds
<1>4. w = c * d + s
  <2>1. x + y = c * a + z
    BY <1>1
  <2> HIDE DEF z, b, s
  <2>2. c * d = c * a + c * b /\ c * a \in Int /\ c * b \in Int
    BY <1>1, <1>3
  <2> HIDE DEF d
  <2> QED BY <1>3, <2>1, <2>2
<1>5. c \in Nat \ {0} /\ d \in Int /\ s \in 0..(c - 1) /\ w \in Int
  BY <1>1, <1>3
<1> HIDE DEF z, b, s, d, w
<1>6. w % c = s
  BY ONLY <1>4, <1>5, ModIs
<1> QED BY <1>6 DEF w, s, z, h, RemainderFirst

LEMMA ModSmall ==
  ASSUME NEW c \in Nat \ {0}, NEW x \in 0..(c - 1)
  PROVE  x % c = x
<1>1. x = c * 0 + x
  OBVIOUS
<1> QED BY <1>1, ModIs

(* Numbers that are less than c apart have different remainders. *)
LEMMA ModDiffers ==
  ASSUME NEW c \in Nat \ {0}, NEW x \in Int, NEW y \in Int, x < y, y < x + c
  PROVE  x % c # y % c
<1> DEFINE a == x \div c
           b == y \div c
           r == x % c
<1> SUFFICES ASSUME x % c = y % c PROVE FALSE
  OBVIOUS
<1>1. a \in Int /\ b \in Int /\ r \in 0..(c - 1) /\ x = c * a + r /\ y = c * b + r
  BY ModBounds
<1> HIDE DEF a, b, r
<1>2. c * a \in Int /\ c * b \in Int /\ c * a < c * b /\ c * b < c * a + c
  BY <1>1
<1>3. a * c < b * c /\ b * c < (a + 1) * c
  BY <1>1, <1>2
<1>4. a < b /\ b < a + 1
  BY <1>1, <1>3, CancelLess
<1> QED BY <1>1, <1>4
-----------------------------------------------------------------------------
(* The least of a set, and the greatest of a bounded one. *)
LEMMA MinIs ==
  ASSUME NEW T \in SUBSET Nat, NEW m \in T, \A k \in T : m <= k
  PROVE  Min(T) = m
<1> DEFINE n == Min(T)
<1>1. n \in T /\ n <= m
  BY MinOfNats
<1> HIDE DEF n
<1>2. n \in Nat /\ m \in Nat /\ m <= n
  BY <1>1
<1> QED BY <1>1, <1>2 DEF n

LEMMA MaxIs ==
  ASSUME NEW b \in Nat, NEW T \in SUBSET (0..b), NEW m \in T, \A k \in T : k <= m
  PROVE  Max(T) = m
<1> DEFINE n == Max(T)
<1>1. n \in T /\ m <= n
  BY MaxOfBounded
<1> HIDE DEF n
<1>2. n \in Nat /\ m \in Nat /\ n <= m
  BY <1>1
<1> QED BY <1>1, <1>2 DEF n

LEMMA DivGrows ==
  ASSUME NEW x \in Int, NEW y \in Int, NEW d \in Nat \ {0}, x <= y
  PROVE  x \div d <= y \div d
<1> DEFINE a == x \div d
           b == y \div d
<1>1. a \in Int /\ b \in Int /\ a * d <= x /\ y < b * d + d
  BY DivBounds
<1> HIDE DEF a, b
<1>2. (b + 1) * d = b * d + d /\ a * d \in Int /\ b * d \in Int /\ b + 1 \in Int
  BY <1>1
<1>3. a * d < (b + 1) * d
  <2> DEFINE ad == a * d
             bd == b * d
             q == (b + 1) * d
  <2>1. ad <= x /\ y < bd + d /\ q = bd + d /\ ad \in Int /\ bd \in Int
    BY <1>1, <1>2
  <2> HIDE DEF ad, bd, q
  <2>2. ad < q
    BY <2>1
  <2> QED BY <2>2 DEF ad, q
<1>4. a < b + 1
  BY <1>1, <1>2, <1>3, CancelLess
<1> QED BY <1>1, <1>4 DEF a, b

LEMMA Distribute ==
  ASSUME NEW a \in Int, NEW x \in Int, NEW y \in Int, NEW z \in Int
  PROVE  /\ a * (y - x) + a * (z - y) = a * (z - x)
         /\ a * (x + y) = a * x + a * y
         /\ (x + y) * a = x * a + y * a
         /\ (x + y) * (z - a) = x * (z - a) + y * (z - a)
OBVIOUS

(* A sum of terms none of which grows, and one of which pays c. *)
LEMMA SumToPays ==
  ASSUME NEW n \in Nat, NEW f, NEW g, NEW u \in 1..n, NEW c \in Int,
         \A v \in 1..n : f[v] \in Int /\ g[v] \in Int /\ g[v] + (IF v = u THEN c ELSE 0) <= f[v]
  PROVE  SumTo(n, g) + c <= SumTo(n, f)
<1> DEFINE h == [v \in 1..n |-> f[v] - (IF v = u THEN c ELSE 0)]
<1>1. \A v \in 1..n : h[v] = f[v] - (IF v = u THEN c ELSE 0)
  OBVIOUS
<1> HIDE DEF h
<1>2. \A v \in 1..n : h[v] \in Int /\ g[v] <= h[v] /\ (v # u => h[v] = f[v])
  BY <1>1
<1>3. SumTo(n, g) <= SumTo(n, h)
  BY <1>2, SumToLeq
<1>4. SumTo(n, h) = SumTo(n, f) + h[u] - f[u]
  BY <1>2, SumToChange
<1>5. h[u] = f[u] - c
  BY <1>1
<1>6. SumTo(n, g) \in Int /\ SumTo(n, f) \in Int
  BY SumToInt
<1> QED BY <1>3, <1>4, <1>5, <1>6

(* A sum whose terms of P pay for a total and for k times another. *)
Spends(n, P, k, f, g, h, o, total) ==
  /\ \A i \in 1..n : f[i] \in Int /\ g[i] \in Int
  /\ \A i \in 1..n : i \in P => h[i] \in Int /\ o[i] \in Int /\ g[i] + k * o[i] + k * h[i] <= f[i]
  /\ \A i \in 1..n : i \notin P => g[i] = f[i]
  /\ total = SumIn(P, n, o) + SumIn(P, n, h)

LEMMA SumToSpent ==
  ASSUME NEW n \in Nat, NEW P, NEW k \in Int, NEW f, NEW g, NEW h, NEW o, NEW total,
         Spends(n, P, k, f, g, h, o, total)
  PROVE  total \in Int /\ SumTo(n, g) \in Int /\ SumTo(n, f) \in Int /\ SumTo(n, g) + k * total <= SumTo(n, f)
<1> DEFINE a == [i \in 1..n |-> IF i \in P THEN o[i] ELSE 0]
           b == [i \in 1..n |-> IF i \in P THEN h[i] ELSE 0]
           s == [i \in 1..n |-> a[i] + b[i]]
           c == [i \in 1..n |-> k * s[i]]
           d == [i \in 1..n |-> g[i] + c[i]]
<1>0. /\ \A i \in 1..n : f[i] \in Int /\ g[i] \in Int
      /\ \A i \in 1..n : i \in P => h[i] \in Int /\ o[i] \in Int /\ g[i] + k * o[i] + k * h[i] <= f[i]
      /\ \A i \in 1..n : i \notin P => g[i] = f[i]
      /\ total = SumIn(P, n, o) + SumIn(P, n, h)
  BY DEF Spends
<1>1. ASSUME NEW i \in 1..n
      PROVE  /\ a[i] \in Int /\ b[i] \in Int /\ s[i] \in Int /\ c[i] \in Int /\ d[i] \in Int
             /\ s[i] = a[i] + b[i] /\ c[i] = k * s[i] /\ d[i] = g[i] + c[i] /\ d[i] <= f[i]
  <2>1. a[i] = (IF i \in P THEN o[i] ELSE 0) /\ b[i] = (IF i \in P THEN h[i] ELSE 0)
        /\ s[i] = a[i] + b[i] /\ c[i] = k * s[i] /\ d[i] = g[i] + c[i]
    OBVIOUS
  <2> HIDE DEF a, b, s, c, d
  <2>2. a[i] \in Int /\ b[i] \in Int /\ s[i] \in Int
    BY <1>0, <2>1
  <2>3. c[i] \in Int
    BY <2>1, <2>2
  <2>4. d[i] <= f[i]
    <3>1. CASE i \in P
      <4>1. a[i] = o[i] /\ b[i] = h[i]
        BY <2>1, <3>1
      <4> DEFINE v == k * o[i]
                 w == k * h[i]
      <4>2. c[i] = v + w /\ v \in Int /\ w \in Int
        BY <1>0, <2>1, <2>2, <3>1, <4>1, Distribute
      <4>3. g[i] + v + w <= f[i]
        BY <1>0, <3>1
      <4> HIDE DEF v, w
      <4> QED BY <1>0, <2>1, <4>2, <4>3
    <3>2. CASE i \notin P
      <4>1. s[i] = 0
        BY <2>1, <3>2
      <4>2. c[i] = 0
        BY <2>1, <4>1
      <4> QED BY <1>0, <2>1, <3>2, <4>2
    <3> QED BY <3>1, <3>2
  <2> QED BY <1>0, <2>1, <2>2, <2>3, <2>4
<1>2. SumIn(P, n, o) = SumTo(n, a) /\ SumIn(P, n, h) = SumTo(n, b)
  BY DEF SumIn
<1> HIDE DEF a, b, s, c, d
<1>3. SumTo(n, s) = SumTo(n, a) + SumTo(n, b)
  BY <1>0, <1>1, SumToPlus
<1>4. SumTo(n, c) = k * SumTo(n, s)
  BY <1>0, <1>1, SumToTimes
<1>5. SumTo(n, d) = SumTo(n, g) + SumTo(n, c)
  BY <1>0, <1>1, SumToPlus
<1>6. SumTo(n, d) <= SumTo(n, f)
  BY <1>0, <1>1, SumToLeq
<1>7. SumTo(n, g) \in Int /\ SumTo(n, f) \in Int /\ SumTo(n, s) \in Int
  BY <1>0, <1>1, SumToInt
<1>8. total = SumTo(n, s)
  BY <1>0, <1>2, <1>3
<1>9. SumTo(n, g) + k * total <= SumTo(n, f)
  BY <1>4, <1>5, <1>6, <1>8
<1> QED BY <1>7, <1>8, <1>9
=============================================================================
