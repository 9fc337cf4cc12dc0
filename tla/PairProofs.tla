----------------------------- MODULE PairProofs -----------------------------
(***************************************************************************)
(* The constant product pair for any number of users, any fees, amounts    *)
(* and order of messages: shares stay backed by both assets, no message    *)
(* and no route makes a share worth less, the histories of the pair's      *)
(* balances and of everybody's shares are those of what there was, and the *)
(* averages of the oracle are within the prices that stood.                *)
(*                                                                         *)
(* All of it holds as long as a pool holds no more units than Scale, 10^18 *)
(* in the code.  Beyond that the quotient that GrossReturn rounds down may *)
(* lose a whole unit of the asset.                                         *)
(***************************************************************************)
EXTENDS Router, Oracle, SumLemmas, SequenceTheorems, TLAPS

(* Who has shares: all of them are somebody's. *)
SharesHeld ==
  /\ lp \in [Holders -> Nat]
  /\ supply \in Nat
  /\ SumTo(NumHolders, lp) = supply

PairTypes ==
  /\ pools \in [Assets -> Nat]
  /\ feeShare \in 0..Scale
  /\ prices \in [Assets -> 0..(Modulus - 1)]
  /\ lastTime \in Nat /\ now \in Nat \ {0} /\ lastTime <= now

PairInv == SharesHeld /\ PairTypes /\ SharesBacked
-----------------------------------------------------------------------------
(* A part of an amount, by a rate of at most one. *)
LEMMA TimesWithin ==
  ASSUME NEW x \in Nat, NEW d \in 0..Scale
  PROVE  Times(x, d) \in 0..x
<1>1. x * d \in Nat /\ Scale \in Nat \ {0}
  BY ScaleAssumption
<1>2. Times(x, d) \in Nat /\ Times(x, d) * Scale <= x * d
  BY <1>1, DivBounds, DivNat DEF Times
<1>3. x * d <= x * Scale
  <2>1. d * x <= Scale * x
    BY <1>1, Scaled
  <2> QED BY <2>1, <1>1
<1>4. Times(x, d) * Scale <= x * Scale
  BY <1>1, <1>2, <1>3
<1> QED BY <1>1, <1>2, <1>4, Cancel

(* What shares are worth is at most their part of the pool, and less than  *)
(* the pool unless they are all the shares.                                *)
LEMMA RefundBounds ==
  ASSUME NEW p \in Nat, NEW s \in Nat \ {0}, NEW a \in 0..s
  PROVE  /\ Times(p, Ratio(a, s)) \in 0..p
         /\ Times(p, Ratio(a, s)) * s <= p * a
<1> DEFINE q == Ratio(a, s)
           r == Times(p, q)
<1>0. Scale \in Nat \ {0}
  BY ScaleAssumption
<1>1. q \in Nat /\ q * s <= a * Scale
  <2>1. a * Scale \in Nat
    BY <1>0
  <2> QED BY <2>1, DivBounds, DivNat DEF Ratio
<1>2. q <= Scale
  <2>1. a * Scale <= s * Scale
    BY <1>0, Scaled
  <2>2. q * s <= Scale * s
    BY <1>0, <1>1, <2>1
  <2> QED BY <1>0, <1>1, <2>2, Cancel
<1>3. r \in 0..p
  <2>1. q \in 0..Scale
    BY <1>0, <1>1, <1>2
  <2> HIDE DEF q
  <2> QED BY <2>1, TimesWithin
<1>4. r * Scale <= p * q
  <2>1. p * q \in Nat
    BY <1>1
  <2> QED BY <1>0, <2>1, DivBounds DEF Times
<1> HIDE DEF q, r
<1>5. (r * Scale) * s <= (p * q) * s
  BY <1>0, <1>1, <1>3, <1>4, Scaled
<1>6. (q * s) * p <= (a * Scale) * p
  BY <1>0, <1>1, Scaled
<1>7. /\ (r * Scale) * s = (r * s) * Scale
      /\ (p * q) * s = (q * s) * p
      /\ (a * Scale) * p = (p * a) * Scale
  BY <1>0, <1>1, <1>3
<1>8. (r * s) * Scale <= (p * a) * Scale
  BY <1>0, <1>1, <1>3, <1>5, <1>6, <1>7
<1>9. r * s <= p * a
  BY <1>0, <1>3, <1>8, Cancel
<1> QED BY <1>3, <1>9 DEF q, r

LEMMA RefundLess ==
  ASSUME NEW p \in Nat \ {0}, NEW s \in Nat \ {0}, NEW a \in Nat, a < s
  PROVE  Times(p, Ratio(a, s)) < p
<1> DEFINE r == Times(p, Ratio(a, s))
<1>1. r \in Nat /\ r * s <= p * a
  BY RefundBounds
<1> HIDE DEF r
<1>2. a * p < s * p
  <2>1. (a + 1) * p <= s * p
    BY Scaled
  <2>2. (a + 1) * p = a * p + p
    OBVIOUS
  <2> QED BY <2>1, <2>2
<1>3. r * s < p * s
  BY <1>1, <1>2
<1>4. r < p
  BY <1>1, <1>3, CancelLess
<1> QED BY <1>4 DEF r

(* The shares of a deposit are at most its part, by either asset.          *)
LEMMA ShareBounds ==
  ASSUME NEW d \in [Assets -> Nat], NEW p \in [Assets -> Nat \ {0}], NEW s \in Nat
  PROVE  /\ ShareOf(d, p, s) \in Nat
         /\ \A i \in Assets : ShareOf(d, p, s) * p[i] <= d[i] * s
<1> DEFINE part(i) == MultiplyRatio(d[i], s, p[i])
<1>1. \A i \in Assets : part(i) \in Nat /\ part(i) * p[i] <= d[i] * s
  <2> SUFFICES ASSUME NEW i \in Assets PROVE part(i) \in Nat /\ part(i) * p[i] <= d[i] * s
    OBVIOUS
  <2>1. d[i] * s \in Nat /\ p[i] \in Nat \ {0}
    OBVIOUS
  <2> QED BY <2>1, DivBounds, DivNat DEF MultiplyRatio
<1>2. /\ ShareOf(d, p, s) \in {part(1), part(2)}
      /\ ShareOf(d, p, s) <= part(1) /\ ShareOf(d, p, s) <= part(2)
  BY <1>1 DEF ShareOf, Lesser, Assets
<1>3. ShareOf(d, p, s) \in Nat
  BY <1>1, <1>2 DEF Assets
<1>4. \A i \in Assets : ShareOf(d, p, s) * p[i] <= part(i) * p[i]
  BY <1>1, <1>2, <1>3, Scaled DEF Assets
<1> QED
  <2> SUFFICES ASSUME NEW i \in Assets PROVE ShareOf(d, p, s) * p[i] <= d[i] * s
    BY <1>3
  <2>1. ShareOf(d, p, s) * p[i] \in Int /\ part(i) * p[i] \in Int /\ d[i] * s \in Int
    BY <1>1, <1>3
  <2> HIDE DEF part
  <2> QED BY <1>1, <1>4, <2>1

(* Every natural number has an integer square root. *)
LEMMA RootExists ==
  ASSUME NEW n \in Nat
  PROVE  ISqrt(n) \in 0..n
<1> DEFINE T == {r \in Nat : n < (r + 1) * (r + 1)}
<1>1. n \in T
  <2>1. (n + 1) * (n + 1) = n * n + n + n + 1 /\ n * n \in Nat
    OBVIOUS
  <2> QED BY <2>1
<1>2. PICK r \in T : \A k \in T : r <= k
  BY <1>1, LeastNat
<1>3. r * r <= n
  <2>1. CASE r = 0
    BY <2>1
  <2>2. CASE r # 0
    <3>1. r - 1 \in Nat /\ r - 1 \notin T
      BY <1>2, <2>2
    <3> QED BY <3>1
  <2> QED BY <2>1, <2>2
<1>4. r \in 0..n /\ r * r <= n /\ n < (r + 1) * (r + 1)
  BY <1>1, <1>2, <1>3
<1> QED BY <1>4 DEF ISqrt
-----------------------------------------------------------------------------
(* Swaps.                                                                  *)

(* What the curve leaves in the pool makes up for the offer. *)
LEMMA GrossBounds ==
  ASSUME NEW x \in Nat \ {0}, NEW a \in Nat \ {0}, NEW o \in Nat, x + o <= Scale
  PROVE  /\ GrossReturn(x, a, o) \in 0..(a - 1)
         /\ x * a <= (x + o) * (a - GrossReturn(x, a, o))
<1> DEFINE n == x + o
           k == x * a
           R == Ratio(k, n)
           g == GrossReturn(x, a, o)
           m == a - g
<1>0. Scale \in Nat \ {0} /\ n \in Nat \ {0} /\ k \in Nat \ {0} /\ n <= Scale
  BY ScaleAssumption
<1>1. R \in Nat /\ R * n <= k * Scale /\ k * Scale < R * n + n
  <2>1. k * Scale \in Nat
    BY <1>0
  <2> HIDE DEF k, n
  <2> QED BY <1>0, <2>1, DivBounds, DivNat DEF Ratio
<1>2. R <= a * Scale
  <2>1. x * (a * Scale) <= n * (a * Scale)
    BY <1>0, Scaled
  <2>2. R * n <= (a * Scale) * n
    BY <1>0, <1>1, <2>1
  <2> HIDE DEF R, n, k
  <2> QED BY <1>0, <1>1, <2>2, Cancel
<1>3. g \in Nat /\ g * Scale <= a * Scale - R /\ a * Scale - R < g * Scale + Scale
  <2> DEFINE rest == a * Scale - R
  <2>1. rest \in Nat
    BY <1>0, <1>1, <1>2
  <2>2. g = rest \div Scale
    BY DEF GrossReturn
  <2> HIDE DEF rest, g
  <2>3. g \in Nat /\ g * Scale <= rest /\ rest < g * Scale + Scale
    BY <1>0, <2>1, <2>2, DivBounds, DivNat
  <2> QED BY <2>3 DEF rest
<1> HIDE DEF R, g
<1>4. R <= m * Scale /\ m \in Int
  <2>1. (a - g) * Scale = a * Scale - g * Scale
    BY <1>0, <1>3
  <2> QED BY <1>0, <1>1, <1>3, <2>1
<1> HIDE DEF m, k, n
<1>5. k <= n * m
  <2> SUFFICES ASSUME n * m + 1 <= k PROVE FALSE
    BY <1>0, <1>4
  <2>1. (n * m + 1) * Scale <= k * Scale
    BY <1>0, <1>4, Scaled
  <2>2. (n * m + 1) * Scale = (m * Scale) * n + Scale
    BY <1>0, <1>4
  <2>3. R * n <= (m * Scale) * n
    BY <1>0, <1>1, <1>4, Scaled
  <2>4. R * n \in Int /\ k * Scale \in Int /\ (m * Scale) * n \in Int
    BY <1>0, <1>1, <1>4
  <2> QED BY <1>0, <1>1, <2>1, <2>2, <2>3, <2>4
<1>6. m > 0
  <2>1. 0 * n < m * n
    BY <1>0, <1>4, <1>5
  <2> QED BY <1>0, <1>4, <2>1, CancelLess
<1>7. g \in 0..(a - 1)
  BY <1>3, <1>6 DEF m
<1> QED BY <1>5, <1>7 DEF g, k, n, m

(* What leaves is at most the gross return: the fees are parts of it.      *)
LEMMA LeavingWithin ==
  ASSUME NEW held, NEW i, NEW o, NEW info, NEW gross \in Nat,
         gross = GrossReturn(held[i], held[Other(i)], o),
         info.total \in 0..Scale, info.maker \in 0..Scale, feeShare \in 0..Scale
  PROVE  SwapResult(held, i, o, info).leaving \in 0..gross
<1> DEFINE commission == Times(gross, info.total)
<1>1. commission \in 0..gross
  BY TimesWithin
<1> HIDE DEF commission
<1>2. SharedFee(commission) \in 0..commission
  BY <1>1, TimesWithin DEF SharedFee
<1>3. MakerFee(commission, info.maker) \in 0..(commission - SharedFee(commission))
  <2>1. commission - SharedFee(commission) \in Nat
    BY <1>1, <1>2
  <2> QED BY <2>1, TimesWithin DEF MakerFee
<1>4. SwapResult(held, i, o, info).leaving
        = (gross - commission) + SharedFee(commission) + MakerFee(commission, info.maker)
  BY DEF SwapResult, commission
<1> QED BY <1>1, <1>2, <1>3, <1>4

(* The pools of shares: what a product of two factors keeps. *)
LEMMA ValueKept ==
  ASSUME NEW x \in [Assets -> Nat], NEW y \in [Assets -> Nat], NEW s \in Nat, NEW t \in Nat,
         \A i \in Assets : x[i] * t <= y[i] * s
  PROVE  x[1] * x[2] * t * t <= y[1] * y[2] * s * s
<1> DEFINE x1 == x[1]
           x2 == x[2]
           y1 == y[1]
           y2 == y[2]
<1>0. x1 \in Nat /\ x2 \in Nat /\ y1 \in Nat /\ y2 \in Nat
  BY DEF Assets
<1>1. x1 * t <= y1 * s /\ x2 * t <= y2 * s
  BY DEF Assets
<1> HIDE DEF x1, x2, y1, y2
<1>2. x1 * t \in Nat /\ x2 * t \in Nat /\ y1 * s \in Nat /\ y2 * s \in Nat
  BY <1>0
<1>3. (x1 * t) * (x2 * t) <= (y1 * s) * (x2 * t)
  BY <1>1, <1>2, Scaled
<1>4. (x2 * t) * (y1 * s) <= (y2 * s) * (y1 * s)
  BY <1>1, <1>2, Scaled
<1>5. /\ x1 * x2 * t * t = (x1 * t) * (x2 * t)
      /\ y1 * y2 * s * s = (y2 * s) * (y1 * s)
      /\ (x2 * t) * (y1 * s) = (y1 * s) * (x2 * t)
      /\ (x1 * t) * (x2 * t) \in Int /\ (y1 * s) * (x2 * t) \in Int /\ (y2 * s) * (y1 * s) \in Int
  BY <1>0
<1>6. x1 * x2 * t * t <= y1 * y2 * s * s
  BY <1>3, <1>4, <1>5
<1> QED BY <1>6 DEF x1, x2, y1, y2
-----------------------------------------------------------------------------
(* Shares and who holds them.                                              *)

LEMMA HolderFacts ==
  /\ Users \subseteq Holders /\ Self \in Holders /\ IncentivesAddr \in Holders
  /\ Self \notin Users /\ IncentivesAddr # Self
  /\ NumHolders \in Nat
BY NumUsersAssumption DEF Users, Self, IncentivesAddr, Holders, NumHolders

(* One more or less for one holder changes the sum by as much. *)
LEMMA SumMoved ==
  ASSUME NEW f \in [Holders -> Nat], NEW h \in Holders, NEW v \in Nat
  PROVE  /\ [f EXCEPT ![h] = v] \in [Holders -> Nat]
         /\ SumTo(NumHolders, [f EXCEPT ![h] = v]) = SumTo(NumHolders, f) + v - f[h]
         /\ SumTo(NumHolders, f) \in Nat
         /\ f[h] <= SumTo(NumHolders, f)
<1> DEFINE g == [f EXCEPT ![h] = v]
<1>1. \A i \in 1..NumHolders : f[i] \in Int /\ g[i] \in Int /\ (i # h => g[i] = f[i])
  BY DEF Holders
<1>2. g[h] = v /\ h \in 1..NumHolders
  BY DEF Holders
<1>3. NumHolders \in Nat /\ \A i \in 1..NumHolders : f[i] \in Nat
  BY HolderFacts DEF Holders
<1>4. g \in [Holders -> Nat]
  OBVIOUS
<1> HIDE DEF g
<1>5. SumTo(NumHolders, g) = SumTo(NumHolders, f) + g[h] - f[h]
  BY <1>1, <1>2, <1>3, SumToChange
<1>6. SumTo(NumHolders, f) \in Nat /\ f[h] <= SumTo(NumHolders, f)
  BY <1>2, <1>3, SumToNat, SumToTerm
<1> QED BY <1>2, <1>4, <1>5, <1>6 DEF g

LEMMA MintHeld ==
  ASSUME SharesHeld, NEW receiver \in Users, NEW autoStake \in BOOLEAN, NEW share \in Nat,
         MintShares(receiver, autoStake, share, MinimumLiquidity)
  PROVE  /\ SharesHeld'
         /\ supply' = supply + share + (IF supply = 0 THEN MinimumLiquidity ELSE 0)
         /\ lp'[Self] = lp[Self] + (IF supply = 0 THEN MinimumLiquidity ELSE 0)
<1> DEFINE kept == IF supply = 0 THEN MinimumLiquidity ELSE 0
           to == Beneficiary(receiver, autoStake)
           f == [lp EXCEPT ![Self] = lp[Self] + kept]
<1>0. kept \in Nat /\ to \in Holders /\ to # Self /\ Self \in Holders /\ lp \in [Holders -> Nat] /\ supply \in Nat
  BY MinimumLiquidityAssumption, HolderFacts DEF Beneficiary, SharesHeld
<1>1. lp' = [lp EXCEPT ![Self] = lp[Self] + kept, ![to] = lp[to] + share] /\ supply' = supply + kept + share
  BY <1>0 DEF MintShares
<1> HIDE DEF kept, to
<1>2. lp' = [f EXCEPT ![to] = f[to] + share] /\ lp'[Self] = lp[Self] + kept
  BY <1>0, <1>1
<1>3. f \in [Holders -> Nat] /\ SumTo(NumHolders, f) = supply + kept
  <2>1. lp[Self] + kept \in Nat
    BY <1>0
  <2>2. f \in [Holders -> Nat] /\ SumTo(NumHolders, f) = SumTo(NumHolders, lp) + (lp[Self] + kept) - lp[Self]
    BY <1>0, <2>1, SumMoved
  <2> QED BY <1>0, <2>2 DEF SharesHeld
<1> HIDE DEF f
<1>4. f[to] + share \in Nat
  BY <1>0, <1>3
<1>5. lp' \in [Holders -> Nat] /\ SumTo(NumHolders, lp') = SumTo(NumHolders, f) + (f[to] + share) - f[to]
  BY <1>0, <1>2, <1>3, <1>4, SumMoved
<1>6. SharesHeld'
  BY <1>0, <1>1, <1>3, <1>4, <1>5 DEF SharesHeld
<1> QED BY <1>0, <1>1, <1>2, <1>6 DEF kept

LEMMA BurnHeld ==
  ASSUME SharesHeld, NEW user \in Users, NEW amount, BurnShares(user, amount)
  PROVE  /\ SharesHeld'
         /\ amount \in 1..supply
         /\ supply' = supply - amount
         /\ lp'[Self] = lp[Self] /\ lp'[Self] <= supply'
<1>0. user \in Holders /\ user # Self /\ Self \in Holders /\ lp \in [Holders -> Nat] /\ supply \in Nat
  BY HolderFacts DEF SharesHeld
<1>1. /\ amount \in 1..lp[user]
      /\ lp' = [lp EXCEPT ![user] = lp[user] - amount]
      /\ supply' = supply - amount
  BY <1>0 DEF BurnShares
<1>2. lp[user] - amount \in Nat /\ lp[user] \in Nat /\ amount \in Nat
  BY <1>0, <1>1
<1>3. /\ lp' \in [Holders -> Nat]
      /\ SumTo(NumHolders, lp') = SumTo(NumHolders, lp) + (lp[user] - amount) - lp[user]
      /\ lp[user] <= supply
  BY <1>0, <1>1, <1>2, SumMoved DEF SharesHeld
<1>4. SharesHeld'
  BY <1>0, <1>1, <1>2, <1>3 DEF SharesHeld
<1>5. lp'[Self] <= supply'
  <2>1. 0 \in Nat
    OBVIOUS
  <2>2. lp'[Self] <= SumTo(NumHolders, lp')
    BY <1>0, <1>3, <2>1, SumMoved
  <2> QED BY <1>4, <2>2 DEF SharesHeld
<1> QED BY <1>0, <1>1, <1>2, <1>3, <1>4, <1>5

LEMMA SendHeld ==
  ASSUME SharesHeld, NEW from \in Users, NEW to \in Holders, NEW amount, SendLp(from, to, amount)
  PROVE  SharesHeld' /\ supply' = supply /\ lp'[Self] >= lp[Self]
<1> DEFINE f == [lp EXCEPT ![from] = lp[from] - amount]
<1>0. from \in Holders /\ from # Self /\ Self \in Holders /\ lp \in [Holders -> Nat] /\ supply \in Nat
  BY HolderFacts DEF SharesHeld
<1>1. /\ amount \in 1..lp[from] /\ from # to
      /\ lp' = [lp EXCEPT ![from] = lp[from] - amount, ![to] = lp[to] + amount]
      /\ supply' = supply
  BY <1>0 DEF SendLp
<1>2. lp[from] - amount \in Nat /\ lp[from] \in Nat /\ lp[to] \in Nat /\ lp[Self] \in Nat /\ amount \in Nat
  BY <1>0, <1>1
<1>3. f \in [Holders -> Nat] /\ SumTo(NumHolders, f) = SumTo(NumHolders, lp) + (lp[from] - amount) - lp[from]
  BY <1>0, <1>2, SumMoved
<1>4. lp' = [f EXCEPT ![to] = f[to] + amount]
  BY <1>0, <1>1
<1>8. lp'[Self] >= lp[Self]
  <2>1. lp'[Self] = lp[Self] \/ lp'[Self] = lp[Self] + amount
    BY <1>0, <1>1
  <2> QED BY <1>2, <2>1
<1> HIDE DEF f
<1>5. f[to] + amount \in Nat
  BY <1>2, <1>3
<1>6. lp' \in [Holders -> Nat] /\ SumTo(NumHolders, lp') = SumTo(NumHolders, f) + (f[to] + amount) - f[to]
  BY <1>3, <1>4, <1>5, SumMoved
<1>7. SharesHeld'
  BY <1>0, <1>1, <1>2, <1>3, <1>5, <1>6 DEF SharesHeld
<1> QED BY <1>1, <1>7, <1>8
-----------------------------------------------------------------------------
(* Messages.                                                               *)

(* For each message: the invariant afterwards, and what shares are worth.  *)
Value == supply > 0 /\ supply' > 0 =>
  pools[1] * pools[2] * supply' * supply' <= pools'[1] * pools'[2] * supply * supply

LEMMA AccumulateTypes ==
  ASSUME PairTypes, AccumulatePrices, now' = now
  PROVE  /\ prices' \in [Assets -> 0..(Modulus - 1)]
         /\ lastTime' \in Nat /\ lastTime' <= now'
<1>0. Modulus \in Nat \ {0} /\ TwapPrecision \in Nat \ {0}
  BY PairAssumption
<1>1. lastTime' \in Nat /\ lastTime' <= now'
  BY DEF AccumulatePrices, PairTypes
<1>2. CASE prices' = prices
  BY <1>1, <1>2 DEF PairTypes
<1>3. CASE prices' # prices
  <2> DEFINE added(i) == MultiplyRatio((now - lastTime) * TwapPrecision, pools[Other(i)], pools[i])
  <2>1. /\ ~(now <= lastTime \/ \E i \in Assets : pools[i] = 0)
        /\ prices' = [i \in Assets |-> (prices[i] + added(i)) % Modulus]
    BY <1>3 DEF AccumulatePrices, Accumulated
  <2>2. \A i \in Assets : (prices[i] + added(i)) % Modulus \in 0..(Modulus - 1)
    <3> SUFFICES ASSUME NEW i \in Assets PROVE (prices[i] + added(i)) % Modulus \in 0..(Modulus - 1)
      OBVIOUS
    <3>1. pools[i] \in Nat \ {0} /\ pools[Other(i)] \in Nat /\ now - lastTime \in Nat
      BY <2>1 DEF PairTypes, Other, Assets
    <3> DEFINE passed == (now - lastTime) * TwapPrecision
    <3>2. passed \in Nat
      BY <1>0, <3>1
    <3> HIDE DEF passed
    <3>3. passed * pools[Other(i)] \in Nat
      BY <3>1, <3>2
    <3>4. MultiplyRatio(passed, pools[Other(i)], pools[i]) \in Nat
      BY <3>1, <3>3, DivNat DEF MultiplyRatio
    <3>5. prices[i] + added(i) \in Nat
      BY <3>4 DEF passed, PairTypes
    <3> HIDE DEF added
    <3> QED BY <1>0, <3>5
  <2> QED BY <1>1, <2>1, <2>2
<1> QED BY <1>2, <1>3

(* The share of a deposit. *)
LEMMA ProvideShare ==
  ASSUME PairInv, NEW receiver \in Users, NEW autoStake \in BOOLEAN, NEW deposit \in [Assets -> Deposits],
         NEW tolerance, NEW least, ProvideLiquidity(receiver, autoStake, deposit, tolerance, least),
         NEW share, share = IF supply = 0 THEN InitialShare(deposit) ELSE ShareOf(deposit, pools, supply)
  PROVE  share \in Nat /\ MintShares(receiver, autoStake, share, MinimumLiquidity)
<1>0. /\ supply \in Nat /\ MinimumLiquidity \in Nat \ {0}
      /\ pools \in [Assets -> Nat] /\ deposit \in [Assets -> Nat]
  BY MinimumLiquidityAssumption, PairAssumption, HolderFacts DEF PairInv, SharesHeld, PairTypes
<1>1. /\ supply = 0 => share > 0
      /\ MintShares(receiver, autoStake, share, MinimumLiquidity)
      /\ \A i \in Assets : deposit[i] > 0
  BY DEF ProvideLiquidity, Deposited
<1>2. supply > 0 => pools \in [Assets -> Nat \ {0}]
  BY <1>0 DEF PairInv, SharesBacked
<1>3. share \in Nat
  <2>1. CASE supply = 0
    <3>1. deposit[1] * deposit[2] \in Nat
      BY <1>0 DEF Assets
    <3>2. share \in Int
      BY <1>0, <2>1, <3>1, RootExists DEF InitialShare
    <3> QED BY <1>1, <2>1, <3>2
  <2>2. CASE supply # 0
    BY <1>0, <1>2, <2>2, ShareBounds
  <2> QED BY <2>1, <2>2
<1> QED BY <1>1, <1>3

LEMMA ProvideStep ==
  ASSUME PairInv, NEW receiver \in Users, NEW autoStake \in BOOLEAN, NEW deposit \in [Assets -> Deposits],
         NEW tolerance, NEW least, ProvideLiquidity(receiver, autoStake, deposit, tolerance, least)
  PROVE  PairInv' /\ Value
<1> DEFINE share == IF supply = 0 THEN InitialShare(deposit) ELSE ShareOf(deposit, pools, supply)
           kept == IF supply = 0 THEN MinimumLiquidity ELSE 0
<1>0. /\ supply \in Nat /\ MinimumLiquidity \in Nat \ {0} /\ lp[Self] \in Nat
      /\ pools \in [Assets -> Nat] /\ deposit \in [Assets -> Nat]
  BY MinimumLiquidityAssumption, PairAssumption, HolderFacts DEF PairInv, SharesHeld, PairTypes
<1>1. /\ \A i \in Assets : deposit[i] > 0
      /\ supply = 0 => share > 0
      /\ MintShares(receiver, autoStake, share, MinimumLiquidity)
      /\ pools' = [i \in Assets |-> pools[i] + deposit[i]]
      /\ AccumulatePrices
      /\ UNCHANGED <<feeShare, now>>
  BY DEF ProvideLiquidity, Deposited
<1>2. supply > 0 => pools \in [Assets -> Nat \ {0}]
  BY <1>0 DEF PairInv, SharesBacked
<1>3. share \in Nat
  BY ProvideShare
<1> HIDE DEF share
<1>4. SharesHeld' /\ supply' = supply + share + kept /\ lp'[Self] = lp[Self] + kept
  BY <1>1, <1>3, MintHeld DEF PairInv
<1>5. PairTypes'
  <2>1. prices' \in [Assets -> 0..(Modulus - 1)] /\ lastTime' \in Nat /\ lastTime' <= now'
    BY <1>1, AccumulateTypes DEF PairInv
  <2> QED BY <1>0, <1>1, <2>1 DEF PairInv, PairTypes
<1>6. SharesBacked'
  <2>1. \A i \in Assets : pools'[i] > 0
    BY <1>0, <1>1
  <2>2. lp'[Self] >= MinimumLiquidity
    BY <1>0, <1>4 DEF PairInv, SharesBacked
  <2> QED BY <2>1, <2>2 DEF SharesBacked
<1>7. Value
  <2> SUFFICES ASSUME supply > 0
               PROVE  pools[1] * pools[2] * supply' * supply' <= pools'[1] * pools'[2] * supply * supply
    BY DEF Value
  <2>1. supply' = supply + share /\ supply' \in Nat
    BY <1>0, <1>3, <1>4
  <2>2. \A i \in Assets : share * pools[i] <= deposit[i] * supply
    BY <1>0, <1>2, ShareBounds DEF share
  <2>3. \A i \in Assets : pools[i] * supply' <= pools'[i] * supply
    <3> SUFFICES ASSUME NEW i \in Assets PROVE pools[i] * supply' <= pools'[i] * supply
      OBVIOUS
    <3>1. pools[i] \in Nat /\ deposit[i] \in Nat /\ pools'[i] = pools[i] + deposit[i]
      BY <1>0, <1>1
    <3>2. /\ pools[i] * (supply + share) = pools[i] * supply + share * pools[i]
          /\ (pools[i] + deposit[i]) * supply = pools[i] * supply + deposit[i] * supply
          /\ pools[i] * supply \in Int /\ share * pools[i] \in Int /\ deposit[i] * supply \in Int
      BY <1>0, <1>3, <3>1
    <3> QED BY <2>1, <2>2, <3>1, <3>2
  <2>4. pools' \in [Assets -> Nat]
    BY <1>5 DEF PairTypes
  <2> QED BY <1>0, <2>1, <2>3, <2>4, ValueKept
<1> QED BY <1>4, <1>5, <1>6, <1>7 DEF PairInv

LEMMA WithdrawStep ==
  ASSUME PairInv, NEW user \in Users, NEW amount, NEW least, WithdrawLiquidity(user, amount, least)
  PROVE  PairInv' /\ Value
<1> DEFINE refund == ShareInAssets(pools, amount, supply)
<1>0. /\ supply \in Nat /\ MinimumLiquidity \in Nat \ {0} /\ lp[Self] \in Nat /\ pools \in [Assets -> Nat]
  BY MinimumLiquidityAssumption, HolderFacts DEF PairInv, SharesHeld, PairTypes
<1>1. /\ BurnShares(user, amount)
      /\ pools' = [i \in Assets |-> pools[i] - refund[i]]
      /\ AccumulatePrices
      /\ UNCHANGED <<feeShare, now>>
  BY DEF WithdrawLiquidity
<1>2. SharesHeld' /\ amount \in 1..supply /\ supply' = supply - amount /\ lp'[Self] = lp[Self] /\ lp'[Self] <= supply'
  BY <1>1, BurnHeld DEF PairInv
<1>3. supply > 0 /\ lp[Self] >= MinimumLiquidity /\ \A i \in Assets : pools[i] \in Nat \ {0}
  BY <1>0, <1>2 DEF PairInv, SharesBacked
<1>4. amount < supply /\ amount \in 0..supply /\ supply' \in Nat
  BY <1>0, <1>2, <1>3
<1>5. ASSUME NEW i \in Assets
      PROVE  pools'[i] \in Nat \ {0} /\ pools[i] * supply' <= pools'[i] * supply
  <2> DEFINE p == pools[i]
             r == Times(p, Ratio(amount, supply))
  <2>1. pools'[i] = p - r
    BY <1>1, <1>3 DEF ShareInAssets, Assets
  <2>2. p \in Nat \ {0}
    BY <1>3
  <2> HIDE DEF p
  <2>3. r \in 0..p /\ r * supply <= p * amount /\ r < p
    <3>1. supply \in Nat \ {0} /\ p \in Nat /\ amount \in Nat
      BY <1>0, <1>3, <1>4, <2>2
    <3>2. r \in 0..p /\ r * supply <= p * amount
      BY <1>4, <3>1, RefundBounds
    <3>3. r < p
      BY <1>4, <2>2, <3>1, RefundLess
    <3> QED BY <3>2, <3>3
  <2> HIDE DEF r
  <2>4. /\ p * (supply - amount) = p * supply - p * amount
        /\ (p - r) * supply = p * supply - r * supply
        /\ p * supply \in Int /\ p * amount \in Int /\ r * supply \in Int
    BY <1>0, <1>4, <2>2, <2>3
  <2>5. p * supply' <= (p - r) * supply
    BY <1>2, <2>3, <2>4
  <2> QED BY <2>1, <2>2, <2>3, <2>5 DEF p
<1>6. pools' \in [Assets -> Nat]
  BY <1>1, <1>5
<1>7. PairTypes'
  <2>1. prices' \in [Assets -> 0..(Modulus - 1)] /\ lastTime' \in Nat /\ lastTime' <= now'
    BY <1>1, AccumulateTypes DEF PairInv
  <2> QED BY <1>1, <1>6, <2>1 DEF PairInv, PairTypes
<1>8. SharesBacked'
  BY <1>2, <1>3, <1>5 DEF SharesBacked
<1>9. Value
  BY <1>0, <1>4, <1>5, <1>6, ValueKept DEF Value
<1> QED BY <1>2, <1>7, <1>8, <1>9 DEF PairInv

(* A swap, of the pair as it is or of pools under way, leaves something in *)
(* both pools, and their product does not fall.                            *)
LEMMA ExchangeKeeps ==
  ASSUME MaxPool <= Scale, feeShare \in 0..Scale,
         NEW held \in [Assets -> Nat], NEW offered \in Assets, NEW offer \in Nat, NEW info \in FeeInfos,
         NEW belief, NEW maxSpread, SwapAccepted(held, offered, offer, info, belief, maxSpread),
         NEW leaving, leaving = SwapResult(held, offered, offer, info).leaving,
         NEW next, next = Exchanged(held, offered, offer, leaving)
  PROVE  /\ next \in [Assets -> Nat \ {0}]
         /\ held[1] * held[2] <= next[1] * next[2]
         /\ \A i \in Assets : AfterSwap(held, offered, offer, leaving)[i] = next[i]
<1> DEFINE other == Other(offered)
           gross == GrossReturn(held[offered], held[other], offer)
<1>0. /\ Scale \in Nat \ {0} /\ MaxPool \in Nat
      /\ info.total \in 0..Scale /\ info.maker \in 0..Scale
  BY PairAssumption, ScaleAssumption
<1>1. /\ \A i \in Assets : held[i] > 0
      /\ held[offered] + offer <= MaxPool
  BY DEF SwapAccepted, Tradable, Assets
<1>2. /\ other \in Assets /\ other # offered
      /\ Assets = {offered, other}
      /\ {offered, other} = {1, 2}
  BY DEF Other, Assets
<1>3. gross \in 0..(held[other] - 1) /\ held[offered] * held[other] <= (held[offered] + offer) * (held[other] - gross)
  <2>1. held[offered] \in Nat \ {0} /\ held[other] \in Nat \ {0} /\ held[offered] + offer <= Scale
    BY <1>0, <1>1, <1>2
  <2> HIDE DEF other
  <2> QED BY <2>1, GrossBounds
<1>4. leaving \in 0..gross
  <2>1. gross \in Nat
    BY <1>0, <1>2, <1>3
  <2> HIDE DEF gross
  <2>2. gross = GrossReturn(held[offered], held[Other(offered)], offer)
    BY DEF gross
  <2> QED BY <1>0, <2>1, <2>2, LeavingWithin
<1> HIDE DEF gross, other
<1>5. /\ next[offered] = held[offered] + offer
      /\ next[other] = held[other] - leaving
      /\ next \in [Assets -> Nat \ {0}]
  <2>1. next = [held EXCEPT ![offered] = held[offered] + offer, ![other] = held[other] - leaving]
    BY <1>0, <1>1, <1>2 DEF Exchanged, other
  <2>2. held[other] - leaving \in Nat \ {0} /\ held[offered] + offer \in Nat \ {0}
    BY <1>0, <1>1, <1>2, <1>3, <1>4
  <2> QED BY <1>0, <1>2, <2>1, <2>2
<1>6. held[offered] * held[other] <= next[offered] * next[other]
  <2> DEFINE n == held[offered] + offer
             m == held[other] - gross
             l == held[other] - leaving
  <2>1. n \in Nat /\ m \in Int /\ l \in Int /\ m <= l
    BY <1>0, <1>2, <1>3, <1>4
  <2>2. held[offered] * held[other] <= n * m
    BY <1>3
  <2>3. held[offered] * held[other] \in Int
    BY <1>0, <1>2
  <2>4. next[offered] * next[other] = n * l
    BY <1>5
  <2> HIDE DEF n, m, l
  <2>5. n * m <= n * l
    <3>1. m * n <= l * n
      BY <2>1, Scaled
    <3> QED BY <2>1, <3>1
  <2>6. n * m \in Int /\ n * l \in Int
    BY <2>1
  <2> QED BY <2>2, <2>3, <2>4, <2>5, <2>6
<1>7. held[1] * held[2] <= next[1] * next[2]
  <2>1. held[1] \in Nat /\ held[2] \in Nat /\ next[1] \in Nat /\ next[2] \in Nat
    BY <1>0, <1>5 DEF Assets
  <2>2. held[1] * held[2] = held[2] * held[1] /\ next[1] * next[2] = next[2] * next[1]
    BY <2>1
  <2>3. \/ offered = 1 /\ other = 2
        \/ offered = 2 /\ other = 1
    BY <1>2
  <2> QED BY <1>6, <2>2, <2>3
<1>8. \A i \in Assets : AfterSwap(held, offered, offer, leaving)[i] = next[i]
  BY <1>2, <1>5 DEF AfterSwap
<1> QED BY <1>5, <1>7, <1>8

(* Better pools for the same shares. *)
LEMMA PoolsTraded ==
  ASSUME PairInv, pools' \in [Assets -> Nat \ {0}], pools[1] * pools[2] <= pools'[1] * pools'[2],
         AccumulatePrices, UNCHANGED <<lp, supply, feeShare, now>>
  PROVE  PairInv' /\ Value
<1>0. supply \in Nat /\ pools \in [Assets -> Nat] /\ pools' \in [Assets -> Nat]
  BY DEF PairInv, SharesHeld, PairTypes
<1>1. PairTypes'
  <2>1. prices' \in [Assets -> 0..(Modulus - 1)] /\ lastTime' \in Nat /\ lastTime' <= now'
    BY AccumulateTypes DEF PairInv
  <2> QED BY <1>0, <2>1 DEF PairInv, PairTypes
<1>2. SharesBacked'
  BY DEF PairInv, SharesBacked
<1>3. SharesHeld'
  BY DEF PairInv, SharesHeld
<1>4. Value
  <2> DEFINE k == pools[1] * pools[2]
             l == pools'[1] * pools'[2]
  <2>1. k \in Nat /\ l \in Nat /\ k <= l
    BY <1>0 DEF Assets
  <2> HIDE DEF k, l
  <2>2. (k * supply) * supply <= (l * supply) * supply
    <3>1. k * supply <= l * supply /\ k * supply \in Int /\ l * supply \in Int
      BY <1>0, <2>1, Scaled
    <3> QED BY <1>0, <3>1, Scaled
  <2> QED BY <2>2 DEF Value, k, l
<1> QED BY <1>1, <1>2, <1>3, <1>4 DEF PairInv

LEMMA SwapStep ==
  ASSUME PairInv, MaxPool <= Scale, NEW offered \in Assets, NEW offer \in Nat, NEW info \in FeeInfos,
         NEW belief, NEW maxSpread, Swap(offered, offer, info, belief, maxSpread)
  PROVE  /\ PairInv' /\ Value
         /\ \A i \in Assets :
               AfterSwap(pools, offered, offer, SwapResult(pools, offered, offer, info).leaving)[i] = pools'[i]
<1> DEFINE leaving == SwapResult(pools, offered, offer, info).leaving
<1>1. /\ SwapAccepted(pools, offered, offer, info, belief, maxSpread)
      /\ pools' = Exchanged(pools, offered, offer, leaving)
      /\ AccumulatePrices
      /\ UNCHANGED <<lp, supply, feeShare, now>>
  BY DEF Swap
<1> HIDE DEF leaving
<1>2. feeShare \in 0..Scale /\ pools \in [Assets -> Nat] /\ leaving = SwapResult(pools, offered, offer, info).leaving
  BY DEF PairInv, PairTypes, leaving
<1> DEFINE next == pools'
<1>3. next = Exchanged(pools, offered, offer, leaving)
  BY <1>1
<1> HIDE DEF next
<1>4. /\ next \in [Assets -> Nat \ {0}] /\ pools[1] * pools[2] <= next[1] * next[2]
      /\ \A i \in Assets : AfterSwap(pools, offered, offer, leaving)[i] = next[i]
  BY <1>1, <1>2, <1>3, ExchangeKeeps
<1>5. PairInv' /\ Value
  BY <1>1, <1>4, PoolsTraded DEF next
<1> QED BY <1>4, <1>5 DEF next, leaving

(* Nothing that leaves the shares and pools alone changes a share's worth. *)
LEMMA ValueSame ==
  ASSUME PairInv, supply' = supply, pools' \in [Assets -> Nat], \A i \in Assets : pools[i] <= pools'[i]
  PROVE  Value
<1>0. supply \in Nat /\ pools \in [Assets -> Nat]
  BY DEF PairInv, SharesHeld, PairTypes
<1>1. \A i \in Assets : pools[i] * supply <= pools'[i] * supply
  BY <1>0, Scaled
<1>2. pools[1] * pools[2] * supply * supply <= pools'[1] * pools'[2] * supply * supply
  BY <1>0, <1>1, ValueKept
<1> QED BY <1>2 DEF Value

LEMMA OtherStep ==
  ASSUME PairInv,
         \/ \E rate \in FeeShares : UpdateConfig(rate)
         \/ \E from \in Users, to \in Holders, amount \in LpAmounts : TransferLp(from, to, amount)
         \/ \E i \in Assets, gift \in Gifts : Donate(i, gift)
         \/ Tick
         \/ UNCHANGED pairVars
  PROVE  PairInv' /\ Value
<1>0. /\ lp[Self] \in Nat /\ MinimumLiquidity \in Nat \ {0} /\ pools \in [Assets -> Nat]
      /\ FeeShares \subseteq 0..Scale /\ Gifts \subseteq Nat
  BY MinimumLiquidityAssumption, HolderFacts, PairAssumption DEF PairInv, SharesHeld, PairTypes
<1>1. CASE \E rate \in FeeShares : UpdateConfig(rate)
  <2>1. feeShare' \in 0..Scale /\ UNCHANGED <<pools, lp, supply, prices, lastTime, balances, now>>
    BY <1>0, <1>1 DEF UpdateConfig
  <2>2. PairInv'
    BY <2>1 DEF PairInv, SharesHeld, PairTypes, SharesBacked
  <2> QED BY <1>0, <2>1, <2>2, ValueSame
<1>2. CASE \E from \in Users, to \in Holders, amount \in LpAmounts : TransferLp(from, to, amount)
  <2>1. PICK from \in Users, to \in Holders, amount \in LpAmounts : TransferLp(from, to, amount)
    BY <1>2
  <2>2. SharesHeld' /\ supply' = supply /\ lp'[Self] >= lp[Self] /\ lp'[Self] \in Nat
    BY <2>1, SendHeld, HolderFacts DEF TransferLp, PairInv, SharesHeld
  <2>3. UNCHANGED <<pools, feeShare, prices, lastTime, now>>
    BY <2>1 DEF TransferLp
  <2>4. PairTypes'
    BY <2>3 DEF PairInv, PairTypes
  <2>5. SharesBacked'
    BY <1>0, <2>2, <2>3 DEF PairInv, SharesBacked
  <2> QED BY <1>0, <2>2, <2>3, <2>4, <2>5, ValueSame DEF PairInv
<1>3. CASE \E i \in Assets, gift \in Gifts : Donate(i, gift)
  <2>1. PICK i \in Assets, gift \in Gifts : Donate(i, gift)
    BY <1>3
  <2>2. /\ pools' = [pools EXCEPT ![i] = pools[i] + gift] /\ gift \in Nat
        /\ UNCHANGED <<lp, supply, feeShare, prices, lastTime, now>>
    BY <1>0, <2>1 DEF Donate
  <2>3. pools' \in [Assets -> Nat] /\ \A j \in Assets : pools[j] <= pools'[j]
    BY <1>0, <2>2
  <2>4. SharesHeld' /\ PairTypes'
    BY <2>2, <2>3 DEF PairInv, SharesHeld, PairTypes
  <2>5. SharesBacked'
    BY <1>0, <2>2, <2>3 DEF PairInv, SharesBacked
  <2> QED BY <2>2, <2>3, <2>4, <2>5, ValueSame DEF PairInv
<1>4. CASE Tick
  <2>1. now' = now + 1 /\ UNCHANGED <<pools, lp, supply, feeShare, prices, lastTime>>
    BY <1>4 DEF Tick
  <2>2. PairInv'
    BY <2>1 DEF PairInv, SharesHeld, PairTypes, SharesBacked
  <2> QED BY <1>0, <2>1, <2>2, ValueSame
<1>5. CASE UNCHANGED pairVars
  <2>1. PairInv'
    BY <1>5 DEF pairVars, PairInv, SharesHeld, PairTypes, SharesBacked
  <2> QED BY <1>0, <1>5, <2>1, ValueSame DEF pairVars
<1> QED BY <1>1, <1>2, <1>3, <1>4, <1>5

LEMMA PairInit == Init => PairInv
<1> SUFFICES ASSUME Init PROVE PairInv
  OBVIOUS
<1>1. /\ lp = [h \in Holders |-> 0] /\ supply = 0
      /\ pools = [i \in Assets |-> 0] /\ feeShare = 0
      /\ prices = [i \in Assets |-> 0] /\ lastTime = 0 /\ now = 1
  BY DEF Init, LpInit
<1>2. SumTo(NumHolders, lp) = 0
  BY <1>1, HolderFacts, SumToZero DEF Holders
<1>3. SharesHeld
  BY <1>1, <1>2 DEF SharesHeld
<1>4. PairTypes
  BY <1>1, ScaleAssumption, PairAssumption DEF PairTypes
<1>5. SharesBacked
  BY <1>1 DEF SharesBacked
<1> QED BY <1>3, <1>4, <1>5 DEF PairInv

LEMMA PairStep ==
  ASSUME PairInv, MaxPool <= Scale, [Next]_pairVars
  PROVE  PairInv' /\ Value
<1>1. CASE \E receiver \in Users, autoStake \in BOOLEAN, x, y \in Deposits,
              tolerance \in Tolerances, least \in Minima :
             ProvideLiquidity(receiver, autoStake, <<x, y>>, tolerance, least)
  <2>1. PICK receiver \in Users, autoStake \in BOOLEAN, x \in Deposits, y \in Deposits,
             tolerance \in Tolerances, least \in Minima :
               ProvideLiquidity(receiver, autoStake, <<x, y>>, tolerance, least)
    BY <1>1
  <2> DEFINE deposit == <<x, y>>
  <2>2. deposit \in [Assets -> Deposits]
    BY DEF Assets
  <2> HIDE DEF deposit
  <2>3. ProvideLiquidity(receiver, autoStake, deposit, tolerance, least)
    BY <2>1 DEF deposit
  <2> QED BY <2>2, <2>3, ProvideStep
<1>2. CASE \E user \in Users, least \in Minima, amount \in LpAmounts : WithdrawLiquidity(user, amount, least)
  BY <1>2, WithdrawStep
<1>3. CASE \E offered \in Assets, offer \in Offers, info \in FeeInfos, belief \in BeliefPrices,
              maxSpread \in Tolerances : Swap(offered, offer, info, belief, maxSpread)
  <2>1. Offers \subseteq Nat
    BY PairAssumption
  <2> QED BY <1>3, <2>1, SwapStep
<1>4. CASE \/ \E rate \in FeeShares : UpdateConfig(rate)
           \/ \E from \in Users, to \in Holders, amount \in LpAmounts : TransferLp(from, to, amount)
           \/ \E i \in Assets, gift \in Gifts : Donate(i, gift)
           \/ Tick
           \/ UNCHANGED pairVars
  BY <1>4, OtherStep
<1> QED BY <1>1, <1>2, <1>3, <1>4 DEF Next
-----------------------------------------------------------------------------
(* The types of the pair, and the shares that are out: whatever was minted *)
(* to receivers and to the pair, staked, sent on or burned, the holders    *)
(* have together what the bank says of the supply.                         *)
THEOREM PairTypeCorrect == MaxPool <= Scale => (Spec => [](TypeOK /\ SharesHeld))
<1> SUFFICES ASSUME MaxPool <= Scale PROVE Spec => [](TypeOK /\ SharesHeld)
  OBVIOUS
<1>1. PairInv => TypeOK /\ SharesHeld
  BY DEF PairInv, SharesHeld, PairTypes, TypeOK, LpTypeOK
<1>2. PairInv /\ [Next]_pairVars => PairInv'
  BY PairStep
<1> QED BY <1>1, <1>2, PairInit, PTL DEF Spec

(* As long as there are shares, the pair has both assets and keeps the     *)
(* minimum liquidity (provide_liquidity, withdraw_liquidity, swap), for    *)
(* pools of up to Scale units.                                             *)
THEOREM SharesStayBacked == MaxPool <= Scale => (Spec => []SharesBacked)
<1> SUFFICES ASSUME MaxPool <= Scale PROVE Spec => []SharesBacked
  OBVIOUS
<1>1. PairInv => SharesBacked
  BY DEF PairInv
<1>2. PairInv /\ [Next]_pairVars => PairInv'
  BY PairStep
<1> QED BY <1>1, <1>2, PairInit, PTL DEF Spec

(* No message makes a share worth less (the rounding of shares, refunds    *)
(* and returns always favours those who stay), for pools of up to Scale    *)
(* units.                                                                  *)
THEOREM ShareValueHolds == MaxPool <= Scale => (Spec => ShareValueNeverFalls)
<1> SUFFICES ASSUME MaxPool <= Scale PROVE Spec => ShareValueNeverFalls
  OBVIOUS
<1>1. PairInv /\ [Next]_pairVars => PairInv'
  BY PairStep
<1>2. PairInv /\ [Next]_pairVars =>
        [supply > 0 /\ supply' > 0 =>
           pools[1] * pools[2] * supply' * supply' <= pools'[1] * pools'[2] * supply * supply]_pairVars
  BY PairStep DEF Value
<1> QED BY <1>1, <1>2, PairInit, PTL DEF Spec, ShareValueNeverFalls
-----------------------------------------------------------------------------
(* Histories.                                                              *)

(* The value at the last height and before. *)
LEMMA LoadsLater ==
  ASSUME NEW x, NEW n \in Nat, DOMAIN x.before \subseteq 1..n, NEW b, b \in 1..n,
         NEW m \in DOMAIN x.before, m >= b, \A h \in DOMAIN x.before : h >= b => m <= h
  PROVE  LoadAtHeight(x, b) = x.before[m]
<1> DEFINE later == {h \in DOMAIN x.before : h >= b}
           least == CHOOSE h \in later : \A g \in later : h <= g
<1>1. m \in later /\ \A g \in later : m <= g
  OBVIOUS
<1>2. least \in later /\ \A g \in later : least <= g
  BY <1>1
<1>3. least = m
  BY <1>1, <1>2
<1> QED BY <1>1, <1>3 DEF LoadAtHeight

LEMMA LoadsCurrent ==
  ASSUME NEW x, NEW b, \A h \in DOMAIN x.before : ~(h >= b)
  PROVE  LoadAtHeight(x, b) = x.current
BY DEF LoadAtHeight

(* Saving a value changes the current one alone: what every block began    *)
(* with, the one under way included, stays as it was.                      *)
KeptBySave(x, y, v, n) ==
  /\ y.current = v /\ DOMAIN y.before \subseteq 1..n
  /\ \A b \in 1..n : LoadAtHeight(y, b) = LoadAtHeight(x, b)

LEMMA SaveKeepsHistory ==
  ASSUME NEW x, NEW n \in Nat, n > 0, DOMAIN x.before \subseteq 1..n, NEW v
  PROVE  KeptBySave(x, SaveAt(x, v, n), v, n)
<1> DEFINE D == DOMAIN x.before
           y == SaveAt(x, v, n)
<1>0. y = SaveAt(x, v, n)
  OBVIOUS
<1> HIDE DEF y
<1>1. /\ y.current = v /\ DOMAIN y.before = D \cup {n}
      /\ \A h \in D \cup {n} : y.before[h] = IF h \in D THEN x.before[h] ELSE x.current
  BY <1>0 DEF SaveAt
<1>2. n \in 1..n
  OBVIOUS
<1>3. ASSUME NEW b \in 1..n PROVE LoadAtHeight(y, b) = LoadAtHeight(x, b)
  <2>1. CASE \E h \in D : h >= b
    <3> DEFINE T == {h \in D : h >= b}
    <3>1. T \in SUBSET Nat /\ T # {}
      BY <2>1
    <3>2. PICK m \in T : \A k \in T : m <= k
      BY <3>1, LeastNat
    <3>3. m \in D /\ m >= b /\ m \in 1..n /\ \A h \in D : h >= b => m <= h
      BY <3>2
    <3>4. LoadAtHeight(x, b) = x.before[m]
      BY <3>3, LoadsLater
    <3>5. m \in DOMAIN y.before /\ \A h \in DOMAIN y.before : h >= b => m <= h
      BY <1>1, <3>3
    <3>6. DOMAIN y.before \subseteq 1..n
      BY <1>1, <1>2
    <3>7. LoadAtHeight(y, b) = y.before[m]
      BY <3>3, <3>5, <3>6, LoadsLater
    <3> QED BY <1>1, <3>3, <3>4, <3>7
  <2>2. CASE ~ \E h \in D : h >= b
    <3>1. LoadAtHeight(x, b) = x.current
      BY <2>2, LoadsCurrent
    <3>2. n \in DOMAIN y.before /\ n >= b /\ \A h \in DOMAIN y.before : h >= b => n <= h
      BY <1>1, <1>2, <2>2
    <3>3. DOMAIN y.before \subseteq 1..n
      BY <1>1, <1>2
    <3>4. LoadAtHeight(y, b) = y.before[n]
      BY <3>2, <3>3, LoadsLater
    <3>5. n \notin D
      BY <2>2
    <3> QED BY <1>1, <3>1, <3>4, <3>5
  <2> QED BY <2>1, <2>2
<1>4. KeptBySave(x, y, v, n)
  BY <1>1, <1>2, <1>3 DEF KeptBySave
<1> QED BY <1>0, <1>4

(* Each snapshot agrees with what there is, and with what there was when   *)
(* each block began.                                                       *)
Follows(x, value, height) == x.current = value /\ DOMAIN x.before \subseteq 1..height

(* A record of a value, and what came since without being recorded, is     *)
(* what there was, now and when each block began.                          *)
Records(x, i) ==
  /\ DOMAIN x.before \subseteq 1..now
  /\ x.current \in Int /\ x.current + given[i] = pools[i]
  /\ \A b \in 1..now : LoadAtHeight(x, b) + began[b].given[i] = began[b].pools[i]

Recorded == Seq([pools : [Assets -> Nat], given : [Assets -> Nat], lp : [Holders -> Nat]])

HistoryInv ==
  /\ began \in Recorded /\ Len(began) = now /\ given \in [Assets -> Nat]
  /\ \A h \in Holders :
        /\ Follows(tracked[h], lp[h], now)
        /\ \A b \in 1..now : LoadAtHeight(tracked[h], b) = began[b].lp[h]
  /\ TrackBalances => \A i \in Assets : Records(balances[i], i)

(* The states between the movements of a message. *)
Passing(state) ==
  /\ state.bank \in [Holders -> Int]
  /\ \A h \in Holders :
        /\ Follows(state.kept[h], state.bank[h], now)
        /\ \A b \in 1..now : LoadAtHeight(state.kept[h], b) = began[b].lp[h]

LEMMA MoveKeeps ==
  ASSUME NEW state, Passing(state), now \in Nat \ {0}, NEW move, move.amount \in Int
  PROVE  LET next == AfterMove(state, move)
         IN  /\ Passing(next)
             /\ \A h \in Holders : next.bank[h] =
                   state.bank[h] - (IF h = move.from THEN move.amount ELSE 0)
                                 + (IF h = move.to THEN move.amount ELSE 0)
<1> DEFINE next == AfterMove(state, move)
           bank == BankAfter(state.bank, move)
           kept == TrackMove(state.kept, state.bank, move)
<1>1. next.bank = bank /\ next.kept = kept
  BY DEF AfterMove
<1>2. /\ bank \in [Holders -> Int]
      /\ \A h \in Holders : bank[h] =
            state.bank[h] - (IF h = move.from THEN move.amount ELSE 0)
                          + (IF h = move.to THEN move.amount ELSE 0)
  BY DEF BankAfter, Passing
<1>3. \A h \in Holders : kept[h] = IF h \in {move.from, move.to} /\ move.from # move.to
                                   THEN SaveAt(state.kept[h], bank[h], now) ELSE state.kept[h]
  BY DEF TrackMove
<1> HIDE DEF bank, kept
<1>4. ASSUME NEW h \in Holders
      PROVE  /\ Follows(kept[h], bank[h], now)
             /\ \A b \in 1..now : LoadAtHeight(kept[h], b) = began[b].lp[h]
  <2>1. /\ DOMAIN state.kept[h].before \subseteq 1..now /\ state.kept[h].current = state.bank[h]
        /\ \A b \in 1..now : LoadAtHeight(state.kept[h], b) = began[b].lp[h]
    BY DEF Passing, Follows
  <2>2. CASE h \in {move.from, move.to} /\ move.from # move.to
    <3>1. kept[h] = SaveAt(state.kept[h], bank[h], now)
      BY <1>3, <2>2
    <3>2. now \in Nat /\ now > 0
      OBVIOUS
    <3>3. /\ kept[h].current = bank[h] /\ DOMAIN kept[h].before \subseteq 1..now
          /\ \A b \in 1..now : LoadAtHeight(kept[h], b) = LoadAtHeight(state.kept[h], b)
      <4>1. KeptBySave(state.kept[h], SaveAt(state.kept[h], bank[h], now), bank[h], now)
        BY <2>1, <3>2, SaveKeepsHistory
      <4> QED BY <3>1, <4>1 DEF KeptBySave
    <3> QED BY <2>1, <3>3 DEF Follows
  <2>3. CASE ~(h \in {move.from, move.to} /\ move.from # move.to)
    <3>1. kept[h] = state.kept[h]
      BY <1>3, <2>3
    <3>2. state.bank[h] \in Int
      BY DEF Passing
    <3>3. bank[h] = state.bank[h]
      BY <1>2, <2>3, <3>2
    <3> QED BY <2>1, <3>1, <3>3 DEF Follows
  <2> QED BY <2>2, <2>3
<1>5. Passing(next)
  BY <1>1, <1>2, <1>4 DEF Passing
<1> QED BY <1>1, <1>2, <1>5

TrackStart == [bank |-> lp, kept |-> tracked]
Tracking(after, n, moves) ==
  after = [k \in 0..n |-> IF k = 0 THEN TrackStart ELSE AfterMove(after[k - 1], moves[k])]

(* The recursive function of Track exists. *)
LEMMA TrackingExists ==
  ASSUME NEW n \in Nat, NEW moves
  PROVE  \E after : Tracking(after, n, moves)
<1> DEFINE T == {m \in 0..n : \E after : Tracking(after, m, moves)}
<1>1. 0 \in T
  <2> DEFINE after == [k \in 0..0 |-> TrackStart]
  <2>1. Tracking(after, 0, moves)
    BY DEF Tracking
  <2> QED BY <2>1
<1>2. \A m \in 0..n : m < n /\ m \in T => m + 1 \in T
  <2> SUFFICES ASSUME NEW m \in 0..n, m < n, m \in T PROVE m + 1 \in T
    OBVIOUS
  <2>1. PICK g : Tracking(g, m, moves)
    OBVIOUS
  <2> DEFINE h == [k \in 0..(m + 1) |-> IF k = m + 1 THEN AfterMove(g[m], moves[m + 1]) ELSE g[k]]
  <2>2. \A k \in 0..(m + 1) : h[k] = IF k = 0 THEN TrackStart ELSE AfterMove(h[k - 1], moves[k])
    BY <2>1 DEF Tracking
  <2>3. h = [k \in 0..(m + 1) |-> h[k]]
    OBVIOUS
  <2> HIDE DEF h
  <2>4. Tracking(h, m + 1, moves)
    BY <2>2, <2>3 DEF Tracking
  <2> QED BY <2>4
<1> HIDE DEF T
<1>3. n \in T
  BY <1>1, <1>2, RangeInduction
<1> QED BY <1>3 DEF T

Through(after, moves, n) ==
  /\ after[0].bank = lp
  /\ \A k \in 1..n : \A h \in Holders : after[k].bank[h] =
        after[k - 1].bank[h] - (IF h = moves[k].from THEN moves[k].amount ELSE 0)
                             + (IF h = moves[k].to THEN moves[k].amount ELSE 0)
  /\ \A k \in 0..n : Passing(after[k])
  /\ tracked' = after[n].kept

(* Through all movements the tracker agrees with the bank. *)
LEMMA TrackKeeps ==
  ASSUME NEW moves, NEW n \in Nat, n = Len(moves), \A k \in 1..n : moves[k].amount \in Int,
         HistoryInv, now \in Nat \ {0}, lp \in [Holders -> Int], Track(moves)
  PROVE  \E after : Through(after, moves, n)
<1> DEFINE after == CHOOSE g : g = [k \in 0..n |-> IF k = 0 THEN TrackStart ELSE AfterMove(g[k - 1], moves[k])]
<1>1. PICK g0 : Tracking(g0, n, moves)
  BY TrackingExists
<1>2. after = [k \in 0..n |-> IF k = 0 THEN TrackStart ELSE AfterMove(after[k - 1], moves[k])]
  BY <1>1 DEF Tracking
<1>3. tracked' = after[n].kept
  BY DEF Track, TrackStart
<1> HIDE DEF after
<1>4. after[0] = TrackStart /\ \A k \in 1..n : after[k] = AfterMove(after[k - 1], moves[k])
  BY <1>2
<1>5. Passing(TrackStart) /\ TrackStart.bank = lp
  BY DEF TrackStart, Passing, HistoryInv
<1> DEFINE T == {k \in 0..n : Passing(after[k])}
<1>6. \A k \in 0..n : k \in T
  <2>1. 0 \in T
    BY <1>4, <1>5
  <2>2. \A m \in 0..n : m < n /\ m \in T => m + 1 \in T
    <3> SUFFICES ASSUME NEW m \in 0..n, m < n, m \in T PROVE m + 1 \in T
      OBVIOUS
    <3>1. m + 1 \in 1..n /\ (m + 1) - 1 = m
      OBVIOUS
    <3>2. after[m + 1] = AfterMove(after[m], moves[m + 1]) /\ moves[m + 1].amount \in Int
      BY <1>4, <3>1
    <3>3. Passing(AfterMove(after[m], moves[m + 1]))
      BY <3>2, MoveKeeps
    <3> QED BY <3>1, <3>2, <3>3
  <2> HIDE DEF T
  <2> QED BY <2>1, <2>2, RangeInduction
<1>7. ASSUME NEW k \in 1..n, NEW h \in Holders
      PROVE  after[k].bank[h] = after[k - 1].bank[h] - (IF h = moves[k].from THEN moves[k].amount ELSE 0)
                                      + (IF h = moves[k].to THEN moves[k].amount ELSE 0)
  <2>1. k - 1 \in 0..n
    OBVIOUS
  <2>2. Passing(after[k - 1]) /\ after[k] = AfterMove(after[k - 1], moves[k])
    BY <1>4, <1>6, <2>1
  <2> QED BY <2>2, MoveKeeps
<1>8. Through(after, moves, n)
  BY <1>3, <1>4, <1>5, <1>6, <1>7 DEF Through
<1> QED BY <1>8

(* What the messages do to the histories, in their two parts. *)
TrackedOK ==
  \A h \in Holders : /\ Follows(tracked[h], lp[h], now)
                     /\ \A b \in 1..now : LoadAtHeight(tracked[h], b) = began[b].lp[h]
BalancesOK ==
  given \in [Assets -> Nat] /\ (TrackBalances => \A i \in Assets : Records(balances[i], i))

LEMMA MovesTracked ==
  ASSUME NEW state, Passing(state), tracked' = state.kept, \A h \in Holders : state.bank[h] = lp'[h],
         UNCHANGED <<now, began>>
  PROVE  TrackedOK'
BY DEF Passing, TrackedOK

LEMMA BalancesSaved ==
  ASSUME HistoryInv, now \in Nat \ {0}, pools' \in [Assets -> Nat], NEW expected,
         \A i \in Assets : expected[i] = pools'[i], SaveBalances(expected), given' = NoGifts,
         UNCHANGED <<now, began>>
  PROVE  BalancesOK'
<1>0. given' \in [Assets -> Nat] /\ \A i \in Assets : given'[i] = 0
  BY DEF NoGifts
<1> SUFFICES ASSUME TrackBalances, NEW i \in Assets PROVE Records(balances[i], i)'
  BY <1>0 DEF BalancesOK
<1> DEFINE x == balances[i]
           y == balances'[i]
           v == expected[i]
<1>1. DOMAIN x.before \subseteq 1..now
  BY DEF HistoryInv, Records
<1>2. y = SaveAt(x, v, now)
  BY DEF SaveBalances
<1>3. now \in Nat /\ now > 0
  OBVIOUS
<1>4. \A b \in 1..now : LoadAtHeight(x, b) + began[b].given[i] = began[b].pools[i]
  BY DEF HistoryInv, Records
<1>5. v = pools'[i] /\ v \in Nat
  OBVIOUS
<1> HIDE DEF x, y, v
<1>6. KeptBySave(x, y, v, now)
  <2>1. KeptBySave(x, SaveAt(x, v, now), v, now)
    BY <1>1, <1>3, SaveKeepsHistory
  <2> QED BY ONLY <1>2, <2>1
<1>7. y.current \in Int /\ y.current + given'[i] = pools'[i]
  BY <1>0, <1>5, <1>6 DEF KeptBySave
<1> QED BY <1>4, <1>6, <1>7 DEF y, Records, KeptBySave

LEMMA HistoryParts ==
  /\ HistoryInv <=> (began \in Recorded /\ Len(began) = now /\ TrackedOK /\ BalancesOK)
  /\ HistoryInv' <=> (began' \in Recorded /\ Len(began') = now' /\ TrackedOK' /\ BalancesOK')
BY DEF HistoryInv, TrackedOK, BalancesOK

LEMMA PairFacts ==
  ASSUME PairInv
  PROVE  /\ lp \in [Holders -> Nat] /\ lp \in [Holders -> Int] /\ supply \in Nat
         /\ now \in Nat \ {0} /\ pools \in [Assets -> Nat] /\ 0 \notin Holders
         /\ Users \subseteq Holders /\ Self \in Holders /\ IncentivesAddr \in Holders
         /\ Self \notin Users /\ IncentivesAddr # Self /\ IncentivesAddr \notin Users
         /\ MinimumLiquidity \in Nat
<1>1. 0 \notin Holders /\ IncentivesAddr \notin Users
  BY NumUsersAssumption DEF Holders, NumHolders, IncentivesAddr, Users
<1>2. lp \in [Holders -> Nat] /\ lp \in [Holders -> Int]
  BY DEF PairInv, SharesHeld
<1> QED BY <1>1, <1>2, HolderFacts, MinimumLiquidityAssumption DEF PairInv, SharesHeld, PairTypes

LEMMA SendHistory ==
  ASSUME PairInv, HistoryInv, NEW from \in Users, NEW to \in Holders, NEW amount, Send(from, to, amount)
  PROVE  HistoryInv'
<1> DEFINE moves == <<Move(from, to, amount)>>
<1>1. /\ amount \in 1..lp[from] /\ from # to
      /\ lp' = [lp EXCEPT ![from] = @ - amount, ![to] = @ + amount]
      /\ Track(moves)
      /\ UNCHANGED <<pools, balances, now, given, began>>
  BY DEF Send, TransferLp, SendLp
<1>2. /\ Len(moves) = 1 /\ moves[1].from = from /\ moves[1].to = to /\ moves[1].amount = amount
  BY DEF Move
<1>3. amount \in Int /\ from \in Holders
  BY <1>1, PairFacts
<1> HIDE DEF moves
<1>4. PICK after : Through(after, moves, 1)
  <2>1. \A k \in 1..1 : moves[k].amount \in Int
    BY <1>2, <1>3
  <2> QED BY <1>1, <1>2, <2>1, PairFacts, TrackKeeps
<1>5. \A h \in Holders : after[1].bank[h] = lp[h] - (IF h = from THEN amount ELSE 0) + (IF h = to THEN amount ELSE 0)
  BY <1>2, <1>4 DEF Through
<1>6. \A h \in Holders : lp'[h] = after[1].bank[h]
  BY <1>1, <1>3, <1>5, PairFacts
<1>7. TrackedOK'
  <2>1. Passing(after[1]) /\ tracked' = after[1].kept
    BY <1>4 DEF Through
  <2> QED BY <1>1, <1>6, <2>1, MovesTracked
<1>8. BalancesOK'
  BY <1>1, HistoryParts DEF BalancesOK, Records
<1> QED BY <1>1, <1>7, <1>8, HistoryParts

LEMMA WithdrawHistory ==
  ASSUME PairInv, HistoryInv, PairInv', NEW user \in Users, NEW amount, NEW least, Withdraw(user, amount, least)
  PROVE  HistoryInv'
<1> DEFINE moves == <<Move(user, Self, amount), Move(Self, Module, amount)>>
           expected == [i \in Assets |-> pools[i] - ShareInAssets(pools, amount, supply)[i]]
<1>1. /\ amount \in 1..lp[user]
      /\ lp' = [lp EXCEPT ![user] = @ - amount]
      /\ Track(moves) /\ pools' = expected /\ SaveBalances(expected) /\ given' = NoGifts
      /\ UNCHANGED <<now, began>>
  BY DEF Withdraw, WithdrawLiquidity, BurnShares
<1>2. /\ Len(moves) = 2 /\ moves[1].from = user /\ moves[1].to = Self /\ moves[1].amount = amount
      /\ moves[2].from = Self /\ moves[2].to = 0 /\ moves[2].amount = amount
  BY DEF Move, Module
<1>3. amount \in Int /\ user \in Holders /\ user # Self /\ pools' \in [Assets -> Nat]
  BY <1>1, PairFacts DEF PairInv, PairTypes
<1> HIDE DEF moves, expected
<1>4. PICK after : Through(after, moves, 2)
  <2>1. \A k \in 1..2 : moves[k].amount \in Int
    BY <1>2, <1>3
  <2> QED BY <1>1, <1>2, <2>1, PairFacts, TrackKeeps
<1>5. \A h \in Holders : /\ after[1].bank[h] = lp[h] - (IF h = user THEN amount ELSE 0) + (IF h = Self THEN amount ELSE 0)
                         /\ after[2].bank[h] = after[1].bank[h] - (IF h = Self THEN amount ELSE 0) + (IF h = 0 THEN amount ELSE 0)
  BY <1>2, <1>4 DEF Through
<1>6. \A h \in Holders : lp'[h] = after[2].bank[h]
  BY <1>1, <1>3, <1>5, PairFacts
<1>7. TrackedOK'
  <2>1. Passing(after[2]) /\ tracked' = after[2].kept
    BY <1>4 DEF Through
  <2> QED BY <1>1, <1>6, <2>1, MovesTracked
<1>8. BalancesOK'
  BY <1>1, <1>3, PairFacts, BalancesSaved
<1> QED BY <1>1, <1>7, <1>8, HistoryParts

LEMMA FirstOf ==
  ASSUME NEW S, NEW a \in S, NEW s \in Seq(S), NEW r, r = <<a>> \o s
  PROVE  r[1] = a /\ Len(r) = Len(s) + 1 /\ \A k \in 1..Len(s) : r[k + 1] = s[k]
<1>1. <<a>> \in Seq(S) /\ Len(<<a>>) = 1 /\ <<a>>[1] = a /\ Len(s) \in Nat
  BY LenProperties
<1>2. Len(r) = 1 + Len(s) /\ \A i \in 1..(1 + Len(s)) : r[i] = IF i <= 1 THEN <<a>>[i] ELSE s[i - 1]
  BY <1>1, ConcatProperties
<1>3. \A k \in 1..Len(s) : k + 1 \in 1..(1 + Len(s)) /\ ~(k + 1 <= 1) /\ (k + 1) - 1 = k
  BY <1>1
<1>4. 1 \in 1..(1 + Len(s))
  BY <1>1
<1> QED BY <1>1, <1>2, <1>3, <1>4

(* Shares that are minted: to the pair as the first ones, then to the      *)
(* receiver, or to the pair and from it to the incentives.                 *)
LEMMA MintTracked ==
  ASSUME PairInv, HistoryInv, NEW receiver \in Users, NEW autoStake \in BOOLEAN, NEW share \in Nat,
         MintShares(receiver, autoStake, share, MinimumLiquidity),
         Track(Minted(receiver, autoStake, share)), UNCHANGED <<now, began>>
  PROVE  TrackedOK'
<1> DEFINE kept == IF supply = 0 THEN MinimumLiquidity ELSE 0
           to == Beneficiary(receiver, autoStake)
           first == Move(Module, Self, MinimumLiquidity)
           moves == Minted(receiver, autoStake, share)
           n == Len(moves)
<1>1. lp' = [lp EXCEPT ![Self] = @ + kept, ![to] = @ + share]
  BY DEF MintShares
<1>2. to \in Holders /\ to # Self /\ Self \in Holders /\ kept \in Nat /\ 0 \notin Holders
  BY PairFacts DEF Beneficiary
<1> HIDE DEF to, kept
<1>3. \A h \in Holders : lp'[h] = lp[h] + (IF h = Self THEN kept ELSE 0) + (IF h = to THEN share ELSE 0)
  BY <1>1, <1>2, PairFacts
<1>4. ASSUME n \in Nat, \A k \in 1..n : moves[k].amount \in Int,
             \A after : Through(after, moves, n) => \A h \in Holders : after[n].bank[h] = lp'[h]
      PROVE  TrackedOK'
  <2> HIDE DEF moves, n
  <2>1. PICK after : Through(after, moves, n)
    BY <1>4, PairFacts, TrackKeeps DEF n, moves
  <2>2. Passing(after[n]) /\ tracked' = after[n].kept
    BY <1>4, <2>1 DEF Through
  <2> QED BY <1>4, <2>1, <2>2, MovesTracked
<1> HIDE DEF moves
<1>5. CASE supply = 0 /\ autoStake
  <2> DEFINE S == {first, Move(Module, Self, share), Move(Self, IncentivesAddr, share)}
             rest == <<Move(Module, Self, share), Move(Self, IncentivesAddr, share)>>
  <2>0. first \in S /\ rest \in Seq(S) /\ moves = <<first>> \o rest
    BY <1>5 DEF Minted, moves
  <2>5. Len(rest) = 2 /\ rest[1] = Move(Module, Self, share) /\ rest[2] = Move(Self, IncentivesAddr, share)
    OBVIOUS
  <2> HIDE DEF S, rest, first
  <2>6. Len(moves) = Len(rest) + 1 /\ moves[1] = first /\ \A k \in 1..Len(rest) : moves[k + 1] = rest[k]
    BY <2>0, FirstOf
  <2>1. /\ Len(moves) = 3 /\ moves[1] = first
        /\ moves[2] = Move(Module, Self, share) /\ moves[3] = Move(Self, IncentivesAddr, share)
    <3>1. moves[1 + 1] = rest[1] /\ moves[2 + 1] = rest[2]
      BY <2>5, <2>6
    <3> QED BY <2>5, <2>6, <3>1
  <2>2. /\ n = 3 /\ moves[1].from = 0 /\ moves[1].to = Self /\ moves[1].amount = MinimumLiquidity
        /\ moves[2].from = 0 /\ moves[2].to = Self /\ moves[2].amount = share
        /\ moves[3].from = Self /\ moves[3].to = IncentivesAddr /\ moves[3].amount = share
    BY <2>1 DEF Move, Module, first
  <2>3. \A k \in 1..n : moves[k].amount \in Int
    BY <2>2, PairFacts
  <2>4. ASSUME NEW after, Through(after, moves, n), NEW h \in Holders PROVE after[n].bank[h] = lp'[h]
    <3>1. /\ after[1].bank[h] = lp[h] - (IF h = 0 THEN MinimumLiquidity ELSE 0) + (IF h = Self THEN MinimumLiquidity ELSE 0)
          /\ after[2].bank[h] = after[1].bank[h] - (IF h = 0 THEN share ELSE 0) + (IF h = Self THEN share ELSE 0)
          /\ after[3].bank[h] = after[2].bank[h] - (IF h = Self THEN share ELSE 0) + (IF h = IncentivesAddr THEN share ELSE 0)
      BY <2>2, <2>4 DEF Through
    <3>2. to = IncentivesAddr /\ kept = MinimumLiquidity
      BY <1>5 DEF to, kept, Beneficiary
    <3> QED BY <1>2, <1>3, <2>2, <3>1, <3>2, PairFacts
  <2> QED BY <1>4, <2>2, <2>3, <2>4
<1>6. CASE supply = 0 /\ ~autoStake
  <2> DEFINE S == {first, Move(Module, receiver, share)}
             rest == <<Move(Module, receiver, share)>>
  <2>0. first \in S /\ rest \in Seq(S) /\ moves = <<first>> \o rest
    BY <1>6 DEF Minted, moves
  <2>5. Len(rest) = 1 /\ rest[1] = Move(Module, receiver, share)
    OBVIOUS
  <2> HIDE DEF S, rest, first
  <2>6. Len(moves) = Len(rest) + 1 /\ moves[1] = first /\ \A k \in 1..Len(rest) : moves[k + 1] = rest[k]
    BY <2>0, FirstOf
  <2>1. Len(moves) = 2 /\ moves[1] = first /\ moves[2] = Move(Module, receiver, share)
    <3>1. moves[1 + 1] = rest[1]
      BY <2>5, <2>6
    <3> QED BY <2>5, <2>6, <3>1
  <2>2. /\ n = 2 /\ moves[1].from = 0 /\ moves[1].to = Self /\ moves[1].amount = MinimumLiquidity
        /\ moves[2].from = 0 /\ moves[2].to = receiver /\ moves[2].amount = share
    BY <2>1 DEF Move, Module, first
  <2>3. \A k \in 1..n : moves[k].amount \in Int
    BY <2>2, PairFacts
  <2>4. ASSUME NEW after, Through(after, moves, n), NEW h \in Holders PROVE after[n].bank[h] = lp'[h]
    <3>1. /\ after[1].bank[h] = lp[h] - (IF h = 0 THEN MinimumLiquidity ELSE 0) + (IF h = Self THEN MinimumLiquidity ELSE 0)
          /\ after[2].bank[h] = after[1].bank[h] - (IF h = 0 THEN share ELSE 0) + (IF h = receiver THEN share ELSE 0)
      BY <2>2, <2>4 DEF Through
    <3>2. to = receiver /\ kept = MinimumLiquidity
      BY <1>6 DEF to, kept, Beneficiary
    <3> QED BY <1>2, <1>3, <2>2, <3>1, <3>2, PairFacts
  <2> QED BY <1>4, <2>2, <2>3, <2>4
<1>7. CASE supply # 0 /\ autoStake
  <2>1. moves = <<Move(Module, Self, share), Move(Self, IncentivesAddr, share)>>
    BY <1>7 DEF Minted, moves
  <2>2. /\ n = 2 /\ moves[1].from = 0 /\ moves[1].to = Self /\ moves[1].amount = share
        /\ moves[2].from = Self /\ moves[2].to = IncentivesAddr /\ moves[2].amount = share
    BY <2>1 DEF Move, Module
  <2>3. \A k \in 1..n : moves[k].amount \in Int
    BY <2>2, PairFacts
  <2>4. ASSUME NEW after, Through(after, moves, n), NEW h \in Holders PROVE after[n].bank[h] = lp'[h]
    <3>1. /\ after[1].bank[h] = lp[h] - (IF h = 0 THEN share ELSE 0) + (IF h = Self THEN share ELSE 0)
          /\ after[2].bank[h] = after[1].bank[h] - (IF h = Self THEN share ELSE 0) + (IF h = IncentivesAddr THEN share ELSE 0)
      BY <2>2, <2>4 DEF Through
    <3>2. to = IncentivesAddr /\ kept = 0
      BY <1>7 DEF to, kept, Beneficiary
    <3> QED BY <1>2, <1>3, <2>2, <3>1, <3>2, PairFacts
  <2> QED BY <1>4, <2>2, <2>3, <2>4
<1>8. CASE supply # 0 /\ ~autoStake
  <2>1. moves = <<Move(Module, receiver, share)>>
    BY <1>8 DEF Minted, moves
  <2>2. n = 1 /\ moves[1].from = 0 /\ moves[1].to = receiver /\ moves[1].amount = share
    BY <2>1 DEF Move, Module
  <2>3. \A k \in 1..n : moves[k].amount \in Int
    BY <2>2, PairFacts
  <2>4. ASSUME NEW after, Through(after, moves, n), NEW h \in Holders PROVE after[n].bank[h] = lp'[h]
    <3>1. after[1].bank[h] = lp[h] - (IF h = 0 THEN share ELSE 0) + (IF h = receiver THEN share ELSE 0)
      BY <2>2, <2>4 DEF Through
    <3>2. to = receiver /\ kept = 0
      BY <1>8 DEF to, kept, Beneficiary
    <3> QED BY <1>2, <1>3, <2>2, <3>1, <3>2, PairFacts
  <2> QED BY <1>4, <2>2, <2>3, <2>4
<1> QED BY <1>5, <1>6, <1>7, <1>8

LEMMA ProvideHistory ==
  ASSUME PairInv, HistoryInv, PairInv', NEW receiver \in Users, NEW autoStake \in BOOLEAN,
         NEW deposit \in [Assets -> Deposits], NEW tolerance, NEW least,
         Provide(receiver, autoStake, deposit, tolerance, least)
  PROVE  HistoryInv'
<1> DEFINE share == IF supply = 0 THEN InitialShare(deposit) ELSE ShareOf(deposit, pools, supply)
           minted == supply' - supply - (IF supply = 0 THEN MinimumLiquidity ELSE 0)
           expected == [i \in Assets |-> pools[i] + deposit[i]]
<1>1. /\ ProvideLiquidity(receiver, autoStake, deposit, tolerance, least)
      /\ Track(Minted(receiver, autoStake, minted))
      /\ pools' = expected /\ SaveBalances(expected) /\ given' = NoGifts
      /\ UNCHANGED <<now, began>>
  BY DEF Provide, ProvideLiquidity
<1> HIDE DEF share
<1>2. share \in Nat /\ MintShares(receiver, autoStake, share, MinimumLiquidity)
  BY <1>1, ProvideShare DEF share
<1>3. minted = share
  <2>1. supply' = supply + (IF supply = 0 THEN MinimumLiquidity ELSE 0) + share
    BY <1>2 DEF MintShares
  <2> QED BY <1>2, <2>1, PairFacts
<1> HIDE DEF minted
<1>4. TrackedOK'
  BY <1>1, <1>2, <1>3, MintTracked
<1>5. BalancesOK'
  <2>1. pools' \in [Assets -> Nat]
    BY DEF PairInv, PairTypes
  <2> HIDE DEF expected
  <2> QED BY <1>1, <2>1, PairFacts, BalancesSaved
<1> QED BY <1>1, <1>4, <1>5, HistoryParts

(* Messages that leave the LP token alone. *)
LEMMA TrackedSame ==
  ASSUME HistoryInv, UNCHANGED <<lp, now, tracked, began>>
  PROVE  TrackedOK'
BY DEF HistoryInv, TrackedOK, Follows

LEMMA TradeHistory ==
  ASSUME PairInv, HistoryInv, PairInv', MaxPool <= Scale,
         NEW offered \in Assets, NEW offer \in Nat, NEW info \in FeeInfos,
         NEW belief, NEW maxSpread, Trade(offered, offer, info, belief, maxSpread)
  PROVE  HistoryInv'
<1> DEFINE expected == AfterSwap(pools, offered, offer, SwapResult(pools, offered, offer, info).leaving)
<1>1. /\ Swap(offered, offer, info, belief, maxSpread) /\ SaveBalances(expected)
      /\ given' = NoGifts /\ UNCHANGED <<lp, now, tracked, began>>
  BY DEF Trade, Swap
<1>2. \A i \in Assets : expected[i] = pools'[i]
  BY <1>1, SwapStep
<1> HIDE DEF expected
<1>3. BalancesOK'
  <2>1. pools' \in [Assets -> Nat]
    BY DEF PairInv, PairTypes
  <2> QED BY <1>1, <1>2, <2>1, PairFacts, BalancesSaved
<1> QED BY <1>1, <1>3, TrackedSame, HistoryParts

(* Messages that leave the saved balances alone: what the pools gain by    *)
(* them is a gift.                                                         *)
LEMMA QuietHistory ==
  ASSUME PairInv, HistoryInv, UNCHANGED <<lp, balances, now, tracked, began>>,
         given' \in [Assets -> Nat], \A i \in Assets : pools'[i] - given'[i] = pools[i] - given[i],
         pools' \in [Assets -> Nat]
  PROVE  HistoryInv'
<1>1. ASSUME TrackBalances, NEW i \in Assets
      PROVE  Records(balances[i], i)'
  <2>1. /\ balances[i].current \in Int /\ balances[i].current + given[i] = pools[i]
        /\ given[i] \in Nat /\ given'[i] \in Nat /\ pools[i] \in Nat /\ pools'[i] \in Nat
        /\ pools'[i] - given'[i] = pools[i] - given[i]
    BY <1>1, PairFacts DEF HistoryInv, Records
  <2>2. balances[i].current + given'[i] = pools'[i]
    BY <2>1
  <2> QED BY <1>1, <2>1, <2>2 DEF HistoryInv, Records
<1>2. BalancesOK'
  BY <1>1 DEF BalancesOK
<1> QED BY <1>2, TrackedSame, HistoryParts

(* A block begins: what there is now is what it begins with. *)
LEMMA NewBlockHistory ==
  ASSUME PairInv, HistoryInv, NewBlock
  PROVE  HistoryInv'
<1> DEFINE record == [pools |-> pools, given |-> given, lp |-> lp]
           n == now
<1>1. /\ now' = n + 1 /\ began' = Append(began, record)
      /\ UNCHANGED <<pools, lp, balances, tracked, given>>
  BY DEF NewBlock, Tick
<1>2. n \in Nat \ {0} /\ n = now
  BY PairFacts
<1>3. /\ began \in Recorded /\ Len(began) = n /\ given \in [Assets -> Nat]
      /\ \A h \in Holders :
            /\ Follows(tracked[h], lp[h], n)
            /\ \A b \in 1..n : LoadAtHeight(tracked[h], b) = began[b].lp[h]
      /\ TrackBalances => \A i \in Assets :
            /\ DOMAIN balances[i].before \subseteq 1..n
            /\ balances[i].current \in Int /\ balances[i].current + given[i] = pools[i]
            /\ \A b \in 1..n : LoadAtHeight(balances[i], b) + began[b].given[i] = began[b].pools[i]
  BY DEF HistoryInv, Records
<1>4. /\ record \in [pools : [Assets -> Nat], given : [Assets -> Nat], lp : [Holders -> Nat]]
      /\ record.pools = pools /\ record.given = given /\ record.lp = lp
  BY <1>3, PairFacts
<1> HIDE DEF record, n
<1>5. /\ began' \in Recorded /\ Len(began') = n + 1
      /\ \A b \in 1..n : began'[b] = began[b]
      /\ began'[n + 1] = record
  BY <1>1, <1>3, <1>4, AppendProperties DEF Recorded
<1>6. ASSUME NEW x, DOMAIN x.before \subseteq 1..n
      PROVE  LoadAtHeight(x, n + 1) = x.current
  <2>1. \A h \in DOMAIN x.before : ~(h >= n + 1)
    BY <1>2, <1>6
  <2> QED BY <2>1, LoadsCurrent
<1>7. \A b \in 1..(n + 1) : b \in 1..n \/ b = n + 1
  BY <1>2
<1>8. \A X : X \subseteq 1..n => X \subseteq 1..(n + 1)
  BY <1>2
<1>9. TrackedOK'
  <2> SUFFICES ASSUME NEW h \in Holders
               PROVE  /\ Follows(tracked[h], lp[h], n + 1)
                      /\ \A b \in 1..(n + 1) : LoadAtHeight(tracked[h], b) = began'[b].lp[h]
    BY <1>1 DEF TrackedOK
  <2>1. /\ tracked[h].current = lp[h] /\ DOMAIN tracked[h].before \subseteq 1..n
        /\ \A b \in 1..n : LoadAtHeight(tracked[h], b) = began[b].lp[h]
    BY <1>3 DEF Follows
  <2>2. LoadAtHeight(tracked[h], n + 1) = lp[h]
    BY <1>6, <2>1
  <2>3. DOMAIN tracked[h].before \subseteq 1..(n + 1)
    BY <1>8, <2>1
  <2> QED BY <1>4, <1>5, <1>7, <2>1, <2>2, <2>3 DEF Follows
<1>10. BalancesOK'
  <2> SUFFICES ASSUME TrackBalances, NEW i \in Assets
               PROVE  /\ DOMAIN balances[i].before \subseteq 1..(n + 1)
                      /\ balances[i].current \in Int /\ balances[i].current + given[i] = pools[i]
                      /\ \A b \in 1..(n + 1) :
                           LoadAtHeight(balances[i], b) + began'[b].given[i] = began'[b].pools[i]
    BY <1>1, <1>3 DEF BalancesOK, Records
  <2>1. /\ DOMAIN balances[i].before \subseteq 1..n
        /\ balances[i].current \in Int /\ balances[i].current + given[i] = pools[i]
        /\ \A b \in 1..n : LoadAtHeight(balances[i], b) + began[b].given[i] = began[b].pools[i]
    BY <1>3
  <2>2. LoadAtHeight(balances[i], n + 1) + given[i] = pools[i]
    BY <1>6, <2>1
  <2>3. DOMAIN balances[i].before \subseteq 1..(n + 1)
    BY <1>8, <2>1
  <2> QED BY <1>4, <1>5, <1>7, <2>1, <2>2, <2>3
<1> QED BY <1>1, <1>5, <1>9, <1>10, HistoryParts

LEMMA TrackerStart == TrackerInit => HistoryInv
<1> SUFFICES ASSUME TrackerInit PROVE HistoryInv
  OBVIOUS
<1> DEFINE record == [pools |-> pools, given |-> given, lp |-> lp]
           zero == Snapshot(0)
<1>1. /\ now = 1 /\ pools = [i \in Assets |-> 0] /\ lp = [h \in Holders |-> 0]
      /\ balances = [i \in Assets |-> zero] /\ tracked = [h \in Holders |-> zero]
      /\ given = [i \in Assets |-> 0] /\ began = <<record>>
  BY DEF TrackerInit, Init, LpInit, NoGifts
<1>2. zero.current = 0 /\ DOMAIN zero.before = {}
  BY DEF Snapshot
<1>3. \A b : LoadAtHeight(zero, b) = 0
  <2> HIDE DEF zero
  <2> QED BY <1>2, LoadsCurrent
<1>4. /\ record \in [pools : [Assets -> Nat], given : [Assets -> Nat], lp : [Holders -> Nat]]
      /\ \A i \in Assets : record.pools[i] = 0 /\ record.given[i] = 0
      /\ \A h \in Holders : record.lp[h] = 0
  BY <1>1
<1> HIDE DEF record, zero
<1>5. began \in Recorded /\ Len(began) = 1 /\ began[1] = record
  BY <1>1, <1>4 DEF Recorded
<1>6. 1..1 = {1}
  OBVIOUS
<1>7. \A h \in Holders : /\ Follows(tracked[h], lp[h], 1)
                         /\ \A b \in 1..1 : LoadAtHeight(tracked[h], b) = began[b].lp[h]
  BY <1>1, <1>2, <1>3, <1>4, <1>5, <1>6 DEF Follows
<1>8. \A i \in Assets : Records(balances[i], i)
  BY <1>1, <1>2, <1>3, <1>4, <1>5, <1>6 DEF Records
<1>9. given \in [Assets -> Nat]
  BY <1>1
<1> QED BY <1>1, <1>5, <1>7, <1>8, <1>9 DEF HistoryInv

(* Every message of the pair with its tracker, and a block's beginning. *)
LEMMA TrackerStep ==
  ASSUME PairInv, HistoryInv, MaxPool <= Scale, TrackerNext
  PROVE  PairInv' /\ HistoryInv' /\ Value
<1>1. CASE \E receiver \in Users, autoStake \in BOOLEAN, x, y \in Deposits,
              tolerance \in Tolerances, least \in Minima :
             Provide(receiver, autoStake, <<x, y>>, tolerance, least)
  <2>1. PICK receiver \in Users, autoStake \in BOOLEAN, x \in Deposits, y \in Deposits,
             tolerance \in Tolerances, least \in Minima :
               Provide(receiver, autoStake, <<x, y>>, tolerance, least)
    BY <1>1
  <2> DEFINE deposit == <<x, y>>
  <2>2. deposit \in [Assets -> Deposits]
    BY DEF Assets
  <2> HIDE DEF deposit
  <2>3. Provide(receiver, autoStake, deposit, tolerance, least)
    BY <2>1 DEF deposit
  <2>4. PairInv' /\ Value
    BY <2>2, <2>3, ProvideStep DEF Provide
  <2> QED BY <2>2, <2>3, <2>4, ProvideHistory
<1>2. CASE \E user \in Users, least \in Minima, amount \in LpAmounts : Withdraw(user, amount, least)
  <2>1. PICK user \in Users, least \in Minima, amount \in LpAmounts : Withdraw(user, amount, least)
    BY <1>2
  <2>2. PairInv' /\ Value
    BY <2>1, WithdrawStep DEF Withdraw
  <2> QED BY <2>1, <2>2, WithdrawHistory
<1>3. CASE \E from \in Users, to \in Holders, amount \in LpAmounts : Send(from, to, amount)
  <2>1. PICK from \in Users, to \in Holders, amount \in LpAmounts : Send(from, to, amount)
    BY <1>3
  <2>2. PairInv' /\ Value
    BY <2>1, OtherStep DEF Send
  <2> QED BY <2>1, <2>2, SendHistory
<1>4. CASE \E offered \in Assets, offer \in Offers, info \in FeeInfos, belief \in BeliefPrices,
              maxSpread \in Tolerances : Trade(offered, offer, info, belief, maxSpread)
  <2>1. PICK offered \in Assets, offer \in Offers, info \in FeeInfos, belief \in BeliefPrices,
             maxSpread \in Tolerances : Trade(offered, offer, info, belief, maxSpread)
    BY <1>4
  <2>2. offer \in Nat
    BY PairAssumption
  <2>3. PairInv' /\ Value
    BY <2>1, <2>2, SwapStep DEF Trade
  <2> QED BY <2>1, <2>2, <2>3, TradeHistory
<1>5. CASE \E rate \in FeeShares : Configure(rate)
  <2>1. PairInv' /\ Value
    BY <1>5, OtherStep DEF Configure
  <2>2. UNCHANGED <<pools, lp, balances, now, tracked, given, began>>
    BY <1>5 DEF Configure, UpdateConfig
  <2>3. /\ pools' \in [Assets -> Nat] /\ given' \in [Assets -> Nat]
        /\ \A i \in Assets : pools'[i] - given'[i] = pools[i] - given[i]
    BY <2>2, PairFacts DEF HistoryInv
  <2> QED BY <2>1, <2>2, <2>3, QuietHistory
<1>6. CASE \E i \in Assets, gift \in Gifts : Give(i, gift)
  <2>1. PICK i \in Assets, gift \in Gifts : Give(i, gift)
    BY <1>6
  <2>2. PairInv' /\ Value
    BY <2>1, OtherStep DEF Give
  <2>3. /\ UNCHANGED <<lp, balances, now, tracked, began>>
        /\ pools' = [pools EXCEPT ![i] = @ + gift] /\ given' = [given EXCEPT ![i] = @ + gift]
    BY <2>1 DEF Give, Donate
  <2>4. gift \in Nat
    BY PairAssumption
  <2>5. /\ pools' \in [Assets -> Nat] /\ given' \in [Assets -> Nat]
        /\ \A j \in Assets : pools'[j] - given'[j] = pools[j] - given[j]
    <3>1. pools \in [Assets -> Nat] /\ given \in [Assets -> Nat]
      BY PairFacts DEF HistoryInv
    <3> QED BY <2>3, <2>4, <3>1
  <2> QED BY <2>2, <2>3, <2>5, QuietHistory
<1>7. CASE NewBlock
  <2>1. PairInv' /\ Value
    BY <1>7, OtherStep DEF NewBlock
  <2> QED BY <1>7, <2>1, NewBlockHistory
<1> QED BY <1>1, <1>2, <1>3, <1>4, <1>5, <1>6, <1>7 DEF TrackerNext
-----------------------------------------------------------------------------
(* Routes.                                                                 *)

(* What a route that was accepted so far has made of the pools, and what   *)
(* the router holds under way.                                             *)
OnTheWay(travel) ==
  /\ DOMAIN travel = {"accepted", "held", "expected", "began", "routed", "paid"}
  /\ travel.accepted =>
       /\ travel.held \in [Assets -> Nat] /\ travel.routed \in [Assets -> Nat]
       /\ pools[1] * pools[2] <= travel.held[1] * travel.held[2]
       /\ \A i \in Assets : travel.expected[i] = travel.held[i]

Travelling(after, n, path, sent, info, maxSpread) ==
  after = [k \in 0..n |-> IF k = 0 THEN SetOut(path, sent)
                          ELSE ExecuteSwapOperation(after[k - 1], path, k, info, maxSpread)]

(* The recursive function of Travel exists. *)
LEMMA TravellingExists ==
  ASSUME NEW n \in Nat, NEW path, NEW sent, NEW info, NEW maxSpread
  PROVE  \E after : Travelling(after, n, path, sent, info, maxSpread)
<1> DEFINE T == {m \in 0..n : \E after : Travelling(after, m, path, sent, info, maxSpread)}
<1>1. 0 \in T
  <2> DEFINE after == [k \in 0..0 |-> SetOut(path, sent)]
  <2>1. Travelling(after, 0, path, sent, info, maxSpread)
    BY DEF Travelling
  <2> QED BY <2>1
<1>2. \A m \in 0..n : m < n /\ m \in T => m + 1 \in T
  <2> SUFFICES ASSUME NEW m \in 0..n, m < n, m \in T PROVE m + 1 \in T
    OBVIOUS
  <2>1. PICK g : Travelling(g, m, path, sent, info, maxSpread)
    OBVIOUS
  <2> DEFINE h == [k \in 0..(m + 1) |-> IF k = m + 1 THEN ExecuteSwapOperation(g[m], path, m + 1, info, maxSpread)
                                        ELSE g[k]]
  <2>2. \A k \in 0..(m + 1) : h[k] = IF k = 0 THEN SetOut(path, sent)
                                     ELSE ExecuteSwapOperation(h[k - 1], path, k, info, maxSpread)
    BY <2>1 DEF Travelling
  <2>3. h = [k \in 0..(m + 1) |-> h[k]]
    OBVIOUS
  <2> HIDE DEF h
  <2>4. Travelling(h, m + 1, path, sent, info, maxSpread)
    BY <2>2, <2>3 DEF Travelling
  <2> QED BY <2>4
<1> HIDE DEF T
<1>3. n \in T
  BY <1>1, <1>2, RangeInduction
<1> QED BY <1>3 DEF T

LEMMA PaidNat ==
  ASSUME NEW held \in [Assets -> Nat], NEW offered \in Assets, NEW offer \in Nat, NEW info \in FeeInfos,
         MaxPool <= Scale, Tradable(held, offer), held[offered] + offer <= MaxPool
  PROVE  SwapResult(held, offered, offer, info).paid \in Nat
<1> DEFINE gross == GrossReturn(held[offered], held[Other(offered)], offer)
<1>0. Scale \in Nat \ {0} /\ MaxPool \in Nat /\ info.total \in 0..Scale
  BY PairAssumption, ScaleAssumption
<1>1. Other(offered) \in Assets
  BY DEF Other, Assets
<1>2. held[offered] \in Nat \ {0} /\ held[Other(offered)] \in Nat \ {0} /\ held[offered] + offer <= Scale
  BY <1>0, <1>1 DEF Tradable, Assets
<1> DEFINE x == held[offered]
           a == held[Other(offered)]
<1>3. gross \in Nat
  <2>1. x \in Nat \ {0} /\ a \in Nat \ {0} /\ x + offer <= Scale
    BY <1>2
  <2> HIDE DEF x, a
  <2>2. GrossReturn(x, a, offer) \in 0..(a - 1)
    BY <2>1, GrossBounds
  <2>3. GrossReturn(x, a, offer) \in Nat
    BY <2>1, <2>2
  <2> QED BY <2>3 DEF x, a
<1> HIDE DEF gross
<1>4. Times(gross, info.total) \in 0..gross
  BY <1>0, <1>3, TimesWithin
<1>5. SwapResult(held, offered, offer, info).paid = gross - Times(gross, info.total)
  BY DEF SwapResult, gross
<1> QED BY <1>3, <1>4, <1>5

(* One swap of a route: it offers all that the router has of its asset,    *)
(* and the last one leaves what it pays to the receiver.                   *)
LEMMA HopKeeps ==
  ASSUME MaxPool <= Scale, feeShare \in 0..Scale, pools \in [Assets -> Nat],
         NEW travel, OnTheWay(travel), NEW path, NEW k, path[k] \in Assets,
         NEW info \in FeeInfos, NEW maxSpread, NEW next,
         next = ExecuteSwapOperation(travel, path, k, info, maxSpread)
  PROVE  /\ OnTheWay(next)
         /\ next.accepted =>
              /\ travel.accepted
              /\ next.held \in [Assets -> Nat \ {0}]
              /\ next.routed[path[k]] = 0
              /\ k = Len(path) => next.routed[Other(path[k])] = travel.routed[Other(path[k])]
<1> DEFINE offered == path[k]
           other == Other(offered)
           offer == travel.routed[offered]
           result == SwapResult(travel.held, offered, offer, info)
           back == IF k = Len(path) THEN 0 ELSE result.paid
           leaving == result.leaving
           held == Exchanged(travel.held, offered, offer, leaving)
           expected == AfterSwap(travel.held, offered, offer, leaving)
           passes == travel.accepted /\ SwapAccepted(travel.held, offered, offer, info, BeliefPrice(path), maxSpread)
<1>1. CASE ~passes
  <2>1. next = [travel EXCEPT !.accepted = FALSE]
    BY <1>1 DEF ExecuteSwapOperation, Offer
  <2> QED BY <2>1 DEF OnTheWay
<1>2. CASE passes
  <2>1. next = [travel EXCEPT !.held = held, !.expected = expected, !.routed[offered] = @ - offer,
                              !.routed[other] = @ + back, !.paid = result.paid]
    BY <1>2 DEF ExecuteSwapOperation, Offer
  <2>2. /\ travel.accepted /\ SwapAccepted(travel.held, offered, offer, info, BeliefPrice(path), maxSpread)
        /\ travel.held \in [Assets -> Nat] /\ travel.routed \in [Assets -> Nat]
        /\ pools[1] * pools[2] <= travel.held[1] * travel.held[2]
    BY <1>2 DEF OnTheWay
  <2>3. offered \in Assets /\ offer \in Nat /\ other \in Assets /\ other # offered
    BY <2>2 DEF Other, Assets
  <2>4. /\ held \in [Assets -> Nat \ {0}]
        /\ travel.held[1] * travel.held[2] <= held[1] * held[2]
        /\ \A i \in Assets : expected[i] = held[i]
    <3> DEFINE h == travel.held
               b == BeliefPrice(path)
    <3>1. h \in [Assets -> Nat] /\ SwapAccepted(h, offered, offer, info, b, maxSpread)
      BY <2>2
    <3>2. leaving = SwapResult(h, offered, offer, info).leaving
      OBVIOUS
    <3>3. held = Exchanged(h, offered, offer, leaving) /\ expected = AfterSwap(h, offered, offer, leaving)
      OBVIOUS
    <3> HIDE DEF h, b, offered, offer, leaving, held, expected
    <3>4. /\ held \in [Assets -> Nat \ {0}]
          /\ h[1] * h[2] <= held[1] * held[2]
          /\ \A i \in Assets : AfterSwap(h, offered, offer, leaving)[i] = held[i]
      BY <2>3, <3>1, <3>2, <3>3, ExchangeKeeps
    <3> QED BY <3>3, <3>4 DEF h
  <2>5. back \in Nat
    <3>1. Tradable(travel.held, offer) /\ travel.held[offered] + offer <= MaxPool
      BY <2>2 DEF SwapAccepted
    <3>2. result.paid \in Nat
      BY <2>2, <2>3, <3>1, PaidNat
    <3> QED BY <3>2
  <2> HIDE DEF offer, held, expected, back, result, offered, other
  <2>6. /\ DOMAIN next = {"accepted", "held", "expected", "began", "routed", "paid"}
        /\ next.held = held /\ next.expected = expected
        /\ next.routed = [travel.routed EXCEPT ![offered] = @ - offer, ![other] = @ + back]
    BY <2>1 DEF OnTheWay
  <2>7. /\ next.routed \in [Assets -> Nat]
        /\ next.routed[offered] = 0 /\ next.routed[other] = travel.routed[other] + back
    <3>1. next.routed = [travel.routed EXCEPT ![offered] = 0, ![other] = travel.routed[other] + back]
      BY <2>2, <2>3, <2>6 DEF offer
    <3> QED BY <2>2, <2>3, <2>5, <3>1
  <2>8. pools[1] * pools[2] <= held[1] * held[2]
    <3> DEFINE a == pools[1] * pools[2]
               b == travel.held[1] * travel.held[2]
               c == held[1] * held[2]
    <3>1. a \in Int /\ b \in Int /\ c \in Int
      BY <2>2, <2>4 DEF Assets
    <3>2. a <= b /\ b <= c
      BY <2>2, <2>4
    <3> HIDE DEF a, b, c
    <3>3. a <= c
      BY <3>1, <3>2
    <3> QED BY <3>3 DEF a, c
  <2>9. OnTheWay(next)
    <3>1. held \in [Assets -> Nat]
      BY <2>4
    <3> QED BY <2>4, <2>6, <2>7, <2>8, <3>1 DEF OnTheWay
  <2>10. k = Len(path) => next.routed[other] = travel.routed[other]
    <3>1. travel.routed[other] \in Nat
      BY <2>2, <2>3
    <3> QED BY <2>7, <3>1 DEF back
  <2> QED BY <2>2, <2>4, <2>6, <2>7, <2>9, <2>10 DEF offered, other
<1> QED BY <1>1, <1>2

(* A route that is accepted improves the pools, expects them to be what    *)
(* they are, and leaves nothing of any asset it offered with the router.   *)
LEMMA RouteKeeps ==
  ASSUME PairInv, MaxPool <= Scale, routed \in [Assets -> Nat],
         NEW path \in Paths, NEW sent \in Nat, NEW info \in FeeInfos, NEW maxSpread,
         AssertOperations(path), NEW end, end = Travel(path, sent, info, maxSpread), end.accepted
  PROVE  /\ end.held \in [Assets -> Nat \ {0}] /\ end.routed \in [Assets -> Nat]
         /\ pools[1] * pools[2] <= end.held[1] * end.held[2]
         /\ \A i \in Assets : end.expected[i] = end.held[i]
         /\ \A k \in 1..Len(path) : end.routed[path[k]] = 0
<1> DEFINE n == Len(path)
<1>0. feeShare \in 0..Scale /\ pools \in [Assets -> Nat]
  BY DEF PairInv, PairTypes
<1>1. n \in Nat /\ n >= 1 /\ \A k \in 1..n : path[k] \in Assets
  <2>1. PICK hops \in 1..(MaxHops + 1) : path \in [1..hops -> Assets]
    BY DEF Paths
  <2>2. hops \in Nat /\ hops >= 1
    BY RouterAssumption
  <2>3. Len(path) = hops
    BY <2>1, <2>2
  <2> QED BY <2>1, <2>2, <2>3
<1>2. \A k \in 1..(n - 1) : path[k + 1] = Other(path[k])
  BY DEF AssertOperations
<1> DEFINE after == CHOOSE g : g = [k \in 0..n |-> IF k = 0 THEN SetOut(path, sent)
                                          ELSE ExecuteSwapOperation(g[k - 1], path, k, info, maxSpread)]
<1>3. PICK g0 : Travelling(g0, n, path, sent, info, maxSpread)
  BY <1>1, TravellingExists
<1>4. after = [k \in 0..n |-> IF k = 0 THEN SetOut(path, sent)
                              ELSE ExecuteSwapOperation(after[k - 1], path, k, info, maxSpread)]
  BY <1>3 DEF Travelling
<1>5. end = after[n]
  BY DEF Travel
<1> HIDE DEF after, n
<1>6. /\ after[0] = SetOut(path, sent)
      /\ \A k \in 1..n : after[k] = ExecuteSwapOperation(after[k - 1], path, k, info, maxSpread)
  <2>1. 0 \in 0..n /\ \A k \in 1..n : k \in 0..n /\ k # 0
    BY <1>1
  <2>2. after[0] = SetOut(path, sent)
    BY <1>4, <2>1
  <2>3. ASSUME NEW k \in 1..n
        PROVE  after[k] = ExecuteSwapOperation(after[k - 1], path, k, info, maxSpread)
    BY <1>4, <2>1
  <2> QED BY <2>2, <2>3
<1> DEFINE T == {k \in 0..n : OnTheWay(after[k])}
<1>7. \A k \in 0..n : k \in T
  <2>1. 0 \in T
    <3>1. 0 \in 0..n /\ path[1] \in Assets
      BY <1>1
    <3> DEFINE held == [routed EXCEPT ![path[1]] = @ + sent]
    <3>2. held \in [Assets -> Nat]
      BY <3>1
    <3>3. after[0] = [accepted |-> TRUE, held |-> pools, expected |-> pools,
                      began |-> held, routed |-> held, paid |-> 0]
      BY <1>6 DEF SetOut
    <3> HIDE DEF held
    <3>4. pools[1] * pools[2] \in Int
      BY <1>0 DEF Assets
    <3>5. OnTheWay(after[0])
      BY <1>0, <3>2, <3>3, <3>4 DEF OnTheWay
    <3> QED BY <3>1, <3>5
  <2>2. \A m \in 0..n : m < n /\ m \in T => m + 1 \in T
    <3> SUFFICES ASSUME NEW m \in 0..n, m < n, m \in T PROVE m + 1 \in T
      OBVIOUS
    <3>1. m + 1 \in 1..n /\ (m + 1) - 1 = m /\ m + 1 \in 0..n
      BY <1>1
    <3>2. after[m + 1] = ExecuteSwapOperation(after[m], path, m + 1, info, maxSpread) /\ path[m + 1] \in Assets
      BY <1>1, <1>6, <3>1
    <3>3. OnTheWay(after[m])
      OBVIOUS
    <3>4. OnTheWay(after[m + 1])
      BY <1>0, <3>2, <3>3, HopKeeps
    <3> QED BY <3>1, <3>4
  <2> HIDE DEF T
  <2> QED BY <1>1, <2>1, <2>2, RangeInduction
<1>8. ASSUME NEW k \in 1..n
      PROVE  after[k].accepted =>
               /\ after[k - 1].accepted
               /\ after[k].held \in [Assets -> Nat \ {0}]
               /\ after[k].routed[path[k]] = 0
               /\ k = n => after[k].routed[Other(path[k])] = after[k - 1].routed[Other(path[k])]
  <2>1. k - 1 \in 0..n /\ path[k] \in Assets
    BY <1>1
  <2>2. OnTheWay(after[k - 1]) /\ after[k] = ExecuteSwapOperation(after[k - 1], path, k, info, maxSpread)
    BY <1>6, <1>7, <2>1
  <2> DEFINE travel == after[k - 1]
             next == after[k]
  <2>3. OnTheWay(travel) /\ next = ExecuteSwapOperation(travel, path, k, info, maxSpread)
    BY <2>2
  <2> HIDE DEF travel, next
  <2>4. next.accepted =>
          /\ travel.accepted
          /\ next.held \in [Assets -> Nat \ {0}]
          /\ next.routed[path[k]] = 0
          /\ k = Len(path) => next.routed[Other(path[k])] = travel.routed[Other(path[k])]
    BY <1>0, <2>1, <2>3, HopKeeps
  <2> QED BY <2>4 DEF travel, next, n
<1>9. n \in 1..n /\ n \in 0..n /\ after[n].accepted /\ OnTheWay(after[n])
  BY <1>1, <1>5, <1>7
<1>10. /\ end.held \in [Assets -> Nat \ {0}] /\ end.routed \in [Assets -> Nat]
       /\ pools[1] * pools[2] <= end.held[1] * end.held[2]
       /\ \A i \in Assets : end.expected[i] = end.held[i]
  BY <1>5, <1>8, <1>9 DEF OnTheWay
<1>11. ASSUME NEW k \in 1..n PROVE end.routed[path[k]] = 0
  <2>1. end.routed[path[n]] = 0
    BY <1>5, <1>8, <1>9
  <2>2. CASE n = 1
    BY <1>1, <2>1, <2>2
  <2>3. CASE n > 1
    <3>1. n - 1 \in 1..n /\ n - 1 \in 1..(n - 1) /\ (n - 1) + 1 = n
      BY <1>1, <2>3
    <3>2. path[n] = Other(path[n - 1]) /\ path[n - 1] \in Assets /\ path[n] \in Assets
      BY <1>1, <1>2, <1>9, <3>1 DEF n
    <3>3. Other(path[n]) = path[n - 1] /\ Assets = {path[n], path[n - 1]}
      BY <3>2 DEF Other, Assets
    <3>4. after[n - 1].accepted
      BY <1>8, <1>9
    <3>5. after[n - 1].routed[path[n - 1]] = 0
      BY <1>8, <3>1, <3>4
    <3>6. end.routed[path[n - 1]] = 0
      BY <1>5, <1>8, <1>9, <3>3, <3>5
    <3> QED BY <1>1, <2>1, <3>3, <3>6
  <2> QED BY <1>1, <2>2, <2>3
<1> QED BY <1>10, <1>11 DEF n

RouterInv == PairInv /\ HistoryInv /\ routed \in [Assets -> Nat]

LEMMA RouteStep ==
  ASSUME RouterInv, MaxPool <= Scale, NEW path \in Paths, NEW sent \in RouteOffers, NEW least,
         NEW info \in FeeInfos, NEW maxSpread, ExecuteSwapOperations(path, sent, least, info, maxSpread)
  PROVE  RouterInv' /\ Value /\ \A k \in 1..Len(path) : routed'[path[k]] = 0
<1> DEFINE end == Travel(path, sent, info, maxSpread)
<1>1. /\ AssertOperations(path) /\ end.accepted
      /\ pools' = end.held /\ routed' = end.routed
      /\ SaveBalances(end.expected) /\ AccumulatePrices /\ given' = NoGifts
      /\ UNCHANGED <<lp, supply, feeShare, now, tracked, began>>
  BY DEF ExecuteSwapOperations
<1>2. /\ end.held \in [Assets -> Nat \ {0}] /\ end.routed \in [Assets -> Nat]
      /\ pools[1] * pools[2] <= end.held[1] * end.held[2]
      /\ \A i \in Assets : end.expected[i] = end.held[i]
      /\ \A k \in 1..Len(path) : end.routed[path[k]] = 0
  <2>1. sent \in Nat /\ PairInv /\ routed \in [Assets -> Nat]
    BY RouterAssumption DEF RouterInv
  <2>2. end = Travel(path, sent, info, maxSpread)
    OBVIOUS
  <2> HIDE DEF end
  <2> QED BY <1>1, <2>1, <2>2, RouteKeeps
<1> DEFINE expected == end.expected
<1>3. /\ pools' \in [Assets -> Nat \ {0}] /\ pools' \in [Assets -> Nat]
      /\ pools[1] * pools[2] <= pools'[1] * pools'[2]
      /\ \A i \in Assets : expected[i] = pools'[i]
      /\ SaveBalances(expected)
  <2> HIDE DEF end
  <2> QED BY <1>1, <1>2
<1> HIDE DEF end, expected
<1>4. PairInv' /\ Value
  BY <1>1, <1>3, PoolsTraded DEF RouterInv
<1>5. HistoryInv'
  <2>1. BalancesOK'
    BY <1>1, <1>3, PairFacts, BalancesSaved DEF RouterInv
  <2>2. TrackedOK'
    BY <1>1, TrackedSame DEF RouterInv
  <2>3. began' \in Recorded /\ Len(began') = now'
    BY <1>1 DEF RouterInv, HistoryInv
  <2> QED BY <2>1, <2>2, <2>3, HistoryParts
<1> QED BY <1>1, <1>2, <1>4, <1>5 DEF RouterInv

LEMMA RouterStep ==
  ASSUME RouterInv, MaxPool <= Scale, [RouterNext]_routerVars
  PROVE  RouterInv' /\ Value
<1>1. CASE TrackerNext /\ UNCHANGED routed
  BY <1>1, TrackerStep DEF RouterInv
<1>2. CASE \E path \in Paths, sent \in RouteOffers, least \in Minima, info \in FeeInfos,
              maxSpread \in Tolerances : ExecuteSwapOperations(path, sent, least, info, maxSpread)
  <2>1. PICK path \in Paths, sent \in RouteOffers, least \in Minima, info \in FeeInfos,
             maxSpread \in Tolerances : ExecuteSwapOperations(path, sent, least, info, maxSpread)
    BY <1>2
  <2> QED BY <2>1, RouteStep
<1>3. CASE \/ \E i \in Assets, gift \in RouterGifts : LeaveWithRouter(i, gift)
           \/ UNCHANGED routerVars
  <2>1. UNCHANGED <<pools, lp, supply, feeShare, prices, lastTime, balances, now, tracked, given, began>>
    BY <1>3 DEF LeaveWithRouter, routerVars, vars, pairVars
  <2>2. routed' \in [Assets -> Nat]
    <3>1. CASE UNCHANGED routerVars
      BY <3>1 DEF routerVars, RouterInv
    <3>2. CASE \E i \in Assets, gift \in RouterGifts : LeaveWithRouter(i, gift)
      <4>1. PICK i \in Assets, gift \in RouterGifts : LeaveWithRouter(i, gift)
        BY <3>2
      <4>2. gift \in Nat /\ routed' = [routed EXCEPT ![i] = @ + gift]
        BY <4>1, RouterAssumption DEF LeaveWithRouter
      <4> QED BY <4>2 DEF RouterInv
    <3> QED BY <1>3, <3>1, <3>2
  <2>3. PairInv'
    BY <2>1 DEF RouterInv, PairInv, SharesHeld, PairTypes, SharesBacked
  <2>4. /\ pools' \in [Assets -> Nat] /\ given' \in [Assets -> Nat]
        /\ \A i \in Assets : pools'[i] - given'[i] = pools[i] - given[i]
    BY <2>1, PairFacts DEF RouterInv, HistoryInv
  <2>5. Value
    BY <2>1, <2>4, ValueSame DEF RouterInv
  <2>6. HistoryInv'
    BY <2>1, <2>4, QuietHistory DEF RouterInv
  <2> QED BY <2>2, <2>3, <2>5, <2>6 DEF RouterInv
<1> QED BY <1>1, <1>2, <1>3 DEF RouterNext

LEMMA RouterStart == RouterInit => RouterInv
<1> SUFFICES ASSUME RouterInit PROVE RouterInv
  OBVIOUS
<1>1. Init /\ TrackerInit /\ routed = [i \in Assets |-> 0]
  BY DEF RouterInit, TrackerInit
<1> QED BY <1>1, PairInit, TrackerStart DEF RouterInv
-----------------------------------------------------------------------------
(* What the pair saved of its balances is, for every earlier block and for *)
(* the present, what it held less exactly what it was given since its last *)
(* message: whatever deposits, withdrawals, swaps, routes and gifts there  *)
(* are in a block, in which order, and however many blocks have none (the  *)
(* saves of BALANCES in the handlers of contracts/pair).                   *)
THEOREM BalanceHistoryAlwaysHolds == MaxPool <= Scale => (RouterSpec => []BalanceHistoryHolds)
<1> SUFFICES ASSUME MaxPool <= Scale PROVE RouterSpec => []BalanceHistoryHolds
  OBVIOUS
<1>1. RouterInv => BalanceHistoryHolds
  BY DEF RouterInv, HistoryInv, Records, BalanceHistoryHolds
<1>2. RouterInv /\ [RouterNext]_routerVars => RouterInv'
  BY RouterStep
<1> QED BY <1>1, <1>2, RouterStart, PTL DEF RouterSpec

(* The tracker answers for every holder and block what he had of the LP    *)
(* token when the block began, and for the present what he has, through    *)
(* mints, autostaking, withdrawals and transfers (track_balances).         *)
THEOREM TrackerAlwaysAgrees == MaxPool <= Scale => (RouterSpec => []TrackedAsHeld)
<1> SUFFICES ASSUME MaxPool <= Scale PROVE RouterSpec => []TrackedAsHeld
  OBVIOUS
<1>1. RouterInv => TrackedAsHeld
  BY DEF RouterInv, HistoryInv, Follows, TrackedAsHeld, BalanceAt
<1>2. RouterInv /\ [RouterNext]_routerVars => RouterInv'
  BY RouterStep
<1> QED BY <1>1, <1>2, RouterStart, PTL DEF RouterSpec

(* With routes too the shares stay backed. *)
THEOREM SharesStayBackedOnRoutes == MaxPool <= Scale => (RouterSpec => []SharesBacked)
<1> SUFFICES ASSUME MaxPool <= Scale PROVE RouterSpec => []SharesBacked
  OBVIOUS
<1>1. RouterInv => SharesBacked
  BY DEF RouterInv, PairInv
<1>2. RouterInv /\ [RouterNext]_routerVars => RouterInv'
  BY RouterStep
<1> QED BY <1>1, <1>2, RouterStart, PTL DEF RouterSpec

(* No route, however long, makes a share worth less: it is swaps one after *)
(* the other, of pools that each of them has changed for the next.         *)
THEOREM ShareValueHoldsOnRoutes == MaxPool <= Scale => (RouterSpec => ShareValueNeverFalls)
<1> SUFFICES ASSUME MaxPool <= Scale PROVE RouterSpec => ShareValueNeverFalls
  OBVIOUS
<1>1. RouterInv /\ [RouterNext]_routerVars => RouterInv'
  BY RouterStep
<1>2. RouterInv /\ [RouterNext]_routerVars =>
        [supply > 0 /\ supply' > 0 =>
           pools[1] * pools[2] * supply' * supply' <= pools'[1] * pools'[2] * supply * supply]_pairVars
  BY RouterStep DEF Value
<1> QED BY <1>1, <1>2, RouterStart, PTL DEF RouterSpec, ShareValueNeverFalls

(* The router gives on everything: of an asset that a route offers nothing *)
(* stays with it, also nothing of what it held before.                     *)
THEOREM RoutesLeaveNothing ==
  MaxPool <= Scale =>
    (RouterSpec =>
       [][\A path \in Paths, sent \in RouteOffers, least \in Minima, info \in FeeInfos,
             maxSpread \in Tolerances :
            ExecuteSwapOperations(path, sent, least, info, maxSpread) =>
              \A k \in 1..Len(path) : routed'[path[k]] = 0]_routerVars)
<1> SUFFICES ASSUME MaxPool <= Scale
             PROVE  RouterSpec =>
                      [][\A path \in Paths, sent \in RouteOffers, least \in Minima, info \in FeeInfos,
                            maxSpread \in Tolerances :
                           ExecuteSwapOperations(path, sent, least, info, maxSpread) =>
                             \A k \in 1..Len(path) : routed'[path[k]] = 0]_routerVars
  OBVIOUS
<1>1. RouterInv /\ [RouterNext]_routerVars => RouterInv'
  BY RouterStep
<1>2. RouterInv /\ [RouterNext]_routerVars =>
        [\A path \in Paths, sent \in RouteOffers, least \in Minima, info \in FeeInfos,
            maxSpread \in Tolerances :
           ExecuteSwapOperations(path, sent, least, info, maxSpread) =>
             \A k \in 1..Len(path) : routed'[path[k]] = 0]_routerVars
  BY RouteStep
<1> QED BY <1>1, <1>2, RouterStart, PTL DEF RouterSpec
-----------------------------------------------------------------------------
(***************************************************************************)
(* What is simulated.  The return of a swap grows with the offer and with  *)
(* the pool that is asked, and shrinks with the pool that is offered to;   *)
(* so does what is paid of it.                                             *)
(***************************************************************************)
LEMMA GrossIs ==
  ASSUME NEW x \in Nat, NEW a \in Nat, NEW o \in Nat \ {0}
  PROVE  LET q == Ratio(x * a, x + o)
         IN  /\ q \in Nat /\ q <= a * Scale
             /\ q * (x + o) <= x * (a * Scale) /\ x * (a * Scale) < q * (x + o) + (x + o)
             /\ GrossReturn(x, a, o) = (a * Scale - q) \div Scale
             /\ GrossReturn(x, a, o) \in Nat
<1> DEFINE n == x + o
           k == (x * a) * Scale
           A == a * Scale
           q == k \div n
<1>0. Scale \in Nat \ {0} /\ n \in Nat \ {0} /\ k \in Nat /\ A \in Nat
  BY ScaleAssumption
<1>1. k = x * A /\ Ratio(x * a, x + o) = q
  BY <1>0 DEF Ratio
<1>2. n * A = x * A + o * A /\ o * A \in Nat /\ x * A \in Nat
  <2> HIDE DEF A
  <2> QED BY <1>0
<1> HIDE DEF n, k
<1>3. q \in Nat /\ q * n <= k /\ k < q * n + n
  BY <1>0, DivBounds, DivNat
<1> HIDE DEF q
<1>4. q <= A
  <2>1. q * n <= A * n
    <3>1. A * n = n * A
      BY <1>0
    <3>2. q * n \in Int
      BY <1>0, <1>3
    <3> HIDE DEF A
    <3> QED BY <1>0, <1>1, <1>2, <1>3, <3>1, <3>2
  <2> HIDE DEF A
  <2> QED BY <1>0, <1>3, <2>1, Cancel
<1>5. GrossReturn(x, a, o) = (A - q) \div Scale
  BY <1>1 DEF GrossReturn
<1>6. GrossReturn(x, a, o) \in Nat
  <2>1. A - q \in Nat
    BY <1>0, <1>3, <1>4
  <2> HIDE DEF A
  <2> QED BY <1>0, <1>5, <2>1, DivNat
<1> QED BY <1>1, <1>3, <1>4, <1>5, <1>6 DEF A, n

LEMMA GrossGrows ==
  ASSUME NEW x \in Nat, NEW a \in Nat, NEW o \in Nat \ {0},
         NEW y \in Nat, NEW b \in Nat, NEW p \in Nat \ {0}, y <= x, a <= b, o <= p
  PROVE  GrossReturn(x, a, o) <= GrossReturn(y, b, p)
<1> DEFINE A == a * Scale
           B == b * Scale
           n == x + o
           m == y + p
           q == Ratio(x * a, n)
           r == Ratio(y * b, m)
           s == A - q
           t == B - r
<1>0. /\ Scale \in Nat \ {0} /\ A \in Nat /\ B \in Nat /\ n \in Nat \ {0} /\ m \in Nat \ {0}
      /\ A <= B
  BY ScaleAssumption, Scaled
<1>1. /\ q \in Nat /\ q <= A /\ q * n <= x * A /\ x * A < q * n + n
      /\ r \in Nat /\ r <= B /\ r * m <= y * B /\ y * B < r * m + m
      /\ GrossReturn(x, a, o) = s \div Scale /\ GrossReturn(y, b, p) = t \div Scale
  BY GrossIs
<1> HIDE DEF A, B, q, r
<1>2. s \in Nat /\ t \in Nat
  BY <1>0, <1>1
(* The returns, before they are whole units.                               *)
<1>3. (s - 1) * n < o * A
  <2>1. (s - 1) * n = A * n - q * n - n
    BY <1>0, <1>1
  <2>2. A * n = x * A + o * A
    BY <1>0
  <2>3. A * n \in Int /\ q * n \in Int /\ x * A \in Int /\ o * A \in Int
    BY <1>0, <1>1
  <2> HIDE DEF s
  <2> QED BY <1>0, <1>1, <2>1, <2>2, <2>3
<1>4. p * B <= t * m
  <2>1. t * m = B * m - r * m
    BY <1>0, <1>1
  <2>2. B * m = y * B + p * B
    BY <1>0
  <2>3. B * m \in Int /\ r * m \in Int /\ y * B \in Int /\ p * B \in Int
    BY <1>0, <1>1
  <2> HIDE DEF t
  <2> QED BY <1>0, <1>1, <2>1, <2>2, <2>3
<1>5. o * m <= p * n
  <2>1. o * y <= p * x
    <3>1. o * y <= p * y
      BY Scaled
    <3>2. y * p <= x * p
      BY Scaled
    <3>3. p * y = y * p /\ x * p = p * x /\ o * y \in Int /\ p * y \in Int /\ p * x \in Int
      OBVIOUS
    <3> QED BY <3>1, <3>2, <3>3
  <2>2. o * m = o * y + o * p /\ p * n = p * x + o * p
    OBVIOUS
  <2>3. o * y \in Int /\ o * p \in Int /\ p * x \in Int
    OBVIOUS
  <2> HIDE DEF n, m
  <2> QED BY <2>1, <2>2, <2>3
<1> HIDE DEF s, t, n, m
<1>6. ((s - 1) * n) * m < (o * A) * m
  <2>1. (s - 1) * n \in Int /\ o * A \in Int
    BY <1>0, <1>2
  <2> DEFINE u == (s - 1) * n
             v == o * A
  <2>2. u + 1 <= v /\ u \in Int /\ v \in Int
    BY <1>3, <2>1
  <2> HIDE DEF u, v
  <2>3. (u + 1) * m <= v * m
    BY <1>0, <2>2, Scaled
  <2>4. (u + 1) * m = u * m + m /\ u * m \in Int /\ v * m \in Int
    BY <1>0, <2>2
  <2>5. u * m < v * m
    BY <1>0, <2>3, <2>4
  <2> QED BY <2>5 DEF u, v
<1>7. (o * m) * A <= (p * n) * A /\ A * (p * n) <= B * (p * n)
  <2>1. o * m \in Nat /\ p * n \in Nat
    BY <1>0
  <2> QED BY <1>0, <1>5, <2>1, Scaled
<1>8. (p * B) * n <= (t * m) * n
  <2>1. p * B \in Int /\ t * m \in Int
    BY <1>0, <1>2
  <2> QED BY <1>0, <1>4, <2>1, Scaled
<1>9. (s - 1) * (n * m) < t * (n * m)
  <2>1. /\ ((s - 1) * n) * m = (s - 1) * (n * m) /\ (t * m) * n = t * (n * m)
        /\ (o * A) * m = (o * m) * A /\ (p * n) * A = A * (p * n) /\ B * (p * n) = (p * B) * n
    BY <1>0, <1>2
  <2> DEFINE c1 == (s - 1) * (n * m)
             c2 == (o * m) * A
             c3 == A * (p * n)
             c4 == (p * B) * n
             c5 == t * (n * m)
  <2>2. c1 \in Int /\ c2 \in Int /\ c3 \in Int /\ c4 \in Int /\ c5 \in Int
    BY <1>0, <1>2
  <2>3. c1 < c2 /\ c2 <= c3 /\ c3 <= c4 /\ c4 <= c5
    BY <1>6, <1>7, <1>8, <2>1
  <2> HIDE DEF c1, c2, c3, c4, c5
  <2>4. c1 < c5
    BY <2>2, <2>3
  <2> QED BY <2>4 DEF c1, c5
<1>10. s - 1 < t
  <2>1. n * m \in Nat \ {0} /\ s - 1 \in Int
    BY <1>0, <1>2
  <2> QED BY <1>2, <1>9, <2>1, CancelLess
<1>11. s <= t
  BY <1>2, <1>10
<1> QED BY <1>0, <1>1, <1>2, <1>11, DivGrows

LEMMA NetGrows ==
  ASSUME NEW g \in Nat, NEW h \in Nat, NEW d \in 0..Scale, g <= h
  PROVE  /\ g - Times(g, d) \in Nat
         /\ g - Times(g, d) <= h - Times(h, d)
<1> DEFINE e == h - g
           gd == g * d
           hd == h * d
           eS == e * Scale
           u == gd \div Scale
           v == hd \div Scale
<1>0. Scale \in Nat \ {0} /\ e \in Nat /\ gd \in Nat /\ hd \in Nat /\ eS \in Nat
  BY ScaleAssumption
<1>1. hd <= gd + eS
  <2>1. h * d = g * d + e * d
    OBVIOUS
  <2>2. d * e <= Scale * e
    BY <1>0, Scaled
  <2>3. e * d \in Int /\ d * e = e * d /\ Scale * e = e * Scale /\ g * d \in Int
    BY <1>0
  <2> HIDE DEF e
  <2> QED BY <1>0, <2>1, <2>2, <2>3
<1> HIDE DEF gd, hd, e
<1>2. /\ u \in Nat /\ u * Scale <= gd /\ gd < u * Scale + Scale
      /\ v \in Nat /\ v * Scale <= hd /\ hd < v * Scale + Scale
  BY <1>0, DivBounds, DivNat
<1> HIDE DEF u, v
<1>3. v * Scale < (u + e + 1) * Scale
  <2>1. (u + e + 1) * Scale = u * Scale + eS + Scale /\ u * Scale \in Int /\ v * Scale \in Int
    BY <1>0, <1>2
  <2> HIDE DEF eS
  <2> QED BY <1>0, <1>1, <1>2, <2>1
<1>4. v < u + e + 1
  <2>1. u + e + 1 \in Int
    BY <1>0, <1>2
  <2> QED BY <1>0, <1>2, <1>3, <2>1, CancelLess
<1>5. Times(g, d) = u /\ Times(h, d) = v /\ u <= g
  <2>1. Times(g, d) \in 0..g
    BY TimesWithin
  <2> QED BY <2>1 DEF Times, u, v, gd, hd
<1>6. v <= u + (h - g)
  BY <1>0, <1>2, <1>4 DEF e
<1> QED BY <1>2, <1>5, <1>6

LEMMA PaidGrows ==
  ASSUME NEW held \in [Assets -> Nat], NEW after \in [Assets -> Nat], NEW i \in Assets,
         NEW o \in Nat \ {0}, NEW p \in Nat \ {0}, NEW info \in FeeInfos,
         after[i] <= held[i], held[Other(i)] <= after[Other(i)], o <= p
  PROVE  /\ SwapResult(held, i, o, info).paid \in Nat
         /\ SwapResult(held, i, o, info).paid <= SwapResult(after, i, p, info).paid
<1> DEFINE g == GrossReturn(held[i], held[Other(i)], o)
           h == GrossReturn(after[i], after[Other(i)], p)
<1>1. Other(i) \in Assets
  BY DEF Other, Assets
<1>2. g \in Nat /\ h \in Nat /\ g <= h
  <2> DEFINE x == held[i]
             a == held[Other(i)]
             y == after[i]
             b == after[Other(i)]
  <2>1. x \in Nat /\ a \in Nat /\ y \in Nat /\ b \in Nat /\ y <= x /\ a <= b
    BY <1>1
  <2> HIDE DEF x, a, y, b
  <2>2. GrossReturn(x, a, o) \in Nat /\ GrossReturn(y, b, p) \in Nat
    BY <2>1, GrossIs
  <2>3. GrossReturn(x, a, o) <= GrossReturn(y, b, p)
    BY <2>1, GrossGrows
  <2> QED BY <2>2, <2>3 DEF x, a, y, b
<1>3. /\ SwapResult(held, i, o, info).paid = g - Times(g, info.total)
      /\ SwapResult(after, i, p, info).paid = h - Times(h, info.total)
  BY DEF SwapResult
<1> HIDE DEF g, h
<1>4. info.total \in 0..Scale
  BY PairAssumption, ScaleAssumption
<1> QED BY <1>2, <1>3, <1>4, NetGrows

(* The recursive function of SimulateSwapOperations. *)
Answering(g, n, path, offer, info) ==
  g = [k \in 0..n |-> IF k = 0 THEN offer
                      ELSE IF g[k - 1] > 0 /\ \A i \in Assets : pools[i] > 0
                           THEN Simulation(path[k], g[k - 1], info) ELSE 0]

LEMMA AnsweringExists ==
  ASSUME NEW n \in Nat, NEW path, NEW offer, NEW info
  PROVE  \E g : Answering(g, n, path, offer, info)
<1> DEFINE T == {m \in 0..n : \E g : Answering(g, m, path, offer, info)}
<1>1. 0 \in T
  <2> DEFINE g == [k \in 0..0 |-> offer]
  <2>1. Answering(g, 0, path, offer, info)
    BY DEF Answering
  <2> QED BY <2>1
<1>2. \A m \in 0..n : m < n /\ m \in T => m + 1 \in T
  <2> SUFFICES ASSUME NEW m \in 0..n, m < n, m \in T PROVE m + 1 \in T
    OBVIOUS
  <2>1. PICK g : Answering(g, m, path, offer, info)
    OBVIOUS
  <2> DEFINE next == IF g[m] > 0 /\ \A i \in Assets : pools[i] > 0
                     THEN Simulation(path[m + 1], g[m], info) ELSE 0
             h == [k \in 0..(m + 1) |-> IF k = m + 1 THEN next ELSE g[k]]
  <2>2. \A k \in 0..(m + 1) : h[k] = IF k = 0 THEN offer
                                     ELSE IF h[k - 1] > 0 /\ \A i \in Assets : pools[i] > 0
                                          THEN Simulation(path[k], h[k - 1], info) ELSE 0
    <3> HIDE DEF next
    <3>1. g = [k \in 0..m |-> IF k = 0 THEN offer
                              ELSE IF g[k - 1] > 0 /\ \A i \in Assets : pools[i] > 0
                                   THEN Simulation(path[k], g[k - 1], info) ELSE 0]
      BY <2>1 DEF Answering
    <3>2. ASSUME NEW k \in 0..(m + 1), k # m + 1
          PROVE  h[k] = IF k = 0 THEN offer
                        ELSE IF h[k - 1] > 0 /\ \A i \in Assets : pools[i] > 0
                             THEN Simulation(path[k], h[k - 1], info) ELSE 0
      <4>1. k \in 0..m /\ h[k] = g[k] /\ (k # 0 => h[k - 1] = g[k - 1])
        BY <3>2
      <4> HIDE DEF h
      <4> QED BY <3>1, <4>1
    <3>3. h[m + 1] = next /\ h[m] = g[m] /\ (m + 1) - 1 = m /\ m + 1 # 0
      OBVIOUS
    <3> HIDE DEF h
    <3> QED BY <3>2, <3>3 DEF next
  <2>3. h = [k \in 0..(m + 1) |-> h[k]]
    OBVIOUS
  <2> HIDE DEF h
  <2>4. Answering(h, m + 1, path, offer, info)
    BY <2>2, <2>3 DEF Answering
  <2> QED BY <2>4
<1> HIDE DEF T
<1>3. n \in T
  BY <1>1, <1>2, RangeInduction
<1> QED BY <1>3 DEF T

LEMMA SimulatedIs ==
  ASSUME NEW path, NEW offer, NEW info, Len(path) \in Nat
  PROVE  \E g : /\ Answering(g, Len(path), path, offer, info)
                /\ SimulateSwapOperations(path, offer, info) = g[Len(path)]
<1> DEFINE n == Len(path)
           g == CHOOSE f : f = [k \in 0..n |-> IF k = 0 THEN offer
                      ELSE IF f[k - 1] > 0 /\ \A i \in Assets : pools[i] > 0
                           THEN Simulation(path[k], f[k - 1], info) ELSE 0]
<1>1. PICK g0 : Answering(g0, n, path, offer, info)
  BY AnsweringExists
<1>2. Answering(g, n, path, offer, info)
  BY <1>1 DEF Answering
<1>3. SimulateSwapOperations(path, offer, info) = g[n]
  BY DEF SimulateSwapOperations
<1> QED BY <1>2, <1>3

LEMMA TravelledIs ==
  ASSUME NEW path, NEW sent, NEW info, NEW maxSpread, Len(path) \in Nat
  PROVE  \E after : /\ Travelling(after, Len(path), path, sent, info, maxSpread)
                    /\ Travel(path, sent, info, maxSpread) = after[Len(path)]
<1> DEFINE n == Len(path)
           after == CHOOSE g : g = [k \in 0..n |-> IF k = 0 THEN SetOut(path, sent)
                                          ELSE ExecuteSwapOperation(g[k - 1], path, k, info, maxSpread)]
<1>1. PICK g0 : Travelling(g0, n, path, sent, info, maxSpread)
  BY TravellingExists
<1>2. Travelling(after, n, path, sent, info, maxSpread)
  BY <1>1 DEF Travelling
<1>3. Travel(path, sent, info, maxSpread) = after[n]
  BY DEF Travel
<1> QED BY <1>2, <1>3

(* What is simulated of one hop. *)
SimulatedHop(i, s, info) ==
  IF s > 0 /\ \A j \in Assets : pools[j] > 0 THEN Simulation(i, s, info) ELSE 0

(* A hop over pools that its offer is not worth less in pays no less than  *)
(* the simulation of a smaller offer, and turns the pools the other way.   *)
LEMMA HopPays ==
  ASSUME feeShare \in 0..Scale, pools \in [Assets -> Nat],
         NEW travel, OnTheWay(travel), NEW path, NEW k, NEW i \in Assets, i = path[k],
         NEW info \in FeeInfos, NEW maxSpread, NEW next,
         next = ExecuteSwapOperation(travel, path, k, info, maxSpread), next.accepted,
         NEW s \in Nat, s <= travel.routed[i],
         travel.held[i] <= pools[i], pools[Other(i)] <= travel.held[Other(i)]
  PROVE  /\ SimulatedHop(i, s, info) \in Nat /\ next.paid \in Nat
         /\ SimulatedHop(i, s, info) <= next.paid
         /\ k # Len(path) => next.paid <= next.routed[Other(i)]
         /\ travel.held[i] <= next.held[i]
         /\ next.held[Other(i)] <= travel.held[Other(i)]
<1> DEFINE j == Other(i)
           offer == travel.routed[i]
           held == travel.held
           result == SwapResult(held, i, offer, info)
           back == IF k = Len(path) THEN 0 ELSE result.paid
           leaving == result.leaving
           after == Exchanged(held, i, offer, leaving)
           expected == AfterSwap(held, i, offer, leaving)
           passes == travel.accepted /\ SwapAccepted(held, i, offer, info, BeliefPrice(path), maxSpread)
<1>1. passes
  <2> SUFFICES ASSUME ~passes PROVE FALSE
    OBVIOUS
  <2>1. next = [travel EXCEPT !.accepted = FALSE]
    BY DEF ExecuteSwapOperation, Offer
  <2> QED BY <2>1 DEF OnTheWay
<1>2. next = [travel EXCEPT !.held = after, !.expected = expected, !.routed[i] = @ - offer,
                            !.routed[j] = @ + back, !.paid = result.paid]
  BY <1>1 DEF ExecuteSwapOperation, Offer
<1>3. held \in [Assets -> Nat] /\ travel.routed \in [Assets -> Nat]
  BY <1>1 DEF OnTheWay
<1>4. j \in Assets /\ j # i /\ offer \in Nat \ {0}
  <2>1. Tradable(held, offer)
    BY <1>1 DEF SwapAccepted
  <2> QED BY <1>3, <2>1 DEF Tradable, Other, Assets
<1>5. result.paid \in Nat
  <2>1. held[i] <= held[i] /\ held[Other(i)] <= held[Other(i)] /\ offer <= offer
    <3>1. held[i] \in Nat /\ held[Other(i)] \in Nat
      BY <1>3, <1>4
    <3> QED BY <1>4, <3>1
  <2> HIDE DEF held, offer
  <2>2. SwapResult(held, i, offer, info).paid \in Nat
    BY <1>3, <1>4, <2>1, PaidGrows
  <2> QED BY <2>2
<1>6. leaving \in Nat
  <2> DEFINE x == held[i]
             a == held[j]
             gross == GrossReturn(x, a, offer)
  <2>1. x \in Nat /\ a \in Nat
    BY <1>3, <1>4
  <2>2. gross \in Nat
    <3> HIDE DEF x, a, offer
    <3> QED BY <1>4, <2>1, GrossIs
  <2>3. gross = GrossReturn(held[i], held[Other(i)], offer)
    OBVIOUS
  <2>4. info.total \in 0..Scale /\ info.maker \in 0..Scale
    BY PairAssumption, ScaleAssumption
  <2> HIDE DEF gross, offer, held
  <2>5. leaving \in 0..gross
    BY <2>2, <2>3, <2>4, LeavingWithin
  <2> QED BY <2>2, <2>5
<1>7. SimulatedHop(i, s, info) \in 0..result.paid
  <2>1. CASE s > 0 /\ \A m \in Assets : pools[m] > 0
    <3>1. s \in Nat \ {0} /\ s <= offer /\ held[i] <= pools[i] /\ pools[Other(i)] <= held[Other(i)]
      BY <2>1
    <3> HIDE DEF offer, held, result
    <3>2. /\ SwapResult(pools, i, s, info).paid \in Nat
          /\ SwapResult(pools, i, s, info).paid <= SwapResult(held, i, offer, info).paid
      BY <1>3, <1>4, <3>1, PaidGrows
    <3> QED BY <1>5, <2>1, <3>2 DEF SimulatedHop, Simulation, result
  <2>2. CASE ~(s > 0 /\ \A m \in Assets : pools[m] > 0)
    BY <1>5, <2>2 DEF SimulatedHop
  <2> QED BY <2>1, <2>2
<1> HIDE DEF offer, result, back, after, expected, leaving, j, passes
<1>8. next.held = after /\ next.paid = result.paid
      /\ next.routed = [travel.routed EXCEPT ![i] = @ - offer, ![j] = @ + back]
  BY <1>2 DEF OnTheWay
<1>9. k # Len(path) => result.paid <= next.routed[j]
  <2>1. travel.routed[j] \in Nat
    BY <1>3, <1>4
  <2>2. k # Len(path) => next.routed[j] = travel.routed[j] + result.paid
    BY <1>3, <1>4, <1>8 DEF back
  <2> QED BY <1>5, <2>1, <2>2
<1>10. held[i] <= after[i] /\ after[j] <= held[j]
  <2>1. after = [held EXCEPT ![i] = @ + offer, ![j] = @ - leaving]
    BY DEF after, Exchanged, j
  <2> HIDE DEF held
  <2>2. after[i] = held[i] + offer /\ after[j] = held[j] - leaving
    BY <1>3, <1>4, <2>1
  <2>3. held[i] \in Nat /\ held[j] \in Nat
    BY <1>3, <1>4
  <2> QED BY <1>4, <1>6, <2>2, <2>3
<1> QED BY <1>5, <1>7, <1>8, <1>9, <1>10 DEF j

(* A route of two hops comes back to pools that the first one has turned   *)
(* in its favour.                                                          *)
LEMMA RouteDelivers ==
  ASSUME RouterInv, MaxPool <= Scale, NEW path \in Paths, NEW sent \in Nat, NEW info \in FeeInfos,
         NEW maxSpread, AssertOperations(path), Len(path) <= 2,
         NEW end, end = Travel(path, sent, info, maxSpread), end.accepted
  PROVE  end.paid >= SimulateSwapOperations(path, sent, info)
<1>0. feeShare \in 0..Scale /\ pools \in [Assets -> Nat] /\ routed \in [Assets -> Nat]
  BY DEF RouterInv, PairInv, PairTypes
<1> DEFINE n == Len(path)
           i == path[1]
<1>1. n \in {1, 2} /\ i \in Assets /\ (n = 2 => path[2] = Other(i))
  <2>1. PICK hops \in 1..(MaxHops + 1) : path \in [1..hops -> Assets]
    BY DEF Paths
  <2>2. hops \in Nat /\ hops >= 1 /\ n = hops
    BY <2>1, RouterAssumption
  <2>3. n = 2 => path[1 + 1] = Other(path[1])
    BY <2>2 DEF AssertOperations
  <2> QED BY <2>1, <2>2, <2>3
<1>2. PICK after : Travelling(after, n, path, sent, info, maxSpread) /\ end = after[n]
  BY <1>1, TravelledIs
<1>3. PICK g : Answering(g, n, path, sent, info) /\ SimulateSwapOperations(path, sent, info) = g[n]
  BY <1>1, SimulatedIs
<1>4. /\ after[0] = SetOut(path, sent)
      /\ after[1] = ExecuteSwapOperation(after[0], path, 1, info, maxSpread)
      /\ n = 2 => after[2] = ExecuteSwapOperation(after[1], path, 2, info, maxSpread)
  BY <1>1, <1>2 DEF Travelling
<1> DEFINE positive == \A m \in Assets : pools[m] > 0
<1>5. /\ g[0] = sent
      /\ g[1] = IF sent > 0 /\ positive THEN Simulation(path[1], sent, info) ELSE 0
      /\ n = 2 => g[2] = IF g[1] > 0 /\ positive THEN Simulation(path[2], g[1], info) ELSE 0
  <2> HIDE DEF positive
  <2>1. g = [k \in 0..n |-> IF k = 0 THEN sent
                            ELSE IF g[k - 1] > 0 /\ positive THEN Simulation(path[k], g[k - 1], info) ELSE 0]
    BY <1>3 DEF Answering, positive
  <2>2. 0 \in 0..n /\ 1 \in 0..n /\ (n = 2 => 2 \in 0..n)
    BY <1>1
  <2> HIDE DEF n
  <2>3. g[0] = sent
    BY <2>1, <2>2
  <2>4. g[1] = IF g[0] > 0 /\ positive THEN Simulation(path[1], g[0], info) ELSE 0
    BY <2>1, <2>2
  <2>5. n = 2 => g[2] = IF g[1] > 0 /\ positive THEN Simulation(path[2], g[1], info) ELSE 0
    BY <2>1, <2>2
  <2> QED BY <2>3, <2>4, <2>5
<1> DEFINE held == [routed EXCEPT ![path[1]] = @ + sent]
           start == after[0]
           first == after[1]
<1>6. /\ OnTheWay(start) /\ start.held = pools /\ sent <= start.routed[i]
  <2>1. held \in [Assets -> Nat] /\ held[i] = routed[i] + sent /\ routed[i] \in Nat
    BY <1>0, <1>1
  <2>2. start = [accepted |-> TRUE, held |-> pools, expected |-> pools,
                 began |-> held, routed |-> held, paid |-> 0]
    BY <1>4 DEF SetOut
  <2> HIDE DEF held, start, i
  <2>3. pools[1] * pools[2] \in Int
    BY <1>0 DEF Assets
  <2>4. OnTheWay(start)
    BY <1>0, <2>1, <2>2, <2>3 DEF OnTheWay
  <2> QED BY <2>1, <2>2, <2>4
<1>7. first = ExecuteSwapOperation(start, path, 1, info, maxSpread)
  BY <1>4
<1> HIDE DEF start, first, held, positive
<1>8. /\ OnTheWay(first)
      /\ first.accepted
  <2>1. OnTheWay(first)
    BY <1>0, <1>1, <1>6, <1>7, HopKeeps
  <2>2. CASE n = 1
    BY <1>2, <2>1, <2>2 DEF first
  <2>3. CASE n = 2
    <3>1. end = ExecuteSwapOperation(first, path, 2, info, maxSpread) /\ path[2] \in Assets
      BY <1>1, <1>2, <1>4, <2>3 DEF first, Other, Assets
    <3> QED BY <1>0, <2>1, <3>1, HopKeeps
  <2> QED BY <1>1, <2>1, <2>2, <2>3
<1>9. /\ g[1] \in Nat /\ first.paid \in Nat /\ g[1] <= first.paid
      /\ 1 # n => first.paid <= first.routed[Other(i)]
      /\ pools[i] <= first.held[i] /\ first.held[Other(i)] <= pools[Other(i)]
  <2>1. start.held[i] <= pools[i] /\ pools[Other(i)] <= start.held[Other(i)]
    <3>1. pools[i] \in Nat /\ pools[Other(i)] \in Nat
      BY <1>0, <1>1 DEF Other, Assets
    <3> QED BY <1>6, <3>1
  <2> DEFINE simulated == SimulatedHop(i, sent, info)
  <2>2. g[1] = simulated
    BY <1>5 DEF positive, SimulatedHop
  <2>3. i = path[1]
    OBVIOUS
  <2> HIDE DEF i
  <2>4. /\ OnTheWay(start) /\ i \in Assets /\ first.accepted
        /\ sent \in Nat /\ sent <= start.routed[i]
    BY <1>1, <1>6, <1>8
  <2>5. /\ simulated \in Nat /\ first.paid \in Nat /\ simulated <= first.paid
        /\ 1 # Len(path) => first.paid <= first.routed[Other(i)]
        /\ start.held[i] <= first.held[i]
        /\ first.held[Other(i)] <= start.held[Other(i)]
    <3> HIDE DEF n
    <3>1. simulated \in Nat /\ first.paid \in Nat /\ simulated <= first.paid
      BY <1>0, <1>7, <2>1, <2>3, <2>4, HopPays
    <3>2. 1 # Len(path) => first.paid <= first.routed[Other(i)]
      <4> DEFINE k == 1
      <4>1. k = 1 /\ first = ExecuteSwapOperation(start, path, k, info, maxSpread) /\ i = path[k]
        BY <1>7, <2>3
      <4> HIDE DEF k
      <4>2. ASSUME k # Len(path) PROVE first.paid <= first.routed[Other(i)]
        BY <1>0, <2>1, <2>4, <4>1, <4>2, HopPays
      <4> QED BY <4>1, <4>2
    <3>3. start.held[i] <= first.held[i]
      BY <1>0, <1>7, <2>1, <2>3, <2>4, HopPays
    <3>4. first.held[Other(i)] <= start.held[Other(i)]
      BY <1>0, <1>7, <2>1, <2>3, <2>4, HopPays
    <3> QED BY <3>1, <3>2, <3>3, <3>4
  <2> HIDE DEF simulated
  <2> QED BY <1>6, <2>2, <2>5
<1>10. CASE n = 1
  BY <1>2, <1>3, <1>9, <1>10 DEF first
<1>11. CASE n = 2
  <2> DEFINE j == path[2]
  <2>1. j = Other(i) /\ j \in Assets /\ Other(j) = i /\ Other(i) \in Assets
    BY <1>1, <1>11 DEF Other, Assets
  <2>2. end = ExecuteSwapOperation(first, path, 2, info, maxSpread)
    BY <1>2, <1>4, <1>11 DEF first
  <2>3. g[1] <= first.routed[j]
    <3>1. first.routed[j] \in Nat /\ first.paid <= first.routed[j]
      BY <1>8, <1>9, <1>11, <2>1 DEF OnTheWay
    <3> QED BY <1>9, <3>1
  <2>4. first.held[j] <= pools[j] /\ pools[Other(j)] <= first.held[Other(j)]
    BY <1>9, <2>1
  <2> DEFINE answer == g[1]
             simulated == SimulatedHop(j, answer, info)
  <2>5. g[2] = simulated /\ answer \in Nat /\ answer <= first.routed[j] /\ j = path[2]
    BY <1>5, <1>9, <1>11, <2>3 DEF positive, SimulatedHop
  <2> HIDE DEF j, answer
  <2>6. simulated \in Nat /\ end.paid \in Nat /\ simulated <= end.paid
    BY <1>0, <1>8, <2>1, <2>2, <2>4, <2>5, HopPays
  <2> HIDE DEF simulated
  <2> QED BY <1>3, <1>11, <2>5, <2>6
<1> QED BY <1>1, <1>10, <1>11

(* The quote for an amount, and what one unit more than it returns.        *)
LEMMA QuoteReturns ==
  ASSUME NEW x \in Nat \ {0}, NEW a \in Nat \ {0}, NEW ask \in 1..a, ask <= Scale,
         NEW r \in 0..(Scale - 1), BeforeCommission(ask, r) < a
  PROVE  LET o == OfferFor(x, a, ask, r)
             g == GrossReturn(x, a, o + 1)
         IN  /\ o \in Nat /\ g \in Nat
             /\ g - Times(g, r) >= ask - 1
<1> DEFINE S == Scale
           T == S - r
           SS == S * S
           R == SS \div T
           c == (ask * R) \div S
           k == x * a
           d == a - c
           w == k \div d
           o == w - x
           n == x + (o + 1)
           q == Ratio(k, n)
           g == GrossReturn(x, a, o + 1)
<1>0. S \in Nat \ {0} /\ T \in 1..S /\ SS \in Nat /\ ask \in Nat \ {0} /\ ask <= S /\ r = S - T
  BY ScaleAssumption
<1>1. R \in Nat /\ R * T <= SS /\ SS < R * T + T
  <2> HIDE DEF SS, T
  <2> QED BY <1>0, DivBounds, DivNat
<1>2. BeforeCommission(ask, r) = c
  BY DEF BeforeCommission, Times, Reciprocal, T, SS, R, c
<1> HIDE DEF R, SS, T
<1>3. c \in Nat /\ c * S <= ask * R /\ ask * R < c * S + S
  <2> DEFINE aR == ask * R
  <2>1. aR \in Nat
    BY <1>0, <1>1
  <2>2. c = aR \div S
    OBVIOUS
  <2> HIDE DEF aR, S, c
  <2>3. c \in Nat /\ c * S <= aR /\ aR < c * S + S
    BY <1>0, <2>1, <2>2, DivBounds, DivNat
  <2> QED BY <2>3 DEF aR
<1> HIDE DEF c
<1>4. c < a /\ d \in Nat \ {0} /\ d <= a
  BY <1>2, <1>3
<1>5. w \in Nat /\ w * d <= k /\ k < w * d + d
  <2>1. k \in Nat
    OBVIOUS
  <2> HIDE DEF k, d
  <2> QED BY <1>4, <2>1, DivBounds, DivNat
<1>6. OfferFor(x, a, ask, r) = o
  BY <1>2 DEF OfferFor
<1> HIDE DEF w
<1>7. k < (w + 1) * d
  <2>1. (w + 1) * d = w * d + d
    BY <1>4, <1>5
  <2> QED BY <1>5, <2>1
<1>8. o \in Nat /\ n = w + 1
  <2>1. d * x <= a * x
    BY <1>4, Scaled
  <2>2. x * d < (w + 1) * d
    <3>1. d * x = x * d /\ a * x = k /\ x * d \in Int /\ k \in Int /\ (w + 1) * d \in Int
      BY <1>4, <1>5
    <3> HIDE DEF d, k
    <3> QED BY <1>7, <2>1, <3>1
  <2>3. x < w + 1
    <3>1. w + 1 \in Int
      BY <1>5
    <3> HIDE DEF d
    <3> QED BY <1>4, <2>2, <3>1, CancelLess
  <2> QED BY <1>5, <2>3
<1> HIDE DEF o
<1>9. /\ q \in Nat /\ q * n <= x * (a * S)
      /\ g = (a * S - q) \div S /\ g \in Nat /\ q <= a * S
  <2>1. o + 1 \in Nat \ {0}
    BY <1>8
  <2> QED BY <2>1, GrossIs
(* What the offer returns before the commission makes up for it.           *)
<1>10. c <= g
  <2> DEFINE dS == d * S
             aS == a * S
             cS == c * S
  <2>1. x * (a * S) = k * S /\ (n * d) * S = dS * n /\ dS \in Nat /\ n \in Nat \ {0}
    BY <1>0, <1>4, <1>5, <1>8
  <2>2. k * S <= (n * d) * S
    <3>1. k <= n * d /\ k \in Int /\ n * d \in Int
      BY <1>4, <1>5, <1>7, <1>8
    <3> HIDE DEF k, n, d
    <3> QED BY <1>0, <3>1, Scaled
  <2>3. q <= dS
    <3>1. q * n <= dS * n
      <4> DEFINE qn == q * n
                 kS == k * S
                 en == dS * n
      <4>1. qn <= kS /\ kS <= en /\ qn \in Int /\ kS \in Int /\ en \in Int
        BY <1>0, <1>9, <2>1, <2>2
      <4> HIDE DEF qn, kS, en
      <4>2. qn <= en
        BY <4>1
      <4> QED BY <4>2 DEF qn, en
    <3> HIDE DEF q, n, dS
    <3> QED BY <1>9, <2>1, <3>1, Cancel
  <2>4. dS = aS - cS /\ aS \in Int /\ cS \in Int
    BY <1>0, <1>3
  <2> HIDE DEF q, dS, aS
  <2>5. cS <= aS - q
    BY <1>9, <2>1, <2>3, <2>4
  <2>6. cS \div S <= (aS - q) \div S
    <3>1. aS - q \in Int
      BY <1>9, <2>4
    <3> HIDE DEF cS, S
    <3> QED BY <1>0, <2>4, <2>5, <3>1, DivGrows
  <2>7. cS \div S = c
    <3> DEFINE e == cS \div S
    <3>1. e \in Int /\ e * S <= cS /\ cS < e * S + S
      BY <1>0, <2>4, DivBounds
    <3> HIDE DEF e
    <3>2. e * S <= c * S /\ c * S < (e + 1) * S
      BY <1>0, <3>1
    <3>3. e <= c
      BY <1>0, <1>3, <3>1, <3>2, Cancel
    <3>4. c < e + 1
      <4>1. e + 1 \in Int
        BY <3>1
      <4> QED BY <1>0, <1>3, <3>2, <4>1, CancelLess
    <3> QED BY <1>3, <3>1, <3>3, <3>4 DEF e
  <2> QED BY <1>9, <2>6, <2>7 DEF aS
<1> DEFINE f == Times(c, r)
<1>11. c - f \in Nat /\ c - f <= g - Times(g, r)
  <2>1. r \in 0..Scale
    BY <1>0
  <2> HIDE DEF g
  <2> QED BY <1>3, <1>9, <1>10, <2>1, NetGrows
<1> HIDE DEF g, q, n
<1>12. f \in Nat /\ f * S <= c * r
  <2>1. c * r \in Nat
    BY <1>3
  <2> QED BY <1>0, <1>3, <2>1, DivBounds, DivNat DEF Times
<1> HIDE DEF f
<1>13. c * T <= (c - f) * S
  <2>1. c * r = c * S - c * T /\ (c - f) * S = c * S - f * S
    BY <1>0, <1>3, <1>12
  <2>2. c * S \in Int /\ c * T \in Int /\ f * S \in Int
    BY <1>0, <1>3, <1>12
  <2> HIDE DEF S
  <2> QED BY <1>12, <2>1, <2>2
<1> HIDE DEF S
(* A rate and an amount of whole units lose less than two units between    *)
(* them, because the amount is at most one atomic's worth of units.        *)
<1>14. (ask - 2) * SS < (c * T) * S
  <2> DEFINE RT == R * T
             aR == ask * R
             cS == c * S
             aRT == ask * RT
             aSS == ask * SS
             aT == ask * T
             ST == S * T
  <2>1. /\ RT \in Int /\ aR \in Int /\ cS \in Int /\ aRT \in Int /\ aSS \in Int /\ aT \in Int /\ ST \in Int
    BY <1>0, <1>1, <1>3
  <2>2. (aR - S + 1) * T <= cS * T
    <3>1. aR - S + 1 <= cS /\ aR - S + 1 \in Int
      BY <1>0, <1>3, <2>1
    <3> HIDE DEF aR, cS
    <3> QED BY <1>0, <2>1, <3>1, Scaled
  <2>3. (aR - S + 1) * T = aRT - ST + T
    <3>1. aR * T = aRT
      BY <1>0, <1>1
    <3>2. (aR - S + 1) * T = aR * T - S * T + T
      <4> HIDE DEF aR
      <4> QED BY <1>0, <2>1
    <3> QED BY <3>1, <3>2
  <2>4. aSS - aT + ask <= aRT
    <3>1. SS - T + 1 <= RT /\ SS - T + 1 \in Int
      BY <1>0, <1>1, <2>1
    <3>2. (SS - T + 1) * ask <= RT * ask
      <4> HIDE DEF RT
      <4> QED BY <1>0, <2>1, <3>1, Scaled
    <3>3. (SS - T + 1) * ask = aSS - aT + ask
      BY <1>0
    <3>4. RT * ask = aRT
      <4> HIDE DEF RT
      <4> QED BY <1>0, <2>1
    <3> QED BY <3>2, <3>3, <3>4
  <2>5. aT <= SS /\ ST <= SS
    <3>1. ask * T <= S * T /\ T * S <= S * S
      BY <1>0, Scaled
    <3>2. T * S = S * T
      BY <1>0
    <3>3. SS = S * S
      BY DEF SS, S
    <3> QED BY <1>0, <2>1, <3>1, <3>2, <3>3
  <2>6. (ask - 2) * SS = aSS - SS - SS
    BY <1>0
  <2>7. (c * T) * S = cS * T
    BY <1>0, <1>3
  <2>8. cS * T \in Int
    BY <1>0, <2>1
  <2> HIDE DEF RT, aR, cS, aRT, aSS, aT, ST
  <2> QED BY <1>0, <2>1, <2>2, <2>3, <2>4, <2>5, <2>6, <2>7, <2>8
<1>15. (ask - 2) * SS < ((c - f) * S) * S
  <2>1. (c * T) * S <= ((c - f) * S) * S
    <3>1. c * T \in Int /\ (c - f) * S \in Int
      BY <1>0, <1>3, <1>12
    <3> QED BY <1>0, <1>13, <3>1, Scaled
  <2>2. (ask - 2) * SS \in Int /\ (c * T) * S \in Int /\ ((c - f) * S) * S \in Int
    BY <1>0, <1>3, <1>12
  <2> DEFINE u == (ask - 2) * SS
             v == (c * T) * S
             z == ((c - f) * S) * S
  <2>3. u < v /\ v <= z /\ u \in Int /\ v \in Int /\ z \in Int
    BY <1>14, <2>1, <2>2
  <2> HIDE DEF u, v, z
  <2>4. u < z
    BY <2>3
  <2> QED BY <2>4 DEF u, z
<1>16. ask - 2 < c - f
  <2>1. SS = S * S
    BY DEF SS, S
  <2>2. ((c - f) * S) * S = (c - f) * SS
    BY <1>0, <1>3, <1>12, <2>1
  <2>3. SS \in Nat \ {0} /\ c - f \in Int /\ ask - 2 \in Int
    BY <1>0, <1>3, <1>12, <2>1
  <2> HIDE DEF SS
  <2> QED BY <1>15, <2>2, <2>3, CancelLess
<1>17. g - Times(g, r) \in Int
  <2>1. Times(g, r) \in 0..g
    <3>1. r \in 0..Scale
      BY <1>0 DEF S
    <3> QED BY <1>9, <3>1, TimesWithin
  <2> QED BY <1>9, <2>1
<1>18. g - Times(g, r) >= ask - 1
  <2> DEFINE y == g - Times(g, r)
             z == c - f
  <2>1. y \in Int /\ z \in Int /\ z <= y /\ ask - 2 < z
    BY <1>3, <1>11, <1>12, <1>16, <1>17
  <2> HIDE DEF y, z
  <2>2. y >= ask - 1
    BY <1>0, <2>1
  <2> QED BY <2>2 DEF y
<1> QED BY <1>6, <1>8, <1>9, <1>18 DEF g
-----------------------------------------------------------------------------
(* Whoever offers one unit more than the pair's ReverseSimulation quotes   *)
(* (compute_offer_amount) gets all but a unit of what he asked for, at any *)
(* pools, fee and decimals: the quotient in the quote, the reciprocal of   *)
(* the rate and the two quotients of the swap together lose no more.       *)
THEOREM QuotesAlwaysSuffice == MaxPool <= Scale => (RouterSpec => []QuotesSuffice)
<1> SUFFICES ASSUME MaxPool <= Scale PROVE RouterSpec => []QuotesSuffice
  OBVIOUS
<1>1. RouterInv => QuotesSuffice
  <2> SUFFICES ASSUME RouterInv, NEW offered \in Assets, NEW info \in FeeInfos,
                      NEW ask \in 1..pools[Other(offered)], pools[offered] > 0,
                      BeforeCommission(ask, info.total) < pools[Other(offered)], ask <= Scale
               PROVE  Simulation(offered, ReverseSimulation(offered, ask, info) + 1, info) >= ask - 1
    BY DEF QuotesSuffice
  <2> DEFINE x == pools[offered]
             a == pools[Other(offered)]
             r == info.total
             o == OfferFor(x, a, ask, r)
             g == GrossReturn(x, a, o + 1)
  <2>1. x \in Nat \ {0} /\ a \in Nat \ {0} /\ r \in 0..(Scale - 1) /\ ask \in 1..a
    <3>1. pools \in [Assets -> Nat] /\ Other(offered) \in Assets
      BY DEF RouterInv, PairInv, PairTypes, Other, Assets
    <3> QED BY <3>1, PairAssumption
  <2>2. BeforeCommission(ask, r) < a
    OBVIOUS
  <2>3. Simulation(offered, ReverseSimulation(offered, ask, info) + 1, info) = g - Times(g, r)
    BY DEF Simulation, ReverseSimulation, SwapResult
  <2> HIDE DEF x, a, r
  <2>4. g - Times(g, r) >= ask - 1
    BY <2>1, <2>2, QuoteReturns
  <2> QED BY <2>3, <2>4
<1>2. RouterInv /\ [RouterNext]_routerVars => RouterInv'
  BY RouterStep
<1> QED BY <1>1, <1>2, RouterStart, PTL DEF RouterSpec

(* A route of the router (execute_swap_operations) that comes back to the  *)
(* pools it began at delivers what was simulated of them as they were      *)
(* (simulate_swap_operations), or more; and whatever route is taken, of    *)
(* none of the assets that it offers anything stays with the router.       *)
THEOREM RoutesAlwaysDeliver == MaxPool <= Scale => (RouterSpec => []RoutesDeliver)
<1> SUFFICES ASSUME MaxPool <= Scale PROVE RouterSpec => []RoutesDeliver
  OBVIOUS
<1>1. RouterInv => RoutesDeliver
  <2> SUFFICES ASSUME RouterInv, NEW path \in Paths, NEW sent \in RouteOffers, NEW info \in FeeInfos,
                      NEW maxSpread \in Tolerances, NEW end, end = Travel(path, sent, info, maxSpread),
                      AssertOperations(path), end.accepted
               PROVE  /\ Len(path) <= 2 => end.paid >= SimulateSwapOperations(path, sent, info)
                      /\ \A k \in 1..Len(path) : end.routed[path[k]] = 0
    BY DEF RoutesDeliver
  <2>1. sent \in Nat
    BY RouterAssumption
  <2>2. Len(path) <= 2 => end.paid >= SimulateSwapOperations(path, sent, info)
    BY <2>1, RouteDelivers
  <2>3. \A k \in 1..Len(path) : end.routed[path[k]] = 0
    <3>1. PairInv /\ routed \in [Assets -> Nat]
      BY DEF RouterInv
    <3> QED BY <2>1, <3>1, RouteKeeps
  <2> QED BY <2>2, <2>3
<1>2. RouterInv /\ [RouterNext]_routerVars => RouterInv'
  BY RouterStep
<1> QED BY <1>1, <1>2, RouterStart, PTL DEF RouterSpec
-----------------------------------------------------------------------------
(***************************************************************************)
(* The oracle.  The accumulated prices are rounded down piece by piece and *)
(* wrap; what they have grown by since the last sample is a number x that  *)
(* the prices of the time in between bound, but for a multiple of the      *)
(* modulus.                                                                *)
(***************************************************************************)
Grown(i, x) == \E k \in Int : CumulativePrices[i] - sampled[i] = x + Modulus * k

(* x is what prices within a range add up to in a while. *)
Within(x, range, while) == range.least * while <= x /\ x <= (range.most + 1) * while

OracleTypes ==
  /\ sampled \in [Assets -> Int] /\ average \in [Assets -> Nat]
  /\ sampledAt \in 0..now /\ length \in Nat
  /\ seen \in [Assets -> [least : Nat, most : Nat]]
  /\ span \in [Assets -> [least : Nat, most : Nat]]

OracleInv ==
  /\ PairInv
  /\ OracleTypes
  /\ sampledAt > 0 =>
       \A i \in Assets : \E x \in Nat : Grown(i, x) /\ Within(x, seen[i], now - sampledAt)
  /\ \A i \in Assets : average[i] > 0 =>
       /\ length > 0
       /\ \E x \in Nat : average[i] = Ratio(x % Modulus, length) /\ Within(x, span[i], length)

(* What a second more adds to a piece: the price, or one more. *)
LEMMA PieceGrows ==
  ASSUME NEW e \in Nat, NEW t \in Nat, NEW y \in Nat, NEW x \in Nat \ {0}
  PROVE  LET q(u) == MultiplyRatio(u * t, y, x)
             p == (t * y) \div x
         IN  /\ q(e) \in Nat /\ q(e + 1) \in Nat /\ p \in Nat
             /\ q(e) + p <= q(e + 1) /\ q(e + 1) <= q(e) + p + 1
<1> DEFINE a == t * y
           ea == e * a
           f == ea \div x
           g == (ea + a) \div x
           p == a \div x
<1>1. a \in Nat /\ ea \in Nat /\ ea + a \in Nat
  <2>1. a \in Nat
    OBVIOUS
  <2> HIDE DEF a
  <2> QED BY <2>1
<1>2. (e * t) * y = ea /\ ((e + 1) * t) * y = ea + a
  OBVIOUS
<1>3. MultiplyRatio(e * t, y, x) = f /\ MultiplyRatio((e + 1) * t, y, x) = g
  BY <1>2 DEF MultiplyRatio
<1> HIDE DEF a, ea
<1>4. /\ f \in Nat /\ f * x <= ea /\ ea < f * x + x
      /\ g \in Nat /\ g * x <= ea + a /\ ea + a < g * x + x
      /\ p \in Nat /\ p * x <= a /\ a < p * x + x
  BY <1>1, DivBounds, DivNat
<1> HIDE DEF f, g, p
<1> DEFINE fx == f * x
           gx == g * x
           px == p * x
<1>5. /\ (f + p) * x = fx + px /\ (g + 1) * x = gx + x /\ (f + p + 2) * x = fx + px + x + x
      /\ fx \in Nat /\ gx \in Nat /\ px \in Nat
  BY <1>4
<1>6. fx <= ea /\ ea < fx + x /\ gx <= ea + a /\ ea + a < gx + x /\ px <= a /\ a < px + x
  BY <1>4
<1> HIDE DEF fx, gx, px
<1>7. (f + p) * x < (g + 1) * x /\ g * x < (f + p + 2) * x
  BY <1>1, <1>5, <1>6 DEF gx
<1>8. f + p < g + 1 /\ g < f + p + 2
  <2>1. f + p \in Int /\ g + 1 \in Int /\ g \in Int /\ f + p + 2 \in Int
    BY <1>4
  <2> QED BY <1>7, <2>1, CancelLess
<1>9. f + p <= g /\ g <= f + p + 1
  BY <1>4, <1>8
<1> QED BY <1>3, <1>4, <1>9 DEF p, a
-----------------------------------------------------------------------------
(* Steps. *)

(* A message of the pair writes down what the prices have come to, at the  *)
(* rate that stood until it.                                               *)
LEMMA MessageKeepsPrices ==
  ASSUME PairInv, AccumulatePrices, now' = now
  PROVE  CumulativePrices' = CumulativePrices
<1>1. lastTime \in Nat /\ now \in Nat /\ lastTime <= now
  BY DEF PairInv, PairTypes
<1>2. now' <= lastTime' /\ prices' = Accumulated(pools)
  BY <1>1 DEF AccumulatePrices
<1>3. CumulativePrices' = prices'
  BY <1>2 DEF CumulativePrices, Accumulated
<1> QED BY <1>2, <1>3 DEF CumulativePrices

LEMMA MessageKeepsOracle ==
  ASSUME OracleInv, PairInv', AccumulatePrices, now' = now, UNCHANGED sampleVars
  PROVE  OracleInv'
<1>1. CumulativePrices' = CumulativePrices
  BY MessageKeepsPrices DEF OracleInv
<1>2. OracleTypes'
  BY DEF OracleInv, OracleTypes, sampleVars
<1>3. \A i \in Assets, x \in Nat : Grown(i, x) => Grown(i, x)'
  BY <1>1 DEF Grown, sampleVars
<1>4. (sampledAt > 0 =>
        \A i \in Assets : \E x \in Nat : Grown(i, x) /\ Within(x, seen[i], now - sampledAt))'
  BY <1>3 DEF OracleInv, sampleVars, Within
<1>5. (\A i \in Assets : average[i] > 0 =>
         /\ length > 0
         /\ \E x \in Nat : average[i] = Ratio(x % Modulus, length) /\ Within(x, span[i], length))'
  BY DEF OracleInv, sampleVars, Within, Ratio
<1> QED BY <1>2, <1>4, <1>5 DEF OracleInv

(* What the accumulated price of an asset is, without the rounds.          *)
LEMMA PriceComesTo ==
  ASSUME PairInv, NEW i \in Assets
  PROVE  /\ (\A j \in Assets : pools[j] # 0) =>
              \E k \in Int : CumulativePrices[i] =
                prices[i] + MultiplyRatio((now - lastTime) * TwapPrecision, pools[Other(i)], pools[i]) + Modulus * k
         /\ (\E j \in Assets : pools[j] = 0) => CumulativePrices[i] = prices[i]
         /\ CumulativePrices[i] \in Int
<1>1. /\ pools \in [Assets -> Nat] /\ prices \in [Assets -> 0..(Modulus - 1)] /\ prices[i] \in Nat
      /\ lastTime \in Nat /\ now \in Nat /\ lastTime <= now
      /\ Modulus \in Nat \ {0} /\ TwapPrecision \in Nat \ {0}
      /\ Other(i) \in Assets
  BY PairAssumption DEF PairInv, PairTypes, Other, Assets
<1>2. CASE \E j \in Assets : pools[j] = 0
  BY <1>1, <1>2 DEF CumulativePrices, Accumulated
<1>3. CASE \A j \in Assets : pools[j] # 0
  <2> DEFINE e == (now - lastTime) * TwapPrecision
             y == pools[Other(i)]
             x == pools[i]
             f == MultiplyRatio(e, y, x)
             z == prices[i] + f
  <2>1. y \in Nat /\ x \in Nat \ {0} /\ e \in Nat /\ (now <= lastTime => e = 0)
    <3>1. now - lastTime \in Nat /\ (now <= lastTime => now - lastTime = 0)
      BY <1>1
    <3> QED BY <1>1, <1>3, <3>1
  <2>2. f \in Nat /\ (e = 0 => f = 0)
    <3> HIDE DEF e, y, x
    <3>1. e * y \in Nat
      BY <2>1
    <3>2. f = (e * y) \div x
      BY DEF MultiplyRatio
    <3>3. e = 0 => e * y = 0
      BY <2>1
    <3>4. 0 \div x = 0
      BY <2>1
    <3> QED BY <2>1, <3>1, <3>2, <3>3, <3>4, DivNat
  <2>3. CASE now <= lastTime
    <3>1. CumulativePrices[i] = prices[i]
      BY <2>3 DEF CumulativePrices, Accumulated
    <3> HIDE DEF e, f
    <3>2. f = 0
      BY <2>1, <2>2, <2>3
    <3>3. Modulus * 0 = 0
      BY <1>1
    <3>4. CumulativePrices[i] = prices[i] + f + Modulus * 0
      BY <1>1, <3>1, <3>2, <3>3
    <3>5. \E k \in Int : CumulativePrices[i] = prices[i] + f + Modulus * k
      <4>1. 0 \in Int
        OBVIOUS
      <4> QED BY <3>4, <4>1
    <3>6. CumulativePrices[i] \in Int
      BY <1>1, <3>1
    <3> QED BY <1>3, <3>5, <3>6 DEF f, e
  <2>4. CASE ~(now <= lastTime)
    <3>1. CumulativePrices[i] = z % Modulus
      BY <1>3, <2>4 DEF CumulativePrices, Accumulated
    <3> HIDE DEF f, e
    <3> DEFINE k == z \div Modulus
               r == z % Modulus
    <3>2. z \in Int
      BY <1>1, <2>2
    <3>3. r \in 0..(Modulus - 1) /\ k \in Int /\ z = Modulus * k + r
      BY <1>1, <3>2, ModBounds
    <3>4. Modulus * (-k) = -(Modulus * k) /\ -k \in Int /\ Modulus * k \in Int
      BY <1>1, <3>3
    <3> HIDE DEF k, r
    <3>5. r = z + Modulus * (-k)
      BY <1>1, <3>2, <3>3, <3>4
    <3>6. CumulativePrices[i] = prices[i] + f + Modulus * (-k) /\ CumulativePrices[i] \in Int
      BY <1>1, <3>1, <3>3, <3>5 DEF r
    <3> QED BY <1>3, <3>4, <3>6 DEF f, e
  <2> QED BY <2>3, <2>4
<1> QED BY <1>2, <1>3

PricesAre ==
  \A i \in Assets :
    /\ (\A j \in Assets : pools[j] # 0) =>
         \E k \in Int : CumulativePrices[i] =
           prices[i] + MultiplyRatio((now - lastTime) * TwapPrecision, pools[Other(i)], pools[i]) + Modulus * k
    /\ CumulativePrices[i] \in Int

LEMMA PricesNow == PairInv => PricesAre
BY PriceComesTo DEF PricesAre

LEMMA PricesNext == PairInv' => PricesAre'
BY PricesNow, PTL

(* One second more, at the price that stands. *)
LEMMA SecondAdds ==
  ASSUME PairInv, PairInv', Tick, NEW i \in Assets
  PROVE  \E d \in Nat, k \in Int :
           /\ CumulativePrices'[i] = CumulativePrices[i] + d + Modulus * k
           /\ Price(i) <= d /\ d <= Price(i) + 1
<1> DEFINE y == pools[Other(i)]
           x == pools[i]
           e == now - lastTime
           q(u) == MultiplyRatio(u * TwapPrecision, y, x)
<1>1. /\ pools \in [Assets -> Nat] /\ prices[i] \in Int
      /\ lastTime \in Nat /\ now \in Nat /\ lastTime <= now
      /\ Modulus \in Nat \ {0} /\ TwapPrecision \in Nat \ {0}
      /\ Other(i) \in Assets /\ x \in Nat /\ y \in Nat
  BY PairAssumption DEF PairInv, PairTypes, Other, Assets
<1>2. pools' = pools /\ prices' = prices /\ lastTime' = lastTime /\ now' = now + 1
  BY DEF Tick
<1>3. CumulativePrices'[i] \in Int /\ CumulativePrices[i] \in Int
  BY PricesNow, PricesNext DEF PricesAre
<1>4. CASE \E j \in Assets : pools[j] = 0
  <2>1. CumulativePrices[i] = prices[i]
    BY <1>4, PriceComesTo
  <2>2. CumulativePrices'[i] = prices[i]
    BY <1>2, <1>4 DEF CumulativePrices, Accumulated
  <2>3. Price(i) = 0
    <3>1. CASE x = 0
      BY <3>1 DEF Price
    <3>2. CASE x # 0
      <4>1. y = 0
        BY <1>4, <3>2 DEF Other, Assets
      <4>2. Price(i) = (TwapPrecision * 0) \div x
        BY <3>2, <4>1 DEF Price
      <4>3. TwapPrecision * 0 = 0
        BY <1>1
      <4>4. 0 \div x = 0
        BY <1>1, <3>2
      <4> QED BY <4>2, <4>3, <4>4
    <3> QED BY <3>1, <3>2
  <2>4. Modulus * 0 = 0 /\ 0 \in Nat /\ 0 \in Int
    BY <1>1
  <2>5. CumulativePrices'[i] = CumulativePrices[i] + 0 + Modulus * 0
    BY <1>1, <2>1, <2>2, <2>4
  <2>6. Price(i) <= 0 /\ 0 <= Price(i) + 1
    BY <2>3
  <2> QED BY <2>4, <2>5, <2>6
<1>5. CASE \A j \in Assets : pools[j] # 0
  <2>1. PICK k \in Int : CumulativePrices[i] = prices[i] + q(e) + Modulus * k
    BY <1>5, PriceComesTo
  <2>2. PICK l \in Int : CumulativePrices'[i] = prices[i] + q(e + 1) + Modulus * l
    <3>1. \A j \in Assets : pools'[j] # 0
      BY <1>2, <1>5
    <3>2. \E l \in Int : CumulativePrices'[i] =
            prices'[i] + MultiplyRatio((now' - lastTime') * TwapPrecision, pools'[Other(i)], pools'[i]) + Modulus * l
      BY <3>1, PricesNext DEF PricesAre
    <3>3. now' - lastTime' = e + 1
      BY <1>1, <1>2
    <3> QED BY <1>2, <3>2, <3>3
  <2> DEFINE p == (TwapPrecision * y) \div x
             f == q(e)
             g == q(e + 1)
             d == g - f
             m == l - k
  <2>3. f \in Nat /\ g \in Nat /\ p \in Nat /\ f + p <= g /\ g <= f + p + 1
    <3>1. e \in Nat /\ x \in Nat \ {0} /\ TwapPrecision \in Nat
      BY <1>1, <1>5
    <3> HIDE DEF e, x, y
    <3> QED BY <1>1, <3>1, PieceGrows
  <2>4. p = Price(i)
    BY <1>5 DEF Price
  <2>5. CumulativePrices[i] = prices[i] + f + Modulus * k /\ CumulativePrices'[i] = prices[i] + g + Modulus * l
    BY <2>1, <2>2
  <2> HIDE DEF f, g, p
  <2>6. d \in Nat /\ p <= d /\ d <= p + 1 /\ m \in Int
    BY <2>3
  <2>7. Modulus * m = Modulus * l - Modulus * k /\ Modulus * l \in Int /\ Modulus * k \in Int
    BY <1>1
  <2>8. CumulativePrices'[i] = CumulativePrices[i] + d + Modulus * m
    BY <1>1, <1>3, <2>3, <2>5, <2>7
  <2> HIDE DEF d, m
  <2> QED BY <2>4, <2>6, <2>8
<1> QED BY <1>4, <1>5

LEMMA PassKeepsOracle ==
  ASSUME OracleInv, PairInv', Pass
  PROVE  OracleInv'
<1>1. /\ now \in Nat /\ now' = now + 1 /\ sampledAt \in 0..now /\ Tick
      /\ UNCHANGED <<sampled, average, sampledAt, span, length>>
      /\ seen' = [i \in Assets |-> Witness(i)]
      /\ seen \in [Assets -> [least : Nat, most : Nat]]
  BY DEF OracleInv, OracleTypes, PairInv, PairTypes, Pass, Tick
<1>2. ASSUME NEW i \in Assets
      PROVE  /\ Price(i) \in Nat /\ seen'[i] \in [least : Nat, most : Nat]
             /\ seen'[i].least <= Price(i) /\ Price(i) <= seen'[i].most
             /\ seen'[i].least <= seen[i].least /\ seen[i].most <= seen'[i].most
  <2>1. Price(i) \in Nat
    <3>1. pools[i] \in Nat /\ pools[Other(i)] \in Nat /\ TwapPrecision \in Nat
      BY PairAssumption DEF OracleInv, PairInv, PairTypes, Other, Assets
    <3>2. CASE pools[i] = 0
      BY <3>2 DEF Price
    <3>3. CASE pools[i] # 0
      <4> DEFINE a == TwapPrecision * pools[Other(i)]
      <4>1. a \in Nat /\ Price(i) = a \div pools[i]
        BY <3>1, <3>3 DEF Price
      <4> HIDE DEF a
      <4> QED BY <3>1, <3>3, <4>1, DivNat
    <3> QED BY <3>2, <3>3
  <2>2. seen'[i] = Witness(i) /\ seen[i].least \in Nat /\ seen[i].most \in Nat
    BY <1>1
  <2> QED BY <2>1, <2>2 DEF Witness
<1>3. OracleTypes'
  <2>1. seen' \in [Assets -> [least : Nat, most : Nat]]
    BY <1>1, <1>2
  <2>2. sampledAt \in 0..(now + 1)
    BY <1>1
  <2> QED BY <1>1, <2>1, <2>2 DEF OracleInv, OracleTypes
<1>4. ASSUME sampledAt > 0, NEW i \in Assets
      PROVE  (\E x \in Nat : Grown(i, x) /\ Within(x, seen[i], now - sampledAt))'
  <2>1. PICK x \in Nat : Grown(i, x) /\ Within(x, seen[i], now - sampledAt)
    BY <1>4 DEF OracleInv
  <2>2. PICK k \in Int : CumulativePrices[i] - sampled[i] = x + Modulus * k
    BY <2>1 DEF Grown
  <2>3. PICK d \in Nat, l \in Int :
          /\ CumulativePrices'[i] = CumulativePrices[i] + d + Modulus * l
          /\ Price(i) <= d /\ d <= Price(i) + 1
    BY <1>1, SecondAdds DEF OracleInv
  <2>4. Grown(i, x + d)'
    <3>1. CumulativePrices[i] \in Int /\ sampled[i] \in Int /\ sampled' = sampled /\ Modulus \in Nat
      BY <1>1, PricesNow, PairAssumption DEF OracleInv, OracleTypes, PricesAre
    <3>2. Modulus * (k + l) = Modulus * k + Modulus * l /\ Modulus * k \in Int /\ Modulus * l \in Int
      BY <3>1
    <3>3. k + l \in Int /\ CumulativePrices'[i] - sampled[i] = (x + d) + Modulus * (k + l)
      BY <2>2, <2>3, <3>1, <3>2
    <3> QED BY <3>1, <3>3 DEF Grown
  <2> DEFINE while == now - sampledAt
             old == seen[i]
             new == seen'[i]
             p == Price(i)
  <2>5. /\ while \in Nat /\ while + 1 = now' - sampledAt'
        /\ old.least \in Nat /\ old.most \in Nat /\ new.least \in Nat /\ new.most \in Nat /\ p \in Nat
        /\ new.least <= p /\ p <= new.most /\ new.least <= old.least /\ old.most <= new.most
        /\ p <= d /\ d <= p + 1
        /\ old.least * while <= x /\ x <= (old.most + 1) * while
    BY <1>1, <1>2, <2>1, <2>3 DEF Within
  <2> HIDE DEF while, old, new, p
  <2> DEFINE a == old.least
             b == old.most + 1
             u == new.least
             v == new.most + 1
  <2>6. a \in Nat /\ b \in Nat /\ u \in Nat /\ v \in Nat /\ u <= a /\ b <= v /\ u <= d /\ d <= v
    BY <2>5
  <2>7. a * while <= x /\ x <= b * while
    BY <2>5
  <2> HIDE DEF a, b, u, v
  <2>8. u * while <= a * while /\ b * while <= v * while
    BY <2>5, <2>6, Scaled
  <2>9. /\ u * (while + 1) = u * while + u /\ v * (while + 1) = v * while + v
        /\ u * while \in Int /\ a * while \in Int /\ b * while \in Int /\ v * while \in Int
    BY <2>5, <2>6
  <2>10. u * (while + 1) <= x + d /\ x + d <= v * (while + 1)
    BY <2>6, <2>7, <2>8, <2>9
  <2>11. Within(x + d, seen[i], now - sampledAt)'
    BY <2>5, <2>10 DEF Within, u, v, new
  <2> QED BY <2>4, <2>11
<1>5. (sampledAt > 0 =>
        \A i \in Assets : \E x \in Nat : Grown(i, x) /\ Within(x, seen[i], now - sampledAt))'
  BY <1>1, <1>4
<1>6. (\A i \in Assets : average[i] > 0 =>
         /\ length > 0
         /\ \E x \in Nat : average[i] = Ratio(x % Modulus, length) /\ Within(x, span[i], length))'
  BY <1>1 DEF OracleInv, Within, Ratio
<1> QED BY <1>3, <1>5, <1>6 DEF OracleInv

(* A sample: nothing has been added since. *)
LEMMA SampleBegins ==
  ASSUME OracleInv, UNCHANGED pairVars, sampled' = CumulativePrices, sampledAt' = now, seen' = Nothing
  PROVE  /\ sampled' \in [Assets -> Int] /\ sampledAt' \in 0..now' /\ PairInv'
         /\ seen' \in [Assets -> [least : Nat, most : Nat]]
         /\ (\A i \in Assets : \E x \in Nat : Grown(i, x) /\ Within(x, seen[i], now - sampledAt))'
<1>1. now \in Nat /\ now' = now /\ Modulus \in Nat \ {0}
  BY PairAssumption DEF OracleInv, PairInv, PairTypes, pairVars
<1>2. PairInv'
  BY DEF OracleInv, PairInv, SharesHeld, PairTypes, SharesBacked, pairVars
<1>3. CumulativePrices \in [Assets -> Int]
  <2>1. \A i \in Assets : CumulativePrices[i] \in Int
    BY PricesNow DEF OracleInv, PricesAre
  <2>2. CumulativePrices = [i \in Assets |-> CumulativePrices[i]]
    BY DEF CumulativePrices, Accumulated, OracleInv, PairInv, PairTypes
  <2> QED BY <2>1, <2>2
<1>4. seen' \in [Assets -> [least : Nat, most : Nat]]
  BY <1>1 DEF Nothing
<1>5. CumulativePrices' = CumulativePrices
  BY DEF CumulativePrices, Accumulated, pairVars
<1>6. ASSUME NEW i \in Assets
      PROVE  (\E x \in Nat : Grown(i, x) /\ Within(x, seen[i], now - sampledAt))'
  <2>1. Modulus * 0 = 0 /\ 0 \in Int /\ 0 \in Nat /\ now - now = 0
    BY <1>1
  <2>2. CumulativePrices'[i] - sampled'[i] = 0 + Modulus * 0
    BY <1>3, <1>5, <2>1
  <2>3. Grown(i, 0)'
    BY <2>1, <2>2 DEF Grown
  <2>4. seen'[i].least \in Nat /\ seen'[i].most \in Nat
    BY <1>4
  <2>5. seen'[i].least * 0 = 0 /\ (seen'[i].most + 1) * 0 = 0
    BY <2>4
  <2>6. Within(0, seen[i], now - sampledAt)'
    BY <1>1, <2>1, <2>5 DEF Within
  <2> QED BY <2>1, <2>3, <2>6
<1> QED BY <1>1, <1>2, <1>3, <1>4, <1>6

LEMMA InstantiateKeepsOracle ==
  ASSUME OracleInv, Instantiate
  PROVE  OracleInv'
<1>1. /\ sampled' \in [Assets -> Int] /\ sampledAt' \in 0..now' /\ PairInv'
      /\ seen' \in [Assets -> [least : Nat, most : Nat]]
      /\ (\A i \in Assets : \E x \in Nat : Grown(i, x) /\ Within(x, seen[i], now - sampledAt))'
  BY SampleBegins DEF Instantiate
<1>2. \A i \in Assets : average'[i] = 0
  BY DEF Instantiate
<1>3. OracleTypes'
  BY <1>1 DEF Instantiate, OracleInv, OracleTypes
<1> QED BY <1>1, <1>2, <1>3 DEF OracleInv

LEMMA UpdateKeepsOracle ==
  ASSUME OracleInv, Update
  PROVE  OracleInv'
<1> DEFINE while == now - sampledAt
<1>1. /\ sampled' \in [Assets -> Int] /\ sampledAt' \in 0..now' /\ PairInv'
      /\ seen' \in [Assets -> [least : Nat, most : Nat]]
      /\ (\A i \in Assets : \E x \in Nat : Grown(i, x) /\ Within(x, seen[i], now - sampledAt))'
  BY SampleBegins DEF Update
<1>2. while \in Nat \ {0} /\ Modulus \in Nat \ {0} /\ sampledAt > 0
  BY PairAssumption, OracleAssumption DEF OracleInv, OracleTypes, PairInv, PairTypes, Update
<1>3. ASSUME NEW i \in Assets
      PROVE  \E x \in Nat : /\ average'[i] = Ratio(x % Modulus, while) /\ average'[i] \in Nat
                            /\ Within(x, seen[i], while)
  <2>1. PICK x \in Nat : Grown(i, x) /\ Within(x, seen[i], while)
    BY <1>2 DEF OracleInv
  <2> HIDE DEF while
  <2>2. PICK k \in Int : CumulativePrices[i] - sampled[i] = x + Modulus * k
    BY <2>1 DEF Grown
  <2>3. (CumulativePrices[i] - sampled[i]) % Modulus = x % Modulus
    <3>1. x \in Int
      OBVIOUS
    <3> QED BY <1>2, <2>2, <3>1, ModShift
  <2>4. average'[i] = Ratio(x % Modulus, while)
    BY <2>3 DEF Update, while
  <2>5. average'[i] \in Nat
    <3> DEFINE r == x % Modulus
               y == r * Scale
    <3>1. r \in 0..(Modulus - 1)
      <4>1. x \in Int
        OBVIOUS
      <4> QED BY <1>2, <4>1, ModBounds
    <3> HIDE DEF r
    <3>2. y \in Nat
      BY <1>2, <3>1, ScaleAssumption
    <3>3. average'[i] = y \div while
      BY <2>4 DEF Ratio, r
    <3> HIDE DEF y
    <3> QED BY <1>2, <3>2, <3>3, DivNat
  <2> QED BY <2>1, <2>4, <2>5
<1>4. /\ average' = [i \in Assets |-> average'[i]] /\ span' = seen /\ length' = while
  BY DEF Update
<1>5. OracleTypes'
  BY <1>1, <1>2, <1>3, <1>4 DEF OracleInv, OracleTypes
<1>6. (\A i \in Assets : average[i] > 0 =>
         /\ length > 0
         /\ \E x \in Nat : average[i] = Ratio(x % Modulus, length) /\ Within(x, span[i], length))'
  <2> HIDE DEF while
  <2> QED BY <1>2, <1>3, <1>4 DEF Within, Ratio
<1> QED BY <1>1, <1>5, <1>6 DEF OracleInv

LEMMA OracleStep ==
  ASSUME OracleInv, MaxPool <= Scale, [OracleNext]_oracleVars
  PROVE  OracleInv'
<1>1. CASE Instantiate
  BY <1>1, InstantiateKeepsOracle
<1>2. CASE Update
  BY <1>2, UpdateKeepsOracle
<1>3. CASE Pass
  <2>1. [Next]_pairVars
    BY <1>3 DEF Pass, Next
  <2>2. PairInv'
    BY <2>1, PairStep DEF OracleInv
  <2> QED BY <1>3, <2>2, PassKeepsOracle
<1>4. CASE UNCHANGED oracleVars
  BY <1>4 DEF oracleVars, sampleVars, pairVars, OracleInv, OracleTypes, PairInv, SharesHeld, PairTypes,
              SharesBacked, Grown, Within, Ratio, CumulativePrices, Accumulated, MultiplyRatio
<1>5. CASE UNCHANGED sampleVars
           /\ \/ \E receiver \in Users, autoStake \in BOOLEAN, x, y \in Deposits,
                    tolerance \in Tolerances, least \in Minima :
                   ProvideLiquidity(receiver, autoStake, <<x, y>>, tolerance, least)
              \/ \E user \in Users, least \in Minima, amount \in LpAmounts :
                   WithdrawLiquidity(user, amount, least)
              \/ \E offered \in Assets, offer \in Offers, info \in FeeInfos, belief \in BeliefPrices,
                    maxSpread \in Tolerances : Swap(offered, offer, info, belief, maxSpread)
  <2>1. [Next]_pairVars
    BY <1>5 DEF Next
  <2>2. PairInv'
    BY <2>1, PairStep DEF OracleInv
  <2>3. AccumulatePrices /\ now' = now
    BY <1>5 DEF ProvideLiquidity, WithdrawLiquidity, Swap
  <2> QED BY <1>5, <2>2, <2>3, MessageKeepsOracle
<1> QED BY <1>1, <1>2, <1>3, <1>4, <1>5 DEF OracleNext

LEMMA OracleStart == OracleInit => OracleInv
<1> SUFFICES ASSUME OracleInit PROVE OracleInv
  OBVIOUS
<1>1. Init /\ sampledAt = 0 /\ seen = Nothing /\ span = Nothing /\ length = 0
      /\ sampled = [i \in Assets |-> 0] /\ average = [i \in Assets |-> 0]
  BY DEF OracleInit
<1>2. PairInv
  BY <1>1, PairInit
<1>3. now \in Nat /\ Modulus \in Nat
  BY <1>2, PairAssumption DEF PairInv, PairTypes
<1>4. OracleTypes
  BY <1>1, <1>3 DEF OracleTypes, Nothing
<1>5. ~(sampledAt > 0) /\ \A i \in Assets : ~(average[i] > 0)
  BY <1>1
<1> QED BY <1>2, <1>4, <1>5 DEF OracleInv

(* What an answer is from an average of x over a while.                    *)
LEMMA AnswerBounds ==
  ASSUME NEW x \in Nat, NEW while \in Nat \ {0}, NEW amount \in Nat,
         NEW lo \in Nat, NEW hi \in Nat, lo * while <= x, x <= hi * while
  PROVE  LET answer == Times(amount, Ratio(x, while)) \div TwapPrecision
         IN  answer * TwapPrecision <= amount * hi /\ amount * lo < (answer + 1) * TwapPrecision
<1> DEFINE sx == x * Scale
           q == Ratio(x, while)
           aq == amount * q
           t == Times(amount, q)
           answer == t \div TwapPrecision
<1>1. Scale \in Nat \ {0} /\ TwapPrecision \in Nat \ {0}
  BY ScaleAssumption, PairAssumption
<1>2. q \in Nat /\ q * while <= sx /\ sx < q * while + while /\ sx \in Nat
  <2>1. sx \in Nat /\ q = sx \div while
    BY <1>1 DEF Ratio
  <2> HIDE DEF sx, q
  <2> QED BY <2>1, DivBounds, DivNat
<1> HIDE DEF q
<1>3. q <= hi * Scale
  <2>1. x * Scale <= (hi * while) * Scale
    <3>1. hi * while \in Int
      OBVIOUS
    <3> QED BY <1>1, <3>1, Scaled
  <2>2. (hi * while) * Scale = (hi * Scale) * while /\ hi * Scale \in Nat
    BY <1>1
  <2>3. q * while <= (hi * Scale) * while
    <3> DEFINE qw == q * while
               hw == (hi * Scale) * while
    <3>1. qw <= sx /\ sx <= hw /\ qw \in Int /\ hw \in Int
      BY <1>2, <2>1, <2>2
    <3> HIDE DEF qw, hw, sx
    <3>2. qw <= hw
      BY <1>2, <3>1
    <3> QED BY <3>2 DEF qw, hw
  <2> QED BY <1>2, <2>2, <2>3, Cancel
<1>4. lo * Scale <= q
  <2>1. (lo * while) * Scale <= x * Scale
    <3>1. lo * while \in Int
      OBVIOUS
    <3> QED BY <1>1, <3>1, Scaled
  <2>2. (lo * while) * Scale = (lo * Scale) * while /\ lo * Scale \in Nat /\ (q + 1) * while = q * while + while
    BY <1>1, <1>2
  <2>3. (lo * Scale) * while < (q + 1) * while
    <3> DEFINE qw == q * while
               lw == (lo * Scale) * while
    <3>1. lw <= sx /\ sx < qw + while /\ qw \in Int /\ lw \in Int
      BY <1>2, <2>1, <2>2
    <3> HIDE DEF qw, lw, sx
    <3>2. lw < qw + while
      BY <1>2, <3>1
    <3> QED BY <2>2, <3>2 DEF qw, lw
  <2>4. lo * Scale < q + 1
    <3>1. q + 1 \in Int /\ lo * Scale \in Int
      BY <1>2, <2>2
    <3> QED BY <2>3, <3>1, CancelLess
  <2> QED BY <1>2, <2>2, <2>4
<1>5. t \in Nat /\ t * Scale <= aq /\ aq < t * Scale + Scale /\ aq \in Nat
  <2>1. aq \in Nat /\ t = aq \div Scale
    BY <1>1, <1>2 DEF Times
  <2> HIDE DEF aq, t
  <2> QED BY <1>1, <2>1, DivBounds, DivNat
<1>6. t <= amount * hi
  <2>1. aq <= (amount * hi) * Scale
    <3>1. q * amount <= (hi * Scale) * amount
      <4>1. hi * Scale \in Int
        BY <1>1
      <4> QED BY <1>2, <1>3, <4>1, Scaled
    <3>2. q * amount = aq /\ (hi * Scale) * amount = (amount * hi) * Scale
      BY <1>1, <1>2
    <3> QED BY <3>1, <3>2
  <2>2. t * Scale <= (amount * hi) * Scale /\ amount * hi \in Int
    <3>1. t * Scale \in Int /\ (amount * hi) * Scale \in Int /\ amount * hi \in Int
      BY <1>1, <1>5
    <3> QED BY <1>5, <2>1, <3>1
  <2> QED BY <1>1, <1>5, <2>2, Cancel
<1>7. amount * lo <= t
  <2>1. (amount * lo) * Scale <= aq
    <3>1. (lo * Scale) * amount <= q * amount
      <4>1. lo * Scale \in Int
        BY <1>1
      <4> QED BY <1>2, <1>4, <4>1, Scaled
    <3>2. q * amount = aq /\ (lo * Scale) * amount = (amount * lo) * Scale
      BY <1>1, <1>2
    <3> QED BY <3>1, <3>2
  <2> DEFINE al == amount * lo
  <2>2. al * Scale < (t + 1) * Scale /\ al \in Int /\ t + 1 \in Int
    <3>1. al \in Int /\ al * Scale <= aq
      BY <2>1
    <3> HIDE DEF al, aq, t
    <3>2. (t + 1) * Scale = t * Scale + Scale /\ t * Scale \in Int /\ al * Scale \in Int /\ t + 1 \in Int
      BY <1>1, <1>5, <3>1
    <3> QED BY <1>1, <1>5, <3>1, <3>2
  <2>3. amount * lo < t + 1
    BY <1>1, <2>2, CancelLess
  <2> QED BY <1>5, <2>2, <2>3
<1> HIDE DEF t
<1>8. answer \in Nat /\ answer * TwapPrecision <= t /\ t < answer * TwapPrecision + TwapPrecision
  BY <1>1, <1>5, DivBounds, DivNat
<1> HIDE DEF answer
<1>9. (answer + 1) * TwapPrecision = answer * TwapPrecision + TwapPrecision /\ answer * TwapPrecision \in Int
  BY <1>1, <1>8
<1>10. amount * hi \in Int /\ amount * lo \in Int
  OBVIOUS
<1>11. answer * TwapPrecision <= amount * hi /\ amount * lo < (answer + 1) * TwapPrecision
  BY <1>1, <1>5, <1>6, <1>7, <1>8, <1>9, <1>10
<1> QED BY <1>11 DEF answer, t, q

(* Whatever the pair is sent between two samples, and however often its    *)
(* sums wrap, what the oracle answers from its average (consult, update)   *)
(* lies between the least and the greatest price that stood in the time of *)
(* the average, for pools of up to Scale units.                            *)
THEOREM AverageAlwaysWithinPrices == MaxPool <= Scale => (OracleSpec => []AverageWithinPrices)
<1> SUFFICES ASSUME MaxPool <= Scale PROVE OracleSpec => []AverageWithinPrices
  OBVIOUS
<1>1. OracleInv => AverageWithinPrices
  <2> SUFFICES ASSUME OracleInv, NEW i \in Assets, NEW amount \in Amounts, NEW info \in FeeInfos,
                      average[i] > 0, (span[i].most + 1) * length < Modulus
               PROVE  LET answer == Consult(i, amount, info)
                      IN  /\ answer * TwapPrecision <= amount * (span[i].most + 1)
                          /\ (answer + 1) * TwapPrecision > amount * span[i].least
    BY DEF AverageWithinPrices
  <2>1. /\ length \in Nat \ {0} /\ average[i] \in Nat /\ Modulus \in Nat \ {0} /\ amount \in Nat
        /\ span[i].least \in Nat /\ span[i].most \in Nat
    BY PairAssumption, OracleAssumption DEF OracleInv, OracleTypes
  <2>2. PICK x \in Nat : average[i] = Ratio(x % Modulus, length) /\ Within(x, span[i], length)
    BY DEF OracleInv
  <2> DEFINE lo == span[i].least
             hi == span[i].most + 1
  <2>3. lo * length <= x /\ x <= hi * length /\ lo \in Nat /\ hi \in Nat
    BY <2>1, <2>2 DEF Within
  <2>4. x % Modulus = x
    <3>1. hi * length \in Int /\ x <= hi * length /\ hi * length < Modulus
      BY <2>1, <2>3
    <3>2. x \in 0..(Modulus - 1)
      BY <2>1, <3>1
    <3> QED BY <2>1, <3>2, ModSmall
  <2>5. Consult(i, amount, info) = Times(amount, Ratio(x, length)) \div TwapPrecision
    BY <2>1, <2>2, <2>4 DEF Consult
  <2> DEFINE answer == Times(amount, Ratio(x, length)) \div TwapPrecision
  <2>6. answer * TwapPrecision <= amount * hi /\ amount * lo < (answer + 1) * TwapPrecision
    <3> HIDE DEF lo, hi
    <3> QED BY <2>1, <2>3, AnswerBounds
  <2>7. TwapPrecision \in Nat /\ answer \in Int /\ amount * lo \in Int
    <3>1. Times(amount, Ratio(x, length)) \in Nat
      <4> DEFINE sx == x * Scale
                 q == sx \div length
                 aq == amount * q
      <4>1. sx \in Nat /\ Scale \in Nat \ {0}
        BY ScaleAssumption
      <4>2. q = Ratio(x, length)
        BY DEF Ratio
      <4> HIDE DEF sx
      <4>3. q \in Nat
        BY <2>1, <4>1, DivNat
      <4> HIDE DEF q
      <4>4. aq \in Nat /\ Times(amount, q) = aq \div Scale
        BY <2>1, <4>3 DEF Times
      <4> HIDE DEF aq
      <4>5. aq \div Scale \in Nat
        BY <4>1, <4>4, DivNat
      <4> QED BY <4>2, <4>4, <4>5
    <3>2. TwapPrecision \in Nat \ {0}
      BY PairAssumption
    <3>3. answer \in Nat
      <4> DEFINE t == Times(amount, Ratio(x, length))
      <4>1. t \in Nat
        BY <3>1
      <4> HIDE DEF t
      <4>2. t \div TwapPrecision \in Nat
        BY <3>2, <4>1, DivNat
      <4> QED BY <4>2 DEF t
    <3> QED BY <2>1, <2>3, <3>2, <3>3
  <2> HIDE DEF answer
  <2>8. (answer + 1) * TwapPrecision > amount * lo
    <3>1. (answer + 1) * TwapPrecision \in Int
      BY <2>7
    <3> QED BY <2>6, <2>7, <3>1
  <2> QED BY <2>5, <2>6, <2>8 DEF answer
<1>2. OracleInv /\ [OracleNext]_oracleVars => OracleInv'
  BY OracleStep
<1> QED BY <1>1, <1>2, OracleStart, PTL DEF OracleSpec
=============================================================================
