---------------------------- MODULE CurveProofs -----------------------------
(***************************************************************************)
(* The pairs along a curve, for every order of their messages and every    *)
(* value of their parameters: the amplification of the stable pair moves   *)
(* slowly, the price scale of the concentrated pair follows the trades,    *)
(* and what either has observed is found, stands, and is averaged within   *)
(* the prices it saw.                                                      *)
(*                                                                         *)
(* The amplification.  A window of the shortest time that a change takes   *)
(* may see the end of one change and the beginning of the next.  They do   *)
(* not add up, because the next one begins no sooner than that time after  *)
(* the one before it, which then has made most of its way: what a change   *)
(* has made of the value in the last u units of time leaves the next one   *)
(* just what it makes in the rest of the window.                           *)
(*                                                                         *)
(* The observations.  They are in a ring, and RingInv says where in it     *)
(* the observations of the log are.  A search over a range of the ring is  *)
(* shown right by induction on the width of the range.  The averages are   *)
(* kept within the prices by a sum that they are a part of, up to what     *)
(* was rounded: AverageInv follows it from one observation to the next.    *)
(*                                                                         *)
(* The price scale.  The oracle is an average of its own past and of the   *)
(* last price of an earlier block, the scale makes part of the way to the  *)
(* oracle; each rounds down once.  PegKept says between which two of the   *)
(* prices at the end of the blocks so far both of them are, and that they  *)
(* lost at most two atomics for each unit of time.  That the fees are no   *)
(* more than what a swap gives, and the halving function no more than one, *)
(* is shown by induction on the rounds of the loops that compute them.     *)
(***************************************************************************)
EXTENDS StablePair, SumLemmas, SequenceTheorems

K == MaxAmpChange
M == MinAmpChangingTime
P == K - 1

Stopped(r) == r.nextTime = r.initTime

(* A change that the pair may store: of at most the factor, and over no    *)
(* less than the shortest time.                                            *)
Legal(r) ==
  /\ r.init \in Nat /\ r.next \in Nat /\ r.initTime \in Int /\ r.nextTime \in Int
  /\ r.next <= K * r.init /\ r.init <= K * r.next
  /\ \/ Stopped(r) /\ r.init = r.next
     \/ r.nextTime >= r.initTime + M

(* Two values within the factor, up to rounding. *)
Near(x, y) == y <= K * (x + 1) /\ x <= K * (y + 1)

(* The value y that a change has come to, and its value x of u earlier.    *)
Approached(x, y, u) ==
  /\ y * (K * M - P * u) <= K * M * (x + 1)
  /\ x * M <= y * (M + P * u) + M

AmpInv ==
  /\ now \in Nat \ {0} /\ amps \in Seq(Nat) /\ Len(amps) = now
  /\ Legal(amp) /\ amp.initTime <= now
  /\ \A t \in 1..now : t >= amp.initTime => amps[t] = AmpAt(amp, t)
  /\ \A t \in 1..now : t < amp.initTime =>
       IF Stopped(amp)
       THEN now - t <= M => Near(amps[t], amp.init)
       ELSE amp.initTime - t <= M => Approached(amps[t], amp.init, amp.initTime - t)
-----------------------------------------------------------------------------
(* The way of a change.                                                    *)

LEMMA Limits == K \in Nat \ {0} /\ M \in Nat \ {0} /\ P \in Nat /\ K = P + 1
BY StablePairAssumption DEF K, M, P

LEMMA Products ==
  ASSUME NEW a \in Nat, NEW b \in Nat, NEW c \in Nat, NEW d \in Nat, a <= b, c <= d
  PROVE  a * c <= b * d
<1>1. a * c <= b * c
  BY Scaled
<1>2. c * b <= d * b
  BY Scaled
<1>3. a * c \in Int /\ b * c \in Int /\ b * d \in Int /\ c * b = b * c /\ d * b = b * d
  OBVIOUS
<1> QED BY <1>1, <1>2, <1>3

(* The value A after e of the D that a change from a to n takes: the one   *)
(* on the straight line between them, rounded towards where it began.      *)
OnWay(A, a, n, D, e) ==
  /\ A \in Nat
  /\ a <= n => /\ a <= A /\ A <= n
               /\ A * D <= a * D + (n - a) * e
               /\ a * D + (n - a) * e <= A * D + D
  /\ n <= a => /\ n <= A /\ A <= a
               /\ a * D <= A * D + (a - n) * e
               /\ A * D + (a - n) * e <= a * D + D

LEMMA PartOfWay ==
  ASSUME NEW d \in Nat, NEW D \in Nat \ {0}, NEW e \in 0..D, NEW q, q = (d * e) \div D
  PROVE  q \in 0..d /\ q * D <= d * e /\ d * e <= q * D + D
<1>1. d * e \in Nat
  OBVIOUS
<1>2. q \in Nat /\ q * D <= d * e /\ d * e < q * D + D
  BY <1>1, DivBounds, DivNat
<1>3. e * d <= D * d
  BY Scaled
<1>4. q * D <= d * D
  BY <1>1, <1>2, <1>3
<1>5. q <= d
  BY <1>2, <1>4, Cancel
<1> QED BY <1>1, <1>2, <1>5

LEMMA AmpOnWay ==
  ASSUME NEW r, Legal(r), ~Stopped(r), NEW t \in Int, t >= r.initTime,
         NEW D, D = r.nextTime - r.initTime,
         NEW e, e = IF t >= r.nextTime THEN D ELSE t - r.initTime
  PROVE  D \in Nat /\ D >= M /\ e \in 0..D /\ OnWay(AmpAt(r, t), r.init, r.next, D, e)
<1> DEFINE a == r.init
           n == r.next
           A == AmpAt(r, t)
<1>1. /\ a \in Nat /\ n \in Nat /\ r.initTime \in Int /\ r.nextTime \in Int
      /\ D \in Nat \ {0} /\ D >= M /\ e \in 0..D
  BY Limits DEF Legal
<1>2. CASE t >= r.nextTime
  <2>1. A = n /\ e = D
    BY <1>2 DEF AmpAt
  <2> HIDE DEF A, a, n
  <2>2. a * D + (n - a) * D = n * D /\ n * D + (a - n) * D = a * D /\ n * D \in Int /\ a * D \in Int
    BY <1>1
  <2> QED BY <1>1, <2>1, <2>2 DEF OnWay, A, a, n
<1>3. CASE ~(t >= r.nextTime)
  <2>1. /\ e = t - r.initTime /\ SaturatingSub(t, r.initTime) = e
        /\ SaturatingSub(r.nextTime, r.initTime) = D
    BY <1>1, <1>3 DEF SaturatingSub
  <2>2. A = IF n > a THEN a + ((n - a) * e) \div D ELSE a - ((a - n) * e) \div D
    BY <1>3, <2>1 DEF AmpAt
  <2> HIDE DEF A, a, n
  <2>3. CASE n > a
    <3> DEFINE d == n - a
               q == (d * e) \div D
    <3>1. d \in Nat /\ A = a + q
      BY <1>1, <2>2, <2>3
    <3>2. q \in 0..d /\ q * D <= d * e /\ d * e <= q * D + D
      BY <1>1, <3>1, PartOfWay
    <3> HIDE DEF q
    <3>3. q \in Nat /\ A \in Nat /\ a <= A /\ A <= n /\ ~(n <= a)
      BY <1>1, <2>3, <3>1, <3>2
    <3>4. A * D = a * D + q * D /\ a * D \in Int /\ q * D \in Int /\ d * e \in Int
      BY <1>1, <3>1, <3>3
    <3> HIDE DEF d
    <3>5. A * D <= a * D + d * e /\ a * D + d * e <= A * D + D
      BY <1>1, <3>2, <3>4
    <3> QED BY <1>1, <3>3, <3>5 DEF OnWay, d, A, a, n
  <2>4. CASE ~(n > a)
    <3> DEFINE d == a - n
               q == (d * e) \div D
    <3>1. d \in Nat /\ A = a - q
      BY <1>1, <2>2, <2>4
    <3>2. q \in 0..d /\ q * D <= d * e /\ d * e <= q * D + D
      BY <1>1, <3>1, PartOfWay
    <3> HIDE DEF q
    <3>3. q \in Nat /\ A \in Nat /\ A <= a /\ n <= A
      BY <1>1, <2>4, <3>1, <3>2
    <3>4. A * D = a * D - q * D /\ a * D \in Int /\ q * D \in Int /\ d * e \in Int
      BY <1>1, <3>1, <3>3
    <3>5. a * D <= A * D + d * e /\ A * D + d * e <= a * D + D
      <4> HIDE DEF d
      <4> QED BY <1>1, <3>2, <3>4
    <3>6. a <= n => d = 0 /\ a = n /\ q = 0 /\ A = a /\ (n - a) * e = 0
      BY <1>1, <2>4, <3>1, <3>2
    <3> QED BY <1>1, <3>3, <3>4, <3>5, <3>6 DEF OnWay, A, a, n
  <2> QED BY <2>3, <2>4
<1> QED BY <1>1, <1>2, <1>3

LEMMA AmpStopped ==
  ASSUME NEW r, Legal(r), Stopped(r), NEW t \in Int, t >= r.initTime
  PROVE  AmpAt(r, t) = r.init
<1>1. r.init = r.next /\ t >= r.nextTime
  BY Limits DEF Legal, Stopped
<1> QED BY <1>1 DEF AmpAt

(* Two values on the same way, the later one u after the other: neither is *)
(* on the wrong side of the other by more than the rounding.               *)
LEMMA InOrder ==
  ASSUME NEW a \in Nat, NEW n \in Nat, NEW D \in Nat \ {0}, NEW e \in 0..D, NEW f \in e..D,
         NEW b, OnWay(b, a, n, D, e), NEW c, OnWay(c, a, n, D, f)
  PROVE  /\ b \in Nat /\ c \in Nat
         /\ a <= n => b <= c + 1
         /\ n <= a => c <= b + 1
<1>1. b \in Nat /\ c \in Nat /\ e \in Nat /\ f \in Nat /\ e <= f
  BY DEF OnWay
<1>2. ASSUME a <= n PROVE b <= c + 1
  <2> DEFINE d == n - a
  <2>1. d \in Nat
    BY <1>2
  <2>2. b * D <= a * D + d * e /\ a * D + d * f <= c * D + D
    BY <1>2 DEF OnWay
  <2> HIDE DEF d
  <2>3. d * e <= d * f
    BY <1>1, <2>1, Products
  <2>4. b * D <= (c + 1) * D
    <3>1. (c + 1) * D = c * D + D
      BY <1>1
    <3> QED BY <1>1, <2>1, <2>2, <2>3, <3>1
  <2> QED BY <1>1, <2>4, Cancel
<1>3. ASSUME n <= a PROVE c <= b + 1
  <2> DEFINE d == a - n
  <2>1. d \in Nat
    BY <1>3
  <2>2. a * D <= b * D + d * e /\ c * D + d * f <= a * D + D
    BY <1>3 DEF OnWay
  <2> HIDE DEF d
  <2>3. d * e <= d * f
    BY <1>1, <2>1, Products
  <2>4. c * D <= (b + 1) * D
    <3>1. (b + 1) * D = b * D + D
      BY <1>1
    <3> QED BY <1>1, <2>1, <2>2, <2>3, <3>1
  <2> QED BY <1>1, <2>4, Cancel
<1> QED BY <1>1, <1>2, <1>3

(* A change that rises, the shortest time or more after it began: what it  *)
(* has made in the last u is within its part of the factor.                *)
LEMMA RisenWithin ==
  ASSUME NEW a \in Nat, NEW d \in Nat, d <= P * a, NEW D \in Nat \ {0}, M <= D,
         NEW e \in 0..D, NEW f \in e..D, M <= f, NEW u \in 0..M, f - e <= u,
         NEW b \in Nat, NEW c \in Nat, c * D <= a * D + d * f, a * D + d * e <= b * D + D
  PROVE  c * (K * M - P * u) <= K * M * (b + 1)
<1>0. K \in Nat \ {0} /\ M \in Nat \ {0} /\ P \in Nat /\ K = P + 1 /\ e \in Nat /\ f \in Nat
  BY Limits
<1> DEFINE X == a * D + d * f
           Y == a * D + d * e
           KM == K * M
           W == KM - P * u
<1>1. /\ X \in Nat /\ Y \in Nat /\ KM \in Nat /\ X - Y = d * (f - e) /\ KM = P * M + M
      /\ (P * a) * D \in Nat /\ d * M \in Nat /\ d * u \in Nat /\ P * u \in Nat
  BY <1>0
<1>2. W \in Nat
  <2>1. P * u <= P * M
    BY <1>0, Products
  <2> QED BY <1>0, <1>1, <2>1
(* The slope of the line is at most P times what it has reached by then.   *)
<1>3. KM * d <= P * X
  <2>1. d * M <= (P * a) * D
    BY <1>0, <1>1, Products
  <2>2. (P * d) * M <= (P * d) * f
    BY <1>0, Products
  <2>3. KM * d = (P * d) * M + d * M /\ P * X = (P * a) * D + (P * d) * f
    BY <1>0, <1>1
  <2>4. (P * d) * M \in Int /\ (P * d) * f \in Int
    BY <1>0
  <2> QED BY <1>1, <2>1, <2>2, <2>3, <2>4
<1>4. KM * (X - Y) <= (P * u) * X
  <2>1. d * (f - e) <= d * u
    <3>1. f - e \in Nat
      BY <1>0
    <3> QED BY <1>0, <3>1, Products
  <2>2. KM * (X - Y) <= KM * (d * u)
    <3>1. X - Y \in Nat
      BY <1>0, <1>1
    <3> HIDE DEF X, Y, KM
    <3> QED BY <1>0, <1>1, <2>1, <3>1, Products
  <2>3. (KM * d) * u <= (P * X) * u
    <3>1. KM * d \in Nat /\ P * X \in Nat
      BY <1>0, <1>1
    <3> HIDE DEF X, KM
    <3> QED BY <1>0, <1>3, <3>1, Scaled
  <2> HIDE DEF X, Y, KM
  <2>4. KM * (d * u) = (KM * d) * u /\ (P * X) * u = (P * u) * X /\ KM * (X - Y) \in Int
        /\ (KM * d) * u \in Int /\ (P * u) * X \in Int
    BY <1>0, <1>1
  <2> QED BY <2>2, <2>3, <2>4
<1>5. W * X <= KM * Y
  <2>0. W = KM - P * u
    OBVIOUS
  <2> HIDE DEF X, Y, KM, W
  <2>1. W * X = KM * X - (P * u) * X
    BY <1>0, <1>1, <2>0
  <2>2. KM * (X - Y) = KM * X - KM * Y
    BY <1>1
  <2>3. KM * X \in Int /\ KM * Y \in Int /\ (P * u) * X \in Int
    BY <1>1
  <2> QED BY <1>4, <2>1, <2>2, <2>3
<1>6. c * D <= X /\ Y <= (b + 1) * D
  <2>1. (b + 1) * D = b * D + D
    BY <1>0
  <2> QED BY <2>1
<1> HIDE DEF X, Y, KM, W
<1>7. (c * W) * D <= (KM * (b + 1)) * D
  <2>1. (c * D) * W <= X * W
    BY <1>1, <1>2, <1>6, Scaled
  <2>2. Y * KM <= ((b + 1) * D) * KM
    BY <1>1, <1>6, Scaled
  <2>3. (c * D) * W = (c * W) * D /\ X * W = W * X /\ Y * KM = KM * Y /\ ((b + 1) * D) * KM = (KM * (b + 1)) * D
    BY <1>1, <1>2
  <2>4. (c * W) * D \in Int /\ W * X \in Int /\ KM * Y \in Int /\ (KM * (b + 1)) * D \in Int
    BY <1>1, <1>2
  <2> QED BY <1>5, <2>1, <2>2, <2>3, <2>4
<1>8. c * W \in Int /\ KM * (b + 1) \in Int
  BY <1>1, <1>2
<1>9. c * W <= KM * (b + 1)
  BY <1>7, <1>8, Cancel
<1> QED BY <1>9 DEF KM, W

(* The same of a change that falls. *)
LEMMA FallenWithin ==
  ASSUME NEW n \in Nat, NEW d \in Nat, d <= P * n, NEW a, a = n + d, NEW D \in Nat \ {0}, M <= D,
         NEW e \in 0..D, NEW f \in e..D, NEW u \in 0..M, f - e <= u,
         NEW b \in Nat, NEW c \in Nat, b * D + d * e <= a * D + D, a * D <= c * D + d * f
  PROVE  b * M <= c * (M + P * u) + M
<1>0. M \in Nat \ {0} /\ P \in Nat /\ e \in Nat /\ f \in Nat /\ a \in Nat
  BY Limits
<1> DEFINE X == a * D - d * f
           Y == a * D - d * e
           W == M + P * u
<1>1. W \in Nat /\ P * u \in Nat /\ Y - X = d * (f - e) /\ X \in Int /\ Y \in Int
      /\ n * D \in Nat /\ d * D \in Nat /\ a * D = n * D + d * D
  BY <1>0
<1>2. n * D <= X
  <2>1. d * f <= d * D
    BY <1>0, Products
  <2> QED BY <1>0, <1>1, <2>1
<1>3. (Y - X) * M <= (P * u) * X
  <2>1. d * (f - e) <= (P * n) * u
    BY <1>0, Products
  <2>2. ((P * n) * u) * M = (P * u) * (n * M)
    BY <1>0
  <2>3. (Y - X) * M <= (P * u) * (n * M)
    <3>1. Y - X \in Int /\ (P * n) * u \in Int
      BY <1>0, <1>1
    <3> HIDE DEF X, Y
    <3>2. (Y - X) * M <= ((P * n) * u) * M
      BY <1>0, <1>1, <2>1, <3>1, Scaled
    <3> QED BY <2>2, <3>2
  <2>4. n * M <= n * D
    BY <1>0, Products
  <2>5. n * M <= X /\ n * M \in Nat /\ X \in Nat
    BY <1>0, <1>1, <1>2, <2>4
  <2> HIDE DEF X, Y
  <2>6. (P * u) * (n * M) <= (P * u) * X
    BY <1>1, <2>5, Products
  <2>7. (P * u) * (n * M) \in Int /\ (P * u) * X \in Int /\ (Y - X) * M \in Int
    BY <1>0, <1>1, <2>5
  <2> QED BY <2>3, <2>6, <2>7
<1>4. b * D <= Y + D /\ X <= c * D
  <2>1. b * D \in Int /\ d * e \in Int /\ a * D \in Int /\ c * D \in Int /\ d * f \in Int
    BY <1>0
  <2> QED BY <2>1
<1>5. W = M + P * u
  OBVIOUS
<1> HIDE DEF X, Y, W
<1>6. Y * M <= X * W
  <2>1. X * W = X * M + (P * u) * X /\ (Y - X) * M = Y * M - X * M
    BY <1>0, <1>1, <1>5
  <2>2. X * M \in Int /\ Y * M \in Int /\ (P * u) * X \in Int
    BY <1>0, <1>1
  <2> QED BY <1>3, <2>1, <2>2
<1>7. (b * M) * D <= (c * W + M) * D
  <2>1. (b * D) * M <= (Y + D) * M
    BY <1>0, <1>1, <1>4, Scaled
  <2>2. X * W <= (c * D) * W
    BY <1>0, <1>1, <1>4, Scaled
  <2>3. (b * D) * M = (b * M) * D /\ (Y + D) * M = Y * M + M * D /\ (c * W + M) * D = (c * D) * W + M * D
    BY <1>0, <1>1
  <2>4. (b * M) * D \in Int /\ Y * M \in Int /\ M * D \in Int /\ X * W \in Int /\ (c * D) * W \in Int
    BY <1>0, <1>1
  <2> QED BY <1>6, <2>1, <2>2, <2>3, <2>4
<1>8. b * M \in Int /\ c * W + M \in Int
  BY <1>0, <1>1
<1> QED BY <1>5, <1>7, <1>8, Cancel

(* What a change makes in its first v units of time. *)
LEMMA RiseBegins ==
  ASSUME NEW a \in Nat, NEW d \in Nat, d <= P * a, NEW D \in Nat \ {0}, M <= D,
         NEW f \in Nat, NEW v \in Nat, f <= v, NEW c \in Nat, c * D <= a * D + d * f
  PROVE  c * M <= a * (M + P * v)
<1>0. M \in Nat \ {0} /\ P \in Nat
  BY Limits
<1> DEFINE V == a * P * v
<1>1. (d * f) * M <= V * D
  <2>1. d * f <= (P * a) * v
    BY <1>0, Products
  <2>2. (d * f) * M <= ((P * a) * v) * D
    <3>1. d * f \in Nat /\ (P * a) * v \in Nat
      BY <1>0
    <3> QED BY <1>0, <2>1, <3>1, Products
  <2> QED BY <1>0, <2>2
<1>2. V \in Nat /\ a * (M + P * v) = a * M + V
  BY <1>0
<1> HIDE DEF V
<1>3. (c * M) * D <= (a * M + V) * D
  <2>1. (c * D) * M <= (a * D + d * f) * M
    BY <1>0, Scaled
  <2>2. (c * D) * M = (c * M) * D /\ (a * D + d * f) * M = (a * M) * D + (d * f) * M
        /\ (a * M + V) * D = (a * M) * D + V * D
    BY <1>0, <1>2
  <2>3. (c * M) * D \in Int /\ (a * M) * D \in Int /\ (d * f) * M \in Int /\ V * D \in Int
    BY <1>0, <1>2
  <2> QED BY <1>1, <2>1, <2>2, <2>3
<1>4. c * M \in Int /\ a * M + V \in Int
  BY <1>0, <1>2
<1> QED BY <1>2, <1>3, <1>4, Cancel

LEMMA FallBegins ==
  ASSUME NEW a \in Nat, NEW d \in Nat, K * d <= P * a, NEW D \in Nat \ {0}, M <= D,
         NEW f \in Nat, NEW v \in Nat, f <= v, NEW c \in Nat, a * D <= c * D + d * f
  PROVE  a * (K * M - P * v) <= K * M * c
<1>0. K \in Nat \ {0} /\ M \in Nat \ {0} /\ P \in Nat
  BY Limits
<1> DEFINE V == a * P * v
           KM == K * M
<1>1. (d * f) * KM <= V * D
  <2>1. (K * d) * f <= (P * a) * v
    <3>1. K * d \in Nat /\ P * a \in Nat
      BY <1>0
    <3> QED BY <3>1, Products
  <2>2. ((K * d) * f) * M <= ((P * a) * v) * D
    <3>1. (K * d) * f \in Nat /\ (P * a) * v \in Nat
      BY <1>0
    <3> QED BY <1>0, <2>1, <3>1, Products
  <2> QED BY <1>0, <2>2
<1>2. V \in Nat /\ KM \in Nat /\ a * (K * M - P * v) = a * KM - V
  BY <1>0
<1>3. KM = K * M
  OBVIOUS
<1> HIDE DEF V, KM
<1>4. (a * KM - V) * D <= (KM * c) * D
  <2>1. (a * D) * KM <= (c * D + d * f) * KM
    BY <1>2, Scaled
  <2>2. (a * D) * KM = (a * KM) * D /\ (c * D + d * f) * KM = (KM * c) * D + (d * f) * KM
        /\ (a * KM - V) * D = (a * KM) * D - V * D
    BY <1>2
  <2>3. (a * KM) * D \in Int /\ (KM * c) * D \in Int /\ (d * f) * KM \in Int /\ V * D \in Int
    BY <1>2
  <2> QED BY <1>1, <2>1, <2>2, <2>3
<1>5. a * KM - V \in Int /\ KM * c \in Int
  BY <1>2
<1> QED BY <1>2, <1>3, <1>4, <1>5, Cancel

(* A legal change is by at most P of either of its ends. *)
LEMMA LegalChange ==
  ASSUME NEW a \in Nat, NEW n \in Nat, n <= K * a, a <= K * n
  PROVE  /\ a <= n => n - a \in Nat /\ n - a <= P * a
         /\ n <= a => a - n \in Nat /\ a - n <= P * n /\ K * (a - n) <= P * a
<1>1. K \in Nat \ {0} /\ P \in Nat /\ K = P + 1
  BY Limits
<1>2. K * a = P * a + a /\ K * n = P * n + n /\ P * a \in Nat /\ P * n \in Nat
  BY <1>1
<1>3. K * (a - n) = K * a - K * n
  BY <1>1
<1> QED BY <1>1, <1>2, <1>3

(* What a value became on its way, when the next change may begin. *)
LEMMA Approaches ==
  ASSUME NEW r, Legal(r), NEW s \in Int, s >= r.initTime + M,
         NEW t \in Int, t >= r.initTime, t <= s, s - t <= M
  PROVE  Approached(AmpAt(r, t), AmpAt(r, s), s - t)
<1> DEFINE a == r.init
           n == r.next
           b == AmpAt(r, t)
           c == AmpAt(r, s)
           u == s - t
           KM == K * M
           W == KM - P * u
<1>0. /\ K \in Nat \ {0} /\ M \in Nat \ {0} /\ P \in Nat /\ K = P + 1
      /\ a \in Nat /\ n \in Nat /\ n <= K * a /\ a <= K * n /\ r.initTime \in Int /\ r.nextTime \in Int
      /\ u \in 0..M
  BY Limits DEF Legal
<1>1. KM \in Nat /\ P * u \in Nat /\ W \in Nat /\ W <= KM
  <2>1. P * u <= P * M /\ KM = P * M + M
    BY <1>0, Products
  <2> QED BY <1>0, <2>1
<1> HIDE DEF KM, W
<1>2. CASE Stopped(r)
  <2>1. b = a /\ c = a
    BY <1>0, <1>2, AmpStopped
  <2>2. a * W <= KM * (a + 1)
    <3>1. a * W <= (a + 1) * KM
      BY <1>0, <1>1, Products
    <3> QED BY <1>0, <1>1, <3>1
  <2>3. a * M <= a * (M + P * u) + M
    <3>1. a * M <= a * (M + P * u)
      BY <1>0, <1>1, Products
    <3> QED BY <1>0, <1>1, <3>1
  <2> QED BY <2>1, <2>2, <2>3 DEF Approached, W, KM
<1>3. CASE ~Stopped(r)
  <2> DEFINE D == r.nextTime - r.initTime
             e == IF t >= r.nextTime THEN D ELSE t - r.initTime
             f == IF s >= r.nextTime THEN D ELSE s - r.initTime
  <2>1. D \in Nat /\ D >= M /\ e \in 0..D /\ OnWay(b, a, n, D, e)
    BY <1>0, <1>3, AmpOnWay
  <2>2. f \in 0..D /\ OnWay(c, a, n, D, f)
    <3>1. s >= r.initTime
      BY <1>0
    <3> QED BY <1>0, <1>3, <3>1, AmpOnWay
  <2>3. D \in Nat \ {0} /\ M <= D /\ M <= f /\ f \in e..D /\ f - e <= u
    BY <1>0, <2>1, <2>2
  <2> HIDE DEF D, e, f, a, n, b, c, u
  <2>4. /\ b \in Nat /\ c \in Nat
        /\ a <= n => b <= c + 1
        /\ n <= a => c <= b + 1
    BY <1>0, <2>1, <2>2, <2>3, InOrder
  <2>5. CASE a <= n
    <3> DEFINE d == n - a
    <3>1. d \in Nat /\ d <= P * a
      BY <1>0, <2>5, LegalChange
    <3>2. c * D <= a * D + d * f /\ a * D + d * e <= b * D + D
      BY <2>1, <2>2, <2>5 DEF OnWay
    <3> HIDE DEF d
    <3>3. c * (K * M - P * u) <= K * M * (b + 1)
      BY <1>0, <2>1, <2>3, <2>4, <3>1, <3>2, RisenWithin
    <3>4. b * M <= c * (M + P * u) + M
      <4>1. b * M <= (c + 1) * M
        BY <1>0, <2>4, <2>5, Scaled
      <4>2. c * M <= c * (M + P * u)
        BY <1>0, <1>1, <2>4, Products
      <4>3. (c + 1) * M = c * M + M /\ c * M \in Int /\ b * M \in Int /\ c * (M + P * u) \in Int
        BY <1>0, <1>1, <2>4
      <4> QED BY <1>0, <4>1, <4>2, <4>3
    <3> QED BY <3>3, <3>4 DEF Approached, b, c, u
  <2>6. CASE n <= a
    <3> DEFINE d == a - n
    <3>1. d \in Nat /\ d <= P * n /\ a = n + d
      BY <1>0, <2>6, LegalChange
    <3>2. b * D + d * e <= a * D + D /\ a * D <= c * D + d * f
      <4>1. a * D <= b * D + d * e /\ b * D + d * e <= a * D + D
        BY <2>1, <2>6 DEF OnWay
      <4>2. a * D <= c * D + d * f
        BY <2>2, <2>6 DEF OnWay
      <4> QED BY <4>1, <4>2
    <3> HIDE DEF d
    <3>3. b * M <= c * (M + P * u) + M
      BY <1>0, <2>1, <2>3, <2>4, <3>1, <3>2, FallenWithin
    <3>4. c * W <= KM * (b + 1)
      <4>1. c * W <= (b + 1) * KM
        BY <1>0, <1>1, <2>4, <2>6, Products
      <4> QED BY <1>1, <2>4, <4>1
    <3> QED BY <3>3, <3>4 DEF Approached, b, c, u, W, KM
  <2> QED BY <1>0, <2>5, <2>6 DEF a, n
<1> QED BY <1>2, <1>3

(* Two values on the same way are within the factor. *)
LEMMA NearOnWay ==
  ASSUME NEW r, Legal(r), NEW t \in Int, t >= r.initTime, NEW s \in Int, t <= s
  PROVE  Near(AmpAt(r, t), AmpAt(r, s))
<1> DEFINE a == r.init
           n == r.next
           b == AmpAt(r, t)
           c == AmpAt(r, s)
<1>0. /\ K \in Nat \ {0} /\ a \in Nat /\ n \in Nat /\ n <= K * a /\ a <= K * n
      /\ r.initTime \in Int /\ r.nextTime \in Int
  BY Limits DEF Legal
<1>1. /\ b \in Nat /\ c \in Nat
      /\ \/ a <= b /\ b <= n /\ a <= c /\ c <= n
         \/ n <= b /\ b <= a /\ n <= c /\ c <= a
  <2>1. CASE Stopped(r)
    <3>1. b = a /\ c = a /\ n = a
      BY <1>0, <2>1, AmpStopped, Limits DEF Legal, Stopped
    <3> QED BY <1>0, <3>1
  <2>2. CASE ~Stopped(r)
    <3> DEFINE D == r.nextTime - r.initTime
               e == IF t >= r.nextTime THEN D ELSE t - r.initTime
               f == IF s >= r.nextTime THEN D ELSE s - r.initTime
    <3>1. OnWay(b, a, n, D, e)
      BY <1>0, <2>2, AmpOnWay
    <3>2. OnWay(c, a, n, D, f)
      <4>1. s >= r.initTime
        BY <1>0
      <4> QED BY <1>0, <2>2, <4>1, AmpOnWay
    <3> HIDE DEF D, e, f, a, n, b, c
    <3> QED BY <1>0, <3>1, <3>2 DEF OnWay
  <2> QED BY <2>1, <2>2
<1> HIDE DEF a, n, b, c
(* Whatever lies between the ends is within the factor of either. *)
<1>2. ASSUME NEW x \in Nat, NEW y \in Nat, NEW l \in Nat, NEW h \in Nat, h <= K * l, l <= x, y <= h
      PROVE  y <= K * (x + 1)
  <2>1. K * l <= K * (x + 1)
    <3>1. l <= x + 1
      BY <1>2
    <3> QED BY <1>0, <3>1, Products
  <2>2. K * l \in Int /\ K * (x + 1) \in Int
    BY <1>0
  <2> QED BY <1>2, <2>1, <2>2
<1>3. CASE a <= b /\ b <= n /\ a <= c /\ c <= n
  BY <1>0, <1>1, <1>2, <1>3 DEF Near, b, c
<1>4. CASE n <= b /\ b <= a /\ n <= c /\ c <= a
  BY <1>0, <1>1, <1>2, <1>4 DEF Near, b, c
<1> QED BY <1>1, <1>3, <1>4

(* What a change has come to, and a value from before it began: together   *)
(* with what the one before has made since then it is within the factor.   *)
LEMMA StillNear ==
  ASSUME NEW r, Legal(r), ~Stopped(r), NEW x \in Nat, NEW u \in Nat, NEW v \in Nat, u + v <= M,
         Approached(x, r.init, u), NEW c, c = AmpAt(r, r.initTime + v)
  PROVE  Near(x, c)
<1> DEFINE a == r.init
           n == r.next
           D == r.nextTime - r.initTime
           t == r.initTime + v
           f == IF t >= r.nextTime THEN D ELSE t - r.initTime
           KM == K * M
           Pu == P * u
           Pv == P * v
<1>0. /\ K \in Nat \ {0} /\ M \in Nat \ {0} /\ P \in Nat /\ K = P + 1
      /\ a \in Nat /\ n \in Nat /\ n <= K * a /\ a <= K * n /\ r.initTime \in Int /\ r.nextTime \in Int
  BY Limits DEF Legal
<1>1. D \in Nat /\ D >= M /\ f \in 0..D /\ f <= v /\ OnWay(c, a, n, D, f)
  <2>1. t \in Int /\ t >= r.initTime
    BY <1>0
  <2>2. D \in Nat /\ D >= M /\ f \in 0..D /\ OnWay(c, a, n, D, f)
    BY <1>0, <2>1, AmpOnWay
  <2> QED BY <1>0, <2>1, <2>2
<1>2. a * (KM - Pu) <= KM * (x + 1) /\ x * M <= a * (M + Pu) + M
  BY DEF Approached
<1>3. /\ KM \in Nat /\ Pu \in Nat /\ Pv \in Nat
      /\ M + Pv <= KM - Pu /\ M + Pu <= KM - Pv
  <2>1. P * (u + v) <= P * M
    BY <1>0, Products
  <2>2. P * (u + v) = Pu + Pv /\ KM = P * M + M
    BY <1>0
  <2> QED BY <1>0, <2>1, <2>2
<1>4. c \in Nat /\ D \in Nat \ {0} /\ M <= D /\ f \in Nat
  BY <1>0, <1>1 DEF OnWay
<1> HIDE DEF D, f, t, a, n
(* The two bounds, each in the direction in which the change moves.        *)
<1>5. c * M <= a * (M + Pv) /\ a * (KM - Pv) <= KM * c
  <2>1. CASE a <= n
    <3> DEFINE d == n - a
    <3>1. d \in Nat /\ d <= P * a
      BY <1>0, <2>1, LegalChange
    <3>2. c * D <= a * D + d * f /\ a <= c
      BY <1>1, <2>1 DEF OnWay
    <3> HIDE DEF d
    <3>3. c * M <= a * (M + P * v)
      BY <1>1, <1>4, <1>0, <3>1, <3>2, RiseBegins
    <3>4. a * (KM - Pv) <= c * KM
      <4>1. KM - Pv \in Nat /\ KM - Pv <= KM
        BY <1>0, <1>3, <1>4, <3>2
      <4> QED BY <1>0, <1>3, <1>4, <3>2, <4>1, Products
    <3>5. c * KM = KM * c
      BY <1>3, <1>4
    <3> QED BY <3>3, <3>4, <3>5
  <2>2. CASE n <= a
    <3> DEFINE d == a - n
    <3>1. d \in Nat /\ K * d <= P * a
      BY <1>0, <2>2, LegalChange
    <3>2. a * D <= c * D + d * f /\ c <= a
      BY <1>1, <2>2 DEF OnWay
    <3> HIDE DEF d
    <3>3. a * (K * M - P * v) <= K * M * c
      BY <1>1, <1>4, <1>0, <3>1, <3>2, FallBegins
    <3>4. c * M <= a * (M + Pv)
      <4>1. M \in Nat /\ M + Pv \in Nat /\ M <= M + Pv
        BY <1>0, <1>3
      <4> QED BY <1>0, <1>4, <3>2, <4>1, Products
    <3> QED BY <3>3, <3>4
  <2> QED BY <1>0, <2>1, <2>2
<1>6. KM = K * M
  OBVIOUS
<1> HIDE DEF KM, Pu, Pv
<1>7. c <= K * (x + 1)
  <2>1. a * (M + Pv) <= a * (KM - Pu)
    BY <1>0, <1>3, Products
  <2>2. a * (M + Pv) \in Int /\ a * (KM - Pu) \in Int /\ KM * (x + 1) \in Int /\ c * M \in Int
    BY <1>0, <1>3, <1>4
  <2>3. c * M <= KM * (x + 1)
    BY <1>2, <1>5, <2>1, <2>2
  <2>4. KM * (x + 1) = (K * (x + 1)) * M /\ K * (x + 1) \in Int
    BY <1>0, <1>6
  <2> QED BY <1>0, <1>4, <2>3, <2>4, Cancel
<1>8. x <= K * c + 1
  <2>1. a * (M + Pu) <= a * (KM - Pv)
    BY <1>0, <1>3, Products
  <2>2. a * (M + Pu) \in Int /\ a * (KM - Pv) \in Int /\ KM * c \in Int /\ x * M \in Int
    BY <1>0, <1>3, <1>4
  <2>3. x * M <= KM * c + M
    BY <1>0, <1>2, <1>5, <2>1, <2>2
  <2>4. KM * c + M = (K * c + 1) * M /\ K * c + 1 \in Int
    BY <1>0, <1>4, <1>6
  <2> QED BY <1>0, <1>4, <2>3, <2>4, Cancel
<1>9. x <= K * (c + 1)
  <2>1. K * (c + 1) = K * c + K /\ K * c \in Int
    BY <1>0, <1>4
  <2> QED BY <1>0, <1>8, <2>1
<1> QED BY <1>7, <1>9 DEF Near
-----------------------------------------------------------------------------
LEMMA AmpNow ==
  ASSUME AmpInv
  PROVE  /\ CurrentAmp \in Nat /\ CurrentAmp = amps[now]
         /\ \A t \in 1..now : amps[t] \in Nat
         /\ \A t \in 1..now : now - t <= M => Near(amps[t], CurrentAmp)
<1>1. /\ now \in Nat \ {0} /\ Legal(amp) /\ amp.initTime \in Int /\ amp.initTime <= now /\ now \in 1..now
      /\ \A t \in 1..now : amps[t] \in Nat
      /\ \A t \in 1..now : t >= amp.initTime => amps[t] = AmpAt(amp, t)
  <2>1. \A t \in 1..Len(amps) : amps[t] \in Nat
    BY ElementOfSeq DEF AmpInv
  <2> QED BY <2>1 DEF AmpInv, Legal
<1>2. CurrentAmp = amps[now]
  BY <1>1 DEF CurrentAmp
<1>3. ASSUME NEW t \in 1..now, now - t <= M
      PROVE  Near(amps[t], CurrentAmp)
  <2>1. CASE t >= amp.initTime
    <3>1. amps[t] = AmpAt(amp, t) /\ t \in Int /\ now \in Int /\ t <= now
      BY <1>1, <2>1
    <3>2. Near(AmpAt(amp, t), AmpAt(amp, now))
      BY <1>1, <2>1, <3>1, NearOnWay
    <3> QED BY <3>1, <3>2 DEF CurrentAmp
  <2>2. CASE t < amp.initTime /\ Stopped(amp)
    <3>1. Near(amps[t], amp.init)
      BY <1>3, <2>2 DEF AmpInv
    <3>2. CurrentAmp = amp.init
      BY <1>1, <2>2, AmpStopped DEF CurrentAmp
    <3> QED BY <3>1, <3>2
  <2>3. CASE t < amp.initTime /\ ~Stopped(amp)
    <3> DEFINE u == amp.initTime - t
               v == now - amp.initTime
    <3>1. u \in Nat /\ v \in Nat /\ u + v <= M /\ u <= M /\ amp.initTime + v = now
      BY <1>1, <1>3, <2>3, Limits
    <3>2. Approached(amps[t], amp.init, u)
      BY <2>3, <3>1 DEF AmpInv
    <3>3. CurrentAmp = AmpAt(amp, amp.initTime + v)
      BY <3>1 DEF CurrentAmp
    <3> HIDE DEF u, v
    <3> QED BY <1>1, <2>3, <3>1, <3>2, <3>3, StillNear
  <2> QED BY <1>1, <2>1, <2>2, <2>3
<1> QED BY <1>1, <1>2, <1>3

LEMMA AmpInit == Init => AmpInv
<1> SUFFICES ASSUME Init PROVE AmpInv
  OBVIOUS
<1>1. PICK a \in InitialAmps :
        amp = Ramp(a * AmpPrecision, 1 - M, a * AmpPrecision, 1 - M)
  BY DEF Init, M
<1> DEFINE x == a * AmpPrecision
<1>2. x \in Nat /\ now = 1 /\ amps = <<amp.init>>
  BY StablePairAssumption, StableMathAssumption DEF Init
<1>3. amp.init = x /\ amp.next = x /\ amp.initTime = 1 - M /\ amp.nextTime = 1 - M
  BY <1>1 DEF Ramp
<1> HIDE DEF x
<1>4. x <= K * x
  <2>1. 1 * x <= K * x
    BY <1>2, Limits, Scaled
  <2> QED BY <1>2, <2>1
<1>5. Legal(amp) /\ Stopped(amp) /\ amp.initTime <= 1
  BY <1>2, <1>3, <1>4, Limits DEF Legal, Stopped
<1>6. amps \in Seq(Nat) /\ Len(amps) = 1 /\ amps[1] = x
  BY <1>2, <1>3
<1>7. AmpAt(amp, 1) = x
  BY <1>3, <1>5, AmpStopped
<1>8. \A t \in 1..1 : t = 1 /\ ~(t < amp.initTime)
  BY <1>3, Limits
<1> QED BY <1>2, <1>5, <1>6, <1>7, <1>8 DEF AmpInv

LEMMA StartKeepsAmp ==
  ASSUME AmpInv, NEW next \in Nat, NEW nextTime \in Int, StartChangingAmp(next, nextTime)
  PROVE  AmpInv'
<1> DEFINE c == CurrentAmp
           n == next * AmpPrecision
           r == Ramp(c, now, n, nextTime)
<1>1. /\ n * K >= c /\ n <= c * K
      /\ now >= amp.initTime + M /\ nextTime >= now + M
      /\ amp' = r /\ UNCHANGED <<now, amps>>
  BY DEF StartChangingAmp, Settings, K, M
<1>2. /\ c \in Nat /\ c = amps[now] /\ n \in Nat /\ now \in Nat \ {0}
      /\ K \in Nat \ {0} /\ M \in Nat \ {0}
  BY AmpNow, Limits, StableMathAssumption DEF AmpInv
<1> HIDE DEF n, c
<1>3. r.init = c /\ r.next = n /\ r.initTime = now /\ r.nextTime = nextTime
  BY DEF Ramp
<1> HIDE DEF r
<1>4. Legal(r) /\ ~Stopped(r)
  <2>1. n * K = K * n /\ c * K = K * c
    BY <1>2
  <2> QED BY <1>1, <1>2, <1>3, <2>1 DEF Legal, Stopped
<1>5. AmpAt(r, now) = c
  <2>1. now \in Int /\ now >= r.initTime /\ ~(now >= r.nextTime)
    BY <1>1, <1>2, <1>3
  <2>2. now - r.initTime = 0
    BY <1>2, <1>3
  <2> DEFINE D == r.nextTime - r.initTime
  <2>3. D \in Nat /\ D >= M /\ OnWay(AmpAt(r, now), c, n, D, 0)
    <3>1. OnWay(AmpAt(r, now), r.init, r.next, D, IF now >= r.nextTime THEN D ELSE now - r.initTime)
          /\ D \in Nat /\ D >= M
      BY <1>4, <2>1, AmpOnWay
    <3> QED BY <1>3, <2>1, <2>2, <3>1
  <2> HIDE DEF D
  <2>4. D \in Nat \ {0}
    BY <1>2, <2>3
  <2> DEFINE A == AmpAt(r, now)
  <2>5. OnWay(A, c, n, D, 0)
    BY <2>3
  <2> HIDE DEF A
  <2>6. A \in Nat /\ (c <= n => c <= A /\ A * D <= c * D) /\ (n <= c => A <= c /\ c * D <= A * D)
    <3>1. A \in Nat
      BY <2>5 DEF OnWay
    <3>2. ASSUME c <= n PROVE c <= A /\ A * D <= c * D
      <4>1. c <= A /\ A * D <= c * D + (n - c) * 0
        BY <2>5, <3>2 DEF OnWay
      <4>2. (n - c) * 0 = 0 /\ c * D \in Int
        BY <1>2, <2>4
      <4> QED BY <4>1, <4>2
    <3>3. ASSUME n <= c PROVE A <= c /\ c * D <= A * D
      <4>1. A <= c /\ c * D <= A * D + (c - n) * 0
        BY <2>5, <3>3 DEF OnWay
      <4>2. (c - n) * 0 = 0 /\ A * D \in Int
        BY <1>2, <2>4, <3>1
      <4> QED BY <4>1, <4>2
    <3> QED BY <3>1, <3>2, <3>3
  <2>7. A = c
    <3>1. A * D <= c * D => A <= c
      BY <1>2, <2>4, <2>6, Cancel
    <3>2. c * D <= A * D => c <= A
      BY <1>2, <2>4, <2>6, Cancel
    <3> QED BY <1>2, <2>6, <3>1, <3>2
  <2> QED BY <2>7 DEF A
<1>6. ASSUME NEW t \in 1..now, t < now, now - t <= M
      PROVE  Approached(amps[t], c, now - t)
  <2>1. /\ Legal(amp) /\ amp.initTime \in Int /\ t \in Int /\ now \in Int
        /\ t >= amp.initTime /\ t <= now
    BY <1>1, <1>2, <1>6 DEF AmpInv, Legal
  <2>2. amps[t] = AmpAt(amp, t)
    BY <2>1 DEF AmpInv
  <2>3. Approached(AmpAt(amp, t), AmpAt(amp, now), now - t)
    BY <1>1, <1>6, <2>1, Approaches
  <2> QED BY <2>2, <2>3 DEF c, CurrentAmp
<1>7. \A t \in 1..now : t >= now => t = now
  BY <1>2
<1>8. now <= now
  BY <1>2
<1> QED BY <1>1, <1>2, <1>3, <1>4, <1>5, <1>6, <1>7, <1>8 DEF AmpInv

LEMMA StopKeepsAmp ==
  ASSUME AmpInv, StopChangingAmp
  PROVE  AmpInv'
<1> DEFINE c == CurrentAmp
           r == Ramp(c, now, c, now)
<1>1. amp' = r /\ UNCHANGED <<now, amps>>
  BY DEF StopChangingAmp, Settings
<1>2. /\ c \in Nat /\ c = amps[now] /\ now \in Nat \ {0} /\ K \in Nat \ {0}
      /\ \A t \in 1..now : now - t <= M => Near(amps[t], c)
  BY AmpNow, Limits DEF AmpInv
<1> HIDE DEF c
<1>3. r.init = c /\ r.next = c /\ r.initTime = now /\ r.nextTime = now
  BY DEF Ramp
<1> HIDE DEF r
<1>4. Legal(r) /\ Stopped(r)
  <2>1. 1 * c <= K * c
    BY <1>2, Scaled
  <2> QED BY <1>2, <1>3, <2>1 DEF Legal, Stopped
<1>5. AmpAt(r, now) = c
  <2>1. now \in Int /\ now >= r.initTime
    BY <1>2, <1>3
  <2> QED BY <1>3, <1>4, <2>1, AmpStopped
<1>6. \A t \in 1..now : t >= now => t = now
  BY <1>2
<1>7. now <= now
  BY <1>2
<1> QED BY <1>1, <1>2, <1>3, <1>4, <1>5, <1>6, <1>7 DEF AmpInv

LEMMA TickKeepsAmp ==
  ASSUME AmpInv, Tick
  PROVE  AmpInv'
<1> DEFINE m == now + 1
           c == AmpAt(amp, m)
<1>1. now' = m /\ amps' = Append(amps, c) /\ amp' = amp
  BY DEF Tick, pairVars
<1>2. /\ now \in Nat \ {0} /\ amps \in Seq(Nat) /\ Len(amps) = now
      /\ Legal(amp) /\ amp.initTime \in Int /\ amp.initTime <= now
      /\ \A t \in 1..now : t >= amp.initTime => amps[t] = AmpAt(amp, t)
      /\ \A t \in 1..now : t < amp.initTime =>
           IF Stopped(amp)
           THEN now - t <= M => Near(amps[t], amp.init)
           ELSE amp.initTime - t <= M => Approached(amps[t], amp.init, amp.initTime - t)
  BY DEF AmpInv, Legal
<1>3. c \in Nat
  <2>1. m \in Int /\ m >= amp.initTime
    BY <1>2
  <2>2. CASE Stopped(amp)
    <3>1. amp.init \in Nat
      BY <1>2 DEF Legal
    <3> QED BY <1>2, <2>1, <2>2, <3>1, AmpStopped
  <2>3. CASE ~Stopped(amp)
    <3> DEFINE D == amp.nextTime - amp.initTime
               e == IF m >= amp.nextTime THEN D ELSE m - amp.initTime
    <3>1. OnWay(c, amp.init, amp.next, D, e)
      BY <1>2, <2>1, <2>3, AmpOnWay
    <3> QED BY <3>1 DEF OnWay
  <2> QED BY <2>2, <2>3
<1>4. m \in Nat \ {0} /\ \A t \in 1..m : t \in 1..now \/ t = m
  BY <1>2
<1> HIDE DEF c
<1>5. /\ amps' \in Seq(Nat) /\ Len(amps') = m
      /\ \A t \in 1..now : amps'[t] = amps[t]
      /\ amps'[m] = c
  BY <1>1, <1>2, <1>3, AppendProperties
<1>6. amp.initTime <= m /\ \A t \in 1..m : t < amp.initTime => t \in 1..now
  BY <1>2, <1>4
<1>7. \A t \in 1..now : m - t <= M => now - t <= M
  BY <1>2, Limits
<1> QED BY <1>1, <1>2, <1>3, <1>4, <1>5, <1>6, <1>7 DEF AmpInv, c

LEMMA AmpStep == AmpInv /\ [Next]_vars => AmpInv'
<1> SUFFICES ASSUME AmpInv, [Next]_vars PROVE AmpInv'
  OBVIOUS
<1>1. CASE \E next \in NextAmps, duration \in Durations : StartChangingAmp(next, now + duration)
  <2>1. PICK next \in NextAmps, duration \in Durations : StartChangingAmp(next, now + duration)
    BY <1>1
  <2>2. next \in Nat /\ now + duration \in Int
    BY StablePairAssumption DEF AmpInv
  <2> QED BY <2>1, <2>2, StartKeepsAmp
<1>2. CASE StopChangingAmp
  BY <1>2, StopKeepsAmp
<1>3. CASE Tick
  BY <1>3, TickKeepsAmp
<1>4. CASE UNCHANGED <<amp, now, amps>>
  BY <1>4 DEF AmpInv
<1>5. (\E rate \in FeeShares : UpdateFeeShare(rate)) => UNCHANGED <<amp, now, amps>>
  BY DEF UpdateFeeShare, Settings
<1>6. (\E receiver \in Users, autoStake \in AutoStakes, x, y \in Deposits, least \in Minima :
         ProvideLiquidity(receiver, autoStake, <<x, y>>, least)) => UNCHANGED <<amp, now, amps>>
  BY DEF ProvideLiquidity
<1>7. (\E user \in Users, least \in Minima, amount \in LpAmounts : WithdrawLiquidity(user, amount, least))
        => UNCHANGED <<amp, now, amps>>
  BY DEF WithdrawLiquidity
<1>8. (\E offered \in Assets, offer \in Offers, info \in FeeInfos, belief \in BeliefPrices,
          maxSpread \in Tolerances : \/ SwapCoins(offered, offer, info, belief, maxSpread)
                                    \/ ReceiveCw20(offered, offer, info, belief, maxSpread))
        => UNCHANGED <<amp, now, amps>>
  BY DEF SwapCoins, ReceiveCw20, Swap
<1>9. (\E i \in Assets, gift \in Gifts : Donate(i, gift)) => UNCHANGED <<amp, now, amps>>
  BY DEF Donate
<1>10. (UNCHANGED vars) => UNCHANGED <<amp, now, amps>>
  BY DEF vars, pairVars
<1> QED BY <1>1, <1>2, <1>3, <1>4, <1>5, <1>6, <1>7, <1>8, <1>9, <1>10 DEF Next
-----------------------------------------------------------------------------
(* Whatever changes the owner starts and stops (start_changing_amp,        *)
(* stop_changing_amp), within the shortest time that one may take the      *)
(* amplification stays within MAX_AMP_CHANGE of what it was, up to its own *)
(* rounding, and in a block it is the same for all messages.               *)
THEOREM AmpAlwaysMovesSlowly == Spec => []AmpMovesSlowly
<1>1. AmpInv => AmpMovesSlowly
  <2> SUFFICES ASSUME AmpInv PROVE AmpMovesSlowly
    OBVIOUS
  <2>1. /\ CurrentAmp = amps[now]
        /\ \A t \in 1..now : now - t <= M => Near(amps[t], CurrentAmp)
    BY AmpNow
  <2> QED BY <2>1 DEF AmpMovesSlowly, Near, K, M
<1> QED BY <1>1, AmpInit, AmpStep, PTL DEF Spec
-----------------------------------------------------------------------------
(***************************************************************************)
(* The observations.  Whatever is swapped, the ring holds the latest       *)
(* observations in their order: position i of it is that of the i + 1st,   *)
(* counted round the ring.                                                 *)
(***************************************************************************)
(* What the ring holds. *)
Entry == [ts : Nat, price : Nat, sma : Nat]
Waiting == [base : Nat, quote : Nat \ {0}, ts : Nat]

RingInv ==
  /\ log \in Seq(Entry)
  /\ head = Len(log) % Capacity
  /\ array \in [0..(Capacity - 1) -> Entry \cup {NoValue}]
  /\ \A j \in 1..Len(log) : j + Capacity > Len(log) => ReadSingle(j - 1) = log[j]
  /\ \A i \in 0..(Capacity - 1) : i >= Len(log) => array[i] = NoValue

ObservedInv ==
  /\ RingInv
  /\ \A i, j \in 1..Len(log) : i < j => log[i].ts < log[j].ts
  /\ precommit # NoValue => precommit \in Waiting

LEMMA RingFacts ==
  ASSUME RingInv
  PROVE  /\ Capacity \in Nat \ {0} /\ Len(log) \in Nat
         /\ head \in 0..(Capacity - 1)
         /\ \A j \in 1..Len(log) : log[j] \in Entry /\ log[j] # NoValue
<1>1. Capacity \in Nat \ {0}
  BY CapacityAssumption
<1>2. Len(log) \in Nat /\ \A j \in 1..Len(log) : log[j] \in Entry
  BY LenProperties DEF RingInv
<1>3. NoValue \notin Entry
  BY NoValueAssumption DEF Entry
<1>4. Len(log) \in Int
  BY <1>2
<1>5. head \in 0..(Capacity - 1)
  BY <1>1, <1>4, ModBounds DEF RingInv
<1> QED BY <1>1, <1>2, <1>3, <1>5

(* The observation before the head is the last one. *)
LEMMA ReadLastIs ==
  ASSUME RingInv
  PROVE  ReadLast = IF Len(log) = 0 THEN NoValue ELSE log[Len(log)]
<1> DEFINE n == Len(log)
           c == Capacity
<1>1. c \in Nat \ {0} /\ n \in Nat /\ head = n % c
  BY RingFacts DEF RingInv
<1> HIDE DEF n, c
<1>2. (c + head - 1) % c = (n - 1) % c
  <2> DEFINE y == c - 1
             z == n + y
  <2>1. y \in Int /\ n \in Int /\ z \in Int /\ n - 1 \in Int /\ z = (n - 1) + c
    BY <1>1
  <2>2. c + head - 1 = head + y
    BY <1>1, RingFacts DEF c
  <2> HIDE DEF y
  <2>3. RemainderFirst(c, n, y)
    BY <1>1, <2>1, ModAdd
  <2>4. (c + head - 1) % c = z % c
    BY <1>1, <2>2, <2>3 DEF RemainderFirst
  <2> HIDE DEF z
  <2>5. z % c = (n - 1) % c
    BY <1>1, <2>1, ModRound
  <2> QED BY <2>4, <2>5
<1>3. CASE n = 0
  <2>1. (c + head - 1) % c \in 0..(c - 1)
    <3>1. n - 1 \in Int
      BY <1>1
    <3> QED BY <1>1, <1>2, <3>1, ModBounds
  <2>2. (c + head - 1) % c >= n
    BY <1>1, <1>3, <2>1
  <2> QED BY <1>3, <2>1, <2>2 DEF ReadLast, ReadSingle, RingInv, n, c
<1>4. CASE n # 0
  <2>1. n \in 1..n /\ n + c > n
    BY <1>1, <1>4
  <2>2. array[(n - 1) % c] = log[n]
    BY <2>1 DEF RingInv, ReadSingle, n, c
  <2> QED BY <1>2, <1>4, <2>2 DEF ReadLast, ReadSingle, n, c
<1> QED BY <1>3, <1>4

(* A push keeps the ring. *)
LEMMA PushKeepsRing ==
  ASSUME RingInv, NEW e \in Entry, InstantPush(e), log' = Append(log, e)
  PROVE  RingInv'
<1> DEFINE n == Len(log)
           c == Capacity
<1>1. /\ c \in Nat \ {0} /\ n \in Nat /\ head = n % c /\ head \in 0..(c - 1)
      /\ log \in Seq(Entry)
  BY RingFacts DEF RingInv
<1>2. /\ log' \in Seq(Entry) /\ Len(log') = n + 1
      /\ \A j \in 1..n : log'[j] = log[j]
      /\ log'[n + 1] = e
  BY <1>1, AppendProperties
<1>3. /\ array \in [0..(c - 1) -> Entry \cup {NoValue}]
      /\ array' = [array EXCEPT ![head] = e] /\ head' = (head + 1) % c
  BY DEF RingInv, InstantPush
<1>4. /\ array' \in [0..(c - 1) -> Entry \cup {NoValue}]
      /\ array'[head] = e
      /\ \A i \in 0..(c - 1) : i # head => array'[i] = array[i]
  BY <1>1, <1>3
<1>5. \A j \in 1..n : j + c > n => array[(j - 1) % c] = log[j]
  BY DEF RingInv, ReadSingle
<1>6. \A i \in 0..(c - 1) : i >= n => array[i] = NoValue
  BY DEF RingInv
<1> HIDE DEF n, c
<1>7. head' = (n + 1) % c
  <2>1. n \in Int /\ 1 \in Int
    BY <1>1
  <2>2. RemainderFirst(c, n, 1)
    BY <1>1, <2>1, ModAdd
  <2> QED BY <1>1, <1>3, <2>2 DEF RemainderFirst
<1>8. ASSUME NEW j \in 1..(n + 1), j + c > n + 1
      PROVE  array'[(j - 1) % c] = log'[j]
  <2>1. CASE j = n + 1
    <3>1. (j - 1) % c = head
      <4>1. j - 1 = n
        BY <1>1, <2>1
      <4> QED BY <1>1, <4>1
    <3> QED BY <1>2, <1>4, <2>1, <3>1
  <2>2. CASE j # n + 1
    <3>1. j \in 1..n /\ j + c > n /\ j - 1 \in Int /\ n \in Int /\ j - 1 < n /\ n < (j - 1) + c
      BY <1>1, <1>8, <2>2
    <3>2. (j - 1) % c # n % c
      BY <1>1, <3>1, ModDiffers
    <3>3. (j - 1) % c \in 0..(c - 1)
      BY <1>1, <3>1, ModBounds
    <3>4. array'[(j - 1) % c] = array[(j - 1) % c]
      BY <1>1, <1>4, <3>2, <3>3
    <3> QED BY <1>2, <1>5, <3>1, <3>4
  <2> QED BY <2>1, <2>2
<1>9. ASSUME NEW i \in 0..(c - 1), i >= n + 1
      PROVE  array'[i] = NoValue
  <2>1. n \in 0..(c - 1) /\ i >= n /\ i # n
    BY <1>1, <1>9
  <2>2. head = n
    BY <1>1, <2>1, ModSmall
  <2> QED BY <1>4, <1>6, <2>1, <2>2
<1>10. (\A j \in 1..Len(log) : j + c > Len(log) => ReadSingle(j - 1) = log[j])'
  BY <1>2, <1>8 DEF ReadSingle, c
<1>11. (\A i \in 0..(c - 1) : i >= Len(log) => array[i] = NoValue)'
  BY <1>2, <1>9 DEF c
<1> QED BY <1>2, <1>4, <1>7, <1>10, <1>11 DEF RingInv, c
-----------------------------------------------------------------------------
(* The observations that are kept follow the first Dropped. *)
Dropped == IF Len(log) <= Capacity THEN 0 ELSE Len(log) - Capacity

LEMMA KeptIs ==
  ASSUME RingInv, log # << >>
  PROVE  /\ Dropped \in Nat /\ Len(Kept) = Len(log) - Dropped /\ Len(Kept) >= 1
         /\ \A i \in 1..Len(Kept) : Kept[i] = log[Dropped + i] /\ Dropped + i \in 1..Len(log)
<1> DEFINE n == Len(log)
           c == Capacity
<1>1. c \in Nat \ {0} /\ n \in Nat /\ n >= 1 /\ log \in Seq(Entry)
  BY RingFacts, EmptySeq DEF RingInv
<1>2. CASE n <= c
  BY <1>1, <1>2 DEF Kept, Dropped
<1>3. CASE ~(n <= c)
  <2> DEFINE a == n - c + 1
  <2>1. a \in Int /\ n \in Int /\ a <= n /\ n - a + 1 = c
    BY <1>1, <1>3
  <2>2. \A i \in a..n : log[i] \in Entry
    BY <1>1, <1>3, RingFacts
  <2>3. Kept = SubSeq(log, a, n)
    BY <1>3 DEF Kept
  <2> HIDE DEF a
  <2>4. Len(Kept) = c /\ \A i \in 1..c : Kept[i] = log[a + i - 1]
    BY <2>1, <2>2, <2>3, SubSeqProperties
  <2>5. Dropped = n - c
    BY <1>3 DEF Dropped
  <2>6. \A i \in 1..c : a + i - 1 = Dropped + i /\ Dropped + i \in 1..n
    BY <1>1, <1>3, <2>5 DEF a
  <2>7. ASSUME NEW i \in 1..c PROVE Kept[i] = log[Dropped + i] /\ Dropped + i \in 1..n
    <3>1. Kept[i] = log[a + i - 1]
      BY <2>4
    <3>2. a + i - 1 = Dropped + i /\ Dropped + i \in 1..n
      BY <2>6
    <3> QED BY <3>1, <3>2
  <2>8. Dropped \in Nat /\ c = n - Dropped /\ c >= 1
    BY <1>1, <1>3, <2>5
  <2> QED BY <2>4, <2>7, <2>8
<1> QED BY <1>2, <1>3

(* Where the query begins and ends to look, and what it finds there. *)
Oldest == IF Exists(head) THEN head ELSE 0
Newest == IF Exists(head) THEN head + Capacity - 1 ELSE (head + Capacity - 1) % Capacity

LEMMA RingEnds ==
  ASSUME RingInv, log # << >>
  PROVE  /\ Oldest \in Nat /\ Newest = Oldest + Len(Kept) - 1
         /\ \A i \in 1..Len(Kept) : ReadSingle(Oldest + i - 1) = log[Dropped + i]
         /\ ~(~Exists(head) /\ head = 0)
<1> DEFINE n == Len(log)
           c == Capacity
<1>1. /\ c \in Nat \ {0} /\ n \in Nat /\ n >= 1 /\ n \in Int
      /\ head = n % c /\ head \in 0..(c - 1)
      /\ \A j \in 1..n : log[j] # NoValue
  BY RingFacts, EmptySeq DEF RingInv
<1>2. \A j \in 1..n : j + c > n => array[(j - 1) % c] = log[j]
  BY DEF RingInv, ReadSingle
<1>3. \A i \in 0..(c - 1) : i >= n => array[i] = NoValue
  BY DEF RingInv
<1>4. Exists(head) <=> array[head] # NoValue
  <2>1. head % c = head
    BY <1>1, ModSmall
  <2> QED BY <2>1 DEF Exists, ReadSingle
<1>5. Len(Kept) = n - Dropped /\ Dropped = IF n <= c THEN 0 ELSE n - c
  BY KeptIs DEF Dropped
<1> HIDE DEF n, c
<1>6. CASE n < c
  <2>1. head = n
    <3>1. n \in 0..(c - 1)
      BY <1>1, <1>6
    <3> QED BY <1>1, <3>1, ModSmall
  <2>2. ~Exists(head)
    BY <1>1, <1>3, <1>4, <2>1
  <2>3. Oldest = 0 /\ Dropped = 0 /\ Len(Kept) = n
    BY <1>1, <1>5, <1>6, <2>2 DEF Oldest
  <2>4. Newest = n - 1
    <3>1. n - 1 \in 0..(c - 1) /\ n - 1 \in Int /\ n + c - 1 \in Int /\ n + c - 1 = (n - 1) + c
      BY <1>1, <1>6
    <3>2. (n + c - 1) % c = (n - 1) % c
      BY <1>1, <3>1, ModRound
    <3>3. (n - 1) % c = n - 1
      BY <1>1, <3>1, ModSmall
    <3> QED BY <2>1, <2>2, <3>2, <3>3 DEF Newest, c
  <2>5. ASSUME NEW i \in 1..n PROVE ReadSingle(i - 1) = log[i]
    BY <1>1, <1>2, <1>6 DEF ReadSingle, c
  <2>6. \A i \in 1..n : 0 + i - 1 = i - 1 /\ 0 + i = i
    OBVIOUS
  <2> QED BY <1>1, <2>1, <2>2, <2>3, <2>4, <2>5, <2>6
<1>7. CASE ~(n < c)
  <2>1. Dropped = n - c /\ Len(Kept) = c
    BY <1>1, <1>5, <1>7
  <2>2. ASSUME NEW i \in 1..c
        PROVE  /\ Dropped + i \in 1..n
               /\ array[(head + i - 1) % c] = log[Dropped + i]
    <3> DEFINE j == Dropped + i
               y == i - 1
               z == n + y
    <3>1. j \in 1..n /\ j + c > n /\ y \in Int /\ j - 1 \in Int /\ z \in Int /\ z = (j - 1) + c
      BY <1>1, <1>7, <2>1
    <3>2. array[(j - 1) % c] = log[j]
      BY <1>2, <3>1
    <3> HIDE DEF j
    <3>3. head + i - 1 = head + y
      BY <1>1
    <3> HIDE DEF y
    <3>4. RemainderFirst(c, n, y)
      BY <1>1, <3>1, ModAdd
    <3>5. (head + i - 1) % c = z % c
      BY <1>1, <3>3, <3>4 DEF RemainderFirst
    <3> HIDE DEF z
    <3>6. z % c = (j - 1) % c
      BY <1>1, <3>1, ModRound
    <3> QED BY <3>1, <3>2, <3>5, <3>6 DEF j
  <2>3. Exists(head)
    <3>1. 1 \in 1..c /\ head + 1 - 1 = head
      BY <1>1
    <3>2. Dropped + 1 \in 1..n /\ array[head % c] = log[Dropped + 1]
      BY <2>2, <3>1
    <3>3. head % c = head
      BY <1>1, ModSmall
    <3> QED BY <1>1, <1>4, <3>2, <3>3
  <2>4. Oldest = head /\ Newest = head + c - 1
    BY <2>3 DEF Oldest, Newest, c
  <2> QED BY <1>1, <2>1, <2>2, <2>3, <2>4 DEF ReadSingle, c
<1> QED BY <1>6, <1>7
-----------------------------------------------------------------------------
(* The binary search: one halving of a range, and what halving it until a  *)
(* target is found comes to.                                               *)
Ranges(f, l) == (f..(l + 1)) \X ((f - 1)..l)

Halve(s, range, target) ==
  LET mid == (range[1] + range[2]) \div 2
      left == ReadSingle(mid)
      right == ReadSingle(mid + 1)
  IN  IF range[1] > range[2] THEN Endless
      ELSE IF left.ts <= target /\ target <= right.ts THEN <<left, right>>
      ELSE IF left.ts > target THEN s[<<range[1], mid - 1>>]
      ELSE s[<<mid + 1, range[2]>>]

Width(range) == range[2] - range[1] + 1

LEMMA Halves ==
  ASSUME NEW f \in Nat, NEW l \in Nat, NEW r \in Ranges(f, l), r[1] <= r[2],
         NEW mid, mid = (r[1] + r[2]) \div 2
  PROVE  /\ mid \in r[1]..r[2] /\ mid \in f..l
         /\ <<r[1], mid - 1>> \in Ranges(f, l) /\ Width(<<r[1], mid - 1>>) < Width(r)
         /\ <<mid + 1, r[2]>> \in Ranges(f, l) /\ Width(<<mid + 1, r[2]>>) < Width(r)
<1>1. r[1] \in f..(l + 1) /\ r[2] \in (f - 1)..l /\ r[1] \in Int /\ r[2] \in Int
  BY DEF Ranges
<1>2. mid \in r[1]..r[2]
  BY <1>1
<1> QED BY <1>1, <1>2 DEF Ranges, Width

LEMMA HalveSame ==
  ASSUME NEW f \in Nat, NEW l \in Nat, NEW r \in Ranges(f, l), NEW target, NEW s, NEW t,
         \A x \in Ranges(f, l) : Width(x) < Width(r) => s[x] = t[x]
  PROVE  Halve(s, r, target) = Halve(t, r, target)
<1>1. r[1] \in Int /\ r[2] \in Int
  BY DEF Ranges
<1>2. CASE r[1] > r[2]
  BY <1>2 DEF Halve
<1>3. CASE ~(r[1] > r[2])
  <2> DEFINE mid == (r[1] + r[2]) \div 2
  <2>1. /\ <<r[1], mid - 1>> \in Ranges(f, l) /\ Width(<<r[1], mid - 1>>) < Width(r)
        /\ <<mid + 1, r[2]>> \in Ranges(f, l) /\ Width(<<mid + 1, r[2]>>) < Width(r)
    BY <1>1, <1>3, Halves
  <2>2. s[<<r[1], mid - 1>>] = t[<<r[1], mid - 1>>] /\ s[<<mid + 1, r[2]>>] = t[<<mid + 1, r[2]>>]
    BY <2>1
  <2> QED BY <2>2 DEF Halve
<1> QED BY <1>2, <1>3

(* The recursive function of Neighbours exists. *)
LEMMA SearchExists ==
  ASSUME NEW f \in Nat, NEW l \in Nat, f <= l, NEW target
  PROVE  \E s : s = [r \in Ranges(f, l) |-> Halve(s, r, target)]
<1> DEFINE D == Ranges(f, l)
           w == l - f + 1
           T == {m \in 0..w : \E s : s = [r \in D |-> IF Width(r) <= m THEN Halve(s, r, target) ELSE Endless]}
<1>1. \A r \in D : Width(r) \in Int /\ Width(r) <= w /\ (Width(r) <= 0 <=> r[1] > r[2])
  BY DEF Ranges, Width
<1>2. w \in Nat
  OBVIOUS
<1> HIDE DEF D, w
<1>3. 0 \in T
  <2> DEFINE s == [r \in D |-> Endless]
  <2>1. \A r \in D : Width(r) <= 0 => Halve(s, r, target) = Endless
    BY <1>1 DEF Halve
  <2>2. s = [r \in D |-> IF Width(r) <= 0 THEN Halve(s, r, target) ELSE Endless]
    BY <2>1
  <2> QED BY <1>2, <2>2
<1>4. \A m \in 0..w : m < w /\ m \in T => m + 1 \in T
  <2> SUFFICES ASSUME NEW m \in 0..w, m < w, m \in T PROVE m + 1 \in T
    OBVIOUS
  <2>1. PICK s : s = [r \in D |-> IF Width(r) <= m THEN Halve(s, r, target) ELSE Endless]
    OBVIOUS
  <2> DEFINE t == [r \in D |-> IF Width(r) <= m + 1 THEN Halve(s, r, target) ELSE Endless]
  <2>2. m \in Int /\ m + 1 \in 0..w
    BY <1>2
  <2>3. ASSUME NEW r \in D, Width(r) <= m + 1
        PROVE  Halve(t, r, target) = Halve(s, r, target)
    <3>1. ASSUME NEW x \in D, Width(x) < Width(r) PROVE t[x] = s[x]
      <4>1. Width(x) <= m /\ Width(x) <= m + 1
        BY <1>1, <2>2, <2>3, <3>1
      <4>2. s[x] = Halve(s, x, target)
        BY <2>1, <4>1
      <4> QED BY <4>1, <4>2
    <3> HIDE DEF t
    <3> QED BY <3>1, HalveSame DEF D
  <2>4. t = [r \in D |-> IF Width(r) <= m + 1 THEN Halve(t, r, target) ELSE Endless]
    BY <2>3
  <2> HIDE DEF t
  <2> QED BY <2>2, <2>4
<1> HIDE DEF T
<1>5. w \in T
  <2>1. \A m \in 0..w : m \in T
    BY <1>2, <1>3, <1>4, RangeInduction
  <2> QED BY <1>2, <2>1
<1>6. PICK s : s = [r \in D |-> IF Width(r) <= w THEN Halve(s, r, target) ELSE Endless]
  BY <1>5 DEF T
<1>7. s = [r \in D |-> Halve(s, r, target)]
  BY <1>1, <1>6
<1> QED BY <1>7 DEF D

LEMMA SearchIs ==
  ASSUME NEW f \in Nat, NEW l \in Nat, f <= l, NEW target
  PROVE  \E s : /\ \A r \in Ranges(f, l) : s[r] = Halve(s, r, target)
                /\ Neighbours(target, f, l) = s[<<f, l>>]
<1> DEFINE s == CHOOSE s : s = [range \in (f..(l + 1)) \X ((f - 1)..l) |->
        LET mid == (range[1] + range[2]) \div 2
            left == ReadSingle(mid)
            right == ReadSingle(mid + 1)
        IN  IF range[1] > range[2] THEN Endless
            ELSE IF left.ts <= target /\ target <= right.ts THEN <<left, right>>
            ELSE IF left.ts > target THEN s[<<range[1], mid - 1>>]
            ELSE s[<<mid + 1, range[2]>>]]
<1>1. Neighbours(target, f, l) = s[<<f, l>>]
  BY DEF Neighbours
<1>2. s = CHOOSE t : t = [r \in Ranges(f, l) |-> Halve(t, r, target)]
  BY DEF Halve, Ranges
<1> HIDE DEF s
<1>3. s = [r \in Ranges(f, l) |-> Halve(s, r, target)]
  BY <1>2, SearchExists
<1>4. \A r \in Ranges(f, l) : s[r] = Halve(s, r, target)
  BY <1>3
<1> QED BY <1>1, <1>4

(* A target between the ends is found between two neighbours. *)
LEMMA NeighboursAre ==
  ASSUME NEW f \in Nat, NEW l \in Nat, f < l, NEW target \in Int,
         \A i \in f..l : ReadSingle(i).ts \in Int,
         ReadSingle(f).ts <= target, target < ReadSingle(l).ts
  PROVE  \E m \in f..(l - 1) : /\ Neighbours(target, f, l) = <<ReadSingle(m), ReadSingle(m + 1)>>
                               /\ ReadSingle(m).ts <= target /\ target <= ReadSingle(m + 1).ts
<1> DEFINE At(i) == ReadSingle(i).ts
           Found(x) == \E m \in f..(l - 1) : /\ x = <<ReadSingle(m), ReadSingle(m + 1)>>
                                             /\ At(m) <= target /\ target <= At(m + 1)
           Ahead(r) == /\ r[1] <= r[2] /\ At(r[1]) <= target
                       /\ r[2] < l => target < At(r[2] + 1)
           w == l - f + 1
<1>1. PICK s : /\ \A r \in Ranges(f, l) : s[r] = Halve(s, r, target)
               /\ Neighbours(target, f, l) = s[<<f, l>>]
  BY SearchIs
<1> DEFINE T == {m \in 0..w : \A r \in Ranges(f, l) : Width(r) <= m /\ Ahead(r) => Found(s[r])}
<1>2. w \in Nat /\ \A i \in f..l : At(i) \in Int
  OBVIOUS
<1>3. 0 \in T
  BY DEF Ranges, Width
<1>4. ASSUME NEW m \in 0..w, m < w, m \in T, NEW r \in Ranges(f, l), Width(r) <= m + 1, Ahead(r)
      PROVE  Found(s[r])
  <2> DEFINE mid == (r[1] + r[2]) \div 2
             r1 == <<r[1], mid - 1>>
             r2 == <<mid + 1, r[2]>>
  <2>1. /\ r[1] \in f..l /\ r[2] \in f..l /\ r[1] <= r[2] /\ Width(r) \in Int
        /\ At(r[1]) <= target /\ (r[2] < l => target < At(r[2] + 1))
    BY <1>4 DEF Ranges, Width
  <2>2. /\ mid \in r[1]..r[2] /\ mid \in f..l
        /\ r1 \in Ranges(f, l) /\ Width(r1) < Width(r)
        /\ r2 \in Ranges(f, l) /\ Width(r2) < Width(r)
    BY <2>1, Halves
  <2>3. Width(r1) \in Int /\ Width(r2) \in Int /\ m \in Int
    BY <2>1, <2>2 DEF Width
  <2>4. Width(r1) <= m /\ Width(r2) <= m
    BY <1>4, <2>1, <2>2, <2>3
  <2>5. s[r] = Halve(s, r, target)
    BY <1>1
  <2>6. s[r] = IF At(mid) <= target /\ target <= At(mid + 1) THEN <<ReadSingle(mid), ReadSingle(mid + 1)>>
               ELSE IF At(mid) > target THEN s[r1] ELSE s[r2]
    BY <2>1, <2>5 DEF Halve
  <2>7. At(mid) <= target => mid < l
    BY <1>2, <2>1, <2>2
  <2>8. \A x \in Ranges(f, l) : Width(x) <= m /\ Ahead(x) => Found(s[x])
    BY <1>4
  <2> HIDE DEF mid, T, Found
  <2>9. CASE At(mid) <= target /\ target <= At(mid + 1)
    <3>1. mid \in f..(l - 1)
      BY <2>2, <2>7, <2>9
    <3>2. s[r] = <<ReadSingle(mid), ReadSingle(mid + 1)>>
      BY <2>6, <2>9
    <3> QED BY <2>9, <3>1, <3>2 DEF Found
  <2>10. CASE At(mid) > target
    <3>1. mid # r[1] /\ r[1] <= mid - 1 /\ r1[1] = r[1] /\ r1[2] = mid - 1 /\ (mid - 1) + 1 = mid
      BY <1>2, <2>1, <2>2, <2>10
    <3>2. Ahead(r1)
      BY <2>1, <2>10, <3>1
    <3>3. s[r] = s[r1]
      BY <1>2, <2>2, <2>6, <2>10
    <3> HIDE DEF r1, Ahead
    <3>4. Found(s[r1])
      BY <2>2, <2>4, <2>8, <3>2
    <3> QED BY <3>3, <3>4
  <2>11. CASE At(mid) <= target /\ ~(target <= At(mid + 1))
    <3>1. mid < l /\ mid + 1 \in f..l /\ At(mid + 1) <= target
      BY <1>2, <2>2, <2>7, <2>11
    <3>2. mid # r[2] /\ mid + 1 <= r[2] /\ r2[1] = mid + 1 /\ r2[2] = r[2]
      BY <2>1, <2>2, <2>11, <3>1
    <3>3. Ahead(r2)
      BY <2>1, <3>1, <3>2
    <3>4. s[r] = s[r2]
      BY <1>2, <2>2, <2>6, <2>11
    <3> HIDE DEF r2, Ahead
    <3>5. Found(s[r2])
      BY <2>2, <2>4, <2>8, <3>3
    <3> QED BY <3>4, <3>5
  <2> QED BY <1>2, <2>2, <2>9, <2>10, <2>11
<1>5. \A m \in 0..w : m < w /\ m \in T => m + 1 \in T
  BY <1>2, <1>4
<1> HIDE DEF T
<1>6. w \in T
  <2>1. \A m \in 0..w : m \in T
    BY <1>2, <1>3, <1>5, RangeInduction
  <2> QED BY <1>2, <2>1
<1>7. <<f, l>> \in Ranges(f, l) /\ Width(<<f, l>>) <= w /\ Ahead(<<f, l>>)
  BY DEF Ranges, Width
<1>8. Found(s[<<f, l>>])
  <2> HIDE DEF Found, Ahead
  <2> QED BY <1>6, <1>7 DEF T
<1> QED BY <1>1, <1>8
-----------------------------------------------------------------------------
(* What is answered when observation j is the latest at or before a target. *)
AnswerAt(j, target) ==
  IF j = Len(log) \/ log[j].ts = target THEN log[j].sma
  ELSE Interpolated(log[j], log[j + 1], target)

LatestAt(j, target) ==
  /\ j \in (Dropped + 1)..Len(log) /\ log[j].ts <= target
  /\ j < Len(log) => target < log[j + 1].ts

LEMMA ObservedBy ==
  ASSUME RingInv, log # << >>, NEW target
  PROVE  Observed(target) =
           LET pair == Neighbours(target, Oldest, Newest)
           IN  IF target >= log[Len(log)].ts THEN log[Len(log)].sma
               ELSE IF target = log[Dropped + 1].ts THEN log[Dropped + 1].sma
               ELSE IF target < log[Dropped + 1].ts THEN Refused
               ELSE IF pair[1].ts = target THEN pair[1].sma
               ELSE IF pair[2].ts = target THEN pair[2].sma
               ELSE Interpolated(pair[1], pair[2], target)
<1> DEFINE k == Len(Kept)
<1>1. /\ Dropped \in Nat /\ k = Len(log) - Dropped /\ k >= 1 /\ Len(log) \in Nat /\ k \in Int
      /\ Oldest \in Nat /\ Newest = Oldest + k - 1
      /\ \A i \in 1..k : ReadSingle(Oldest + i - 1) = log[Dropped + i]
      /\ ~(~Exists(head) /\ head = 0)
  BY KeptIs, RingEnds, RingFacts
<1> HIDE DEF k
<1>2. ReadSingle(Oldest) = log[Dropped + 1]
  <2>1. 1 \in 1..k /\ Oldest + 1 - 1 = Oldest
    BY <1>1
  <2>2. ReadSingle(Oldest + 1 - 1) = log[Dropped + 1]
    BY <1>1, <2>1
  <2> QED BY <2>1, <2>2
<1>3. ReadSingle(Newest) = log[Len(log)]
  <2>1. k \in 1..k /\ Dropped + k = Len(log)
    BY <1>1
  <2>2. ReadSingle(Oldest + k - 1) = log[Dropped + k]
    BY <1>1, <2>1
  <2> QED BY <1>1, <2>1, <2>2
<1>4. Observed(target) =
        IF target >= ReadSingle(Newest).ts THEN ReadSingle(Newest).sma
        ELSE IF target = ReadSingle(Oldest).ts THEN ReadSingle(Oldest).sma
        ELSE IF target < ReadSingle(Oldest).ts THEN Refused
        ELSE LET pair == Neighbours(target, Oldest, Newest)
             IN  IF pair[1].ts = target THEN pair[1].sma
                 ELSE IF pair[2].ts = target THEN pair[2].sma
                 ELSE Interpolated(pair[1], pair[2], target)
  BY <1>1 DEF Observed, Oldest, Newest
<1> QED BY <1>2, <1>3, <1>4

(* The search answers as a walk would. *)
LEMMA ObservedIs ==
  ASSUME ObservedInv, log # << >>, NEW target \in Int, NEW j, LatestAt(j, target)
  PROVE  Observed(target) = AnswerAt(j, target)
<1> DEFINE n == Len(log)
           d == Dropped
           At(i) == log[i].ts
<1>1. /\ RingInv /\ d \in Nat /\ n \in Nat /\ n - d >= 1
      /\ \A i \in 1..n : At(i) \in Int
      /\ \A i, m \in 1..n : i < m => At(i) < At(m)
  <2>1. RingInv /\ \A i, m \in 1..n : i < m => At(i) < At(m)
    BY DEF ObservedInv
  <2>2. d \in Nat /\ n \in Nat /\ n - d >= 1
    BY <2>1, KeptIs
  <2>3. ASSUME NEW i \in 1..n PROVE At(i) \in Int
    <3>1. log[i] \in Entry
      BY <2>1, RingFacts
    <3> QED BY <3>1 DEF Entry
  <2> QED BY <2>1, <2>2, <2>3
<1>2. j \in (d + 1)..n /\ j \in 1..n /\ At(j) <= target /\ (j < n => target < At(j + 1))
  BY <1>1 DEF LatestAt
<1> DEFINE pair == Neighbours(target, Oldest, Newest)
<1>3. Observed(target) =
        IF target >= At(n) THEN log[n].sma
        ELSE IF target = At(d + 1) THEN log[d + 1].sma
        ELSE IF target < At(d + 1) THEN Refused
        ELSE IF pair[1].ts = target THEN pair[1].sma
        ELSE IF pair[2].ts = target THEN pair[2].sma
        ELSE Interpolated(pair[1], pair[2], target)
  BY <1>1, ObservedBy
<1>4. CASE j = n
  BY <1>2, <1>3, <1>4 DEF AnswerAt
<1>5. CASE j # n
  <2>1. /\ j < n /\ j + 1 \in 1..n /\ d + 1 \in 1..n /\ n \in 1..n
        /\ target < At(j + 1) /\ At(j + 1) <= At(n) /\ target < At(n)
        /\ At(d + 1) <= At(j) /\ At(d + 1) <= target
    <3>1. j < n /\ j + 1 \in 1..n /\ d + 1 \in 1..n /\ n \in 1..n
      BY <1>1, <1>2, <1>5
    <3>2. At(j + 1) <= At(n)
      BY <1>1, <3>1
    <3>3. At(d + 1) <= At(j)
      BY <1>1, <1>2, <3>1
    <3> HIDE DEF At, d, n
    <3>4. target < At(j + 1) /\ At(j + 1) \in Int /\ At(n) \in Int /\ At(j) \in Int /\ At(d + 1) \in Int
      BY <1>1, <1>2, <3>1
    <3> QED BY <1>2, <3>1, <3>2, <3>3, <3>4
  <2>2. CASE target = At(d + 1)
    <3>1. At(j) = At(d + 1)
      <4>1. At(j) \in Int /\ At(d + 1) \in Int
        BY <1>1, <1>2, <2>1
      <4> QED BY <1>2, <2>1, <2>2, <4>1
    <3>2. j = d + 1
      BY <1>1, <1>2, <2>1, <3>1
    <3>3. Observed(target) = log[d + 1].sma
      BY <1>1, <1>3, <2>1, <2>2
    <3> QED BY <2>2, <3>2, <3>3 DEF AnswerAt
  <2>3. CASE target # At(d + 1)
    <3>1. At(d + 1) \in Int /\ At(n) \in Int /\ At(j) \in Int /\ At(j + 1) \in Int
      BY <1>1, <1>2, <2>1
    <3>2. Observed(target) =
            IF pair[1].ts = target THEN pair[1].sma
            ELSE IF pair[2].ts = target THEN pair[2].sma
            ELSE Interpolated(pair[1], pair[2], target)
      BY <1>3, <2>1, <2>3, <3>1
    <3> HIDE DEF pair
    <3>3. PICK q \in 1..(n - 1) : /\ pair = <<log[q], log[q + 1]>>
                                  /\ At(q) <= target /\ target <= At(q + 1)
      <4> DEFINE f == Oldest
                 l == Newest
                 k == Len(Kept)
      <4>1. /\ f \in Nat /\ l = f + k - 1 /\ k = n - d /\ l \in Nat /\ f < l
            /\ \A i \in 1..k : ReadSingle(f + i - 1) = log[d + i]
        <5>1. /\ f \in Nat /\ l = f + k - 1 /\ k = n - d
              /\ \A i \in 1..k : ReadSingle(f + i - 1) = log[d + i]
          BY <1>1, KeptIs, RingEnds
        <5> HIDE DEF f, l, k, d, n
        <5>2. k >= 2 /\ k \in Int
          BY <1>1, <1>2, <2>1, <5>1
        <5> QED BY <5>1, <5>2
      <4> HIDE DEF f, l, k, d, n, At
      <4>2. ASSUME NEW i \in f..l
            PROVE  ReadSingle(i) = log[d + (i - f + 1)] /\ d + (i - f + 1) \in 1..n
        <5>1. i - f + 1 \in 1..k /\ f + (i - f + 1) - 1 = i /\ d + (i - f + 1) \in 1..n
          BY <1>1, <4>1
        <5>2. ReadSingle(f + (i - f + 1) - 1) = log[d + (i - f + 1)]
          BY <4>1, <5>1
        <5> QED BY <5>1, <5>2
      <4>3. ReadSingle(f) = log[d + 1] /\ ReadSingle(l) = log[n]
        <5>1. f \in f..l /\ l \in f..l /\ d + (f - f + 1) = d + 1 /\ d + (l - f + 1) = n
          BY <1>1, <4>1
        <5>2. ReadSingle(f) = log[d + (f - f + 1)] /\ ReadSingle(l) = log[d + (l - f + 1)]
          BY <4>2, <5>1
        <5> QED BY <5>1, <5>2
      <4>4. \A i \in f..l : ReadSingle(i).ts \in Int
        BY <1>1, <4>2 DEF At
      <4>5. ReadSingle(f).ts <= target /\ target < ReadSingle(l).ts
        BY <2>1, <4>3 DEF At
      <4>6. PICK m \in f..(l - 1) : /\ Neighbours(target, f, l) = <<ReadSingle(m), ReadSingle(m + 1)>>
                                    /\ ReadSingle(m).ts <= target /\ target <= ReadSingle(m + 1).ts
        BY <4>1, <4>4, <4>5, NeighboursAre
      <4> DEFINE q == d + (m - f + 1)
      <4>7. m \in f..l /\ m + 1 \in f..l /\ d + ((m + 1) - f + 1) = q + 1
        BY <1>1, <4>1
      <4>8. ReadSingle(m) = log[q] /\ ReadSingle(m + 1) = log[q + 1] /\ q \in 1..n /\ q + 1 \in 1..n
        <5>1. ReadSingle(m + 1) = log[d + ((m + 1) - f + 1)] /\ d + ((m + 1) - f + 1) \in 1..n
          BY <4>2, <4>7
        <5> QED BY <4>2, <4>7, <5>1
      <4> HIDE DEF q
      <4>9. q \in 1..(n - 1)
        BY <1>1, <4>8
      <4>10. pair = <<log[q], log[q + 1]>> /\ At(q) <= target /\ target <= At(q + 1)
        BY <4>6, <4>8 DEF pair, At, f, l
      <4> QED BY <4>9, <4>10
    <3>4. q \in 1..n /\ q + 1 \in 1..n /\ At(q) \in Int /\ At(q + 1) \in Int
      BY <1>1
    <3> HIDE DEF At, n, d
    <3>5. q = j \/ q + 1 = j
      <4>1. CASE q > j
        <5>1. j + 1 <= q
          BY <1>2, <4>1
        <5>2. At(j + 1) <= At(q)
          BY <1>1, <2>1, <3>1, <3>4, <5>1
        <5> QED BY <2>1, <3>1, <3>3, <3>4, <5>2
      <4>2. CASE q + 1 < j
        <5>1. At(q + 1) < At(j)
          BY <1>1, <1>2, <3>4, <4>2
        <5> QED BY <1>2, <3>1, <3>3, <3>4, <5>1
      <4> QED BY <1>1, <1>2, <4>1, <4>2
    <3>6. CASE q = j
      <4>1. pair[1] = log[j] /\ pair[2] = log[j + 1] /\ pair[2].ts # target /\ pair[1].ts = At(j)
        BY <2>1, <3>1, <3>3, <3>6 DEF At
      <4>2. Observed(target) = IF At(j) = target THEN log[j].sma ELSE Interpolated(log[j], log[j + 1], target)
        BY <3>2, <4>1
      <4> QED BY <1>5, <4>2 DEF AnswerAt, n, At
    <3>7. CASE q + 1 = j
      <4>1. At(q) < At(j) /\ At(j) = target
        <5>1. q < j
          BY <3>7
        <5>2. At(q) < At(j)
          BY <1>1, <1>2, <3>4, <5>1
        <5>3. target <= At(j)
          BY <3>3, <3>7
        <5> QED BY <1>2, <3>1, <5>2, <5>3
      <4>2. pair[1].ts # target /\ pair[2] = log[j] /\ pair[2].ts = target
        BY <3>1, <3>3, <3>4, <3>7, <4>1 DEF At
      <4>3. Observed(target) = log[j].sma
        BY <3>2, <4>2
      <4> QED BY <4>1, <4>3 DEF AnswerAt, At
    <3> QED BY <3>5, <3>6, <3>7
  <2> QED BY <2>2, <2>3
<1> QED BY <1>4, <1>5

LEMMA LatestExists ==
  ASSUME ObservedInv, log # << >>, NEW target \in Int, log[Dropped + 1].ts <= target
  PROVE  \E j : LatestAt(j, target)
<1> DEFINE n == Len(log)
           d == Dropped
           S == {i \in (d + 1)..n : log[i].ts <= target}
<1>1. RingInv /\ d \in Nat /\ n \in Nat /\ n - d >= 1
  BY KeptIs, RingFacts DEF ObservedInv
<1>2. \A i \in 1..n : log[i].ts \in Int
  BY <1>1, RingFacts DEF Entry
<1> HIDE DEF d, n
<1>3. S \in SUBSET (0..n) /\ S # {}
  <2>1. d + 1 \in S
    BY <1>1 DEF d
  <2> QED BY <1>1, <2>1
<1>4. PICK j \in S : \A i \in S : i <= j
  BY <1>1, <1>3, MaxOfBounded
<1>5. j < n => target < log[j + 1].ts
  <2> SUFFICES ASSUME j < n PROVE target < log[j + 1].ts
    OBVIOUS
  <2>1. j + 1 \in (d + 1)..n /\ j + 1 \in 1..n /\ ~(j + 1 <= j)
    BY <1>1
  <2>2. log[j + 1].ts \in Int /\ ~(log[j + 1].ts <= target)
    BY <1>2, <1>4, <2>1
  <2> QED BY <2>2
<1> QED BY <1>5 DEF LatestAt, d, n

LEMMA ObservedRefused ==
  ASSUME ObservedInv, log # << >>, NEW target \in Int, target < log[Dropped + 1].ts
  PROVE  Observed(target) = Refused
<1> DEFINE n == Len(log)
           d == Dropped
<1>1. RingInv /\ d \in Nat /\ n \in Nat /\ n - d >= 1
  BY KeptIs, RingFacts DEF ObservedInv
<1>2. log[d + 1].ts \in Int /\ log[n].ts \in Int
  <2>1. d + 1 \in 1..n /\ n \in 1..n
    BY <1>1
  <2>2. log[d + 1] \in Entry /\ log[n] \in Entry
    BY <1>1, <2>1, RingFacts
  <2> QED BY <2>2 DEF Entry
<1>3. log[d + 1].ts <= log[n].ts
  <2>1. \A i, m \in 1..n : i < m => log[i].ts < log[m].ts
    BY DEF ObservedInv
  <2> HIDE DEF d, n
  <2>2. CASE d + 1 = n
    BY <1>2, <2>2
  <2>3. CASE d + 1 # n
    <3>1. d + 1 \in 1..n /\ n \in 1..n /\ d + 1 < n
      BY <1>1, <2>3
    <3>2. log[d + 1].ts < log[n].ts
      BY <2>1, <3>1
    <3> QED BY <1>2, <3>2
  <2> QED BY <2>2, <2>3
<1>4. ~(target >= log[n].ts) /\ target # log[d + 1].ts
  BY <1>2, <1>3
<1> QED BY <1>1, <1>4, ObservedBy

(* So does the walk over what is kept. *)
LEMMA ReferenceIs ==
  ASSUME ObservedInv, log # << >>, NEW target \in Int, NEW j, LatestAt(j, target)
  PROVE  Reference(target) = AnswerAt(j, target)
<1> DEFINE n == Len(log)
           d == Dropped
           k == Len(Kept)
           before == {i \in 1..k : Kept[i].ts <= target}
           l == j - d
<1>1. /\ d \in Nat /\ k = n - d /\ k >= 1 /\ n \in Nat
      /\ \A i \in 1..k : Kept[i] = log[d + i] /\ d + i \in 1..n
  BY KeptIs, RingFacts DEF ObservedInv
<1>2. \A i \in 1..n : log[i].ts \in Int
  BY RingFacts DEF ObservedInv, Entry
<1>3. \A i, m \in 1..n : i < m => log[i].ts < log[m].ts
  BY DEF ObservedInv
<1>4. j \in (d + 1)..n /\ log[j].ts <= target /\ (j < n => target < log[j + 1].ts)
  BY DEF LatestAt
<1> HIDE DEF d, n, k
<1>5. /\ l \in 1..k /\ d + l = j /\ j \in 1..n /\ (l = k <=> j = n)
      /\ l # k => l + 1 \in 1..k /\ d + (l + 1) = j + 1 /\ j < n /\ j + 1 \in 1..n
  BY <1>1, <1>4
<1> HIDE DEF l
<1>6. Kept[l] = log[j] /\ l \in before
  <2>1. Kept[l] = log[d + l]
    BY <1>1, <1>5
  <2> QED BY <1>4, <1>5, <2>1
<1>7. \A i \in before : i <= l
  <2> SUFFICES ASSUME NEW i \in 1..k, Kept[i].ts <= target, i > l PROVE FALSE
    BY <1>1, <1>5
  <2>1. i \in Int /\ l \in Int /\ d + i \in 1..n /\ Kept[i] = log[d + i] /\ k \in Int
    BY <1>1, <1>5
  <2>2. l # k
    BY <2>1
  <2>3. j < n /\ j + 1 \in 1..n /\ target < log[j + 1].ts /\ log[d + i].ts <= target
    BY <1>4, <1>5, <2>1, <2>2
  <2>4. log[j + 1].ts <= log[d + i].ts
    <3>1. CASE i = l + 1
      <4>1. d + i = j + 1
        BY <1>5, <2>2, <3>1
      <4> QED BY <1>2, <2>3, <4>1
    <3>2. CASE i # l + 1
      <4>1. j + 1 < d + i
        BY <1>1, <1>5, <2>1, <3>2
      <4>2. log[j + 1].ts < log[d + i].ts
        BY <1>3, <2>1, <2>3, <4>1
      <4> QED BY <1>2, <2>1, <2>3, <4>2
    <3> QED BY <3>1, <3>2
  <2>5. log[j + 1].ts \in Int /\ log[d + i].ts \in Int
    BY <1>2, <2>1, <2>3
  <2> QED BY <2>3, <2>4, <2>5
<1>8. Max(before) = l
  <2> DEFINE m == Max(before)
  <2>1. before \in SUBSET (0..k) /\ before # {} /\ k \in Nat
    BY <1>1, <1>6
  <2> HIDE DEF before
  <2>2. m \in before /\ \A i \in before : i <= m
    BY <2>1, MaxOfBounded
  <2>3. m <= l /\ l <= m
    BY <1>6, <1>7, <2>2
  <2> HIDE DEF m
  <2>4. m \in Int /\ l \in Int
    <3>1. m \in 0..k
      BY <2>1, <2>2
    <3> QED BY <1>5, <2>1, <3>1
  <2>5. m = l
    BY <2>3, <2>4
  <2> QED BY <2>5 DEF m
<1>9. Reference(target) = IF l = k \/ Kept[l].ts = target THEN Kept[l].sma
                          ELSE Interpolated(Kept[l], Kept[l + 1], target)
  BY <1>6, <1>8 DEF Reference, k
<1>10. l # k => Kept[l + 1] = log[j + 1]
  <2> SUFFICES ASSUME l # k PROVE Kept[l + 1] = log[j + 1]
    OBVIOUS
  <2>1. l + 1 \in 1..k /\ d + (l + 1) = j + 1
    BY <1>5
  <2>2. Kept[l + 1] = log[d + (l + 1)]
    BY <1>1, <2>1
  <2> QED BY <2>1, <2>2
<1> QED BY <1>5, <1>6, <1>9, <1>10 DEF AnswerAt, n

LEMMA ReferenceRefused ==
  ASSUME ObservedInv, log # << >>, NEW target \in Int, target < log[Dropped + 1].ts
  PROVE  Reference(target) = Refused
<1> DEFINE n == Len(log)
           d == Dropped
           k == Len(Kept)
<1>1. /\ d \in Nat /\ k = n - d /\ k >= 1 /\ n \in Nat
      /\ \A i \in 1..k : Kept[i] = log[d + i] /\ d + i \in 1..n
  BY KeptIs, RingFacts DEF ObservedInv
<1>2. \A i \in 1..n : log[i].ts \in Int
  BY RingFacts DEF ObservedInv, Entry
<1>3. \A i, m \in 1..n : i < m => log[i].ts < log[m].ts
  BY DEF ObservedInv
<1>4. target < log[d + 1].ts
  OBVIOUS
<1> HIDE DEF d, n, k
<1>5. ASSUME NEW i \in 1..k PROVE ~(Kept[i].ts <= target)
  <2>1. Kept[i] = log[d + i] /\ d + i \in 1..n /\ d + 1 \in 1..n /\ (i # 1 => d + 1 < d + i)
    BY <1>1
  <2>2. log[d + 1].ts \in Int /\ log[d + i].ts \in Int
    BY <1>2, <2>1
  <2>3. CASE i = 1
    <3>1. d + i = d + 1
      BY <2>3
    <3> QED BY <1>4, <2>1, <2>2, <3>1
  <2>4. CASE i # 1
    <3>1. log[d + 1].ts < log[d + i].ts
      BY <1>3, <2>1, <2>4
    <3> QED BY <1>4, <2>1, <2>2, <3>1
  <2> QED BY <2>3, <2>4
<1>6. {i \in 1..Len(Kept) : Kept[i].ts <= target} = {}
  BY <1>5 DEF k
<1> QED BY <1>6 DEF Reference

LEMMA FindsMoment ==
  ASSUME ObservedInv, log # << >>, NEW target \in Int
  PROVE  Observed(target) = Reference(target)
<1>1. CASE target < log[Dropped + 1].ts
  BY <1>1, ObservedRefused, ReferenceRefused
<1>2. CASE ~(target < log[Dropped + 1].ts)
  <2>1. log[Dropped + 1].ts \in Int
    <3>1. Dropped + 1 \in 1..Len(log) /\ RingInv
      BY KeptIs, RingFacts DEF ObservedInv
    <3>2. log[Dropped + 1] \in Entry
      BY <3>1, RingFacts
    <3> QED BY <3>2 DEF Entry
  <2>2. PICK j : LatestAt(j, target)
    BY <1>2, <2>1, LatestExists
  <2> QED BY <2>2, ObservedIs, ReferenceIs
<1> QED BY <1>1, <1>2
-----------------------------------------------------------------------------
(* Steps. *)

(* What a swap may do to the observations. *)
Observing ==
  /\ AccumulateSwapSizes
  /\ \/ \E base \in Nat, quote \in Nat \ {0} : SavePrecommit(base, quote)
     \/ UNCHANGED precommit

(* An amount that is large enough is one.  *)
LEMMA LargeAmounts ==
  ASSUME NEW gross \in Nat, NEW total \in 0..(Scale - 1), NEW i \in Assets,
         NEW return, return = gross - Times(gross, total), FromUint(i, return) >= MinTradeSize
  PROVE  return \in Nat \ {0}
<1> DEFINE taken == gross * total
           t == taken \div Scale
<1>1. Scale \in Nat \ {0} /\ total \in Nat /\ total <= Scale /\ taken \in Nat
  BY ScaleAssumption
<1>2. taken <= gross * Scale
  <2>1. total * gross <= Scale * gross
    BY <1>1, Scaled
  <2>2. total * gross = taken /\ Scale * gross = gross * Scale
    BY <1>1
  <2> QED BY <2>1, <2>2
<1> HIDE DEF taken
<1>3. t \in Nat /\ t * Scale <= taken
  BY <1>1, DivNat, DivBounds
<1>4. t = Times(gross, total)
  BY DEF Times, taken
<1> HIDE DEF t
<1>5. t <= gross
  <2>1. t * Scale \in Int /\ gross * Scale \in Int
    BY <1>1, <1>3
  <2>2. t * Scale <= gross * Scale
    BY <1>1, <1>2, <1>3, <2>1
  <2> QED BY <1>1, <1>3, <2>2, Cancel
<1>6. return \in Nat
  BY <1>3, <1>4, <1>5
<1>7. return # 0
  <2> SUFFICES ASSUME return = 0 PROVE FALSE
    OBVIOUS
  <2>1. Unit[i] \in Nat
    BY StableMathAssumption DEF Assets
  <2>2. FromUint(i, return) = 0
    BY <2>1 DEF FromUint
  <2> QED BY <2>2, StablePairAssumption
<1> QED BY <1>6, <1>7

LEMMA SwapObserves ==
  ASSUME NEW offered \in Assets, NEW offer \in Offers, NEW info \in FeeInfos,
         NEW belief, NEW maxSpread, Swap(offered, offer, info, belief, maxSpread)
  PROVE  Observing
<1> DEFINE asked == Other(offered)
           result == SwapResult(pools, offered, FromUint(offered, offer))
           return == result.gross - Times(result.gross, info.total)
           large == /\ FromUint(offered, offer) >= MinTradeSize
                    /\ FromUint(asked, return) >= MinTradeSize
           bought == IF offered = 1 THEN offer ELSE return
           sold == IF offered = 1 THEN return ELSE offer
<1>1. /\ Tradable(pools, offer) /\ result.done /\ AccumulateSwapSizes
      /\ IF large THEN SavePrecommit(bought, sold) ELSE UNCHANGED precommit
  BY DEF Swap
<1>2. offer \in Nat \ {0} /\ asked \in Assets /\ info.total \in 0..(Scale - 1)
  BY <1>1, StablePairAssumption DEF Tradable, Other, Assets
<1>3. result.gross \in Nat
  BY <1>1 DEF SwapResult, ResultOf
<1> HIDE DEF asked, result
<1>4. CASE large
  <2>1. return \in Nat \ {0}
    BY <1>2, <1>3, <1>4, LargeAmounts
  <2>2. bought \in Nat /\ sold \in Nat \ {0} /\ SavePrecommit(bought, sold)
    BY <1>1, <1>2, <1>4, <2>1
  <2> QED BY <1>1, <2>2 DEF Observing
<1>5. CASE ~large
  BY <1>1, <1>5 DEF Observing
<1> QED BY <1>4, <1>5

LEMMA StepObserves == [Next]_vars => Observing \/ UNCHANGED observationVars
<1> SUFFICES ASSUME [Next]_vars PROVE Observing \/ UNCHANGED observationVars
  OBVIOUS
<1>1. (\E next \in NextAmps, duration \in Durations : StartChangingAmp(next, now + duration))
        => UNCHANGED observationVars
  BY DEF StartChangingAmp, Settings
<1>2. StopChangingAmp => UNCHANGED observationVars
  BY DEF StopChangingAmp, Settings
<1>3. Tick => UNCHANGED observationVars
  BY DEF Tick
<1>4. (\E rate \in FeeShares : UpdateFeeShare(rate)) => UNCHANGED observationVars
  BY DEF UpdateFeeShare, Settings
<1>5. (\E receiver \in Users, autoStake \in AutoStakes, x, y \in Deposits, least \in Minima :
         ProvideLiquidity(receiver, autoStake, <<x, y>>, least)) => UNCHANGED observationVars
  BY DEF ProvideLiquidity
<1>6. (\E user \in Users, least \in Minima, amount \in LpAmounts : WithdrawLiquidity(user, amount, least))
        => UNCHANGED observationVars
  BY DEF WithdrawLiquidity
<1>7. (\E offered \in Assets, offer \in Offers, info \in FeeInfos, belief \in BeliefPrices,
          maxSpread \in Tolerances : \/ SwapCoins(offered, offer, info, belief, maxSpread)
                                    \/ ReceiveCw20(offered, offer, info, belief, maxSpread))
        => Observing
  BY SwapObserves DEF SwapCoins, ReceiveCw20
<1>8. (\E i \in Assets, gift \in Gifts : Donate(i, gift)) => UNCHANGED observationVars
  BY DEF Donate
<1>9. (UNCHANGED vars) => UNCHANGED observationVars
  BY DEF vars
<1> QED BY <1>1, <1>2, <1>3, <1>4, <1>5, <1>6, <1>7, <1>8, <1>9 DEF Next

(* What is committed is later than what was. *)
LEMMA CommitIs ==
  ASSUME ObservedInv, AccumulateSwapSizes
  PROVE  \/ /\ UNCHANGED <<head, array, log>>
         \/ \E price, sma \in Nat :
              LET e == Observation(precommit.ts, price, sma)
              IN  /\ e \in Entry /\ InstantPush(e) /\ log' = Append(log, e)
                  /\ sma = NextSma(price)
                  /\ log # << >> => log[Len(log)].ts < precommit.ts
<1>1. CASE ~ToCommit
  BY <1>1 DEF AccumulateSwapSizes, bufferVars
<1>2. CASE ToCommit
  <2> DEFINE price == Ratio(precommit.base, precommit.quote)
             sma == NextSma(price)
             e == Observation(precommit.ts, price, sma)
  <2>1. e.sma \in Nat /\ InstantPush(e) /\ log' = Append(log, e)
    BY <1>2 DEF AccumulateSwapSizes
  <2>2. /\ precommit \in Waiting
        /\ IF ReadLast = NoValue THEN now > precommit.ts ELSE ReadLast.ts < precommit.ts
    BY <1>2 DEF ToCommit, ObservedInv
  <2>3. price \in Nat
    <3> DEFINE scaled == precommit.base * Scale
    <3>1. scaled \in Nat /\ precommit.quote \in Nat \ {0}
      BY <2>2, ScaleAssumption DEF Waiting
    <3>2. price = scaled \div precommit.quote
      BY DEF Ratio
    <3> HIDE DEF scaled, price
    <3> QED BY <3>1, <3>2, DivNat
  <2> HIDE DEF price
  <2>4. sma \in Nat
    BY <2>1 DEF Observation
  <2> HIDE DEF sma
  <2>5. e \in Entry
    BY <2>2, <2>3, <2>4 DEF Observation, Entry, Waiting
  <2>6. log # << >> => log[Len(log)].ts < precommit.ts
    <3> SUFFICES ASSUME log # << >> PROVE log[Len(log)].ts < precommit.ts
      OBVIOUS
    <3>1. /\ Len(log) \in Nat /\ Len(log) # 0
          /\ \A j \in 1..Len(log) : log[j] # NoValue
      BY RingFacts, EmptySeq DEF ObservedInv, RingInv
    <3>2. ReadLast = log[Len(log)]
      BY <3>1, ReadLastIs DEF ObservedInv
    <3>3. log[Len(log)] # NoValue
      BY <3>1
    <3> QED BY <2>2, <3>2, <3>3
  <2>7. sma = NextSma(price)
    BY DEF sma
  <2> HIDE DEF e
  <2> QED BY <2>1, <2>3, <2>4, <2>5, <2>6, <2>7 DEF e
<1> QED BY <1>1, <1>2

LEMMA ObservingKeeps ==
  ASSUME ObservedInv, now \in Nat, Observing
  PROVE  ObservedInv'
<1>1. (precommit # NoValue => precommit \in Waiting)'
  <2>1. precommit # NoValue => precommit \in Waiting
    BY DEF ObservedInv
  <2>2. CASE UNCHANGED precommit
    BY <2>1, <2>2
  <2>3. ASSUME NEW base \in Nat, NEW quote \in Nat \ {0}, SavePrecommit(base, quote)
        PROVE  precommit' \in Waiting
    <3>1. CASE precommit # NoValue /\ precommit.ts = now
      <4>1. precommit \in Waiting
        BY <2>1, <3>1
      <4>2. precommit' = [precommit EXCEPT !.base = @ + base, !.quote = @ + quote]
        BY <2>3, <3>1 DEF SavePrecommit
      <4>3. precommit.base + base \in Nat /\ precommit.quote + quote \in Nat \ {0}
        BY <4>1 DEF Waiting
      <4> QED BY <4>1, <4>2, <4>3 DEF Waiting
    <3>2. CASE ~(precommit # NoValue /\ precommit.ts = now)
      BY <2>3, <3>2 DEF SavePrecommit, Waiting
    <3> QED BY <3>1, <3>2
  <2> QED BY <2>2, <2>3 DEF Observing
<1>2. AccumulateSwapSizes /\ RingInv
  BY DEF Observing, ObservedInv
<1>3. \A i, j \in 1..Len(log) : i < j => log[i].ts < log[j].ts
  BY DEF ObservedInv
<1>4. CASE UNCHANGED <<head, array, log>>
  <2>1. RingInv'
    BY <1>2, <1>4 DEF RingInv, ReadSingle
  <2> QED BY <1>1, <1>3, <1>4, <2>1 DEF ObservedInv
<1>5. ASSUME NEW e \in Entry, InstantPush(e), log' = Append(log, e),
             log # << >> => log[Len(log)].ts < e.ts
      PROVE  ObservedInv'
  <2> DEFINE n == Len(log)
  <2>1. RingInv'
    BY <1>2, <1>5, PushKeepsRing
  <2>2. /\ n \in Nat /\ log \in Seq(Entry) /\ \A j \in 1..n : log[j] \in Entry
    BY <1>2, RingFacts DEF RingInv
  <2>3. Len(log') = n + 1 /\ (\A j \in 1..n : log'[j] = log[j]) /\ log'[n + 1] = e
    BY <1>5, <2>2, AppendProperties
  <2>4. n # 0 => log[n].ts < e.ts
    <3>1. n # 0 => log # << >>
      OBVIOUS
    <3> QED BY <1>5, <3>1
  <2>5. e.ts \in Int /\ \A j \in 1..n : log[j].ts \in Int
    BY <2>2 DEF Entry
  <2>6. \A i, j \in 1..n : i < j => log[i].ts < log[j].ts
    BY <1>3
  <2> HIDE DEF n
  <2>7. ASSUME NEW i \in 1..(n + 1), NEW j \in 1..(n + 1), i < j
        PROVE  log'[i].ts < log'[j].ts
    <3>1. i \in 1..n /\ log'[i] = log[i]
      BY <2>2, <2>3, <2>7
    <3>2. CASE j = n + 1
      <4>1. log[i].ts <= log[n].ts
        <5>1. n \in 1..n
          BY <2>2, <3>1
        <5>2. CASE i = n
          BY <2>5, <3>1, <5>2
        <5>3. CASE i # n
          <6>1. i < n
            BY <2>2, <3>1, <5>3
          <6>2. log[i].ts < log[n].ts
            BY <2>6, <3>1, <5>1, <6>1
          <6> QED BY <2>5, <3>1, <5>1, <6>2
        <5> QED BY <5>2, <5>3
      <4>2. n \in 1..n /\ log[n].ts < e.ts
        BY <2>2, <2>4, <3>1
      <4>3. log'[i].ts = log[i].ts /\ log'[j].ts = e.ts
        BY <2>3, <3>1, <3>2
      <4>4. log[i].ts \in Int /\ log[n].ts \in Int /\ e.ts \in Int
        BY <2>5, <3>1, <4>2
      <4> QED BY <4>1, <4>2, <4>3, <4>4
    <3>3. CASE j # n + 1
      <4>1. j \in 1..n
        BY <2>2, <2>7, <3>3
      <4>2. log'[j] = log[j] /\ log[i].ts < log[j].ts
        BY <2>3, <2>6, <2>7, <3>1, <4>1
      <4> QED BY <3>1, <4>2
    <3> QED BY <3>2, <3>3
  <2>8. (\A i, j \in 1..Len(log) : i < j => log[i].ts < log[j].ts)'
    BY <2>3, <2>7
  <2> QED BY <1>1, <2>1, <2>8 DEF ObservedInv
<1>6. CASE ~(UNCHANGED <<head, array, log>>)
  <2>1. PICK price, sma \in Nat :
          LET e == Observation(precommit.ts, price, sma)
          IN  /\ e \in Entry /\ InstantPush(e) /\ log' = Append(log, e)
              /\ log # << >> => log[Len(log)].ts < precommit.ts
    BY <1>2, <1>6, CommitIs
  <2> DEFINE e == Observation(precommit.ts, price, sma)
  <2>2. e \in Entry /\ InstantPush(e) /\ log' = Append(log, e)
    BY <2>1
  <2>3. log # << >> => log[Len(log)].ts < e.ts
    BY <2>1 DEF Observation
  <2> HIDE DEF e
  <2> QED BY <1>5, <2>2, <2>3
<1> QED BY <1>4, <1>6

LEMMA ObservedStep == AmpInv /\ ObservedInv /\ [Next]_vars => ObservedInv'
<1> SUFFICES ASSUME AmpInv, ObservedInv, [Next]_vars PROVE ObservedInv'
  OBVIOUS
<1>1. CASE Observing
  BY <1>1, ObservingKeeps DEF AmpInv
<1>2. CASE UNCHANGED observationVars
  BY <1>2 DEF observationVars, ObservedInv, RingInv, ReadSingle
<1> QED BY <1>1, <1>2, StepObserves

LEMMA ObservedInit == Init => ObservedInv
<1> SUFFICES ASSUME Init PROVE ObservedInv
  OBVIOUS
<1>1. log = << >> /\ head = 0 /\ precommit = NoValue /\ array = [i \in 0..(Capacity - 1) |-> NoValue]
  BY DEF Init, ObservationsInit, BufferInit
<1>2. log \in Seq(Entry) /\ Len(log) = 0
  BY <1>1
<1>3. 0 % Capacity = 0
  <2>1. 0 \in 0..(Capacity - 1)
    BY CapacityAssumption
  <2> QED BY <2>1, CapacityAssumption, ModSmall
<1> QED BY <1>1, <1>2, <1>3 DEF ObservedInv, RingInv
-----------------------------------------------------------------------------
(* What is asked of the observations (query_observation), before the ring  *)
(* is full, when it is just full and after the head went round: the answer *)
(* about each moment is that of a walk over the latest observations.       *)
THEOREM QueriesAlwaysFindMoment == Spec => []QueryFindsMoment
<1>1. AmpInv /\ ObservedInv => QueryFindsMoment
  <2> SUFFICES ASSUME ObservedInv, log # << >>, NEW target \in 0..now
               PROVE  Observed(target) = Reference(target)
    BY DEF QueryFindsMoment
  <2>1. target \in Int
    OBVIOUS
  <2> QED BY <2>1, FindsMoment
<1> QED BY <1>1, AmpInit, AmpStep, ObservedInit, ObservedStep, PTL DEF Spec
-----------------------------------------------------------------------------
(* What every moment is answered, in a state and in the next. *)
Answers ==
  log # << >> =>
    \A target \in Int :
      /\ \A j : LatestAt(j, target) => Observed(target) = AnswerAt(j, target)
      /\ target < log[Dropped + 1].ts => Observed(target) = Refused

LEMMA AnswersNow == ObservedInv => Answers
BY ObservedIs, ObservedRefused DEF Answers

LEMMA AnswersNext == ObservedInv' => Answers'
BY AnswersNow, PTL

(* The log only grows, by no more than one observation at a time. *)
LEMMA LogGrows ==
  ASSUME ObservedInv, Observing \/ UNCHANGED observationVars
  PROVE  /\ Len(log') \in Len(log)..(Len(log) + 1)
         /\ \A j \in 1..Len(log) : log'[j] = log[j]
<1>1. log \in Seq(Entry) /\ Len(log) \in Nat
  BY RingFacts DEF ObservedInv, RingInv
<1>2. CASE log' = log
  BY <1>1, <1>2
<1>3. ASSUME NEW e \in Entry, log' = Append(log, e)
      PROVE  Len(log') = Len(log) + 1 /\ \A j \in 1..Len(log) : log'[j] = log[j]
  BY <1>1, <1>3, AppendProperties
<1>4. log' = log \/ \E e \in Entry : log' = Append(log, e)
  <2>1. CASE UNCHANGED observationVars
    BY <2>1 DEF observationVars
  <2>2. CASE Observing
    BY <2>2, CommitIs DEF Observing
  <2> QED BY <2>1, <2>2
<1>5. CASE log' # log
  <2>1. PICK e \in Entry : log' = Append(log, e)
    BY <1>4, <1>5
  <2>2. Len(log') = Len(log) + 1 /\ \A j \in 1..Len(log) : log'[j] = log[j]
    BY <1>3, <2>1
  <2> QED BY <1>1, <2>2
<1> QED BY <1>2, <1>5

LEMMA StandStep ==
  ASSUME ObservedInv, ObservedInv', Observing \/ UNCHANGED observationVars,
         NEW target \in Int, log # << >>, target <= log[Len(log)].ts, Observed(target) # Refused
  PROVE  Observed(target)' \in {Observed(target), Refused}
<1> DEFINE n == Len(log)
           m == Len(log')
           d == Dropped
           d1 == Dropped'
           c == Capacity
<1>1. /\ d \in Nat /\ n \in Nat /\ n - d >= 1 /\ c \in Nat \ {0}
      /\ d = IF n <= c THEN 0 ELSE n - c
      /\ d1 = IF m <= c THEN 0 ELSE m - c
  BY KeptIs, RingFacts DEF ObservedInv, Dropped
<1>2. m \in n..(n + 1) /\ \A j \in 1..n : log'[j] = log[j]
  BY LogGrows
<1>3. \A j \in 1..n : log[j].ts \in Int
  BY RingFacts DEF ObservedInv, Entry
<1>4. /\ \A j \in 1..m : log'[j].ts \in Int
      /\ \A i, j \in 1..m : i < j => log'[i].ts < log'[j].ts
  <2>1. log' \in Seq(Entry)
    BY DEF ObservedInv, RingInv
  <2>2. \A j \in 1..m : log'[j] \in Entry
    BY <2>1, LenProperties
  <2>3. \A i, j \in 1..m : i < j => log'[i].ts < log'[j].ts
    BY DEF ObservedInv
  <2> QED BY <2>2, <2>3 DEF Entry
<1>5. log' # << >>
  <2>1. m # 0
    BY <1>1, <1>2
  <2> QED BY <2>1
<1>6. /\ \A j : LatestAt(j, target) => Observed(target) = AnswerAt(j, target)
      /\ target < log[d + 1].ts => Observed(target) = Refused
  BY AnswersNow DEF Answers
<1>7. /\ \A j : LatestAt(j, target)' => Observed(target)' = AnswerAt(j, target)'
      /\ target < log'[d1 + 1].ts => Observed(target)' = Refused
  BY <1>5, AnswersNext DEF Answers
<1>8. PICK j : LatestAt(j, target)
  <2>1. log[d + 1].ts \in Int
    <3>1. d + 1 \in 1..n
      BY <1>1
    <3> QED BY <1>3, <3>1
  <2>2. log[d + 1].ts <= target
    BY <1>6, <2>1
  <2> QED BY <2>2, LatestExists
<1>9. /\ j \in (d + 1)..n /\ log[j].ts <= target /\ (j < n => target < log[j + 1].ts)
      /\ Observed(target) = AnswerAt(j, target)
  BY <1>6, <1>8 DEF LatestAt
<1>10. AnswerAt(j, target) = IF j = n \/ log[j].ts = target THEN log[j].sma
                             ELSE Interpolated(log[j], log[j + 1], target)
  BY DEF AnswerAt
<1>11. AnswerAt(j, target)' = IF j = m \/ log'[j].ts = target THEN log'[j].sma
                              ELSE Interpolated(log'[j], log'[j + 1], target)
  BY DEF AnswerAt, Interpolated
<1>12. LatestAt(j, target)' <=> /\ j \in (d1 + 1)..m /\ log'[j].ts <= target
                                /\ j < m => target < log'[j + 1].ts
  BY DEF LatestAt
<1>13. target <= log[n].ts
  OBVIOUS
<1> HIDE DEF n, m, d, d1, c
<1>14. j \in 1..n /\ j \in 1..m /\ log'[j] = log[j]
  BY <1>1, <1>2, <1>9
<1>15. j = n => log[j].ts = target
  BY <1>3, <1>9, <1>13, <1>14
<1>16. j < m => j + 1 \in 1..m /\ target < log'[j + 1].ts
  <2> SUFFICES ASSUME j < m PROVE j + 1 \in 1..m /\ target < log'[j + 1].ts
    OBVIOUS
  <2>1. j + 1 \in 1..m
    BY <1>1, <1>2, <1>14
  <2>2. CASE j = n
    <3>1. log'[j].ts < log'[j + 1].ts
      BY <1>4, <1>14, <2>1
    <3> QED BY <1>14, <1>15, <2>1, <2>2, <3>1
  <2>3. CASE j # n
    <3>1. j < n /\ j + 1 \in 1..n
      BY <1>1, <1>9, <2>3
    <3>2. log'[j + 1] = log[j + 1]
      BY <1>2, <3>1
    <3> QED BY <1>9, <2>1, <3>1, <3>2
  <2> QED BY <2>2, <2>3
<1>17. CASE d1 + 1 <= j
  <2>1. j \in (d1 + 1)..m
    BY <1>1, <1>2, <1>14, <1>17
  <2>2. Observed(target)' = AnswerAt(j, target)'
    BY <1>7, <1>9, <1>12, <1>14, <1>16, <2>1
  <2>3. CASE log[j].ts = target
    BY <1>9, <1>10, <1>11, <1>14, <2>2, <2>3
  <2>4. CASE log[j].ts # target
    <3>1. j # n
      BY <1>15, <2>4
    <3>2. j + 1 \in 1..n /\ j # m
      BY <1>1, <1>2, <1>9, <3>1
    <3>3. log'[j + 1] = log[j + 1]
      BY <1>2, <3>2
    <3>4. AnswerAt(j, target)' = AnswerAt(j, target)
      BY <1>10, <1>11, <1>14, <2>4, <3>1, <3>2, <3>3
    <3> QED BY <1>9, <2>2, <3>4
  <2> QED BY <2>3, <2>4
<1>18. CASE ~(d1 + 1 <= j)
  <2>1. d1 \in Nat /\ j < m /\ d1 + 1 \in 1..m /\ j + 1 <= d1 + 1
    BY <1>1, <1>2, <1>9, <1>18
  <2>2. log'[j + 1].ts <= log'[d1 + 1].ts
    <3>1. CASE j + 1 = d1 + 1
      BY <1>4, <1>16, <2>1, <3>1
    <3>2. CASE j + 1 # d1 + 1
      <4>1. j + 1 < d1 + 1
        BY <1>14, <2>1, <3>2
      <4>2. log'[j + 1].ts < log'[d1 + 1].ts
        BY <1>4, <1>16, <2>1, <4>1
      <4> QED BY <1>4, <1>16, <2>1, <4>2
    <3> QED BY <3>1, <3>2
  <2>3. target < log'[d1 + 1].ts
    BY <1>4, <1>16, <2>1, <2>2
  <2> QED BY <1>7, <2>3
<1> QED BY <1>17, <1>18

(* What is answered about a moment that has an observation at or after it  *)
(* (query_observation) is not changed by later swaps                       *)
(* (accumulate_swap_sizes), until the moment is too old to be asked about. *)
THEOREM AnswersAlwaysStand == Spec => AnswersStand
<1>1. ObservedInv /\ ObservedInv' /\ [Next]_vars =>
        [\A target \in 0..now :
           log # << >> /\ target <= log[Len(log)].ts /\ Observed(target) # Refused
             => Observed(target)' \in {Observed(target), Refused}]_observationVars
  <2> SUFFICES ASSUME ObservedInv, ObservedInv', [Next]_vars, NEW target \in 0..now,
                      log # << >>, target <= log[Len(log)].ts, Observed(target) # Refused
               PROVE  Observed(target)' \in {Observed(target), Refused}
    OBVIOUS
  <2>1. target \in Int
    OBVIOUS
  <2>2. Observing \/ UNCHANGED observationVars
    BY StepObserves
  <2> QED BY <2>1, <2>2, StandStep
<1>2. Spec => []ObservedInv
  BY AmpInit, AmpStep, ObservedInit, ObservedStep, PTL DEF Spec
<1> QED BY <1>1, <1>2, PTL DEF Spec, AnswersStand
-----------------------------------------------------------------------------
(***************************************************************************)
(* The averages.  Each is computed from the one before it; it is never     *)
(* summed up anew.  While the ring fills, the average times its number of  *)
(* prices is their sum, but for what rounding lost; from then on the       *)
(* average times the capacity is the sum of the prices but one, and one    *)
(* average more that was there when the ring was about to fill.            *)
(***************************************************************************)
(* The price that leaves when observation i comes in; a ring of one gives  *)
(* up the price before.                                                    *)
Leaves(i) == IF Capacity = 1 THEN i - 1 ELSE i - Capacity + 1

(* Averages s of n prices p. *)
Averages(n, p, s) ==
  \A i \in 1..n :
    s[i] = IF i = 1 THEN p[1]
           ELSE IF i < Capacity THEN (s[i - 1] * (i - 1) + p[i]) \div i
           ELSE (s[i - 1] * Capacity + p[i] - p[Leaves(i)]) \div Capacity

LEMMA SumsBetween ==
  ASSUME NEW n \in Nat, NEW p, NEW a \in [0..n -> Int], PartialSums(a, n, p),
         NEW lo \in Int, NEW hi \in Int,
         \A i \in 1..n : p[i] \in Int /\ lo <= p[i] /\ p[i] <= hi
  PROVE  \A k \in 0..n : \A i \in 0..(n - k) : k * lo <= a[i + k] - a[i] /\ a[i + k] - a[i] <= k * hi
<1> DEFINE Within(k) == \A i \in 0..(n - k) : k * lo <= a[i + k] - a[i] /\ a[i + k] - a[i] <= k * hi
           T == {k \in 0..n : Within(k)}
<1>1. \A i \in 0..n : a[i] \in Int
  OBVIOUS
<1>2. \A i \in 1..n : a[i] = a[i - 1] + p[i]
  BY DEF PartialSums
<1>3. 0 \in T
  <2>1. 0 * lo = 0 /\ 0 * hi = 0
    OBVIOUS
  <2>2. \A i \in 0..(n - 0) : a[i + 0] - a[i] = 0
    BY <1>1
  <2> QED BY <2>1, <2>2
<1>4. ASSUME NEW k \in 0..n, k < n, k \in T PROVE k + 1 \in T
  <2>1. ASSUME NEW i \in 0..(n - (k + 1))
        PROVE  (k + 1) * lo <= a[i + (k + 1)] - a[i] /\ a[i + (k + 1)] - a[i] <= (k + 1) * hi
    <3>1. k * lo <= a[i + k] - a[i] /\ a[i + k] - a[i] <= k * hi
      <4>1. i \in 0..(n - k)
        OBVIOUS
      <4> QED BY <1>4, <4>1
    <3>2. i + k + 1 \in 1..n /\ i + (k + 1) = i + k + 1 /\ (i + k + 1) - 1 = i + k
      OBVIOUS
    <3>3. a[i + k + 1] = a[i + k] + p[i + k + 1] /\ lo <= p[i + k + 1] /\ p[i + k + 1] <= hi
      BY <1>2, <3>2
    <3>4. a[i] \in Int /\ a[i + k] \in Int /\ p[i + k + 1] \in Int
      BY <1>1, <3>2
    <3>5. (k + 1) * lo = k * lo + lo /\ (k + 1) * hi = k * hi + hi /\ k * lo \in Int /\ k * hi \in Int
      OBVIOUS
    <3> DEFINE low == k * lo
               high == k * hi
               x == p[i + k + 1]
               before == a[i + k]
               after == a[i + k + 1]
    <3>6. /\ low <= before - a[i] /\ before - a[i] <= high
          /\ after = before + x /\ lo <= x /\ x <= hi
          /\ x \in Int /\ before \in Int /\ a[i] \in Int /\ low \in Int /\ high \in Int
      BY <3>1, <3>3, <3>4, <3>5
    <3> HIDE DEF low, high, x, before, after
    <3>7. low + lo <= after - a[i] /\ after - a[i] <= high + hi
      BY <3>6
    <3> QED BY <3>2, <3>5, <3>7 DEF low, high, after
  <2>2. k + 1 \in 0..n /\ Within(k + 1)
    BY <1>4, <2>1
  <2> HIDE DEF Within
  <2> QED BY <2>2
<1> HIDE DEF T
<1>5. \A k \in 0..n : k \in T
  BY <1>3, <1>4, RangeInduction
<1> QED BY <1>5 DEF T

(* While the ring fills. *)
LEMMA AveragesFill ==
  ASSUME NEW n \in Nat, NEW p, NEW s, NEW a \in [0..n -> Int], PartialSums(a, n, p),
         \A i \in 1..n : p[i] \in Int /\ s[i] \in Int, Averages(n, p, s)
  PROVE  \A i \in 1..n : i < Capacity => i * s[i] <= a[i] /\ a[i] <= i * s[i] + i * (i - 1)
<1> DEFINE Close(i) == i * s[i] <= a[i] /\ a[i] <= i * s[i] + i * (i - 1)
           T == {i \in 0..n : 1 <= i /\ i < Capacity => Close(i)}
<1>1. 0 \in T
  OBVIOUS
<1>2. ASSUME NEW k \in 0..n, k < n, k \in T PROVE k + 1 \in T
  <2>0. k + 1 \in 0..n
    BY <1>2
  <2> SUFFICES ASSUME k + 1 < Capacity PROVE Close(k + 1)
    BY <2>0
  <2> DEFINE m == k + 1
             x == s[k]
             y == s[m]
  <2>1. m \in 1..n /\ m - 1 = k /\ a[m] = a[k] + p[m] /\ a[k] \in Int /\ p[m] \in Int /\ y \in Int
    <3>1. m \in 1..n /\ m - 1 = k
      BY <1>2
    <3> HIDE DEF m
    <3> QED BY <3>1 DEF PartialSums
  <2>2. y = IF m = 1 THEN p[1] ELSE (x * k + p[m]) \div m
    <3> HIDE DEF m
    <3> QED BY <2>1 DEF Averages, m
  <2>3. CASE k = 0
    <3>1. a[0] = 0
      BY DEF PartialSums
    <3>2. m = 1 /\ y = p[1] /\ a[1] = p[1]
      BY <2>1, <2>2, <2>3, <3>1
    <3> QED BY <2>1, <3>2
  <2>4. CASE k # 0
    <3>1. k * x <= a[k] /\ a[k] <= k * x + k * (k - 1) /\ x \in Int /\ k \in 1..n
      BY <1>2, <2>4, CapacityAssumption
    <3> DEFINE z == x * k + p[m]
    <3>a. m \in Nat \ {0} /\ m # 1
      BY <2>4
    <3>b. x * k \in Int
      BY <3>1
    <3> HIDE DEF x, y, m
    <3>c. z \in Int
      BY <2>1, <3>b
    <3>d. y = z \div m
      BY <2>2, <3>a, Zenon
    <3> HIDE DEF z
    <3>2. z \in Int /\ m \in Nat \ {0} /\ y = z \div m
      BY <3>a, <3>c, <3>d
    <3> USE DEF m
    <3>3. y * m <= z /\ z < y * m + m
      BY <3>2, DivBounds
    <3>4. z = k * x + p[m] /\ k * x \in Int /\ y * m \in Int /\ y * m = m * y
      BY <2>1, <3>1 DEF z
    <3>5. k * (k - 1) + k <= m * (m - 1)
      <4>1. k * (k - 1) + k = k * k /\ m * (m - 1) = k * k + k
        OBVIOUS
      <4> QED BY <4>1
    <3>6. k * (k - 1) \in Int /\ m * (m - 1) \in Int
      OBVIOUS
    <3> DEFINE kk == k * (k - 1)
               mm == m * (m - 1)
               kx == k * x
               my == m * y
               ak == a[k]
               am == a[m]
               pm == p[m]
    <3>7. kx <= ak /\ ak <= kx + kk /\ my <= z /\ z < my + m /\ z = kx + pm /\ kk + k <= mm
      BY <3>1, <3>3, <3>4, <3>5
    <3>8. kk \in Int /\ mm \in Int /\ kx \in Int /\ my \in Int /\ m = k + 1
      BY <3>4, <3>6
    <3>9. am = ak + pm /\ ak \in Int /\ pm \in Int /\ z \in Int /\ k \in Int
      BY <2>1, <3>2
    <3> HIDE DEF kk, mm, kx, my, ak, am, pm, m
    <3>10. my <= am /\ am <= my + mm
      BY <3>7, <3>8, <3>9
    <3> QED BY <3>10 DEF my, mm, m, y, am
  <2> QED BY <2>3, <2>4
<1> HIDE DEF T
<1>3. \A k \in 0..n : k \in T
  BY <1>1, <1>2, RangeInduction
<1> QED BY <1>3 DEF T

(* Once it is about to be full.  V(i) is the sum of the prices but one.    *)
LEMMA AveragesRound ==
  ASSUME NEW n \in Nat, NEW p, NEW s, NEW a \in [0..n -> Int], PartialSums(a, n, p),
         \A i \in 1..n : p[i] \in Int /\ s[i] \in Int, Averages(n, p, s),
         NEW c \in Nat, c >= 1, Capacity = c + 1, c <= n
  PROVE  \A i \in c..n : /\ (c + 1) * s[i] <= (a[i] - a[i - c]) + s[c]
                         /\ (a[i] - a[i - c]) + s[c] <= (c + 1) * s[i] + (c + 1) * (i - 1)
<1> DEFINE V(i) == a[i] - a[i - c]
           Close(i) == /\ (c + 1) * s[i] <= V(i) + s[c]
                       /\ V(i) + s[c] <= (c + 1) * s[i] + (c + 1) * (i - 1)
           T == {k \in 0..(n - c) : Close(c + k)}
<1>1. /\ \A i \in 0..n : a[i] \in Int
      /\ \A i \in 1..n : a[i] = a[i - 1] + p[i]
      /\ a[0] = 0
  BY DEF PartialSums
<1>2. c \in 1..n /\ s[c] \in Int /\ a[c] \in Int
  BY <1>1
<1>3. 0 \in T
  <2>1. c * s[c] <= a[c] /\ a[c] <= c * s[c] + c * (c - 1)
    <3>1. \A i \in 1..n : i < Capacity => i * s[i] <= a[i] /\ a[i] <= i * s[i] + i * (i - 1)
      BY AveragesFill
    <3>2. c < Capacity
      OBVIOUS
    <3> QED BY <1>2, <3>1, <3>2
  <2>2. V(c) = a[c]
    BY <1>1, <1>2
  <2> DEFINE x == s[c]
             v == V(c)
             cx == c * x
             cc == c * (c - 1)
  <2>3. (c + 1) * x = cx + x /\ (c + 1) * (c - 1) = cc + (c - 1) /\ cx \in Int /\ cc \in Int /\ x \in Int /\ v \in Int
    <3>1. x \in Int /\ v \in Int
      BY <1>2, <2>2
    <3> HIDE DEF x, v
    <3> QED BY <3>1
  <2>4. cx <= v /\ v <= cx + cc
    BY <2>1, <2>2
  <2> HIDE DEF V, cx, cc, x, v
  <2>5. (c + 1) * x <= v + x /\ v + x <= (c + 1) * x + (c + 1) * (c - 1)
    BY <2>3, <2>4
  <2>6. c + 0 = c /\ 0 \in 0..(n - c)
    OBVIOUS
  <2>7. Close(c)
    BY <2>5 DEF x, v
  <2> HIDE DEF Close
  <2> QED BY <2>6, <2>7
<1>4. ASSUME NEW k \in 0..(n - c), k < n - c, k \in T PROVE k + 1 \in T
  <2> DEFINE m == c + k + 1
             e == c + k
  <2>1. /\ m \in 1..n /\ e \in 1..n /\ m - 1 = e /\ m # 1 /\ ~(m < Capacity) /\ e - c = k /\ m - c = k + 1
        /\ k + 1 \in 0..(n - c) /\ c + (k + 1) = m /\ k + 1 \in 1..n /\ (k + 1) - 1 = k
    BY <1>2, <1>4
  <2>2. Leaves(m) = k + 1
    BY <2>1 DEF Leaves
  <2>3. Close(e)
    BY <1>4
  <2> DEFINE z == s[e] * (c + 1) + p[m] - p[k + 1]
             f == V(e)
             g == V(m)
             x == s[e]
             y == s[m]
             pm == p[m]
             pk == p[k + 1]
             w == s[c]
             cx == (c + 1) * x
             cy == (c + 1) * y
             ce == (c + 1) * (e - 1)
             cm == (c + 1) * (m - 1)
  <2>4. s[m] = (s[m - 1] * Capacity + p[m] - p[Leaves(m)]) \div Capacity
    BY <2>1 DEF Averages
  <2>5. y = z \div (c + 1)
    BY <2>1, <2>2, <2>4
  <2>6. cx <= f + w /\ f + w <= cx + ce
    BY <2>3
  <2>7. x \in Int /\ y \in Int /\ pm \in Int /\ pk \in Int /\ w \in Int
    BY <1>2, <2>1
  <2>8. f \in Int /\ g \in Int /\ g = f + pm - pk
    <3>1. a[m] = a[e] + p[m] /\ a[k + 1] = a[k] + p[k + 1]
      BY <1>1, <2>1
    <3>2. a[e] \in Int /\ a[k] \in Int /\ a[m] \in Int /\ a[k + 1] \in Int
      BY <1>1, <2>1
    <3>3. f = a[e] - a[k] /\ g = a[m] - a[k + 1]
      BY <2>1
    <3> DEFINE am == a[m]
               ae == a[e]
               al == a[k + 1]
               ak == a[k]
    <3>4. am = ae + pm /\ al = ak + pk /\ ae \in Int /\ ak \in Int /\ f = ae - ak /\ g = am - al
      BY <3>1, <3>2, <3>3
    <3> HIDE DEF f, g, am, ae, al, ak, pm, pk
    <3> QED BY <2>7, <3>4
  <2>9. ce + (c + 1) = cm /\ ce \in Int /\ cm \in Int
    <3>1. (c + 1) * (m - 1) = (c + 1) * (e - 1) + (c + 1)
      OBVIOUS
    <3> QED BY <3>1
  <2>10. cx \in Int /\ cy \in Int /\ z \in Int /\ z = cx + pm - pk /\ y * (c + 1) = cy
    <3>1. z = x * (c + 1) + pm - pk
      OBVIOUS
    <3> HIDE DEF x, y, pm, pk, z
    <3>2. x * (c + 1) = cx /\ y * (c + 1) = cy /\ cx \in Int /\ cy \in Int
      BY <2>7
    <3> HIDE DEF cx, cy
    <3> QED BY <2>7, <3>1, <3>2
  <2> HIDE DEF V, m, e, z, f, g, x, y, pm, pk, w, cx, cy, ce, cm
  <2>11. cy <= z /\ z < cy + (c + 1)
    <3>1. c + 1 \in Nat \ {0}
      OBVIOUS
    <3>2. y * (c + 1) <= z /\ z < y * (c + 1) + (c + 1)
      BY <2>5, <2>10, <3>1, DivBounds
    <3> QED BY <2>10, <3>2
  <2>12. cy <= g + w /\ g + w <= cy + cm
    BY <2>6, <2>7, <2>8, <2>9, <2>10, <2>11
  <2>13. Close(m)
    BY <2>12 DEF cy, g, w, cm, y
  <2> HIDE DEF Close
  <2> QED BY <2>1, <2>13
<1> HIDE DEF T
<1>5. \A k \in 0..(n - c) : k \in T
  <2>1. n - c \in Nat
    OBVIOUS
  <2> QED BY <1>3, <1>4, <2>1, RangeInduction
<1>6. ASSUME NEW i \in c..n PROVE Close(i)
  <2>1. i - c \in 0..(n - c) /\ c + (i - c) = i
    OBVIOUS
  <2>2. i - c \in T
    BY <1>5, <2>1
  <2> HIDE DEF Close
  <2> QED BY <2>1, <2>2 DEF T
<1> QED BY <1>6

(* No average is above the prices, and none is further below them than one *)
(* atomic for each price before the last.                                  *)
LEMMA AverageBounded ==
  ASSUME NEW n \in Nat \ {0}, NEW p, NEW s,
         NEW lo \in Int, NEW hi \in Int,
         \A i \in 1..n : p[i] \in Int /\ s[i] \in Int /\ lo <= p[i] /\ p[i] <= hi,
         Averages(n, p, s)
  PROVE  s[n] <= hi /\ lo <= s[n] + (n - 1)
<1>1. PICK a \in [0..n -> Int] : PartialSums(a, n, p)
  BY PartialSumsExist
<1>2. \A k \in 0..n : \A i \in 0..(n - k) : k * lo <= a[i + k] - a[i] /\ a[i + k] - a[i] <= k * hi
  BY <1>1, SumsBetween
<1>3. a[0] = 0 /\ \A i \in 0..n : a[i] \in Int
  BY <1>1 DEF PartialSums
<1>4. Capacity \in Nat \ {0}
  BY CapacityAssumption
<1>5. ASSUME NEW i \in 1..n, i < Capacity
      PROVE  s[i] <= hi /\ lo <= s[i] + (i - 1)
  <2>1. i * s[i] <= a[i] /\ a[i] <= i * s[i] + i * (i - 1)
    BY <1>1, <1>5, AveragesFill
  <2>2. i * lo <= a[i] /\ a[i] <= i * hi
    <3>1. i \in 0..n /\ 0 \in 0..(n - i) /\ 0 + i = i
      OBVIOUS
    <3>2. i * lo <= a[0 + i] - a[0] /\ a[0 + i] - a[0] <= i * hi
      BY <1>2, <3>1
    <3>3. a[i] \in Int /\ a[0 + i] - a[0] = a[i]
      BY <1>3, <3>1
    <3> QED BY <3>2, <3>3
  <2> DEFINE x == s[i]
             v == a[i]
  <2>3. x \in Int /\ v \in Int /\ i \in Nat \ {0}
    BY <1>3
  <2>4. i * x <= v /\ v <= i * x + i * (i - 1) /\ i * lo <= v /\ v <= i * hi
    BY <2>1, <2>2
  <2> HIDE DEF x, v
  <2>5. x * i <= hi * i
    <3>1. i * x \in Int /\ i * hi \in Int /\ i * x = x * i /\ i * hi = hi * i
      BY <2>3
    <3> QED BY <2>3, <2>4, <3>1
  <2>6. lo * i <= (x + (i - 1)) * i
    <3>1. (x + (i - 1)) * i = i * x + i * (i - 1) /\ lo * i = i * lo
      BY <2>3
    <3>2. i * x \in Int /\ i * lo \in Int /\ i * (i - 1) \in Int
      BY <2>3
    <3> QED BY <2>3, <2>4, <3>1, <3>2
  <2>7. x <= hi
    BY <2>3, <2>5, Cancel
  <2>8. lo <= x + (i - 1)
    <3>1. x + (i - 1) \in Int
      BY <2>3
    <3> QED BY <2>3, <2>6, <3>1, Cancel
  <2> QED BY <2>7, <2>8 DEF x
<1>6. CASE n < Capacity
  <2>1. n \in 1..n
    OBVIOUS
  <2> QED BY <1>5, <1>6, <2>1
<1>7. CASE Capacity = 1
  <2>1. CASE n = 1
    <3>1. s[1] = p[1]
      BY <2>1 DEF Averages
    <3> QED BY <2>1, <3>1
  <2>2. CASE n # 1
    <3> DEFINE T == {k \in 0..(n - 1) : s[k + 1] = p[k + 1]}
    <3>1. 0 \in T
      BY DEF Averages
    <3>2. ASSUME NEW k \in 0..(n - 1), k < n - 1, k \in T PROVE k + 1 \in T
      <4> DEFINE m == k + 2
                 x == s[k + 1]
      <4>1. m \in 1..n /\ m - 1 = k + 1 /\ m # 1 /\ ~(m < Capacity) /\ k + 1 \in 1..n
            /\ k + 1 \in 0..(n - 1) /\ (k + 1) + 1 = m
        BY <1>7, <3>2
      <4>2. Leaves(m) = k + 1
        BY <1>7, <4>1 DEF Leaves
      <4>3. s[m] = (s[m - 1] * Capacity + p[m] - p[Leaves(m)]) \div Capacity
        BY <4>1 DEF Averages
      <4>4. s[m] = (x * 1 + p[m] - p[k + 1]) \div 1
        BY <1>7, <4>1, <4>2, <4>3
      <4>5. x = p[k + 1] /\ x \in Int /\ p[m] \in Int
        BY <3>2, <4>1
      <4> HIDE DEF m, x
      <4>6. s[m] = p[m]
        BY <4>4, <4>5
      <4> QED BY <4>1, <4>6
    <3> HIDE DEF T
    <3>3. \A k \in 0..(n - 1) : k \in T
      <4>1. n - 1 \in Nat
        OBVIOUS
      <4> QED BY <3>1, <3>2, <4>1, RangeInduction
    <3>4. n - 1 \in T /\ (n - 1) + 1 = n
      BY <3>3
    <3>5. s[n] = p[n] /\ n \in 1..n
      BY <3>4 DEF T
    <3> QED BY <3>5
  <2> QED BY <2>1, <2>2
<1>8. CASE Capacity # 1 /\ ~(n < Capacity)
  <2> DEFINE c == Capacity - 1
  <2>1. c \in Nat /\ c >= 1 /\ Capacity = c + 1 /\ c < n /\ c \in 1..n /\ c < Capacity /\ n \in c..n
        /\ n - c \in 0..(n - c) /\ c \in 0..n /\ (n - c) + c = n
    BY <1>4, <1>8
  <2> HIDE DEF c
  <2> DEFINE x == s[n]
             w == s[c]
             v == a[n] - a[n - c]
  <2>2. (c + 1) * x <= v + w /\ v + w <= (c + 1) * x + (c + 1) * (n - 1)
    <3>1. \A i \in c..n : /\ (c + 1) * s[i] <= (a[i] - a[i - c]) + s[c]
                          /\ (a[i] - a[i - c]) + s[c] <= (c + 1) * s[i] + (c + 1) * (i - 1)
      <4>1. \A i \in 1..n : p[i] \in Int /\ s[i] \in Int
        OBVIOUS
      <4>2. c \in Nat /\ c >= 1 /\ Capacity = c + 1 /\ c <= n
        BY <2>1
      <4> QED BY <1>1, <4>1, <4>2, AveragesRound
    <3> QED BY <2>1, <3>1
  <2>3. c * lo <= v /\ v <= c * hi
    <3>1. c * lo <= a[(n - c) + c] - a[n - c] /\ a[(n - c) + c] - a[n - c] <= c * hi
      BY <1>2, <2>1
    <3> QED BY <2>1, <3>1
  <2>4. w <= hi /\ lo <= w + (c - 1)
    BY <1>5, <2>1
  <2>5. x \in Int /\ w \in Int /\ v \in Int
    <3>1. n \in 1..n /\ n \in 0..n /\ n - c \in 0..n
      BY <2>1
    <3> QED BY <1>3, <2>1, <3>1
  <2> HIDE DEF x, w, v
  <2>6. x * (c + 1) <= hi * (c + 1)
    <3>1. (c + 1) * x = x * (c + 1) /\ hi * (c + 1) = c * hi + hi /\ c * hi \in Int /\ x * (c + 1) \in Int
      BY <2>1, <2>5
    <3> QED BY <2>2, <2>3, <2>4, <2>5, <3>1
  <2>7. (lo - 1) * (c + 1) < (x + (n - 1)) * (c + 1)
    <3>1. /\ (x + (n - 1)) * (c + 1) = (c + 1) * x + (c + 1) * (n - 1)
          /\ (lo - 1) * (c + 1) = c * lo + lo - c - 1
          /\ c * lo \in Int /\ (c + 1) * x \in Int /\ (c + 1) * (n - 1) \in Int
      BY <2>1, <2>5
    <3> DEFINE cl == c * lo
               cx == (c + 1) * x
               cn == (c + 1) * (n - 1)
    <3>2. v + w <= cx + cn /\ cl <= v /\ lo <= w + (c - 1) /\ cl \in Int /\ cx \in Int /\ cn \in Int
      BY <2>2, <2>3, <2>4, <3>1
    <3> HIDE DEF cl, cx, cn
    <3>3. cl + lo - c - 1 < cx + cn
      BY <2>1, <2>5, <3>2
    <3> QED BY <3>1, <3>3 DEF cl, cx, cn
  <2>8. x <= hi
    <3>1. c + 1 \in Nat \ {0}
      BY <2>1
    <3> QED BY <2>5, <2>6, <3>1, Cancel
  <2>9. lo - 1 < x + (n - 1)
    <3>1. lo - 1 \in Int /\ x + (n - 1) \in Int /\ c + 1 \in Nat \ {0}
      BY <2>1, <2>5
    <3> QED BY <2>7, <3>1, CancelLess
  <2>10. lo <= x + (n - 1)
    BY <2>5, <2>9
  <2> QED BY <2>8, <2>10 DEF x
<1> QED BY <1>6, <1>7, <1>8
-----------------------------------------------------------------------------
(* The averages of the log. *)
PricesOf(l) == [i \in 1..Len(l) |-> l[i].price]
SmasOf(l) == [i \in 1..Len(l) |-> l[i].sma]

AverageInv == Averages(Len(log), PricesOf(log), SmasOf(log))

LEMMA NextSmaIs ==
  ASSUME ObservedInv, NEW price, NEW m, m = Len(log) + 1
  PROVE  NextSma(price) =
           IF m = 1 THEN price
           ELSE IF m < Capacity THEN (log[m - 1].sma * (m - 1) + price) \div m
           ELSE (log[m - 1].sma * Capacity + price - log[Leaves(m)].price) \div Capacity
<1> DEFINE n == Len(log)
           c == Capacity
<1>1. /\ RingInv /\ c \in Nat \ {0} /\ n \in Nat /\ head = n % c /\ head \in 0..(c - 1)
      /\ \A j \in 1..n : log[j] # NoValue
  BY RingFacts DEF ObservedInv, RingInv
<1>2. ReadLast = IF n = 0 THEN NoValue ELSE log[n]
  BY <1>1, ReadLastIs
<1>3. \A j \in 1..n : j + c > n => array[(j - 1) % c] = log[j]
  BY <1>1 DEF RingInv, ReadSingle
<1>4. \A i \in 0..(c - 1) : i >= n => array[i] = NoValue
  BY <1>1 DEF RingInv
<1> HIDE DEF n, c
<1>5. m = n + 1 /\ m - 1 = n /\ m \in Int
  BY <1>1 DEF n
<1>6. ReadSingle(head + 1) = array[m % c]
  <2>1. n \in Int /\ 1 \in Int
    BY <1>1
  <2>2. RemainderFirst(c, n, 1)
    BY <1>1, <2>1, ModAdd
  <2>3. (head + 1) % c = m % c
    BY <1>1, <1>5, <2>2 DEF RemainderFirst
  <2> QED BY <2>3 DEF ReadSingle, c
<1>7. CASE n = 0
  BY <1>2, <1>5, <1>7 DEF NextSma
<1>8. CASE n # 0 /\ m < c
  <2>1. m \in 0..(c - 1) /\ n \in 0..(c - 1) /\ m >= n /\ n \in 1..n
    BY <1>1, <1>5, <1>8
  <2>2. m % c = m /\ head = n
    BY <1>1, <2>1, ModSmall
  <2>3. ~Exists(head + 1)
    BY <1>4, <1>6, <2>1, <2>2 DEF Exists
  <2>4. ReadLast = log[n] /\ ReadLast # NoValue
    BY <1>1, <1>2, <1>8, <2>1
  <2>5. NextSma(price) = (log[n].sma * n + price) \div (n + 1)
    BY <2>2, <2>3, <2>4 DEF NextSma, SmaBufferNotFull
  <2> QED BY <1>5, <1>8, <2>5 DEF c
<1>9. CASE n # 0 /\ ~(m < c)
  <2> DEFINE j == Leaves(m)
             i == j - 1
  <2>1. j \in 1..n /\ j + c > n /\ i \in Int
    BY <1>1, <1>5, <1>9 DEF Leaves, c
  <2>2. i % c = m % c
    <3>1. CASE c = 1
      <4>1. i % c \in 0..(c - 1) /\ m % c \in 0..(c - 1)
        BY <1>1, <1>5, <2>1, ModBounds
      <4> QED BY <3>1, <4>1
    <3>2. CASE c # 1
      <4>1. m = i + c
        BY <1>1, <1>5, <3>2 DEF Leaves, c
      <4> HIDE DEF i
      <4> QED BY <1>1, <1>5, <2>1, <4>1, ModRound
    <3> QED BY <3>1, <3>2
  <2>3. array[i % c] = log[j] /\ log[j] # NoValue
    BY <1>1, <1>3, <2>1
  <2> HIDE DEF i, j
  <2>4. Exists(head + 1) /\ ReadSingle(head + 1) = log[j]
    BY <1>6, <2>2, <2>3 DEF Exists
  <2>5. ReadLast = log[n] /\ ReadLast # NoValue
    <3>1. n \in 1..n
      BY <1>1, <1>9
    <3> QED BY <1>1, <1>2, <1>9, <3>1
  <2>6. NextSma(price) = (log[n].sma * c + price - log[j].price) \div c
    BY <2>4, <2>5 DEF NextSma, SmaCalculation, c
  <2> QED BY <1>5, <1>9, <2>6 DEF c, j
<1> QED BY <1>7, <1>8, <1>9

LEMMA ObservingKeepsAverages ==
  ASSUME ObservedInv, AverageInv, Observing
  PROVE  AverageInv'
<1> DEFINE n == Len(log)
           m == n + 1
<1>1. /\ log \in Seq(Entry) /\ n \in Nat /\ Capacity \in Nat \ {0}
  BY RingFacts DEF ObservedInv, RingInv
<1>2. CASE UNCHANGED <<head, array, log>>
  BY <1>2 DEF AverageInv, Averages, Leaves, PricesOf, SmasOf
<1>3. CASE ~(UNCHANGED <<head, array, log>>)
  <2>1. PICK price, sma \in Nat :
          LET e == Observation(precommit.ts, price, sma)
          IN  e \in Entry /\ log' = Append(log, e) /\ sma = NextSma(price)
    BY <1>3, CommitIs DEF Observing
  <2> DEFINE e == Observation(precommit.ts, price, sma)
             p == PricesOf(log)
             s == SmasOf(log)
             p1 == PricesOf(log')
             s1 == SmasOf(log')
  <2>2. Len(log') = m /\ (\A i \in 1..n : log'[i] = log[i]) /\ log'[m] = e
    <3>1. e \in Entry /\ log' = Append(log, e)
      BY <2>1
    <3> HIDE DEF e
    <3> QED BY <1>1, <3>1, AppendProperties
  <2>3. \A i \in 1..n : p[i] = log[i].price /\ s[i] = log[i].sma
    BY DEF PricesOf, SmasOf
  <2>4. \A i \in 1..m : p1[i] = log'[i].price /\ s1[i] = log'[i].sma
    BY <2>2 DEF PricesOf, SmasOf
  <2>5. e.price = price /\ e.sma = sma
    BY DEF Observation
  <2>6. NextSma(price) =
           IF m = 1 THEN price
           ELSE IF m < Capacity THEN (log[m - 1].sma * (m - 1) + price) \div m
           ELSE (log[m - 1].sma * Capacity + price - log[Leaves(m)].price) \div Capacity
    BY NextSmaIs
  <2>7. Averages(n, p, s)
    BY DEF AverageInv
  <2> HIDE DEF n, e, p, s, p1, s1
  <2>8. \A i \in 1..n : p1[i] = p[i] /\ s1[i] = s[i]
    BY <1>1, <2>2, <2>3, <2>4
  <2>9. p1[m] = price /\ s1[m] = sma /\ sma = NextSma(price)
    BY <1>1, <2>1, <2>2, <2>4, <2>5
  <2>10. ASSUME NEW i \in 1..m
         PROVE  s1[i] = IF i = 1 THEN p1[1]
                        ELSE IF i < Capacity THEN (s1[i - 1] * (i - 1) + p1[i]) \div i
                        ELSE (s1[i - 1] * Capacity + p1[i] - p1[Leaves(i)]) \div Capacity
    <3>1. i \in 2..m => i - 1 \in 1..n
      BY <1>1
    <3>2. i \in 2..m /\ ~(i < Capacity) => Leaves(i) \in 1..n
      BY <1>1 DEF Leaves
    <3>3. CASE i \in 1..n
      <4>1. s[i] = IF i = 1 THEN p[1]
                   ELSE IF i < Capacity THEN (s[i - 1] * (i - 1) + p[i]) \div i
                   ELSE (s[i - 1] * Capacity + p[i] - p[Leaves(i)]) \div Capacity
        BY <2>7, <3>3 DEF Averages
      <4>2. s1[i] = s[i] /\ p1[i] = p[i]
        BY <2>8, <3>3
      <4>3. i # 1 => s1[i - 1] = s[i - 1]
        BY <1>1, <2>8, <3>1
      <4>4. i # 1 /\ ~(i < Capacity) => p1[Leaves(i)] = p[Leaves(i)]
        BY <1>1, <2>8, <3>2
      <4> QED BY <4>1, <4>2, <4>3, <4>4
    <3>4. CASE i \notin 1..n
      <4>1. i = m
        BY <1>1, <3>4
      <4>2. i # 1 => s1[i - 1] = log[m - 1].sma
        BY <1>1, <2>3, <2>8, <3>1, <4>1
      <4>3. i # 1 /\ ~(i < Capacity) => p1[Leaves(i)] = log[Leaves(m)].price
        BY <1>1, <2>3, <2>8, <3>2, <4>1
      <4> QED BY <2>6, <2>9, <4>1, <4>2, <4>3
    <3> QED BY <3>3, <3>4
  <2>11. Averages(m, p1, s1)
    BY <2>10 DEF Averages
  <2> QED BY <2>2, <2>11 DEF AverageInv, p1, s1
<1> QED BY <1>2, <1>3

LEMMA AverageStep == ObservedInv /\ AverageInv /\ [Next]_vars => AverageInv'
<1> SUFFICES ASSUME ObservedInv, AverageInv, [Next]_vars PROVE AverageInv'
  OBVIOUS
<1>1. CASE UNCHANGED observationVars
  BY <1>1 DEF observationVars, AverageInv, Averages, Leaves, PricesOf, SmasOf
<1> QED BY <1>1, StepObserves, ObservingKeepsAverages

LEMMA AverageInit == Init => AverageInv
<1> SUFFICES ASSUME Init PROVE AverageInv
  OBVIOUS
<1>1. Len(log) = 0
  BY DEF Init, ObservationsInit
<1> QED BY <1>1 DEF AverageInv, Averages

LEMMA AveragesWithin == ObservedInv /\ AverageInv => AverageWithinObserved
<1> SUFFICES ASSUME ObservedInv, AverageInv, NEW i \in 1..Len(log)
             PROVE  LET seen == {log[j].price : j \in 1..i}
                    IN  log[i].sma + i > Min(seen) /\ log[i].sma <= Max(seen)
  BY DEF AverageWithinObserved
<1> DEFINE seen == {log[j].price : j \in 1..i}
           lo == Min(seen)
           hi == Max(seen)
           p == PricesOf(log)
           s == SmasOf(log)
<1>1. /\ Len(log) \in Nat /\ \A j \in 1..Len(log) : log[j] \in Entry
  BY RingFacts DEF ObservedInv
<1>2. \A j \in 1..i : /\ p[j] = log[j].price /\ s[j] = log[j].sma
                      /\ p[j] \in Nat /\ s[j] \in Nat
  BY <1>1 DEF PricesOf, SmasOf, Entry
<1>3. Averages(i, p, s)
  <2>1. \A j \in 1..i : j \in 1..Len(log)
    BY <1>1
  <2> HIDE DEF p, s
  <2> QED BY <2>1 DEF AverageInv, Averages, p, s
<1> HIDE DEF p, s
<1>4. lo \in seen /\ \A x \in seen : lo <= x
  <2>1. seen \in SUBSET Nat /\ seen # {}
    BY <1>2
  <2> QED BY <2>1, MinOfNats
<1>5. hi \in seen /\ \A x \in seen : x <= hi
  <2> DEFINE SomeAbove(k) == \E b \in Nat : \A j \in 1..k : p[j] <= b
             T == {k \in 0..i : SomeAbove(k)}
  <2>1. 0 \in T
    OBVIOUS
  <2>2. ASSUME NEW k \in 0..i, k < i, k \in T PROVE k + 1 \in T
    <3>1. PICK b \in Nat : \A j \in 1..k : p[j] <= b
      BY <2>2
    <3>2. k + 1 \in 1..i /\ k + 1 \in 0..i /\ p[k + 1] \in Nat
      BY <1>2, <2>2
    <3>3. b + p[k + 1] \in Nat
      BY <3>2
    <3>4. ASSUME NEW j \in 1..(k + 1) PROVE p[j] <= b + p[k + 1]
      <4>1. CASE j = k + 1
        BY <3>2, <4>1
      <4>2. CASE j # k + 1
        <5>1. j \in 1..k /\ j \in 1..i
          BY <2>2, <4>2
        <5>2. p[j] <= b /\ p[j] \in Nat
          BY <1>2, <3>1, <5>1
        <5> QED BY <3>2, <5>2
      <4> QED BY <4>1, <4>2
    <3>5. SomeAbove(k + 1)
      BY <3>3, <3>4
    <3> HIDE DEF SomeAbove
    <3> QED BY <3>2, <3>5
  <2> HIDE DEF T
  <2>3. i \in T
    <3>1. \A k \in 0..i : k \in T
      BY <2>1, <2>2, RangeInduction
    <3> QED BY <3>1
  <2>4. PICK b \in Nat : \A j \in 1..i : p[j] <= b
    BY <2>3 DEF T
  <2>5. seen \in SUBSET (0..b) /\ seen # {}
    <3>1. \A j \in 1..i : log[j].price \in 0..b
      BY <1>2, <2>4
    <3> QED BY <3>1
  <2> QED BY <2>5, MaxOfBounded
<1>6. lo \in Int /\ hi \in Int /\ \A j \in 1..i : lo <= p[j] /\ p[j] <= hi
  <2>1. \A j \in 1..i : p[j] \in seen
    BY <1>2
  <2>2. \A x \in seen : x \in Int
    BY <1>2
  <2> HIDE DEF seen, lo, hi
  <2> QED BY <1>4, <1>5, <2>1, <2>2
<1> HIDE DEF seen, lo, hi
<1>7. s[i] <= hi /\ lo <= s[i] + (i - 1)
  <2>1. i \in Nat \ {0} /\ \A j \in 1..i : p[j] \in Int /\ s[j] \in Int /\ lo <= p[j] /\ p[j] <= hi
    BY <1>2, <1>6
  <2> QED BY <1>3, <1>6, <2>1, AverageBounded
<1>8. s[i] = log[i].sma /\ s[i] \in Nat
  BY <1>2
<1>9. log[i].sma + i > lo /\ log[i].sma <= hi
  BY <1>6, <1>7, <1>8
<1> QED BY <1>9 DEF seen, lo, hi

(* An average that accumulate_swap_sizes commits lies between the smallest *)
(* and the greatest of the prices observed so far, although it is computed *)
(* from the average before it: what rounding down loses is less than one   *)
(* atomic for each observation.                                            *)
THEOREM AveragesAlwaysWithinObserved == Spec => []AverageWithinObserved
BY AveragesWithin, AmpInit, AmpStep, ObservedInit, ObservedStep, AverageInit, AverageStep, PTL DEF Spec
-----------------------------------------------------------------------------
(***************************************************************************)
(* The concentrated pair.  What it shares with the stable pair, the shares *)
(* and the observations among it, has the same variables here and there.   *)
(***************************************************************************)
CONSTANTS FeeTol, HalfPowTol, MaxIter, LpUnit, OfferPercent, MaxChange, AmpLimits, GammaLimits,
          ParamLimits, InitialParams, InitialAmpGamma, InitialScale, TrackBalances, NewParams,
          NextAmpGammas, MaxSettings, Rounding, Sizes
VARIABLES params, state, price, balances, settings, traded, valuedWith

Pcl == INSTANCE ConcentratedPair
-----------------------------------------------------------------------------
(* The loops of the concentrated pair: a bisection stays a whole number,   *)
(* whatever it looks for.                                                  *)
Bisect(s, holds, range) ==
  LET mid == (range[1] + range[2]) \div 2
  IN  IF range[2] - range[1] <= 1 THEN range[2]
      ELSE IF holds[mid] THEN s[<<range[1], mid>>] ELSE s[<<mid, range[2]>>]

LEMMA BisectHalves ==
  ASSUME NEW low \in Int, NEW high \in Int, NEW r \in (low..high) \X (low..high),
         r[2] - r[1] > 1, NEW mid, mid = (r[1] + r[2]) \div 2
  PROVE  /\ mid \in low..high /\ r[1] < mid /\ mid < r[2]
         /\ <<r[1], mid>> \in (low..high) \X (low..high) /\ mid - r[1] < r[2] - r[1]
         /\ <<mid, r[2]>> \in (low..high) \X (low..high) /\ r[2] - mid < r[2] - r[1]
<1>1. r[1] \in low..high /\ r[2] \in low..high /\ r[1] \in Int /\ r[2] \in Int
  OBVIOUS
<1>2. mid \in Int /\ r[1] < mid /\ mid < r[2]
  BY <1>1
<1> QED BY <1>1, <1>2

LEMMA BisectionExists ==
  ASSUME NEW low \in Int, NEW high \in Int, NEW holds
  PROVE  \E s : s = [r \in (low..high) \X (low..high) |-> Bisect(s, holds, r)]
<1> DEFINE D == (low..high) \X (low..high)
           w == IF low <= high THEN high - low ELSE 0
           T == {m \in 0..w : \E s :
                   s = [r \in D |-> IF r[2] - r[1] <= m THEN Bisect(s, holds, r) ELSE 0]}
<1>1. \A r \in D : r[1] \in Int /\ r[2] \in Int /\ r[2] - r[1] <= w
  OBVIOUS
<1>2. w \in Nat
  OBVIOUS
<1>3. ASSUME NEW r \in D, r[2] - r[1] <= 1, NEW s
      PROVE  Bisect(s, holds, r) = r[2]
  BY <1>3 DEF Bisect
<1>4. ASSUME NEW r \in D, NEW s, NEW t, \A x \in D : x[2] - x[1] < r[2] - r[1] => s[x] = t[x]
      PROVE  Bisect(s, holds, r) = Bisect(t, holds, r)
  <2> DEFINE mid == (r[1] + r[2]) \div 2
  <2>1. CASE r[2] - r[1] <= 1
    BY <2>1, <1>3
  <2>2. CASE r[2] - r[1] > 1
    <3>1. /\ <<r[1], mid>> \in D /\ mid - r[1] < r[2] - r[1]
          /\ <<mid, r[2]>> \in D /\ r[2] - mid < r[2] - r[1]
      BY <2>2, BisectHalves
    <3> HIDE DEF mid, D
    <3>2. s[<<r[1], mid>>] = t[<<r[1], mid>>] /\ s[<<mid, r[2]>>] = t[<<mid, r[2]>>]
      BY <1>4, <3>1
    <3> QED BY <3>2 DEF Bisect, mid
  <2> QED BY <1>1, <2>1, <2>2
<1> HIDE DEF D, w
<1>6. 0 \in T
  <2> DEFINE s == [r \in D |-> IF r[2] - r[1] <= 0 THEN r[2] ELSE 0]
  <2>2. \A r \in D : r[2] - r[1] <= 0 => Bisect(s, holds, r) = r[2]
    BY <1>1, <1>3
  <2>3. s = [r \in D |-> IF r[2] - r[1] <= 0 THEN Bisect(s, holds, r) ELSE 0]
    BY <2>2
  <2> HIDE DEF s
  <2> QED BY <1>2, <2>3
<1>7. \A m \in 0..w : m < w /\ m \in T => m + 1 \in T
  <2> SUFFICES ASSUME NEW m \in 0..w, m < w, m \in T PROVE m + 1 \in T
    OBVIOUS
  <2>1. PICK s : s = [r \in D |-> IF r[2] - r[1] <= m THEN Bisect(s, holds, r) ELSE 0]
    OBVIOUS
  <2> DEFINE t == [r \in D |-> IF r[2] - r[1] <= m + 1 THEN Bisect(s, holds, r) ELSE 0]
  <2>2. m \in Int /\ m + 1 \in 0..w
    BY <1>2
  <2>4. ASSUME NEW r \in D, r[2] - r[1] <= m + 1
        PROVE  Bisect(t, holds, r) = Bisect(s, holds, r)
    <3>1. ASSUME NEW x \in D, x[2] - x[1] < r[2] - r[1] PROVE t[x] = s[x]
      <4>1. x[2] - x[1] <= m /\ x[2] - x[1] <= m + 1
        BY <1>1, <2>2, <2>4, <3>1
      <4>2. s[x] = Bisect(s, holds, x)
        BY <2>1, <4>1
      <4> QED BY <4>1, <4>2
    <3> HIDE DEF t
    <3> QED BY <3>1, <1>4
  <2>5. t = [r \in D |-> IF r[2] - r[1] <= m + 1 THEN Bisect(t, holds, r) ELSE 0]
    BY <2>4
  <2> HIDE DEF t
  <2> QED BY <2>2, <2>5
<1> HIDE DEF T
<1>8. w \in T
  <2>1. \A m \in 0..w : m \in T
    BY <1>2, <1>6, <1>7, RangeInduction
  <2> QED BY <1>2, <2>1
<1>9. PICK s : s = [r \in D |-> IF r[2] - r[1] <= w THEN Bisect(s, holds, r) ELSE 0]
  BY <1>8 DEF T
<1>10. s = [r \in D |-> Bisect(s, holds, r)]
  BY <1>1, <1>9
<1> QED BY <1>10 DEF D

LEMMA LeastThatWithin ==
  ASSUME NEW low \in Int, NEW high \in Int, NEW holds
  PROVE  Pcl!LeastThat(holds, low, high) \in IF low < high THEN (low + 1)..high ELSE {high}
<1> DEFINE D == (low..high) \X (low..high)
           Search(t) == t = [r \in D |-> Bisect(t, holds, r)]
           s == CHOOSE t : Search(t)
           Within(r, v) == v \in Int /\ (r[1] < r[2] => r[1] < v /\ v <= r[2])
<1>1. CASE low < high
  <2>1. Pcl!LeastThat(holds, low, high) = s[<<low, high>>]
    BY <1>1 DEF Pcl!LeastThat, Bisect
  <2>2. Search(s)
    BY BisectionExists
  <2> HIDE DEF s
  <2> DEFINE w == high - low
             T == {m \in 0..w : \A r \in D : r[2] - r[1] <= m => Within(r, s[r])}
  <2>3. \A r \in D : s[r] = Bisect(s, holds, r)
    BY <2>2
  <2>4. \A r \in D : r[1] \in Int /\ r[2] \in Int /\ r[2] - r[1] <= w
    OBVIOUS
  <2>5. w \in Nat
    BY <1>1
  <2>6. \A r \in D : r[2] - r[1] <= 1 => Within(r, s[r])
    <3>1. \A r \in D : r[2] - r[1] <= 1 => s[r] = r[2]
      BY <2>3, <2>4 DEF Bisect
    <3> HIDE DEF D
    <3> QED BY <2>4, <3>1
  <2>7. 0 \in T
    BY <2>4, <2>5, <2>6
  <2>8. \A m \in 0..w : m < w /\ m \in T => m + 1 \in T
    <3> SUFFICES ASSUME NEW m \in 0..w, m < w, m \in T, NEW r \in D, r[2] - r[1] <= m + 1, r[2] - r[1] > 1
                 PROVE  Within(r, s[r])
      BY <2>4, <2>5, <2>6
    <3> DEFINE mid == (r[1] + r[2]) \div 2
    <3>1. /\ <<r[1], mid>> \in D /\ mid - r[1] < r[2] - r[1]
          /\ <<mid, r[2]>> \in D /\ r[2] - mid < r[2] - r[1] /\ mid \in Int
          /\ r[1] < mid /\ mid < r[2]
      BY BisectHalves
    <3> HIDE DEF mid, D
    <3>2. m \in Int /\ r[1] \in Int /\ r[2] \in Int
      BY <2>4, <2>5
    <3>3. mid - r[1] <= m /\ r[2] - mid <= m
      BY <3>1, <3>2
    <3>4. Within(<<r[1], mid>>, s[<<r[1], mid>>]) /\ Within(<<mid, r[2]>>, s[<<mid, r[2]>>])
      BY <3>1, <3>3
    <3>5. s[r] \in {s[<<r[1], mid>>], s[<<mid, r[2]>>]}
      BY <2>3, <3>2 DEF Bisect, mid
    <3> QED BY <3>1, <3>2, <3>4, <3>5
  <2> HIDE DEF T
  <2>9. w \in T
    <3>1. \A m \in 0..w : m \in T
      BY <2>5, <2>7, <2>8, RangeInduction
    <3> QED BY <2>5, <3>1
  <2>10. <<low, high>> \in D /\ <<low, high>>[2] - <<low, high>>[1] <= w
    BY <1>1
  <2>11. Within(<<low, high>>, s[<<low, high>>])
    BY <2>5, <2>9, <2>10 DEF T
  <2> QED BY <1>1, <2>1, <2>11
<1>2. CASE ~(low < high)
  BY <1>2 DEF Pcl!LeastThat
<1> QED BY <1>1, <1>2

(* A loop of rounds is what the last round makes of the one before. *)
Loop(r, n, first, step) == r = [i \in 0..n |-> IF i = 0 THEN first ELSE step[i][r[i - 1]]]

LEMMA RoundsExist ==
  ASSUME NEW n \in Nat, NEW first, NEW step
  PROVE  \E r : Loop(r, n, first, step)
<1> DEFINE Upto(m, r) == r = [i \in 0..n |-> IF i = 0 \/ i > m THEN first ELSE step[i][r[i - 1]]]
           T == {m \in 0..n : \E r : Upto(m, r)}
<1>1. 0 \in T
  <2>1. Upto(0, [i \in 0..n |-> first])
    OBVIOUS
  <2> QED BY <2>1
<1>2. \A m \in 0..n : m < n /\ m \in T => m + 1 \in T
  <2> SUFFICES ASSUME NEW m \in 0..n, m < n, m \in T PROVE m + 1 \in T
    OBVIOUS
  <2>1. PICK r : Upto(m, r)
    OBVIOUS
  <2> DEFINE s == [i \in 0..n |-> IF i = m + 1 THEN step[i][r[m]] ELSE r[i]]
  <2>2. m \in 0..n /\ m + 1 \in 0..n /\ s[m] = r[m] /\ m + 1 # 0
    OBVIOUS
  <2>3. \A i \in 0..n : i > m + 1 \/ i = 0 => s[i] = first
    BY <2>1
  <2>4. \A i \in 1..m : /\ s[i] = r[i] /\ s[i - 1] = r[i - 1] /\ r[i] = step[i][r[i - 1]]
                        /\ ~(i = 0 \/ i > m + 1)
    BY <2>1
  <2>5. \A i \in 0..n : s[i] = IF i = 0 \/ i > m + 1 THEN first ELSE step[i][s[i - 1]]
    <3> TAKE i \in 0..n
    <3>1. i = 0 \/ i > m + 1 \/ i \in 1..m \/ i = m + 1
      OBVIOUS
    <3>2. CASE i = 0 \/ i > m + 1
      BY <3>2, <2>3
    <3>3. CASE i \in 1..m
      <4> HIDE DEF s
      <4> QED BY <3>3, <2>4
    <3>4. CASE i = m + 1
      BY <3>4, <2>2
    <3> QED BY <3>1, <3>2, <3>3, <3>4
  <2>6. Upto(m + 1, s)
    <3>1. s = [i \in 0..n |-> s[i]]
      OBVIOUS
    <3> HIDE DEF s
    <3> QED BY <2>5, <3>1
  <2> QED BY <2>2, <2>6
<1> HIDE DEF T
<1>3. n \in T
  BY <1>1, <1>2, RangeInduction
<1>4. PICK r : Upto(n, r)
  BY <1>3 DEF T
<1>5. \A i \in 0..n : ~(i > n)
  OBVIOUS
<1>6. Loop(r, n, first, step)
  BY <1>4, <1>5 DEF Loop
<1> QED BY <1>6

LEMMA RoundsAre ==
  ASSUME NEW n \in Nat, NEW first, NEW step
  PROVE  /\ Pcl!Rounds(n, first, step)[0] = first
         /\ \A i \in 1..n : Pcl!Rounds(n, first, step)[i] = step[i][Pcl!Rounds(n, first, step)[i - 1]]
<1> DEFINE r == CHOOSE r : Loop(r, n, first, step)
<1>1. Pcl!Rounds(n, first, step) = r
  BY DEF Pcl!Rounds, Loop
<1>2. Loop(r, n, first, step)
  BY RoundsExist
<1> HIDE DEF r
<1>3. r = [i \in 0..n |-> IF i = 0 THEN first ELSE step[i][r[i - 1]]]
  BY <1>2 DEF Loop
<1>4. r[0] = first
  <2>1. 0 \in 0..n
    OBVIOUS
  <2> QED BY <1>3, <2>1, Zenon
<1>5. ASSUME NEW i \in 1..n PROVE r[i] = step[i][r[i - 1]]
  <2>1. i \in 0..n /\ i # 0
    OBVIOUS
  <2> QED BY <1>3, <2>1, Zenon
<1> QED BY <1>1, <1>4, <1>5, Zenon

(* A half to the power of a time is between 0 and 1: each term of the      *)
(* series is at most half of the one before, so that their sum is no less  *)
(* than the last of them.                                                  *)
Halving == [i \in Nat |-> [x \in Nat |-> x \div 2]]

LEMMA HalvesBetween ==
  ASSUME NEW n \in Nat
  PROVE  Pcl!Rounds(n, Scale, Halving)[n] \in 0..Scale
<1> DEFINE r == Pcl!Rounds(n, Scale, Halving)
           T == {m \in 0..n : r[m] \in 0..Scale}
<1>1. r[0] = Scale /\ \A i \in 1..n : r[i] = Halving[i][r[i - 1]]
  BY RoundsAre
<1> HIDE DEF r
<1>2. 0 \in T
  BY <1>1, ScaleAssumption
<1>3. \A m \in 0..n : m < n /\ m \in T => m + 1 \in T
  <2> SUFFICES ASSUME NEW m \in 0..n, m < n, m \in T PROVE m + 1 \in T
    OBVIOUS
  <2>1. m + 1 \in 1..n /\ (m + 1) - 1 = m /\ m + 1 \in Nat /\ r[m] \in Nat /\ r[m] <= Scale
    BY ScaleAssumption
  <2>2. r[m + 1] = r[m] \div 2
    BY <1>1, <2>1 DEF Halving
  <2> QED BY <2>1, <2>2, ScaleAssumption
<1> HIDE DEF T
<1>4. n \in T
  BY <1>2, <1>3, RangeInduction
<1> QED BY <1>4 DEF T, r

Series(fraction) ==
  [i \in Nat |-> [x \in [term : Nat, sum : Int] |->
     LET next == (Pcl!Times(x.term, Pcl!Apart(fraction, (i - 1) * Scale)) \div 2) \div i
     IN  IF i > 1 /\ x.term < HalfPowTol THEN x ELSE [term |-> next, sum |-> x.sum - next]]]

First == [term |-> Scale, sum |-> Scale]

LEMMA TermHalves ==
  ASSUME NEW fraction \in 0..Scale, NEW i \in Nat \ {0}, NEW t \in Nat,
         NEW next, next = (Pcl!Times(t, Pcl!Apart(fraction, (i - 1) * Scale)) \div 2) \div i
  PROVE  next \in Nat /\ 2 * next <= t
<1> DEFINE a == Pcl!Apart(fraction, (i - 1) * Scale)
           b == Pcl!Times(t, a)
<1>1. (i - 1) * Scale \in Nat /\ i * Scale = (i - 1) * Scale + Scale
  BY ScaleAssumption
<1>2. a \in Nat /\ a <= i * Scale
  BY <1>1, ScaleAssumption DEF Pcl!Apart
<1> HIDE DEF a
<1>3. t * a \in Nat /\ t * a <= (t * i) * Scale /\ t * i \in Nat
  <2>1. t * a <= t * (i * Scale)
    BY <1>2, <1>1, ScaleAssumption, Products
  <2> QED BY <1>2, <2>1, ScaleAssumption
<1>4. b \in Nat /\ b <= t * i
  BY <1>3, ScaleAssumption DEF Pcl!Times
<1> HIDE DEF b
<1>5. (b \div 2) \in Nat /\ 2 * (b \div 2) <= b
  BY <1>4
<1> DEFINE c == b \div 2
<1>6. next = c \div i
  BY DEF c, b, a
<1> HIDE DEF c
<1>7. c \in Nat /\ 2 * c <= t * i
  BY <1>4, <1>5, <1>3 DEF c
<1>8. next \in Nat /\ next * i <= c
  BY <1>6, <1>7
<1>9. (2 * next) * i <= t * i /\ 2 * next \in Nat
  BY <1>7, <1>8
<1>10. ~(2 * next > t)
  <2> SUFFICES ASSUME 2 * next >= t + 1 PROVE FALSE
    BY <1>9
  <2>1. (t + 1) * i <= (2 * next) * i
    BY <1>9, Products
  <2>2. (t + 1) * i = t * i + i
    OBVIOUS
  <2> QED BY <1>9, <2>1, <2>2
<1> QED BY <1>8, <1>9, <1>10

LEMMA SeriesBetween ==
  ASSUME NEW n \in Nat, NEW fraction \in 0..Scale
  PROVE  Pcl!Rounds(n, First, Series(fraction))[n].sum \in 0..Scale
<1> DEFINE r == Pcl!Rounds(n, First, Series(fraction))
           T == {m \in 0..n : /\ r[m] \in [term : Nat, sum : Int]
                              /\ r[m].term <= r[m].sum /\ r[m].sum <= Scale}
<1>1. r[0] = First /\ \A i \in 1..n : r[i] = Series(fraction)[i][r[i - 1]]
  BY RoundsAre
<1> HIDE DEF r
<1>2. 0 \in T
  BY <1>1, ScaleAssumption DEF First
<1>3. \A m \in 0..n : m < n /\ m \in T => m + 1 \in T
  <2> SUFFICES ASSUME NEW m \in 0..n, m < n, m \in T PROVE m + 1 \in T
    OBVIOUS
  <2> DEFINE x == r[m]
             i == m + 1
             next == (Pcl!Times(x.term, Pcl!Apart(fraction, (i - 1) * Scale)) \div 2) \div i
  <2>1. i \in 1..n /\ i - 1 = m /\ i \in Nat \ {0} /\ i \in 0..n
    OBVIOUS
  <2>2. /\ x \in [term : Nat, sum : Int] /\ x.term \in Nat /\ x.sum \in Int
        /\ x.term <= x.sum /\ x.sum <= Scale
    OBVIOUS
  <2>3. r[i] = IF i > 1 /\ x.term < HalfPowTol THEN x ELSE [term |-> next, sum |-> x.sum - next]
    <3>1. r[i] = Series(fraction)[i][x]
      BY <1>1, <2>1
    <3> HIDE DEF x, i
    <3> QED BY <2>1, <2>2, <3>1 DEF Series
  <2>4. next \in Nat /\ 2 * next <= x.term
    <3> HIDE DEF x, i
    <3> QED BY <2>1, <2>2, TermHalves
  <2> HIDE DEF next, x
  <2>5. CASE i > 1 /\ x.term < HalfPowTol
    <3>1. r[i] = x
      BY <2>3, <2>5
    <3> QED BY <2>1, <2>2, <3>1
  <2>6. CASE ~(i > 1 /\ x.term < HalfPowTol)
    <3>1. r[i] = [term |-> next, sum |-> x.sum - next]
      BY <2>3, <2>6
    <3>2. x.sum - next \in Int /\ next <= x.sum - next /\ x.sum - next <= Scale
      BY <2>2, <2>4, ScaleAssumption
    <3> QED BY <2>1, <2>4, <3>1, <3>2
  <2> QED BY <2>5, <2>6
<1> HIDE DEF T
<1>4. n \in T
  BY <1>2, <1>3, RangeInduction
<1> QED BY <1>4, ScaleAssumption DEF T, r

LEMMA HalfPowBetween ==
  ASSUME MaxIter \in Nat, NEW time \in Nat, NEW halfTime \in Nat \ {0}
  PROVE  Pcl!HalfPow(time, halfTime) \in 0..Scale
<1> DEFINE power == Pcl!Ratio(time, halfTime)
           whole == power \div Scale
           fraction == power % Scale
           h == Pcl!Rounds(whole, Scale, Halving)[whole]
           s == Pcl!Rounds(MaxIter, First, Series(fraction))[MaxIter].sum
<1>1. power \in Nat
  BY ScaleAssumption DEF Pcl!Ratio
<1> HIDE DEF power
<1>2. whole \in Nat /\ fraction \in 0..Scale
  BY <1>1, ScaleAssumption
<1>3. Pcl!HalfPow(time, halfTime) = Pcl!Times(h, s)
  BY DEF Pcl!HalfPow, Halving, Series, First, power
<1> HIDE DEF whole, fraction
<1>4. h \in 0..Scale
  BY <1>2, HalvesBetween
<1>5. s \in 0..Scale
  BY <1>2, SeriesBetween
<1> HIDE DEF h, s
<1>6. h * s \in Nat /\ h * s <= Scale * Scale
  BY <1>4, <1>5, ScaleAssumption, Products
<1> QED BY <1>3, <1>6, ScaleAssumption DEF Pcl!Times
-----------------------------------------------------------------------------
(* What the curve makes of whole numbers.                                  *)

ParamsOK(pp) ==
  /\ pp.maHalfTime \in Nat \ {0} /\ pp.minDelta \in Nat /\ pp.threshold \in Nat
  /\ pp.feeGamma \in Nat /\ pp.midFee \in 0..Scale /\ pp.outFee \in 0..Scale

Whole(xp) == xp[1] \in Nat /\ xp[2] \in Nat

LEMMA PclTimesWithin ==
  ASSUME NEW x \in Nat, NEW d \in 0..Scale
  PROVE  Pcl!Times(x, d) \in 0..x
<1>1. x * d \in Nat /\ Scale \in Nat \ {0} /\ d <= Scale
  BY ScaleAssumption
<1>2. (x * d) \div Scale \in Nat /\ ((x * d) \div Scale) * Scale <= x * d
  BY <1>1, DivBounds, DivNat
<1>3. x * d <= x * Scale
  <2>1. d * x <= Scale * x
    BY <1>1, Scaled
  <2> QED BY <2>1, <1>1
<1>4. (x * d) \div Scale <= x
  <2>1. ((x * d) \div Scale) * Scale <= x * Scale
    BY <1>1, <1>2, <1>3
  <2> QED BY <1>1, <1>2, <2>1, Cancel
<1> QED BY <1>2, <1>4 DEF Pcl!Times

LEMMA TimesNat ==
  ASSUME NEW x \in Nat, NEW y \in Nat
  PROVE  Pcl!Times(x, y) \in Nat
<1>1. x * y \in Nat /\ Scale \in Nat \ {0}
  BY ScaleAssumption
<1> QED BY <1>1, DivNat DEF Pcl!Times

LEMMA RatioNat ==
  ASSUME NEW x \in Nat, NEW y \in Nat \ {0}
  PROVE  Pcl!Ratio(x, y) \in Nat
<1>1. x * Scale \in Nat
  BY ScaleAssumption
<1> QED BY <1>1, DivNat DEF Pcl!Ratio

LEMMA SqrtNat ==
  ASSUME NEW x \in Nat
  PROVE  Pcl!Sqrt(x) \in Nat
<1> DEFINE holds == [r \in Int |-> r * r > x * Scale]
<1>1. Pcl!Sqrt(x) = Pcl!LeastThat(holds, 0, x + Scale) - 1
  BY DEF Pcl!Sqrt
<1> HIDE DEF holds
<1>2. 0 \in Int /\ x + Scale \in Int /\ 0 < x + Scale
  BY ScaleAssumption
<1>3. Pcl!LeastThat(holds, 0, x + Scale) \in (0 + 1)..(x + Scale)
  BY <1>2, LeastThatWithin
<1> QED BY <1>1, <1>2, <1>3

LEMMA CalcDNat ==
  ASSUME NEW xp, Whole(xp), NEW ag
  PROVE  Pcl!CalcD(xp, ag) \in Nat
<1> DEFINE holds == [d \in Int |-> Pcl!CurveF(d, xp, ag) < 0]
           low == 2 * Pcl!Sqrt(Pcl!Times(xp[1], xp[2]))
           high == xp[1] + xp[2] + 1
<1>1. Pcl!CalcD(xp, ag) = Pcl!LeastThat(holds, low, high) - 1
  BY DEF Pcl!CalcD
<1>2. low \in Nat /\ high \in Nat \ {0}
  <2>1. Pcl!Times(xp[1], xp[2]) \in Nat
    BY TimesNat DEF Whole
  <2>2. Pcl!Sqrt(Pcl!Times(xp[1], xp[2])) \in Nat
    BY <2>1, SqrtNat
  <2> QED BY <2>2 DEF Whole
<1> HIDE DEF holds, low, high
<1>3. Pcl!LeastThat(holds, low, high) \in IF low < high THEN (low + 1)..high ELSE {high}
  BY <1>2, LeastThatWithin
<1> QED BY <1>1, <1>2, <1>3

LEMMA CalcYNat ==
  ASSUME NEW d \in Nat, NEW xp, NEW ag, NEW j \in 1..2, xp[3 - j] \in Nat \ {0}
  PROVE  Pcl!CalcY(xp, d, ag, j) \in Nat
<1> DEFINE holds == [y \in Int |-> Pcl!CurveF(d, [xp EXCEPT ![j] = y], ag) >= 0]
           high == (d * d) \div (4 * xp[3 - j])
<1>1. Pcl!CalcY(xp, d, ag, j) = Pcl!LeastThat(holds, 0, high)
  BY DEF Pcl!CalcY
<1>2. high \in Nat /\ 0 \in Int
  <2>1. d * d \in Nat /\ 4 * xp[3 - j] \in Nat \ {0}
    OBVIOUS
  <2> QED BY <2>1, DivNat
<1> HIDE DEF holds, high
<1>3. Pcl!LeastThat(holds, 0, high) \in IF 0 < high THEN (0 + 1)..high ELSE {high}
  BY <1>2, LeastThatWithin
<1> QED BY <1>1, <1>2, <1>3

LEMMA XcpNat ==
  ASSUME NEW d \in Nat, NEW scale \in Nat \ {0}
  PROVE  Pcl!Xcp(d, scale) \in Nat
<1>1. d \div 2 \in Nat /\ 2 * scale \in Nat \ {0}
  OBVIOUS
<1>2. Pcl!Times(d \div 2, Pcl!Ratio(d, 2 * scale)) \in Nat
  BY <1>1, RatioNat, TimesNat
<1> QED BY <1>2, SqrtNat DEF Pcl!Xcp

(* A product of two balances is at most a quarter of the square of their sum. *)
LEMMA BalanceWithin ==
  ASSUME NEW xp, Whole(xp),
         Pcl!Times(xp[1] + xp[2], xp[1] + xp[2]) > 0
  PROVE  Pcl!Balance(xp) \in 0..Scale
<1> DEFINE x == xp[1]
           y == xp[2]
           p == x * y
           q == (x + y) * (x + y)
           t == Pcl!Times(x, y)
           s == Pcl!Times(x + y, x + y)
<1>0. x \in Nat /\ y \in Nat /\ Scale \in Nat \ {0}
  BY ScaleAssumption DEF Whole
<1> HIDE DEF x, y
<1>1. p \in Nat /\ q \in Nat /\ 4 * p <= q
  <2>1. q = 4 * p + (x - y) * (x - y)
    BY <1>0
  <2>2. (x - y) * (x - y) >= 0
    <3>1. CASE x >= y
      BY <1>0, <3>1
    <3>2. CASE x < y
      <4>1. (x - y) * (x - y) = (y - x) * (y - x) /\ y - x \in Nat
        BY <1>0, <3>2
      <4> QED BY <4>1
    <3> QED BY <1>0, <3>1, <3>2
  <2> QED BY <1>0, <2>1, <2>2
<1>2. t \in Nat /\ t = p \div Scale
  BY <1>0, TimesNat DEF Pcl!Times
<1>3. s \in Nat \ {0} /\ s = q \div Scale
  <2>1. s > 0
    BY DEF x, y
  <2> QED BY <1>0, <2>1, TimesNat DEF Pcl!Times
<1>4. Pcl!Balance(xp) = ((4 * t) * Scale) \div s
  BY DEF Pcl!Balance, Pcl!Ratio, x, y
<1> HIDE DEF p, q, t, s
<1>5. t * Scale <= p /\ q < s * Scale + Scale
  BY <1>0, <1>1, <1>2, <1>3, DivBounds
<1>6. 4 * t <= s
  <2>1. (4 * t) * Scale < (s + 1) * Scale
    <3> DEFINE u == t * Scale
               v == s * Scale
    <3>1. (4 * t) * Scale = 4 * u /\ (s + 1) * Scale = v + Scale /\ u \in Nat /\ v \in Nat
      BY <1>0, <1>2, <1>3
    <3>2. u <= p /\ q < v + Scale
      BY <1>5
    <3> HIDE DEF u, v
    <3>3. 4 * u < v + Scale
      BY <1>0, <1>1, <3>1, <3>2
    <3> QED BY <3>1, <3>3
  <2>2. 4 * t < s + 1
    BY <1>0, <1>2, <1>3, <2>1, CancelLess
  <2> QED BY <1>2, <1>3, <2>2
<1> DEFINE b == ((4 * t) * Scale) \div s
<1>7. b \in Nat /\ b * s <= (4 * t) * Scale
  <2>1. (4 * t) * Scale \in Nat
    BY <1>0, <1>2
  <2> QED BY <1>3, <2>1, DivBounds, DivNat
<1> HIDE DEF b
<1>8. b * s <= Scale * s
  <2>1. (4 * t) * Scale <= s * Scale
    BY <1>0, <1>2, <1>3, <1>6, Scaled
  <2>2. s * Scale = Scale * s /\ (4 * t) * Scale \in Int /\ s * Scale \in Int
    BY <1>0, <1>2, <1>3
  <2> QED BY <1>7, <1>3, <2>1, <2>2
<1>9. b <= Scale
  BY <1>0, <1>3, <1>7, <1>8, Cancel
<1> QED BY <1>0, <1>4, <1>7, <1>9 DEF b

(* The fee is never more than all that is traded. *)
LEMMA FeeRateWithin ==
  ASSUME NEW pp, ParamsOK(pp), NEW xp, Whole(xp), Pcl!HasFee(pp, xp)
  PROVE  Pcl!FeeRate(pp, xp) \in 0..Scale
<1> DEFINE b == Pcl!Balance(xp)
           d == pp.feeGamma + Scale - b
           near == Pcl!Ratio(pp.feeGamma, d)
           k == IF near <= FeeTol THEN 0 ELSE near
<1>0. Scale \in Nat \ {0}
  BY ScaleAssumption
<1>1. b \in 0..Scale
  BY BalanceWithin DEF Pcl!HasFee
<1>2. d \in Nat \ {0} /\ pp.feeGamma <= d
  <2>1. pp.feeGamma + Scale > b
    BY DEF Pcl!HasFee
  <2> HIDE DEF b
  <2> QED BY <1>0, <1>1, <2>1 DEF ParamsOK
<1> HIDE DEF d
<1>3. near \in 0..Scale
  <2>1. near = (pp.feeGamma * Scale) \div d
    BY DEF Pcl!Ratio
  <2>2. pp.feeGamma * Scale \in Nat /\ pp.feeGamma * Scale <= d * Scale
    BY <1>0, <1>2, Scaled DEF ParamsOK
  <2>3. near \in Nat /\ near * d <= pp.feeGamma * Scale
    BY <1>2, <2>1, <2>2, DivBounds, DivNat
  <2>4. near * d <= Scale * d
    <3>1. d * Scale = Scale * d /\ d * Scale \in Int
      BY <1>0, <1>2
    <3> QED BY <1>2, <2>2, <2>3, <3>1
  <2>5. near <= Scale
    BY <1>0, <1>2, <2>3, <2>4, Cancel
  <2> QED BY <1>0, <2>3, <2>5
<1> HIDE DEF near
<1>4. k \in 0..Scale
  BY <1>0, <1>3
<1>5. Pcl!FeeRate(pp, xp) = Pcl!Times(k, pp.midFee) + Pcl!Times(Scale - k, pp.outFee)
  BY DEF Pcl!FeeRate, k, near, d, b
<1> HIDE DEF k
<1>6. Pcl!Times(k, pp.midFee) \in 0..k
  BY <1>4, PclTimesWithin DEF ParamsOK
<1>7. Pcl!Times(Scale - k, pp.outFee) \in 0..(Scale - k)
  <2>1. Scale - k \in Nat
    BY <1>0, <1>4
  <2> QED BY <2>1, PclTimesWithin DEF ParamsOK
<1> QED BY <1>0, <1>4, <1>5, <1>6, <1>7
-----------------------------------------------------------------------------
(* The prices.  What the oracle and the price scale come to is between low *)
(* and high if the prices that they follow were, up to what is rounded:    *)
(* less than two atomics for each block in which the oracle moved.         *)
PricesOK(p) ==
  DOMAIN p = Pcl!PriceFields /\ (\A field \in Pcl!PriceFields : p[field] \in Nat) /\ p.scale > 0

(* There are shares as soon as one of them is worth something.             *)
Owned(p, totalLp) == p.real > 0 => totalLp \in Nat \ {0}

Follows(p, time, low, high) ==
  /\ p.oracle <= high /\ low <= p.oracle + 2 * p.updated
  /\ p.scale <= high /\ low <= p.scale + 2 * time
  /\ p.updated <= time
  /\ p.updated < time => low <= p.last /\ p.last <= high

LEMMA Fields ==
  ASSUME NEW p, PricesOK(p)
  PROVE  /\ p.oracle \in Nat /\ p.last \in Nat /\ p.scale \in Nat \ {0} /\ p.updated \in Nat
         /\ p.profit \in Nat /\ p.real \in Nat /\ p.losses \in Nat
BY DEF PricesOK, Pcl!PriceFields

LEMMA BlendWithin ==
  ASSUME NEW x \in Nat, NEW y \in Nat, NEW a \in 0..Scale, NEW low \in Nat, NEW high \in Nat, NEW u \in Nat,
         low <= x, x <= high, y <= high, low <= y + u,
         NEW z, z = Pcl!Times(x, Scale - a) + Pcl!Times(y, a)
  PROVE  z \in Nat /\ z <= high /\ low < z + u + 2
<1> DEFINE b == Scale - a
           X == x * b
           Y == y * a
           v == X \div Scale
           w == Y \div Scale
<1>0. Scale \in Nat \ {0} /\ a \in Nat /\ b \in Nat /\ a + b = Scale /\ a <= Scale
  BY ScaleAssumption
<1>1. z = v + w
  BY DEF Pcl!Times
<1> HIDE DEF b
<1>2. X \in Nat /\ Y \in Nat
  BY <1>0
<1>3. X <= high * b /\ low * b <= X /\ Y <= high * a /\ low * a <= Y + u * a /\ u * a <= u * Scale
  <2>1. X <= high * b /\ low * b <= X /\ Y <= high * a
    BY <1>0, Scaled
  <2>2. low * a <= (y + u) * a
    BY <1>0, Scaled
  <2>3. (y + u) * a = Y + u * a
    BY <1>0
  <2>4. a * u <= Scale * u
    BY <1>0, Scaled
  <2>5. a * u = u * a /\ Scale * u = u * Scale
    BY <1>0
  <2> QED BY <2>1, <2>2, <2>3, <2>4, <2>5
<1> HIDE DEF X, Y
<1>4. /\ v \in Nat /\ v * Scale <= X /\ X < v * Scale + Scale
      /\ w \in Nat /\ w * Scale <= Y /\ Y < w * Scale + Scale
  BY <1>0, <1>2, DivBounds, DivNat
<1> HIDE DEF v, w
<1>5. high * b + high * a = high * Scale /\ low * b + low * a = low * Scale
  <2>1. high * (a + b) = high * b + high * a /\ low * (a + b) = low * b + low * a
    BY <1>0
  <2> QED BY <1>0, <2>1
<1>6. /\ (v + w) * Scale = v * Scale + w * Scale
      /\ (v + w + u + 2) * Scale = v * Scale + w * Scale + u * Scale + 2 * Scale
  BY <1>0, <1>4
<1>7. /\ high * b \in Int /\ high * a \in Int /\ low * b \in Int /\ low * a \in Int /\ u * a \in Int
      /\ v * Scale \in Int /\ w * Scale \in Int /\ u * Scale \in Int /\ low * Scale \in Int /\ high * Scale \in Int
  BY <1>0, <1>4
<1>8. (v + w) * Scale <= high * Scale
  BY <1>2, <1>3, <1>4, <1>5, <1>6, <1>7
<1>9. low * Scale < (v + w + u + 2) * Scale
  BY <1>0, <1>2, <1>3, <1>4, <1>5, <1>6, <1>7
<1>10. v + w <= high
  BY <1>0, <1>4, <1>8, Cancel
<1>11. low < v + w + u + 2
  BY <1>0, <1>4, <1>9, CancelLess
<1> QED BY <1>1, <1>4, <1>10, <1>11

LEMMA OracleFollows ==
  ASSUME MaxIter \in Nat, NEW p, PricesOK(p), NEW pp, ParamsOK(pp),
         NEW time \in Nat, NEW last \in Nat, NEW low \in Nat, NEW high \in Nat,
         Follows(p, time, low, high),
         NEW q, q = Pcl!OraclePrice(p, pp, time, last)
  PROVE  /\ PricesOK(q) /\ Follows(q, time, low, high)
         /\ q.updated = time /\ q.last = last
         /\ q.scale = p.scale /\ q.real = p.real /\ q.profit = p.profit
<1> DEFINE a == Pcl!HalfPow(time - p.updated, pp.maHalfTime)
           z == Pcl!Times(p.last, Scale - a) + Pcl!Times(p.oracle, a)
<1>1. /\ p.oracle \in Nat /\ p.last \in Nat /\ p.scale \in Nat \ {0} /\ p.updated \in Nat
      /\ p.profit \in Nat /\ p.real \in Nat /\ p.losses \in Nat
  BY Fields
<1>2. p.updated <= time
  BY DEF Follows
<1>3. CASE p.updated < time
  <2>1. q = [p EXCEPT !.oracle = z, !.updated = time, !.last = last]
    BY <1>3 DEF Pcl!OraclePrice
  <2>2. a \in 0..Scale
    <3>1. time - p.updated \in Nat
      BY <1>1, <1>2
    <3> QED BY <3>1, HalfPowBetween DEF ParamsOK
  <2>3. z \in Nat /\ z <= high /\ low < z + 2 * p.updated + 2
    <3> DEFINE u == 2 * p.updated
               x == p.last
               y == p.oracle
    <3>1. low <= x /\ x <= high /\ y <= high /\ low <= y + u /\ u \in Nat /\ x \in Nat /\ y \in Nat
      BY <1>1, <1>3 DEF Follows
    <3>2. z = Pcl!Times(x, Scale - a) + Pcl!Times(y, a)
      OBVIOUS
    <3> HIDE DEF a, z, u, x, y
    <3>3. z \in Nat /\ z <= high /\ low < z + u + 2
      BY <2>2, <3>1, <3>2, BlendWithin
    <3> QED BY <3>3 DEF u
  <2> HIDE DEF z
  <2>4. /\ DOMAIN q = Pcl!PriceFields
        /\ q.oracle = z /\ q.updated = time /\ q.last = last /\ q.scale = p.scale /\ q.real = p.real
        /\ q.profit = p.profit /\ q.losses = p.losses
    BY <2>1 DEF PricesOK, Pcl!PriceFields
  <2>5. PricesOK(q)
    BY <1>1, <2>3, <2>4 DEF PricesOK, Pcl!PriceFields
  <2>6. Follows(q, time, low, high)
    <3>1. low <= z + 2 * time
      BY <1>1, <1>3, <2>3
    <3> QED BY <2>3, <2>4, <3>1 DEF Follows
  <2> QED BY <2>4, <2>5, <2>6
<1>4. CASE ~(p.updated < time)
  <2>1. q = [p EXCEPT !.last = last]
    BY <1>4 DEF Pcl!OraclePrice
  <2>2. /\ DOMAIN q = Pcl!PriceFields
        /\ q.oracle = p.oracle /\ q.updated = p.updated /\ q.last = last /\ q.scale = p.scale /\ q.real = p.real
        /\ q.profit = p.profit /\ q.losses = p.losses
    BY <2>1 DEF PricesOK, Pcl!PriceFields
  <2>3. PricesOK(q)
    BY <1>1, <2>2 DEF PricesOK, Pcl!PriceFields
  <2>4. p.updated = time
    BY <1>1, <1>2, <1>4
  <2> QED BY <1>1, <2>2, <2>3, <2>4 DEF Follows
<1> QED BY <1>3, <1>4

(* A step of the price scale towards the oracle. *)
LEMMA NextScaleWithin ==
  ASSUME NEW p, PricesOK(p), NEW pp, ParamsOK(pp),
         Pcl!WantsRepeg(p, pp), Pcl!Norm(p) > 0,
         NEW high \in Nat, p.scale <= high, p.oracle <= high,
         NEW low \in Int, low <= p.scale, low <= p.oracle
  PROVE  /\ Pcl!NextScale(p, pp) \in Nat
         /\ low <= Pcl!NextScale(p, pp) /\ Pcl!NextScale(p, pp) <= high
<1> DEFINE n == Pcl!Norm(p)
           d == Pcl!ScaleDelta(p, pp)
           N == p.scale * (n - d) + d * p.oracle
           v == N \div n
<1>1. p.scale \in Nat \ {0} /\ p.oracle \in Nat
  BY Fields
<1>2. n \in Nat \ {0}
  <2>1. Pcl!Ratio(p.oracle, p.scale) \in Nat
    BY <1>1, RatioNat
  <2>2. n \in Int
    BY <2>1, ScaleAssumption DEF Pcl!Norm, Pcl!Apart
  <2> QED BY <2>2
<1>3. d \in Nat /\ d <= n
  <2>1. n \div 10 \in Nat
    BY <1>2, DivNat
  <2>2. d \in {pp.minDelta, n \div 10}
    BY DEF Pcl!ScaleDelta, Pcl!Greater
  <2>3. n >= d
    BY DEF Pcl!WantsRepeg
  <2> HIDE DEF d, n
  <2> QED BY <1>2, <2>1, <2>2, <2>3 DEF ParamsOK
<1>4. Pcl!NextScale(p, pp) = v
  BY DEF Pcl!NextScale
<1> HIDE DEF n, d
<1> DEFINE e == n - d
<1>5. e \in Nat /\ e + d = n
  BY <1>2, <1>3
<1>6. N = p.scale * e + p.oracle * d
  BY <1>1, <1>3
<1> HIDE DEF e, N
<1>7. /\ low * e <= p.scale * e /\ p.scale * e <= high * e
      /\ low * d <= p.oracle * d /\ p.oracle * d <= high * d
  BY <1>1, <1>3, <1>5, Scaled
<1>8. low * n = low * e + low * d /\ high * n = high * e + high * d
  BY <1>3, <1>5
<1>9. /\ p.scale * e \in Nat /\ p.oracle * d \in Nat
      /\ low * e \in Int /\ low * d \in Int /\ high * e \in Int /\ high * d \in Int
  BY <1>1, <1>3, <1>5
<1>10. N \in Nat /\ low * n <= N /\ N <= high * n
  BY <1>6, <1>7, <1>8, <1>9
<1>11. v \in Nat /\ v * n <= N /\ N < v * n + n
  BY <1>2, <1>10, DivBounds, DivNat
<1> HIDE DEF v
<1>12. v * n <= high * n /\ low * n < (v + 1) * n
  <2>1. (v + 1) * n = v * n + n /\ v * n \in Int /\ low * n \in Int /\ high * n \in Int
    BY <1>2, <1>11
  <2> QED BY <1>2, <1>10, <1>11, <2>1
<1>13. v <= high
  BY <1>2, <1>11, <1>12, Cancel
<1>14. low < v + 1
  <2>1. v + 1 \in Int
    BY <1>11
  <2> QED BY <1>2, <1>12, <2>1, CancelLess
<1> QED BY <1>4, <1>11, <1>13, <1>14

LEMMA SaturatingNat ==
  ASSUME NEW x \in Nat, NEW y \in Nat
  PROVE  Pcl!SaturatingSub(x, y) \in Nat
BY DEF Pcl!SaturatingSub

LEMMA ProfitsFollow ==
  ASSUME NEW p, PricesOK(p), NEW real, p.real > 0 => real \in Nat, NEW ramping \in BOOLEAN,
         NEW q, q = Pcl!Profits(p, real, ramping)
  PROVE  /\ PricesOK(q) /\ q.oracle = p.oracle /\ q.scale = p.scale
         /\ q.updated = p.updated /\ q.last = p.last
         /\ q.real > 0 => p.real > 0
<1>1. /\ p.oracle \in Nat /\ p.last \in Nat /\ p.scale \in Nat \ {0} /\ p.updated \in Nat
      /\ p.profit \in Nat /\ p.real \in Nat /\ p.losses \in Nat
  BY Fields
<1>2. CASE p.real = 0
  <2>1. q = p
    BY <1>2 DEF Pcl!Profits
  <2> QED BY <2>1
<1>3. CASE p.real # 0
  <2> DEFINE lost == Pcl!SaturatingSub(p.losses + Pcl!SaturatingSub(p.real, real), Pcl!SaturatingSub(real, p.real))
             losses == IF ramping THEN p.losses ELSE lost
             profit == (p.profit * real) \div p.real
  <2>1. real \in Nat /\ p.real \in Nat \ {0}
    BY <1>1, <1>3
  <2>2. losses \in Nat
    <3>1. Pcl!SaturatingSub(p.real, real) \in Nat /\ Pcl!SaturatingSub(real, p.real) \in Nat
      BY <1>1, <2>1, SaturatingNat
    <3>2. p.losses + Pcl!SaturatingSub(p.real, real) \in Nat
      BY <1>1, <3>1
    <3>3. lost \in Nat
      BY <3>1, <3>2, SaturatingNat
    <3> QED BY <1>1, <3>3
  <2>3. profit \in Nat
    <3>1. p.profit * real \in Nat
      BY <1>1, <2>1
    <3> QED BY <2>1, <3>1, DivNat
  <2>4. q = [p EXCEPT !.losses = losses, !.profit = profit, !.real = real]
    BY <1>3 DEF Pcl!Profits
  <2> HIDE DEF losses, profit
  <2>5. /\ DOMAIN q = Pcl!PriceFields
        /\ q.oracle = p.oracle /\ q.updated = p.updated /\ q.last = p.last /\ q.scale = p.scale
        /\ q.real = real /\ q.profit = profit /\ q.losses = losses
    BY <2>4 DEF PricesOK, Pcl!PriceFields
  <2> QED BY <1>1, <2>1, <2>2, <2>3, <2>5 DEF PricesOK, Pcl!PriceFields
<1> QED BY <1>2, <1>3

LEMMA RepeggedFollows ==
  ASSUME NEW p, PricesOK(p), NEW time \in Nat, p.updated = time,
         NEW low \in Nat, NEW high \in Nat, Follows(p, time, low, high),
         NEW pp, ParamsOK(pp),
         Pcl!WantsRepeg(p, pp) => Pcl!Norm(p) > 0 /\ Pcl!NextScale(p, pp) > 0,
         NEW totalLp, Owned(p, totalLp),
         NEW xp, Whole(xp), NEW ag,
         NEW q, q = Pcl!Repegged(p, pp, totalLp, xp, ag)
  PROVE  /\ PricesOK(q) /\ Follows(q, time, low, high)
         /\ q.updated = time /\ q.last = p.last
         /\ q.real > 0 => p.real > 0
<1> DEFINE scale == Pcl!NextScale(p, pp)
           real == Pcl!RealAt(scale, p, totalLp, xp, ag)
<1>1. /\ p.oracle \in Nat /\ p.last \in Nat /\ p.scale \in Nat \ {0} /\ p.updated \in Nat
      /\ p.profit \in Nat /\ p.real \in Nat /\ p.losses \in Nat
  BY Fields
<1>2. CASE q = p
  BY <1>2
<1>3. CASE q # p
  <2>1. Pcl!WantsRepeg(p, pp) /\ q = [p EXCEPT !.scale = scale, !.real = real]
    BY <1>3 DEF Pcl!Repegged
  <2>2. p.real > 0
    <3>1. Pcl!SaturatingSub(p.real, Scale) > Pcl!SaturatingSub(p.profit, Scale) \div 2 + pp.threshold
      BY <2>1 DEF Pcl!WantsRepeg, Pcl!ProfitSuffices
    <3>2. Pcl!SaturatingSub(p.profit, Scale) \div 2 \in Nat
      <4>1. Pcl!SaturatingSub(p.profit, Scale) \in Nat
        BY <1>1, ScaleAssumption, SaturatingNat
      <4> QED BY <4>1, DivNat
    <3>3. Pcl!SaturatingSub(p.real, Scale) > 0
      <4>1. Pcl!SaturatingSub(p.real, Scale) \in Nat
        BY <1>1, ScaleAssumption, SaturatingNat
      <4> QED BY <3>1, <3>2, <4>1 DEF ParamsOK
    <3> QED BY <1>1, <3>3, ScaleAssumption DEF Pcl!SaturatingSub
  <2> DEFINE l == low - 2 * time
  <2>3. l \in Int /\ l <= p.scale /\ l <= p.oracle /\ p.scale <= high /\ p.oracle <= high
    BY <1>1 DEF Follows
  <2>4. scale \in Nat \ {0} /\ l <= scale /\ scale <= high
    <3> HIDE DEF l
    <3>1. Pcl!Norm(p) > 0 /\ scale > 0
      BY <2>1
    <3>2. scale \in Nat /\ l <= scale /\ scale <= high
      BY <2>1, <2>3, <3>1, NextScaleWithin
    <3> QED BY <3>1, <3>2
  <2> HIDE DEF scale
  <2>5. real \in Nat
    <3> DEFINE z == (xp[2] * scale) \div p.scale
               y == <<xp[1], z>>
               d == Pcl!CalcD(y, ag)
    <3>1. z \in Nat
      <4>1. xp[2] * scale \in Nat /\ p.scale \in Nat \ {0}
        BY <1>1, <2>4 DEF Whole
      <4> QED BY <4>1, DivNat
    <3>2. Whole(y)
      BY <3>1 DEF Whole
    <3> HIDE DEF y
    <3>3. d \in Nat
      BY <3>2, CalcDNat
    <3>4. real = Pcl!Ratio(Pcl!Xcp(d, scale), totalLp)
      BY DEF Pcl!RealAt, y
    <3> HIDE DEF d
    <3>5. Pcl!Xcp(d, scale) \in Nat
      BY <2>4, <3>3, XcpNat
    <3> QED BY <2>2, <3>4, <3>5, RatioNat DEF Owned
  <2> HIDE DEF real
  <2>6. /\ DOMAIN q = Pcl!PriceFields
        /\ q.oracle = p.oracle /\ q.updated = p.updated /\ q.last = p.last /\ q.scale = scale
        /\ q.real = real /\ q.profit = p.profit /\ q.losses = p.losses
    BY <2>1 DEF PricesOK, Pcl!PriceFields
  <2>7. PricesOK(q)
    BY <1>1, <2>4, <2>5, <2>6 DEF PricesOK, Pcl!PriceFields
  <2>8. low <= q.scale + 2 * time /\ q.scale <= high
    BY <2>4, <2>6
  <2> QED BY <2>2, <2>6, <2>7, <2>8 DEF Follows
<1> QED BY <1>2, <1>3

LEMMA UpdateFollows ==
  ASSUME MaxIter \in Nat,
         NEW p, PricesOK(p),
         NEW pp, ParamsOK(pp),
         NEW st, NEW time \in Nat, NEW totalLp, Owned(p, totalLp),
         NEW xp, Whole(xp), NEW last \in Nat,
         NEW low \in Nat, NEW high \in Nat, Follows(p, time, low, high),
         NEW u, u = Pcl!UpdatePrice(p, pp, st, time, totalLp, xp, last), u.done,
         NEW q, q = u.price
  PROVE  /\ PricesOK(q) /\ Follows(q, time, low, high)
         /\ q.updated = time /\ q.last = last
         /\ q.real > 0 => p.real > 0
<1> DEFINE ag == Pcl!AmpGammaAt(st, time)
           ramping == time < st.futureTime
           real == Pcl!Ratio(Pcl!Xcp(Pcl!CalcD(xp, ag), p.scale), totalLp)
           o == Pcl!OraclePrice(p, pp, time, last)
           moved == Pcl!Profits(o, real, ramping)
<1>1. /\ Pcl!WantsRepeg(moved, pp) => Pcl!Norm(moved) > 0 /\ Pcl!NextScale(moved, pp) > 0
      /\ q = Pcl!Repegged(moved, pp, totalLp, xp, ag)
  BY DEF Pcl!UpdatePrice
<1>2. p.real > 0 => real \in Nat
  <2>1. Pcl!CalcD(xp, ag) \in Nat /\ p.scale \in Nat \ {0}
    <3> HIDE DEF ag
    <3> QED BY Fields, CalcDNat
  <2>2. Pcl!Xcp(Pcl!CalcD(xp, ag), p.scale) \in Nat
    BY <2>1, XcpNat
  <2> QED BY <2>2, RatioNat DEF Owned
<1>3. ramping \in BOOLEAN
  OBVIOUS
<1> HIDE DEF ag, real, ramping, o
<1>4. /\ PricesOK(o) /\ Follows(o, time, low, high)
      /\ o.updated = time /\ o.last = last
      /\ o.scale = p.scale /\ o.real = p.real
  BY OracleFollows DEF o
<1>5. /\ PricesOK(moved) /\ moved.oracle = o.oracle /\ moved.scale = o.scale
      /\ moved.updated = o.updated /\ moved.last = o.last
      /\ moved.real > 0 => o.real > 0
  BY <1>2, <1>3, <1>4, ProfitsFollow
<1> HIDE DEF moved
<1>6. Follows(moved, time, low, high)
  BY <1>4, <1>5 DEF Follows
<1>7. Owned(moved, totalLp) /\ moved.updated = time
  BY <1>4, <1>5 DEF Owned
<1>8. /\ PricesOK(q) /\ Follows(q, time, low, high)
      /\ q.updated = time /\ q.last = moved.last
      /\ q.real > 0 => moved.real > 0
  <2>1. time \in Nat /\ low \in Nat /\ high \in Nat /\ ParamsOK(pp) /\ Whole(xp)
    OBVIOUS
  <2> QED BY ONLY <2>1, <1>1, <1>5, <1>6, <1>7, RepeggedFollows
<1> QED BY <1>4, <1>5, <1>8
-----------------------------------------------------------------------------
(* What a swap pays, the fees included, is there to be paid.               *)

LEMMA RatioWithin ==
  ASSUME NEW x \in Nat, NEW scale \in Nat \ {0}, NEW g \in Nat, g <= Pcl!Times(x, scale)
  PROVE  Pcl!Ratio(g, scale) \in 0..x
<1> DEFINE X == x * scale
           t == X \div Scale
           r == (g * Scale) \div scale
<1>0. Scale \in Nat \ {0} /\ X \in Nat
  BY ScaleAssumption
<1>1. g <= t /\ Pcl!Ratio(g, scale) = r
  BY DEF Pcl!Times, Pcl!Ratio
<1> HIDE DEF X
<1>2. t \in Nat /\ t * Scale <= X
  BY <1>0, DivBounds, DivNat
<1> HIDE DEF t
<1>3. g * Scale \in Nat /\ g * Scale <= t * Scale
  BY <1>0, <1>1, <1>2, Scaled
<1>4. r \in Nat /\ r * scale <= g * Scale
  BY <1>3, DivBounds, DivNat
<1> HIDE DEF r
<1>5. r * scale <= x * scale
  <2>1. r * scale \in Int /\ t * Scale \in Int /\ x * scale = X
    BY <1>0, <1>2, <1>4 DEF X
  <2> QED BY <1>0, <1>2, <1>3, <1>4, <2>1
<1>6. r <= x
  BY <1>4, <1>5, Cancel
<1> QED BY <1>1, <1>4, <1>6

LEMMA FeeWithin ==
  ASSUME NEW rate \in 0..Scale, NEW g \in Nat
  PROVE  Pcl!Times(rate, g) \in 0..g
<1>1. rate * g = g * rate
  BY ScaleAssumption
<1>2. Pcl!Times(rate, g) = Pcl!Times(g, rate)
  BY <1>1 DEF Pcl!Times
<1> QED BY <1>2, PclTimesWithin

(* The parts of a payment in whole units are no more than all of it.       *)
LEMMA UnitsWithin ==
  ASSUME NEW u \in Nat \ {0}, NEW a \in Nat, NEW b \in Nat, NEW c \in Nat, NEW n \in Nat, a + b + c <= n * u
  PROVE  /\ a \div u \in Nat /\ b \div u \in Nat /\ c \div u \in Nat
         /\ a \div u + b \div u + c \div u <= n
<1> DEFINE x == a \div u
           y == b \div u
           z == c \div u
<1>1. x \in Nat /\ x * u <= a /\ y \in Nat /\ y * u <= b /\ z \in Nat /\ z * u <= c
  BY DivBounds, DivNat
<1> HIDE DEF x, y, z
<1>2. (x + y + z) * u = x * u + y * u + z * u
  BY <1>1
<1>3. (x + y + z) * u <= n * u
  <2>1. x * u \in Int /\ y * u \in Int /\ z * u \in Int /\ n * u \in Int
    BY <1>1
  <2> QED BY <1>1, <1>2, <2>1
<1>4. x + y + z <= n
  BY <1>1, <1>3, Cancel
<1> QED BY <1>1, <1>4 DEF x, y, z

LEMMA InternalWhole ==
  ASSUME NEW x, Whole(x), NEW scale \in Nat
  PROVE  Whole(Pcl!Internal(x, scale))
<1>1. Pcl!Times(x[2], scale) \in Nat
  BY TimesNat DEF Whole
<1> QED BY <1>1 DEF Whole, Pcl!Internal

(* What a swap gives: each part is a whole number, and all of them come    *)
(* from what the pool has.                                                 *)
Paid(result, held) ==
  /\ result.return \in Nat /\ result.shared \in Nat /\ result.maker \in Nat
  /\ Pcl!Leaving(result) \in 0..held

LEMMA SwapPays ==
  ASSUME PricesOK(price), ParamsOK(params), NEW x \in [1..2 -> Nat],
         NEW offered \in 1..2, NEW offer \in Nat, NEW makerRate \in 0..Scale, NEW shareRate \in 0..Scale,
         NEW result, result = Pcl!SwapResult(x, offered, offer, makerRate, shareRate), result.done
  PROVE  Paid(result, x[3 - offered])
<1> DEFINE asked == 3 - offered
           xp == Pcl!Internal(x, price.scale)
           d == Pcl!CalcD(xp, Pcl!AmpGamma)
           after == [xp EXCEPT ![offered] = xp[offered] + IF offered = 2 THEN Pcl!Times(offer, price.scale) ELSE offer]
           y == Pcl!CalcY(after, d, Pcl!AmpGamma, asked)
           left == [after EXCEPT ![asked] = y]
           gross == IF asked = 2 THEN Pcl!Ratio(xp[2] - y, price.scale) ELSE xp[1] - y
           fee == Pcl!Times(Pcl!FeeRate(params, left), gross)
           shared == Pcl!Times(fee, shareRate)
           maker == Pcl!Times(fee - shared, makerRate)
<1>1. /\ \A i \in 1..2 : xp[i] > 0
      /\ y <= xp[asked] /\ Pcl!HasFee(params, left)
      /\ result.return = gross - fee /\ result.shared = shared /\ result.maker = maker
  BY DEF Pcl!SwapResult, Pcl!Other, Pcl!Assets
<1>2. price.scale \in Nat \ {0}
  BY Fields
<1>3. Whole(xp) /\ DOMAIN xp = 1..2 /\ xp[1] = x[1] /\ xp[2] = Pcl!Times(x[2], price.scale)
  <2>1. Whole(x)
    BY DEF Whole
  <2>2. DOMAIN xp = 1..2 /\ xp[1] = x[1] /\ xp[2] = Pcl!Times(x[2], price.scale)
    BY DEF Pcl!Internal
  <2> QED BY <1>2, <2>1, <2>2, InternalWhole
<1>4. d \in Nat
  BY <1>3, CalcDNat
<1> HIDE DEF d, xp
<1>5. Whole(after) /\ after[offered] \in Nat \ {0} /\ DOMAIN after = 1..2
  <2>1. Pcl!Times(offer, price.scale) \in Nat
    BY <1>2, TimesNat
  <2> DEFINE more == IF offered = 2 THEN Pcl!Times(offer, price.scale) ELSE offer
  <2>2. more \in Nat /\ after = [xp EXCEPT ![offered] = xp[offered] + more]
    BY <2>1
  <2> HIDE DEF more, after
  <2>3. after[offered] = xp[offered] + more /\ \A i \in 1..2 : i # offered => after[i] = xp[i]
    BY <1>3, <2>2
  <2>4. xp[1] \in Nat \ {0} /\ xp[2] \in Nat \ {0}
    BY <1>1, <1>3 DEF Whole
  <2> QED BY <1>3, <2>2, <2>3, <2>4 DEF Whole
<1> HIDE DEF after
<1>6. y \in Nat
  <2>1. asked \in 1..2 /\ 3 - asked = offered
    OBVIOUS
  <2> HIDE DEF asked
  <2> QED BY <1>4, <1>5, <2>1, CalcYNat
<1> HIDE DEF y
<1>7. Whole(left)
  BY <1>5, <1>6 DEF Whole
<1>8. Pcl!FeeRate(params, left) \in 0..Scale
  <2> HIDE DEF left
  <2> QED BY <1>1, <1>7, FeeRateWithin
<1> DEFINE rate == Pcl!FeeRate(params, left)
<1>9. fee = Pcl!Times(rate, gross)
  OBVIOUS
<1>10. gross \in 0..x[asked]
  <2>1. CASE asked = 1
    BY <2>1, <1>1, <1>3, <1>6 DEF Whole
  <2>2. CASE asked = 2
    <3>1. xp[2] - y \in Nat /\ xp[2] - y <= Pcl!Times(x[2], price.scale)
      <4>1. xp[2] \in Nat
        BY <1>3 DEF Whole
      <4> QED BY <4>1, <2>2, <1>1, <1>3, <1>6
    <3>2. Pcl!Ratio(xp[2] - y, price.scale) \in 0..x[2]
      <4> DEFINE g == xp[2] - y
      <4> HIDE DEF g
      <4>1. g \in Nat /\ g <= Pcl!Times(x[2], price.scale) /\ x[2] \in Nat
        BY <3>1 DEF g
      <4>2. Pcl!Ratio(g, price.scale) \in 0..x[2]
        BY <4>1, <1>2, RatioWithin
      <4> QED BY <4>2 DEF g
    <3> QED BY <2>2, <3>2
  <2> QED BY <2>1, <2>2
<1> HIDE DEF rate, gross, left
<1>11. gross \in Nat /\ x[asked] \in Nat
  BY <1>10
<1>12. fee \in 0..gross
  BY <1>8, <1>9, <1>11, FeeWithin DEF rate
<1> HIDE DEF fee
<1>13. shared \in 0..fee
  BY <1>11, <1>12, PclTimesWithin
<1> HIDE DEF shared
<1>14. maker \in 0..(fee - shared)
  <2>1. fee - shared \in Nat
    BY <1>11, <1>12, <1>13
  <2> QED BY <2>1, PclTimesWithin
<1> HIDE DEF maker
<1> QED BY <1>1, <1>10, <1>11, <1>12, <1>13, <1>14 DEF Paid, Pcl!Leaving
-----------------------------------------------------------------------------
(* The shares of a pair are those of its holders.                          *)

Held == lp \in [Holders -> Nat] /\ supply \in Nat /\ SumTo(NumHolders, lp) = supply

LEMMA HolderFacts ==
  /\ Users \subseteq Holders /\ Self \in Holders /\ IncentivesAddr \in Holders
  /\ Self \notin Users /\ IncentivesAddr # Self
  /\ NumHolders \in Nat
BY NumUsersAssumption DEF Users, Self, IncentivesAddr, Holders, NumHolders

LEMMA SumMoved ==
  ASSUME NEW f \in [Holders -> Nat], NEW h \in Holders, NEW v \in Nat
  PROVE  /\ [f EXCEPT ![h] = v] \in [Holders -> Nat]
         /\ SumTo(NumHolders, [f EXCEPT ![h] = v]) = SumTo(NumHolders, f) + v - f[h]
         /\ SumTo(NumHolders, f) \in Nat
         /\ f[h] <= SumTo(NumHolders, f)
<1> DEFINE g == [f EXCEPT ![h] = v]
<1>1. \A i \in 1..NumHolders : f[i] \in Int /\ g[i] \in Int /\ (i # h => g[i] = f[i])
  BY DEF Holders
<1>2. g[h] = v /\ h \in 1..NumHolders /\ g \in [Holders -> Nat]
  BY DEF Holders
<1>3. NumHolders \in Nat /\ \A i \in 1..NumHolders : f[i] \in Nat
  BY HolderFacts DEF Holders
<1> HIDE DEF g
<1>4. SumTo(NumHolders, g) = SumTo(NumHolders, f) + g[h] - f[h]
  BY <1>1, <1>2, <1>3, SumToChange
<1>5. SumTo(NumHolders, f) \in Nat /\ f[h] <= SumTo(NumHolders, f)
  BY <1>2, <1>3, SumToNat, SumToTerm
<1> QED BY <1>2, <1>4, <1>5 DEF g

LEMMA MintHeld ==
  ASSUME Held, NEW receiver \in Users, NEW autoStake \in BOOLEAN, NEW share \in Nat, NEW minimum \in Nat,
         Pcl!MintShares(receiver, autoStake, share, minimum)
  PROVE  /\ Held'
         /\ supply' = supply + share + (IF supply = 0 THEN minimum ELSE 0)
         /\ lp'[Self] = lp[Self] + (IF supply = 0 THEN minimum ELSE 0)
<1> DEFINE kept == IF supply = 0 THEN minimum ELSE 0
           to == Beneficiary(receiver, autoStake)
           f == [lp EXCEPT ![Self] = lp[Self] + kept]
<1>0. kept \in Nat /\ to \in Holders /\ to # Self /\ Self \in Holders /\ lp \in [Holders -> Nat] /\ supply \in Nat
  BY HolderFacts DEF Beneficiary, Held
<1>1. lp' = [lp EXCEPT ![Self] = lp[Self] + kept, ![to] = lp[to] + share] /\ supply' = supply + kept + share
  <2>1. Pcl!Beneficiary(receiver, autoStake) = to /\ Pcl!Self = Self
    BY DEF Pcl!Beneficiary, Beneficiary, Pcl!Self, Self, Pcl!IncentivesAddr, IncentivesAddr
  <2> HIDE DEF to
  <2> QED BY <1>0, <2>1 DEF Pcl!MintShares
<1> HIDE DEF kept, to
<1>2. lp' = [f EXCEPT ![to] = f[to] + share] /\ lp'[Self] = lp[Self] + kept
  BY <1>0, <1>1
<1>3. f \in [Holders -> Nat] /\ SumTo(NumHolders, f) = supply + kept
  <2>1. lp[Self] + kept \in Nat
    BY <1>0
  <2>2. f \in [Holders -> Nat] /\ SumTo(NumHolders, f) = SumTo(NumHolders, lp) + (lp[Self] + kept) - lp[Self]
    BY <1>0, <2>1, SumMoved
  <2> QED BY <1>0, <2>2 DEF Held
<1> HIDE DEF f
<1>4. f[to] + share \in Nat
  BY <1>0, <1>3
<1>5. lp' \in [Holders -> Nat] /\ SumTo(NumHolders, lp') = SumTo(NumHolders, f) + (f[to] + share) - f[to]
  BY <1>0, <1>2, <1>3, <1>4, SumMoved
<1>6. Held'
  BY <1>0, <1>1, <1>3, <1>4, <1>5 DEF Held
<1> QED BY <1>0, <1>1, <1>2, <1>6 DEF kept

LEMMA BurnHeld ==
  ASSUME Held, NEW user \in Users, NEW amount, Pcl!BurnShares(user, amount)
  PROVE  /\ Held'
         /\ amount \in 1..supply /\ supply' = supply - amount
         /\ lp'[Self] = lp[Self] /\ lp'[Self] <= supply'
<1>0. user \in Holders /\ user # Self /\ Self \in Holders /\ lp \in [Holders -> Nat] /\ supply \in Nat
  BY HolderFacts DEF Held
<1>1. /\ amount \in 1..lp[user]
      /\ lp' = [lp EXCEPT ![user] = lp[user] - amount]
      /\ supply' = supply - amount
  BY <1>0 DEF Pcl!BurnShares
<1>2. lp[user] - amount \in Nat /\ lp[user] \in Nat /\ amount \in Nat
  BY <1>0, <1>1
<1>3. /\ lp' \in [Holders -> Nat]
      /\ SumTo(NumHolders, lp') = SumTo(NumHolders, lp) + (lp[user] - amount) - lp[user]
      /\ lp[user] <= supply
  BY <1>0, <1>1, <1>2, SumMoved DEF Held
<1>4. Held'
  BY <1>0, <1>1, <1>2, <1>3 DEF Held
<1>5. lp'[Self] <= supply'
  <2>1. 0 \in Nat
    OBVIOUS
  <2>2. lp'[Self] <= SumTo(NumHolders, lp')
    BY <1>0, <1>3, <2>1, SumMoved
  <2> QED BY <1>4, <2>2 DEF Held
<1> QED BY <1>0, <1>1, <1>2, <1>3, <1>4, <1>5
-----------------------------------------------------------------------------
(* What holds of the concentrated pair after every message.                *)

ParamsKept ==
  /\ DOMAIN params = Pcl!ParamFields
  /\ \A field \in Pcl!ParamFields : params[field] \in ParamLimits[field].least..ParamLimits[field].most

RampFields == {"initial", "initialTime", "future", "futureTime"}

(* While amp and gamma change, where they come from is within the limits.  *)
RampKept ==
  /\ DOMAIN state = RampFields /\ state.initialTime \in Int /\ state.futureTime \in Int
  /\ Pcl!WithinLimits(state.future)
  /\ now < state.futureTime => Pcl!WithinLimits(state.initial) /\ state.initialTime <= now

(* There are shares since the first deposit, and the pair has its minimum. *)
SharesKept ==
  /\ Held
  /\ supply > 0 => lp[Self] >= MinimumLiquidity
  /\ price.real > 0 => supply > 0

Seen == {traded[t] : t \in DOMAIN traded}

(* The price scale and the oracle are between the least and the greatest   *)
(* price that a block ended with.                                          *)
Between(low, high) == (\A x \in Seen : low <= x /\ x <= high) /\ Follows(price, now, low, high)

PegKept ==
  /\ now \in Nat \ {0} /\ traded \in Seq(Nat) /\ Len(traded) = now
  /\ PricesOK(price)
  /\ \E low, high \in Seen : Between(low, high)

PclInv ==
  /\ pools \in [1..2 -> Nat] /\ feeShare \in 0..Scale
  /\ ParamsKept /\ RampKept /\ SharesKept /\ PegKept

(* What is asked of the constants. *)
PclInputs == Pcl!Inputs /\ MaxIter \in Nat

LEMMA ParamsAre ==
  ASSUME PclInputs, ParamsKept
  PROVE  ParamsOK(params)
<1>1. \A field \in Pcl!ParamFields : /\ ParamLimits[field].least \in Nat /\ ParamLimits[field].most \in Nat
                                     /\ params[field] \in ParamLimits[field].least..ParamLimits[field].most
  BY DEF PclInputs, Pcl!Inputs, ParamsKept
<1>2. \A field \in Pcl!ParamFields : params[field] \in Nat
  BY <1>1
<1>3. params.maHalfTime > 0
  <2>1. ParamLimits["maHalfTime"].least > 0
    BY DEF PclInputs, Pcl!Inputs
  <2>2. "maHalfTime" \in Pcl!ParamFields
    BY DEF Pcl!ParamFields
  <2>3. /\ params["maHalfTime"] >= ParamLimits["maHalfTime"].least
        /\ params["maHalfTime"] \in Nat /\ ParamLimits["maHalfTime"].least \in Nat
    BY <1>1, <1>2, <2>2
  <2> QED BY <2>1, <2>3
<1>4. \A fee \in {"midFee", "outFee"} : params[fee] \in 0..Scale
  <2> TAKE fee \in {"midFee", "outFee"}
  <2>1. ParamLimits[fee].most <= Scale
    BY DEF PclInputs, Pcl!Inputs
  <2>2. fee \in Pcl!ParamFields
    BY DEF Pcl!ParamFields
  <2>3. params[fee] <= ParamLimits[fee].most /\ params[fee] \in Nat /\ ParamLimits[fee].most \in Nat
    BY <1>1, <1>2, <2>2
  <2> QED BY <2>1, <2>3, ScaleAssumption
<1>5. params.minDelta \in Nat /\ params.threshold \in Nat /\ params.feeGamma \in Nat /\ params.maHalfTime \in Nat
  BY <1>2 DEF Pcl!ParamFields
<1> QED BY <1>3, <1>4, <1>5 DEF ParamsOK

LEMMA PclInitially == PclInputs /\ Pcl!Init => PclInv
<1> SUFFICES ASSUME PclInputs, Pcl!Init PROVE PclInv
  OBVIOUS
<1>1. /\ lp = [h \in Holders |-> 0] /\ supply = 0
      /\ pools = [i \in 1..2 |-> 0] /\ params = InitialParams /\ feeShare = 0 /\ now = 1
      /\ state = [initial |-> [amp |-> 0, gamma |-> 0], initialTime |-> 1 - MinAmpChangingTime,
                  future |-> InitialAmpGamma, futureTime |-> now]
      /\ price = [oracle |-> InitialScale, last |-> InitialScale, scale |-> InitialScale, updated |-> now,
                  profit |-> 0, real |-> 0, losses |-> 0]
      /\ traded = <<InitialScale>>
  BY DEF Pcl!Init, Pcl!LpInit, Pcl!Holders, Pcl!NumHolders, Holders, NumHolders, Pcl!Assets
<1>2. InitialScale \in Nat \ {0} /\ MinAmpChangingTime \in Nat /\ Pcl!WithinLimits(InitialAmpGamma)
  BY DEF PclInputs, Pcl!Inputs
<1>3. pools \in [1..2 -> Nat] /\ feeShare \in 0..Scale
  BY <1>1, ScaleAssumption
<1>4. ParamsKept
  BY <1>1 DEF PclInputs, Pcl!Inputs, ParamsKept
<1>5. RampKept
  BY <1>1, <1>2 DEF RampKept, RampFields
<1>6. SharesKept
  <2>1. SumTo(NumHolders, lp) = 0
    <3>1. NumHolders \in Nat /\ lp = [i \in 1..NumHolders |-> 0]
      BY <1>1, HolderFacts DEF Holders
    <3> QED BY <3>1, SumToZero
  <2> QED BY <1>1, <2>1 DEF SharesKept, Held
<1>7. PegKept
  <2>1. PricesOK(price)
    BY <1>1, <1>2 DEF PricesOK, Pcl!PriceFields
  <2>2. traded \in Seq(Nat) /\ Len(traded) = 1 /\ Seen = {InitialScale}
    BY <1>1, <1>2 DEF Seen
  <2>3. Between(InitialScale, InitialScale)
    BY <1>1, <1>2, <2>2 DEF Between, Follows
  <2> QED BY <1>1, <2>1, <2>2, <2>3 DEF PegKept
<1> QED BY <1>3, <1>4, <1>5, <1>6, <1>7 DEF PclInv
-----------------------------------------------------------------------------
(* The messages of the owner.                                              *)

(* A value on the way from one to another is not outside of them. *)
LEMMA LineWithin ==
  ASSUME NEW low \in Nat, NEW high \in Nat, NEW from \in low..high, NEW to \in low..high,
         NEW total \in Nat \ {0}, NEW passed \in 0..total,
         NEW z, z = (from * (total - passed) + to * passed) \div total
  PROVE  z \in low..high
<1> DEFINE rest == total - passed
           N == from * rest + to * passed
<1>1. rest \in Nat /\ passed \in Nat /\ rest + passed = total
  OBVIOUS
<1>2. z = N \div total
  OBVIOUS
<1> HIDE DEF rest
<1>3. /\ low * rest <= from * rest /\ from * rest <= high * rest
      /\ low * passed <= to * passed /\ to * passed <= high * passed
  BY <1>1, Scaled
<1>4. /\ low * total = low * rest + low * passed /\ high * total = high * rest + high * passed
      /\ from * rest \in Nat /\ to * passed \in Nat /\ low * rest \in Nat /\ low * passed \in Nat
      /\ high * rest \in Nat /\ high * passed \in Nat
  BY <1>1
<1>5. N \in Nat /\ low * total <= N /\ N <= high * total
  BY <1>3, <1>4
<1> HIDE DEF N
<1>6. z \in Nat /\ z * total <= N /\ N < z * total + total
  BY <1>2, <1>5, DivBounds, DivNat
<1>7. z * total <= high * total /\ low * total < (z + 1) * total
  <2>1. (z + 1) * total = z * total + total /\ z * total \in Int /\ low * total \in Int /\ high * total \in Int
    BY <1>6
  <2> QED BY <1>5, <1>6, <2>1
<1>8. z <= high
  BY <1>6, <1>7, Cancel
<1>9. low < z + 1
  <2>1. z + 1 \in Int
    BY <1>6
  <2> QED BY <1>7, <2>1, CancelLess
<1> QED BY <1>6, <1>8, <1>9

LEMMA AmpGammaWithin ==
  ASSUME PclInputs, RampKept, now \in Nat
  PROVE  Pcl!WithinLimits(Pcl!AmpGamma)
<1> DEFINE total == state.futureTime - state.initialTime
           passed == now - state.initialTime
           Line(from, to) == (from * (total - passed) + to * passed) \div total
<1>1. /\ AmpLimits.least \in Nat /\ AmpLimits.most \in Nat /\ GammaLimits.least \in Nat /\ GammaLimits.most \in Nat
  BY DEF PclInputs, Pcl!Inputs
<1>2. CASE now >= state.futureTime
  BY <1>2 DEF RampKept, Pcl!AmpGamma, Pcl!AmpGammaAt
<1>3. CASE ~(now >= state.futureTime)
  <2>1. Pcl!WithinLimits(state.initial) /\ Pcl!WithinLimits(state.future) /\ total \in Nat \ {0} /\ passed \in 0..total
    BY <1>3 DEF RampKept
  <2>2. Pcl!AmpGamma = [amp |-> Line(state.initial.amp, state.future.amp),
                        gamma |-> Line(state.initial.gamma, state.future.gamma)]
    BY <1>3 DEF Pcl!AmpGamma, Pcl!AmpGammaAt
  <2> HIDE DEF total, passed
  <2>3. Line(state.initial.amp, state.future.amp) \in AmpLimits.least..AmpLimits.most
    BY <1>1, <2>1, LineWithin DEF Pcl!WithinLimits
  <2>4. Line(state.initial.gamma, state.future.gamma) \in GammaLimits.least..GammaLimits.most
    BY <1>1, <2>1, LineWithin DEF Pcl!WithinLimits
  <2> HIDE DEF Line
  <2> QED BY <2>2, <2>3, <2>4 DEF Pcl!WithinLimits
<1> QED BY <1>2, <1>3

LEMMA SharesStay ==
  ASSUME SharesKept, lp' = lp, supply' = supply, price'.real > 0 => price.real > 0
  PROVE  SharesKept'
BY DEF SharesKept, Held

LEMMA PegStays ==
  ASSUME PegKept, price' = price, now' = now, traded' = traded
  PROVE  PegKept'
<1>1. Seen' = Seen
  BY DEF Seen
<1>2. \A low, high : Between(low, high)' <=> Between(low, high)
  BY <1>1 DEF Between, Follows
<1>3. PricesOK(price)' <=> PricesOK(price)
  BY DEF PricesOK
<1> QED BY <1>1, <1>2, <1>3 DEF PegKept

LEMMA OwnerKeeps ==
  ASSUME PclInputs, PclInv,
         \/ \E new \in NewParams : Pcl!UpdateParams(new.field, new.value)
         \/ \E next \in NextAmpGammas, duration \in Durations : Pcl!PromoteParams(next, now + duration)
         \/ Pcl!StopPromotion
         \/ \E rate \in FeeShares : Pcl!UpdateFeeShare(rate)
  PROVE  PclInv'
<1>1. pools' = pools /\ lp' = lp /\ supply' = supply /\ price' = price /\ now' = now /\ traded' = traded
  BY DEF Pcl!UpdateParams, Pcl!PromoteParams, Pcl!StopPromotion, Pcl!UpdateFeeShare
<1>2. pools' \in [1..2 -> Nat] /\ SharesKept' /\ PegKept'
  BY <1>1, SharesStay, PegStays DEF PclInv
<1>3. CASE \E new \in NewParams : Pcl!UpdateParams(new.field, new.value)
  <2>1. PICK new \in NewParams : Pcl!UpdateParams(new.field, new.value)
    BY <1>3
  <2>2. /\ new.value \in ParamLimits[new.field].least..ParamLimits[new.field].most
        /\ params' = [params EXCEPT ![new.field] = new.value]
        /\ UNCHANGED <<feeShare, state, now>>
    BY <2>1 DEF Pcl!UpdateParams
  <2>3. ParamsKept'
    BY <2>2 DEF PclInv, ParamsKept
  <2>4. RampKept' /\ feeShare' \in 0..Scale
    BY <2>2 DEF PclInv, RampKept
  <2> QED BY <1>2, <2>3, <2>4 DEF PclInv
<1>4. CASE \E next \in NextAmpGammas, duration \in Durations : Pcl!PromoteParams(next, now + duration)
  <2>1. PICK next \in NextAmpGammas, duration \in Durations : Pcl!PromoteParams(next, now + duration)
    BY <1>4
  <2>2. /\ Pcl!WithinLimits(next)
        /\ state' = [initial |-> Pcl!AmpGamma, initialTime |-> now, future |-> next, futureTime |-> now + duration]
        /\ UNCHANGED <<feeShare, params, now>>
    BY <2>1 DEF Pcl!PromoteParams
  <2>3. now \in Nat /\ duration \in Nat
    BY DEF PclInv, PegKept, PclInputs, Pcl!Inputs
  <2>4. Pcl!WithinLimits(Pcl!AmpGamma)
    BY <2>3, AmpGammaWithin DEF PclInv
  <2>5. RampKept'
    BY <2>2, <2>3, <2>4 DEF RampKept, RampFields
  <2>6. ParamsKept' /\ feeShare' \in 0..Scale
    BY <2>2 DEF PclInv, ParamsKept
  <2> QED BY <1>2, <2>5, <2>6 DEF PclInv
<1>5. CASE Pcl!StopPromotion
  <2>1. /\ state' = [state EXCEPT !.future = Pcl!AmpGamma, !.futureTime = now]
        /\ UNCHANGED <<feeShare, params, now>>
    BY <1>5 DEF Pcl!StopPromotion
  <2>2. now \in Nat
    BY DEF PclInv, PegKept
  <2>3. Pcl!WithinLimits(Pcl!AmpGamma)
    BY <2>2, AmpGammaWithin DEF PclInv
  <2>4. RampKept'
    BY <2>1, <2>2, <2>3 DEF PclInv, RampKept, RampFields
  <2>5. ParamsKept' /\ feeShare' \in 0..Scale
    BY <2>1 DEF PclInv, ParamsKept
  <2> QED BY <1>2, <2>4, <2>5 DEF PclInv
<1>6. CASE \E rate \in FeeShares : Pcl!UpdateFeeShare(rate)
  <2>1. PICK rate \in FeeShares : Pcl!UpdateFeeShare(rate)
    BY <1>6
  <2>2. feeShare' = rate /\ UNCHANGED <<params, state, now>>
    BY <2>1 DEF Pcl!UpdateFeeShare
  <2>3. feeShare' \in 0..Scale
    BY <2>2 DEF PclInputs, Pcl!Inputs
  <2>4. ParamsKept' /\ RampKept'
    BY <2>2 DEF PclInv, ParamsKept, RampKept
  <2> QED BY <1>2, <2>3, <2>4 DEF PclInv
<1> QED BY <1>3, <1>4, <1>5, <1>6
-----------------------------------------------------------------------------
(* The messages of everybody, and time.                                    *)

(* New prices that follow whatever the old ones did keep to the trades.    *)
LEMMA PegMoves ==
  ASSUME PegKept, now' = now, traded' = traded, PricesOK(price'),
         \A low, high \in Nat : Follows(price, now, low, high) => Follows(price', now, low, high)
  PROVE  PegKept'
<1>1. Seen' = Seen /\ Seen \subseteq Nat
  BY DEF Seen, PegKept
<1>2. PICK low, high \in Seen : Between(low, high)
  BY DEF PegKept
<1>3. Between(low, high)'
  BY <1>1, <1>2 DEF Between
<1> QED BY <1>1, <1>3 DEF PegKept

LEMMA TickKeeps ==
  ASSUME PclInv, Pcl!Tick
  PROVE  PclInv'
<1>1. /\ now' = now + 1 /\ traded' = Append(traded, price.last)
      /\ pools' = pools /\ lp' = lp /\ supply' = supply /\ price' = price
      /\ feeShare' = feeShare /\ params' = params /\ state' = state
  BY DEF Pcl!Tick, Pcl!pairVars
<1>2. now \in Nat \ {0} /\ traded \in Seq(Nat) /\ Len(traded) = now /\ PricesOK(price)
  BY DEF PclInv, PegKept
<1>3. price.oracle \in Nat /\ price.last \in Nat /\ price.scale \in Nat /\ price.updated \in Nat
  BY <1>2, Fields
<1>4. PICK low, high \in Seen : Between(low, high)
  BY DEF PclInv, PegKept
<1>5. low \in Nat /\ high \in Nat
  BY <1>2 DEF Seen
<1> DEFINE x == price.last
<1>6. Seen' = Seen \cup {x} /\ Seen \subseteq Nat /\ traded' \in Seq(Nat) /\ Len(traded') = now'
  <2>1. x \in Nat
    BY <1>3
  <2> HIDE DEF x
  <2>2. traded' = Append(traded, x)
    BY <1>1 DEF x
  <2>3. /\ traded' \in Seq(Nat) /\ Len(traded') = now + 1 /\ traded'[now + 1] = x
        /\ \A t \in 1..now : traded'[t] = traded[t]
    BY <1>2, <2>1, <2>2
  <2>4. DOMAIN traded = 1..now /\ DOMAIN traded' = 1..(now + 1)
    BY <1>2, <2>3
  <2>5. 1..(now + 1) = (1..now) \cup {now + 1}
    BY <1>2
  <2>6. Seen' = Seen \cup {x}
    BY <2>3, <2>4, <2>5 DEF Seen
  <2> QED BY <1>1, <1>2, <2>3, <2>6 DEF Seen
<1>7. PICK l \in Nat, h \in Nat : /\ l \in {low, x} /\ h \in {high, x}
                                  /\ l <= low /\ l <= x /\ high <= h /\ x <= h
  <2> DEFINE y == IF x < low THEN x ELSE low
             z == IF high < x THEN x ELSE high
  <2>1. x \in Nat /\ y \in Nat /\ z \in Nat /\ y \in {low, x} /\ z \in {high, x}
    BY <1>3, <1>5
  <2>2. y <= low /\ y <= x /\ high <= z /\ x <= z
    BY <1>3, <1>5
  <2> QED BY <2>1, <2>2
<1>8. Follows(price, now, low, high) /\ \A y \in Seen : low <= y /\ y <= high
  BY <1>4 DEF Between
<1>9. Follows(price, now + 1, l, h)
  <2>1. price.oracle <= high /\ low <= price.oracle + 2 * price.updated
        /\ price.scale <= high /\ low <= price.scale + 2 * now /\ price.updated <= now
    BY <1>8 DEF Follows
  <2>2. price.oracle <= h /\ l <= price.oracle + 2 * price.updated
        /\ price.scale <= h /\ l <= price.scale + 2 * (now + 1) /\ price.updated <= now + 1
    <3> DEFINE o == price.oracle
               s == price.scale
               u == price.updated
    <3>1. o \in Nat /\ s \in Nat /\ u \in Nat /\ now \in Nat /\ l <= low /\ high <= h
      BY <1>2, <1>3, <1>7
    <3>2. o <= high /\ low <= o + 2 * u /\ s <= high /\ low <= s + 2 * now /\ u <= now
      BY <2>1
    <3> HIDE DEF o, s, u
    <3>3. o <= h /\ l <= o + 2 * u /\ s <= h /\ l <= s + 2 * (now + 1) /\ u <= now + 1
      BY <1>5, <3>1, <3>2
    <3> QED BY <3>3 DEF o, s, u
  <2> QED BY <1>7, <2>2 DEF Follows
<1>10. Between(l, h)'
  <2>1. Follows(price, now, l, h)'
    BY <1>1, <1>9
  <2>2. \A y \in Seen' : l <= y /\ y <= h
    BY <1>3, <1>5, <1>6, <1>7, <1>8
  <2> QED BY <2>1, <2>2 DEF Between
<1>11. PegKept'
  <2>1. PricesOK(price)' /\ now' \in Nat \ {0}
    BY <1>1, <1>2 DEF PricesOK
  <2> QED BY <1>4, <1>6, <1>7, <1>10, <2>1 DEF PegKept
<1>12. SharesKept'
  BY <1>1, SharesStay DEF PclInv
<1>13. ParamsKept' /\ pools' \in [1..2 -> Nat] /\ feeShare' \in 0..Scale
  BY <1>1 DEF PclInv, ParamsKept
<1>14. RampKept'
  BY <1>1, <1>2 DEF PclInv, RampKept
<1> QED BY <1>11, <1>12, <1>13, <1>14 DEF PclInv

LEMMA DonateKeeps ==
  ASSUME PclInputs, PclInv, NEW i \in Pcl!Assets, NEW gift \in Gifts, Pcl!Donate(i, gift)
  PROVE  PclInv'
<1>1. /\ pools' = [pools EXCEPT ![i] = pools[i] + gift]
      /\ lp' = lp /\ supply' = supply /\ price' = price /\ now' = now /\ traded' = traded
      /\ feeShare' = feeShare /\ params' = params /\ state' = state
  BY DEF Pcl!Donate
<1>2. gift \in Nat /\ i \in 1..2
  BY DEF PclInputs, Pcl!Inputs, Pcl!Assets
<1>3. pools' \in [1..2 -> Nat]
  BY <1>1, <1>2 DEF PclInv
<1>4. ParamsKept' /\ RampKept' /\ feeShare' \in 0..Scale
  BY <1>1 DEF PclInv, ParamsKept, RampKept
<1> QED BY <1>1, <1>3, <1>4, SharesStay, PegStays DEF PclInv

LEMMA WithdrawKeeps ==
  ASSUME PclInputs, PclInv, NEW user \in Pcl!Users, NEW amount, Pcl!WithdrawLiquidity(user, amount)
  PROVE  PclInv'
<1>1. /\ pools' = [j \in 1..2 |-> pools[j] - Pcl!Refund(amount)[j]]
      /\ Pcl!BurnShares(user, amount)
      /\ price' = price /\ now' = now /\ traded' = traded
      /\ feeShare' = feeShare /\ params' = params /\ state' = state
  BY DEF Pcl!WithdrawLiquidity, Pcl!Assets
<1>2. user \in Users /\ Held /\ lp[Self] \in Nat
  BY HolderFacts DEF Pcl!Users, Users, PclInv, SharesKept, Held
<1>3. /\ Held'
      /\ amount \in 1..supply /\ supply' = supply - amount
      /\ lp'[Self] = lp[Self] /\ lp'[Self] <= supply'
  BY <1>1, <1>2, BurnHeld
<1>4. supply \in Nat /\ MinimumLiquidity \in Nat \ {0}
  BY <1>2 DEF Held, PclInputs, Pcl!Inputs
<1>5. supply > 0 /\ lp[Self] >= MinimumLiquidity
  BY <1>3, <1>4 DEF PclInv, SharesKept
<1>6. SharesKept'
  BY <1>1, <1>2, <1>3, <1>4, <1>5 DEF SharesKept
<1>7. pools' \in [1..2 -> Nat]
  <2>1. Pcl!Ratio(amount - 1, supply) \in 0..Scale
    <3> DEFINE r == ((amount - 1) * Scale) \div supply
    <3>1. supply \in Nat \ {0} /\ amount - 1 \in Nat /\ amount - 1 <= supply /\ Scale \in Nat \ {0}
      BY <1>3, <1>4, ScaleAssumption
    <3>2. (amount - 1) * Scale \in Nat /\ (amount - 1) * Scale <= Scale * supply
      <4>1. (amount - 1) * Scale <= supply * Scale
        BY <3>1, Scaled
      <4>2. supply * Scale = Scale * supply /\ (amount - 1) * Scale \in Nat
        BY <3>1
      <4> QED BY <4>1, <4>2
    <3>3. r \in Nat /\ r * supply <= (amount - 1) * Scale
      BY <3>1, <3>2, DivBounds, DivNat
    <3> HIDE DEF r
    <3>4. r * supply <= Scale * supply
      <4>1. r * supply \in Int /\ Scale * supply \in Int
        BY <3>1, <3>3
      <4> QED BY <3>2, <3>3, <4>1
    <3>5. r <= Scale
      BY <3>1, <3>3, <3>4, Cancel
    <3> QED BY <3>1, <3>3, <3>5 DEF r, Pcl!Ratio
  <2> SUFFICES ASSUME NEW j \in 1..2 PROVE pools[j] - Pcl!Refund(amount)[j] \in Nat
    BY <1>1
  <2> DEFINE x == pools[j] * Unit[j]
             ratio == Pcl!Ratio(amount - 1, supply)
             paid == Pcl!Times(x, ratio)
             units == paid \div Unit[j]
  <2>2. pools[j] \in Nat /\ Unit[j] \in Nat \ {0} /\ x \in Nat
    BY DEF PclInv, PclInputs, Pcl!Inputs
  <2>3. Pcl!Refund(amount)[j] = units
    BY DEF Pcl!Refund, Pcl!Assets, Pcl!ToUint, Pcl!Decimal
  <2> HIDE DEF ratio
  <2>4. paid \in 0..x
    BY <2>1, <2>2, PclTimesWithin DEF ratio
  <2>5. paid \in Nat /\ paid <= pools[j] * Unit[j]
    BY <2>2, <2>4
  <2> HIDE DEF paid
  <2>6. units \in Nat /\ units * Unit[j] <= paid
    BY <2>2, <2>5, DivBounds, DivNat
  <2> HIDE DEF units
  <2>7. units * Unit[j] <= pools[j] * Unit[j]
    <3>1. units * Unit[j] \in Int /\ pools[j] * Unit[j] \in Int
      BY <2>2, <2>6
    <3> QED BY <2>5, <2>6, <3>1
  <2>8. units <= pools[j]
    BY <2>2, <2>6, <2>7, Cancel
  <2> QED BY <2>2, <2>3, <2>6, <2>8
<1>8. ParamsKept' /\ RampKept' /\ feeShare' \in 0..Scale
  BY <1>1 DEF PclInv, ParamsKept, RampKept
<1> QED BY <1>1, <1>6, <1>7, <1>8, PegStays DEF PclInv

(* A message that updates the prices; p is what it starts from. *)
LEMMA UpdateKeepsPeg ==
  ASSUME PclInputs, PclInv, now' = now, traded' = traded,
         NEW p, PricesOK(p),
         p.oracle = price.oracle, p.last = price.last, p.scale = price.scale, p.updated = price.updated,
         NEW totalLp, Owned(p, totalLp), NEW xp, Whole(xp), NEW last \in Nat,
         NEW u, u = Pcl!UpdatePrice(p, params, state, now, totalLp, xp, last), u.done, price' = u.price
  PROVE  PegKept' /\ (price'.real > 0 => p.real > 0)
<1>1. ParamsOK(params) /\ MaxIter \in Nat /\ PegKept /\ now \in Nat
  BY ParamsAre DEF PclInv, PclInputs, PegKept
<1>2. ASSUME NEW low \in Nat, NEW high \in Nat, Follows(price, now, low, high)
      PROVE  PricesOK(price') /\ Follows(price', now, low, high) /\ (price'.real > 0 => p.real > 0)
  <2>1. Follows(p, now, low, high)
    BY <1>2 DEF Follows
  <2> DEFINE q == u.price
  <2>2. q = u.price
    OBVIOUS
  <2> HIDE DEF q
  <2>3. PricesOK(q) /\ Follows(q, now, low, high) /\ (q.real > 0 => p.real > 0)
    BY <1>1, <2>1, <2>2, UpdateFollows
  <2> QED BY <2>3 DEF q
<1>3. PICK low \in Nat, high \in Nat : Follows(price, now, low, high)
  BY DEF PclInv, PegKept, Between, Seen
<1>4. PricesOK(price') /\ (price'.real > 0 => p.real > 0)
  BY <1>2, <1>3
<1>5. PegKept'
  BY <1>1, <1>2, <1>4, PegMoves
<1> QED BY <1>4, <1>5

LEMMA SwapKeeps ==
  ASSUME PclInputs, PclInv, NEW offered \in Pcl!Assets, NEW amount \in Offers, NEW info \in FeeInfos,
         NEW belief, NEW maxSpread, Pcl!Swap(offered, amount, info, belief, maxSpread)
  PROVE  PclInv'
<1> DEFINE asked == 3 - offered
           x == Pcl!Decimal(pools)
           offer == amount * Unit[offered]
           result == Pcl!SwapResult(x, offered, offer, info.maker, feeShare)
           leaving == Pcl!Leaving(result)
           after == [x EXCEPT ![offered] = x[offered] + offer, ![asked] = x[asked] - leaving]
           large == offer >= MinTradeSize /\ leaving >= MinTradeSize
           last == Pcl!LastPrice(result, offered, offer)
           update == Pcl!UpdatePrice(price, params, state, now, supply * LpUnit, Pcl!Internal(after, price.scale), last)
           return == result.return \div Unit[asked]
           shared == result.shared \div Unit[asked]
           maker == result.maker \div Unit[asked]
<1>1. /\ result.done
      /\ large => update.done
      /\ price' = IF large THEN update.price ELSE price
      /\ pools' = [pools EXCEPT ![offered] = pools[offered] + amount,
                     ![asked] = pools[asked] - return - shared - maker]
  BY DEF Pcl!Swap, Pcl!Other, Pcl!ToUint, Pcl!TotalLp, Pcl!Assets
<1>2. /\ lp' = lp /\ supply' = supply /\ params' = params /\ state' = state /\ feeShare' = feeShare
      /\ now' = now /\ traded' = traded
  BY DEF Pcl!Swap
<1>3. /\ offered \in 1..2 /\ asked \in 1..2 /\ asked # offered /\ amount \in Nat /\ info.maker \in 0..Scale
      /\ Unit \in [1..2 -> Nat \ {0}] /\ MinTradeSize \in Nat \ {0} /\ LpUnit \in Nat \ {0}
      /\ pools \in [1..2 -> Nat] /\ feeShare \in 0..Scale
  BY DEF PclInputs, Pcl!Inputs, Pcl!Assets, PclInv
<1>4. PricesOK(price) /\ ParamsOK(params)
  BY ParamsAre DEF PclInv, PegKept
<1>5. x \in [1..2 -> Nat] /\ offer \in Nat /\ x[asked] = pools[asked] * Unit[asked]
  BY <1>3 DEF Pcl!Decimal, Pcl!Assets
<1> HIDE DEF x, offer
<1>6. Paid(result, x[asked])
  BY <1>1, <1>3, <1>4, <1>5, SwapPays
<1> HIDE DEF result
<1>7. pools' \in [1..2 -> Nat]
  <2>1. /\ result.return \in Nat /\ result.shared \in Nat /\ result.maker \in Nat
        /\ result.return + result.shared + result.maker <= pools[asked] * Unit[asked]
    BY <1>5, <1>6 DEF Paid, Pcl!Leaving
  <2>2. return \in Nat /\ shared \in Nat /\ maker \in Nat /\ return + shared + maker <= pools[asked]
    BY <1>3, <2>1, UnitsWithin
  <2> HIDE DEF return, shared, maker, asked
  <2> QED BY <1>1, <1>3, <2>2
<1>8. SharesKept' /\ PegKept'
  <2>1. CASE large
    <3>1. leaving \in Nat \ {0} /\ leaving <= x[asked] /\ offer \in Nat \ {0}
      BY <2>1, <1>3, <1>5, <1>6 DEF Paid
    <3> HIDE DEF leaving
    <3>2. last \in Nat
      BY <3>1, RatioNat DEF Pcl!LastPrice, leaving
    <3>3. Whole(after)
      <4>1. x[offered] + offer \in Nat /\ x[asked] - leaving \in Nat
        BY <1>3, <1>5, <3>1
      <4> HIDE DEF asked
      <4> QED BY <1>3, <1>5, <4>1 DEF Whole
    <3> HIDE DEF after, last
    <3>4. price.scale \in Nat
      BY <1>4, Fields
    <3>5. Whole(Pcl!Internal(after, price.scale))
      BY <3>3, <3>4, InternalWhole
    <3>6. Owned(price, supply * LpUnit)
      BY <1>3 DEF Owned, PclInv, SharesKept, Held
    <3> DEFINE xp == Pcl!Internal(after, price.scale)
               total == supply * LpUnit
               u == Pcl!UpdatePrice(price, params, state, now, total, xp, last)
    <3>7. u.done /\ price' = u.price
      BY <1>1, <2>1
    <3> HIDE DEF xp, total
    <3>8. Whole(xp) /\ Owned(price, total)
      BY <3>5, <3>6 DEF xp, total
    <3>9. PegKept' /\ (price'.real > 0 => price.real > 0)
      <4> HIDE DEF u
      <4>1. u = Pcl!UpdatePrice(price, params, state, now, total, xp, last)
        BY DEF u
      <4> QED BY <1>2, <1>4, <3>2, <3>7, <3>8, <4>1, UpdateKeepsPeg
    <3> QED BY <1>2, <3>9, SharesStay DEF PclInv
  <2>2. CASE ~large
    <3>1. price' = price
      BY <1>1, <2>2
    <3> QED BY <1>2, <3>1, SharesStay, PegStays DEF PclInv
  <2> QED BY <2>1, <2>2
<1>9. ParamsKept' /\ RampKept' /\ feeShare' \in 0..Scale
  BY <1>2 DEF PclInv, ParamsKept, RampKept
<1> QED BY <1>7, <1>8, <1>9 DEF PclInv

LEMMA ProvideKeeps ==
  ASSUME PclInputs, PclInv, NEW receiver \in Pcl!Users, NEW autoStake \in AutoStakes,
         NEW a \in Deposits, NEW b \in Deposits, NEW tolerance, NEW least,
         Pcl!ProvideLiquidity(receiver, autoStake, <<a, b>>, tolerance, least)
  PROVE  PclInv'
<1> DEFINE amounts == <<a, b>>
           deposit == Pcl!Deposit(amounts)
           expected == [i \in 1..2 |-> pools[i] + amounts[i]]
           held == Pcl!Decimal(expected)
           xp == Pcl!Internal(held, price.scale)
           share == Pcl!Shares(deposit)
           total == supply * LpUnit + share
           current == IF supply = 0 THEN [price EXCEPT !.real = Scale, !.profit = Scale] ELSE price
           apart == Pcl!Imbalance(deposit, share, xp)
           trades == \A i \in 1..2 : apart[i] >= MinTradeSize
           last == Pcl!Ratio(apart[1], apart[2])
           update == Pcl!UpdatePrice(current, params, state, now, total, xp, last)
           minted == share \div LpUnit
<1>1. /\ share \in Nat /\ (supply = 0 => share > 0)
      /\ trades => update.done
      /\ price' = IF trades THEN update.price ELSE current
      /\ Pcl!MintShares(receiver, autoStake, minted, MinimumLiquidity)
      /\ pools' = expected
  BY DEF Pcl!ProvideLiquidity, Pcl!Mint, Pcl!TotalLp, Pcl!Assets
<1>2. params' = params /\ state' = state /\ feeShare' = feeShare /\ now' = now /\ traded' = traded
  BY DEF Pcl!ProvideLiquidity
<1>3. /\ receiver \in Users /\ autoStake \in BOOLEAN /\ a \in Nat /\ b \in Nat
      /\ Unit \in [1..2 -> Nat \ {0}] /\ MinTradeSize \in Nat \ {0} /\ LpUnit \in Nat \ {0}
      /\ MinimumLiquidity \in Nat \ {0} /\ pools \in [1..2 -> Nat]
  BY DEF PclInputs, Pcl!Inputs, PclInv, Pcl!Users, Users
<1>4. PricesOK(price) /\ Held /\ supply \in Nat /\ price.scale \in Nat \ {0}
  BY Fields DEF PclInv, PegKept, SharesKept, Held
<1>5. expected \in [1..2 -> Nat]
  <2>1. amounts[1] = a /\ amounts[2] = b
    OBVIOUS
  <2> QED BY <1>3, <2>1
<1>6. Whole(xp)
  <2> HIDE DEF expected
  <2>1. Whole(held)
    BY <1>3, <1>5 DEF Whole, Pcl!Decimal, Pcl!Assets
  <2> HIDE DEF held
  <2> QED BY <1>4, <2>1, InternalWhole
<1>7. deposit[1] \in Nat /\ deposit[2] \in Nat
  BY <1>3 DEF Pcl!Deposit, Pcl!Decimal, Pcl!Assets
<1> HIDE DEF deposit, expected, held, xp, share
<1>8. total \in Nat \ {0}
  <2>1. supply # 0 => supply * LpUnit \in Nat \ {0}
    BY <1>3, <1>4
  <2>2. supply = 0 => supply * LpUnit = 0
    BY <1>3
  <2> DEFINE s == supply * LpUnit
  <2> HIDE DEF s
  <2>3. (supply # 0 => s \in Nat \ {0}) /\ (supply = 0 => s = 0)
    BY <2>1, <2>2 DEF s
  <2>4. s + share \in Nat \ {0}
    BY <1>1, <2>3
  <2> QED BY <2>4 DEF s
<1>9. apart[1] \in Nat /\ apart[2] \in Nat
  <2> DEFINE ratio == Pcl!Ratio(share, total)
             first == Pcl!Times(xp[1], ratio)
             second == Pcl!Ratio(Pcl!Times(xp[2], ratio), price.scale)
  <2>1. apart[1] = Pcl!Apart(deposit[1], first) /\ apart[2] = Pcl!Apart(deposit[2], second)
    BY DEF Pcl!Imbalance, Pcl!TotalLp, Pcl!Assets
  <2> HIDE DEF total, apart
  <2>2. ratio \in Nat
    BY <1>1, <1>8, RatioNat
  <2> HIDE DEF ratio
  <2>3. first \in Nat
    BY <1>6, <2>2, TimesNat DEF Whole
  <2>4. Pcl!Times(xp[2], ratio) \in Nat
    BY <1>6, <2>2, TimesNat DEF Whole
  <2>5. second \in Nat
    BY <1>4, <2>4, RatioNat
  <2> HIDE DEF first, second
  <2> QED BY <1>7, <2>1, <2>3, <2>5 DEF Pcl!Apart
<1> HIDE DEF total, apart
<1>10. /\ PricesOK(current) /\ Owned(current, total)
       /\ current.oracle = price.oracle /\ current.last = price.last
       /\ current.scale = price.scale /\ current.updated = price.updated
  <2>1. CASE supply = 0
    <3>1. current = [price EXCEPT !.real = Scale, !.profit = Scale]
      BY <2>1
    <3> HIDE DEF current
    <3>2. /\ DOMAIN current = Pcl!PriceFields /\ current.real = Scale /\ current.profit = Scale
          /\ current.oracle = price.oracle /\ current.last = price.last
          /\ current.scale = price.scale /\ current.updated = price.updated /\ current.losses = price.losses
      BY <1>4, <3>1 DEF PricesOK, Pcl!PriceFields
    <3>3. PricesOK(current)
      BY <1>4, <3>2, Fields, ScaleAssumption DEF PricesOK, Pcl!PriceFields
    <3> QED BY <1>8, <3>2, <3>3 DEF Owned
  <2>2. CASE supply # 0
    BY <1>4, <1>8, <2>2 DEF Owned
  <2> QED BY <2>1, <2>2
<1> HIDE DEF current
<1>11. PegKept'
  <2>1. CASE trades
    <3>1. last \in Nat
      <4>1. apart[2] \in Nat \ {0}
        BY <2>1, <1>3, <1>9
      <4> QED BY <1>9, <4>1, RatioNat
    <3> DEFINE u == Pcl!UpdatePrice(current, params, state, now, total, xp, last)
    <3>2. u.done /\ price' = u.price
      BY <1>1, <2>1
    <3> HIDE DEF last
    <3>3. u = Pcl!UpdatePrice(current, params, state, now, total, xp, last)
      OBVIOUS
    <3> HIDE DEF u
    <3> QED BY <1>2, <1>6, <1>10, <3>1, <3>2, <3>3, UpdateKeepsPeg
  <2>2. CASE ~trades
    <3>1. price' = current
      BY <1>1, <2>2
    <3>2. \A low, high \in Nat : Follows(price, now, low, high) => Follows(price', now, low, high)
      BY <1>10, <3>1 DEF Follows
    <3> QED BY <1>2, <1>10, <3>1, <3>2, PegMoves DEF PclInv
  <2> QED BY <2>1, <2>2
<1>12. SharesKept'
  <2>1. minted \in Nat
    BY <1>1, <1>3, DivNat
  <2> HIDE DEF minted
  <2>2. /\ Held'
        /\ supply' = supply + minted + (IF supply = 0 THEN MinimumLiquidity ELSE 0)
        /\ lp'[Self] = lp[Self] + (IF supply = 0 THEN MinimumLiquidity ELSE 0)
    BY <1>1, <1>3, <1>4, <2>1, MintHeld
  <2>3. lp[Self] \in Nat
    BY <1>4, HolderFacts DEF Held
  <2>4. supply' > 0
    BY <1>3, <1>4, <2>1, <2>2
  <2>5. lp'[Self] >= MinimumLiquidity
    BY <1>3, <1>4, <2>2, <2>3 DEF PclInv, SharesKept
  <2> QED BY <2>2, <2>4, <2>5 DEF SharesKept
<1>13. ParamsKept' /\ RampKept' /\ feeShare' \in 0..Scale
  BY <1>2 DEF PclInv, ParamsKept, RampKept
<1> QED BY <1>1, <1>5, <1>11, <1>12, <1>13 DEF PclInv

LEMMA PclStep == PclInputs /\ PclInv /\ [Pcl!Next]_Pcl!vars => PclInv'
<1> SUFFICES ASSUME PclInputs, PclInv, [Pcl!Next]_Pcl!vars PROVE PclInv'
  OBVIOUS
<1>1. ASSUME NEW receiver \in Pcl!Users, NEW autoStake \in AutoStakes, NEW a \in Deposits, NEW b \in Deposits,
             NEW tolerance \in Tolerances, NEW least \in Minima,
             Pcl!ProvideLiquidity(receiver, autoStake, <<a, b>>, tolerance, least)
      PROVE  PclInv'
  BY <1>1, ProvideKeeps
<1>2. ASSUME NEW user \in Pcl!Users, NEW amount \in LpAmounts, Pcl!WithdrawLiquidity(user, amount)
      PROVE  PclInv'
  BY <1>2, WithdrawKeeps
<1>3. ASSUME NEW offered \in Pcl!Assets, NEW offer \in Offers, NEW info \in FeeInfos, NEW belief \in BeliefPrices,
             NEW maxSpread \in Tolerances, Pcl!Swap(offered, offer, info, belief, maxSpread)
      PROVE  PclInv'
  BY <1>3, SwapKeeps
<1>4. ASSUME NEW i \in Pcl!Assets, NEW gift \in Gifts, Pcl!Donate(i, gift)
      PROVE  PclInv'
  BY <1>4, DonateKeeps
<1>5. CASE \/ \E new \in NewParams : Pcl!UpdateParams(new.field, new.value)
           \/ \E next \in NextAmpGammas, duration \in Durations : Pcl!PromoteParams(next, now + duration)
           \/ Pcl!StopPromotion
           \/ \E rate \in FeeShares : Pcl!UpdateFeeShare(rate)
  BY <1>5, OwnerKeeps
<1>6. CASE Pcl!Tick
  BY <1>6, TickKeeps
<1>7. CASE UNCHANGED Pcl!vars
  <2>1. /\ pools' = pools /\ lp' = lp /\ supply' = supply /\ price' = price /\ now' = now /\ traded' = traded
        /\ feeShare' = feeShare /\ params' = params /\ state' = state
    BY <1>7 DEF Pcl!vars, Pcl!pairVars
  <2>2. ParamsKept' /\ RampKept'
    BY <2>1 DEF PclInv, ParamsKept, RampKept
  <2> QED BY <2>1, <2>2, SharesStay, PegStays DEF PclInv
<1> QED BY <1>1, <1>2, <1>3, <1>4, <1>5, <1>6, <1>7 DEF Pcl!Next

LEMMA PclAlways == ASSUME PclInputs PROVE Pcl!Spec => []PclInv
<1>1. Pcl!Init => PclInv
  BY PclInitially
<1>2. PclInv /\ [Pcl!Next]_Pcl!vars => PclInv'
  BY PclStep
<1> QED BY <1>1, <1>2, PTL DEF Pcl!Spec

LEMMA LeastSeen ==
  ASSUME NEW S, NEW low \in S, S \subseteq Nat, \A x \in S : low <= x
  PROVE  Pcl!Least(S) = low
<1> DEFINE L == Pcl!Least(S)
<1>1. L \in S /\ \A y \in S : L <= y
  BY DEF Pcl!Least
<1> HIDE DEF L
<1>2. L \in Nat /\ low \in Nat /\ L <= low /\ low <= L
  BY <1>1
<1>3. L = low
  BY <1>2
<1> QED BY <1>3 DEF L

LEMMA MostSeen ==
  ASSUME NEW S, NEW high \in S, S \subseteq Nat, \A x \in S : x <= high
  PROVE  Pcl!Most(S) = high
<1> DEFINE H == Pcl!Most(S)
<1>1. H \in S /\ \A y \in S : H >= y
  BY DEF Pcl!Most
<1> HIDE DEF H
<1>2. H \in Nat /\ high \in Nat /\ H <= high /\ high <= H
  BY <1>1
<1>3. H = high
  BY <1>2
<1> QED BY <1>3 DEF H

LEMMA PegFollows == PclInv => Pcl!PegFollowsTrades
<1> SUFFICES ASSUME PclInv PROVE Pcl!PegFollowsTrades
  OBVIOUS
<1>1. PICK low, high \in Seen : Between(low, high)
  BY DEF PclInv, PegKept
<1>a. now \in Nat \ {0} /\ traded \in Seq(Nat) /\ PricesOK(price)
  BY DEF PclInv, PegKept
<1>2. Seen \subseteq Nat /\ now \in Nat /\ PricesOK(price)
  <2>1. \A t \in DOMAIN traded : traded[t] \in Nat
    BY <1>a
  <2>2. Seen \subseteq Nat
    BY <2>1 DEF Seen
  <2> QED BY <1>a, <2>2
<1>3. Pcl!Least(Seen) = low /\ Pcl!Most(Seen) = high
  BY <1>1, <1>2, LeastSeen, MostSeen DEF Between
<1>4. /\ price.oracle <= high /\ low <= price.oracle + 2 * price.updated
      /\ price.scale <= high /\ low <= price.scale + 2 * now /\ price.updated <= now
  BY <1>1 DEF Between, Follows
<1>5. \A p \in {price.oracle, price.scale} : p + 2 * now >= low /\ p <= high
  <2>1. price.oracle \in Nat /\ price.scale \in Nat /\ price.updated \in Nat /\ low \in Nat /\ high \in Nat
    BY <1>1, <1>2, Fields
  <2> DEFINE o == price.oracle
             u == price.updated
  <2>2. o \in Nat /\ u \in Nat /\ low <= o + 2 * u /\ u <= now
    BY <1>4, <2>1
  <2> HIDE DEF o, u
  <2>3. o + 2 * now >= low
    BY <1>2, <2>1, <2>2
  <2> QED BY <1>4, <2>1, <2>3 DEF o
<1> QED BY <1>3, <1>5 DEF Pcl!PegFollowsTrades, Seen

(* The oracle and the price scale of the concentrated pair stay between    *)
(* the least and the greatest price that a block ended with, up to two     *)
(* atomics for each block, whatever is traded within the blocks and        *)
(* whatever the owner changes.                                             *)
THEOREM PegAlwaysFollowsTrades == ASSUME PclInputs PROVE Pcl!Spec => []Pcl!PegFollowsTrades
BY PclAlways, PegFollows, PTL

LEMMA PclTypes == PclInputs /\ PclInv => Pcl!TypeOK
<1> SUFFICES ASSUME PclInputs, PclInv PROVE Pcl!TypeOK
  OBVIOUS
<1>1. Pcl!LpTypeOK
  BY DEF PclInv, SharesKept, Held, Pcl!LpTypeOK, Pcl!Holders, Holders, Pcl!NumHolders, NumHolders
<1>2. DOMAIN price = Pcl!PriceFields /\ \A field \in Pcl!PriceFields : price[field] \in Nat
  BY DEF PclInv, PegKept, PricesOK
<1>3. pools \in [Pcl!Assets -> Nat] /\ Len(traded) = now /\ feeShare \in 0..Scale
  BY DEF PclInv, PegKept, Pcl!Assets
<1> QED BY <1>1, <1>2, <1>3 DEF PclInv, ParamsKept, RampKept, Pcl!TypeOK

(* The numbers of the concentrated pair are never negative: no swap, with  *)
(* its fees in the units of each asset, and no withdrawal pays more than   *)
(* the pair has.                                                           *)
THEOREM ConcentratedAlwaysTyped == ASSUME PclInputs PROVE Pcl!Spec => []Pcl!TypeOK
<1>1. PclInv => Pcl!TypeOK
  BY PclTypes
<1> QED BY <1>1, PclAlways, PTL

(* The shares of the concentrated pair are those of its holders, and as    *)
(* long as there are any the pair itself has the least amount of them: no  *)
(* division by the supply or by what a share is worth is one by zero.      *)
THEOREM ConcentratedSharesAlwaysHeld == ASSUME PclInputs PROVE Pcl!Spec => []SharesKept
<1>1. PclInv => SharesKept
  BY DEF PclInv
<1> QED BY <1>1, PclAlways, PTL
-----------------------------------------------------------------------------
(***************************************************************************)
(* The observations of the concentrated pair, and of a pair whose swaps    *)
(* have any sizes: they are made and asked for by the same code.           *)
(***************************************************************************)
Alone == INSTANCE PriceObservations

LEMMA SameObserving ==
  /\ Pcl!AccumulateSwapSizes <=> AccumulateSwapSizes
  /\ Alone!AccumulateSwapSizes <=> AccumulateSwapSizes
  /\ \A base, quote : Pcl!SavePrecommit(base, quote) <=> SavePrecommit(base, quote)
  /\ \A base, quote : Alone!SavePrecommit(base, quote) <=> SavePrecommit(base, quote)
<1>1. Pcl!AccumulateSwapSizes <=> AccumulateSwapSizes
  BY DEF Pcl!AccumulateSwapSizes, AccumulateSwapSizes, Pcl!ToCommit, ToCommit, Pcl!Observation, Observation,
    Pcl!NextSma, NextSma, Pcl!ReadLast, ReadLast, Pcl!Ratio, Ratio, Pcl!ReadSingle, ReadSingle, Pcl!Exists, Exists,
    Pcl!InstantPush, InstantPush, Pcl!SmaCalculation, SmaCalculation, Pcl!SmaBufferNotFull, SmaBufferNotFull,
    Pcl!bufferVars, bufferVars
<1>2. Alone!AccumulateSwapSizes <=> AccumulateSwapSizes
  BY DEF Alone!AccumulateSwapSizes, AccumulateSwapSizes, Alone!ToCommit, ToCommit, Alone!Observation, Observation,
    Alone!NextSma, NextSma, Alone!ReadLast, ReadLast, Alone!Ratio, Ratio,
    Alone!ReadSingle, ReadSingle, Alone!Exists, Exists,
    Alone!InstantPush, InstantPush, Alone!SmaCalculation, SmaCalculation, Alone!SmaBufferNotFull, SmaBufferNotFull,
    Alone!bufferVars, bufferVars
<1> QED BY <1>1, <1>2 DEF Pcl!SavePrecommit, Alone!SavePrecommit, SavePrecommit

LEMMA SameAnswers ==
  /\ \A target : Pcl!Observed(target) = Observed(target) /\ Pcl!Reference(target) = Reference(target)
  /\ \A target : Alone!Observed(target) = Observed(target) /\ Alone!Reference(target) = Reference(target)
  /\ Pcl!Refused = Refused /\ Alone!Refused = Refused
<1>1. \A target : Pcl!Observed(target) = Observed(target)
  BY DEF Pcl!Observed, Observed, Pcl!Interpolated, Interpolated, Pcl!Neighbours, Neighbours, Pcl!Endless, Endless,
    Pcl!Refused, Refused, Pcl!Ratio, Ratio, Pcl!ReadSingle, ReadSingle, Pcl!Exists, Exists, Pcl!Times, Times
<1>2. \A target : Pcl!Reference(target) = Reference(target)
  BY DEF Pcl!Reference, Reference, Pcl!Kept, Kept, Pcl!Interpolated, Interpolated, Pcl!Refused, Refused,
    Pcl!Max, Max, Pcl!Ratio, Ratio, Pcl!Times, Times
<1>3. \A target : Alone!Observed(target) = Observed(target)
  BY DEF Alone!Observed, Observed, Alone!Interpolated, Interpolated, Alone!Neighbours, Neighbours,
    Alone!Endless, Endless,
    Alone!Refused, Refused, Alone!Ratio, Ratio, Alone!ReadSingle, ReadSingle, Alone!Exists, Exists, Alone!Times, Times
<1>4. \A target : Alone!Reference(target) = Reference(target)
  BY DEF Alone!Reference, Reference, Alone!Kept, Kept, Alone!Interpolated, Interpolated, Alone!Refused, Refused,
    Alone!Max, Max, Alone!Ratio, Ratio, Alone!Times, Times
<1> QED BY <1>1, <1>2, <1>3, <1>4 DEF Pcl!Refused, Alone!Refused, Refused

AllSame ==
  \A target : Pcl!Observed(target) = Observed(target) /\ Alone!Observed(target) = Observed(target)

LEMMA SameNow == AllSame
BY SameAnswers DEF AllSame

LEMMA SameNext == AllSame'
BY SameNow, PTL

LEMMA SameAverages ==
  /\ Pcl!AverageWithinObserved <=> AverageWithinObserved
  /\ Alone!AverageWithinObserved <=> AverageWithinObserved
BY DEF Pcl!AverageWithinObserved, Alone!AverageWithinObserved, AverageWithinObserved,
  Pcl!Min, Alone!Min, Min, Pcl!Max, Alone!Max, Max

(* The invariant of the observations, with the averages. *)
ObservationsKept == ObservedInv /\ AverageInv

LEMMA ObservationsStep ==
  ASSUME ObservationsKept, now \in Nat, Observing \/ UNCHANGED observationVars
  PROVE  ObservationsKept'
<1>1. CASE Observing
  BY <1>1, ObservingKeeps, ObservingKeepsAverages DEF ObservationsKept
<1>2. CASE UNCHANGED observationVars
  BY <1>2 DEF observationVars, ObservationsKept, ObservedInv, RingInv, ReadSingle, AverageInv, Averages, Leaves,
    PricesOf, SmasOf
<1> QED BY <1>1, <1>2

LEMMA ObservationsBegin ==
  ASSUME log = << >>, head = 0, precommit = NoValue, array = [i \in 0..(Capacity - 1) |-> NoValue]
  PROVE  ObservationsKept
<1>1. log \in Seq(Entry) /\ Len(log) = 0
  OBVIOUS
<1>2. 0 % Capacity = 0
  <2>1. 0 \in 0..(Capacity - 1)
    BY CapacityAssumption
  <2> QED BY <2>1, CapacityAssumption, ModSmall
<1>3. ObservedInv
  BY <1>1, <1>2 DEF ObservedInv, RingInv
<1>4. AverageInv
  BY <1>1 DEF AverageInv, Averages
<1> QED BY <1>3, <1>4 DEF ObservationsKept

(* What a swap of the concentrated pair leaves for the next: at least one  *)
(* unit of the second asset.                                               *)
LEMMA PclSwapObserves ==
  ASSUME PclInputs, \A i \in 1..2 : Unit[i] <= MinTradeSize, PclInv,
         NEW offered \in Pcl!Assets, NEW amount \in Offers, NEW info \in FeeInfos,
         NEW belief, NEW maxSpread, Pcl!Swap(offered, amount, info, belief, maxSpread)
  PROVE  Observing
<1> DEFINE asked == 3 - offered
           x == Pcl!Decimal(pools)
           offer == amount * Unit[offered]
           result == Pcl!SwapResult(x, offered, offer, info.maker, feeShare)
           return == result.return \div Unit[asked]
           large == offer >= MinTradeSize /\ result.return >= MinTradeSize
           base == IF offered = 1 THEN amount ELSE return
           quote == IF offered = 1 THEN return ELSE amount
<1>1. /\ result.done /\ amount > 0
      /\ Pcl!AccumulateSwapSizes
      /\ IF large THEN Pcl!SavePrecommit(base, quote) ELSE UNCHANGED precommit
  BY DEF Pcl!Swap, Pcl!Other, Pcl!ToUint, Pcl!BeforeSwapCheck
<1>2. AccumulateSwapSizes /\ IF large THEN SavePrecommit(base, quote) ELSE UNCHANGED precommit
  BY <1>1, SameObserving
<1>3. /\ offered \in 1..2 /\ asked \in 1..2 /\ asked # offered /\ amount \in Nat \ {0} /\ info.maker \in 0..Scale
      /\ Unit \in [1..2 -> Nat \ {0}] /\ MinTradeSize \in Nat \ {0}
      /\ pools \in [1..2 -> Nat] /\ feeShare \in 0..Scale
  BY <1>1 DEF PclInputs, Pcl!Inputs, Pcl!Assets, PclInv
<1>4. PricesOK(price) /\ ParamsOK(params)
  BY ParamsAre DEF PclInv, PegKept
<1>5. x \in [1..2 -> Nat] /\ offer \in Nat
  BY <1>3 DEF Pcl!Decimal, Pcl!Assets
<1> HIDE DEF x, offer
<1>6. result.return \in Nat
  <2>1. Paid(result, x[asked])
    BY <1>1, <1>3, <1>4, <1>5, SwapPays
  <2> QED BY <2>1 DEF Paid
<1> HIDE DEF result, asked
<1>7. CASE large
  <2>1. Unit[asked] \in Nat \ {0} /\ Unit[asked] <= result.return
    BY <1>3, <1>6, <1>7
  <2>2. return \in Nat /\ result.return < (return + 1) * Unit[asked]
    BY <1>6, <2>1, DivBounds, DivNat
  <2> HIDE DEF return
  <2>3. return # 0
    <3> SUFFICES ASSUME return = 0 PROVE FALSE
      OBVIOUS
    <3>1. (return + 1) * Unit[asked] = Unit[asked]
      BY <2>1
    <3> QED BY <1>6, <2>1, <2>2, <3>1
  <2>4. base \in Nat /\ quote \in Nat \ {0}
    BY <1>3, <2>2, <2>3
  <2> HIDE DEF base, quote
  <2>5. SavePrecommit(base, quote)
    BY <1>2, <1>7
  <2> QED BY <1>2, <2>4, <2>5 DEF Observing
<1>8. CASE ~large
  BY <1>2, <1>8 DEF Observing
<1> QED BY <1>7, <1>8

LEMMA PclObserves ==
  ASSUME PclInputs, \A i \in 1..2 : Unit[i] <= MinTradeSize, PclInv, [Pcl!Next]_Pcl!vars
  PROVE  Observing \/ UNCHANGED observationVars
<1>1. ASSUME NEW offered \in Pcl!Assets, NEW offer \in Offers, NEW info \in FeeInfos, NEW belief \in BeliefPrices,
             NEW maxSpread \in Tolerances, Pcl!Swap(offered, offer, info, belief, maxSpread)
      PROVE  Observing
  BY <1>1, PclSwapObserves
<1>2. (\E new \in NewParams : Pcl!UpdateParams(new.field, new.value)) => UNCHANGED observationVars
  BY DEF Pcl!UpdateParams, Pcl!observationVars, observationVars
<1>3. (\E next \in NextAmpGammas, duration \in Durations : Pcl!PromoteParams(next, now + duration))
        => UNCHANGED observationVars
  BY DEF Pcl!PromoteParams, Pcl!observationVars, observationVars
<1>4. Pcl!StopPromotion => UNCHANGED observationVars
  BY DEF Pcl!StopPromotion, Pcl!observationVars, observationVars
<1>5. (\E rate \in FeeShares : Pcl!UpdateFeeShare(rate)) => UNCHANGED observationVars
  BY DEF Pcl!UpdateFeeShare, Pcl!observationVars, observationVars
<1>6. (\E receiver \in Pcl!Users, autoStake \in AutoStakes, x, y \in Deposits, tolerance \in Tolerances,
          least \in Minima : Pcl!ProvideLiquidity(receiver, autoStake, <<x, y>>, tolerance, least))
        => UNCHANGED observationVars
  BY DEF Pcl!ProvideLiquidity, Pcl!observationVars, observationVars
<1>7. (\E user \in Pcl!Users, amount \in LpAmounts : Pcl!WithdrawLiquidity(user, amount))
        => UNCHANGED observationVars
  BY DEF Pcl!WithdrawLiquidity, Pcl!observationVars, observationVars
<1>8. (\E i \in Pcl!Assets, gift \in Gifts : Pcl!Donate(i, gift)) => UNCHANGED observationVars
  BY DEF Pcl!Donate, Pcl!observationVars, observationVars
<1>9. Pcl!Tick => UNCHANGED observationVars
  BY DEF Pcl!Tick, Pcl!observationVars, observationVars
<1>10. (UNCHANGED Pcl!vars) => UNCHANGED observationVars
  BY DEF Pcl!vars, Pcl!observationVars, observationVars
<1> QED BY <1>1, <1>2, <1>3, <1>4, <1>5, <1>6, <1>7, <1>8, <1>9, <1>10 DEF Pcl!Next

LEMMA PclObservations ==
  ASSUME PclInputs, \A i \in 1..2 : Unit[i] <= MinTradeSize
  PROVE  Pcl!Spec => [](PclInv /\ ObservationsKept)
<1>1. Pcl!Init => ObservationsKept
  BY ObservationsBegin DEF Pcl!Init, Pcl!ObservationsInit, Pcl!BufferInit
<1>2. PclInv /\ ObservationsKept /\ [Pcl!Next]_Pcl!vars => ObservationsKept'
  <2> SUFFICES ASSUME PclInv, ObservationsKept, [Pcl!Next]_Pcl!vars PROVE ObservationsKept'
    OBVIOUS
  <2>1. Observing \/ UNCHANGED observationVars
    BY PclObserves
  <2>2. now \in Nat
    BY DEF PclInv, PegKept
  <2> QED BY <2>1, <2>2, ObservationsStep
<1>3. Pcl!Init => PclInv
  BY PclInitially
<1>4. PclInv /\ [Pcl!Next]_Pcl!vars => PclInv'
  BY PclStep
<1> QED BY <1>1, <1>2, <1>3, <1>4, PTL DEF Pcl!Spec

(* The concentrated pair answers about each moment as a walk over its      *)
(* latest observations does.                                               *)
THEOREM ConcentratedQueriesAlwaysFindMoment ==
  ASSUME PclInputs, \A i \in 1..2 : Unit[i] <= MinTradeSize
  PROVE  Pcl!Spec => []Pcl!QueryFindsMoment
<1>1. PclInv /\ ObservationsKept => Pcl!QueryFindsMoment
  <2> SUFFICES ASSUME ObservationsKept, log # << >>, NEW target \in 0..now
               PROVE  Pcl!Observed(target) = Pcl!Reference(target)
    BY DEF Pcl!QueryFindsMoment
  <2>1. target \in Int
    OBVIOUS
  <2>2. Observed(target) = Reference(target)
    BY <2>1, FindsMoment DEF ObservationsKept
  <2> QED BY <2>2, SameAnswers
<1> QED BY <1>1, PclObservations, PTL

(* What the concentrated pair answers about a moment that has an           *)
(* observation at or after it is not changed by later swaps.               *)
THEOREM ConcentratedAnswersAlwaysStand ==
  ASSUME PclInputs, \A i \in 1..2 : Unit[i] <= MinTradeSize
  PROVE  Pcl!Spec => Pcl!AnswersStand
<1>1. PclInv /\ ObservationsKept /\ (PclInv /\ ObservationsKept)' /\ [Pcl!Next]_Pcl!vars =>
        [\A target \in 0..now :
           log # << >> /\ target <= log[Len(log)].ts /\ Pcl!Observed(target) # Pcl!Refused
             => Pcl!Observed(target)' \in {Pcl!Observed(target), Pcl!Refused}]_Pcl!observationVars
  <2> SUFFICES ASSUME PclInv, ObservationsKept, ObservationsKept', [Pcl!Next]_Pcl!vars, NEW target \in 0..now,
                      log # << >>, target <= log[Len(log)].ts, Pcl!Observed(target) # Pcl!Refused
               PROVE  Pcl!Observed(target)' \in {Pcl!Observed(target), Pcl!Refused}
    OBVIOUS
  <2>1. target \in Int
    OBVIOUS
  <2>2. Observing \/ UNCHANGED observationVars
    BY PclObserves
  <2>3. Pcl!Observed(target) = Observed(target) /\ Pcl!Refused = Refused
    BY SameAnswers
  <2>4. Pcl!Observed(target)' = Observed(target)'
    BY SameNext DEF AllSame
  <2>5. Observed(target)' \in {Observed(target), Refused}
    BY <2>1, <2>2, <2>3, StandStep DEF ObservationsKept
  <2> QED BY <2>3, <2>4, <2>5
<1> QED BY <1>1, PclObservations, PTL DEF Pcl!Spec, Pcl!AnswersStand

(* The averages of the concentrated pair lie within the prices of its      *)
(* large swaps, but for what rounding loses.                               *)
THEOREM ConcentratedAveragesAlwaysWithinObserved ==
  ASSUME PclInputs, \A i \in 1..2 : Unit[i] <= MinTradeSize
  PROVE  Pcl!Spec => []Pcl!AverageWithinObserved
<1>1. ObservationsKept => Pcl!AverageWithinObserved
  BY AveragesWithin, SameAverages DEF ObservationsKept
<1> QED BY <1>1, PclObservations, PTL

LEMMA AloneObserves ==
  ASSUME Sizes \subseteq Nat \X (Nat \ {0}), [Alone!Next]_Alone!vars
  PROVE  Observing \/ UNCHANGED observationVars
<1>1. ASSUME NEW size \in Sizes, NEW large \in BOOLEAN, Alone!Swap(size[1], size[2], large)
      PROVE  Observing
  <2>1. size[1] \in Nat /\ size[2] \in Nat \ {0}
    OBVIOUS
  <2>2. AccumulateSwapSizes /\ (SavePrecommit(size[1], size[2]) \/ UNCHANGED precommit)
    BY <1>1, SameObserving DEF Alone!Swap
  <2> QED BY <2>1, <2>2 DEF Observing
<1>2. Alone!Tick \/ UNCHANGED Alone!vars => UNCHANGED observationVars
  BY DEF Alone!Tick, Alone!vars, Alone!observationVars, observationVars
<1> QED BY <1>1, <1>2 DEF Alone!Next

LEMMA AloneObservations ==
  ASSUME Sizes \subseteq Nat \X (Nat \ {0})
  PROVE  Alone!Spec => [](now \in Nat /\ ObservationsKept)
<1>1. Alone!Init => now \in Nat /\ ObservationsKept
  BY ObservationsBegin DEF Alone!Init, Alone!ObservationsInit, Alone!BufferInit
<1>2. now \in Nat /\ ObservationsKept /\ [Alone!Next]_Alone!vars => (now \in Nat /\ ObservationsKept)'
  <2> SUFFICES ASSUME now \in Nat, ObservationsKept, [Alone!Next]_Alone!vars
               PROVE  (now \in Nat /\ ObservationsKept)'
    OBVIOUS
  <2>1. now' \in Nat
    BY DEF Alone!Next, Alone!Swap, Alone!Tick, Alone!vars
  <2>2. ObservationsKept'
    BY AloneObserves, ObservationsStep
  <2> QED BY <2>1, <2>2
<1> QED BY <1>1, <1>2, PTL DEF Alone!Spec

(* Whatever the sizes of the swaps are, a query about a moment is answered *)
(* as a walk over the latest observations does.                            *)
THEOREM AnyQueriesAlwaysFindMoment ==
  ASSUME Sizes \subseteq Nat \X (Nat \ {0})
  PROVE  Alone!Spec => []Alone!QueryFindsMoment
<1>1. now \in Nat /\ ObservationsKept => Alone!QueryFindsMoment
  <2> SUFFICES ASSUME ObservationsKept, log # << >>, NEW target \in 0..now
               PROVE  Alone!Observed(target) = Alone!Reference(target)
    BY DEF Alone!QueryFindsMoment
  <2>1. target \in Int
    OBVIOUS
  <2>2. Observed(target) = Reference(target)
    BY <2>1, FindsMoment DEF ObservationsKept
  <2> QED BY <2>2, SameAnswers
<1> QED BY <1>1, AloneObservations, PTL

(* Whatever the sizes of later swaps are, an answer stands until it is too *)
(* old to be asked about.                                                  *)
THEOREM AnyAnswersAlwaysStand ==
  ASSUME Sizes \subseteq Nat \X (Nat \ {0})
  PROVE  Alone!Spec => Alone!AnswersStand
<1>1. now \in Nat /\ ObservationsKept /\ (now \in Nat /\ ObservationsKept)' /\ [Alone!Next]_Alone!vars =>
        [\A target \in 0..now :
           log # << >> /\ target <= log[Len(log)].ts /\ Alone!Observed(target) # Alone!Refused
             => Alone!Observed(target)' \in {Alone!Observed(target), Alone!Refused}]_Alone!observationVars
  <2> SUFFICES ASSUME now \in Nat, ObservationsKept, ObservationsKept', [Alone!Next]_Alone!vars, NEW target \in 0..now,
                      log # << >>, target <= log[Len(log)].ts, Alone!Observed(target) # Alone!Refused
               PROVE  Alone!Observed(target)' \in {Alone!Observed(target), Alone!Refused}
    OBVIOUS
  <2>1. target \in Int
    OBVIOUS
  <2>2. Observing \/ UNCHANGED observationVars
    BY AloneObserves
  <2>3. Alone!Observed(target) = Observed(target) /\ Alone!Refused = Refused
    BY SameAnswers
  <2>4. Alone!Observed(target)' = Observed(target)'
    BY SameNext DEF AllSame
  <2>5. Observed(target)' \in {Observed(target), Refused}
    BY <2>1, <2>2, <2>3, StandStep DEF ObservationsKept
  <2> QED BY <2>3, <2>4, <2>5
<1> QED BY <1>1, AloneObservations, PTL DEF Alone!Spec, Alone!AnswersStand

(* Whatever the sizes of the swaps are, the averages lie within the prices *)
(* that were observed, but for what rounding loses.                        *)
THEOREM AnyAveragesAlwaysWithinObserved ==
  ASSUME Sizes \subseteq Nat \X (Nat \ {0})
  PROVE  Alone!Spec => []Alone!AverageWithinObserved
<1>1. ObservationsKept => Alone!AverageWithinObserved
  BY AveragesWithin, SameAverages DEF ObservationsKept
<1> QED BY <1>1, AloneObservations, PTL

=============================================================================
