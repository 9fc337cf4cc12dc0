-------------------------- MODULE ConcentratedMath --------------------------
(***************************************************************************)
(* The curve, the fee and the repegging of the concentrated pair           *)
(* (packages/astroport_pcl_common).  Balances are decimals; xp are         *)
(* balances in the pair's own units, the second one times the price scale. *)
(*                                                                         *)
(* The code finds the roots of the curve by Newton's method, here they are *)
(* found by bisection, to the last digit.                                  *)
(***************************************************************************)
EXTENDS Decimals

CONSTANTS FeeTol,      \* FEE_TOL
          HalfPowTol,  \* HALFPOW_TOL
          MaxIter      \* MAX_ITER

ASSUME ConcentratedMathAssumption ==
  FeeTol \in 0..Scale /\ HalfPowTol \in Nat \ {0} /\ MaxIter \in Nat \ {0}

Apart(x, y) == IF x < y THEN y - x ELSE x - y
Greater(x, y) == IF x <= y THEN y ELSE x

(* The least n of (low, high] for which holds[n], which holds of high and  *)
(* all above that n, and not of low.                                       *)
LeastThat(holds, low, high) ==
  LET search[range \in (low..high) \X (low..high)] ==
        LET mid == (range[1] + range[2]) \div 2
        IN  IF range[2] - range[1] <= 1 THEN range[2]
            ELSE IF holds[mid] THEN search[<<range[1], mid>>] ELSE search[<<mid, range[2]>>]
  IN  IF low < high THEN search[<<low, high>>] ELSE high

(* What n rounds of a loop make of its variable, round after round. *)
Rounds(n, first, step) ==
  LET r[i \in 0..n] == IF i = 0 THEN first ELSE step[i][r[i - 1]]
  IN  r

Sqrt(x) == LeastThat([r \in Int |-> r * r > x * Scale], 0, x + Scale) - 1
-----------------------------------------------------------------------------
(* The curve.                                                              *)

(* f: positive when the balances are worth more than d.                    *)
CurveF(d, xp, ag) ==
  LET k0 == (4 * xp[1] * xp[2]) \div Times(d, d)
      near == Ratio(ag.gamma, ag.gamma + Scale - k0)
      k == Times(Times(Times(near, near), k0), ag.amp)
  IN  Times(Times(d, xp[1] + xp[2] - d), k) + Times(xp[1], xp[2]) - Times(d, d) \div 4

CalcD(xp, ag) ==
  LeastThat([d \in Int |-> CurveF(d, xp, ag) < 0], 2 * Sqrt(Times(xp[1], xp[2])), xp[1] + xp[2] + 1) - 1

(* What the balance j is when the other one is that of xp.                 *)
CalcY(xp, d, ag, j) ==
  LeastThat([y \in Int |-> CurveF(d, [xp EXCEPT ![j] = y], ag) >= 0], 0, (d * d) \div (4 * xp[3 - j]))

(* The invariant as the square root of a constant product.                 *)
Xcp(d, scale) == Sqrt(Times(d \div 2, Ratio(d, 2 * scale)))

Internal(x, scale) == <<x[1], Times(x[2], scale)>>
-----------------------------------------------------------------------------
Balance(xp) == Ratio(4 * Times(xp[1], xp[2]), Times(xp[1] + xp[2], xp[1] + xp[2]))

(* What the fee is divided by is not 0. *)
HasFee(params, xp) ==
  Times(xp[1] + xp[2], xp[1] + xp[2]) > 0 /\ params.feeGamma + Scale > Balance(xp)

(* PoolParams::fee: midFee of a balanced pool, towards outFee otherwise.   *)
FeeRate(params, xp) ==
  LET near == Ratio(params.feeGamma, params.feeGamma + Scale - Balance(xp))
      k == IF near <= FeeTol THEN 0 ELSE near
  IN  Times(k, params.midFee) + Times(Scale - k, params.outFee)

(* half_float_pow: 0.5 to the power of time by halfTime, the whole part of *)
(* the power by halving, the fraction by a series up to its first small    *)
(* term.                                                                   *)
HalfPow(time, halfTime) ==
  LET power == Ratio(time, halfTime)
      whole == power \div Scale
      fraction == power % Scale
      halves == Rounds(whole, Scale, [i \in Nat |-> [x \in Nat |-> x \div 2]])
      series == Rounds(MaxIter, [term |-> Scale, sum |-> Scale], [i \in Nat |-> [x \in [term : Nat, sum : Int] |->
        LET next == (Times(x.term, Apart(fraction, (i - 1) * Scale)) \div 2) \div i
        IN  IF i > 1 /\ x.term < HalfPowTol THEN x ELSE [term |-> next, sum |-> x.sum - next]]])
  IN  Times(halves[whole], series[MaxIter].sum)

(* get_amp_gamma: on a straight line from the initial to the future values. *)
AmpGammaAt(state, time) ==
  LET total == state.futureTime - state.initialTime
      passed == time - state.initialTime
      Between(from, to) == (from * (total - passed) + to * passed) \div total
  IN  IF time >= state.futureTime THEN state.future
      ELSE [amp |-> Between(state.initial.amp, state.future.amp),
            gamma |-> Between(state.initial.gamma, state.future.gamma)]
-----------------------------------------------------------------------------
(* update_price, one step after the other.                                 *)

\* the price of the message counts for the time before it
OraclePrice_Current(price, params, time, last) ==
  LET alpha == HalfPow(time - price.updated, params.maHalfTime)
  IN  IF price.updated < time
      THEN [price EXCEPT !.oracle = Times(last, Scale - alpha) + Times(@, alpha),
                         !.updated = time, !.last = last]
      ELSE [price EXCEPT !.last = last]

(* The oracle follows, once a block, the price of the last message.        *)
OraclePrice(price, params, time, last) ==
  LET alpha == HalfPow(time - price.updated, params.maHalfTime)
  IN  IF price.updated < time
      THEN [price EXCEPT !.oracle = Times(price.last, Scale - alpha) + Times(@, alpha),
                         !.updated = time, !.last = last]
      ELSE [price EXCEPT !.last = last]

(* Whether a drop of what a share is worth is small enough, and those      *)
(* before it; the drops while amp and gamma change are not looked at.      *)
LossAccepted(price, real, params, ramping) ==
  \/ price.real = 0 \/ ramping
  \/ /\ SaturatingSub(price.real, real) <= params.allowedDrop
     /\ SaturatingSub(price.losses + SaturatingSub(price.real, real), SaturatingSub(real, price.real))
          <= params.lossesThreshold

Profits(price, real, ramping) ==
  IF price.real = 0 THEN price
  ELSE [price EXCEPT
          !.losses = IF ramping THEN @
                     ELSE SaturatingSub(@ + SaturatingSub(price.real, real), SaturatingSub(real, price.real)),
          !.profit = (@ * real) \div price.real,
          !.real = real]

Norm(price) == Apart(Ratio(price.oracle, price.scale), Scale)
ScaleDelta(price, params) == Greater(params.minDelta, Norm(price) \div 10)

ProfitSuffices(price, params) ==
  SaturatingSub(price.real, Scale) > SaturatingSub(price.profit, Scale) \div 2 + params.threshold

WantsRepeg(price, params) == Norm(price) >= ScaleDelta(price, params) /\ ProfitSuffices(price, params)

(* A step of delta towards the oracle: there is none from the oracle's own *)
(* price, the division by zero fails.                                      *)
NextScale(price, params) ==
  LET delta == ScaleDelta(price, params)
  IN  (price.scale * (Norm(price) - delta) + delta * price.oracle) \div Norm(price)

RealAt(scale, price, totalLp, xp, ag) ==
  Ratio(Xcp(CalcD(<<xp[1], (xp[2] * scale) \div price.scale>>, ag), scale), totalLp)

\* does not look at what is left
Repegged_AnyCost(price, params, totalLp, xp, ag) ==
  LET scale == NextScale(price, params)
      real == RealAt(scale, price, totalLp, xp, ag)
  IN  IF WantsRepeg(price, params)
      THEN [price EXCEPT !.scale = scale, !.real = real]
      ELSE price

(* With enough profit the price scale moves towards the oracle, unless     *)
(* that would cost more than half of the profit.                           *)
Repegged(price, params, totalLp, xp, ag) ==
  LET scale == NextScale(price, params)
      real == RealAt(scale, price, totalLp, xp, ag)
  IN  IF WantsRepeg(price, params) /\ 2 * real > price.profit + Scale
      THEN [price EXCEPT !.scale = scale, !.real = real]
      ELSE price

(* The whole of update_price: what it makes of the prices, and whether it  *)
(* comes to an end.  What a share is worth is divided by the new scale.    *)
UpdatePrice(price, params, state, time, totalLp, xp, last) ==
  LET ag == AmpGammaAt(state, time)
      ramping == time < state.futureTime
      real == Ratio(Xcp(CalcD(xp, ag), price.scale), totalLp)
      moved == Profits(OraclePrice(price, params, time, last), real, ramping)
  IN  [done |-> /\ LossAccepted(price, real, params, ramping)
                /\ WantsRepeg(moved, params) => Norm(moved) > 0 /\ NextScale(moved, params) > 0,
       price |-> Repegged(moved, params, totalLp, xp, ag)]
=============================================================================
