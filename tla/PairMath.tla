------------------------------ MODULE PairMath ------------------------------
(***************************************************************************)
(* The arithmetic of the constant product pair (contracts/pair): what a    *)
(* deposit is worth in shares, what a share is worth in assets, and what a *)
(* swap returns.  Amounts are integers, rates and prices are decimals.     *)
(***************************************************************************)
EXTENDS Decimals

CONSTANTS MinimumLiquidity,  \* MINIMUM_LIQUIDITY_AMOUNT, kept by the pair for ever
          DefaultSlippage,   \* DEFAULT_SLIPPAGE
          MaxSlippage        \* MAX_ALLOWED_SLIPPAGE

ASSUME MinimumLiquidityAssumption == MinimumLiquidity \in Nat \ {0}
ASSUME SlippageAssumption ==
  /\ DefaultSlippage \in 0..MaxSlippage
  /\ MaxSlippage \in 0..Scale

ISqrt(n) == CHOOSE r \in 0..n : r * r <= n /\ n < (r + 1) * (r + 1)
-----------------------------------------------------------------------------
(* Swaps.                                                                  *)

(* check_swap_parameters. *)
Tradable(held, amount) == amount > 0 /\ \A i \in 1..2 : held[i] > 0

(* What the curve gives for an offer, before any fee. *)
GrossReturn(offerPool, askPool, offer) ==
  (askPool * Scale - Ratio(offerPool * askPool, offerPool + offer)) \div Scale

SpreadOf(offerPool, askPool, offer) ==
  SaturatingSub(Times(offer, Ratio(askPool, offerPool)), GrossReturn(offerPool, askPool, offer))

\* takes the commission of the return for that of what it was before
BeforeCommission_OfReturn(ask, commissionRate) == ask + Times(ask, commissionRate)

(* The offer that a return of ask, after the commission, would take. *)
BeforeCommission(ask, commissionRate) == Times(ask, Reciprocal(Scale - commissionRate))

OfferFor(offerPool, askPool, ask, commissionRate) ==
  (offerPool * askPool) \div (askPool - BeforeCommission(ask, commissionRate)) - offerPool

(* A swap with a belief price is judged by that price, any other by the    *)
(* spread of the curve.  A belief price of 0 stands for none.              *)
SpreadAccepted(belief, maxSpread, offer, gross, spread) ==
  /\ maxSpread <= MaxSlippage
  /\ IF belief = 0
     THEN gross + spread > 0 /\ Ratio(spread, gross + spread) <= maxSpread
     ELSE LET expected == Times(offer, Reciprocal(belief))
          IN  \/ gross >= expected
              \/ Ratio(expected - gross, expected) <= maxSpread
-----------------------------------------------------------------------------
(* Liquidity.                                                              *)

InitialShare(deposit) == ISqrt(deposit[1] * deposit[2]) - MinimumLiquidity

\* takes the larger of the two
ShareOf_Greater(deposit, pools, supply) ==
  LET first == MultiplyRatio(deposit[1], supply, pools[1])
      second == MultiplyRatio(deposit[2], supply, pools[2])
  IN  IF first >= second THEN first ELSE second

ShareOf(deposit, pools, supply) ==
  Lesser(MultiplyRatio(deposit[1], supply, pools[1]), MultiplyRatio(deposit[2], supply, pools[2]))

SlippageAccepted(tolerance, deposit, pools) ==
  /\ tolerance <= MaxSlippage
  /\ \A i, j \in 1..2 : i # j =>
       Times(Ratio(deposit[i], deposit[j]), Scale - tolerance) <= Ratio(pools[i], pools[j])

(* The assets that amount of supply shares stand for. *)
ShareInAssets(pools, amount, supply) ==
  [i \in 1..2 |-> Times(pools[i], IF supply = 0 THEN 0 ELSE Ratio(amount, supply))]
=============================================================================
