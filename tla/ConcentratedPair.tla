-------------------------- MODULE ConcentratedPair --------------------------
(***************************************************************************)
(* The concentrated pair (contracts/pair_concentrated): liquidity of one   *)
(* asset or both, swaps along a curve around the price scale, the profit   *)
(* of the shares and the price scale that follows the traded price when    *)
(* there is profit to pay for it.  As in Pair, pools is what the bank and  *)
(* the cw20 contracts say, before the assets of a message.                 *)
(***************************************************************************)
EXTENDS ConcentratedMath, LpToken, Observations, Snapshots

CONSTANTS Unit,            \* 10^(18 - precision) of each asset
          MinimumLiquidity,  \* MINIMUM_LIQUIDITY_AMOUNT_PCL
          LpUnit,          \* 10^(18 - LP_TOKEN_PRECISION)
          MinTradeSize,    \* MIN_TRADE_SIZE
          OfferPercent,    \* OFFER_PERCENT
          DefaultSlippage, MaxSlippage,  \* DEFAULT_SLIPPAGE, MAX_ALLOWED_SLIPPAGE
          MinAmpChangingTime, MaxChange, \* MIN_AMP_CHANGING_TIME, MAX_CHANGE
          AmpLimits, GammaLimits,        \* AMP_MIN and AMP_MAX, GAMMA_MIN and GAMMA_MAX
          ParamLimits,     \* the limits of each field of the parameters
          InitialParams, InitialAmpGamma, InitialScale,  \* of the instantiation
          TrackBalances,   \* track_asset_balances of the instantiation
          TwapPrecision, Modulus,        \* of the accumulated prices
          NewParams,       \* fields and values of updates
          NextAmpGammas, Durations,      \* parameters of promotions
          FeeInfos, FeeShares, BeliefPrices, Tolerances, Minima, AutoStakes,  \* as in Pair
          Deposits, Offers, Gifts, LpAmounts, Asks,
          MaxPool, MaxSupply, MaxTime, MaxMessages, MaxSettings  \* bounds

WithinLimits(ag) ==
  ag.amp \in AmpLimits.least..AmpLimits.most /\ ag.gamma \in GammaLimits.least..GammaLimits.most

ParamFields == {"midFee", "outFee", "feeGamma", "threshold", "minDelta", "maHalfTime",
                "allowedDrop", "lossesThreshold"}

(* What the build, the instantiation and the messages bring: the code      *)
(* checks the parameters against their limits, and takes unsigned numbers. *)
Inputs ==
  /\ Unit \in [1..2 -> Nat \ {0}] /\ LpUnit \in Nat \ {0} /\ MinimumLiquidity \in Nat \ {0}
  /\ MinTradeSize \in Nat \ {0} /\ InitialScale \in Nat \ {0} /\ MinAmpChangingTime \in Nat
  /\ \A limits \in {AmpLimits, GammaLimits} : limits.least \in Nat /\ limits.most \in Nat
  /\ WithinLimits(InitialAmpGamma)
  /\ DOMAIN InitialParams = ParamFields
  /\ \A field \in ParamFields : /\ ParamLimits[field].least \in Nat /\ ParamLimits[field].most \in Nat
                               /\ InitialParams[field] \in ParamLimits[field].least..ParamLimits[field].most
  /\ ParamLimits["maHalfTime"].least > 0
  /\ \A fee \in {"midFee", "outFee"} : ParamLimits[fee].most <= Scale
  /\ \A new \in NewParams : new.field \in ParamFields
  /\ \A info \in FeeInfos : info.maker \in 0..Scale
  /\ FeeShares \subseteq 0..Scale /\ AutoStakes \subseteq BOOLEAN /\ Durations \subseteq Nat
  /\ Deposits \subseteq Nat /\ Offers \subseteq Nat /\ Gifts \subseteq Nat

ASSUME ConcentratedPairAssumption == Inputs

VARIABLES
  pools,     \* what the pair holds
  params,    \* CONFIG.pool_params
  state,     \* CONFIG.pool_state without the prices
  price,     \* CONFIG.pool_state.price_state
  feeShare,  \* CONFIG.fee_share
  prices,    \* CONFIG.cumulative_prices
  lastTime,  \* CONFIG.block_time_last
  balances,  \* BALANCES
  messages,  \* how many messages about liquidity and swaps there were
  settings,  \* how many messages of the owner there were
  traded,    \* history: the last price when each block ended, first the initial one
  valuedWith \* history: amp and gamma when price.real was computed

pairVars == <<pools, lp, supply, params, state, price, feeShare, prices, lastTime, balances>>
vars == <<pairVars, observationVars, now, messages, settings, traded, valuedWith>>

Assets == 1..2
Other(i) == 3 - i
ToUint(i, decimal) == decimal \div Unit[i]
Decimal(held) == [i \in Assets |-> held[i] * Unit[i]]
AmpGamma == AmpGammaAt(state, now)
TotalLp == supply * LpUnit

Message ==
  /\ messages < MaxMessages
  /\ messages' = messages + 1
  /\ UNCHANGED settings

Setting ==
  /\ settings < MaxSettings
  /\ settings' = settings + 1
  /\ UNCHANGED messages

SaveBalances(expected) ==
  balances' = IF TrackBalances
              THEN [i \in Assets |-> SaveAt(balances[i], expected[i], now)]
              ELSE balances
-----------------------------------------------------------------------------
(* Parameters: only for the owner.                                         *)

(* A message with more fields is one of these after another, in the order  *)
(* of the fields.  The lower fee is not compared when it changes.          *)
UpdateParams(field, value) ==
  /\ value \in ParamLimits[field].least..ParamLimits[field].most
  /\ field = "outFee" => value > params.midFee
  /\ params' = [params EXCEPT ![field] = value]
  /\ Setting
  /\ UNCHANGED <<pools, lp, supply, state, price, feeShare, prices, lastTime, balances,
                 observationVars, now, traded, valuedWith>>

FarApart(x, y) == Ratio(Greater(x, y), Lesser(x, y)) > MaxChange

PromoteParams(next, futureTime) ==
  /\ now >= state.initialTime + MinAmpChangingTime
  /\ futureTime >= now + MinAmpChangingTime
  /\ WithinLimits(next)
  /\ ~FarApart(AmpGamma.amp, next.amp) /\ ~FarApart(AmpGamma.gamma, next.gamma)
  /\ state' = [initial |-> AmpGamma, initialTime |-> now, future |-> next, futureTime |-> futureTime]
  /\ Setting
  /\ UNCHANGED <<pools, lp, supply, params, price, feeShare, prices, lastTime, balances,
                 observationVars, now, traded, valuedWith>>

StopPromotion ==
  /\ state' = [state EXCEPT !.future = AmpGamma, !.futureTime = now]
  /\ Setting
  /\ UNCHANGED <<pools, lp, supply, params, price, feeShare, prices, lastTime, balances,
                 observationVars, now, traded, valuedWith>>

(* EnableFeeShare, and DisableFeeShare for a rate of 0. *)
UpdateFeeShare(rate) ==
  /\ feeShare' = rate
  /\ Setting
  /\ UNCHANGED <<pools, lp, supply, params, state, price, prices, lastTime, balances,
                 observationVars, now, traded, valuedWith>>
-----------------------------------------------------------------------------
(* compute_swap: all in decimals.                                          *)
SwapResult(x, offered, offer, makerRate, shareRate) ==
  LET asked == Other(offered)
      xp == Internal(x, price.scale)
      d == CalcD(xp, AmpGamma)
      after == [xp EXCEPT ![offered] = @ + IF offered = 2 THEN Times(offer, price.scale) ELSE offer]
      y == CalcY(after, d, AmpGamma, asked)
      left == [after EXCEPT ![asked] = y]
      gross == IF asked = 2 THEN Ratio(xp[2] - y, price.scale) ELSE xp[1] - y
      fee == Times(FeeRate(params, left), gross)
      shared == Times(fee, shareRate)
      fair == IF asked = 2 THEN Ratio(offer, price.oracle) ELSE Times(offer, price.oracle)
  IN  [done |-> (\A i \in Assets : xp[i] > 0) /\ y <= xp[asked] /\ HasFee(params, left),
       return |-> gross - fee, spread |-> SaturatingSub(fair, gross),
       shared |-> shared, maker |-> Times(fee - shared, makerRate)]

\* forgets the fees
Leaving_ReturnOnly(result) == result.return

Leaving(result) == result.return + result.maker + result.shared

(* calc_last_price: assets 1 for one of asset 2. *)
LastPrice(result, offered, offer) ==
  IF offered = 1 THEN Ratio(offer, Leaving(result)) ELSE Ratio(Leaving(result), offer)

(* calc_last_prices: the price of a small swap. *)
SpotPrice(x) ==
  LET offer == Greater(1, Lesser(Scale, Times(x[1], OfferPercent)))
  IN  LastPrice(SwapResult(x, 1, offer, 0, 0), 1, offer)

(* assert_max_spread: a belief price of 0 stands for none.                 *)
SpreadAccepted(belief, maxSpread, offer, return, spread) ==
  /\ maxSpread <= MaxSlippage
  /\ IF belief = 0
     THEN return + spread > 0 /\ Ratio(spread, return + spread) <= maxSpread
     ELSE LET expected == Times(offer, Reciprocal(belief))
          IN  return >= expected \/ Ratio(expected - return, expected) <= maxSpread

AccumulatePrices(last) ==
  IF now > lastTime
  THEN /\ prices' = [i \in Assets |->
            (prices[i] + (now - lastTime) *
               Times(IF i = 1 THEN Reciprocal(last) ELSE last, TwapPrecision)) % Modulus]
       /\ lastTime' = now
  ELSE UNCHANGED <<prices, lastTime>>
-----------------------------------------------------------------------------
(* Liquidity.                                                              *)

(* calc_provide_fee: of what is not balanced. *)
ProvideFee(deposit, xp) ==
  LET sum == deposit[1] + deposit[2]
  IN  Ratio(Times(Apart(deposit[1], sum \div 2), FeeRate(params, xp)), sum)

(* The shares of a deposit, all in decimals. *)
Shares(deposit) ==
  LET xp == Internal([i \in Assets |-> Decimal(pools)[i] + deposit[i]], price.scale)
      d == CalcD(xp, AmpGamma)
      before == CalcD(Internal(Decimal(pools), price.scale), AmpGamma)
  IN  IF supply = 0
      THEN Xcp(d, price.scale) - MinimumLiquidity * LpUnit
      ELSE Times(SaturatingSub((TotalLp * d) \div before, TotalLp),
                 Scale - ProvideFee(Internal(deposit, price.scale), xp))

(* How far the deposit is from one in the proportion of the pools. *)
Imbalance(deposit, share, xp) ==
  LET ratio == Ratio(share, TotalLp + share)
      balanced == <<Times(xp[1], ratio), Ratio(Times(xp[2], ratio), price.scale)>>
  IN  [i \in Assets |-> Apart(deposit[i], balanced[i])]

(* assert_slippage_tolerance. *)
SlippageAccepted(tolerance, deposit, share, current) ==
  LET value == deposit[1] + Times(deposit[2], current.scale)
      expected == Ratio(Sqrt(Ratio(Times(value \div 2, value), 2 * current.scale)), current.real)
  IN  /\ tolerance <= MaxSlippage
      /\ Ratio(SaturatingSub(expected, share), expected) <= tolerance

(* get_assets_with_precision: an asset that is left out counts as nothing. *)
Deposit(amounts) == Decimal(amounts)

(* mint_liquidity_token_message of this pair. *)
Mint(receiver, autoStake, share) == MintShares(receiver, autoStake, share, MinimumLiquidity)

ProvideLiquidity(receiver, autoStake, amounts, tolerance, least) ==
  LET deposit == Deposit(amounts)
      expected == [i \in Assets |-> pools[i] + amounts[i]]
      xp == Internal(Decimal(expected), price.scale)
      share == Shares(deposit)
      current == IF supply = 0 THEN [price EXCEPT !.real = Scale, !.profit = Scale] ELSE price
      apart == Imbalance(deposit, share, xp)
      trades == \A i \in Assets : apart[i] >= MinTradeSize
      update == UpdatePrice(current, params, state, now, TotalLp + share, xp, Ratio(apart[1], apart[2]))
  IN  /\ Message
      /\ \E i \in Assets : amounts[i] > 0
      /\ supply = 0 => \A i \in Assets : amounts[i] > 0
      /\ \A i \in Assets : expected[i] <= MaxPool
      /\ share \in Nat   \* the subtraction of the fee is checked
      /\ supply = 0 => share > 0
      /\ trades => SlippageAccepted(tolerance, deposit, share, current) /\ update.done
      /\ share \div LpUnit >= least
      /\ supply + share \div LpUnit + (IF supply = 0 THEN MinimumLiquidity ELSE 0) <= MaxSupply
      /\ price' = IF trades THEN update.price ELSE current
      /\ valuedWith' = IF trades \/ supply = 0 THEN AmpGamma ELSE valuedWith
      /\ Mint(receiver, autoStake, share \div LpUnit)
      /\ pools' = expected
      /\ SaveBalances(expected)
      /\ AccumulatePrices(price.last)
      /\ UNCHANGED <<params, state, feeShare, observationVars, now, traded>>

(* One unit of the shares is not paid out.  The least amounts of the       *)
(* message are not looked at.                                              *)
Refund(amount) ==
  LET ratio == Ratio(amount - 1, supply)
  IN  [i \in Assets |-> ToUint(i, Times(Decimal(pools)[i], ratio))]

WithdrawLiquidity(user, amount) ==
  LET expected == [i \in Assets |-> pools[i] - Refund(amount)[i]]
  IN  /\ Message
      /\ BurnShares(user, amount)
      /\ pools' = expected
      /\ SaveBalances(expected)
      /\ UNCHANGED <<params, state, price, feeShare, prices, lastTime, observationVars, now, traded, valuedWith>>
-----------------------------------------------------------------------------
(* Swaps.  The price is updated with the decimals, the messages pay whole  *)
(* units.                                                                  *)
BeforeSwapCheck(held, amount) == amount > 0 /\ \A i \in Assets : held[i] > 0

Swap(offered, amount, info, belief, maxSpread) ==
  LET asked == Other(offered)
      x == Decimal(pools)
      offer == amount * Unit[offered]
      result == SwapResult(x, offered, offer, info.maker, feeShare)
      after == [x EXCEPT ![offered] = @ + offer, ![asked] = @ - Leaving(result)]
      large == offer >= MinTradeSize /\ Leaving(result) >= MinTradeSize
      update == UpdatePrice(price, params, state, now, TotalLp, Internal(after, price.scale),
                            LastPrice(result, offered, offer))
      return == ToUint(asked, result.return)
      expected == [pools EXCEPT ![offered] = @ + amount,
                     ![asked] = @ - return - ToUint(asked, result.shared) - ToUint(asked, result.maker)]
  IN  /\ Message
      /\ BeforeSwapCheck(pools, amount)
      /\ pools[offered] + amount <= MaxPool
      /\ result.done
      /\ SpreadAccepted(belief, maxSpread, amount, return, ToUint(asked, result.spread))
      /\ large => update.done
      /\ price' = IF large THEN update.price ELSE price
      /\ valuedWith' = IF large THEN AmpGamma ELSE valuedWith
      /\ pools' = expected
      /\ SaveBalances(expected)
      /\ AccumulatePrices(SpotPrice(x))
      /\ AccumulateSwapSizes
      /\ IF offer >= MinTradeSize /\ result.return >= MinTradeSize
         THEN IF offered = 1 THEN SavePrecommit(amount, return) ELSE SavePrecommit(return, amount)
         ELSE UNCHANGED precommit
      /\ UNCHANGED <<lp, supply, params, state, feeShare, now, traded>>
-----------------------------------------------------------------------------
(* The queries about swaps.  One that cannot be answered fails: NoAnswer.  *)

NoAnswer == -1

Simulation(offered, amount, info) ==
  LET result == SwapResult(Decimal(pools), offered, amount * Unit[offered], info.maker, feeShare)
  IN  IF BeforeSwapCheck(pools, amount) /\ result.done THEN ToUint(Other(offered), result.return) ELSE NoAnswer

\* solves for the balance that it knows already
ComputeOfferAmount_Asked(x, asked, want) ==
  LET offered == Other(asked)
      xp == Internal(x, price.scale)
      wanted == IF asked = 2 THEN Times(want, price.scale) ELSE want
      before == Times(wanted, Reciprocal(Scale - params.outFee))
      y == CalcY([xp EXCEPT ![asked] = @ - before], CalcD(xp, AmpGamma), AmpGamma, asked)
      offer == y - xp[offered]
  IN  IF before >= xp[asked] \/ offer < 0 THEN NoAnswer
      ELSE IF offered = 2 THEN Ratio(offer, price.scale) ELSE offer

(* Which offer would return what is wanted, after the greatest fee there   *)
(* is: all in decimals.                                                    *)
ComputeOfferAmount(x, asked, want) ==
  LET offered == Other(asked)
      xp == Internal(x, price.scale)
      wanted == IF asked = 2 THEN Times(want, price.scale) ELSE want
      before == Times(wanted, Reciprocal(Scale - params.outFee))
      y == CalcY([xp EXCEPT ![asked] = @ - before], CalcD(xp, AmpGamma), AmpGamma, offered)
      offer == y - xp[offered]
  IN  IF before >= xp[asked] \/ offer < 0 THEN NoAnswer
      ELSE IF offered = 2 THEN Ratio(offer, price.scale) ELSE offer

ReverseSimulation(offered, ask) ==
  LET asked == Other(offered)
      offer == ComputeOfferAmount(Decimal(pools), asked, ask * Unit[asked])
  IN  IF offer = NoAnswer THEN NoAnswer ELSE ToUint(offered, offer)
-----------------------------------------------------------------------------
(* The chain around the pair; transfers of shares are those of LpTracker.  *)

Donate(i, gift) ==
  /\ Message
  /\ pools[i] + gift <= MaxPool
  /\ pools' = [pools EXCEPT ![i] = @ + gift]
  /\ UNCHANGED <<lp, supply, params, state, price, feeShare, prices, lastTime, balances,
                 observationVars, now, traded, valuedWith>>

Tick ==
  /\ now < MaxTime
  /\ now' = now + 1
  /\ traded' = Append(traded, price.last)
  /\ UNCHANGED <<pairVars, observationVars, messages, settings, valuedWith>>

Init ==
  /\ LpInit
  /\ ObservationsInit
  /\ pools = [i \in Assets |-> 0]
  /\ params = InitialParams
  /\ now = 1
  /\ state = [initial |-> [amp |-> 0, gamma |-> 0], initialTime |-> 1 - MinAmpChangingTime,
              future |-> InitialAmpGamma, futureTime |-> now]
  /\ price = [oracle |-> InitialScale, last |-> InitialScale, scale |-> InitialScale, updated |-> now,
              profit |-> 0, real |-> 0, losses |-> 0]
  /\ feeShare = 0
  /\ prices = [i \in Assets |-> 0]
  /\ lastTime = now
  /\ balances = [i \in Assets |-> Snapshot(0)]
  /\ messages = 0
  /\ settings = 0
  /\ traded = <<InitialScale>>
  /\ valuedWith = InitialAmpGamma

Next ==
  \/ \E new \in NewParams : UpdateParams(new.field, new.value)
  \/ \E next \in NextAmpGammas, duration \in Durations : PromoteParams(next, now + duration)
  \/ StopPromotion
  \/ \E rate \in FeeShares : UpdateFeeShare(rate)
  \/ \E receiver \in Users, autoStake \in AutoStakes, x, y \in Deposits, tolerance \in Tolerances,
        least \in Minima : ProvideLiquidity(receiver, autoStake, <<x, y>>, tolerance, least)
  \/ \E user \in Users, amount \in LpAmounts : WithdrawLiquidity(user, amount)
  \/ \E offered \in Assets, offer \in Offers, info \in FeeInfos, belief \in BeliefPrices,
        maxSpread \in Tolerances : Swap(offered, offer, info, belief, maxSpread)
  \/ \E i \in Assets, gift \in Gifts : Donate(i, gift)
  \/ Tick

Spec == Init /\ [][Next]_vars
-----------------------------------------------------------------------------
(* The types of the state. *)
PriceFields == {"oracle", "last", "scale", "updated", "profit", "real", "losses"}

TypeOK ==
  /\ LpTypeOK
  /\ pools \in [Assets -> Nat]
  /\ DOMAIN params = ParamFields
  /\ \A field \in ParamFields : params[field] \in ParamLimits[field].least..ParamLimits[field].most
  /\ WithinLimits(state.future)
  /\ DOMAIN price = PriceFields
  /\ \A field \in PriceFields : price[field] \in Nat
  /\ feeShare \in 0..Scale
  /\ Len(traded) = now

CONSTANT Rounding   \* what the decimals of the instance may lose in worth

(* What a share is worth by the curve, around the price scale; the query   *)
(* LpPrice asks it of the pools and the supply as they are.                *)
LpPrice(held, around, shares) ==
  Ratio(Xcp(CalcD(Internal(Decimal(held), around), AmpGamma), around), shares * LpUnit)

(* What the pair believes a share is worth, the assets that it holds are   *)
(* worth: between two updates of the prices no deposit of one asset or     *)
(* both, withdrawal, small trade or payment of fees takes any of it away.  *)
(* The minimum that the pair keeps is left out of the first valuation.     *)
ProfitBacked ==
  supply > 0 /\ AmpGamma = valuedWith =>
    LpPrice(pools, price.scale, supply - MinimumLiquidity) + Rounding >= price.real

(* What ReverseSimulation quotes is enough, whatever the fee turns out to  *)
(* be, as long as the one for a balanced pool is the lower one: one unit   *)
(* more than the quote returns all but a unit of what was asked for.       *)
QuotesSuffice ==
  params.midFee <= params.outFee /\ (\A i \in Assets : pools[i] > 0) =>
    \A offered \in Assets, info \in FeeInfos, ask \in Asks :
      LET quote == ReverseSimulation(offered, ask)
      IN  quote # NoAnswer => Simulation(offered, quote + 1, info) >= ask - 1

(* Moving the price scale leaves to the shares half of the profit that was *)
(* ever made, in the assets that are there when the message is done.       *)
RepegKeepsHalf ==
  [][price'.scale # price.scale =>
       2 * (LpPrice(pools', price'.scale, supply') + Rounding) >= price'.profit + Scale]_vars

Least(S) == CHOOSE x \in S : \A y \in S : x <= y
Most(S) == CHOOSE x \in S : \A y \in S : x >= y

(* The oracle and the price scale stay within the prices that blocks ended *)
(* with: trades that are undone in their own block move neither of them.   *)
PegFollowsTrades ==
  LET seen == {traded[t] : t \in DOMAIN traded}
  IN  \A p \in {price.oracle, price.scale} : p + 2 * now >= Least(seen) /\ p <= Most(seen)
=============================================================================
