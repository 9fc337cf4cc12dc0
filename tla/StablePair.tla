----------------------------- MODULE StablePair -----------------------------
(***************************************************************************)
(* The stable pair (contracts/pair_stable): the amplification that moves   *)
(* between two values, liquidity of one asset or both, swaps along the     *)
(* curve, the fees and the accumulated prices.  As in Pair, pools is what  *)
(* the bank and the cw20 contracts say, before the assets of a message.    *)
(***************************************************************************)
EXTENDS StableMath, PairMath, LpToken, Observations

CONSTANTS Native,         \* whether an asset is a coin that comes with the message
          MaxAmp,         \* MAX_AMP
          MaxAmpChange,   \* MAX_AMP_CHANGE
          MinAmpChangingTime,  \* MIN_AMP_CHANGING_TIME
          MinTradeSize,   \* MIN_TRADE_SIZE
          TwapPrecision, Modulus,  \* of the accumulated prices
          InitialAmps, NextAmps, Durations,  \* parameters of ramps
          FeeInfos, FeeShares, BeliefPrices, Tolerances, Minima, AutoStakes,  \* as in Pair
          Deposits, Offers, Gifts, LpAmounts, Asks,
          MaxPool, MaxSupply, MaxTime, MaxMessages  \* bounds

ASSUME StablePairAssumption ==
  /\ Native \in [1..2 -> BOOLEAN]
  /\ MaxAmp \in Nat \ {0} /\ MaxAmpChange \in Nat \ {0} /\ MinAmpChangingTime \in Nat \ {0}
  /\ MinTradeSize \in Nat \ {0} /\ TwapPrecision \in Nat \ {0} /\ Modulus \in Nat \ {0}
  /\ InitialAmps \subseteq 1..MaxAmp /\ NextAmps \subseteq Nat /\ Durations \subseteq Nat
  /\ \A info \in FeeInfos : info.total \in 0..(Scale - 1) /\ info.maker \in 0..Scale
  /\ FeeShares \subseteq 0..Scale /\ AutoStakes \subseteq BOOLEAN
  /\ Deposits \subseteq Nat /\ Offers \subseteq Nat /\ Gifts \subseteq Nat /\ LpAmounts \subseteq Nat
  /\ Asks \subseteq Nat
  /\ MaxPool \in Nat /\ MaxSupply \in Nat /\ MaxTime \in Nat /\ MaxMessages \in Nat

VARIABLES
  pools,     \* what the pair holds
  amp,       \* CONFIG.init_amp, init_amp_time, next_amp, next_amp_time
  feeShare,  \* CONFIG.fee_share
  prices,    \* CONFIG.cumulative_prices
  lastTime,  \* CONFIG.block_time_last
  messages,  \* how many messages about liquidity, swaps and fees there were
  amps       \* history: the amplification in each block

pairVars == <<pools, lp, supply, amp, feeShare, prices, lastTime>>
vars == <<pairVars, observationVars, now, messages, amps>>

Assets == 1..2
Other(i) == 3 - i
Decimal(x) == [i \in Assets |-> FromUint(i, x[i])]
-----------------------------------------------------------------------------
(* The amplification.                                                      *)

Ramp(init, initTime, next, nextTime) ==
  [init |-> init, initTime |-> initTime, next |-> next, nextTime |-> nextTime]

AmpAt(ramp, time) ==
  IF time >= ramp.nextTime THEN ramp.next
  ELSE LET elapsed == SaturatingSub(time, ramp.initTime)
           range == SaturatingSub(ramp.nextTime, ramp.initTime)
       IN  IF ramp.next > ramp.init
           THEN ramp.init + ((ramp.next - ramp.init) * elapsed) \div range
           ELSE ramp.init - ((ramp.init - ramp.next) * elapsed) \div range

CurrentAmp == AmpAt(amp, now)

Message ==
  /\ messages < MaxMessages
  /\ messages' = messages + 1

Settings == <<pools, lp, supply, prices, lastTime, observationVars, now, amps>>

\* does not look when the last change began
StartChangingAmp_AnyTime(next, nextTime) ==
  /\ next \in 1..MaxAmp
  /\ next * AmpPrecision * MaxAmpChange >= CurrentAmp
  /\ next * AmpPrecision <= CurrentAmp * MaxAmpChange
  /\ nextTime >= now + MinAmpChangingTime
  /\ amp' = Ramp(CurrentAmp, now, next * AmpPrecision, nextTime)
  /\ UNCHANGED <<Settings, feeShare, messages>>

(* A change starts from where the last one has come, not before it has     *)
(* been under way for some time, and not to a value too far away.          *)
StartChangingAmp(next, nextTime) ==
  /\ next \in 1..MaxAmp
  /\ next * AmpPrecision * MaxAmpChange >= CurrentAmp
  /\ next * AmpPrecision <= CurrentAmp * MaxAmpChange
  /\ now >= amp.initTime + MinAmpChangingTime
  /\ nextTime >= now + MinAmpChangingTime
  /\ amp' = Ramp(CurrentAmp, now, next * AmpPrecision, nextTime)
  /\ UNCHANGED <<Settings, feeShare, messages>>

StopChangingAmp ==
  /\ amp' = Ramp(CurrentAmp, now, CurrentAmp, now)
  /\ UNCHANGED <<Settings, feeShare, messages>>

(* EnableFeeShare, and DisableFeeShare for a rate of 0.                    *)
UpdateFeeShare(rate) ==
  /\ feeShare' = rate
  /\ Message
  /\ UNCHANGED <<Settings, amp>>
-----------------------------------------------------------------------------
(* compute_swap, in units of the asset asked for; y is the new balance of  *)
(* that asset, as a decimal.                                               *)
ResultOf(held, asked, offer, y) ==
  LET gross == held[asked] - ToUint(asked, y)
  IN  IF y = NoResult THEN [done |-> FALSE, gross |-> 0, spread |-> 0]
      ELSE [done |-> gross \in Nat, gross |-> gross,
            spread |-> SaturatingSub(ToUint(asked, offer), gross)]

SwapResult(held, offered, offer) ==
  ResultOf(held, Other(offered), offer,
           CalcY(CurrentAmp, Decimal(held)[offered] + offer, Decimal(held)))

(* An amount of asset i as one of TwapPrecision to the whole.              *)
AdjustPrecision(i, amount) == MultiplyRatio(amount, Unit[i] * TwapPrecision, Scale)

(* What one whole of each asset would return, added up over time.  Time in *)
(* which a pool is empty is skipped.                                       *)
AccumulatePrices(held) ==
  LET result == [i \in Assets |-> SwapResult(held, i, Scale)]
  IN  IF now > lastTime /\ \A i \in Assets : held[i] > 0
      THEN /\ \A i \in Assets : result[i].done
           /\ prices' = [i \in Assets |->
                (prices[i] + (now - lastTime) * AdjustPrecision(Other(i), result[i].gross)) % Modulus]
           /\ lastTime' = now
      ELSE /\ lastTime' = IF now > lastTime THEN now ELSE lastTime
           /\ UNCHANGED prices
-----------------------------------------------------------------------------
(* Liquidity.                                                              *)

Greatest == IF Unit[1] <= Unit[2] THEN 1 ELSE 2   \* shares have the greatest precision

(* calculate_shares: the shares grow as the invariant does.                *)
Shares(deposit) ==
  LET after == ComputeD(CurrentAmp, Decimal([i \in Assets |-> pools[i] + deposit[i]]))
      before == ComputeD(CurrentAmp, Decimal(pools))
  IN  IF after = NoResult THEN NoResult
      ELSE IF supply = 0 THEN ToUint(Greatest, after) - MinimumLiquidity
      ELSE IF before \in {0, NoResult} THEN NoResult
      ELSE ToUint(Greatest, MultiplyRatio(FromUint(Greatest, supply), SaturatingSub(after, before), before))

(* get_assets_collection: a deposit of nothing is refused. *)
Deposited(deposit) == \E i \in Assets : deposit[i] > 0

(* mint_liquidity_token_message of this pair. *)
Mint(receiver, autoStake, share) == MintShares(receiver, autoStake, share, MinimumLiquidity)

(* The prices are those of the pools as the message found them, with the   *)
(* coins that came with it.                                                *)
ProvideLiquidity(receiver, autoStake, deposit, least) ==
  LET share == Shares(deposit)
      expected == [i \in Assets |-> pools[i] + deposit[i]]
  IN  /\ Message
      /\ Deposited(deposit)
      /\ \A i \in Assets : expected[i] \in 1..MaxPool
      /\ share > 0 /\ share >= least
      /\ supply + share + (IF supply = 0 THEN MinimumLiquidity ELSE 0) <= MaxSupply
      /\ Mint(receiver, autoStake, share)
      /\ pools' = expected
      /\ AccumulatePrices([i \in Assets |-> IF Native[i] THEN expected[i] ELSE pools[i]])
      /\ UNCHANGED <<amp, feeShare, observationVars, now, amps>>

(* get_share_in_assets of this pair. *)
Refund(amount) == ShareInAssets(pools, amount, supply)

EnsureMinAssetsToReceive(refund, least) == \A i \in Assets : refund[i] >= least

WithdrawLiquidity(user, amount, least) ==
  LET refund == Refund(amount)
  IN  /\ Message
      /\ BurnShares(user, amount)
      /\ EnsureMinAssetsToReceive(refund, least)
      /\ pools' = [i \in Assets |-> pools[i] - refund[i]]
      /\ AccumulatePrices(pools)
      /\ UNCHANGED <<amp, feeShare, observationVars, now, amps>>
-----------------------------------------------------------------------------
(* Swaps.                                                                  *)

SharedFee(commission) == Times(commission, feeShare)
MakerFee(commission, makerRate) == Times(commission - SharedFee(commission), makerRate)

\* gives the commission away and keeps it
Leaving_Twice(gross, info) ==
  LET commission == Times(gross, info.total)
  IN  gross + SharedFee(commission) + MakerFee(commission, info.maker)

(* What a swap takes out of the pool, for the trader and for the fees.     *)
Leaving(gross, info) ==
  LET commission == Times(gross, info.total)
  IN  (gross - commission) + SharedFee(commission) + MakerFee(commission, info.maker)

AssertMaxSpread(belief, maxSpread, offer, result) ==
  SpreadAccepted(belief, maxSpread, offer, result.gross, result.spread)

Swap(offered, offer, info, belief, maxSpread) ==
  LET asked == Other(offered)
      result == SwapResult(pools, offered, FromUint(offered, offer))
      return == result.gross - Times(result.gross, info.total)
      large == /\ FromUint(offered, offer) >= MinTradeSize
               /\ FromUint(asked, return) >= MinTradeSize
  IN  /\ Message
      /\ Tradable(pools, offer)
      /\ pools[offered] + offer <= MaxPool
      /\ result.done
      /\ AssertMaxSpread(belief, maxSpread, offer, result)
      /\ pools' = [pools EXCEPT ![offered] = @ + offer, ![asked] = @ - Leaving(result.gross, info)]
      /\ AccumulatePrices(pools)
      /\ AccumulateSwapSizes
      /\ IF large
         THEN LET bought == IF offered = 1 THEN offer ELSE return
                  sold == IF offered = 1 THEN return ELSE offer
              IN  SavePrecommit(bought, sold)
         ELSE UNCHANGED precommit
      /\ UNCHANGED <<lp, supply, amp, feeShare, now, amps>>

(* Coins are swapped by a message of their own, cw20 tokens by the message *)
(* with which they are sent.                                               *)
SwapCoins(offered, offer, info, belief, maxSpread) ==
  Native[offered] /\ Swap(offered, offer, info, belief, maxSpread)

ReceiveCw20(offered, offer, info, belief, maxSpread) ==
  ~Native[offered] /\ Swap(offered, offer, info, belief, maxSpread)
-----------------------------------------------------------------------------
(* The queries about swaps.  One that cannot be answered fails: NoResult.  *)

(* What an offer would return, nothing if there can be no swap.            *)
Simulation(offered, offer, info) ==
  LET result == SwapResult(pools, offered, FromUint(offered, offer))
  IN  IF ~Tradable(pools, offer) THEN 0
      ELSE IF ~result.done THEN NoResult
      ELSE result.gross - Times(result.gross, info.total)

\* forgets the commission
ReverseSimulation_Gross(offered, ask, info) ==
  LET asked == Other(offered)
      y == CalcY(CurrentAmp, Decimal(pools)[asked] - FromUint(asked, ask), Decimal(pools))
  IN  IF ~Tradable(pools, ask) THEN 0
      ELSE IF FromUint(asked, ask) >= Decimal(pools)[asked] \/ y = NoResult THEN NoResult
      ELSE (ToUint(Greatest, y) - ToUint(Greatest, Decimal(pools)[offered])) \div (Unit[offered] \div Unit[Greatest])

(* Which offer would return what is asked for: the difference is taken in  *)
(* the greatest precision and then cut to that of the offer.               *)
ReverseSimulation(offered, ask, info) ==
  LET asked == Other(offered)
      gross == BeforeCommission(FromUint(asked, ask), info.total)
      y == CalcY(CurrentAmp, Decimal(pools)[asked] - gross, Decimal(pools))
      offer == ToUint(Greatest, y) - ToUint(Greatest, Decimal(pools)[offered])
  IN  IF ~Tradable(pools, ask) THEN 0
      ELSE IF gross > Decimal(pools)[asked] \/ y = NoResult \/ offer < 0 THEN NoResult
      ELSE offer \div (Unit[offered] \div Unit[Greatest])
-----------------------------------------------------------------------------
(* The chain around the pair; transfers of shares are those of LpTracker.  *)

Donate(i, gift) ==
  /\ Message
  /\ pools[i] + gift <= MaxPool
  /\ pools' = [pools EXCEPT ![i] = @ + gift]
  /\ UNCHANGED <<lp, supply, amp, feeShare, prices, lastTime, observationVars, now, amps>>

Tick ==
  /\ now < MaxTime
  /\ now' = now + 1
  /\ amps' = Append(amps, AmpAt(amp, now + 1))
  /\ UNCHANGED <<pairVars, observationVars, messages>>

Init ==
  /\ LpInit
  /\ ObservationsInit
  /\ pools = [i \in Assets |-> 0]
  /\ \E a \in InitialAmps :
       LET began == 1 - MinAmpChangingTime   \* of an instantiation some time ago
       IN  amp = Ramp(a * AmpPrecision, began, a * AmpPrecision, began)
  /\ feeShare = 0
  /\ prices = [i \in Assets |-> 0]
  /\ lastTime = 0
  /\ now = 1
  /\ messages = 0
  /\ amps = <<amp.init>>

Next ==
  \/ \E next \in NextAmps, duration \in Durations : StartChangingAmp(next, now + duration)
  \/ StopChangingAmp
  \/ \E rate \in FeeShares : UpdateFeeShare(rate)
  \/ \E receiver \in Users, autoStake \in AutoStakes, x, y \in Deposits, least \in Minima :
       ProvideLiquidity(receiver, autoStake, <<x, y>>, least)
  \/ \E user \in Users, least \in Minima, amount \in LpAmounts : WithdrawLiquidity(user, amount, least)
  \/ \E offered \in Assets, offer \in Offers, info \in FeeInfos, belief \in BeliefPrices,
        maxSpread \in Tolerances : \/ SwapCoins(offered, offer, info, belief, maxSpread)
                                  \/ ReceiveCw20(offered, offer, info, belief, maxSpread)
  \/ \E i \in Assets, gift \in Gifts : Donate(i, gift)
  \/ Tick

Spec == Init /\ [][Next]_vars
-----------------------------------------------------------------------------
(* The types of the state.                                                 *)
TypeOK ==
  /\ LpTypeOK
  /\ pools \in [Assets -> Nat]
  /\ amp.init \in 1..(MaxAmp * AmpPrecision) /\ amp.next \in 1..(MaxAmp * AmpPrecision)
  /\ feeShare \in 0..Scale
  /\ prices \in [Assets -> 0..(Modulus - 1)]
  /\ lastTime \in 0..now
  /\ Len(amps) = now

(* However the owner starts and stops changes, the amplification does not  *)
(* get past the factor that one change may have within the shortest time   *)
(* that a change may take, up to its own rounding; and what a block        *)
(* computes with is the same for all of its messages.                      *)
AmpMovesSlowly ==
  /\ CurrentAmp = amps[now]
  /\ \A t \in 1..now :
       now - t <= MinAmpChangingTime =>
         /\ CurrentAmp <= MaxAmpChange * (amps[t] + 1)
         /\ amps[t] <= MaxAmpChange * (CurrentAmp + 1)

(* What ReverseSimulation quotes is enough, but for what rounding and the  *)
(* tolerance of the iterations take on either side: one unit more than the *)
(* quote returns all but a unit, and all but the tolerance, of what was    *)
(* asked for, whenever the swap can be computed.                           *)
QuotesSuffice ==
  \A offered \in Assets, info \in FeeInfos, ask \in Asks :
    LET quote == ReverseSimulation(offered, ask, info)
        return == Simulation(offered, quote + 1, info)
    IN  Tradable(pools, ask) /\ quote # NoResult /\ return # NoResult =>
          FromUint(Other(offered), return + 1) + Tol >= FromUint(Other(offered), ask)

(* What the curve says that pools are worth, and pools from which a swap   *)
(* has taken too much by rounding: a unit, and what CalcY may be off.      *)
Value(held) == ComputeD(CurrentAmp, Decimal(held))
ValueRounded(held) == ComputeD(CurrentAmp, [i \in Assets |-> FromUint(i, held[i] + 1) + Tol])

(* No message makes a share worth less, but for the one unit of an asset   *)
(* that the return of a swap is rounded up by, and the tolerance of the    *)
(* iterations: the invariant for each share does not fall with deposits of *)
(* one asset or both, withdrawals and swaps, whatever the fees.            *)
ValueKept ==
  [][now' = now /\ supply > 0 /\ Value(pools) > 0 =>
       (ValueRounded(pools') + Tol) * supply >= Value(pools) * supply']_vars
=============================================================================
