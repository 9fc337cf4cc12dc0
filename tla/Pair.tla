-------------------------------- MODULE Pair --------------------------------
(***************************************************************************)
(* The constant product pair (contracts/pair): liquidity, swaps, fees, the *)
(* accumulated prices and the snapshots of its balances.                   *)
(*                                                                         *)
(* What the pair holds is not in its storage: it asks the bank and the     *)
(* cw20 contracts.  A native deposit is in that answer already and is      *)
(* subtracted, a cw20 deposit is pulled afterwards: in both cases the      *)
(* handlers compute with the balances before the deposit, which are pools. *)
(***************************************************************************)
EXTENDS PairMath, LpToken, Snapshots

CONSTANTS TrackBalances,   \* track_asset_balances of the instantiation
          UnpauseAt,       \* pool_unpause_at, 0 for none
          TwapPrecision,   \* 10^TWAP_PRECISION
          Modulus,         \* 2^128: accumulated prices wrap
          FeeInfos,        \* answers of the factory's FeeInfo query
          FeeShares,       \* rates that EnableFeeShare may set, 0 for none
          BeliefPrices, Tolerances,  \* parameters of messages
          Minima,          \* min_lp_to_receive, and of each asset min_assets_to_receive
          Deposits, Offers, Gifts,   \* amounts of messages and plain transfers
          LpAmounts,       \* amounts of shares that a message moves
          MaxPool,         \* bound: what a pool holds
          MaxSupply,       \* bound: shares
          MaxTime,         \* bound: time
          MaxMessages      \* bound: messages of a block

ASSUME PairAssumption ==
  /\ TrackBalances \in BOOLEAN
  /\ UnpauseAt \in Nat
  /\ TwapPrecision \in Nat \ {0} /\ Modulus \in Nat \ {0}
  /\ \A info \in FeeInfos : info.total \in 0..(Scale - 1) /\ info.maker \in 0..Scale
  /\ FeeShares \subseteq 0..Scale
  /\ BeliefPrices \subseteq Nat /\ Tolerances \subseteq Nat /\ Minima \subseteq Nat
  /\ Deposits \subseteq Nat /\ Offers \subseteq Nat /\ Gifts \subseteq Nat
  /\ LpAmounts \subseteq Nat
  /\ MaxPool \in Nat /\ MaxSupply \in Nat /\ MaxTime \in Nat /\ MaxMessages \in Nat

VARIABLES
  pools,     \* what the bank and the cw20 contracts say the pair holds
  feeShare,  \* CONFIG.fee_share
  prices,    \* CONFIG.price0_cumulative_last, price1_cumulative_last
  lastTime,  \* CONFIG.block_time_last
  balances,  \* BALANCES
  now,       \* height and time of the block
  messages   \* how many messages the block holds

pairVars == <<pools, lp, supply, feeShare, prices, lastTime, balances, now, messages>>

Assets == 1..2
Other(i) == 3 - i

Init ==
  /\ LpInit
  /\ pools = [i \in Assets |-> 0]
  /\ feeShare = 0
  /\ prices = [i \in Assets |-> 0]
  /\ lastTime = 0
  /\ balances = [i \in Assets |-> Snapshot(0)]
  /\ now = 1
  /\ messages = 0
-----------------------------------------------------------------------------
(* The prices with the time since the last update added, at the rate of    *)
(* the given pools.  An empty pool has no price: that time is skipped.     *)
Accumulated(held) ==
  IF now <= lastTime \/ \E i \in Assets : held[i] = 0
  THEN prices
  ELSE [i \in Assets |->
          (prices[i] + MultiplyRatio((now - lastTime) * TwapPrecision, held[Other(i)], held[i])) % Modulus]

AccumulatePrices ==
  /\ prices' = Accumulated(pools)
  /\ lastTime' = IF now > lastTime THEN now ELSE lastTime

\* saves what the pair held before the message
SaveBalances_Before(expected) ==
  balances' = IF TrackBalances
              THEN [i \in Assets |-> SaveAt(balances[i], pools[i], now)]
              ELSE balances

(* Every handler saves what it expects the pair to hold when its messages  *)
(* are done.                                                               *)
SaveBalances(expected) ==
  balances' = IF TrackBalances
              THEN [i \in Assets |-> SaveAt(balances[i], expected[i], now)]
              ELSE balances
-----------------------------------------------------------------------------
(* A block has room for some messages. *)
Message ==
  /\ messages < MaxMessages
  /\ messages' = messages + 1

(* get_deposits_from_assets: this pair takes both of its assets. *)
Deposited(deposit) == \A i \in Assets : deposit[i] > 0

ProvideLiquidity(receiver, autoStake, deposit, tolerance, least) ==
  LET share == IF supply = 0 THEN InitialShare(deposit) ELSE ShareOf(deposit, pools, supply)
      expected == [i \in Assets |-> pools[i] + deposit[i]]
  IN  /\ Message
      /\ Deposited(deposit)
      /\ \A i \in Assets : expected[i] <= MaxPool
      /\ supply = 0 => share > 0
      /\ share >= least
      /\ supply > 0 => SlippageAccepted(tolerance, deposit, pools)
      /\ supply + share + (IF supply = 0 THEN MinimumLiquidity ELSE 0) <= MaxSupply
      /\ MintShares(receiver, autoStake, share, MinimumLiquidity)
      /\ pools' = expected
      /\ SaveBalances(expected)
      /\ AccumulatePrices
      /\ UNCHANGED <<feeShare, now>>

EnsureMinAssetsToReceive(refund, least) == \A i \in Assets : refund[i] >= least

WithdrawLiquidity(user, amount, least) ==
  LET refund == ShareInAssets(pools, amount, supply)
      expected == [i \in Assets |-> pools[i] - refund[i]]
  IN  /\ Message
      /\ BurnShares(user, amount)
      /\ EnsureMinAssetsToReceive(refund, least)
      /\ pools' = expected
      /\ SaveBalances(expected)
      /\ AccumulatePrices
      /\ UNCHANGED <<feeShare, now>>

(* What leaves the pair in a swap besides the return: first the part of    *)
(* the one who shares fees, of the rest the maker's.                       *)
SharedFee(commission) == Times(commission, feeShare)
MakerFee(commission, makerRate) == Times(commission - SharedFee(commission), makerRate)

(* What a swap pays, with held in the pools, and what leaves them for it. *)
SwapResult(held, offered, offer, info) ==
  LET gross == GrossReturn(held[offered], held[Other(offered)], offer)
      commission == Times(gross, info.total)
      paid == gross - commission
  IN  [gross |-> gross,
       spread |-> SpreadOf(held[offered], held[Other(offered)], offer),
       paid |-> paid,
       leaving |-> paid + SharedFee(commission) + MakerFee(commission, info.maker)]

Exchanged(held, offered, offer, leaving) ==
  [held EXCEPT ![offered] = @ + offer, ![Other(offered)] = @ - leaving]

(* What the balances are expected to be after the fees went out. *)
AfterSwap(held, offered, offer, leaving) ==
  [i \in Assets |-> IF i = offered THEN held[i] + offer ELSE held[i] - leaving]

SwapAccepted(held, offered, offer, info, belief, maxSpread) ==
  /\ now >= UnpauseAt
  /\ Tradable(held, offer)
  /\ held[offered] + offer <= MaxPool
  /\ LET result == SwapResult(held, offered, offer, info)
     IN  SpreadAccepted(belief, maxSpread, offer, result.gross, result.spread)

Swap(offered, offer, info, belief, maxSpread) ==
  LET leaving == SwapResult(pools, offered, offer, info).leaving
  IN  /\ Message
      /\ SwapAccepted(pools, offered, offer, info, belief, maxSpread)
      /\ pools' = Exchanged(pools, offered, offer, leaving)
      /\ SaveBalances(AfterSwap(pools, offered, offer, leaving))
      /\ AccumulatePrices
      /\ UNCHANGED <<lp, supply, feeShare, now>>

(* The queries Simulation and ReverseSimulation: what an offer would pay,  *)
(* and which offer would pay what is asked for.                            *)
Simulation(offered, offer, info) == SwapResult(pools, offered, offer, info).paid
ReverseSimulation(offered, ask, info) == OfferFor(pools[offered], pools[Other(offered)], ask, info.total)

(* EnableFeeShare and DisableFeeShare; only for the factory's owner. *)
UpdateConfig(rate) ==
  /\ Message
  /\ feeShare' = rate
  /\ UNCHANGED <<pools, lp, supply, prices, lastTime, balances, now>>
-----------------------------------------------------------------------------
(* The chain around the pair. *)

TransferLp(from, to, amount) ==
  /\ Message
  /\ SendLp(from, to, amount)
  /\ UNCHANGED <<pools, feeShare, prices, lastTime, balances, now>>

(* Somebody sends assets to the pair without a message. *)
Donate(i, gift) ==
  /\ Message
  /\ pools[i] + gift <= MaxPool
  /\ pools' = [pools EXCEPT ![i] = @ + gift]
  /\ UNCHANGED <<lp, supply, feeShare, prices, lastTime, balances, now>>

Tick ==
  /\ now < MaxTime
  /\ now' = now + 1
  /\ messages' = 0
  /\ UNCHANGED <<pools, lp, supply, feeShare, prices, lastTime, balances>>

Next ==
  \/ \E receiver \in Users, autoStake \in BOOLEAN, x, y \in Deposits,
        tolerance \in Tolerances, least \in Minima :
       ProvideLiquidity(receiver, autoStake, <<x, y>>, tolerance, least)
  \/ \E user \in Users, least \in Minima, amount \in LpAmounts :
       WithdrawLiquidity(user, amount, least)
  \/ \E offered \in Assets, offer \in Offers, info \in FeeInfos, belief \in BeliefPrices,
        maxSpread \in Tolerances : Swap(offered, offer, info, belief, maxSpread)
  \/ \E rate \in FeeShares : UpdateConfig(rate)
  \/ \E from \in Users, to \in Holders, amount \in LpAmounts : TransferLp(from, to, amount)
  \/ \E i \in Assets, gift \in Gifts : Donate(i, gift)
  \/ Tick

Spec == Init /\ [][Next]_pairVars
-----------------------------------------------------------------------------
(* The types of the state.                                                 *)
TypeOK ==
  /\ LpTypeOK
  /\ pools \in [Assets -> Nat]
  /\ feeShare \in 0..Scale
  /\ prices \in [Assets -> 0..(Modulus - 1)]
  /\ lastTime \in Nat
  /\ now \in Nat \ {0}
  /\ lastTime <= now

(* As long as there are shares the pair keeps the minimum for itself and   *)
(* holds something of each asset: no sequence of deposits, withdrawals and *)
(* swaps can leave shares that stand for nothing, or a pool with one side. *)
SharesBacked ==
  supply > 0 => /\ lp[Self] >= MinimumLiquidity
                /\ \A i \in Assets : pools[i] > 0

(* No message of anybody makes a share worth less: the product of the      *)
(* pools for each pair of shares never falls, whatever the rounding of     *)
(* refunds, shares and returns.                                            *)
ShareValueNeverFalls ==
  [][supply > 0 /\ supply' > 0 =>
       pools[1] * pools[2] * supply' * supply' <= pools'[1] * pools'[2] * supply * supply]_pairVars
=============================================================================
