------------------------------- MODULE Oracle -------------------------------
(***************************************************************************)
(* The oracle (contracts/periphery/oracle) over its pair: it samples the   *)
(* accumulated prices once a period and answers with the average between   *)
(* the last two samples.  Plain transfers to the pair are left out: the    *)
(* pair prices the time since its last message by what it holds now, so    *)
(* a transfer changes the price of time that has passed.                   *)
(***************************************************************************)
EXTENDS Pair

CONSTANTS Period,        \* PERIOD
          One,           \* ten to the precision of the asset
          Amounts        \* amounts that a consumer asks about

ASSUME OracleAssumption ==
  /\ Period \in Nat \ {0} /\ One \in Nat \ {0} /\ Amounts \subseteq Nat

VARIABLES
  sampled,  \* PRICE_LAST.cumulative_prices
  average,  \* PRICE_LAST.average_prices
  sampledAt,  \* PRICE_LAST.block_timestamp_last, 0 before the instantiation
  seen,     \* history: least and greatest price of each asset since the last sample
  span,     \* history: what seen was for the period that average is about
  length    \* history: how long that period was

sampleVars == <<sampled, average, sampledAt, seen, span, length>>
oracleVars == <<pairVars, sampleVars>>

(* CumulativePrices of the pair: what a handler would store now.           *)
CumulativePrices == Accumulated(pools)

(* How many of the other asset one asset is worth, TwapPrecision to the    *)
(* unit; an empty pair counts as a price of 0.                             *)
Price(i) == IF pools[i] = 0 THEN 0 ELSE (TwapPrecision * pools[Other(i)]) \div pools[i]

Nothing == [i \in Assets |-> [least |-> Modulus, most |-> 0]]
-----------------------------------------------------------------------------
OracleInit ==
  /\ Init
  /\ sampled = [i \in Assets |-> 0]
  /\ average = [i \in Assets |-> 0]
  /\ sampledAt = 0
  /\ seen = Nothing
  /\ span = Nothing
  /\ length = 0

Instantiate ==
  /\ sampledAt = 0
  /\ sampled' = CumulativePrices
  /\ average' = [i \in Assets |-> 0]
  /\ sampledAt' = now
  /\ seen' = Nothing
  /\ UNCHANGED <<span, length, pairVars>>

\* divides by the period even when more time has passed
Update_PerPeriod ==
  /\ sampledAt > 0
  /\ now - sampledAt >= Period
  /\ average' = [i \in Assets |-> Ratio((CumulativePrices[i] - sampled[i]) % Modulus, Period)]
  /\ sampled' = CumulativePrices
  /\ sampledAt' = now
  /\ span' = seen
  /\ length' = now - sampledAt
  /\ seen' = Nothing
  /\ UNCHANGED pairVars

Update ==
  /\ sampledAt > 0
  /\ now - sampledAt >= Period
  /\ average' = [i \in Assets |->
                   Ratio((CumulativePrices[i] - sampled[i]) % Modulus, now - sampledAt)]
  /\ sampled' = CumulativePrices
  /\ sampledAt' = now
  /\ span' = seen
  /\ length' = now - sampledAt
  /\ seen' = Nothing
  /\ UNCHANGED pairVars

(* What amount of asset i is worth.  Without an average the pair is asked  *)
(* what it would return for one whole asset.                               *)
Consult(i, amount, info) ==
  IF average[i] = 0
  THEN LET gross == GrossReturn(pools[i], pools[Other(i)], One)
       IN  MultiplyRatio(gross - Times(gross, info.total), amount, One)
  ELSE Times(amount, average[i]) \div TwapPrecision

Witness(i) == [least |-> IF Price(i) < seen[i].least THEN Price(i) ELSE seen[i].least,
               most |-> IF Price(i) > seen[i].most THEN Price(i) ELSE seen[i].most]

(* Time passes, at the prices that stand. *)
Pass ==
  /\ Tick
  /\ seen' = [i \in Assets |-> Witness(i)]
  /\ UNCHANGED <<sampled, average, sampledAt, span, length>>

OracleNext ==
  \/ Instantiate
  \/ Update
  \/ Pass
  \/ /\ \/ \E receiver \in Users, autoStake \in BOOLEAN, x, y \in Deposits,
              tolerance \in Tolerances, least \in Minima :
             ProvideLiquidity(receiver, autoStake, <<x, y>>, tolerance, least)
        \/ \E user \in Users, least \in Minima, amount \in LpAmounts :
             WithdrawLiquidity(user, amount, least)
        \/ \E offered \in Assets, offer \in Offers, info \in FeeInfos, belief \in BeliefPrices,
              maxSpread \in Tolerances : Swap(offered, offer, info, belief, maxSpread)
     /\ UNCHANGED sampleVars

OracleSpec == OracleInit /\ [][OracleNext]_oracleVars
-----------------------------------------------------------------------------
(* What the oracle answers from its average lies between the least and the *)
(* greatest price that stood while the time of the average passed, over    *)
(* however many messages, although the pair records a price only when the  *)
(* next message comes, rounds each piece down and lets the sums wrap.  The *)
(* sum of one period must not exceed the modulus: more than one wrap is    *)
(* not seen.                                                               *)
AverageWithinPrices ==
  \A i \in Assets, amount \in Amounts, info \in FeeInfos :
    average[i] > 0 /\ (span[i].most + 1) * length < Modulus =>
      LET answer == Consult(i, amount, info)
      IN  /\ answer * TwapPrecision <= amount * (span[i].most + 1)
          /\ (answer + 1) * TwapPrecision > amount * span[i].least
=============================================================================
