-------------------------- MODULE IncentivesLedger --------------------------
(***************************************************************************)
(* Incentives implements RewardLedger.  The contract settles lazily: the   *)
(* mapping brings each pool up to the current block, as the PendingRewards *)
(* query does, and reads what a claim would pay.                           *)
(***************************************************************************)
EXTENDS IncentivesProperties

CONSTANTS Emissions

EmissionOf(p) ==
  IF Internal \in DOMAIN pools[p].rewards THEN Floor(pools[p].rewards[Internal].rps) ELSE 0

OrphansInPool(p, t) ==
  LET mem == Loaded(p)
      of(k) == IF k \in DOMAIN mem.rewards THEN Floor(mem.rewards[k].orphaned) ELSE 0
  IN  OrphanCredit(mem, t) + of(t) + (IF t = RewardToken THEN of(Internal) ELSE 0)

Free(t) ==
  bank[t] - (IF t \in DOMAIN orphaned THEN orphaned[t] ELSE 0)
          - SumTo(NumPools, [p \in Pools |-> OrphansInPool(p, t)])

Ledger == INSTANCE RewardLedger WITH
  Steps <- TimeSteps,
  Deltas <- StakeAmounts \cup {-a : a \in StakeAmounts},
  Rates <- IncentiveRates,
  Donations <- TopUps,
  stake <- [p \in Pools |-> [u \in Users |-> users[p][u].amount]],
  plan <- [p \in Pools |-> [t \in Tokens |-> [s \in Seconds |-> PlannedRate(p, t, s)]]],
  emission <- [p \in Pools |-> EmissionOf(p)],
  owed <- [p \in Pools |-> [u \in Users |-> [k \in Keys |-> PendingReward(p, u, k)]]],
  free <- [t \in Tokens |-> Free(t)]

(* Whatever the order of deposits, claims, updates, overlapping schedules  *)
(* and removals, every staker is owed at every moment exactly the share of *)
(* each second's emissions that their stake of that second earned, and is  *)
(* paid it once (state.rs update_rewards, claim_finished_rewards).         *)
ImplementsLedger == Ledger!Spec

=============================================================================
