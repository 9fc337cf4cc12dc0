------------------------ MODULE IncentivesProperties ------------------------
(***************************************************************************)
(* What the incentives contract has to keep true.                          *)
(***************************************************************************)
EXTENDS Incentives

PoolOK(pool) ==
  /\ pool = [total_lp |-> pool.total_lp, last_update_ts |-> pool.last_update_ts, rewards |-> pool.rewards]
  /\ pool.total_lp \in Nat
  /\ pool.last_update_ts \in Nat
  /\ DOMAIN pool.rewards \subseteq Keys
  /\ pool.rewards \in [DOMAIN pool.rewards -> RewardInfo]

(* Every variable holds a value of the type its storage item has; the      *)
(* amounts are unsigned.                                                   *)
TypeOK ==
  /\ now \in 1..MaxTime
  /\ DOMAIN pools = Pools /\ \A p \in Pools : PoolOK(pools[p])
  /\ users \in [Pools -> [Users -> UserInfo]]
  /\ schedules \in [Pools -> [Tokens -> Schedules]]
  /\ DOMAIN finished = Pools /\ \A p \in Pools : DOMAIN finished[p] = 1..MaxTime
  /\ \A p \in Pools, ts \in 1..MaxTime :
        /\ DOMAIN finished[p][ts] \subseteq Tokens
        /\ finished[p][ts] \in [DOMAIN finished[p][ts] -> Nat]
  /\ DOMAIN orphaned \subseteq Tokens /\ orphaned \in [DOMAIN orphaned -> Nat]
  /\ bank \in [Tokens -> Nat]
  /\ DOMAIN activePools \subseteq Pools /\ activePools \in [DOMAIN activePools -> Nat]
  /\ totalAlloc \in Nat /\ rewardPerSecond \in Nat
  /\ registered \subseteq Pools
-----------------------------------------------------------------------------
(* A pool whose internal rate is not zero is in ACTIVE_POOLS, or           *)
(* deactivate_pool fails with ActivePoolInvariantBroken and the factory    *)
(* can no longer deregister the pair (utils.rs:141-154).                   *)
EmittingPoolsListed ==
  \A p \in Pools : IsActivePool(pools[p]) => p \in DOMAIN activePools

PointsAddUp == totalAlloc = AllocSum(activePools)

(* A step that blocks several tokens of one active pool at once. *)
BlocksSeveral ==
  \E p \in DOMAIN activePools : Cardinality(PairAssets[p] \cap (blockedTokens' \ blockedTokens)) > 1

(* A step that lists a pool or gives one other points. *)
PointsSet ==
  \E p \in DOMAIN activePools' : p \notin DOMAIN activePools \/ activePools'[p] # activePools[p]

KeepsPoints == PointsSet \/ (PointsAddUp /\ ~BlocksSeveral) => PointsAddUp'

(* total_alloc_points, the divisor of every rate, is the sum of the points *)
(* of the active pools, through set-ups, blocked tokens and pair types and *)
(* deregistrations in any order.  One message alone breaks the sum, a      *)
(* batch that blocks several tokens of an active pool (execute.rs:488      *)
(* lists the pool once for each), and points that are set anew mend it.    *)
AllocPointsAddUp == PointsAddUp /\ [][KeepsPoints]_vars

(* As long as the points add up, and again as soon as they do, the pools   *)
(* together emit no more than reward_per_second, however pools were added, *)
(* disabled and rounded in between: no rate of a time when the total was   *)
(* wrong is left behind.                                                   *)
EmissionWithinRate ==
  LET rate(p) == IF Internal \in DOMAIN pools[p].rewards THEN pools[p].rewards[Internal].rps ELSE 0
  IN  PointsAddUp => SumTo(NumPools, [p \in Pools |-> rate(p)]) <= rewardPerSecond * Scale

(* No pool with a blocked asset receives internal emissions, whichever of  *)
(* SetupPools and UpdateBlockedTokenslist came first.                      *)
BlockedPoolsInactive ==
  \A p \in DOMAIN activePools : PairAssets[p] \cap blockedTokens = {}

(* The rate of an external reward runs past the pool's last update: the    *)
(* unsigned difference next_update_ts - last_update_ts of the next         *)
(* update_rewards (state.rs:133) does not underflow.                       *)
SchedulesRunPastUpdate ==
  \A p \in Pools : \A k \in DOMAIN pools[p].rewards \ {Internal} :
     pools[p].rewards[k].next_update_ts > pools[p].last_update_ts

(* Times are ordered: a position is synced no later than its pool was      *)
(* updated, and no finished entry is newer than the pool.  The scan of     *)
(* entries after last_claim_time then misses nothing that was finished at  *)
(* a later time.                                                           *)
TimesOrdered ==
  \A p \in Pools :
     /\ pools[p].last_update_ts <= now
     /\ \A u \in Users : users[p][u].last_claim_time <= pools[p].last_update_ts
     /\ \A ts \in 1..MaxTime : finished[p][ts] # NoneFinished => ts <= pools[p].last_update_ts

(* total_lp is the sum of the stakes: rewards are divided by exactly the   *)
(* stake that claims them.                                                 *)
StakesAddUp ==
  \A p \in Pools : pools[p].total_lp = SumTo(NumUsers, [u \in Users |-> users[p][u].amount])

(* Nobody's claim, deposit or withdrawal panics on the unsigned            *)
(* subtraction of a finished index (state.rs:691): a stake can be          *)
(* withdrawn in every reachable state.                                     *)
PositionsCanExit == \A u \in Users : ClaimPossible(u, Pools)
-----------------------------------------------------------------------------
(* What the contract would have to pay of an external token if everybody   *)
(* claimed, every schedule ran to its end and the owner took the orphans.  *)
Scheduled(mem, S, t) ==
  IF t \notin DOMAIN mem.rewards THEN 0
  ELSE LET r == mem.rewards[t]
       IN  Floor(r.rps * (r.next_update_ts - now) + UpcomingRewards(S, r.next_update_ts) + r.orphaned)

PoolLiability(p, t) ==
  LET mem == Loaded(p)
  IN  SumTo(NumUsers, [u \in Users |-> ClaimableReward(users[p][u], finished[p], mem, t)])
        + Scheduled(mem, schedules[p][t], t) + OrphanCredit(mem, t)

Liability(t) ==
  SumTo(NumPools, [p \in Pools |-> PoolLiability(p, t)])
    + (IF t \in DOMAIN orphaned THEN orphaned[t] ELSE 0)

(* The contract holds every external token it owes or will owe: rounding,  *)
(* overlapping schedules, late updates and failed transfers never create   *)
(* a debt.  The reward token is exempt, the DAO funds it as it goes.       *)
ExternalRewardsBacked ==
  \A t \in Tokens \ {RewardToken} : Liability(t) <= bank[t]
-----------------------------------------------------------------------------
(* What query_pending_rewards returns: the claim a position has by now. *)
PendingReward(p, u, k) == ClaimableReward(users[p][u], finished[p], Loaded(p), k)

(* What a step may do to it: leave it alone if the position stays as it    *)
(* is, unless time passes and it grows; a position that changed was paid.  *)
OwedTo(p, u, k) ==
  IF users'[p][u] = users[p][u]
  THEN /\ PendingReward(p, u, k)' >= PendingReward(p, u, k)
       /\ now' = now => PendingReward(p, u, k)' = PendingReward(p, u, k)
  ELSE PendingReward(p, u, k)' = 0

Owed == \A p \in Pools, u \in Users, k \in Keys : OwedTo(p, u, k)

(* Nothing is taken back from a position: not by the claims and stakes of  *)
(* others, not by new rates, rewards that end or are removed, or a         *)
(* rounding (state.rs update_rewards, save, calculate_rewards).            *)
OwedStays == [][Owed]_vars

(* The rate of t in second s, read off the stored pool and schedules. *)
PlannedRate(p, t, s) ==
  LET r == pools[p].rewards[t]
      n == r.next_update_ts
      S == schedules[p][t]
      later == {e \in After(S, n) : e > s}
  IN  IF s < now \/ t \notin DOMAIN pools[p].rewards THEN 0
      ELSE IF s < n THEN Floor(r.rps)
      ELSE IF later = {} THEN 0 ELSE Floor(S[Min(later)])
=============================================================================
