----------------------------- MODULE Incentives -----------------------------
(***************************************************************************)
(* The incentives contract (contracts/tokenomics/incentives) with the part *)
(* of the factory it depends on: LP stakes, DAO-funded internal emissions  *)
(* split by allocation points, external reward schedules, finished and     *)
(* orphaned rewards, blocked tokens and blacklisted pair types.            *)
(*                                                                         *)
(* A message is a transaction: a handler that returns an error or panics   *)
(* leaves no trace, so its guards are conjuncts of the action.  A reward   *)
(* transfer is sent with ReplyOn::Always and never fails the transaction:  *)
(* it is paid, or its amount is credited to ORPHANED_REWARDS (module       *)
(* RewardTransfers has the messages and replies this step stands for).     *)
(***************************************************************************)
EXTENDS PoolRewards

CONSTANTS NumPools,         \* LP tokens are 1..NumPools
          NumUsers,         \* stakers are 1..NumUsers
          PairAssets,       \* the two assets of each pool's pair
          PairTypeOf        \* the pair type of each pool

(* What the messages of a run may carry, and its bounds. *)
CONSTANTS TimeSteps,        \* seconds between two blocks
          LpSupply,         \* bound: LP tokens of one pool
          StakeAmounts,     \* amounts of one deposit
          AllocPoints,      \* allocation points given to one pool
          EmissionRates,    \* amounts of SetTokensPerSecond
          IncentiveTokens,  \* tokens brought by Incentivize
          IncentiveRates,   \* whole units per second of a schedule ...
          IncentiveDust,    \* ... and units that do not divide evenly
          IncentivePeriods, \* durations asked for
          MaxBalance,       \* bound: units of one token the contract holds
          TopUps,           \* DAO transfers of the reward token
          BlockBatches,     \* token sets of one UpdateBlockedTokenslist
          DelistedPools,    \* pools whose pair the factory may deregister
          BlacklistTypes,   \* pair types the factory may blacklist
          FlakyTokens,      \* tokens whose transfer may fail
          RemovalModes,     \* bypass_upcoming_schedules of a removal
          CarefulOwner,     \* the owner removes rewards in quiet blocks only
          OrphanLimits      \* limits of ClaimOrphanedRewards

Pools == 1..NumPools
Users == 1..NumUsers

ASSUME NumPoolsAssumption == NumPools \in Nat \ {0}
ASSUME NumUsersAssumption == NumUsers \in Nat \ {0}
ASSUME PairAssetsAssumption == DOMAIN PairAssets = Pools /\ \A p \in Pools : IsFiniteSet(PairAssets[p])
ASSUME InputsAssumption ==
  /\ TimeSteps \subseteq Nat \ {0}
  /\ LpSupply \in Nat
  /\ StakeAmounts \subseteq Nat \ {0}
  /\ AllocPoints \subseteq Nat \ {0}
  /\ EmissionRates \subseteq Nat
  /\ IncentiveTokens \subseteq Tokens
  /\ IncentiveRates \subseteq Nat
  /\ IncentiveDust \subseteq Nat
  /\ IncentivePeriods \subseteq Nat
  /\ MaxBalance \in Nat
  /\ TopUps \subseteq Nat
  /\ DelistedPools \subseteq Pools
  /\ RemovalModes \subseteq BOOLEAN
  /\ CarefulOwner \in BOOLEAN
  /\ OrphanLimits \subseteq Nat \ {0}

VARIABLES
  now,             \* env.block.time
  pools,           \* POOLS
  users,           \* USER_INFO
  schedules,       \* EXTERNAL_REWARD_SCHEDULES
  finished,        \* FINISHED_REWARD_INDEXES
  orphaned,        \* ORPHANED_REWARDS
  bank,            \* reward tokens the contract holds
  activePools,     \* ACTIVE_POOLS: allocation points by pool
  totalAlloc,      \* config.total_alloc_points
  rewardPerSecond, \* config.reward_per_second
  blockedTokens,   \* BLOCKED_TOKENS
  registered,      \* the factory's PAIRS
  blacklisted      \* the factory's blacklisted pair types

stakeVars == <<pools, users, schedules, finished>>
moneyVars == <<orphaned, bank>>
adminVars == <<activePools, totalAlloc, rewardPerSecond, blockedTokens>>
factoryVars == <<registered, blacklisted>>
vars == <<now, stakeVars, moneyVars, adminVars, factoryVars>>

NoneFinished == [t \in {} |-> 0]

Init ==
  /\ now = 1
  /\ pools = [p \in Pools |-> EmptyPool]
  /\ users = [p \in Pools |-> [u \in Users |-> NoPosition]]
  /\ schedules = [p \in Pools |-> [t \in Tokens |-> NoSchedules]]
  /\ finished = [p \in Pools |-> [ts \in 1..MaxTime |-> NoneFinished]]
  /\ orphaned = [t \in {} |-> 0]
  /\ bank = [t \in Tokens |-> 0]
  /\ activePools = [p \in {} |-> 0]
  /\ totalAlloc = 0
  /\ rewardPerSecond = 0
  /\ blockedTokens = {}
  /\ registered = Pools
  /\ blacklisted = {}
-----------------------------------------------------------------------------
(* A pool loaded and brought up to the current block. *)
Loaded(p) == UpdateRewards(Load(pools[p]), schedules[p], now)

(* save() of the pools P, each as mem[p]. *)
SavePools(mem, P) ==
  /\ pools' = [p \in Pools |-> IF p \in P THEN Stored(mem[p]) ELSE pools[p]]
  /\ finished' = [p \in Pools |-> IF p \in P THEN SaveFinished(finished[p], mem[p]) ELSE finished[p]]

Credit(ledger, keys, amount) ==
  [t \in DOMAIN ledger \cup keys |->
     (IF t \in DOMAIN ledger THEN ledger[t] ELSE 0) + (IF t \in keys THEN amount[t] ELSE 0)]

OrphanedBySave(mem, P) ==
  Credit(orphaned, UNION {OrphanKeys(mem[p]) : p \in P},
         [t \in Tokens |-> SumIn(P, NumPools, [p \in Pools |-> OrphanCredit(mem[p], t)])])

(* Transfers of amount[t] of each token, and of "emission" units of the    *)
(* reward token after them.  Those that fail are credited to "ledger".     *)
(* The code joins only rewards of one token that follow one another        *)
(* (utils.rs:81-89): a token may take several transfers, which succeed or  *)
(* fail together here.                                                     *)
Transfers(ledger, amount, emission, failing) ==
  LET sent(t) == t \notin failing /\ amount[t] <= bank[t]
      out(t) == IF sent(t) THEN amount[t] ELSE 0
      emitted == RewardToken \notin failing /\ emission <= bank[RewardToken] - out(RewardToken)
      lost == [t \in Tokens |->
                (IF sent(t) THEN 0 ELSE amount[t])
                  + (IF t = RewardToken /\ ~emitted THEN emission ELSE 0)]
  IN  /\ bank' = [t \in Tokens |->
                    bank[t] - out(t) - (IF t = RewardToken /\ emitted THEN emission ELSE 0)]
      /\ orphaned' = Credit(ledger, {t \in Tokens : lost[t] > 0}, lost)

(* claim_rewards for the positions of u in the pools P. *)
ClaimPossible(u, P) ==
  \A p \in P : ~ClaimUnderflows(users[p][u], finished[p], Loaded(p))

Claimed(u, P, mem, k) ==
  SumIn(P, NumPools, [p \in Pools |-> ClaimableReward(users[p][u], finished[p], mem[p], k)])

PayClaim(u, P, mem) ==
  \E failing \in SUBSET FlakyTokens :
     Transfers(OrphanedBySave(mem, P), [t \in Tokens |-> Claimed(u, P, mem, t)],
               Claimed(u, P, mem, Internal), failing)

SyncUser(u, P, mem, amount) ==
  users' = [p \in Pools |-> IF p \in P
              THEN [users[p] EXCEPT ![u] = SyncPosition(@, mem[p], amount[p])]
              ELSE users[p]]
-----------------------------------------------------------------------------
(* Stakers *)
ClaimRewards(u, P) ==
  LET mem == [p \in Pools |-> Loaded(p)]
      staked == [p \in Pools |-> users[p][u].amount]
  IN  /\ P # {} /\ \A p \in P : staked[p] > 0
      /\ ClaimPossible(u, P)
      /\ PayClaim(u, P, mem)
      /\ SavePools(mem, P)
      /\ SyncUser(u, P, mem, staked)
      /\ UNCHANGED <<now, schedules, adminVars, factoryVars>>

(* A claim for the staker comes with every change of a stake. *)
Restake(u, p, delta) ==
  LET mem == [q \in Pools |-> Loaded(q)]
      restaked == [mem EXCEPT ![p].total_lp = @ + delta]
      staked == [q \in Pools |-> users[q][u].amount + delta]
  IN  /\ ClaimPossible(u, {p})
      /\ PayClaim(u, {p}, mem)
      /\ SavePools(restaked, {p})
      /\ SyncUser(u, {p}, restaked, staked)
      /\ UNCHANGED <<now, schedules, adminVars, factoryVars>>

Deposit(u, p, amount) ==
  /\ p \in registered
  /\ pools[p].total_lp + amount <= LpSupply
  /\ Restake(u, p, amount)

Withdraw(u, p, amount) ==
  /\ amount \in 1..users[p][u].amount
  /\ Restake(u, p, -amount)
-----------------------------------------------------------------------------
(* Internal emissions *)
IneligiblePool_UnlessBlocked(p) == p \notin registered \/ PairTypeOf[p] \in blacklisted
IneligiblePool(p) ==
  \/ p \notin registered
  \/ PairAssets[p] \cap blockedTokens # {}
  \/ PairTypeOf[p] \in blacklisted

AllocSum(alloc) == SumIn(DOMAIN alloc, NumPools, alloc)

SetupPools(alloc) ==
  LET old == DOMAIN activePools
      setup == DOMAIN alloc
      disabled(p) == IF p \in old THEN DisableInternalRewards(Loaded(p)) ELSE Loaded(p)
      mem == [p \in Pools |-> IF p \in setup
                THEN SetInternalRewards(disabled(p), InternalRate(rewardPerSecond, alloc[p], AllocSum(alloc)))
                ELSE disabled(p)]
  IN  /\ \A p \in setup : ~IneligiblePool(p)
      /\ SavePools(mem, old \cup setup)
      /\ orphaned' = OrphanedBySave(mem, old \cup setup)
      /\ totalAlloc' = AllocSum(alloc)
      /\ activePools' = alloc
      /\ UNCHANGED <<now, users, schedules, bank, rewardPerSecond, blockedTokens, factoryVars>>

SetTokensPerSecond(amount) ==
  LET active == DOMAIN activePools
      mem == [p \in Pools |-> IF p \in active
                THEN SetInternalRewards(Loaded(p), InternalRate(amount, activePools[p], totalAlloc))
                ELSE Loaded(p)]
  IN  /\ active # {} => totalAlloc > 0
      /\ SavePools(mem, active)
      /\ orphaned' = OrphanedBySave(mem, active)
      /\ rewardPerSecond' = amount
      /\ UNCHANGED <<now, users, schedules, bank, activePools, totalAlloc, blockedTokens, factoryVars>>

(* Take the pools D out of ACTIVE_POOLS and share newTotal points among    *)
(* the others.  The division by newTotal panics when it is 0.              *)
DisablePools(D, newTotal) ==
  LET rest == DOMAIN activePools \ D
      mem == [p \in Pools |-> IF p \in rest
                THEN SetInternalRewards(Loaded(p), InternalRate(rewardPerSecond, activePools[p], newTotal))
                ELSE DisableInternalRewards(Loaded(p))]
  IN  /\ newTotal >= 0
      /\ rest # {} => newTotal > 0
      /\ SavePools(mem, DOMAIN activePools)
      /\ orphaned' = OrphanedBySave(mem, DOMAIN activePools)
      /\ activePools' = [p \in rest |-> activePools[p]]
      /\ totalAlloc' = newTotal

DeactivateBlockedPools ==
  LET D == {p \in DOMAIN activePools : PairTypeOf[p] \in blacklisted}
  IN  /\ D # {}
      /\ DisablePools(D, totalAlloc - SumIn(D, NumPools, activePools))
      /\ UNCHANGED <<now, users, schedules, bank, rewardPerSecond, blockedTokens, factoryVars>>

(* The points of a pool are subtracted once per blocked asset it holds. *)
BlockedPoints_CountsPools(add) == Cardinality({p \in DOMAIN activePools : PairAssets[p] \cap add # {}})
BlockedPoints(add) ==
  SumIn(DOMAIN activePools, NumPools,
        [p \in Pools |-> activePools[p] * Cardinality(PairAssets[p] \cap add)])

UpdateBlockedTokenslist(add, remove) ==
  LET D == {p \in DOMAIN activePools : PairAssets[p] \cap add # {}}
  IN  /\ add \cap remove = {} /\ add \cup remove # {}
      /\ remove \subseteq blockedTokens
      /\ add \cap blockedTokens = {} /\ RewardToken \notin add
      /\ blockedTokens' = (blockedTokens \ remove) \cup add
      /\ \/ D # {} /\ DisablePools(D, totalAlloc - BlockedPoints(add))
         \/ D = {} /\ UNCHANGED <<pools, finished, orphaned, activePools, totalAlloc>>
      /\ UNCHANGED <<now, users, schedules, bank, rewardPerSecond, factoryVars>>

(* The factory forgets a pair and tells the generator (deactivate_pool),   *)
(* which does nothing unless the pool has an internal rate.                *)
Deregister(p) ==
  /\ p \in registered
  /\ registered' = registered \ {p}
  /\ \/ IsActivePool(pools[p]) /\ p \in DOMAIN activePools /\ DisablePools({p}, totalAlloc - activePools[p])
     \/ ~IsActivePool(pools[p]) /\ UNCHANGED <<pools, finished, orphaned, activePools, totalAlloc>>
  /\ UNCHANGED <<now, users, schedules, bank, rewardPerSecond, blockedTokens, blacklisted>>

ToggleBlacklist(type) ==
  /\ blacklisted' = IF type \in blacklisted THEN blacklisted \ {type} ELSE blacklisted \cup {type}
  /\ UNCHANGED <<now, stakeVars, moneyVars, adminVars, registered>>

(* BankMsg::Send of the reward token by the DAO. *)
TopUp(amount) ==
  /\ bank[RewardToken] + amount <= MaxBalance
  /\ bank' = [bank EXCEPT ![RewardToken] = @ + amount]
  /\ UNCHANGED <<now, stakeVars, orphaned, adminVars, factoryVars>>
-----------------------------------------------------------------------------
(* External rewards.  The incentivization fee goes from the sender to the  *)
(* fee receiver in the same transaction and never rests in the contract.   *)
Incentivize(p, t, amount, periods) ==
  LET mem == [q \in Pools |-> Loaded(q)]
      rate == ScheduleRate(amount, now, periods)
      end == EndTs(now, periods)
  IN  /\ ValidSchedule(amount, now, periods)
      /\ t \notin blockedTokens
      /\ p \in registered
      /\ ~TooManyRewardTokens(mem[p], t)
      /\ bank[t] + amount <= MaxBalance
      /\ SavePools([mem EXCEPT ![p] = IncentivizeReward(@, t, rate, end)], {p})
      /\ orphaned' = OrphanedBySave(mem, {p})
      /\ schedules' = [schedules EXCEPT ![p][t] = IncentivizeSchedules(mem[p], @, t, rate, now, end)]
      /\ bank' = [bank EXCEPT ![t] = @ + amount]
      /\ UNCHANGED <<now, users, adminVars, factoryVars>>

(* An owner who is careful removes a reward only when nothing of it is     *)
(* orphaned, and in a block in which nobody claimed from the pool and no   *)
(* other reward of the pool was finished.                                  *)
QuietBlock(p, t) ==
  /\ Loaded(p).rewards[t].orphaned = 0
  /\ finished[p][now] = NoneFinished
  /\ \A u \in Users : users[p][u].last_claim_time # now

RemoveRewardFromPool(p, t, bypass) ==
  LET mem == [q \in Pools |-> Loaded(q)]
      removed == [mem EXCEPT ![p] = DeregisterReward(@, t)]
      unclaimed == Remaining(mem[p], schedules[p][t], t, bypass)
  IN  /\ t \in DOMAIN mem[p].rewards
      /\ CarefulOwner => QuietBlock(p, t)
      /\ SavePools(removed, {p})
      /\ schedules' = [schedules EXCEPT ![p][t] = DeregisterSchedules(mem[p], @, t, bypass)]
      /\ \E failing \in SUBSET FlakyTokens :
            Transfers(OrphanedBySave(removed, {p}),
                      [q \in Tokens |-> IF q = t THEN unclaimed ELSE 0], 0, failing)
      /\ UNCHANGED <<now, users, adminVars, factoryVars>>

(* claim_orphaned_rewards takes the first "limit" entries in key order and *)
(* skips, but does not remove, those that hold nothing.                    *)
ClaimOrphanedRewards(limit) ==
  LET taken == {t \in DOMAIN orphaned :
                  Cardinality({x \in DOMAIN orphaned : x < t}) < limit /\ orphaned[t] > 0}
  IN  /\ DOMAIN orphaned # {}
      /\ \E failing \in SUBSET FlakyTokens :
            Transfers([t \in DOMAIN orphaned \ taken |-> orphaned[t]],
                      [t \in Tokens |-> IF t \in taken THEN orphaned[t] ELSE 0], 0, failing)
      /\ UNCHANGED <<now, stakeVars, adminVars, factoryVars>>
-----------------------------------------------------------------------------
Tick(d) ==
  /\ now + d <= MaxTime
  /\ now' = now + d
  /\ UNCHANGED <<stakeVars, moneyVars, adminVars, factoryVars>>

Amounts(periods) == {r * (EndTs(now, periods) - now) + d : r \in IncentiveRates, d \in IncentiveDust}

Next ==
  \/ \E d \in TimeSteps : Tick(d)
  \/ \E u \in Users, P \in SUBSET Pools : ClaimRewards(u, P)
  \/ \E u \in Users, p \in Pools, a \in StakeAmounts : Deposit(u, p, a)
  \/ \E u \in Users, p \in Pools, a \in StakeAmounts : Withdraw(u, p, a)
  \/ \E S \in SUBSET Pools : \E alloc \in [S -> AllocPoints] : SetupPools(alloc)
  \/ \E a \in EmissionRates : SetTokensPerSecond(a)
  \/ DeactivateBlockedPools
  \/ \E add, remove \in BlockBatches : UpdateBlockedTokenslist(add, remove)
  \/ \E p \in DelistedPools : Deregister(p)
  \/ \E type \in BlacklistTypes : ToggleBlacklist(type)
  \/ \E a \in TopUps : TopUp(a)
  \/ \E p \in Pools, t \in IncentiveTokens, n \in IncentivePeriods : \E a \in Amounts(n) : Incentivize(p, t, a, n)
  \/ \E p \in Pools, t \in IncentiveTokens, b \in RemovalModes : RemoveRewardFromPool(p, t, b)
  \/ \E limit \in OrphanLimits : ClaimOrphanedRewards(limit)

Spec == Init /\ [][Next]_vars
=============================================================================
