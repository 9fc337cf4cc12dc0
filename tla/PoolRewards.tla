---------------------------- MODULE PoolRewards ----------------------------
(***************************************************************************)
(* The reward arithmetic of one incentivised pool: PoolInfo and UserInfo   *)
(* of contracts/tokenomics/incentives/src/state.rs as pure operators.      *)
(*                                                                         *)
(* A stored pool is [total_lp, last_update_ts, rewards]: "rewards" maps    *)
(* the keys of the rewards it carries to their RewardInfo.  The key of an  *)
(* external reward is its token, the key of the one internal reward is     *)
(* Internal.  Loading a pool adds the two maps that live in memory only,   *)
(* rewards_to_remove and orphaned_rewards_to_claim.                        *)
(*                                                                         *)
(* Names with an underscore are wrong forms of the definition after them:  *)
(* README.md says which property each of them breaks.                      *)
(*                                                                         *)
(* Decimal256 values are integers in units of 1/Scale, rounded down where  *)
(* Decimal256 rounds down.  Seconds count from EPOCHS_START.               *)
(***************************************************************************)
EXTENDS Integers, FiniteSetsExt, Sums

CONSTANTS NumTokens,        \* reward tokens are 1..NumTokens, in storage key order
          Scale,            \* atomics of a Decimal256 unit
          EpochLength,      \* EPOCH_LENGTH
          MaxPeriods,       \* MAX_PERIODS
          MaxRewardTokens,  \* MAX_REWARD_TOKENS
          MaxTime           \* bound: the clock stops here

ASSUME NumTokensAssumption == NumTokens \in Nat \ {0}
ASSUME ScaleAssumption == Scale \in Nat \ {0}
ASSUME EpochLengthAssumption == EpochLength \in Nat \ {0}
ASSUME MaxPeriodsAssumption == MaxPeriods \in Nat \ {0}
ASSUME MaxRewardTokensAssumption == MaxRewardTokens \in Nat
ASSUME MaxTimeAssumption == MaxTime \in Nat \ {0}

Tokens == 1..NumTokens
RewardToken == 1            \* config.reward_token
Internal == 0
Keys == Tokens \cup {Internal}

Horizon == MaxTime + (MaxPeriods + 1) * EpochLength
Seconds == 1..Horizon
Floor(x) == x \div Scale

-----------------------------------------------------------------------------
(* RewardInfo.  next_update_ts is meaningful for external rewards only. *)
RewardInfo == [rps : Nat, index : Nat, orphaned : Nat, next_update_ts : Nat]

(* The stored schedules of a reward: S[e] is the rate of the period that   *)
(* ends at e, 0 when there is no entry.                                    *)
Schedules == [Seconds -> Nat]
NoSchedules == [e \in Seconds |-> 0]
After(S, n) == {e \in Seconds : e > n /\ S[e] > 0}

NoRewards == [k \in {} |-> 0]
EmptyPool == [total_lp |-> 0, last_update_ts |-> 0, rewards |-> NoRewards]

Load(pool) ==
  [total_lp |-> pool.total_lp, last_update_ts |-> pool.last_update_ts,
   rewards |-> pool.rewards, rewards_to_remove |-> NoRewards,
   orphaned_to_claim |-> [t \in Tokens |-> 0]]

Stored(mem) ==
  [total_lp |-> mem.total_lp, last_update_ts |-> mem.last_update_ts,
   rewards |-> mem.rewards]

Drop(f, k) == [x \in DOMAIN f \ {k} |-> f[x]]
Set(f, k, v) == [x \in DOMAIN f \cup {k} |-> IF x = k THEN v ELSE f[x]]
-----------------------------------------------------------------------------
(* update_rewards.  The period in force at the last update ended at n; the *)
(* loop walks the periods that ended since and stops at the first one that *)
(* is still running.                                                       *)
Ended_Late(r, k, now) == k # Internal /\ r.next_update_ts < now
Ended(r, k, now) == k # Internal /\ r.next_update_ts <= now

Passed(S, n, now) == {e \in After(S, n) : e <= now}
Running(S, now) == Min(After(S, now))
HasRunning(S, now) == After(S, now) # {}

PassedRewards(S, n, now) ==
  LET passed == Passed(S, n, now)
      prev(e) == Max({n} \cup {x \in passed : x < e})
  IN  SumIn(passed, Horizon, [e \in Seconds |-> S[e] * (e - prev(e))])

Collected(r, k, S, last, now) ==
  LET n == r.next_update_ts
      since == Max({n} \cup Passed(S, n, now))
  IN  IF ~Ended(r, k, now) THEN r.rps * (now - last)
      ELSE r.rps * (n - last) + PassedRewards(S, n, now)
             + (IF HasRunning(S, now) THEN S[Running(S, now)] * (now - since) ELSE 0)

(* A finished reward is only taken out of the pool after its index moved. *)
Finishes(r, k, S, now) == Ended(r, k, now) /\ ~HasRunning(S, now)

UpdateReward(r, k, S, total, last, now) ==
  LET collected == Collected(r, k, S, last, now)
      moved == Ended(r, k, now) /\ HasRunning(S, now)
  IN  [rps            |-> IF Finishes(r, k, S, now) THEN 0
                          ELSE IF moved THEN S[Running(S, now)] ELSE r.rps,
       next_update_ts |-> IF moved THEN Running(S, now) ELSE r.next_update_ts,
       index          |-> IF total = 0 THEN r.index ELSE r.index + (collected \div total),
       orphaned       |-> IF total = 0 THEN r.orphaned + collected ELSE 0]

(* With no stake the emissions of a reward pile up in "orphaned"; the      *)
(* first update that finds stake moves them to orphaned_to_claim.          *)
UpdateRewards(mem, sched, now) ==
  IF now <= mem.last_update_ts THEN mem ELSE
  LET old == mem.rewards
      new == [k \in DOMAIN old |->
                UpdateReward(old[k], k, IF k = Internal THEN NoSchedules ELSE sched[k],
                             mem.total_lp, mem.last_update_ts, now)]
      finished == {k \in DOMAIN old : k # Internal /\ Finishes(old[k], k, sched[k], now)}
      flushed(k) == IF k \in DOMAIN old /\ mem.total_lp > 0 THEN old[k].orphaned ELSE 0
  IN  [mem EXCEPT
         !.rewards = [k \in DOMAIN old \ finished |-> new[k]],
         !.rewards_to_remove = [k \in finished |-> [index |-> new[k].index, orphaned |-> new[k].orphaned]],
         !.orphaned_to_claim = [t \in Tokens |-> flushed(t) + (IF t = RewardToken THEN flushed(Internal) ELSE 0)],
         !.last_update_ts = now]
-----------------------------------------------------------------------------
(* The internal, DAO-funded reward. *)
InternalRate_RoundedUp(rewardPerSecond, alloc, totalAlloc) ==
  (rewardPerSecond * alloc * Scale + totalAlloc - 1) \div totalAlloc
InternalRate(rewardPerSecond, alloc, totalAlloc) == (rewardPerSecond * alloc * Scale) \div totalAlloc

SetInternalRewards_Overwrites(mem, rate) ==
  [mem EXCEPT !.rewards =
     Set(@, Internal, [rps |-> rate, index |-> 0, orphaned |-> 0, next_update_ts |-> 0])]
SetInternalRewards(mem, rate) ==
  [mem EXCEPT !.rewards = Set(@, Internal,
     IF Internal \in DOMAIN @ THEN [@[Internal] EXCEPT !.rps = rate]
     ELSE [rps |-> rate, index |-> 0, orphaned |-> 0, next_update_ts |-> 0])]

IsActivePool(mem) == Internal \in DOMAIN mem.rewards /\ mem.rewards[Internal].rps # 0

DisableInternalRewards_Forgotten(mem) == mem
DisableInternalRewards(mem) ==
  IF Internal \in DOMAIN mem.rewards
  THEN [mem EXCEPT !.rewards[Internal].rps = 0] ELSE mem
-----------------------------------------------------------------------------
(* IncentivesSchedule::from_input: a schedule starts now and ends on an    *)
(* epoch boundary, "periods" epochs after the next boundary.               *)
NextEpochStart(now) == (now \div EpochLength + 1) * EpochLength
EndTs(now, periods) == NextEpochStart(now) + periods * EpochLength
ScheduleRate(amount, now, periods) == (amount * Scale) \div (EndTs(now, periods) - now)
ValidSchedule(amount, now, periods) ==
  periods \in 1..MaxPeriods /\ ScheduleRate(amount, now, periods) >= Scale

(* PoolInfo::incentivize *)
ExternalRewards(mem) == DOMAIN mem.rewards \ {Internal}
TooManyRewardTokens(mem, t) ==
  /\ Cardinality(ExternalRewards(mem)) = MaxRewardTokens
  /\ t \notin DOMAIN mem.rewards
  /\ t # RewardToken

IncentivizeReward(mem, t, rate, end) ==
  LET old == mem.rewards[t]
      new == [rps |-> rate, index |-> 0, orphaned |-> 0, next_update_ts |-> end]
      next == IF old.next_update_ts >= end THEN end ELSE old.next_update_ts
      joined == [old EXCEPT !.rps = @ + rate, !.next_update_ts = next]
  IN  [mem EXCEPT !.rewards = Set(@, t, IF t \in DOMAIN mem.rewards THEN joined ELSE new)]

(* to_save: the break the new schedule puts into the stored ones.  A later *)
(* one is raised period by period up to the first that ends at or after    *)
(* "end"; that one is split at "end".                                      *)
IncentivizeSchedules(mem, S, t, rate, now, end) ==
  LET n == mem.rewards[t].next_update_ts
      later == After(S, NextEpochStart(now))
      beyond == {e \in later : e >= end}
  IN  IF t \notin DOMAIN mem.rewards THEN S
      ELSE IF n >= end THEN (IF n > end THEN [S EXCEPT ![n] = mem.rewards[t].rps] ELSE S)
      ELSE [e \in Seconds |->
              IF e = end THEN rate + (IF beyond = {} THEN 0 ELSE S[Min(beyond)])
              ELSE IF e \in later /\ e < end THEN S[e] + rate
              ELSE S[e]]
-----------------------------------------------------------------------------
(* PoolInfo::deregister_reward, after update_rewards. *)
DeregisterReward(mem, t) ==
  [mem EXCEPT
     !.rewards_to_remove = Set(@, t, [index |-> mem.rewards[t].index, orphaned |-> mem.rewards[t].orphaned]),
     !.rewards = Drop(@, t)]

DeregisterSchedules(mem, S, t, bypass) ==
  LET n == mem.rewards[t].next_update_ts
  IN  [e \in Seconds |-> IF e = n \/ (~bypass /\ e > n) THEN 0 ELSE S[e]]

Positive(x) == IF x > 0 THEN x ELSE 0

UpcomingRewards(S, n) ==
  LET prev(e) == Max({n} \cup {x \in After(S, n) : x < e})
  IN  SumIn(After(S, n), Horizon, [e \in Seconds |-> S[e] * (e - prev(e))])

Remaining(mem, S, t, bypass) ==
  LET r == mem.rewards[t]
  IN  Floor(r.rps * Positive(r.next_update_ts - mem.last_update_ts)
            + (IF bypass THEN 0 ELSE UpcomingRewards(S, r.next_update_ts))
            + r.orphaned)
-----------------------------------------------------------------------------
(* PoolInfo::save: what it writes besides the pool itself.  A pool's       *)
(* FINISHED_REWARD_INDEXES entry of one timestamp is written as a whole.   *)
RemovedWhole(mem) == {t \in DOMAIN mem.rewards_to_remove : mem.rewards_to_remove[t].orphaned = 0}

SaveFinished(finished, mem) ==
  IF RemovedWhole(mem) = {} THEN finished
  ELSE [finished EXCEPT ![mem.last_update_ts] =
          [t \in RemovedWhole(mem) |-> mem.rewards_to_remove[t].index]]

RemovedOrphans(mem) == DOMAIN mem.rewards_to_remove \ RemovedWhole(mem)
OrphanKeys(mem) == RemovedOrphans(mem) \cup {t \in Tokens : mem.orphaned_to_claim[t] > 0}
OrphanCredit(mem, t) ==
  Floor(mem.orphaned_to_claim[t])
    + (IF t \in RemovedOrphans(mem) THEN Floor(mem.rewards_to_remove[t].orphaned) ELSE 0)
-----------------------------------------------------------------------------
(* UserInfo.  A position is stored iff its amount is positive; an index    *)
(* that is not in last_rewards_index reads as 0.                           *)
UserInfo == [amount : Nat, last_rewards_index : [Keys -> Nat], last_claim_time : Nat]
NoPosition == [amount |-> 0, last_rewards_index |-> [k \in Keys |-> 0], last_claim_time |-> 0]

(* claim_finished_rewards.  "finished" holds the pool's entries by time.   *)
Outstanding(user, finished, t) ==
  {ts \in DOMAIN finished : ts > user.last_claim_time /\ t \in DOMAIN finished[ts]}

IsFinished(user, finished, mem, t) ==
  Outstanding(user, finished, t) # {} \/ t \in DOMAIN mem.rewards_to_remove

FirstFinishedIndex(user, finished, mem, t) ==
  LET out == Outstanding(user, finished, t)
  IN  IF out # {} THEN finished[Min(out)][t] ELSE mem.rewards_to_remove[t].index

(* The checked subtraction finished_index - user_reward_index. *)
ClaimUnderflows(user, finished, mem) ==
  \E t \in Tokens : /\ IsFinished(user, finished, mem, t)
                    /\ FirstFinishedIndex(user, finished, mem, t) < user.last_rewards_index[t]

FinishedReward(user, finished, mem, t) ==
  LET out == Outstanding(user, finished, t)
      base(first) == IF first THEN user.last_rewards_index[t] ELSE 0
      past == SumIn(out, MaxTime, [ts \in 1..MaxTime |->
                IF ts \in out THEN Floor((finished[ts][t] - base(ts = Min(out))) * user.amount) ELSE 0])
  IN  past + (IF t \in DOMAIN mem.rewards_to_remove
              THEN Floor((mem.rewards_to_remove[t].index - base(out = {})) * user.amount)
              ELSE 0)

(* reset_user_index *)
ResetUserIndex_Skipped(user, finished, mem) == user
ResetUserIndex(user, finished, mem) ==
  [user EXCEPT !.last_rewards_index =
     [k \in Keys |-> IF k # Internal /\ IsFinished(user, finished, mem, k) THEN 0 ELSE @[k]]]

(* RewardInfo::calculate_reward, on the reset position. *)
CalculateReward(r, userIndex, amount) ==
  Floor((IF userIndex > r.index THEN r.index ELSE r.index - userIndex) * amount)

ActiveReward(user, finished, mem, k) ==
  IF k \notin DOMAIN mem.rewards THEN 0
  ELSE CalculateReward(mem.rewards[k], ResetUserIndex(user, finished, mem).last_rewards_index[k], user.amount)

(* What claim_rewards pays for one position, by key. *)
ClaimableReward(user, finished, mem, k) ==
  ActiveReward(user, finished, mem, k)
    + (IF k = Internal THEN 0 ELSE FinishedReward(user, finished, mem, k))

(* update_and_sync_position.  The amount of a removed position is 0. *)
Synced(mem, k) == IF k \in DOMAIN mem.rewards THEN mem.rewards[k].index ELSE 0

SyncPosition_OldAmount(user, mem, amount) ==
  IF amount = 0 THEN NoPosition ELSE
  [amount |-> user.amount, last_rewards_index |-> [k \in Keys |-> Synced(mem, k)],
   last_claim_time |-> mem.last_update_ts]

SyncPosition_OldTime(user, mem, amount) ==
  IF amount = 0 THEN NoPosition ELSE
  [amount |-> amount, last_rewards_index |-> [k \in Keys |-> Synced(mem, k)],
   last_claim_time |-> user.last_claim_time]

SyncPosition_OldIndexes(user, mem, amount) ==
  IF amount = 0 THEN NoPosition ELSE
  [amount |-> amount, last_claim_time |-> mem.last_update_ts,
   last_rewards_index |-> [k \in Keys |-> IF k \in DOMAIN mem.rewards THEN Synced(mem, k)
                                          ELSE user.last_rewards_index[k]]]

SyncPosition(user, mem, amount) ==
  IF amount = 0 THEN NoPosition ELSE
  [amount |-> amount,
   last_rewards_index |-> [k \in Keys |-> Synced(mem, k)],
   last_claim_time |-> mem.last_update_ts]
=============================================================================
