-------------------------- MODULE IncentivesProofs --------------------------
(***************************************************************************)
(* Safety of the incentives contract, for all instances.  Its types: no    *)
(* amount, index or balance ever underflows, every position is covered by  *)
(* total_lp, and no schedule lags behind its pool.  These invariants need  *)
(* each other.  A withdrawal keeps total_lp unsigned because total_lp is   *)
(* the sum of the stakes; the emissions of the first stretch of            *)
(* update_rewards, rps * (next_update_ts - last_update_ts), are unsigned   *)
(* because schedules run past the update; and they still do after it       *)
(* because the pool's time never exceeds now.  Then who emits and how      *)
(* much, that every position can be left, the books of external rewards    *)
(* (what handlers give out was deposited), and that what a position is     *)
(* owed is never taken back.                                               *)
(***************************************************************************)
EXTENDS IncentivesProperties, SumLemmas, FiniteSetTheorems

(***************************************************************************)
(* What the reward arithmetic of PoolRewards keeps true of a pool, for all *)
(* rates, schedules, stakes and times: amounts stay unsigned and the rate  *)
(* of an external reward runs past the last update.                        *)
(***************************************************************************)
LEMMA FloorNat ==
  ASSUME NEW x \in Nat
  PROVE  Floor(x) \in Nat
BY ScaleAssumption DEF Floor

LEMMA HorizonNat == Horizon \in Nat
BY MaxTimeAssumption, MaxPeriodsAssumption, EpochLengthAssumption DEF Horizon
-----------------------------------------------------------------------------
(* The rewards of the periods that have ended. *)
LEMMA PassedRewardsNat ==
  ASSUME NEW S \in Schedules, NEW n \in Nat, NEW t \in Nat
  PROVE  PassedRewards(S, n, t) \in Nat
<1> DEFINE passed == Passed(S, n, t)
           prev(e) == Max({n} \cup {x \in passed : x < e})
           terms == [e \in Seconds |-> S[e] * (e - prev(e))]
<1>1. \A e \in 1..Horizon : e \in passed => terms[e] \in Nat
  <2> SUFFICES ASSUME NEW e \in Seconds, e \in passed PROVE terms[e] \in Nat
    BY DEF Seconds
  <2>1. e \in Nat /\ e > n /\ S[e] \in Nat
    BY HorizonNat DEF Passed, After, Seconds, Schedules
  <2>2. ({n} \cup {x \in passed : x < e}) \in SUBSET (0..e)
    BY <2>1, HorizonNat DEF Passed, After, Seconds
  <2>3. prev(e) \in 0..e
    BY <2>1, <2>2, MaxOfBounded
  <2> HIDE DEF prev
  <2>4. terms[e] = S[e] * (e - prev(e))
    OBVIOUS
  <2> HIDE DEF terms
  <2> QED BY <2>1, <2>3, <2>4
<1> HIDE DEF terms
<1>2. SumIn(passed, Horizon, terms) \in Nat
  BY <1>1, HorizonNat, SumInNat
<1> QED BY <1>2 DEF PassedRewards, terms

LEMMA RunningLater ==
  ASSUME NEW S \in Schedules, NEW t \in Nat, HasRunning(S, t)
  PROVE  Running(S, t) \in Seconds /\ Running(S, t) > t /\ S[Running(S, t)] \in Nat
<1>1. After(S, t) \in SUBSET Nat
  BY HorizonNat DEF After, Seconds
<1>2. Running(S, t) \in After(S, t)
  BY <1>1, MinOfNats DEF Running, HasRunning
<1> QED BY <1>2 DEF After, Schedules

LEMMA CollectedNat ==
  ASSUME NEW r \in RewardInfo, NEW k \in Keys, NEW S \in Schedules,
         NEW last \in Nat, NEW t \in Nat, last <= t,
         k # Internal => r.next_update_ts > last
  PROVE  Collected(r, k, S, last, t) \in Nat
<1>0. r.rps \in Nat /\ r.next_update_ts \in Nat
  BY DEF RewardInfo
<1>1. CASE ~Ended(r, k, t)
  BY <1>0, <1>1 DEF Collected
<1>2. CASE Ended(r, k, t)
  <2> DEFINE n == r.next_update_ts
             since == Max({n} \cup Passed(S, n, t))
             tail == IF HasRunning(S, t) THEN S[Running(S, t)] * (t - since) ELSE 0
  <2>1. n <= t /\ n > last
    BY <1>2 DEF Ended
  <2>2. ({n} \cup Passed(S, n, t)) \in SUBSET (0..t)
    BY <1>0, <2>1, HorizonNat DEF Passed, After, Seconds
  <2>3. since \in 0..t
    BY <2>2, MaxOfBounded
  <2> HIDE DEF since
  <2>4. tail \in Nat
    <3>1. CASE HasRunning(S, t)
      <4>1. S[Running(S, t)] \in Nat
        BY <3>1, RunningLater
      <4> QED BY <3>1, <2>3, <4>1
    <3>2. CASE ~HasRunning(S, t)
      BY <3>2
    <3> QED BY <3>1, <3>2
  <2>5. Collected(r, k, S, last, t) = r.rps * (n - last) + PassedRewards(S, n, t) + tail
    BY <1>2 DEF Collected, since
  <2> HIDE DEF tail
  <2>6. PassedRewards(S, n, t) \in Nat
    BY <1>0, PassedRewardsNat
  <2>7. r.rps * (n - last) \in Nat
    BY <1>0, <2>1
  <2> QED BY <2>4, <2>5, <2>6, <2>7
<1> QED BY <1>1, <1>2

(* A reward that is not finished by the update runs past it. *)
LEMMA UpdateRewardOK ==
  ASSUME NEW r \in RewardInfo, NEW k \in Keys, NEW S \in Schedules, NEW total \in Nat,
         NEW last \in Nat, NEW t \in Nat, last <= t,
         k # Internal => r.next_update_ts > last
  PROVE  /\ UpdateReward(r, k, S, total, last, t) \in RewardInfo
         /\ k # Internal /\ ~Finishes(r, k, S, t)
              => UpdateReward(r, k, S, total, last, t).next_update_ts > t
<1> DEFINE collected == Collected(r, k, S, last, t)
           moved == Ended(r, k, t) /\ HasRunning(S, t)
           next == UpdateReward(r, k, S, total, last, t)
<1>1. collected \in Nat
  BY CollectedNat
<1>2. r.rps \in Nat /\ r.index \in Nat /\ r.orphaned \in Nat /\ r.next_update_ts \in Nat
  BY DEF RewardInfo
<1>3. moved => Running(S, t) \in Nat /\ Running(S, t) > t /\ S[Running(S, t)] \in Nat
  BY RunningLater, HorizonNat DEF Seconds
<1>4. next = [rps            |-> IF Finishes(r, k, S, t) THEN 0
                                 ELSE IF moved THEN S[Running(S, t)] ELSE r.rps,
              next_update_ts |-> IF moved THEN Running(S, t) ELSE r.next_update_ts,
              index          |-> IF total = 0 THEN r.index ELSE r.index + (collected \div total),
              orphaned       |-> IF total = 0 THEN r.orphaned + collected ELSE 0]
  BY DEF UpdateReward
<1>5. total # 0 => collected \div total \in Nat
  BY <1>1
<1> HIDE DEF collected, moved, next
<1>6. next.rps \in Nat /\ next.next_update_ts \in Nat
  BY <1>2, <1>3, <1>4
<1>7. next.index \in Nat /\ next.orphaned \in Nat
  BY <1>1, <1>2, <1>4, <1>5
<1>8. next = [rps |-> next.rps, next_update_ts |-> next.next_update_ts,
              index |-> next.index, orphaned |-> next.orphaned]
  BY <1>4
<1>9. next \in RewardInfo
  BY <1>6, <1>7, <1>8 DEF RewardInfo
<1>10. k # Internal /\ ~Finishes(r, k, S, t) => next.next_update_ts > t
  BY <1>2, <1>3, <1>4 DEF Finishes, Ended, moved
<1> QED BY <1>9, <1>10 DEF next
-----------------------------------------------------------------------------
(* A pool in memory at time t: what handlers get from Loaded and hand to   *)
(* save.                                                                   *)
Removal == [index : Nat, orphaned : Nat]

MemOK(mem, t) ==
  /\ mem = [total_lp |-> mem.total_lp, last_update_ts |-> mem.last_update_ts, rewards |-> mem.rewards,
            rewards_to_remove |-> mem.rewards_to_remove, orphaned_to_claim |-> mem.orphaned_to_claim]
  /\ mem.total_lp \in Nat /\ mem.last_update_ts = t
  /\ DOMAIN mem.rewards \subseteq Keys /\ mem.rewards \in [DOMAIN mem.rewards -> RewardInfo]
  /\ \A k \in DOMAIN mem.rewards \ {Internal} : mem.rewards[k].next_update_ts > t
  /\ DOMAIN mem.rewards_to_remove \subseteq Tokens
  /\ mem.rewards_to_remove \in [DOMAIN mem.rewards_to_remove -> Removal]
  /\ mem.orphaned_to_claim \in [Tokens -> Nat]

(* A stored pool, last updated no later than t. *)
PoolOKBy(pool, t) ==
  /\ pool.total_lp \in Nat
  /\ pool.last_update_ts \in Nat /\ pool.last_update_ts <= t
  /\ DOMAIN pool.rewards \subseteq Keys /\ pool.rewards \in [DOMAIN pool.rewards -> RewardInfo]
  /\ \A k \in DOMAIN pool.rewards \ {Internal} : pool.rewards[k].next_update_ts > pool.last_update_ts

LEMMA UpdateRewardsOK ==
  ASSUME NEW t \in Nat, NEW pool, PoolOKBy(pool, t), NEW sched \in [Tokens -> Schedules]
  PROVE  /\ MemOK(UpdateRewards(Load(pool), sched, t), t)
         /\ UpdateRewards(Load(pool), sched, t).total_lp = pool.total_lp
<1> DEFINE mem == Load(pool)
           up == UpdateRewards(mem, sched, t)
           old == mem.rewards
           S(k) == IF k = Internal THEN NoSchedules ELSE sched[k]
           new == [k \in DOMAIN old |-> UpdateReward(old[k], k, S(k), mem.total_lp, mem.last_update_ts, t)]
           done == {k \in DOMAIN old : k # Internal /\ Finishes(old[k], k, sched[k], t)}
           flushed(k) == IF k \in DOMAIN old /\ mem.total_lp > 0 THEN old[k].orphaned ELSE 0
           removed == [k \in done |-> [index |-> new[k].index, orphaned |-> new[k].orphaned]]
           claim == [x \in Tokens |-> flushed(x) + (IF x = RewardToken THEN flushed(Internal) ELSE 0)]
<1>1. /\ mem.total_lp = pool.total_lp /\ mem.last_update_ts = pool.last_update_ts
      /\ mem.rewards = pool.rewards /\ DOMAIN mem.rewards_to_remove = {}
      /\ mem.orphaned_to_claim = [x \in Tokens |-> 0]
  BY DEF Load, NoRewards
<1>2. CASE t <= mem.last_update_ts
  <2>1. up = mem /\ mem.last_update_ts = t
    BY <1>1, <1>2 DEF UpdateRewards, PoolOKBy
  <2>2. mem.rewards_to_remove \in [DOMAIN mem.rewards_to_remove -> Removal]
    BY DEF Load, NoRewards
  <2>3. mem = [total_lp |-> mem.total_lp, last_update_ts |-> mem.last_update_ts, rewards |-> mem.rewards,
               rewards_to_remove |-> mem.rewards_to_remove, orphaned_to_claim |-> mem.orphaned_to_claim]
    BY DEF Load
  <2> QED BY <1>1, <2>1, <2>2, <2>3 DEF MemOK, PoolOKBy
<1>3. CASE ~(t <= mem.last_update_ts)
  <2>1. up = [total_lp |-> pool.total_lp, last_update_ts |-> t,
              rewards |-> [k \in DOMAIN old \ done |-> new[k]],
              rewards_to_remove |-> removed, orphaned_to_claim |-> claim]
    BY <1>3 DEF UpdateRewards, Load
  <2>2. \A k \in DOMAIN old : k \in Keys /\ old[k] \in RewardInfo /\ S(k) \in Schedules
    BY <1>1 DEF PoolOKBy, Keys, NoSchedules, Schedules
  <2>3. \A k \in DOMAIN old : k # Internal => old[k].next_update_ts > mem.last_update_ts
    BY <1>1 DEF PoolOKBy
  <2>4. pool.total_lp \in Nat /\ mem.last_update_ts \in Nat /\ mem.last_update_ts <= t
    BY <1>1 DEF PoolOKBy
  <2>5. \A k \in DOMAIN old :
           /\ new[k] \in RewardInfo
           /\ k # Internal /\ k \notin done => new[k].next_update_ts > t
    <3> SUFFICES ASSUME NEW k \in DOMAIN old
                 PROVE  /\ new[k] \in RewardInfo
                        /\ k # Internal /\ k \notin done => new[k].next_update_ts > t
      OBVIOUS
    <3>1. new[k] = UpdateReward(old[k], k, S(k), pool.total_lp, mem.last_update_ts, t)
      BY <1>1
    <3>2. k # Internal /\ k \notin done => ~Finishes(old[k], k, S(k), t)
      OBVIOUS
    <3> HIDE DEF new, S, done
    <3> QED BY <2>2, <2>3, <2>4, <3>1, <3>2, UpdateRewardOK
  <2>6. done \subseteq Tokens
    BY <2>2 DEF Keys
  <2> HIDE DEF new
  <2>7. removed \in [done -> Removal]
    BY <2>5 DEF Removal, RewardInfo
  <2>8. claim \in [Tokens -> Nat]
    <3>1. \A k \in Keys : flushed(k) \in Nat
      BY <2>2 DEF RewardInfo
    <3> HIDE DEF flushed
    <3> QED BY <3>1 DEF Keys
  <2> HIDE DEF done, removed, claim
  <2> DEFINE kept == [k \in DOMAIN old \ done |-> new[k]]
  <2>9. DOMAIN kept \subseteq Keys /\ kept \in [DOMAIN kept -> RewardInfo]
        /\ \A k \in DOMAIN kept \ {Internal} : kept[k].next_update_ts > t
    BY <2>2, <2>5
  <2>10. DOMAIN removed = done
    BY <2>7
  <2> HIDE DEF kept, up
  <2>11. up = [total_lp |-> pool.total_lp, last_update_ts |-> t, rewards |-> kept,
               rewards_to_remove |-> removed, orphaned_to_claim |-> claim]
    BY <2>1 DEF kept
  <2>12. MemOK(up, t)
    BY <2>4, <2>6, <2>7, <2>8, <2>9, <2>10, <2>11 DEF MemOK
  <2> QED BY <2>11, <2>12 DEF up
<1> QED BY <1>2, <1>3
-----------------------------------------------------------------------------
(* What the handlers do to a pool in memory. *)
LEMMA TotalChangeOK ==
  ASSUME NEW t \in Nat, NEW mem, MemOK(mem, t), NEW total \in Nat
  PROVE  /\ MemOK([mem EXCEPT !.total_lp = total], t)
         /\ [mem EXCEPT !.total_lp = total].total_lp = total
BY DEF MemOK

LEMMA RewardsChangeOK ==
  ASSUME NEW t \in Nat, NEW mem, MemOK(mem, t), NEW rewards,
         DOMAIN rewards \subseteq Keys, rewards \in [DOMAIN rewards -> RewardInfo],
         \A k \in DOMAIN rewards \ {Internal} : rewards[k].next_update_ts > t
  PROVE  /\ MemOK([mem EXCEPT !.rewards = rewards], t)
         /\ [mem EXCEPT !.rewards = rewards].total_lp = mem.total_lp
BY DEF MemOK

LEMMA SetRewardOK ==
  ASSUME NEW t \in Nat, NEW mem, MemOK(mem, t), NEW k \in Keys, NEW r \in RewardInfo,
         k # Internal => r.next_update_ts > t
  PROVE  /\ MemOK([mem EXCEPT !.rewards = Set(mem.rewards, k, r)], t)
         /\ [mem EXCEPT !.rewards = Set(mem.rewards, k, r)].total_lp = mem.total_lp
<1> DEFINE rewards == Set(mem.rewards, k, r)
<1>1. DOMAIN rewards = DOMAIN mem.rewards \cup {k}
  BY DEF Set
<1>2. \A x \in DOMAIN rewards : rewards[x] = IF x = k THEN r ELSE mem.rewards[x]
  BY DEF Set
<1>3. rewards = [x \in DOMAIN rewards |-> rewards[x]]
  BY DEF Set
<1> HIDE DEF rewards
<1>4. DOMAIN rewards \subseteq Keys /\ rewards \in [DOMAIN rewards -> RewardInfo]
  BY <1>1, <1>2, <1>3 DEF MemOK
<1>5. \A x \in DOMAIN rewards \ {Internal} : rewards[x].next_update_ts > t
  BY <1>1, <1>2 DEF MemOK
<1> QED BY <1>4, <1>5, RewardsChangeOK DEF rewards

LEMMA SetInternalRewardsOK ==
  ASSUME NEW t \in Nat, NEW mem, MemOK(mem, t), NEW rate \in Nat
  PROVE  /\ MemOK(SetInternalRewards(mem, rate), t)
         /\ SetInternalRewards(mem, rate).total_lp = mem.total_lp
<1> DEFINE r == IF Internal \in DOMAIN mem.rewards THEN [mem.rewards[Internal] EXCEPT !.rps = rate]
                ELSE [rps |-> rate, index |-> 0, orphaned |-> 0, next_update_ts |-> 0]
<1>1. r \in RewardInfo
  BY DEF MemOK, RewardInfo
<1>2. SetInternalRewards(mem, rate) = [mem EXCEPT !.rewards = Set(mem.rewards, Internal, r)]
  BY DEF SetInternalRewards, MemOK
<1> HIDE DEF r
<1> QED BY <1>1, <1>2, SetRewardOK DEF Keys

LEMMA DisableInternalRewardsOK ==
  ASSUME NEW t \in Nat, NEW mem, MemOK(mem, t)
  PROVE  /\ MemOK(DisableInternalRewards(mem), t)
         /\ DisableInternalRewards(mem).total_lp = mem.total_lp
<1>1. CASE Internal \notin DOMAIN mem.rewards
  BY <1>1 DEF DisableInternalRewards
<1>2. CASE Internal \in DOMAIN mem.rewards
  <2> DEFINE rewards == [mem.rewards EXCEPT ![Internal].rps = 0]
  <2>1. DisableInternalRewards(mem) = [mem EXCEPT !.rewards = rewards]
    BY <1>2 DEF DisableInternalRewards, MemOK
  <2>2. DOMAIN rewards = DOMAIN mem.rewards
    OBVIOUS
  <2>3. [mem.rewards[Internal] EXCEPT !.rps = 0] \in RewardInfo
    BY <1>2 DEF MemOK, RewardInfo
  <2>4. rewards \in [DOMAIN mem.rewards -> RewardInfo]
    BY <1>2, <2>3 DEF MemOK
  <2>5. \A k \in DOMAIN rewards \ {Internal} : rewards[k].next_update_ts > t
    BY <2>2 DEF MemOK
  <2> HIDE DEF rewards
  <2> QED BY <2>1, <2>2, <2>4, <2>5, RewardsChangeOK DEF MemOK
<1> QED BY <1>1, <1>2

LEMMA IncentivizeRewardOK ==
  ASSUME NEW t \in Nat, NEW mem, MemOK(mem, t), NEW x \in Tokens, NEW rate \in Nat, NEW end \in Nat, end > t
  PROVE  /\ MemOK(IncentivizeReward(mem, x, rate, end), t)
         /\ IncentivizeReward(mem, x, rate, end).total_lp = mem.total_lp
<1> DEFINE old == mem.rewards[x]
           new == [rps |-> rate, index |-> 0, orphaned |-> 0, next_update_ts |-> end]
           next == IF old.next_update_ts >= end THEN end ELSE old.next_update_ts
           sum == old.rps + rate
           joined == [old EXCEPT !.rps = sum, !.next_update_ts = next]
           r == IF x \in DOMAIN mem.rewards THEN joined ELSE new
<1>1. x # Internal /\ x \in Keys
  BY DEF Tokens, Internal, Keys
<1>2. r \in RewardInfo /\ r.next_update_ts > t
  <2>1. CASE x \notin DOMAIN mem.rewards
    BY <2>1 DEF RewardInfo
  <2>2. CASE x \in DOMAIN mem.rewards
    <3>1. old \in RewardInfo /\ old.next_update_ts > t
      BY <1>1, <2>2 DEF MemOK
    <3> HIDE DEF old
    <3>2. next \in Nat /\ next > t /\ sum \in Nat
      BY <3>1 DEF RewardInfo
    <3> HIDE DEF next, sum
    <3>3. joined \in RewardInfo /\ joined.next_update_ts = next
      BY <3>1, <3>2 DEF RewardInfo
    <3>4. r = joined
      BY <2>2
    <3> HIDE DEF joined, r
    <3> QED BY <3>2, <3>3, <3>4
  <2> QED BY <2>1, <2>2
<1>3. IncentivizeReward(mem, x, rate, end) = [mem EXCEPT !.rewards = Set(mem.rewards, x, r)]
  BY DEF IncentivizeReward
<1> HIDE DEF r
<1> QED BY <1>1, <1>2, <1>3, SetRewardOK

LEMMA DeregisterRewardOK ==
  ASSUME NEW t \in Nat, NEW mem, MemOK(mem, t), NEW x \in Tokens, x \in DOMAIN mem.rewards
  PROVE  /\ MemOK(DeregisterReward(mem, x), t)
         /\ DeregisterReward(mem, x).total_lp = mem.total_lp
<1> DEFINE gone == [index |-> mem.rewards[x].index, orphaned |-> mem.rewards[x].orphaned]
           removed == Set(mem.rewards_to_remove, x, gone)
           rewards == Drop(mem.rewards, x)
<1>1. DeregisterReward(mem, x) =
        [total_lp |-> mem.total_lp, last_update_ts |-> mem.last_update_ts, rewards |-> rewards,
         rewards_to_remove |-> removed, orphaned_to_claim |-> mem.orphaned_to_claim]
  <2>1. DeregisterReward(mem, x) =
          [mem EXCEPT !.rewards_to_remove = removed, !.rewards = rewards]
    BY DEF DeregisterReward
  <2> HIDE DEF removed, rewards
  <2>2. mem = [total_lp |-> mem.total_lp, last_update_ts |-> mem.last_update_ts, rewards |-> mem.rewards,
               rewards_to_remove |-> mem.rewards_to_remove, orphaned_to_claim |-> mem.orphaned_to_claim]
    BY DEF MemOK
  <2> QED BY <2>1, <2>2
<1>2. gone \in Removal
  BY DEF MemOK, RewardInfo, Removal
<1>3. DOMAIN removed \subseteq Tokens /\ removed \in [DOMAIN removed -> Removal]
  BY <1>2 DEF Set, MemOK
<1>4. /\ DOMAIN rewards \subseteq Keys /\ rewards \in [DOMAIN rewards -> RewardInfo]
      /\ \A k \in DOMAIN rewards \ {Internal} : rewards[k].next_update_ts > t
  BY DEF Drop, MemOK
<1> HIDE DEF removed, rewards
<1> QED BY <1>1, <1>3, <1>4 DEF MemOK
-----------------------------------------------------------------------------
(* What save and a claim make of it. *)
LEMMA OrphanCreditNat ==
  ASSUME NEW t \in Nat, NEW mem, MemOK(mem, t), NEW x \in Tokens
  PROVE  OrphanCredit(mem, x) \in Nat
<1>1. mem.orphaned_to_claim[x] \in Nat
  BY DEF MemOK
<1>2. x \in RemovedOrphans(mem) => mem.rewards_to_remove[x].orphaned \in Nat
  BY DEF RemovedOrphans, MemOK, Removal
<1> QED BY <1>1, <1>2, FloorNat DEF OrphanCredit

FinishedOK(entries) ==
  /\ DOMAIN entries = 1..MaxTime
  /\ \A ts \in 1..MaxTime : /\ DOMAIN entries[ts] \subseteq Tokens
                            /\ entries[ts] \in [DOMAIN entries[ts] -> Nat]

LEMMA SaveFinishedOK ==
  ASSUME NEW t \in 1..MaxTime, NEW mem, MemOK(mem, t), NEW entries, FinishedOK(entries)
  PROVE  /\ FinishedOK(SaveFinished(entries, mem))
         /\ \A ts \in 1..MaxTime : ts # t => SaveFinished(entries, mem)[ts] = entries[ts]
<1>1. CASE RemovedWhole(mem) = {}
  BY <1>1 DEF SaveFinished
<1>2. CASE RemovedWhole(mem) # {}
  <2> DEFINE entry == [x \in RemovedWhole(mem) |-> mem.rewards_to_remove[x].index]
  <2>1. DOMAIN entry \subseteq Tokens /\ entry \in [DOMAIN entry -> Nat]
    BY DEF RemovedWhole, MemOK, Removal
  <2>2. SaveFinished(entries, mem) = [entries EXCEPT ![t] = entry]
    BY <1>2 DEF SaveFinished, MemOK
  <2> HIDE DEF entry
  <2>3. \A ts \in 1..MaxTime : [entries EXCEPT ![t] = entry][ts] = IF ts = t THEN entry ELSE entries[ts]
    BY DEF FinishedOK
  <2>4. DOMAIN [entries EXCEPT ![t] = entry] = 1..MaxTime
    BY DEF FinishedOK
  <2> DEFINE saved == [entries EXCEPT ![t] = entry]
  <2> HIDE DEF saved
  <2>5. FinishedOK(saved)
    BY <2>1, <2>3, <2>4 DEF FinishedOK, saved
  <2> QED BY <2>2, <2>3, <2>5 DEF saved
<1> QED BY <1>1, <1>2

LEMMA ClaimableRewardNat ==
  ASSUME NEW t \in Nat, NEW mem, MemOK(mem, t), NEW entries, FinishedOK(entries),
         NEW user \in UserInfo, ~ClaimUnderflows(user, entries, mem), NEW k \in Keys
  PROVE  ClaimableReward(user, entries, mem, k) \in Nat
<1>1. user.amount \in Nat /\ user.last_rewards_index \in [Keys -> Nat]
  BY DEF UserInfo
<1>2. ActiveReward(user, entries, mem, k) \in Nat
  <2> DEFINE index == ResetUserIndex(user, entries, mem).last_rewards_index[k]
             gained == IF index > mem.rewards[k].index THEN mem.rewards[k].index ELSE mem.rewards[k].index - index
  <2>1. index \in Nat
    <3>1. index = IF k # Internal /\ IsFinished(user, entries, mem, k) THEN 0 ELSE user.last_rewards_index[k]
      BY DEF ResetUserIndex, UserInfo
    <3> QED BY <1>1, <3>1
  <2>2. CASE k \in DOMAIN mem.rewards
    <3>1. mem.rewards[k].index \in Nat
      BY <2>2 DEF MemOK, RewardInfo
    <3> HIDE DEF index
    <3>2. gained \in Nat
      BY <2>1, <3>1
    <3> HIDE DEF gained
    <3>3. gained * user.amount \in Nat
      BY <1>1, <3>2
    <3> QED BY <2>2, <3>3, FloorNat DEF ActiveReward, CalculateReward, index, gained
  <2>3. CASE k \notin DOMAIN mem.rewards
    BY <2>3 DEF ActiveReward
  <2> QED BY <2>2, <2>3
<1>3. k # Internal => FinishedReward(user, entries, mem, k) \in Nat
  <2> SUFFICES ASSUME k # Internal PROVE FinishedReward(user, entries, mem, k) \in Nat
    OBVIOUS
  <2> DEFINE out == Outstanding(user, entries, k)
             base(first) == IF first THEN user.last_rewards_index[k] ELSE 0
             terms == [ts \in 1..MaxTime |->
                IF ts \in out THEN Floor((entries[ts][k] - base(ts = Min(out))) * user.amount) ELSE 0]
             last == IF k \in DOMAIN mem.rewards_to_remove
                     THEN Floor((mem.rewards_to_remove[k].index - base(out = {})) * user.amount) ELSE 0
  <2>1. k \in Tokens
    BY DEF Keys
  <2>2. IsFinished(user, entries, mem, k) =>
          FirstFinishedIndex(user, entries, mem, k) >= user.last_rewards_index[k]
    <3>1. ASSUME IsFinished(user, entries, mem, k)
          PROVE  FirstFinishedIndex(user, entries, mem, k) \in Nat
      <4>1. CASE out # {}
        <5>1. out \in SUBSET Nat
          BY DEF Outstanding, FinishedOK
        <5>2. Min(out) \in out
          BY <4>1, <5>1, MinOfNats
        <5>3. entries[Min(out)][k] \in Nat
          BY <5>2 DEF Outstanding, FinishedOK
        <5> QED BY <4>1, <5>3 DEF FirstFinishedIndex
      <4>2. CASE out = {}
        BY <3>1, <4>2 DEF FirstFinishedIndex, IsFinished, MemOK, Removal
      <4> QED BY <4>1, <4>2
    <3> QED BY <1>1, <2>1, <3>1 DEF ClaimUnderflows
  <2>3. \A ts \in 1..MaxTime : terms[ts] \in Nat
    <3> SUFFICES ASSUME NEW ts \in 1..MaxTime, ts \in out PROVE terms[ts] \in Nat
      OBVIOUS
    <3>1. entries[ts][k] \in Nat
      BY DEF Outstanding, FinishedOK
    <3>2. ts = Min(out) => entries[ts][k] >= user.last_rewards_index[k]
      BY <2>2 DEF IsFinished, FirstFinishedIndex
    <3>3. user.last_rewards_index[k] \in Nat
      BY <1>1
    <3>4. entries[ts][k] - base(ts = Min(out)) \in Nat
      BY <3>1, <3>2, <3>3
    <3>5. (entries[ts][k] - base(ts = Min(out))) * user.amount \in Nat
      BY <1>1, <3>4
    <3> QED BY <3>5, FloorNat
  <2>4. last \in Nat
    <3>1. CASE k \in DOMAIN mem.rewards_to_remove
      <4>1. mem.rewards_to_remove[k].index \in Nat
        BY <3>1 DEF MemOK, Removal
      <4>2. out = {} => mem.rewards_to_remove[k].index >= user.last_rewards_index[k]
        BY <2>2, <3>1 DEF IsFinished, FirstFinishedIndex
      <4>3. user.last_rewards_index[k] \in Nat
        BY <1>1
      <4>4. mem.rewards_to_remove[k].index - base(out = {}) \in Nat
        BY <4>1, <4>2, <4>3
      <4>5. (mem.rewards_to_remove[k].index - base(out = {})) * user.amount \in Nat
        BY <1>1, <4>4
      <4> QED BY <3>1, <4>5, FloorNat
    <3> QED BY <3>1
  <2> HIDE DEF terms, last
  <2>5. SumIn(out, MaxTime, terms) \in Nat
    BY <2>3, MaxTimeAssumption, SumInNat
  <2>6. FinishedReward(user, entries, mem, k) = SumIn(out, MaxTime, terms) + last
    BY DEF FinishedReward, terms, last
  <2> QED BY <2>4, <2>5, <2>6
<1> QED BY <1>2, <1>3 DEF ClaimableReward

LEMMA SyncPositionOK ==
  ASSUME NEW t \in Nat, NEW mem, MemOK(mem, t), NEW user, NEW amount \in Nat
  PROVE  /\ SyncPosition(user, mem, amount) \in UserInfo
         /\ SyncPosition(user, mem, amount).amount = amount
         /\ SyncPosition(user, mem, amount).last_claim_time <= t
<1>1. \A k \in Keys : Synced(mem, k) \in Nat
  BY DEF Synced, MemOK, RewardInfo
<1> QED BY <1>1 DEF SyncPosition, NoPosition, UserInfo, MemOK

LEMMA RemainingNat ==
  ASSUME NEW t \in Nat, NEW mem, MemOK(mem, t), NEW x \in DOMAIN mem.rewards,
         NEW S \in Schedules, NEW bypass
  PROVE  Remaining(mem, S, x, bypass) \in Nat
<1> DEFINE r == mem.rewards[x]
           n == r.next_update_ts
           prev(e) == Max({n} \cup {y \in After(S, n) : y < e})
           terms == [e \in Seconds |-> S[e] * (e - prev(e))]
<1>1. r.rps \in Nat /\ n \in Nat /\ r.orphaned \in Nat
  BY DEF MemOK, RewardInfo
<1>2. \A e \in 1..Horizon : e \in After(S, n) => terms[e] \in Nat
  <2> SUFFICES ASSUME NEW e \in Seconds, e \in After(S, n) PROVE terms[e] \in Nat
    BY DEF Seconds
  <2>1. e \in Nat /\ e > n /\ S[e] \in Nat
    BY <1>1, HorizonNat DEF After, Seconds, Schedules
  <2>2. ({n} \cup {y \in After(S, n) : y < e}) \in SUBSET (0..e)
    BY <1>1, <2>1, HorizonNat DEF After, Seconds
  <2>3. prev(e) \in 0..e
    BY <2>1, <2>2, MaxOfBounded
  <2> HIDE DEF prev
  <2>4. terms[e] = S[e] * (e - prev(e))
    OBVIOUS
  <2> HIDE DEF terms
  <2> QED BY <2>1, <2>3, <2>4
<1> HIDE DEF terms
<1>3. SumIn(After(S, n), Horizon, terms) \in Nat
  BY <1>2, HorizonNat, SumInNat
<1>4. UpcomingRewards(S, n) \in Nat
  BY <1>3 DEF UpcomingRewards, terms
<1> HIDE DEF n
<1>5. Positive(n - mem.last_update_ts) \in Nat
  BY <1>1 DEF Positive, MemOK
<1>6. r.rps * Positive(n - mem.last_update_ts) \in Nat
  BY <1>1, <1>5
<1> DEFINE upcoming == IF bypass THEN 0 ELSE UpcomingRewards(S, n)
<1>7. upcoming \in Nat
  BY <1>4
<1> HIDE DEF upcoming
<1>8. r.rps * Positive(n - mem.last_update_ts) + upcoming + r.orphaned \in Nat
  BY <1>1, <1>6, <1>7
<1> QED BY <1>8, FloorNat DEF Remaining, upcoming, n
-----------------------------------------------------------------------------
(* Schedules *)
LEMMA EndTsLater ==
  ASSUME NEW t \in Nat, NEW periods \in Nat
  PROVE  EndTs(t, periods) \in Nat /\ EndTs(t, periods) > t
<1>1. NextEpochStart(t) \in Nat /\ NextEpochStart(t) > t
  BY EpochLengthAssumption DEF NextEpochStart
<1>2. periods * EpochLength \in Nat
  BY EpochLengthAssumption
<1> QED BY <1>1, <1>2 DEF EndTs

LEMMA ScheduleRateNat ==
  ASSUME NEW t \in Nat, NEW periods \in Nat, NEW amount \in Nat
  PROVE  ScheduleRate(amount, t, periods) \in Nat
<1> DEFINE end == EndTs(t, periods)
<1>0. end \in Nat /\ end > t
  BY EndTsLater
<1> HIDE DEF end
<1>1. end - t \in Nat \ {0}
  BY <1>0
<1>2. amount * Scale \in Nat
  BY ScaleAssumption
<1> QED BY <1>1, <1>2 DEF ScheduleRate, end

LEMMA IncentivizeSchedulesOK ==
  ASSUME NEW t \in Nat, NEW mem, MemOK(mem, t), NEW S \in Schedules, NEW x \in Tokens,
         NEW rate \in Nat, NEW end
  PROVE  IncentivizeSchedules(mem, S, x, rate, t, end) \in Schedules
<1> DEFINE n == mem.rewards[x].next_update_ts
           later == After(S, NextEpochStart(t))
           beyond == {e \in later : e >= end}
           raised == IF beyond = {} THEN 0 ELSE S[Min(beyond)]
<1>1. \A e \in Seconds : S[e] \in Nat
  BY DEF Schedules
<1>2. raised \in Nat
  <2>1. beyond \in SUBSET Nat
    BY HorizonNat DEF After, Seconds
  <2>2. beyond # {} => Min(beyond) \in Seconds
    BY <2>1, MinOfNats DEF After
  <2> QED BY <1>1, <2>2
<1>3. x \in DOMAIN mem.rewards => mem.rewards[x].rps \in Nat
  BY DEF MemOK, RewardInfo
<1>4. CASE x \notin DOMAIN mem.rewards
  BY <1>4 DEF IncentivizeSchedules
<1>5. CASE x \in DOMAIN mem.rewards /\ n >= end
  <2>1. [S EXCEPT ![n] = mem.rewards[x].rps] \in Schedules
    BY <1>3, <1>5 DEF Schedules
  <2> QED BY <1>5, <2>1 DEF IncentivizeSchedules
<1>6. CASE x \in DOMAIN mem.rewards /\ ~(n >= end)
  <2>1. IncentivizeSchedules(mem, S, x, rate, t, end) =
          [e \in Seconds |-> IF e = end THEN rate + raised
                             ELSE IF e \in later /\ e < end THEN S[e] + rate ELSE S[e]]
    BY <1>6 DEF IncentivizeSchedules
  <2> HIDE DEF raised, later
  <2> QED BY <1>1, <1>2, <2>1 DEF Schedules
<1> QED BY <1>4, <1>5, <1>6

LEMMA DeregisterSchedulesOK ==
  ASSUME NEW mem, NEW S \in Schedules, NEW x, NEW bypass
  PROVE  DeregisterSchedules(mem, S, x, bypass) \in Schedules
BY DEF DeregisterSchedules, Schedules
-----------------------------------------------------------------------------
(***************************************************************************)
(* The invariant.                                                          *)
(***************************************************************************)
PoolsInv ==
  /\ DOMAIN pools = Pools
  /\ \A p \in Pools : PoolOK(pools[p]) /\ PoolOKBy(pools[p], now)

FinishedInv ==
  /\ DOMAIN finished = Pools
  /\ \A p \in Pools :
        /\ FinishedOK(finished[p])
        /\ \A ts \in 1..MaxTime : finished[p][ts] # NoneFinished => ts <= pools[p].last_update_ts

UsersInv ==
  /\ users \in [Pools -> [Users -> UserInfo]]
  /\ \A p \in Pools, u \in Users : users[p][u].last_claim_time <= pools[p].last_update_ts

SchedulesInv == schedules \in [Pools -> [Tokens -> Schedules]]

LedgerOK(ledger) == DOMAIN ledger \subseteq Tokens /\ ledger \in [DOMAIN ledger -> Nat]
MoneyInv == LedgerOK(orphaned) /\ bank \in [Tokens -> Nat]

AdminInv ==
  /\ DOMAIN activePools \subseteq Pools /\ activePools \in [DOMAIN activePools -> Nat]
  /\ totalAlloc \in Nat /\ rewardPerSecond \in Nat
  /\ registered \subseteq Pools

IInv ==
  /\ now \in 1..MaxTime
  /\ PoolsInv /\ FinishedInv /\ UsersInv /\ StakesAddUp
  /\ SchedulesInv /\ MoneyInv /\ AdminInv

LEMMA InvImplies == IInv => TypeOK /\ TimesOrdered /\ SchedulesRunPastUpdate /\ StakesAddUp
<1> SUFFICES ASSUME IInv PROVE TypeOK /\ TimesOrdered /\ SchedulesRunPastUpdate /\ StakesAddUp
  OBVIOUS
<1>1. TypeOK
  BY DEF IInv, PoolsInv, FinishedInv, FinishedOK, UsersInv, SchedulesInv, MoneyInv, LedgerOK, AdminInv, TypeOK
<1>2. TimesOrdered
  BY DEF IInv, PoolsInv, PoolOKBy, FinishedInv, UsersInv, TimesOrdered
<1>3. SchedulesRunPastUpdate
  BY DEF IInv, PoolsInv, PoolOKBy, SchedulesRunPastUpdate
<1> QED BY <1>1, <1>2, <1>3 DEF IInv
-----------------------------------------------------------------------------
LEMMA NowNat == IInv => now \in Nat /\ now \in 1..MaxTime
BY MaxTimeAssumption DEF IInv

LEMMA LoadedOK ==
  ASSUME IInv, NEW p \in Pools
  PROVE  MemOK(Loaded(p), now) /\ Loaded(p).total_lp = pools[p].total_lp
<1>1. PoolOKBy(pools[p], now) /\ schedules[p] \in [Tokens -> Schedules] /\ now \in Nat
  BY NowNat DEF IInv, PoolsInv, SchedulesInv
<1> QED BY <1>1, UpdateRewardsOK DEF Loaded

LEMMA StoredOK ==
  ASSUME NEW t \in Nat, NEW mem, MemOK(mem, t)
  PROVE  /\ PoolOK(Stored(mem)) /\ PoolOKBy(Stored(mem), t)
         /\ Stored(mem).last_update_ts = t /\ Stored(mem).total_lp = mem.total_lp
BY DEF Stored, PoolOK, PoolOKBy, MemOK

(* Saving pools brings them up to now, and the entries it writes carry     *)
(* that time.                                                              *)
LEMMA SavedOK ==
  ASSUME IInv, NEW P \in SUBSET Pools, NEW mem, \A p \in P : MemOK(mem[p], now),
         SavePools(mem, P), now' = now
  PROVE  /\ PoolsInv' /\ FinishedInv'
         /\ \A p \in Pools : /\ pools[p].last_update_ts <= pools'[p].last_update_ts
                             /\ pools'[p].total_lp = IF p \in P THEN mem[p].total_lp ELSE pools[p].total_lp
                             /\ p \in P => pools'[p].last_update_ts = now
<1>1. \A p \in Pools : pools'[p] = IF p \in P THEN Stored(mem[p]) ELSE pools[p]
  BY DEF SavePools
<1>2. \A p \in Pools : finished'[p] = IF p \in P THEN SaveFinished(finished[p], mem[p]) ELSE finished[p]
  BY DEF SavePools
<1>3. DOMAIN pools' = Pools /\ DOMAIN finished' = Pools
  BY DEF SavePools
<1>4. ASSUME NEW p \in P
      PROVE  /\ PoolOK(pools'[p]) /\ PoolOKBy(pools'[p], now)
             /\ pools'[p].last_update_ts = now /\ pools'[p].total_lp = mem[p].total_lp
  BY <1>1, NowNat, StoredOK
<1>5. \A p \in Pools : pools[p].last_update_ts <= now /\ pools[p].last_update_ts \in Nat
  BY DEF IInv, PoolsInv, PoolOKBy
<1>6. ASSUME NEW p \in Pools
      PROVE  /\ FinishedOK(finished'[p])
             /\ \A ts \in 1..MaxTime : finished'[p][ts] # NoneFinished => ts <= pools'[p].last_update_ts
  <2>1. FinishedOK(finished[p]) /\ \A ts \in 1..MaxTime : finished[p][ts] # NoneFinished => ts <= pools[p].last_update_ts
    BY DEF IInv, FinishedInv
  <2>2. CASE p \notin P
    BY <1>1, <1>2, <2>1, <2>2
  <2>3. CASE p \in P
    <3>1. /\ FinishedOK(finished'[p])
          /\ \A ts \in 1..MaxTime : ts # now => finished'[p][ts] = finished[p][ts]
      BY <1>2, <2>1, <2>3, NowNat, SaveFinishedOK
    <3>2. pools'[p].last_update_ts = now
      BY <1>4, <2>3
    <3> QED BY <1>5, <2>1, <3>1, <3>2, NowNat
  <2> QED BY <2>2, <2>3
<1>7. PoolsInv'
  BY <1>1, <1>3, <1>4 DEF PoolsInv, IInv
<1>8. FinishedInv'
  BY <1>3, <1>6 DEF FinishedInv
<1>9. ASSUME NEW p \in Pools
      PROVE  /\ pools[p].last_update_ts <= pools'[p].last_update_ts
             /\ pools'[p].total_lp = IF p \in P THEN mem[p].total_lp ELSE pools[p].total_lp
             /\ p \in P => pools'[p].last_update_ts = now
  BY <1>1, <1>4, <1>5
<1> QED BY <1>7, <1>8, <1>9
-----------------------------------------------------------------------------
(* Balances *)
LEMMA CreditOK ==
  ASSUME NEW ledger, LedgerOK(ledger), NEW keys \in SUBSET Tokens, NEW amount,
         \A t \in keys : amount[t] \in Nat
  PROVE  LedgerOK(Credit(ledger, keys, amount))
<1>1. DOMAIN Credit(ledger, keys, amount) = DOMAIN ledger \cup keys
  BY DEF Credit
<1>2. \A t \in DOMAIN ledger \cup keys : Credit(ledger, keys, amount)[t] \in Nat
  BY DEF Credit, LedgerOK
<1>3. Credit(ledger, keys, amount) \in [DOMAIN ledger \cup keys -> Nat]
  BY <1>2 DEF Credit
<1> QED BY <1>1, <1>3 DEF LedgerOK

LEMMA OrphanedBySaveOK ==
  ASSUME IInv, NEW P \in SUBSET Pools, NEW mem, \A p \in P : MemOK(mem[p], now)
  PROVE  LedgerOK(OrphanedBySave(mem, P))
<1> DEFINE keys == UNION {OrphanKeys(mem[p]) : p \in P}
           amount == [t \in Tokens |-> SumIn(P, NumPools, [p \in Pools |-> OrphanCredit(mem[p], t)])]
<1>1. keys \in SUBSET Tokens
  BY DEF OrphanKeys, RemovedOrphans, MemOK
<1>2. ASSUME NEW t \in Tokens PROVE amount[t] \in Nat
  <2> DEFINE f == [p \in Pools |-> OrphanCredit(mem[p], t)]
  <2>1. \A p \in 1..NumPools : p \in P => f[p] \in Nat
    BY NowNat, OrphanCreditNat DEF Pools
  <2> HIDE DEF f
  <2>2. SumIn(P, NumPools, f) \in Nat
    BY <2>1, NumPoolsAssumption, SumInNat
  <2> QED BY <2>2 DEF f
<1> HIDE DEF keys, amount
<1>3. LedgerOK(Credit(orphaned, keys, amount))
  BY <1>1, <1>2, CreditOK DEF IInv, MoneyInv
<1> QED BY <1>3 DEF OrphanedBySave, keys, amount

(* A transfer is paid only from what is there. *)
LEMMA TransfersOK ==
  ASSUME MoneyInv, NEW ledger, LedgerOK(ledger), NEW amount \in [Tokens -> Nat], NEW emission \in Nat,
         NEW failing, Transfers(ledger, amount, emission, failing)
  PROVE  MoneyInv'
<1> DEFINE sent(t) == t \notin failing /\ amount[t] <= bank[t]
           out(t) == IF sent(t) THEN amount[t] ELSE 0
           emitted == RewardToken \notin failing /\ emission <= bank[RewardToken] - out(RewardToken)
           lost == [t \in Tokens |-> (IF sent(t) THEN 0 ELSE amount[t])
                                       + (IF t = RewardToken /\ ~emitted THEN emission ELSE 0)]
<1>1. /\ bank' = [t \in Tokens |-> bank[t] - out(t) - (IF t = RewardToken /\ emitted THEN emission ELSE 0)]
      /\ orphaned' = Credit(ledger, {t \in Tokens : lost[t] > 0}, lost)
  BY DEF Transfers
<1>2. \A t \in Tokens : bank[t] \in Nat /\ out(t) \in Nat /\ out(t) <= bank[t]
  BY DEF MoneyInv
<1>3. \A t \in Tokens : lost[t] \in Nat
  OBVIOUS
<1> HIDE DEF lost
<1>4. LedgerOK(orphaned')
  BY <1>1, <1>3, CreditOK
<1> HIDE DEF out
<1>5. \A t \in Tokens : bank[t] - out(t) - (IF t = RewardToken /\ emitted THEN emission ELSE 0) \in Nat
  BY <1>2
<1>6. bank' \in [Tokens -> Nat]
  BY <1>1, <1>5
<1> QED BY <1>4, <1>6 DEF MoneyInv

LEMMA ClaimedNat ==
  ASSUME IInv, NEW u \in Users, NEW P \in SUBSET Pools, ClaimPossible(u, P), NEW k \in Keys
  PROVE  Claimed(u, P, [p \in Pools |-> Loaded(p)], k) \in Nat
<1> DEFINE f == [p \in Pools |-> ClaimableReward(users[p][u], finished[p], [q \in Pools |-> Loaded(q)][p], k)]
<1>1. ASSUME NEW p \in 1..NumPools, p \in P PROVE f[p] \in Nat
  <2>1. p \in Pools /\ MemOK(Loaded(p), now) /\ FinishedOK(finished[p]) /\ users[p][u] \in UserInfo
    BY LoadedOK DEF Pools, IInv, FinishedInv, UsersInv
  <2>2. ~ClaimUnderflows(users[p][u], finished[p], Loaded(p))
    BY <1>1 DEF ClaimPossible
  <2>3. ClaimableReward(users[p][u], finished[p], Loaded(p), k) \in Nat
    BY <2>1, <2>2, NowNat, ClaimableRewardNat
  <2> QED BY <2>1, <2>3
<1> HIDE DEF f
<1>2. SumIn(P, NumPools, f) \in Nat
  BY <1>1, NumPoolsAssumption, SumInNat
<1> QED BY <1>2 DEF Claimed, f

LEMMA PayClaimOK ==
  ASSUME IInv, NEW u \in Users, NEW P \in SUBSET Pools, ClaimPossible(u, P),
         PayClaim(u, P, [p \in Pools |-> Loaded(p)])
  PROVE  MoneyInv'
<1> DEFINE mem == [p \in Pools |-> Loaded(p)]
           amount == [t \in Tokens |-> Claimed(u, P, mem, t)]
           emission == Claimed(u, P, mem, Internal)
<1>1. \A p \in P : MemOK(mem[p], now)
  BY LoadedOK
<1>2. amount \in [Tokens -> Nat] /\ emission \in Nat
  BY ClaimedNat DEF Keys
<1>3. PICK failing : Transfers(OrphanedBySave(mem, P), amount, emission, failing)
  BY DEF PayClaim
<1> HIDE DEF mem, amount, emission
<1>4. LedgerOK(OrphanedBySave(mem, P))
  BY <1>1, OrphanedBySaveOK
<1> QED BY <1>2, <1>3, <1>4, TransfersOK DEF IInv
-----------------------------------------------------------------------------
(* Handlers that save pools without a change of stake. *)
LEMMA SaveKeepsInv ==
  ASSUME IInv, NEW P \in SUBSET Pools, NEW mem,
         \A p \in P : MemOK(mem[p], now) /\ mem[p].total_lp = pools[p].total_lp,
         SavePools(mem, P), now' = now, users' = users, SchedulesInv', MoneyInv', AdminInv'
  PROVE  IInv'
<1>1. /\ PoolsInv' /\ FinishedInv'
      /\ \A p \in Pools : /\ pools[p].last_update_ts <= pools'[p].last_update_ts
                          /\ pools'[p].total_lp = pools[p].total_lp
  BY SavedOK
<1>2. UsersInv'
  <2> SUFFICES ASSUME NEW p \in Pools, NEW u \in Users
               PROVE  users[p][u].last_claim_time <= pools'[p].last_update_ts
    BY DEF IInv, UsersInv
  <2>1. users[p][u].last_claim_time <= pools[p].last_update_ts /\ users[p][u].last_claim_time \in Nat
    BY DEF IInv, UsersInv, UserInfo
  <2>2. pools[p].last_update_ts \in Nat /\ pools'[p].last_update_ts \in Nat
    BY <1>1 DEF IInv, PoolsInv, PoolOK
  <2> QED BY <1>1, <2>1, <2>2
<1>3. StakesAddUp'
  BY <1>1 DEF IInv, StakesAddUp
<1> QED BY <1>1, <1>2, <1>3 DEF IInv

(* A synced position is no older than its pool. *)
LEMMA SyncedOK ==
  ASSUME IInv, NEW u \in Users, NEW P \in SUBSET Pools, NEW mem, NEW amount,
         \A p \in P : MemOK(mem[p], now) /\ amount[p] \in Nat,
         SavePools(mem, P), SyncUser(u, P, mem, amount), now' = now
  PROVE  /\ UsersInv'
         /\ \A p \in Pools, v \in Users :
               users'[p][v].amount = IF p \in P /\ v = u THEN amount[p] ELSE users[p][v].amount
<1>1. \A p \in Pools : users'[p] = IF p \in P THEN [users[p] EXCEPT ![u] = SyncPosition(users[p][u], mem[p], amount[p])]
                                   ELSE users[p]
  BY DEF SyncUser
<1>2. \A p \in Pools : users[p] \in [Users -> UserInfo]
  BY DEF IInv, UsersInv
<1>3. ASSUME NEW p \in P
      PROVE  /\ SyncPosition(users[p][u], mem[p], amount[p]) \in UserInfo
             /\ SyncPosition(users[p][u], mem[p], amount[p]).amount = amount[p]
             /\ SyncPosition(users[p][u], mem[p], amount[p]).last_claim_time <= now
  BY NowNat, SyncPositionOK
<1>4. /\ PoolsInv'
      /\ \A p \in Pools : /\ pools[p].last_update_ts <= pools'[p].last_update_ts
                          /\ p \in P => pools'[p].last_update_ts = now
  BY SavedOK
<1>5. ASSUME NEW p \in Pools
      PROVE  /\ users'[p] \in [Users -> UserInfo]
             /\ \A v \in Users :
                  /\ users'[p][v].last_claim_time <= pools'[p].last_update_ts
                  /\ users'[p][v].amount = IF p \in P /\ v = u THEN amount[p] ELSE users[p][v].amount
  <2>1. \A v \in Users : users[p][v].last_claim_time <= pools[p].last_update_ts
                         /\ users[p][v].last_claim_time \in Nat
    BY <1>2 DEF IInv, UsersInv, UserInfo
  <2>2. pools[p].last_update_ts \in Nat /\ pools'[p].last_update_ts \in Nat
    BY <1>4 DEF IInv, PoolsInv, PoolOK
  <2>3. CASE p \notin P
    <3>1. users'[p] = users[p]
      BY <1>1, <2>3
    <3>2. \A v \in Users : users[p][v].last_claim_time <= pools'[p].last_update_ts
      BY <1>4, <2>1, <2>2
    <3> QED BY <1>2, <2>3, <3>1, <3>2
  <2>4. CASE p \in P
    <3> DEFINE pos == SyncPosition(users[p][u], mem[p], amount[p])
    <3>1. pos \in UserInfo /\ pos.amount = amount[p] /\ pos.last_claim_time <= now
      BY <1>3, <2>4
    <3>2. users'[p] = [users[p] EXCEPT ![u] = pos]
      BY <1>1, <2>4
    <3> HIDE DEF pos
    <3>3. pools'[p].last_update_ts = now
      BY <1>4, <2>4
    <3>4. users'[p] \in [Users -> UserInfo]
      BY <1>2, <3>1, <3>2
    <3>5. \A v \in Users : users'[p][v] = IF v = u THEN pos ELSE users[p][v]
      BY <1>2, <3>2
    <3>6. \A v \in Users : users'[p][v].last_claim_time <= pools'[p].last_update_ts
      BY <1>4, <2>1, <2>2, <3>1, <3>3, <3>5
    <3> QED BY <2>4, <3>1, <3>4, <3>5, <3>6
  <2> QED BY <2>3, <2>4
<1>6. users' \in [Pools -> [Users -> UserInfo]]
  BY <1>5 DEF SyncUser
<1> QED BY <1>5, <1>6 DEF UsersInv
-----------------------------------------------------------------------------
(* Stakers *)
LEMMA ClaimRewardsInv ==
  ASSUME IInv, NEW u \in Users, NEW P \in SUBSET Pools, ClaimRewards(u, P)
  PROVE  IInv'
<1> DEFINE mem == [p \in Pools |-> Loaded(p)]
           staked == [p \in Pools |-> users[p][u].amount]
<1>1. /\ ClaimPossible(u, P) /\ PayClaim(u, P, mem) /\ SavePools(mem, P) /\ SyncUser(u, P, mem, staked)
      /\ now' = now /\ schedules' = schedules /\ UNCHANGED <<adminVars, factoryVars>>
  BY DEF ClaimRewards
<1>2. MoneyInv'
  BY <1>1, PayClaimOK
<1>3. \A p \in P : MemOK(mem[p], now) /\ mem[p].total_lp = pools[p].total_lp /\ staked[p] \in Nat
  BY LoadedOK DEF IInv, UsersInv, UserInfo
<1> HIDE DEF mem
<1>4. /\ PoolsInv' /\ FinishedInv'
      /\ \A p \in Pools : pools'[p].total_lp = pools[p].total_lp
  <2>1. \A p \in Pools : pools'[p].total_lp = IF p \in P THEN mem[p].total_lp ELSE pools[p].total_lp
    BY <1>1, <1>3, SavedOK
  <2>2. PoolsInv' /\ FinishedInv'
    BY <1>1, <1>3, SavedOK
  <2> QED BY <1>3, <2>1, <2>2
<1>5. /\ UsersInv'
      /\ \A p \in Pools, v \in Users : users'[p][v].amount = users[p][v].amount
  <2> HIDE DEF staked
  <2>1. \A p \in Pools, v \in Users :
           users'[p][v].amount = IF p \in P /\ v = u THEN staked[p] ELSE users[p][v].amount
    BY <1>1, <1>3, SyncedOK
  <2>2. UsersInv'
    BY <1>1, <1>3, SyncedOK
  <2> QED BY <2>1, <2>2 DEF staked
<1>6. StakesAddUp'
  <2> SUFFICES ASSUME NEW p \in Pools
               PROVE  pools'[p].total_lp = SumTo(NumUsers, [v \in Users |-> users'[p][v].amount])
    BY DEF StakesAddUp
  <2>1. [v \in Users |-> users'[p][v].amount] = [v \in Users |-> users[p][v].amount]
    BY <1>5
  <2> QED BY <1>4, <2>1 DEF IInv, StakesAddUp
<1>7. SchedulesInv' /\ AdminInv'
  BY <1>1 DEF IInv, SchedulesInv, AdminInv, adminVars, factoryVars
<1> QED BY <1>1, <1>2, <1>4, <1>5, <1>6, <1>7 DEF IInv

LEMMA RestakeInv ==
  ASSUME IInv, NEW u \in Users, NEW p \in Pools, NEW delta \in Int,
         users[p][u].amount + delta >= 0, Restake(u, p, delta)
  PROVE  IInv'
<1> DEFINE mem == [q \in Pools |-> Loaded(q)]
           restaked == [mem EXCEPT ![p].total_lp = @ + delta]
           staked == [q \in Pools |-> users[q][u].amount + delta]
           total == pools[p].total_lp + delta
           before == [v \in Users |-> users[p][v].amount]
           after == [v \in Users |-> users'[p][v].amount]
<1>1. /\ ClaimPossible(u, {p}) /\ PayClaim(u, {p}, mem)
      /\ SavePools(restaked, {p}) /\ SyncUser(u, {p}, restaked, staked)
      /\ now' = now /\ schedules' = schedules /\ UNCHANGED <<adminVars, factoryVars>>
  BY DEF Restake
<1>2. MoneyInv'
  BY <1>1, PayClaimOK
<1>3. \A v \in Users : before[v] \in Nat
  BY DEF IInv, UsersInv, UserInfo
<1>4. pools[p].total_lp = SumTo(NumUsers, before) /\ pools[p].total_lp \in Nat
  BY DEF IInv, StakesAddUp, PoolsInv, PoolOK
<1>5. total \in Nat
  <2> HIDE DEF before
  <2>1. before[u] <= SumTo(NumUsers, before)
    BY <1>3, NumUsersAssumption, SumToTerm DEF Users
  <2>2. before[u] + delta >= 0
    BY DEF before
  <2> QED BY <1>3, <1>4, <2>1, <2>2
<1>6. restaked[p] = [Loaded(p) EXCEPT !.total_lp = total]
  BY LoadedOK
<1> HIDE DEF restaked, total
<1>7. MemOK(restaked[p], now) /\ restaked[p].total_lp = total
  BY <1>5, <1>6, LoadedOK, NowNat, TotalChangeOK
<1>8. staked[p] \in Nat
  BY <1>3
<1>9. /\ PoolsInv' /\ FinishedInv'
      /\ \A q \in Pools : pools'[q].total_lp = IF q = p THEN total ELSE pools[q].total_lp
  <2>1. \A q \in {p} : MemOK(restaked[q], now)
    BY <1>7
  <2>2. \A q \in Pools : pools'[q].total_lp = IF q \in {p} THEN restaked[q].total_lp ELSE pools[q].total_lp
    BY <1>1, <2>1, SavedOK
  <2>3. PoolsInv' /\ FinishedInv'
    BY <1>1, <2>1, SavedOK
  <2> QED BY <1>7, <2>2, <2>3
<1>10. /\ UsersInv'
       /\ \A q \in Pools, v \in Users :
             users'[q][v].amount = IF q = p /\ v = u THEN staked[p] ELSE users[q][v].amount
  <2>1. \A q \in {p} : MemOK(restaked[q], now) /\ staked[q] \in Nat
    BY <1>7, <1>8
  <2> HIDE DEF staked
  <2>2. \A q \in Pools, v \in Users :
           users'[q][v].amount = IF q \in {p} /\ v = u THEN staked[q] ELSE users[q][v].amount
    BY <1>1, <2>1, SyncedOK
  <2>3. UsersInv'
    BY <1>1, <2>1, SyncedOK
  <2> QED BY <2>2, <2>3
<1>11. StakesAddUp'
  <2> SUFFICES ASSUME NEW q \in Pools
               PROVE  pools'[q].total_lp = SumTo(NumUsers, [v \in Users |-> users'[q][v].amount])
    BY DEF StakesAddUp
  <2>1. CASE q # p
    <3>1. [v \in Users |-> users'[q][v].amount] = [v \in Users |-> users[q][v].amount]
      BY <1>10, <2>1
    <3> QED BY <1>9, <2>1, <3>1 DEF IInv, StakesAddUp
  <2>2. CASE q = p
    <3>1. \A v \in Users : after[v] = IF v = u THEN before[u] + delta ELSE before[v]
      BY <1>10
    <3>2. \A v \in Users : after[v] \in Int /\ before[v] \in Int
      BY <1>3, <3>1
    <3> HIDE DEF before, after
    <3>3. SumTo(NumUsers, after) = SumTo(NumUsers, before) + after[u] - before[u]
      <4>1. \A v \in 1..NumUsers : after[v] \in Int /\ before[v] \in Int
        BY <3>2 DEF Users
      <4>2. \A v \in 1..NumUsers : v # u => after[v] = before[v]
        BY <3>1 DEF Users
      <4> QED BY <4>1, <4>2, NumUsersAssumption, SumToChange DEF Users
    <3>4. SumTo(NumUsers, after) = total
      BY <1>4, <3>1, <3>2, <3>3 DEF total
    <3> QED BY <1>9, <2>2, <3>4 DEF after
  <2> QED BY <2>1, <2>2
<1>12. SchedulesInv' /\ AdminInv'
  BY <1>1 DEF IInv, SchedulesInv, AdminInv, adminVars, factoryVars
<1> QED BY <1>1, <1>2, <1>9, <1>10, <1>11, <1>12 DEF IInv
-----------------------------------------------------------------------------
(* Internal emissions *)
LEMMA InternalRateNat ==
  ASSUME NEW rate \in Nat, NEW alloc \in Nat, NEW total \in Nat \ {0}
  PROVE  InternalRate(rate, alloc, total) \in Nat
<1>1. rate * alloc * Scale \in Nat
  BY ScaleAssumption
<1> QED BY <1>1 DEF InternalRate

LEMMA AllocSumOK ==
  ASSUME NEW S \in SUBSET Pools, NEW alloc \in [S -> Nat]
  PROVE  AllocSum(alloc) \in Nat /\ \A p \in S : alloc[p] <= AllocSum(alloc)
<1> DEFINE f == [p \in 1..NumPools |-> IF p \in S THEN alloc[p] ELSE 0]
<1>1. \A p \in 1..NumPools : f[p] \in Nat
  OBVIOUS
<1>2. \A p \in S : p \in 1..NumPools /\ f[p] = alloc[p]
  BY DEF Pools
<1>3. AllocSum(alloc) = SumTo(NumPools, f)
  BY DEF AllocSum, SumIn
<1> HIDE DEF f
<1> QED BY <1>1, <1>2, <1>3, NumPoolsAssumption, SumToNat, SumToTerm

(* The rates of all pools in ACTIVE_POOLS are recomputed or zeroed. *)
LEMMA RatesKeepInv ==
  ASSUME IInv, NEW P \in SUBSET Pools, NEW mem,
         \A p \in P : \/ \E rate \in Nat : mem[p] = SetInternalRewards(Loaded(p), rate)
                     \/ mem[p] = DisableInternalRewards(Loaded(p))
                     \/ mem[p] = Loaded(p)
                     \/ \E rate \in Nat : mem[p] = SetInternalRewards(DisableInternalRewards(Loaded(p)), rate),
         SavePools(mem, P), now' = now, users' = users, schedules' = schedules,
         orphaned' = OrphanedBySave(mem, P), bank' = bank, AdminInv'
  PROVE  IInv'
<1>1. ASSUME NEW p \in P
      PROVE  MemOK(mem[p], now) /\ mem[p].total_lp = pools[p].total_lp
  <2>1. MemOK(Loaded(p), now) /\ Loaded(p).total_lp = pools[p].total_lp /\ now \in Nat
    BY LoadedOK, NowNat
  <2>2. /\ MemOK(DisableInternalRewards(Loaded(p)), now)
        /\ DisableInternalRewards(Loaded(p)).total_lp = pools[p].total_lp
    BY <2>1, DisableInternalRewardsOK
  <2>3. ASSUME NEW rate \in Nat
        PROVE  /\ MemOK(SetInternalRewards(Loaded(p), rate), now)
               /\ SetInternalRewards(Loaded(p), rate).total_lp = pools[p].total_lp
    BY <2>1, SetInternalRewardsOK
  <2>4. ASSUME NEW rate \in Nat
        PROVE  /\ MemOK(SetInternalRewards(DisableInternalRewards(Loaded(p)), rate), now)
               /\ SetInternalRewards(DisableInternalRewards(Loaded(p)), rate).total_lp = pools[p].total_lp
    BY <2>1, <2>2, SetInternalRewardsOK
  <2> QED BY <2>1, <2>2, <2>3, <2>4
<1>2. LedgerOK(orphaned')
  BY <1>1, OrphanedBySaveOK
<1>3. MoneyInv' /\ SchedulesInv'
  BY <1>2 DEF IInv, MoneyInv, SchedulesInv
<1> QED BY <1>1, <1>3, SaveKeepsInv

LEMMA SetupPoolsInv ==
  ASSUME IInv, NEW S \in SUBSET Pools, NEW alloc \in [S -> AllocPoints], SetupPools(alloc)
  PROVE  IInv'
<1> DEFINE old == DOMAIN activePools
           disabled(p) == IF p \in old THEN DisableInternalRewards(Loaded(p)) ELSE Loaded(p)
           rate(p) == InternalRate(rewardPerSecond, alloc[p], AllocSum(alloc))
           mem == [p \in Pools |-> IF p \in S THEN SetInternalRewards(disabled(p), rate(p)) ELSE disabled(p)]
<1>1. /\ SavePools(mem, old \cup S) /\ orphaned' = OrphanedBySave(mem, old \cup S)
      /\ totalAlloc' = AllocSum(alloc) /\ activePools' = alloc
      /\ now' = now /\ users' = users /\ schedules' = schedules /\ bank' = bank
      /\ rewardPerSecond' = rewardPerSecond /\ registered' = registered
  BY DEF SetupPools, factoryVars
<1>2. alloc \in [S -> Nat \ {0}]
  BY InputsAssumption
<1>3. AllocSum(alloc) \in Nat /\ \A p \in S : alloc[p] <= AllocSum(alloc)
  BY <1>2, AllocSumOK
<1>4. AdminInv'
  BY <1>1, <1>2, <1>3 DEF IInv, AdminInv
<1>5. ASSUME NEW p \in S PROVE rate(p) \in Nat
  <2>1. alloc[p] \in Nat \ {0} /\ AllocSum(alloc) \in Nat \ {0}
    BY <1>2, <1>3
  <2> QED BY <2>1, InternalRateNat DEF IInv, AdminInv
<1> HIDE DEF rate
<1>6. old \cup S \in SUBSET Pools
  BY DEF IInv, AdminInv
<1>7. \A p \in old \cup S :
         \/ \E r \in Nat : mem[p] = SetInternalRewards(Loaded(p), r)
         \/ mem[p] = DisableInternalRewards(Loaded(p))
         \/ mem[p] = Loaded(p)
         \/ \E r \in Nat : mem[p] = SetInternalRewards(DisableInternalRewards(Loaded(p)), r)
  BY <1>5, <1>6
<1> HIDE DEF mem
<1> QED BY <1>1, <1>4, <1>6, <1>7, RatesKeepInv

LEMMA SetTokensPerSecondInv ==
  ASSUME IInv, NEW amount \in Nat, SetTokensPerSecond(amount)
  PROVE  IInv'
<1> DEFINE active == DOMAIN activePools
           rate(p) == InternalRate(amount, activePools[p], totalAlloc)
           mem == [p \in Pools |-> IF p \in active THEN SetInternalRewards(Loaded(p), rate(p)) ELSE Loaded(p)]
<1>1. /\ SavePools(mem, active) /\ orphaned' = OrphanedBySave(mem, active)
      /\ active # {} => totalAlloc > 0
      /\ totalAlloc' = totalAlloc /\ activePools' = activePools
      /\ now' = now /\ users' = users /\ schedules' = schedules /\ bank' = bank
      /\ rewardPerSecond' = amount /\ registered' = registered
  BY DEF SetTokensPerSecond, factoryVars
<1>2. active \in SUBSET Pools /\ AdminInv'
  BY <1>1 DEF IInv, AdminInv
<1>3. ASSUME NEW p \in active PROVE rate(p) \in Nat
  <2>1. activePools[p] \in Nat /\ totalAlloc \in Nat \ {0}
    BY <1>1 DEF IInv, AdminInv
  <2> QED BY <2>1, InternalRateNat
<1> HIDE DEF rate
<1>4. \A p \in active : \E r \in Nat : mem[p] = SetInternalRewards(Loaded(p), r)
  BY <1>2, <1>3
<1> HIDE DEF mem
<1> QED BY <1>1, <1>2, <1>4, RatesKeepInv

LEMMA DisablePoolsInv ==
  ASSUME IInv, NEW D, NEW newTotal \in Int, DisablePools(D, newTotal),
         now' = now, users' = users, schedules' = schedules, bank' = bank,
         rewardPerSecond' = rewardPerSecond, registered' \subseteq registered
  PROVE  IInv'
<1> DEFINE active == DOMAIN activePools
           rest == active \ D
           rate(p) == InternalRate(rewardPerSecond, activePools[p], newTotal)
           mem == [p \in Pools |-> IF p \in rest THEN SetInternalRewards(Loaded(p), rate(p))
                                   ELSE DisableInternalRewards(Loaded(p))]
<1>1. /\ SavePools(mem, active) /\ orphaned' = OrphanedBySave(mem, active)
      /\ newTotal >= 0 /\ (rest # {} => newTotal > 0)
      /\ totalAlloc' = newTotal /\ activePools' = [p \in rest |-> activePools[p]]
  BY DEF DisablePools
<1>2. active \in SUBSET Pools /\ AdminInv'
  BY <1>1 DEF IInv, AdminInv
<1>3. ASSUME NEW p \in rest PROVE rate(p) \in Nat
  <2>1. activePools[p] \in Nat /\ newTotal \in Nat \ {0} /\ rewardPerSecond \in Nat
    BY <1>1 DEF IInv, AdminInv
  <2> QED BY <2>1, InternalRateNat
<1> HIDE DEF rate
<1>4. \A p \in active : \/ \E r \in Nat : mem[p] = SetInternalRewards(Loaded(p), r)
                        \/ mem[p] = DisableInternalRewards(Loaded(p))
  BY <1>2, <1>3
<1> HIDE DEF mem
<1> QED BY <1>1, <1>2, <1>4, RatesKeepInv

LEMMA PointsOfNat ==
  ASSUME IInv, NEW D \in SUBSET DOMAIN activePools
  PROVE  SumIn(D, NumPools, activePools) \in Nat
<1>1. \A p \in 1..NumPools : p \in D => activePools[p] \in Nat
  BY DEF IInv, AdminInv
<1> QED BY <1>1, NumPoolsAssumption, SumInNat
-----------------------------------------------------------------------------
(* External rewards *)
LEMMA IncentivizeInv ==
  ASSUME IInv, NEW p \in Pools, NEW t \in Tokens, NEW amount \in Nat, NEW periods \in Nat,
         Incentivize(p, t, amount, periods)
  PROVE  IInv'
<1> DEFINE mem == [q \in Pools |-> Loaded(q)]
           rate == ScheduleRate(amount, now, periods)
           end == EndTs(now, periods)
           funded == [mem EXCEPT ![p] = IncentivizeReward(@, t, rate, end)]
           planned == IncentivizeSchedules(Loaded(p), schedules[p][t], t, rate, now, end)
<1>1. /\ SavePools(funded, {p}) /\ orphaned' = OrphanedBySave(mem, {p})
      /\ schedules' = [schedules EXCEPT ![p][t] = planned]
      /\ bank' = [bank EXCEPT ![t] = @ + amount]
      /\ now' = now /\ users' = users /\ UNCHANGED <<adminVars, factoryVars>>
  BY DEF Incentivize
<1>2. MemOK(Loaded(p), now) /\ Loaded(p).total_lp = pools[p].total_lp /\ now \in Nat
  BY LoadedOK, NowNat
<1>3. rate \in Nat /\ end \in Nat /\ end > now
  BY <1>2, ScheduleRateNat, EndTsLater
<1>4. schedules \in [Pools -> [Tokens -> Schedules]] /\ schedules[p][t] \in Schedules
  BY DEF IInv, SchedulesInv
<1> HIDE DEF rate, end
<1>5. planned \in Schedules
  BY <1>2, <1>3, <1>4, IncentivizeSchedulesOK
<1> HIDE DEF planned
<1>6. SchedulesInv'
  BY <1>1, <1>4, <1>5 DEF SchedulesInv
<1>7. LedgerOK(OrphanedBySave(mem, {p}))
  <2>1. \A q \in {p} : MemOK(mem[q], now)
    BY <1>2
  <2> HIDE DEF mem
  <2> QED BY <2>1, OrphanedBySaveOK
<1>8. MoneyInv'
  BY <1>1, <1>7 DEF IInv, MoneyInv
<1>9. funded[p] = IncentivizeReward(Loaded(p), t, rate, end)
  OBVIOUS
<1> HIDE DEF mem, funded
<1>10. MemOK(funded[p], now) /\ funded[p].total_lp = pools[p].total_lp
  <2>1. /\ MemOK(IncentivizeReward(Loaded(p), t, rate, end), now)
        /\ IncentivizeReward(Loaded(p), t, rate, end).total_lp = Loaded(p).total_lp
    BY <1>2, <1>3, IncentivizeRewardOK
  <2> QED BY <1>2, <1>9, <2>1
<1>11. \A q \in {p} : MemOK(funded[q], now) /\ funded[q].total_lp = pools[q].total_lp
  BY <1>10
<1>12. AdminInv'
  BY <1>1 DEF IInv, AdminInv, adminVars, factoryVars
<1> QED BY <1>1, <1>6, <1>8, <1>11, <1>12, SaveKeepsInv

LEMMA RemoveRewardInv ==
  ASSUME IInv, NEW p \in Pools, NEW t \in Tokens, NEW bypass, RemoveRewardFromPool(p, t, bypass)
  PROVE  IInv'
<1> DEFINE mem == [q \in Pools |-> Loaded(q)]
           removed == [mem EXCEPT ![p] = DeregisterReward(@, t)]
           unclaimed == Remaining(Loaded(p), schedules[p][t], t, bypass)
           planned == DeregisterSchedules(Loaded(p), schedules[p][t], t, bypass)
           amount == [q \in Tokens |-> IF q = t THEN unclaimed ELSE 0]
<1>1. /\ t \in DOMAIN Loaded(p).rewards
      /\ SavePools(removed, {p})
      /\ schedules' = [schedules EXCEPT ![p][t] = planned]
      /\ \E failing : Transfers(OrphanedBySave(removed, {p}), amount, 0, failing)
      /\ now' = now /\ users' = users /\ UNCHANGED <<adminVars, factoryVars>>
  BY DEF RemoveRewardFromPool
<1>2. MemOK(Loaded(p), now) /\ Loaded(p).total_lp = pools[p].total_lp /\ now \in Nat
  BY LoadedOK, NowNat
<1>3. schedules \in [Pools -> [Tokens -> Schedules]] /\ schedules[p][t] \in Schedules
  BY DEF IInv, SchedulesInv
<1>4. planned \in Schedules
  BY <1>3, DeregisterSchedulesOK
<1> HIDE DEF planned
<1>5. SchedulesInv'
  BY <1>1, <1>3, <1>4 DEF SchedulesInv
<1>6. removed[p] = DeregisterReward(Loaded(p), t)
  OBVIOUS
<1> HIDE DEF mem, removed
<1>7. MemOK(removed[p], now) /\ removed[p].total_lp = pools[p].total_lp
  BY <1>1, <1>2, <1>6, DeregisterRewardOK
<1>8. \A q \in {p} : MemOK(removed[q], now) /\ removed[q].total_lp = pools[q].total_lp
  BY <1>7
<1>9. LedgerOK(OrphanedBySave(removed, {p}))
  BY <1>8, OrphanedBySaveOK
<1>10. unclaimed \in Nat
  BY <1>1, <1>2, <1>3, RemainingNat
<1>11. amount \in [Tokens -> Nat]
  BY <1>10
<1> HIDE DEF amount
<1>12. MoneyInv'
  BY <1>1, <1>9, <1>11, TransfersOK DEF IInv
<1>13. AdminInv'
  BY <1>1 DEF IInv, AdminInv, adminVars, factoryVars
<1> QED BY <1>1, <1>5, <1>8, <1>12, <1>13, SaveKeepsInv

LEMMA ClaimOrphanedRewardsInv ==
  ASSUME IInv, NEW limit, ClaimOrphanedRewards(limit)
  PROVE  IInv'
<1> DEFINE taken == {t \in DOMAIN orphaned :
                  Cardinality({x \in DOMAIN orphaned : x < t}) < limit /\ orphaned[t] > 0}
           left == [t \in DOMAIN orphaned \ taken |-> orphaned[t]]
           amount == [t \in Tokens |-> IF t \in taken THEN orphaned[t] ELSE 0]
<1>1. /\ \E failing : Transfers(left, amount, 0, failing)
      /\ UNCHANGED <<now, stakeVars, adminVars, factoryVars>>
  BY DEF ClaimOrphanedRewards
<1>2. LedgerOK(left) /\ amount \in [Tokens -> Nat]
  <2> HIDE DEF taken
  <2>1. taken \subseteq DOMAIN orphaned
    BY DEF taken
  <2> QED BY <2>1 DEF IInv, MoneyInv, LedgerOK
<1> HIDE DEF left, amount
<1>3. MoneyInv'
  BY <1>1, <1>2, TransfersOK DEF IInv
<1> QED BY <1>1, <1>3 DEF IInv, PoolsInv, FinishedInv, UsersInv, StakesAddUp, SchedulesInv, AdminInv,
                         stakeVars, adminVars, factoryVars
-----------------------------------------------------------------------------
LEMMA PositionZero == NoPosition \in UserInfo /\ NoPosition.amount = 0 /\ NoPosition.last_claim_time = 0
BY DEF NoPosition, UserInfo

LEMMA InvInit == Init => IInv
<1> SUFFICES ASSUME Init PROVE IInv
  OBVIOUS
<1>1. now \in 1..MaxTime
  BY MaxTimeAssumption DEF Init
<1>2. PoolsInv
  <2>1. /\ EmptyPool.total_lp = 0 /\ EmptyPool.last_update_ts = 0 /\ DOMAIN EmptyPool.rewards = {}
        /\ EmptyPool.rewards \in [DOMAIN EmptyPool.rewards -> RewardInfo]
        /\ EmptyPool = [total_lp |-> EmptyPool.total_lp, last_update_ts |-> EmptyPool.last_update_ts,
                        rewards |-> EmptyPool.rewards]
    BY DEF EmptyPool, NoRewards
  <2>2. PoolOK(EmptyPool) /\ PoolOKBy(EmptyPool, 1)
    BY <2>1 DEF PoolOK, PoolOKBy
  <2> QED BY <2>2 DEF Init, PoolsInv
<1>3. FinishedInv
  BY DEF Init, FinishedInv, FinishedOK, NoneFinished
<1>4. UsersInv
  BY PositionZero DEF Init, UsersInv, EmptyPool
<1>5. StakesAddUp
  <2> SUFFICES ASSUME NEW p \in Pools
               PROVE  pools[p].total_lp = SumTo(NumUsers, [u \in Users |-> users[p][u].amount])
    BY DEF StakesAddUp
  <2>1. [u \in Users |-> users[p][u].amount] = [u \in 1..NumUsers |-> 0]
    BY PositionZero DEF Init, Users
  <2> QED BY <2>1, NumUsersAssumption, SumToZero DEF Init, EmptyPool
<1>6. SchedulesInv
  BY DEF Init, SchedulesInv, Schedules, NoSchedules
<1>7. MoneyInv
  BY DEF Init, MoneyInv, LedgerOK
<1>8. AdminInv
  BY DEF Init, AdminInv
<1> QED BY <1>1, <1>2, <1>3, <1>4, <1>5, <1>6, <1>7, <1>8 DEF IInv

LEMMA BlockedPointsNat ==
  ASSUME IInv, NEW add
  PROVE  BlockedPoints(add) \in Nat
<1> DEFINE f == [p \in Pools |-> activePools[p] * Cardinality(PairAssets[p] \cap add)]
<1>1. ASSUME NEW p \in 1..NumPools, p \in DOMAIN activePools PROVE f[p] \in Nat
  <2>1. p \in Pools /\ activePools[p] \in Nat
    BY <1>1 DEF Pools, IInv, AdminInv
  <2> DEFINE c == Cardinality(PairAssets[p] \cap add)
  <2>2. c \in Nat
    <3>1. IsFiniteSet(PairAssets[p] \cap add)
      BY <2>1, PairAssetsAssumption, FS_Subset
    <3> QED BY <3>1, FS_CardinalityType
  <2> HIDE DEF c
  <2>3. activePools[p] * c \in Nat
    BY <2>1, <2>2
  <2> QED BY <2>1, <2>3 DEF c
<1> HIDE DEF f
<1>2. SumIn(DOMAIN activePools, NumPools, f) \in Nat
  BY <1>1, NumPoolsAssumption, SumInNat
<1> QED BY <1>2 DEF BlockedPoints, f

LEMMA AmountsNat ==
  ASSUME IInv, NEW n \in Nat, NEW a \in Amounts(n)
  PROVE  a \in Nat
<1>1. PICK r \in IncentiveRates, d \in IncentiveDust : a = r * (EndTs(now, n) - now) + d
  BY DEF Amounts
<1> DEFINE end == EndTs(now, n)
           length == EndTs(now, n) - now
<1>2. end \in Nat /\ end > now /\ now \in Nat
  BY NowNat, EndTsLater
<1>3. length \in Nat
  <2> HIDE DEF end
  <2>1. end - now \in Nat
    BY <1>2
  <2> QED BY <2>1 DEF end
<1>4. r \in Nat /\ d \in Nat
  BY InputsAssumption
<1> HIDE DEF length
<1>5. r * length + d \in Nat
  BY <1>3, <1>4
<1> QED BY <1>1, <1>5 DEF length

LEMMA InvNext == IInv /\ [Next]_vars => IInv'
<1> SUFFICES ASSUME IInv, [Next]_vars PROVE IInv'
  OBVIOUS
<1>0. totalAlloc \in Nat
  BY DEF IInv, AdminInv
<1>1. ASSUME NEW d \in TimeSteps, Tick(d) PROVE IInv'
  <2>1. d \in Nat /\ now' = now + d /\ now + d <= MaxTime /\ UNCHANGED <<stakeVars, moneyVars, adminVars, factoryVars>>
    BY <1>1, InputsAssumption DEF Tick
  <2>2. now' \in 1..MaxTime /\ now <= now'
    BY <2>1, NowNat, MaxTimeAssumption
  <2>3. PoolsInv'
    BY <2>1, <2>2, NowNat DEF IInv, PoolsInv, PoolOK, PoolOKBy, stakeVars
  <2> QED BY <2>1, <2>2, <2>3 DEF IInv, FinishedInv, UsersInv, StakesAddUp, SchedulesInv, MoneyInv, AdminInv,
                                  stakeVars, moneyVars, adminVars, factoryVars
<1>2. ASSUME NEW u \in Users, NEW P \in SUBSET Pools, ClaimRewards(u, P) PROVE IInv'
  BY <1>2, ClaimRewardsInv
<1>3. ASSUME NEW u \in Users, NEW p \in Pools, NEW a \in StakeAmounts, Deposit(u, p, a) PROVE IInv'
  <2>1. a \in Nat /\ users[p][u].amount \in Nat
    BY InputsAssumption DEF IInv, UsersInv, UserInfo
  <2> QED BY <1>3, <2>1, RestakeInv DEF Deposit
<1>4. ASSUME NEW u \in Users, NEW p \in Pools, NEW a \in StakeAmounts, Withdraw(u, p, a) PROVE IInv'
  <2>1. a \in Nat /\ users[p][u].amount \in Nat /\ a <= users[p][u].amount
    BY <1>4, InputsAssumption DEF IInv, UsersInv, UserInfo, Withdraw
  <2>2. -a \in Int /\ users[p][u].amount + (-a) >= 0
    BY <2>1
  <2> QED BY <1>4, <2>2, RestakeInv DEF Withdraw
<1>5. ASSUME NEW S \in SUBSET Pools, NEW alloc \in [S -> AllocPoints], SetupPools(alloc) PROVE IInv'
  BY <1>5, SetupPoolsInv
<1>6. ASSUME NEW a \in EmissionRates, SetTokensPerSecond(a) PROVE IInv'
  BY <1>6, InputsAssumption, SetTokensPerSecondInv
<1>7. ASSUME DeactivateBlockedPools PROVE IInv'
  <2> DEFINE D == {p \in DOMAIN activePools : PairTypeOf[p] \in blacklisted}
             newTotal == totalAlloc - SumIn(D, NumPools, activePools)
  <2>1. newTotal \in Int
    BY <1>0, PointsOfNat
  <2>2. /\ DisablePools(D, newTotal)
        /\ UNCHANGED <<now, users, schedules, bank, rewardPerSecond, registered>>
    BY <1>7 DEF DeactivateBlockedPools, factoryVars
  <2> HIDE DEF D, newTotal
  <2> QED BY <2>1, <2>2, DisablePoolsInv
<1>8. ASSUME NEW add \in BlockBatches, NEW remove \in BlockBatches, UpdateBlockedTokenslist(add, remove)
      PROVE  IInv'
  <2> DEFINE D == {p \in DOMAIN activePools : PairAssets[p] \cap add # {}}
             newTotal == totalAlloc - BlockedPoints(add)
  <2>1. newTotal \in Int
    BY <1>0, BlockedPointsNat
  <2>2. /\ DisablePools(D, newTotal) \/ UNCHANGED <<pools, finished, orphaned, activePools, totalAlloc>>
        /\ UNCHANGED <<now, users, schedules, bank, rewardPerSecond, registered>>
    BY <1>8 DEF UpdateBlockedTokenslist, factoryVars
  <2> HIDE DEF D, newTotal
  <2>3. CASE DisablePools(D, newTotal)
    BY <2>1, <2>2, <2>3, DisablePoolsInv
  <2>4. CASE UNCHANGED <<pools, finished, orphaned, activePools, totalAlloc>>
    BY <2>2, <2>4 DEF IInv, PoolsInv, FinishedInv, UsersInv, StakesAddUp, SchedulesInv, MoneyInv, AdminInv
  <2> QED BY <2>2, <2>3, <2>4
<1>9. ASSUME NEW p \in DelistedPools, Deregister(p) PROVE IInv'
  <2>1. /\ registered' \subseteq registered
        /\ UNCHANGED <<now, users, schedules, bank, rewardPerSecond>>
    BY <1>9 DEF Deregister
  <2>2. CASE p \in DOMAIN activePools /\ DisablePools({p}, totalAlloc - activePools[p])
    <3>1. totalAlloc - activePools[p] \in Int
      BY <1>0, <2>2 DEF IInv, AdminInv
    <3> QED BY <2>1, <2>2, <3>1, DisablePoolsInv
  <2>3. CASE UNCHANGED <<pools, finished, orphaned, activePools, totalAlloc>>
    BY <2>1, <2>3 DEF IInv, PoolsInv, FinishedInv, UsersInv, StakesAddUp, SchedulesInv, MoneyInv, AdminInv
  <2> QED BY <1>9, <2>2, <2>3 DEF Deregister
<1>10. ASSUME NEW type \in BlacklistTypes, ToggleBlacklist(type) PROVE IInv'
  BY <1>10 DEF ToggleBlacklist, IInv, PoolsInv, FinishedInv, UsersInv, StakesAddUp, SchedulesInv, MoneyInv, AdminInv,
               stakeVars, moneyVars, adminVars
<1>11. ASSUME NEW a \in TopUps, TopUp(a) PROVE IInv'
  <2>1. a \in Nat
    BY InputsAssumption
  <2>2. MoneyInv'
    <3>1. RewardToken \in Tokens
      BY NumTokensAssumption DEF RewardToken, Tokens
    <3>2. bank \in [Tokens -> Nat]
      BY <1>0 DEF IInv, MoneyInv
    <3>3. bank[RewardToken] + a \in Nat
      BY <2>1, <3>1, <3>2
    <3>4. bank' = [bank EXCEPT ![RewardToken] = bank[RewardToken] + a]
      BY <1>11 DEF TopUp
    <3>5. bank' \in [Tokens -> Nat]
      BY <3>2, <3>3, <3>4
    <3>6. UNCHANGED <<orphaned, schedules, rewardPerSecond>>
      BY <1>11 DEF TopUp, stakeVars, adminVars
    <3> QED BY <1>0, <3>5, <3>6 DEF IInv, MoneyInv, LedgerOK
  <2> QED BY <1>11, <2>2 DEF TopUp, IInv, PoolsInv, FinishedInv, UsersInv, StakesAddUp, SchedulesInv, AdminInv,
                             stakeVars, adminVars, factoryVars
<1>12. ASSUME NEW p \in Pools, NEW t \in IncentiveTokens, NEW n \in IncentivePeriods,
              NEW a \in Amounts(n), Incentivize(p, t, a, n)
       PROVE  IInv'
  <2>1. t \in Tokens /\ n \in Nat
    BY InputsAssumption
  <2>2. a \in Nat
    BY <2>1, AmountsNat
  <2> QED BY <1>12, <2>1, <2>2, IncentivizeInv
<1>13. ASSUME NEW p \in Pools, NEW t \in IncentiveTokens, NEW b \in RemovalModes, RemoveRewardFromPool(p, t, b)
       PROVE  IInv'
  BY <1>13, InputsAssumption, RemoveRewardInv
<1>14. ASSUME NEW limit \in OrphanLimits, ClaimOrphanedRewards(limit) PROVE IInv'
  BY <1>14, ClaimOrphanedRewardsInv
<1>15. ASSUME UNCHANGED vars PROVE IInv'
  BY <1>15 DEF vars, IInv, PoolsInv, FinishedInv, UsersInv, StakesAddUp, SchedulesInv, MoneyInv, AdminInv,
               stakeVars, moneyVars, adminVars, factoryVars
<1> QED BY <1>1, <1>2, <1>3, <1>4, <1>5, <1>6, <1>7, <1>8, <1>9, <1>10, <1>11, <1>12, <1>13, <1>14, <1>15 DEF Next

(* The invariants hold in every reachable state. *)
THEOREM SpecInv == Spec => []IInv
BY InvInit, InvNext, PTL DEF Spec

(* No stored amount, index, rate, schedule or balance is ever negative or  *)
(* undefined, whatever the messages and their order.                       *)
THEOREM TypeCorrect == Spec => []TypeOK
BY SpecInv, InvImplies, PTL

(* total_lp, which rewards are divided by, is always the sum of the stakes *)
(* that claim them.                                                        *)
THEOREM StakesAlwaysAddUp == Spec => []StakesAddUp
BY SpecInv, InvImplies, PTL

(* update_rewards never subtracts a later time from an earlier one.        *)
THEOREM SchedulesAlwaysRunPastUpdate == Spec => []SchedulesRunPastUpdate
BY SpecInv, InvImplies, PTL

(* A position is synced no later than its pool was updated, and no entry   *)
(* of FINISHED_REWARD_INDEXES is newer than its pool.                      *)
THEOREM TimesAlwaysOrdered == Spec => []TimesOrdered
BY SpecInv, InvImplies, PTL
-----------------------------------------------------------------------------
(***************************************************************************)
(* Which pools receive internal emissions, and how much of them, for every *)
(* number of pools, users and tokens, every allocation and every order of  *)
(* messages.                                                               *)
(***************************************************************************)
LEMMA InternalNeverEnds ==
  ASSUME NEW r, NEW S, NEW total, NEW last, NEW t
  PROVE  UpdateReward(r, Internal, S, total, last, t).rps = r.rps
<1>1. ~Ended(r, Internal, t)
  BY DEF Ended
<1>2. ~Finishes(r, Internal, S, t)
  BY <1>1 DEF Finishes
<1> QED BY <1>1, <1>2 DEF UpdateReward

(* Bringing a pool up to the current block neither starts nor stops its    *)
(* internal emissions: the internal reward never ends.                     *)
LEMMA UpdateKeepsActive ==
  ASSUME NEW p
  PROVE  IsActivePool(Loaded(p)) <=> IsActivePool(pools[p])
<1> DEFINE mem == Load(pools[p])
           sched == schedules[p]
<1>1. IsActivePool(mem) <=> IsActivePool(pools[p])
  BY DEF IsActivePool, Load
<1>2. CASE now <= mem.last_update_ts
  BY <1>1, <1>2 DEF Loaded, UpdateRewards
<1>3. CASE ~(now <= mem.last_update_ts)
  <2> DEFINE old == mem.rewards
             new == [k \in DOMAIN old |->
                UpdateReward(old[k], k, IF k = Internal THEN NoSchedules ELSE sched[k],
                             mem.total_lp, mem.last_update_ts, now)]
             done == {k \in DOMAIN old : k # Internal /\ Finishes(old[k], k, sched[k], now)}
  <2>1. Loaded(p).rewards = [k \in DOMAIN old \ done |-> new[k]]
    BY <1>3 DEF Loaded, UpdateRewards, Load
  <2>2. Internal \in DOMAIN Loaded(p).rewards <=> Internal \in DOMAIN old
    BY <2>1
  <2>3. Internal \in DOMAIN old => Loaded(p).rewards[Internal].rps = old[Internal].rps
    BY <2>1, InternalNeverEnds
  <2> QED BY <1>1, <2>2, <2>3 DEF IsActivePool
<1> QED BY <1>2, <1>3
-----------------------------------------------------------------------------
(* The fields of a pool in memory. *)
LEMMA LoadedFields ==
  ASSUME NEW p
  PROVE  Loaded(p) = [total_lp |-> Loaded(p).total_lp, last_update_ts |-> Loaded(p).last_update_ts,
                      rewards |-> Loaded(p).rewards, rewards_to_remove |-> Loaded(p).rewards_to_remove,
                      orphaned_to_claim |-> Loaded(p).orphaned_to_claim]
<1> DEFINE mem == Load(pools[p])
<1>1. CASE now <= mem.last_update_ts
  BY <1>1 DEF Loaded, UpdateRewards, Load
<1>2. CASE ~(now <= mem.last_update_ts)
  BY <1>2 DEF Loaded, UpdateRewards, Load
<1> QED BY <1>1, <1>2

(* What is stored emits exactly if the pool it was made from does. *)
LEMMA StoredActive ==
  ASSUME NEW mem
  PROVE  IsActivePool(Stored(mem)) <=> IsActivePool(mem)
BY DEF IsActivePool, Stored

LEMMA DisabledInactive ==
  ASSUME NEW mem
  PROVE  ~IsActivePool(Stored(DisableInternalRewards(mem)))
BY DEF IsActivePool, DisableInternalRewards, Stored

(* The changes of a stake and of external rewards. *)
LEMMA StakeKeepsActive ==
  ASSUME NEW p, NEW total
  PROVE  IsActivePool(Stored([Loaded(p) EXCEPT !.total_lp = total])) <=> IsActivePool(pools[p])
BY LoadedFields, UpdateKeepsActive DEF IsActivePool, Stored

LEMMA IncentivizeKeepsActive ==
  ASSUME NEW p, NEW t \in Tokens, NEW rate, NEW end
  PROVE  IsActivePool(Stored(IncentivizeReward(Loaded(p), t, rate, end))) <=> IsActivePool(pools[p])
<1>1. t # Internal
  BY DEF Tokens, Internal
<1> QED BY <1>1, LoadedFields, UpdateKeepsActive DEF IsActivePool, Stored, IncentivizeReward, Set

LEMMA DeregisterKeepsActive ==
  ASSUME NEW p, NEW t \in Tokens
  PROVE  IsActivePool(Stored(DeregisterReward(Loaded(p), t))) <=> IsActivePool(pools[p])
<1>1. t # Internal
  BY DEF Tokens, Internal
<1> QED BY <1>1, LoadedFields, UpdateKeepsActive DEF IsActivePool, Stored, DeregisterReward, Drop
-----------------------------------------------------------------------------
EmissionInv ==
  /\ DOMAIN pools = Pools
  /\ DOMAIN activePools \subseteq Pools
  /\ EmittingPoolsListed
  /\ BlockedPoolsInactive

(* Pools that a step leaves as active as they were, with ACTIVE_POOLS as   *)
(* it was, and no more tokens blocked.                                     *)
LEMMA KeepsEmissionInv ==
  ASSUME EmissionInv,
         DOMAIN pools' = Pools,
         \A p \in Pools : IsActivePool(pools'[p]) => IsActivePool(pools[p]),
         activePools' = activePools,
         blockedTokens' \subseteq blockedTokens
  PROVE  EmissionInv'
BY DEF EmissionInv, EmittingPoolsListed, BlockedPoolsInactive

LEMMA SavedPools ==
  ASSUME NEW mem, NEW P, SavePools(mem, P)
  PROVE  /\ DOMAIN pools' = Pools
         /\ \A p \in Pools : pools'[p] = IF p \in P THEN Stored(mem[p]) ELSE pools[p]
BY DEF SavePools

(* The handlers that only touch stakes and external rewards. *)
LEMMA StakersKeepEmissions ==
  ASSUME EmissionInv, NEW u \in Users
  PROVE  /\ \A P \in SUBSET Pools : ClaimRewards(u, P) => EmissionInv'
         /\ \A p \in Pools, delta \in Int : Restake(u, p, delta) => EmissionInv'
<1>1. ASSUME NEW P \in SUBSET Pools, ClaimRewards(u, P)
      PROVE  EmissionInv'
  <2> DEFINE mem == [p \in Pools |-> Loaded(p)]
  <2>1. SavePools(mem, P) /\ UNCHANGED adminVars
    BY <1>1 DEF ClaimRewards
  <2> HIDE DEF mem
  <2>2. \A p \in Pools : pools'[p] = IF p \in P THEN Stored(mem[p]) ELSE pools[p]
    BY <2>1, SavedPools
  <2>3. \A p \in Pools : IsActivePool(pools'[p]) => IsActivePool(pools[p])
    BY <2>2, UpdateKeepsActive, StoredActive DEF mem
  <2> QED BY <2>1, <2>3, SavedPools, KeepsEmissionInv DEF adminVars
<1>2. ASSUME NEW p \in Pools, NEW delta \in Int, Restake(u, p, delta)
      PROVE  EmissionInv'
  <2> DEFINE mem == [q \in Pools |-> Loaded(q)]
             restaked == [mem EXCEPT ![p].total_lp = @ + delta]
  <2>1. SavePools(restaked, {p}) /\ UNCHANGED adminVars
    BY <1>2 DEF Restake
  <2>2. \E total : restaked[p] = [Loaded(p) EXCEPT !.total_lp = total]
    OBVIOUS
  <2> HIDE DEF restaked
  <2>3. \A q \in Pools : pools'[q] = IF q = p THEN Stored(restaked[p]) ELSE pools[q]
    BY <2>1, SavedPools
  <2>4. \A q \in Pools : IsActivePool(pools'[q]) => IsActivePool(pools[q])
    BY <2>2, <2>3, StakeKeepsActive
  <2> QED BY <2>1, <2>4, SavedPools, KeepsEmissionInv DEF adminVars
<1> QED BY <1>1, <1>2

LEMMA ExternalRewardsKeepEmissions ==
  ASSUME EmissionInv, NEW p \in Pools, NEW t \in Tokens
  PROVE  /\ \A amount, periods : Incentivize(p, t, amount, periods) => EmissionInv'
         /\ \A bypass : RemoveRewardFromPool(p, t, bypass) => EmissionInv'
<1>1. ASSUME NEW amount, NEW periods, Incentivize(p, t, amount, periods)
      PROVE  EmissionInv'
  <2> DEFINE mem == [q \in Pools |-> Loaded(q)]
             rate == ScheduleRate(amount, now, periods)
             end == EndTs(now, periods)
             funded == [mem EXCEPT ![p] = IncentivizeReward(@, t, rate, end)]
  <2>1. SavePools(funded, {p}) /\ UNCHANGED adminVars
    BY <1>1 DEF Incentivize
  <2>2. funded[p] = IncentivizeReward(Loaded(p), t, rate, end)
    OBVIOUS
  <2> HIDE DEF funded
  <2>3. \A q \in Pools : pools'[q] = IF q = p THEN Stored(funded[p]) ELSE pools[q]
    BY <2>1, SavedPools
  <2>4. \A q \in Pools : IsActivePool(pools'[q]) => IsActivePool(pools[q])
    BY <2>2, <2>3, IncentivizeKeepsActive
  <2> QED BY <2>1, <2>4, SavedPools, KeepsEmissionInv DEF adminVars
<1>2. ASSUME NEW bypass, RemoveRewardFromPool(p, t, bypass)
      PROVE  EmissionInv'
  <2> DEFINE mem == [q \in Pools |-> Loaded(q)]
             removed == [mem EXCEPT ![p] = DeregisterReward(@, t)]
  <2>1. SavePools(removed, {p}) /\ UNCHANGED adminVars
    BY <1>2 DEF RemoveRewardFromPool
  <2>2. removed[p] = DeregisterReward(Loaded(p), t)
    OBVIOUS
  <2> HIDE DEF removed
  <2>3. \A q \in Pools : pools'[q] = IF q = p THEN Stored(removed[p]) ELSE pools[q]
    BY <2>1, SavedPools
  <2>4. \A q \in Pools : IsActivePool(pools'[q]) => IsActivePool(pools[q])
    BY <2>2, <2>3, DeregisterKeepsActive
  <2> QED BY <2>1, <2>4, SavedPools, KeepsEmissionInv DEF adminVars
<1> QED BY <1>1, <1>2
-----------------------------------------------------------------------------
(* The handlers that change ACTIVE_POOLS. *)
LEMMA SetupPoolsEmissions ==
  ASSUME EmissionInv, NEW S \in SUBSET Pools, NEW alloc \in [S -> AllocPoints], SetupPools(alloc)
  PROVE  EmissionInv'
<1> DEFINE old == DOMAIN activePools
           disabled(p) == IF p \in old THEN DisableInternalRewards(Loaded(p)) ELSE Loaded(p)
           mem == [p \in Pools |-> IF p \in S
                     THEN SetInternalRewards(disabled(p), InternalRate(rewardPerSecond, alloc[p], AllocSum(alloc)))
                     ELSE disabled(p)]
<1>1. /\ SavePools(mem, old \cup S)
      /\ activePools' = alloc /\ blockedTokens' = blockedTokens
      /\ \A p \in S : ~IneligiblePool(p)
  BY DEF SetupPools
<1>2. \A p \in Pools : p \notin S => mem[p] = disabled(p)
  OBVIOUS
<1> HIDE DEF mem
<1>3. \A p \in Pools : pools'[p] = IF p \in old \cup S THEN Stored(mem[p]) ELSE pools[p]
  BY <1>1, SavedPools
<1>4. ASSUME NEW p \in Pools, IsActivePool(pools'[p]), p \notin S
      PROVE  FALSE
  <2>1. CASE p \in old
    BY <1>2, <1>3, <1>4, <2>1, DisabledInactive
  <2>2. CASE p \notin old
    BY <1>3, <1>4, <2>2 DEF EmissionInv, EmittingPoolsListed
  <2> QED BY <2>1, <2>2
<1>5. EmittingPoolsListed'
  BY <1>1, <1>4 DEF EmittingPoolsListed
<1>6. BlockedPoolsInactive'
  BY <1>1 DEF BlockedPoolsInactive, IneligiblePool
<1> QED BY <1>1, <1>5, <1>6, SavedPools DEF EmissionInv

LEMMA SetTokensPerSecondEmissions ==
  ASSUME EmissionInv, NEW amount, SetTokensPerSecond(amount)
  PROVE  EmissionInv'
<1> DEFINE active == DOMAIN activePools
           mem == [p \in Pools |-> IF p \in active
                THEN SetInternalRewards(Loaded(p), InternalRate(amount, activePools[p], totalAlloc))
                ELSE Loaded(p)]
<1>1. /\ SavePools(mem, active)
      /\ activePools' = activePools /\ blockedTokens' = blockedTokens
  BY DEF SetTokensPerSecond
<1> HIDE DEF mem
<1>2. \A p \in Pools : pools'[p] = IF p \in active THEN Stored(mem[p]) ELSE pools[p]
  BY <1>1, SavedPools
<1> QED BY <1>1, <1>2, SavedPools DEF EmissionInv, EmittingPoolsListed, BlockedPoolsInactive

(* Pools are disabled together with their entry. *)
LEMMA DisablePoolsEmissions ==
  ASSUME EmissionInv, NEW D \in SUBSET Pools, NEW newTotal, DisablePools(D, newTotal),
         \A p \in DOMAIN activePools \ D : PairAssets[p] \cap blockedTokens' = {}
  PROVE  EmissionInv'
<1> DEFINE rest == DOMAIN activePools \ D
           mem == [p \in Pools |-> IF p \in rest
                THEN SetInternalRewards(Loaded(p), InternalRate(rewardPerSecond, activePools[p], newTotal))
                ELSE DisableInternalRewards(Loaded(p))]
<1>1. /\ SavePools(mem, DOMAIN activePools)
      /\ activePools' = [p \in rest |-> activePools[p]]
  BY DEF DisablePools
<1>2. \A p \in Pools : p \notin rest => mem[p] = DisableInternalRewards(Loaded(p))
  OBVIOUS
<1> HIDE DEF mem
<1>3. \A p \in Pools : pools'[p] = IF p \in DOMAIN activePools THEN Stored(mem[p]) ELSE pools[p]
  BY <1>1, SavedPools
<1>4. ASSUME NEW p \in Pools, IsActivePool(pools'[p])
      PROVE  p \in rest
  <2>1. CASE p \in DOMAIN activePools
    BY <1>2, <1>3, <1>4, <2>1, DisabledInactive
  <2>2. CASE p \notin DOMAIN activePools
    BY <1>3, <1>4, <2>2 DEF EmissionInv, EmittingPoolsListed
  <2> QED BY <2>1, <2>2
<1> QED BY <1>1, <1>4, SavedPools DEF EmissionInv, EmittingPoolsListed, BlockedPoolsInactive
-----------------------------------------------------------------------------
LEMMA EmissionInvInit == Init => EmissionInv
BY DEF Init, EmissionInv, EmittingPoolsListed, BlockedPoolsInactive, IsActivePool, EmptyPool, NoRewards

LEMMA EmissionInvNext == EmissionInv /\ [Next]_vars => EmissionInv'
<1> SUFFICES ASSUME EmissionInv, [Next]_vars PROVE EmissionInv'
  OBVIOUS
<1>1. ASSUME NEW d \in TimeSteps, Tick(d) PROVE EmissionInv'
  BY <1>1, KeepsEmissionInv DEF Tick, stakeVars, adminVars, EmissionInv
<1>2. ASSUME NEW u \in Users, NEW P \in SUBSET Pools, ClaimRewards(u, P) PROVE EmissionInv'
  BY <1>2, StakersKeepEmissions
<1>3. ASSUME NEW u \in Users, NEW p \in Pools, NEW a \in StakeAmounts, Deposit(u, p, a) PROVE EmissionInv'
  <2>1. a \in Int
    BY InputsAssumption
  <2> QED BY <1>3, <2>1, StakersKeepEmissions DEF Deposit
<1>4. ASSUME NEW u \in Users, NEW p \in Pools, NEW a \in StakeAmounts, Withdraw(u, p, a) PROVE EmissionInv'
  <2>1. -a \in Int
    BY InputsAssumption
  <2> QED BY <1>4, <2>1, StakersKeepEmissions DEF Withdraw
<1>5. ASSUME NEW S \in SUBSET Pools, NEW alloc \in [S -> AllocPoints], SetupPools(alloc) PROVE EmissionInv'
  BY <1>5, SetupPoolsEmissions
<1>6. ASSUME NEW a \in EmissionRates, SetTokensPerSecond(a) PROVE EmissionInv'
  BY <1>6, SetTokensPerSecondEmissions
<1>7. ASSUME DeactivateBlockedPools PROVE EmissionInv'
  <2> DEFINE D == {p \in DOMAIN activePools : PairTypeOf[p] \in blacklisted}
  <2>1. D \in SUBSET Pools
    BY DEF EmissionInv
  <2>2. DisablePools(D, totalAlloc - SumIn(D, NumPools, activePools)) /\ blockedTokens' = blockedTokens
    BY <1>7 DEF DeactivateBlockedPools
  <2> HIDE DEF D
  <2> QED BY <2>1, <2>2, DisablePoolsEmissions DEF EmissionInv, BlockedPoolsInactive
<1>8. ASSUME NEW add \in BlockBatches, NEW remove \in BlockBatches, UpdateBlockedTokenslist(add, remove)
      PROVE  EmissionInv'
  <2> DEFINE D == {p \in DOMAIN activePools : PairAssets[p] \cap add # {}}
  <2>1. D \in SUBSET Pools
    BY DEF EmissionInv
  <2>2. \A p \in DOMAIN activePools \ D : PairAssets[p] \cap blockedTokens' = {}
    BY <1>8 DEF UpdateBlockedTokenslist, EmissionInv, BlockedPoolsInactive
  <2>3. CASE D # {} /\ DisablePools(D, totalAlloc - BlockedPoints(add))
    <3> HIDE DEF D
    <3> QED BY <2>1, <2>2, <2>3, DisablePoolsEmissions
  <2>4. CASE D = {} /\ UNCHANGED <<pools, activePools>>
    BY <2>2, <2>4 DEF EmissionInv, EmittingPoolsListed, BlockedPoolsInactive
  <2> QED BY <1>8, <2>3, <2>4 DEF UpdateBlockedTokenslist
<1>9. ASSUME NEW p \in DelistedPools, Deregister(p) PROVE EmissionInv'
  <2>1. {p} \in SUBSET Pools
    BY InputsAssumption
  <2>2. CASE DisablePools({p}, totalAlloc - activePools[p])
    BY <1>9, <2>1, <2>2, DisablePoolsEmissions DEF Deregister, EmissionInv, BlockedPoolsInactive
  <2>3. CASE UNCHANGED <<pools, activePools>>
    BY <1>9, <2>3, KeepsEmissionInv DEF Deregister, EmissionInv
  <2> QED BY <1>9, <2>2, <2>3 DEF Deregister
<1>10. ASSUME NEW type \in BlacklistTypes, ToggleBlacklist(type) PROVE EmissionInv'
  BY <1>10, KeepsEmissionInv DEF ToggleBlacklist, stakeVars, adminVars, EmissionInv
<1>11. ASSUME NEW a \in TopUps, TopUp(a) PROVE EmissionInv'
  BY <1>11, KeepsEmissionInv DEF TopUp, stakeVars, adminVars, EmissionInv
<1>12. ASSUME NEW p \in Pools, NEW t \in IncentiveTokens, NEW n \in IncentivePeriods,
              NEW a \in Amounts(n), Incentivize(p, t, a, n)
       PROVE  EmissionInv'
  BY <1>12, InputsAssumption, ExternalRewardsKeepEmissions
<1>13. ASSUME NEW p \in Pools, NEW t \in IncentiveTokens, NEW b \in RemovalModes, RemoveRewardFromPool(p, t, b)
       PROVE  EmissionInv'
  BY <1>13, InputsAssumption, ExternalRewardsKeepEmissions
<1>14. ASSUME NEW limit \in OrphanLimits, ClaimOrphanedRewards(limit) PROVE EmissionInv'
  BY <1>14, KeepsEmissionInv DEF ClaimOrphanedRewards, stakeVars, adminVars, EmissionInv
<1>15. ASSUME UNCHANGED vars PROVE EmissionInv'
  BY <1>15, KeepsEmissionInv DEF vars, stakeVars, adminVars, EmissionInv
<1> QED BY <1>1, <1>2, <1>3, <1>4, <1>5, <1>6, <1>7, <1>8, <1>9, <1>10, <1>11, <1>12, <1>13, <1>14, <1>15 DEF Next

THEOREM SpecEmissionInv == Spec => []EmissionInv
BY EmissionInvInit, EmissionInvNext, PTL DEF Spec

(* A pool that emits is always in ACTIVE_POOLS, whatever is set up,        *)
(* blocked, blacklisted and deregistered in whatever order: deactivate_pool *)
(* never fails, and the factory can always deregister a pair.              *)
THEOREM EmittingPoolsAlwaysListed == Spec => []EmittingPoolsListed
<1>1. EmissionInv => EmittingPoolsListed
  BY DEF EmissionInv
<1> QED BY <1>1, SpecEmissionInv, PTL

(* No active pool ever holds a blocked token. *)
THEOREM BlockedPoolsStayInactive == Spec => []BlockedPoolsInactive
<1>1. EmissionInv => BlockedPoolsInactive
  BY DEF EmissionInv
<1> QED BY <1>1, SpecEmissionInv, PTL
-----------------------------------------------------------------------------
(***************************************************************************)
(* How much they receive.  The rates of the active pools are shares of     *)
(* reward_per_second, recomputed with every change of the points and kept  *)
(* by everything else.                                                     *)
(***************************************************************************)
HasRate(mem, r) == Internal \in DOMAIN mem.rewards /\ mem.rewards[Internal].rps = r

RatesShared ==
  \A p \in DOMAIN activePools :
     /\ activePools[p] > 0
     /\ HasRate(pools[p], InternalRate(rewardPerSecond, activePools[p], totalAlloc))

(* What every step does about the points. *)
AllocStep == RatesShared' /\ KeepsPoints

LEMMA UpdateKeepsRate ==
  ASSUME NEW p, NEW r, HasRate(pools[p], r)
  PROVE  HasRate(Loaded(p), r)
<1> DEFINE mem == Load(pools[p])
           sched == schedules[p]
<1>1. HasRate(mem, r)
  BY DEF HasRate, Load
<1>2. CASE now <= mem.last_update_ts
  BY <1>1, <1>2 DEF Loaded, UpdateRewards
<1>3. CASE ~(now <= mem.last_update_ts)
  <2> DEFINE old == mem.rewards
             new == [k \in DOMAIN old |->
                UpdateReward(old[k], k, IF k = Internal THEN NoSchedules ELSE sched[k],
                             mem.total_lp, mem.last_update_ts, now)]
             done == {k \in DOMAIN old : k # Internal /\ Finishes(old[k], k, sched[k], now)}
  <2>1. Loaded(p).rewards = [k \in DOMAIN old \ done |-> new[k]]
    BY <1>3 DEF Loaded, UpdateRewards, Load
  <2>2. Internal \in DOMAIN Loaded(p).rewards /\ Loaded(p).rewards[Internal].rps = old[Internal].rps
    BY <1>1, <2>1, InternalNeverEnds DEF HasRate
  <2> QED BY <1>1, <2>2 DEF HasRate
<1> QED BY <1>2, <1>3

LEMMA SetInternalRewardsRate ==
  ASSUME NEW mem, NEW total, NEW last, NEW rewards, NEW gone, NEW claim, NEW r,
         mem = [total_lp |-> total, last_update_ts |-> last, rewards |-> rewards,
                rewards_to_remove |-> gone, orphaned_to_claim |-> claim],
         Internal \in DOMAIN rewards => rewards[Internal] \in RewardInfo
  PROVE  HasRate(Stored(SetInternalRewards(mem, r)), r)
<1> DEFINE info == IF Internal \in DOMAIN rewards THEN [rewards[Internal] EXCEPT !.rps = r]
                   ELSE [rps |-> r, index |-> 0, orphaned |-> 0, next_update_ts |-> 0]
<1>1. info.rps = r
  BY DEF RewardInfo
<1>2. SetInternalRewards(mem, r).rewards = Set(rewards, Internal, info)
  BY DEF SetInternalRewards
<1> HIDE DEF info
<1>3. Internal \in DOMAIN Set(rewards, Internal, info) /\ Set(rewards, Internal, info)[Internal] = info
  BY DEF Set
<1> QED BY <1>1, <1>2, <1>3 DEF HasRate, Stored

(* What a pool in memory that is given a rate stores. *)
LEMMA GivenRate ==
  ASSUME IInv, NEW mem, MemOK(mem, now), NEW r
  PROVE  HasRate(Stored(SetInternalRewards(mem, r)), r)
<1>1. Internal \in DOMAIN mem.rewards => mem.rewards[Internal] \in RewardInfo
  BY DEF MemOK
<1>2. mem = [total_lp |-> mem.total_lp, last_update_ts |-> mem.last_update_ts, rewards |-> mem.rewards,
             rewards_to_remove |-> mem.rewards_to_remove, orphaned_to_claim |-> mem.orphaned_to_claim]
  BY DEF MemOK
<1> QED BY <1>1, <1>2, SetInternalRewardsRate

(* Pools that keep their rate, and the points as they were. *)
LEMMA UnchangedRates ==
  ASSUME RatesShared,
         \A p \in DOMAIN activePools : \A r : HasRate(pools[p], r) => HasRate(pools'[p], r),
         activePools' = activePools, totalAlloc' = totalAlloc, rewardPerSecond' = rewardPerSecond
  PROVE  AllocStep
BY DEF AllocStep, RatesShared, KeepsPoints, PointsSet, PointsAddUp

LEMMA StakersKeepRates ==
  ASSUME IInv, RatesShared, NEW u \in Users
  PROVE  /\ \A P \in SUBSET Pools : ClaimRewards(u, P) => AllocStep
         /\ \A p \in Pools, delta \in Int : Restake(u, p, delta) => AllocStep
<1>0. DOMAIN activePools \subseteq Pools
  BY DEF IInv, AdminInv
<1>1. ASSUME NEW P \in SUBSET Pools, ClaimRewards(u, P)
      PROVE  AllocStep
  <2> DEFINE mem == [p \in Pools |-> Loaded(p)]
  <2>1. SavePools(mem, P) /\ UNCHANGED adminVars
    BY <1>1 DEF ClaimRewards
  <2> HIDE DEF mem
  <2>2. \A p \in Pools : pools'[p] = IF p \in P THEN Stored(mem[p]) ELSE pools[p]
    BY <2>1, SavedPools
  <2>3. ASSUME NEW p \in Pools, NEW r, HasRate(pools[p], r)
        PROVE  HasRate(pools'[p], r)
    <3>1. HasRate(Loaded(p), r)
      BY <2>3, UpdateKeepsRate
    <3>2. HasRate(Stored(mem[p]), r)
      BY <3>1 DEF HasRate, Stored, mem
    <3> QED BY <2>2, <2>3, <3>2
  <2> QED BY <1>0, <2>1, <2>3, UnchangedRates DEF adminVars
<1>2. ASSUME NEW p \in Pools, NEW delta \in Int, Restake(u, p, delta)
      PROVE  AllocStep
  <2> DEFINE mem == [q \in Pools |-> Loaded(q)]
             restaked == [mem EXCEPT ![p].total_lp = @ + delta]
  <2>1. SavePools(restaked, {p}) /\ UNCHANGED adminVars
    BY <1>2 DEF Restake
  <2>2. PICK total : restaked[p] = [Loaded(p) EXCEPT !.total_lp = total]
    OBVIOUS
  <2> HIDE DEF restaked
  <2>3. \A q \in Pools : pools'[q] = IF q = p THEN Stored(restaked[p]) ELSE pools[q]
    BY <2>1, SavedPools
  <2>4. Stored(restaked[p]).rewards = Loaded(p).rewards
    BY <2>2, LoadedFields DEF Stored
  <2>5. \A q \in Pools : \A r : HasRate(pools[q], r) => HasRate(pools'[q], r)
    BY <2>3, <2>4, UpdateKeepsRate DEF HasRate
  <2> QED BY <1>0, <2>1, <2>5, UnchangedRates DEF adminVars
<1> QED BY <1>1, <1>2

LEMMA ExternalRewardsKeepRates ==
  ASSUME IInv, RatesShared, NEW p \in Pools, NEW t \in Tokens
  PROVE  /\ \A amount, periods : Incentivize(p, t, amount, periods) => AllocStep
         /\ \A bypass : RemoveRewardFromPool(p, t, bypass) => AllocStep
<1>0. DOMAIN activePools \subseteq Pools /\ t # Internal
  BY DEF IInv, AdminInv, Tokens, Internal
<1>1. ASSUME NEW amount, NEW periods, Incentivize(p, t, amount, periods)
      PROVE  AllocStep
  <2> DEFINE mem == [q \in Pools |-> Loaded(q)]
             rate == ScheduleRate(amount, now, periods)
             end == EndTs(now, periods)
             funded == [mem EXCEPT ![p] = IncentivizeReward(@, t, rate, end)]
  <2>1. SavePools(funded, {p}) /\ UNCHANGED adminVars
    BY <1>1 DEF Incentivize
  <2>2. funded[p] = IncentivizeReward(Loaded(p), t, rate, end)
    OBVIOUS
  <2> HIDE DEF funded, rate, end
  <2>3. \A q \in Pools : pools'[q] = IF q = p THEN Stored(funded[p]) ELSE pools[q]
    BY <2>1, SavedPools
  <2>4. \A r : HasRate(Loaded(p), r) => HasRate(Stored(funded[p]), r)
    BY <1>0, <2>2, LoadedFields DEF HasRate, Stored, IncentivizeReward, Set
  <2>5. \A q \in Pools : \A r : HasRate(pools[q], r) => HasRate(pools'[q], r)
    BY <2>3, <2>4, UpdateKeepsRate
  <2> QED BY <1>0, <2>1, <2>5, UnchangedRates DEF adminVars
<1>2. ASSUME NEW bypass, RemoveRewardFromPool(p, t, bypass)
      PROVE  AllocStep
  <2> DEFINE mem == [q \in Pools |-> Loaded(q)]
             removed == [mem EXCEPT ![p] = DeregisterReward(@, t)]
  <2>1. SavePools(removed, {p}) /\ UNCHANGED adminVars
    BY <1>2 DEF RemoveRewardFromPool
  <2>2. removed[p] = DeregisterReward(Loaded(p), t)
    OBVIOUS
  <2> HIDE DEF removed
  <2>3. \A q \in Pools : pools'[q] = IF q = p THEN Stored(removed[p]) ELSE pools[q]
    BY <2>1, SavedPools
  <2>4. \A r : HasRate(Loaded(p), r) => HasRate(Stored(removed[p]), r)
    BY <1>0, <2>2, LoadedFields DEF HasRate, Stored, DeregisterReward, Drop
  <2>5. \A q \in Pools : \A r : HasRate(pools[q], r) => HasRate(pools'[q], r)
    BY <2>3, <2>4, UpdateKeepsRate
  <2> QED BY <1>0, <2>1, <2>5, UnchangedRates DEF adminVars
<1> QED BY <1>1, <1>2
-----------------------------------------------------------------------------
(* The handlers that share out the rate anew. *)
LEMMA SetupPoolsRates ==
  ASSUME IInv, NEW S \in SUBSET Pools, NEW alloc \in [S -> AllocPoints], SetupPools(alloc)
  PROVE  AllocStep
<1> DEFINE old == DOMAIN activePools
           disabled(p) == IF p \in old THEN DisableInternalRewards(Loaded(p)) ELSE Loaded(p)
           mem == [p \in Pools |-> IF p \in S
                     THEN SetInternalRewards(disabled(p), InternalRate(rewardPerSecond, alloc[p], AllocSum(alloc)))
                     ELSE disabled(p)]
<1>1. /\ SavePools(mem, old \cup S)
      /\ activePools' = alloc /\ totalAlloc' = AllocSum(alloc) /\ rewardPerSecond' = rewardPerSecond
  BY DEF SetupPools
<1>2. \A p \in S : mem[p] = SetInternalRewards(disabled(p), InternalRate(rewardPerSecond, alloc[p], AllocSum(alloc)))
  OBVIOUS
<1> HIDE DEF mem
<1>3. \A p \in S : pools'[p] = Stored(mem[p])
  BY <1>1, SavedPools
<1>4. ASSUME NEW p \in S
      PROVE  alloc[p] > 0 /\ HasRate(pools'[p], InternalRate(rewardPerSecond, alloc[p], AllocSum(alloc)))
  <2>1. MemOK(disabled(p), now)
    BY LoadedOK, NowNat, DisableInternalRewardsOK
  <2> HIDE DEF disabled
  <2>2. HasRate(pools'[p], InternalRate(rewardPerSecond, alloc[p], AllocSum(alloc)))
    BY <1>2, <1>3, <2>1, GivenRate
  <2>3. alloc[p] \in AllocPoints
    OBVIOUS
  <2> DEFINE a == alloc[p]
  <2>4. a \in Nat \ {0}
    BY <2>3, InputsAssumption
  <2> HIDE DEF a
  <2>5. a > 0
    BY <2>4
  <2> QED BY <2>2, <2>5 DEF a
<1> QED BY <1>1, <1>4 DEF AllocStep, RatesShared, KeepsPoints, PointsSet, PointsAddUp

LEMMA SetTokensPerSecondRates ==
  ASSUME IInv, RatesShared, NEW amount, SetTokensPerSecond(amount)
  PROVE  AllocStep
<1> DEFINE active == DOMAIN activePools
           mem == [p \in Pools |-> IF p \in active
                THEN SetInternalRewards(Loaded(p), InternalRate(amount, activePools[p], totalAlloc))
                ELSE Loaded(p)]
<1>0. active \subseteq Pools
  BY DEF IInv, AdminInv
<1>1. /\ SavePools(mem, active)
      /\ activePools' = activePools /\ totalAlloc' = totalAlloc /\ rewardPerSecond' = amount
  BY DEF SetTokensPerSecond
<1>2. \A p \in active : mem[p] = SetInternalRewards(Loaded(p), InternalRate(amount, activePools[p], totalAlloc))
  BY <1>0
<1> HIDE DEF mem
<1>3. \A p \in active : pools'[p] = Stored(mem[p])
  BY <1>0, <1>1, SavedPools
<1>4. \A p \in active : HasRate(pools'[p], InternalRate(amount, activePools[p], totalAlloc))
  BY <1>0, <1>2, <1>3, LoadedOK, GivenRate
<1> QED BY <1>1, <1>4 DEF AllocStep, RatesShared, KeepsPoints, PointsSet, PointsAddUp

(* The points that are left are those of the pools that are left. *)
LEMMA DisablePoolsRates ==
  ASSUME IInv, RatesShared, NEW D \in SUBSET DOMAIN activePools, NEW newTotal,
         DisablePools(D, newTotal), rewardPerSecond' = rewardPerSecond,
         ~BlocksSeveral => newTotal = totalAlloc - SumIn(D, NumPools, activePools)
  PROVE  AllocStep
<1> DEFINE active == DOMAIN activePools
           rest == active \ D
           mem == [p \in Pools |-> IF p \in rest
                THEN SetInternalRewards(Loaded(p), InternalRate(rewardPerSecond, activePools[p], newTotal))
                ELSE DisableInternalRewards(Loaded(p))]
<1>0. active \subseteq Pools /\ \A p \in active : activePools[p] \in Nat
  BY DEF IInv, AdminInv
<1>1. /\ SavePools(mem, active)
      /\ activePools' = [p \in rest |-> activePools[p]] /\ totalAlloc' = newTotal
  BY DEF DisablePools
<1>2. \A p \in rest : mem[p] = SetInternalRewards(Loaded(p), InternalRate(rewardPerSecond, activePools[p], newTotal))
  BY <1>0
<1> HIDE DEF mem
<1>3. \A p \in rest : pools'[p] = Stored(mem[p])
  BY <1>0, <1>1, SavedPools
<1>4. \A p \in rest : HasRate(pools'[p], InternalRate(rewardPerSecond, activePools[p], newTotal))
  BY <1>0, <1>2, <1>3, LoadedOK, GivenRate
<1>5. ASSUME PointsAddUp, ~BlocksSeveral PROVE newTotal = AllocSum(activePools')
  <2>1. SumIn(active, NumPools, activePools) = SumIn(rest, NumPools, activePools) + SumIn(D, NumPools, activePools)
    <3>1. \A p \in 1..NumPools : p \in active => activePools[p] \in Int
      BY <1>0
    <3> QED BY <3>1, NumPoolsAssumption, SumInSplit
  <2>2. SumIn(rest, NumPools, activePools') = SumIn(rest, NumPools, activePools)
    <3>1. \A p \in 1..NumPools : p \in rest => activePools[p] \in Int /\ activePools'[p] = activePools[p]
      BY <1>0, <1>1
    <3> HIDE DEF rest
    <3> QED BY <3>1, NumPoolsAssumption, SumInSame
  <2>3. DOMAIN activePools' = rest
    BY <1>1
  <2>4. SumIn(rest, NumPools, activePools) \in Nat /\ SumIn(D, NumPools, activePools) \in Nat
    BY PointsOfNat
  <2>5. totalAlloc = SumIn(active, NumPools, activePools)
    BY <1>5 DEF PointsAddUp, AllocSum
  <2> HIDE DEF active, rest
  <2> QED BY <1>5, <2>1, <2>2, <2>3, <2>4, <2>5 DEF AllocSum
<1>6. ~PointsSet
  BY <1>1 DEF PointsSet
<1>7. RatesShared'
  <2>1. \A p \in rest : activePools[p] > 0
    BY DEF RatesShared
  <2> HIDE DEF active
  <2> QED BY <1>1, <1>4, <2>1 DEF RatesShared
<1>8. KeepsPoints
  BY <1>1, <1>5, <1>6 DEF KeepsPoints, PointsAddUp
<1> QED BY <1>7, <1>8 DEF AllocStep

(* With one asset of each active pool in the batch at most, the points     *)
(* subtracted are those of the pools it disables.                          *)
LEMMA BlockedPointsOnce ==
  ASSUME IInv, NEW add, \A p \in DOMAIN activePools : Cardinality(PairAssets[p] \cap add) <= 1
  PROVE  BlockedPoints(add) = SumIn({p \in DOMAIN activePools : PairAssets[p] \cap add # {}}, NumPools, activePools)
<1> DEFINE active == DOMAIN activePools
           D == {p \in active : PairAssets[p] \cap add # {}}
           f == [p \in Pools |-> activePools[p] * Cardinality(PairAssets[p] \cap add)]
           a == [p \in 1..NumPools |-> IF p \in D THEN activePools[p] ELSE 0]
           b == [p \in 1..NumPools |-> IF p \in active THEN f[p] ELSE 0]
<1>1. ASSUME NEW p \in 1..NumPools
      PROVE  a[p] \in Int /\ b[p] = a[p]
  <2> DEFINE both == PairAssets[p] \cap add
  <2>1. IsFiniteSet(both)
    BY PairAssetsAssumption, FS_Subset DEF Pools
  <2>3. CASE p \notin active
    BY <2>3
  <2>4. CASE p \in active
    <3>5. Cardinality(both) <= 1
      BY <2>4
    <3>6. Cardinality(both) = IF both = {} THEN 0 ELSE 1
      BY <2>1, <3>5, FS_CardinalityType, FS_EmptySet
    <3>1. activePools[p] \in Nat
      BY <2>4 DEF IInv, AdminInv
    <3>2. b[p] = activePools[p] * Cardinality(both)
      BY <2>4 DEF Pools
    <3>3. p \in D <=> both # {}
      BY <2>4
    <3>4. a[p] = IF both # {} THEN activePools[p] ELSE 0
      BY <3>3
    <3> HIDE DEF both, a, b
    <3> QED BY <3>6, <3>1, <3>2, <3>4
  <2> QED BY <2>3, <2>4
<1> HIDE DEF a, b, f, D
<1>2. SumTo(NumPools, b) = SumTo(NumPools, a)
  BY <1>1, NumPoolsAssumption, SumToSame
<1> QED BY <1>2 DEF BlockedPoints, SumIn, a, b, f, D
-----------------------------------------------------------------------------
LEMMA AllocInit == Init => RatesShared /\ PointsAddUp
<1> SUFFICES ASSUME Init PROVE RatesShared /\ PointsAddUp
  OBVIOUS
<1>1. activePools = [p \in {} |-> 0] /\ totalAlloc = 0
  BY DEF Init
<1>2. AllocSum(activePools) = 0
  <2> DEFINE a == [p \in 1..NumPools |-> IF p \in DOMAIN activePools THEN activePools[p] ELSE 0]
  <2>1. a = [p \in 1..NumPools |-> 0]
    BY <1>1
  <2>2. AllocSum(activePools) = SumTo(NumPools, a)
    BY DEF AllocSum, SumIn
  <2> QED BY <2>1, <2>2, NumPoolsAssumption, SumToZero
<1> QED BY <1>1, <1>2 DEF RatesShared, PointsAddUp

LEMMA AllocNext == IInv /\ RatesShared /\ [Next]_vars => AllocStep
<1> SUFFICES ASSUME IInv, RatesShared, [Next]_vars PROVE AllocStep
  OBVIOUS
<1>1. ASSUME NEW d \in TimeSteps, Tick(d) PROVE AllocStep
  BY <1>1, UnchangedRates DEF Tick, stakeVars, adminVars
<1>2. ASSUME NEW u \in Users, NEW P \in SUBSET Pools, ClaimRewards(u, P) PROVE AllocStep
  BY <1>2, StakersKeepRates
<1>3. ASSUME NEW u \in Users, NEW p \in Pools, NEW a \in StakeAmounts, Deposit(u, p, a) PROVE AllocStep
  <2>1. a \in Int
    BY InputsAssumption
  <2> QED BY <1>3, <2>1, StakersKeepRates DEF Deposit
<1>4. ASSUME NEW u \in Users, NEW p \in Pools, NEW a \in StakeAmounts, Withdraw(u, p, a) PROVE AllocStep
  <2>1. -a \in Int
    BY InputsAssumption
  <2> QED BY <1>4, <2>1, StakersKeepRates DEF Withdraw
<1>5. ASSUME NEW S \in SUBSET Pools, NEW alloc \in [S -> AllocPoints], SetupPools(alloc) PROVE AllocStep
  BY <1>5, SetupPoolsRates
<1>6. ASSUME NEW a \in EmissionRates, SetTokensPerSecond(a) PROVE AllocStep
  BY <1>6, SetTokensPerSecondRates
<1>7. ASSUME DeactivateBlockedPools PROVE AllocStep
  <2> DEFINE D == {p \in DOMAIN activePools : PairTypeOf[p] \in blacklisted}
  <2>1. /\ DisablePools(D, totalAlloc - SumIn(D, NumPools, activePools))
        /\ rewardPerSecond' = rewardPerSecond
    BY <1>7 DEF DeactivateBlockedPools
  <2>2. D \in SUBSET DOMAIN activePools
    OBVIOUS
  <2> HIDE DEF D
  <2> DEFINE newTotal == totalAlloc - SumIn(D, NumPools, activePools)
  <2>3. DisablePools(D, newTotal) /\ newTotal = totalAlloc - SumIn(D, NumPools, activePools)
    BY <2>1
  <2> HIDE DEF newTotal
  <2> QED BY <2>1, <2>2, <2>3, DisablePoolsRates
<1>8. ASSUME NEW add \in BlockBatches, NEW remove \in BlockBatches, UpdateBlockedTokenslist(add, remove)
      PROVE  AllocStep
  <2> DEFINE D == {p \in DOMAIN activePools : PairAssets[p] \cap add # {}}
             newTotal == totalAlloc - BlockedPoints(add)
  <2>1. ASSUME ~BlocksSeveral PROVE newTotal = totalAlloc - SumIn(D, NumPools, activePools)
    <3>1. blockedTokens' \ blockedTokens = add
      BY <1>8 DEF UpdateBlockedTokenslist
    <3>2. \A p \in DOMAIN activePools : Cardinality(PairAssets[p] \cap add) \in Nat
      BY PairAssetsAssumption, FS_Subset, FS_CardinalityType DEF IInv, AdminInv
    <3>3. ASSUME NEW p \in DOMAIN activePools PROVE Cardinality(PairAssets[p] \cap add) <= 1
      <4> DEFINE c == Cardinality(PairAssets[p] \cap add)
      <4>1. c \in Nat /\ ~(c > 1)
        BY <2>1, <3>1, <3>2 DEF BlocksSeveral
      <4> HIDE DEF c
      <4>2. c <= 1
        BY <4>1
      <4> QED BY <4>2 DEF c
    <3> QED BY <3>3, BlockedPointsOnce
  <2>2. D \in SUBSET DOMAIN activePools
    OBVIOUS
  <2>3. /\ DisablePools(D, newTotal) \/ UNCHANGED <<pools, activePools, totalAlloc>>
        /\ rewardPerSecond' = rewardPerSecond
    BY <1>8 DEF UpdateBlockedTokenslist
  <2> HIDE DEF D, newTotal
  <2> QED BY <2>1, <2>2, <2>3, DisablePoolsRates, UnchangedRates
<1>9. ASSUME NEW p \in DelistedPools, Deregister(p) PROVE AllocStep
  <2>1. rewardPerSecond' = rewardPerSecond
    BY <1>9 DEF Deregister
  <2>2. CASE p \in DOMAIN activePools /\ DisablePools({p}, totalAlloc - activePools[p])
    <3>1. p \in 1..NumPools /\ activePools[p] \in Int
      BY <2>2 DEF IInv, AdminInv, Pools
    <3>2. activePools[p] = SumIn({p}, NumPools, activePools)
      BY <3>1, NumPoolsAssumption, SumInOne
    <3>3. {p} \in SUBSET DOMAIN activePools
      BY <2>2
    <3> DEFINE newTotal == totalAlloc - activePools[p]
    <3>4. DisablePools({p}, newTotal) /\ newTotal = totalAlloc - SumIn({p}, NumPools, activePools)
      BY <2>2, <3>2
    <3> HIDE DEF newTotal
    <3> QED BY <2>1, <3>3, <3>4, DisablePoolsRates
  <2>3. CASE UNCHANGED <<pools, activePools, totalAlloc>>
    BY <2>1, <2>3, UnchangedRates
  <2> QED BY <1>9, <2>2, <2>3 DEF Deregister
<1>10. ASSUME NEW type \in BlacklistTypes, ToggleBlacklist(type) PROVE AllocStep
  BY <1>10, UnchangedRates DEF ToggleBlacklist, stakeVars, adminVars
<1>11. ASSUME NEW a \in TopUps, TopUp(a) PROVE AllocStep
  BY <1>11, UnchangedRates DEF TopUp, stakeVars, adminVars
<1>12. ASSUME NEW p \in Pools, NEW t \in IncentiveTokens, NEW n \in IncentivePeriods,
              NEW a \in Amounts(n), Incentivize(p, t, a, n)
       PROVE  AllocStep
  BY <1>12, InputsAssumption, ExternalRewardsKeepRates
<1>13. ASSUME NEW p \in Pools, NEW t \in IncentiveTokens, NEW b \in RemovalModes, RemoveRewardFromPool(p, t, b)
       PROVE  AllocStep
  BY <1>13, InputsAssumption, ExternalRewardsKeepRates
<1>14. ASSUME NEW limit \in OrphanLimits, ClaimOrphanedRewards(limit) PROVE AllocStep
  BY <1>14, UnchangedRates DEF ClaimOrphanedRewards, stakeVars, adminVars
<1>15. ASSUME UNCHANGED vars PROVE AllocStep
  BY <1>15, UnchangedRates DEF vars, stakeVars, adminVars
<1> QED BY <1>1, <1>2, <1>3, <1>4, <1>5, <1>6, <1>7, <1>8, <1>9, <1>10, <1>11, <1>12, <1>13, <1>14, <1>15 DEF Next

LEMMA RatesAlwaysShared == Spec => []RatesShared
<1>1. IInv /\ RatesShared /\ [Next]_vars => RatesShared'
  BY AllocNext DEF AllocStep
<1>2. Spec => []IInv
  BY SpecInv
<1> QED BY <1>1, <1>2, AllocInit, PTL DEF Spec

(* Shares of reward_per_second, rounded down, are together no more.        *)
LEMMA SharedRatesWithin ==
  ASSUME IInv, EmissionInv, RatesShared
  PROVE  EmissionWithinRate
<1> SUFFICES ASSUME PointsAddUp PROVE EmissionWithinRate
  BY DEF EmissionWithinRate
<1> DEFINE rate(p) == IF Internal \in DOMAIN pools[p].rewards THEN pools[p].rewards[Internal].rps ELSE 0
           h == [p \in Pools |-> rate(p)]
           f == [p \in 1..NumPools |-> IF p \in DOMAIN activePools THEN activePools[p] ELSE 0]
           c == rewardPerSecond * Scale
<1>1. \A p \in 1..NumPools : f[p] \in Nat
  BY DEF IInv, AdminInv
<1>2. totalAlloc = SumTo(NumPools, f)
  BY DEF PointsAddUp, AllocSum, SumIn
<1>3. totalAlloc \in Nat /\ rewardPerSecond \in Nat /\ c \in Nat
  BY ScaleAssumption DEF IInv, AdminInv
<1>4. \A p \in Pools \ DOMAIN activePools : h[p] = 0 /\ f[p] = 0
  BY DEF EmissionInv, EmittingPoolsListed, IsActivePool, Pools
<1>5. \A p \in DOMAIN activePools : /\ p \in Pools /\ activePools[p] \in Nat /\ f[p] = activePools[p] /\ f[p] > 0
                                    /\ h[p] = InternalRate(rewardPerSecond, activePools[p], totalAlloc)
  BY DEF IInv, AdminInv, RatesShared, RatesShared, HasRate, Pools
<1> HIDE DEF f, h
<1>6. SumTo(NumPools, h) <= c
  <2>1. CASE totalAlloc = 0
    <3>1. \A p \in Pools : p \notin DOMAIN activePools
      <4> SUFFICES ASSUME NEW p \in DOMAIN activePools PROVE FALSE
        OBVIOUS
      <4>1. f[p] <= SumTo(NumPools, f)
        BY <1>1, <1>5, NumPoolsAssumption, SumToTerm DEF Pools
      <4> QED BY <1>2, <1>5, <2>1, <4>1
    <3> DEFINE z == [p \in 1..NumPools |-> 0]
    <3>2. \A p \in 1..NumPools : z[p] \in Int /\ h[p] = z[p]
      BY <1>4, <3>1 DEF Pools
    <3>3. SumTo(NumPools, z) = 0
      BY NumPoolsAssumption, SumToZero
    <3> HIDE DEF z
    <3>4. SumTo(NumPools, h) = 0
      BY <3>2, <3>3, NumPoolsAssumption, SumToSame
    <3> QED BY <1>3, <3>4
  <2>2. CASE totalAlloc > 0
    <3>1. ASSUME NEW p \in 1..NumPools PROVE h[p] = (c * f[p]) \div SumTo(NumPools, f)
      <4>1. CASE p \in DOMAIN activePools
        <5>1. h[p] = (rewardPerSecond * f[p] * Scale) \div totalAlloc
          BY <1>5, <4>1 DEF InternalRate
        <5>2. rewardPerSecond * f[p] * Scale = c * f[p]
          BY <1>1, <1>3, ScaleAssumption
        <5> QED BY <1>2, <5>1, <5>2
      <4>2. CASE p \notin DOMAIN activePools
        <5>1. h[p] = 0 /\ f[p] = 0
          BY <1>4, <4>2 DEF Pools
        <5>2. c * f[p] = 0
          BY <1>3, <5>1
        <5>3. 0 \div totalAlloc = 0
          BY <1>3, <2>2
        <5> QED BY <1>2, <5>1, <5>2, <5>3
      <4> QED BY <4>1, <4>2
    <3> HIDE DEF c
    <3> QED BY <1>1, <1>2, <1>3, <2>2, <3>1, NumPoolsAssumption, SharesWithin
  <2> QED BY <1>3, <2>1, <2>2
<1> QED BY <1>6 DEF EmissionWithinRate, h

(* For every batch of blocked tokens too: total_alloc_points is the sum of *)
(* the points of the active pools until a message blocks several tokens of *)
(* one of them, and again once points are set (setup_pools and the three   *)
(* handlers that disable pools, utils.rs and execute.rs).                  *)
THEOREM AllocPointsAlwaysAddUp == Spec => AllocPointsAddUp
<1>1. IInv /\ RatesShared /\ [Next]_vars => [KeepsPoints]_vars
  BY AllocNext DEF AllocStep
<1>2. Init => PointsAddUp
  BY AllocInit
<1> QED BY <1>1, <1>2, RatesAlwaysShared, SpecInv, PTL DEF Spec, AllocPointsAddUp

(* Whenever they add up, the pools together receive no more than           *)
(* reward_per_second, however the rates were rounded and shared out anew.  *)
THEOREM EmissionAlwaysWithinRate == Spec => []EmissionWithinRate
<1>1. IInv /\ EmissionInv /\ RatesShared => EmissionWithinRate
  BY SharedRatesWithin
<1> QED BY <1>1, RatesAlwaysShared, SpecInv, SpecEmissionInv, PTL
-----------------------------------------------------------------------------
(***************************************************************************)
(* A position can always be left, for every number of stakers and rewards  *)
(* that start, end, are removed and return, if the owner is careful.       *)
(***************************************************************************)

(* The index at which a position was synced is not beyond the one at which *)
(* its claim begins: that of the first entry after the claim before, or    *)
(* that of the reward if there is none.                                    *)
Covered(user, entries, rewards) ==
  \A t \in Tokens :
    LET out == Outstanding(user, entries, t)
    IN  user.last_rewards_index[t] <= (IF out # {} THEN entries[Min(out)][t]
                                      ELSE IF t \in DOMAIN rewards THEN rewards[t].index ELSE 0)

NoIndexes(user) == \A t \in Tokens : user.last_rewards_index[t] = 0

ExitInv ==
  \A p \in Pools, u \in Users :
    /\ users[p][u].amount = 0 => NoIndexes(users[p][u])
    /\ Covered(users[p][u], finished[p], pools[p].rewards)

(* A pool in memory has the rewards of the stored one, as far as it got or *)
(* further, or is about to remove them.                                    *)
GoesOn(mem, pool) ==
  \A t \in Tokens \cap DOMAIN pool.rewards :
    IF t \in DOMAIN mem.rewards_to_remove
    THEN /\ pool.rewards[t].index <= mem.rewards_to_remove[t].index
         /\ pool.total_lp > 0 => mem.rewards_to_remove[t].orphaned = 0
    ELSE t \in DOMAIN mem.rewards /\ pool.rewards[t].index <= mem.rewards[t].index

(* Nothing was written about the pool in this second. *)
Unwritten(p) ==
  /\ finished[p][now] = NoneFinished
  /\ \A u \in Users : users[p][u].last_claim_time < now

LEMMA IndexGrows ==
  ASSUME NEW r \in RewardInfo, NEW k \in Keys, NEW S \in Schedules, NEW total \in Nat,
         NEW last \in Nat, NEW t \in Nat, last <= t,
         k # Internal => r.next_update_ts > last
  PROVE  /\ r.index <= UpdateReward(r, k, S, total, last, t).index
         /\ total > 0 => UpdateReward(r, k, S, total, last, t).orphaned = 0
<1> DEFINE collected == Collected(r, k, S, last, t)
           next == UpdateReward(r, k, S, total, last, t)
<1>1. collected \in Nat
  BY CollectedNat
<1>2. r.index \in Nat
  BY DEF RewardInfo
<1>3. /\ next.index = IF total = 0 THEN r.index ELSE r.index + (collected \div total)
      /\ next.orphaned = IF total = 0 THEN r.orphaned + collected ELSE 0
  BY DEF UpdateReward
<1> HIDE DEF collected, next
<1>4. total # 0 => collected \div total \in Nat
  BY <1>1, DivNat
<1>5. r.index <= next.index
  BY <1>2, <1>3, <1>4
<1>6. total > 0 => next.orphaned = 0
  BY <1>3
<1> QED BY <1>5, <1>6 DEF next

LEMMA UpdateGoesOn ==
  ASSUME NEW t \in Nat, NEW pool, PoolOKBy(pool, t), NEW sched \in [Tokens -> Schedules]
  PROVE  LET up == UpdateRewards(Load(pool), sched, t)
         IN  /\ GoesOn(up, pool)
             /\ DOMAIN up.rewards \cap DOMAIN up.rewards_to_remove = {}
             /\ DOMAIN up.rewards_to_remove # {} => pool.last_update_ts < t
<1> DEFINE mem == Load(pool)
           up == UpdateRewards(mem, sched, t)
           old == mem.rewards
           S(k) == IF k = Internal THEN NoSchedules ELSE sched[k]
           new == [k \in DOMAIN old |-> UpdateReward(old[k], k, S(k), mem.total_lp, mem.last_update_ts, t)]
           done == {k \in DOMAIN old : k # Internal /\ Finishes(old[k], k, sched[k], t)}
           removed == [k \in done |-> [index |-> new[k].index, orphaned |-> new[k].orphaned]]
<1>1. /\ mem.total_lp = pool.total_lp /\ mem.last_update_ts = pool.last_update_ts
      /\ mem.rewards = pool.rewards /\ DOMAIN mem.rewards_to_remove = {}
  BY DEF Load, NoRewards
<1>2. /\ pool.last_update_ts \in Nat /\ pool.last_update_ts <= t /\ pool.total_lp \in Nat
      /\ \A k \in DOMAIN old : k \in Keys /\ old[k] \in RewardInfo /\ S(k) \in Schedules
      /\ \A k \in DOMAIN old : k # Internal => old[k].next_update_ts > pool.last_update_ts
  BY <1>1 DEF PoolOKBy, Keys, NoSchedules, Schedules
<1>3. CASE t <= mem.last_update_ts
  <2>1. up = mem
    BY <1>3 DEF UpdateRewards
  <2>2. \A k \in DOMAIN pool.rewards : pool.rewards[k].index <= pool.rewards[k].index
    BY <1>1, <1>2 DEF RewardInfo
  <2> QED BY <1>1, <2>1, <2>2 DEF GoesOn
<1>4. CASE ~(t <= mem.last_update_ts)
  <2>1. up.rewards = [k \in DOMAIN old \ done |-> new[k]] /\ up.rewards_to_remove = removed
    BY <1>4 DEF UpdateRewards, Load
  <2>2. \A k \in DOMAIN old : /\ old[k].index <= new[k].index
                              /\ pool.total_lp > 0 => new[k].orphaned = 0
    <3> SUFFICES ASSUME NEW k \in DOMAIN old
                 PROVE  old[k].index <= new[k].index /\ (pool.total_lp > 0 => new[k].orphaned = 0)
      OBVIOUS
    <3>1. new[k] = UpdateReward(old[k], k, S(k), pool.total_lp, pool.last_update_ts, t)
      BY <1>1
    <3> HIDE DEF new, S
    <3> QED BY <1>2, <3>1, IndexGrows
  <2>3. pool.last_update_ts < t
    BY <1>1, <1>2, <1>4
  <2> HIDE DEF new, done, up
  <2>4. GoesOn(up, pool)
    BY <1>1, <2>1, <2>2 DEF GoesOn
  <2> QED BY <2>1, <2>3, <2>4 DEF up
<1> QED BY <1>3, <1>4

LEMMA LoadedGoesOn ==
  ASSUME IInv, NEW p \in Pools
  PROVE  /\ GoesOn(Loaded(p), pools[p])
         /\ DOMAIN Loaded(p).rewards \cap DOMAIN Loaded(p).rewards_to_remove = {}
         /\ DOMAIN Loaded(p).rewards_to_remove # {} => Unwritten(p)
<1>1. PoolOKBy(pools[p], now) /\ schedules[p] \in [Tokens -> Schedules] /\ now \in Nat /\ now \in 1..MaxTime
  BY NowNat DEF IInv, PoolsInv, SchedulesInv
<1>2. /\ GoesOn(Loaded(p), pools[p])
      /\ DOMAIN Loaded(p).rewards \cap DOMAIN Loaded(p).rewards_to_remove = {}
      /\ DOMAIN Loaded(p).rewards_to_remove # {} => pools[p].last_update_ts < now
  BY <1>1, UpdateGoesOn DEF Loaded
<1>3. ASSUME pools[p].last_update_ts < now
      PROVE  Unwritten(p)
  <2>1. pools[p].last_update_ts \in Nat
    BY <1>1 DEF PoolOKBy
  <2>2. finished[p][now] = NoneFinished
    BY <1>1, <1>3, <2>1 DEF IInv, FinishedInv
  <2>3. \A u \in Users : users[p][u].last_claim_time <= pools[p].last_update_ts
                         /\ users[p][u].last_claim_time \in Nat
    BY DEF IInv, UsersInv, UserInfo
  <2> QED BY <1>1, <1>3, <2>1, <2>2, <2>3 DEF Unwritten
<1> QED BY <1>2, <1>3

(* A change that keeps what was removed and the indexes of the tokens. *)
LEMMA ChangeGoesOn ==
  ASSUME NEW mem, NEW next, NEW pool, GoesOn(mem, pool),
         next.rewards_to_remove = mem.rewards_to_remove,
         \A t \in Tokens \cap DOMAIN mem.rewards :
            t \in DOMAIN next.rewards /\ next.rewards[t].index = mem.rewards[t].index
  PROVE  GoesOn(next, pool)
BY DEF GoesOn

LEMMA OutstandingNats ==
  ASSUME NEW user, NEW entries, FinishedOK(entries), NEW x
  PROVE  /\ Outstanding(user, entries, x) \in SUBSET (1..MaxTime)
         /\ Outstanding(user, entries, x) \in SUBSET Nat
BY MaxTimeAssumption DEF Outstanding, FinishedOK

(* What a claim begins with is never less than 0. *)
LEMMA CoversZero ==
  ASSUME NEW t \in Nat, NEW mem, MemOK(mem, t), NEW entries, FinishedOK(entries),
         NEW user, NoIndexes(user)
  PROVE  Covered(user, entries, mem.rewards)
<1> SUFFICES ASSUME NEW x \in Tokens
             PROVE  0 <= (IF Outstanding(user, entries, x) # {}
                          THEN entries[Min(Outstanding(user, entries, x))][x]
                          ELSE IF x \in DOMAIN mem.rewards THEN mem.rewards[x].index ELSE 0)
  BY DEF Covered, NoIndexes
<1> DEFINE out == Outstanding(user, entries, x)
<1>1. CASE out # {}
  <2>1. Min(out) \in out
    BY <1>1, OutstandingNats, MinOfNats
  <2> HIDE DEF out
  <2>2. Min(out) \in 1..MaxTime /\ x \in DOMAIN entries[Min(out)]
    BY <2>1 DEF out, Outstanding, FinishedOK
  <2>3. entries[Min(out)][x] \in Nat
    BY <2>2 DEF FinishedOK
  <2> QED BY <1>1, <2>3 DEF out
<1>2. CASE out = {}
  <2>1. x \in DOMAIN mem.rewards => mem.rewards[x].index \in Nat
    BY DEF MemOK, RewardInfo
  <2> QED BY <1>2, <2>1
<1> QED BY <1>1, <1>2

(* Saving a pool adds an entry for each reward that it removes whole, and  *)
(* leaves those that a claim begins with.                                  *)
LEMMA SavedOutstanding ==
  ASSUME NEW t \in 1..MaxTime, NEW mem, MemOK(mem, t), NEW entries, FinishedOK(entries),
         NEW user, NEW x,
         DOMAIN mem.rewards_to_remove # {} => entries[t] = NoneFinished /\ user.last_claim_time < t
  PROVE  /\ Outstanding(user, SaveFinished(entries, mem), x)
              = Outstanding(user, entries, x) \cup (IF x \in RemovedWhole(mem) THEN {t} ELSE {})
         /\ \A ts \in Outstanding(user, entries, x) : SaveFinished(entries, mem)[ts] = entries[ts]
         /\ x \in RemovedWhole(mem) => SaveFinished(entries, mem)[t][x] = mem.rewards_to_remove[x].index
<1> DEFINE saved == SaveFinished(entries, mem)
           entry == [y \in RemovedWhole(mem) |-> mem.rewards_to_remove[y].index]
<1>1. CASE RemovedWhole(mem) = {}
  BY <1>1 DEF SaveFinished
<1>2. CASE RemovedWhole(mem) # {}
  <2>1. entries[t] = NoneFinished /\ user.last_claim_time < t
    BY <1>2 DEF RemovedWhole
  <2>2. saved = [entries EXCEPT ![t] = entry]
    BY <1>2 DEF SaveFinished, MemOK
  <2>3. DOMAIN entry = RemovedWhole(mem) /\ \A y \in RemovedWhole(mem) : entry[y] = mem.rewards_to_remove[y].index
    OBVIOUS
  <2> HIDE DEF entry, saved
  <2>4. /\ DOMAIN saved = 1..MaxTime /\ DOMAIN entries = 1..MaxTime
        /\ saved[t] = entry /\ \A ts \in 1..MaxTime : ts # t => saved[ts] = entries[ts]
    BY <2>2 DEF FinishedOK
  <2>5. t \notin Outstanding(user, entries, x)
    BY <2>1 DEF Outstanding, NoneFinished
  <2>6. Outstanding(user, saved, x)
          = Outstanding(user, entries, x) \cup (IF x \in RemovedWhole(mem) THEN {t} ELSE {})
    <3>1. ASSUME NEW ts
          PROVE  ts \in Outstanding(user, saved, x)
                   <=> ts \in Outstanding(user, entries, x) \/ (x \in RemovedWhole(mem) /\ ts = t)
      BY <2>1, <2>3, <2>4, <2>5 DEF Outstanding
    <3> QED BY <3>1
  <2>7. \A ts \in Outstanding(user, entries, x) : saved[ts] = entries[ts]
    BY <2>4, <2>5 DEF Outstanding
  <2> QED BY <2>3, <2>4, <2>6, <2>7 DEF saved
<1> QED BY <1>1, <1>2

LEMMA SaveKeepsCovered ==
  ASSUME NEW t \in 1..MaxTime, NEW mem, MemOK(mem, t), NEW entries, FinishedOK(entries),
         NEW pool, PoolOK(pool), GoesOn(mem, pool),
         NEW user \in UserInfo, Covered(user, entries, pool.rewards),
         pool.total_lp = 0 => NoIndexes(user),
         \A ts \in 1..MaxTime : entries[ts] # NoneFinished => ts <= t,
         DOMAIN mem.rewards_to_remove # {} => entries[t] = NoneFinished /\ user.last_claim_time < t
  PROVE  Covered(user, SaveFinished(entries, mem), mem.rewards)
<1> DEFINE saved == SaveFinished(entries, mem)
<1>0. t \in Nat /\ FinishedOK(saved)
  BY SaveFinishedOK, MaxTimeAssumption
<1> HIDE DEF saved
<1>a. CASE pool.total_lp = 0
  BY <1>0, <1>a, CoversZero DEF saved
<1>b. CASE pool.total_lp # 0
  <2> SUFFICES ASSUME NEW x \in Tokens
               PROVE  user.last_rewards_index[x] <=
                        (IF Outstanding(user, saved, x) # {} THEN saved[Min(Outstanding(user, saved, x))][x]
                         ELSE IF x \in DOMAIN mem.rewards THEN mem.rewards[x].index ELSE 0)
    BY DEF Covered, saved
  <2> DEFINE U == user.last_rewards_index[x]
             out == Outstanding(user, entries, x)
             after == Outstanding(user, saved, x)
             stored == IF x \in DOMAIN pool.rewards THEN pool.rewards[x].index ELSE 0
             left == IF x \in DOMAIN mem.rewards THEN mem.rewards[x].index ELSE 0
  <2>1. /\ after = out \cup (IF x \in RemovedWhole(mem) THEN {t} ELSE {})
        /\ \A ts \in out : saved[ts] = entries[ts]
        /\ x \in RemovedWhole(mem) => saved[t][x] = mem.rewards_to_remove[x].index
    BY SavedOutstanding DEF saved
  <2>2. U \in Nat /\ stored \in Nat /\ left \in Nat
    BY DEF UserInfo, Keys, PoolOK, MemOK, RewardInfo
  <2>3. U <= (IF out # {} THEN entries[Min(out)][x] ELSE stored)
    BY DEF Covered
  <2>4. out \in SUBSET (1..MaxTime) /\ out \in SUBSET Nat
    BY OutstandingNats
  <2>5. CASE out # {}
    <3>1. Min(out) \in out /\ \A k \in out : Min(out) <= k
      BY <2>4, <2>5, MinOfNats
    <3>2. \A k \in out : k <= t
      <4> SUFFICES ASSUME NEW k \in out PROVE k <= t
        OBVIOUS
      <4>1. k \in 1..MaxTime /\ x \in DOMAIN entries[k]
        BY <2>4 DEF Outstanding
      <4>2. entries[k] # NoneFinished
        BY <4>1 DEF NoneFinished
      <4> QED BY <4>1, <4>2
    <3> HIDE DEF out, after
    <3>3. after \in SUBSET Nat /\ Min(out) \in after /\ \A k \in after : Min(out) <= k
      BY <1>0, <2>1, <2>4, <3>1, <3>2
    <3>4. Min(after) = Min(out)
      BY <3>3, MinIs
    <3>5. saved[Min(after)][x] = entries[Min(out)][x] /\ after # {}
      BY <2>1, <3>1, <3>3, <3>4
    <3> QED BY <2>3, <2>5, <3>5 DEF after
  <2>6. CASE out = {}
    <3>1. U <= stored
      BY <2>3, <2>6
    <3>2. CASE x \in RemovedWhole(mem)
      <4>1. after = {t}
        BY <2>1, <2>6, <3>2
      <4>2. Min(after) = t
        BY <1>0, <4>1, MinIs
      <4>3. saved[Min(after)][x] = mem.rewards_to_remove[x].index /\ x \in DOMAIN mem.rewards_to_remove
        BY <2>1, <3>2, <4>2 DEF RemovedWhole
      <4>4. mem.rewards_to_remove[x].index \in Nat
        BY <4>3 DEF MemOK, Removal
      <4>5. x \in DOMAIN pool.rewards => stored <= mem.rewards_to_remove[x].index
        BY <4>3 DEF GoesOn
      <4> HIDE DEF U, after
      <4>6. U <= mem.rewards_to_remove[x].index
        BY <2>2, <3>1, <4>4, <4>5
      <4> QED BY <4>1, <4>3, <4>6 DEF U, after
    <3>3. CASE x \notin RemovedWhole(mem)
      <4>1. after = {}
        BY <2>1, <2>6, <3>3
      <4>2. x \in DOMAIN pool.rewards => x \notin DOMAIN mem.rewards_to_remove
        BY <1>b, <3>3 DEF GoesOn, RemovedWhole, PoolOK
      <4>3. x \in DOMAIN pool.rewards => stored <= left
        BY <4>2 DEF GoesOn
      <4> HIDE DEF U, after
      <4>4. U <= left
        BY <2>2, <3>1, <4>3
      <4> QED BY <4>1, <4>4 DEF U, after
    <3> QED BY <3>2, <3>3
  <2> QED BY <2>5, <2>6
<1> QED BY <1>a, <1>b

(* No stake exceeds the total of its pool. *)
LEMMA StakeWithin ==
  ASSUME IInv, NEW p \in Pools, NEW u \in Users
  PROVE  users[p][u].amount \in Nat /\ pools[p].total_lp \in Nat /\ users[p][u].amount <= pools[p].total_lp
<1> DEFINE stakes == [v \in Users |-> users[p][v].amount]
<1>1. \A v \in 1..NumUsers : stakes[v] \in Nat
  BY DEF IInv, UsersInv, UserInfo, Users
<1>2. pools[p].total_lp = SumTo(NumUsers, stakes) /\ pools[p].total_lp \in Nat
  BY DEF IInv, StakesAddUp, PoolsInv, PoolOK
<1>3. stakes[u] = users[p][u].amount
  OBVIOUS
<1> HIDE DEF stakes
<1>4. stakes[u] <= SumTo(NumUsers, stakes) /\ stakes[u] \in Nat
  BY <1>1, NumUsersAssumption, SumToTerm DEF Users
<1> QED BY <1>2, <1>3, <1>4

LEMMA SyncCovered ==
  ASSUME NEW t \in 1..MaxTime, NEW mem, MemOK(mem, t), NEW entries, FinishedOK(entries),
         \A ts \in 1..MaxTime : entries[ts] # NoneFinished => ts <= t,
         NEW user, NEW amount \in Nat
  PROVE  LET synced == SyncPosition(user, mem, amount)
         IN  /\ Covered(synced, entries, mem.rewards)
             /\ synced.amount = 0 => NoIndexes(synced)
<1> DEFINE synced == SyncPosition(user, mem, amount)
<1>0. t \in Nat
  BY MaxTimeAssumption
<1>1. CASE amount = 0
  <2>1. NoIndexes(synced)
    BY <1>1 DEF SyncPosition, NoPosition, NoIndexes, Keys
  <2> QED BY <1>0, <2>1, CoversZero
<1>2. CASE amount # 0
  <2>1. /\ synced.last_claim_time = t /\ synced.amount = amount
        /\ \A x \in Tokens : synced.last_rewards_index[x] = Synced(mem, x)
    BY <1>2 DEF SyncPosition, MemOK, Keys
  <2>2. \A x : Outstanding(synced, entries, x) = {}
    <3> HIDE DEF synced
    <3> SUFFICES ASSUME NEW x, NEW ts \in Outstanding(synced, entries, x) PROVE FALSE
      OBVIOUS
    <3>1. ts \in 1..MaxTime /\ ts > t /\ x \in DOMAIN entries[ts]
      BY <2>1 DEF Outstanding, FinishedOK
    <3>2. entries[ts] # NoneFinished
      BY <3>1 DEF NoneFinished
    <3> QED BY <1>0, <3>1, <3>2
  <2>3. \A x \in Tokens \cap DOMAIN mem.rewards : mem.rewards[x].index \in Nat
    BY DEF MemOK, RewardInfo
  <2> HIDE DEF synced
  <2>4. Covered(synced, entries, mem.rewards)
    BY <2>1, <2>2, <2>3 DEF Covered, Synced
  <2> QED BY <1>2, <2>1, <2>4 DEF synced
<1> QED BY <1>1, <1>2
-----------------------------------------------------------------------------
(* What is saved of the pools leaves every position covered. *)
LEMMA SavedCovered ==
  ASSUME IInv, ExitInv, NEW P \in SUBSET Pools, NEW mem, SavePools(mem, P),
         \A p \in P : /\ MemOK(mem[p], now) /\ GoesOn(mem[p], pools[p])
                      /\ DOMAIN mem[p].rewards_to_remove # {} => Unwritten(p)
  PROVE  \A p \in Pools, u \in Users :
            /\ users[p][u].amount = 0 => NoIndexes(users[p][u])
            /\ Covered(users[p][u], finished'[p], pools'[p].rewards)
<1> SUFFICES ASSUME NEW p \in Pools, NEW u \in Users
             PROVE  /\ users[p][u].amount = 0 => NoIndexes(users[p][u])
                    /\ Covered(users[p][u], finished'[p], pools'[p].rewards)
  OBVIOUS
<1> DEFINE user == users[p][u]
<1>1. /\ user.amount = 0 => NoIndexes(user)
      /\ Covered(user, finished[p], pools[p].rewards)
  BY DEF ExitInv
<1>2. /\ pools'[p] = IF p \in P THEN Stored(mem[p]) ELSE pools[p]
      /\ finished'[p] = IF p \in P THEN SaveFinished(finished[p], mem[p]) ELSE finished[p]
  BY DEF SavePools
<1>3. CASE p \notin P
  BY <1>1, <1>2, <1>3
<1>4. CASE p \in P
  <2>1. /\ MemOK(mem[p], now) /\ GoesOn(mem[p], pools[p])
        /\ DOMAIN mem[p].rewards_to_remove # {} => Unwritten(p)
    BY <1>4
  <2>2. now \in 1..MaxTime /\ FinishedOK(finished[p]) /\ PoolOK(pools[p]) /\ user \in UserInfo
    BY NowNat DEF IInv, FinishedInv, PoolsInv, UsersInv
  <2>3. \A ts \in 1..MaxTime : finished[p][ts] # NoneFinished => ts <= now
    <3>1. pools[p].last_update_ts \in Nat /\ pools[p].last_update_ts <= now /\ now \in Nat
      BY NowNat DEF IInv, PoolsInv, PoolOKBy
    <3>2. \A ts \in 1..MaxTime : finished[p][ts] # NoneFinished => ts <= pools[p].last_update_ts
      BY DEF IInv, FinishedInv
    <3> QED BY <3>1, <3>2
  <2>4. pools[p].total_lp = 0 => NoIndexes(user)
    <3>1. user.amount \in Nat /\ user.amount <= pools[p].total_lp
      BY StakeWithin
    <3> HIDE DEF user
    <3> QED BY <1>1, <3>1 DEF user
  <2>5. DOMAIN mem[p].rewards_to_remove # {} => finished[p][now] = NoneFinished /\ user.last_claim_time < now
    BY <2>1 DEF Unwritten
  <2> HIDE DEF user
  <2>6. Covered(user, SaveFinished(finished[p], mem[p]), mem[p].rewards)
    BY <1>1, <2>1, <2>2, <2>3, <2>4, <2>5, SaveKeepsCovered
  <2>7. pools'[p].rewards = mem[p].rewards
    BY <1>2, <1>4 DEF Stored
  <2> QED BY <1>1, <1>2, <1>4, <2>6, <2>7 DEF user
<1> QED BY <1>3, <1>4

LEMMA SaveKeepsExitInv ==
  ASSUME IInv, ExitInv, NEW P \in SUBSET Pools, NEW mem, SavePools(mem, P), users' = users,
         \A p \in P : /\ MemOK(mem[p], now) /\ GoesOn(mem[p], pools[p])
                      /\ DOMAIN mem[p].rewards_to_remove # {} => Unwritten(p)
  PROVE  ExitInv'
BY SavedCovered DEF ExitInv

LEMMA SyncKeepsExitInv ==
  ASSUME IInv, ExitInv, NEW u \in Users, NEW P \in SUBSET Pools, NEW mem, NEW amount,
         SavePools(mem, P), SyncUser(u, P, mem, amount), now' = now,
         \A p \in P : /\ MemOK(mem[p], now) /\ GoesOn(mem[p], pools[p]) /\ amount[p] \in Nat
                      /\ DOMAIN mem[p].rewards_to_remove # {} => Unwritten(p)
  PROVE  ExitInv'
<1>1. PoolsInv' /\ FinishedInv' /\ \A p \in P : pools'[p].last_update_ts = now
  BY SavedOK
<1>2. \A p \in Pools, v \in Users :
         /\ users[p][v].amount = 0 => NoIndexes(users[p][v])
         /\ Covered(users[p][v], finished'[p], pools'[p].rewards)
  BY SavedCovered
<1>3. \A p \in Pools : users'[p] = IF p \in P THEN [users[p] EXCEPT ![u] = SyncPosition(users[p][u], mem[p], amount[p])]
                                   ELSE users[p]
  BY DEF SyncUser
<1>4. \A p \in Pools : users[p] \in [Users -> UserInfo]
  BY DEF IInv, UsersInv
<1>5. ASSUME NEW p \in Pools, NEW v \in Users
      PROVE  /\ users'[p][v].amount = 0 => NoIndexes(users'[p][v])
             /\ Covered(users'[p][v], finished'[p], pools'[p].rewards)
  <2>1. CASE p \notin P \/ v # u
    <3>1. users'[p][v] = users[p][v]
      BY <1>3, <1>4, <2>1
    <3> QED BY <1>2, <3>1
  <2>2. CASE p \in P /\ v = u
    <3>1. users'[p][v] = SyncPosition(users[p][u], mem[p], amount[p])
      BY <1>3, <1>4, <2>2
    <3>2. pools'[p].rewards = mem[p].rewards
      BY <2>2 DEF SavePools, Stored
    <3>3. FinishedOK(finished'[p]) /\ \A ts \in 1..MaxTime : finished'[p][ts] # NoneFinished => ts <= now
      BY <1>1, <2>2 DEF FinishedInv
    <3>4. now \in 1..MaxTime /\ MemOK(mem[p], now) /\ amount[p] \in Nat
      BY <2>2, NowNat
    <3> QED BY <3>1, <3>2, <3>3, <3>4, SyncCovered
  <2> QED BY <2>1, <2>2
<1> QED BY <1>5 DEF ExitInv
-----------------------------------------------------------------------------
(* The handlers. *)
LEMMA StakersKeepExits ==
  ASSUME IInv, ExitInv, NEW u \in Users
  PROVE  /\ \A P \in SUBSET Pools : ClaimRewards(u, P) => ExitInv'
         /\ \A p \in Pools, delta \in Int :
               users[p][u].amount + delta >= 0 /\ Restake(u, p, delta) => ExitInv'
<1>1. ASSUME NEW P \in SUBSET Pools, ClaimRewards(u, P)
      PROVE  ExitInv'
  <2> DEFINE mem == [p \in Pools |-> Loaded(p)]
             staked == [p \in Pools |-> users[p][u].amount]
  <2>1. SavePools(mem, P) /\ SyncUser(u, P, mem, staked) /\ now' = now
    BY <1>1 DEF ClaimRewards
  <2>2. \A p \in P : mem[p] = Loaded(p) /\ staked[p] \in Nat
    BY DEF IInv, UsersInv, UserInfo
  <2> HIDE DEF mem, staked
  <2> QED BY <2>1, <2>2, LoadedOK, LoadedGoesOn, SyncKeepsExitInv
<1>2. ASSUME NEW p \in Pools, NEW delta \in Int, users[p][u].amount + delta >= 0, Restake(u, p, delta)
      PROVE  ExitInv'
  <2> DEFINE mem == [q \in Pools |-> Loaded(q)]
             restaked == [mem EXCEPT ![p].total_lp = @ + delta]
             staked == [q \in Pools |-> users[q][u].amount + delta]
             total == pools[p].total_lp + delta
  <2>1. SavePools(restaked, {p}) /\ SyncUser(u, {p}, restaked, staked) /\ now' = now
    BY <1>2 DEF Restake
  <2>2. staked[p] \in Nat
    BY <1>2 DEF IInv, UsersInv, UserInfo
  <2>3. restaked[p] = [Loaded(p) EXCEPT !.total_lp = total]
    BY LoadedOK
  <2>4. total \in Nat
    <3>1. users[p][u].amount \in Nat /\ pools[p].total_lp \in Nat /\ users[p][u].amount <= pools[p].total_lp
      BY StakeWithin
    <3> QED BY <1>2, <3>1
  <2> HIDE DEF restaked, staked, total
  <2>5. MemOK(restaked[p], now)
    BY <2>3, <2>4, LoadedOK, NowNat, TotalChangeOK
  <2>6. /\ restaked[p].rewards = Loaded(p).rewards
        /\ restaked[p].rewards_to_remove = Loaded(p).rewards_to_remove
    BY <2>3, LoadedOK DEF MemOK
  <2>7. GoesOn(restaked[p], pools[p]) /\ (DOMAIN restaked[p].rewards_to_remove # {} => Unwritten(p))
    BY <2>6, LoadedGoesOn, ChangeGoesOn
  <2>8. \A q \in {p} : /\ MemOK(restaked[q], now) /\ GoesOn(restaked[q], pools[q]) /\ staked[q] \in Nat
                       /\ DOMAIN restaked[q].rewards_to_remove # {} => Unwritten(q)
    BY <2>2, <2>5, <2>7
  <2> QED BY <2>1, <2>8, SyncKeepsExitInv
<1> QED BY <1>1, <1>2

(* The internal reward is none of the tokens. *)
LEMMA InternalGoesOn ==
  ASSUME NEW t \in Nat, NEW mem, MemOK(mem, t), NEW pool, GoesOn(mem, pool), NEW rate
  PROVE  /\ GoesOn(SetInternalRewards(mem, rate), pool)
         /\ SetInternalRewards(mem, rate).rewards_to_remove = mem.rewards_to_remove
         /\ GoesOn(DisableInternalRewards(mem), pool)
         /\ DisableInternalRewards(mem).rewards_to_remove = mem.rewards_to_remove
<1>0. Internal \notin Tokens
  BY DEF Internal, Tokens
<1>1. /\ SetInternalRewards(mem, rate).rewards_to_remove = mem.rewards_to_remove
      /\ \A x \in Tokens \cap DOMAIN mem.rewards :
            /\ x \in DOMAIN SetInternalRewards(mem, rate).rewards
            /\ SetInternalRewards(mem, rate).rewards[x].index = mem.rewards[x].index
  BY <1>0 DEF SetInternalRewards, Set, MemOK
<1>2. /\ DisableInternalRewards(mem).rewards_to_remove = mem.rewards_to_remove
      /\ \A x \in Tokens \cap DOMAIN mem.rewards :
            /\ x \in DOMAIN DisableInternalRewards(mem).rewards
            /\ DisableInternalRewards(mem).rewards[x].index = mem.rewards[x].index
  BY <1>0 DEF DisableInternalRewards, MemOK
<1>3. GoesOn(SetInternalRewards(mem, rate), pool)
  BY <1>1, ChangeGoesOn
<1>4. GoesOn(DisableInternalRewards(mem), pool)
  BY <1>2, ChangeGoesOn
<1> QED BY <1>1, <1>2, <1>3, <1>4

(* A pool as the handlers of internal rates save it. *)
ReRated(p, mem) ==
  \E rate \in Nat :
     \/ mem = Loaded(p) \/ mem = DisableInternalRewards(Loaded(p))
     \/ mem = SetInternalRewards(Loaded(p), rate)
     \/ mem = SetInternalRewards(DisableInternalRewards(Loaded(p)), rate)

SavesReRated == \E P \in SUBSET Pools : \E mem : SavePools(mem, P) /\ \A p \in P : ReRated(p, mem[p])

LEMMA RatesSave ==
  ASSUME IInv
  PROVE  /\ \A S \in SUBSET Pools : \A alloc \in [S -> AllocPoints] : SetupPools(alloc) => SavesReRated
         /\ \A amount \in Nat : SetTokensPerSecond(amount) => SavesReRated
         /\ \A D, newTotal : DisablePools(D, newTotal) /\ newTotal \in Int => SavesReRated
<1>0. DOMAIN activePools \subseteq Pools /\ activePools \in [DOMAIN activePools -> Nat]
      /\ totalAlloc \in Nat /\ rewardPerSecond \in Nat
  BY DEF IInv, AdminInv
<1>1. ASSUME NEW S \in SUBSET Pools, NEW alloc \in [S -> AllocPoints], SetupPools(alloc)
      PROVE  SavesReRated
  <2> DEFINE old == DOMAIN activePools
             disabled(p) == IF p \in old THEN DisableInternalRewards(Loaded(p)) ELSE Loaded(p)
             rate(p) == InternalRate(rewardPerSecond, alloc[p], AllocSum(alloc))
             mem == [p \in Pools |-> IF p \in S THEN SetInternalRewards(disabled(p), rate(p)) ELSE disabled(p)]
  <2>1. SavePools(mem, old \cup S)
    BY <1>1 DEF SetupPools
  <2>2. \A p \in S : rate(p) \in Nat
    <3> SUFFICES ASSUME NEW p \in S PROVE rate(p) \in Nat
      OBVIOUS
    <3>1. alloc[p] \in Nat \ {0} /\ alloc[p] <= AllocSum(alloc) /\ AllocSum(alloc) \in Nat
      BY InputsAssumption, AllocSumOK
    <3> QED BY <1>0, <3>1, InternalRateNat
  <2>3. \A p \in old \cup S : ReRated(p, mem[p])
    <3> SUFFICES ASSUME NEW p \in old \cup S PROVE ReRated(p, mem[p])
      OBVIOUS
    <3>1. p \in Pools
      BY <1>0
    <3>2. mem[p] = IF p \in S THEN SetInternalRewards(disabled(p), rate(p)) ELSE disabled(p)
      BY <3>1
    <3>3. disabled(p) = Loaded(p) \/ disabled(p) = DisableInternalRewards(Loaded(p))
      OBVIOUS
    <3> HIDE DEF mem, disabled, rate
    <3>4. CASE p \in S
      BY <2>2, <3>2, <3>3, <3>4 DEF ReRated
    <3>5. CASE p \notin S
      <4>1. 0 \in Nat
        OBVIOUS
      <4> QED BY <3>2, <3>3, <3>5, <4>1 DEF ReRated
    <3> QED BY <3>4, <3>5
  <2>4. (old \cup S) \in SUBSET Pools
    BY <1>0
  <2> HIDE DEF mem, old
  <2> QED BY <2>1, <2>3, <2>4 DEF SavesReRated
<1>2. ASSUME NEW amount \in Nat, SetTokensPerSecond(amount)
      PROVE  SavesReRated
  <2> DEFINE active == DOMAIN activePools
             rate(p) == InternalRate(amount, activePools[p], totalAlloc)
             mem == [p \in Pools |-> IF p \in active THEN SetInternalRewards(Loaded(p), rate(p)) ELSE Loaded(p)]
  <2>1. SavePools(mem, active) /\ (active # {} => totalAlloc > 0)
    BY <1>2 DEF SetTokensPerSecond
  <2>2. \A p \in active : rate(p) \in Nat
    BY <1>0, <2>1, InternalRateNat
  <2>3. \A p \in active : mem[p] = SetInternalRewards(Loaded(p), rate(p)) /\ p \in Pools
    BY <1>0
  <2> HIDE DEF mem, rate
  <2>4. \A p \in active : ReRated(p, mem[p])
    BY <2>2, <2>3 DEF ReRated
  <2>5. active \in SUBSET Pools
    BY <1>0
  <2> HIDE DEF active
  <2> QED BY <2>1, <2>4, <2>5 DEF SavesReRated
<1>3. ASSUME NEW D, NEW newTotal, DisablePools(D, newTotal), newTotal \in Int
      PROVE  SavesReRated
  <2> DEFINE active == DOMAIN activePools
             rest == active \ D
             rate(p) == InternalRate(rewardPerSecond, activePools[p], newTotal)
             mem == [p \in Pools |-> IF p \in rest THEN SetInternalRewards(Loaded(p), rate(p))
                                     ELSE DisableInternalRewards(Loaded(p))]
  <2>1. SavePools(mem, active) /\ newTotal >= 0 /\ (rest # {} => newTotal > 0)
    BY <1>3 DEF DisablePools
  <2>2. \A p \in rest : rate(p) \in Nat
    BY <1>0, <1>3, <2>1, InternalRateNat
  <2>3. \A p \in active : /\ p \in Pools
                          /\ mem[p] = IF p \in rest THEN SetInternalRewards(Loaded(p), rate(p))
                                      ELSE DisableInternalRewards(Loaded(p))
    BY <1>0
  <2> HIDE DEF mem, rate, rest
  <2>4. \A p \in active : ReRated(p, mem[p])
    <3> SUFFICES ASSUME NEW p \in active PROVE ReRated(p, mem[p])
      OBVIOUS
    <3>1. PICK r \in Nat : p \in rest => r = rate(p)
      BY <2>2
    <3> QED BY <2>3, <3>1 DEF ReRated
  <2>5. active \in SUBSET Pools
    BY <1>0
  <2> HIDE DEF active
  <2> QED BY <2>1, <2>4, <2>5 DEF SavesReRated
<1> QED BY <1>1, <1>2, <1>3

LEMMA RatesKeepExits ==
  ASSUME IInv, ExitInv, users' = users, SavesReRated
  PROVE  ExitInv'
<1>1. ASSUME NEW p \in Pools, NEW mem, ReRated(p, mem)
      PROVE  /\ MemOK(mem, now) /\ GoesOn(mem, pools[p])
             /\ DOMAIN mem.rewards_to_remove # {} => Unwritten(p)
  <2>0. PICK rate \in Nat :
          \/ mem = Loaded(p) \/ mem = DisableInternalRewards(Loaded(p))
          \/ mem = SetInternalRewards(Loaded(p), rate)
          \/ mem = SetInternalRewards(DisableInternalRewards(Loaded(p)), rate)
    BY <1>1 DEF ReRated
  <2> DEFINE low == Loaded(p)
             off == DisableInternalRewards(low)
  <2>1. /\ MemOK(low, now) /\ GoesOn(low, pools[p]) /\ now \in Nat
        /\ DOMAIN low.rewards_to_remove # {} => Unwritten(p)
    BY LoadedOK, LoadedGoesOn, NowNat
  <2> HIDE DEF low
  <2>2. MemOK(off, now) /\ GoesOn(off, pools[p]) /\ off.rewards_to_remove = low.rewards_to_remove
    BY <2>1, DisableInternalRewardsOK, InternalGoesOn
  <2> HIDE DEF off
  <2>3. CASE mem = low \/ mem = off
    BY <2>1, <2>2, <2>3
  <2>4. CASE mem = SetInternalRewards(low, rate)
    BY <2>1, <2>4, SetInternalRewardsOK, InternalGoesOn
  <2>5. CASE mem = SetInternalRewards(off, rate)
    BY <2>1, <2>2, <2>5, SetInternalRewardsOK, InternalGoesOn
  <2> QED BY <2>0, <2>3, <2>4, <2>5 DEF low, off
<1>2. PICK P \in SUBSET Pools : \E mem : SavePools(mem, P) /\ \A p \in P : ReRated(p, mem[p])
  BY DEF SavesReRated
<1>3. PICK mem : SavePools(mem, P) /\ \A p \in P : ReRated(p, mem[p])
  BY <1>2
<1>4. \A p \in P : /\ MemOK(mem[p], now) /\ GoesOn(mem[p], pools[p])
                   /\ DOMAIN mem[p].rewards_to_remove # {} => Unwritten(p)
  BY <1>1, <1>3
<1> QED BY <1>3, <1>4, SaveKeepsExitInv

LEMMA ExternalRewardsKeepExits ==
  ASSUME IInv, ExitInv, NEW p \in Pools, NEW t \in Tokens
  PROVE  /\ \A amount \in Nat, periods \in Nat : Incentivize(p, t, amount, periods) => ExitInv'
         /\ CarefulOwner => \A bypass : RemoveRewardFromPool(p, t, bypass) => ExitInv'
<1>0. now \in Nat /\ MemOK(Loaded(p), now)
  BY NowNat, LoadedOK
<1>1. ASSUME NEW amount \in Nat, NEW periods \in Nat, Incentivize(p, t, amount, periods)
      PROVE  ExitInv'
  <2> DEFINE mem == [q \in Pools |-> Loaded(q)]
             rate == ScheduleRate(amount, now, periods)
             end == EndTs(now, periods)
             funded == [mem EXCEPT ![p] = IncentivizeReward(@, t, rate, end)]
  <2>1. SavePools(funded, {p}) /\ users' = users
    BY <1>1 DEF Incentivize
  <2>2. funded[p] = IncentivizeReward(Loaded(p), t, rate, end)
    OBVIOUS
  <2>3. rate \in Nat /\ end \in Nat /\ end > now
    BY <1>0, ScheduleRateNat, EndTsLater
  <2> HIDE DEF funded, rate, end
  <2>4. MemOK(funded[p], now)
    BY <1>0, <2>2, <2>3, IncentivizeRewardOK
  <2>5. /\ funded[p].rewards_to_remove = Loaded(p).rewards_to_remove
        /\ \A x \in Tokens \cap DOMAIN Loaded(p).rewards :
              x \in DOMAIN funded[p].rewards /\ funded[p].rewards[x].index = Loaded(p).rewards[x].index
    BY <1>0, <2>2 DEF IncentivizeReward, Set, MemOK, RewardInfo
  <2>6. GoesOn(funded[p], pools[p]) /\ (DOMAIN funded[p].rewards_to_remove # {} => Unwritten(p))
    BY <2>5, LoadedGoesOn, ChangeGoesOn
  <2>7. \A q \in {p} : /\ MemOK(funded[q], now) /\ GoesOn(funded[q], pools[q])
                       /\ DOMAIN funded[q].rewards_to_remove # {} => Unwritten(q)
    BY <2>4, <2>6
  <2> QED BY <2>1, <2>7, SaveKeepsExitInv
<1>2. ASSUME CarefulOwner, NEW bypass, RemoveRewardFromPool(p, t, bypass)
      PROVE  ExitInv'
  <2> DEFINE mem == [q \in Pools |-> Loaded(q)]
             removed == [mem EXCEPT ![p] = DeregisterReward(@, t)]
             low == Loaded(p)
  <2>1. /\ t \in DOMAIN low.rewards /\ QuietBlock(p, t)
        /\ SavePools(removed, {p}) /\ users' = users
    BY <1>2 DEF RemoveRewardFromPool
  <2>2. removed[p] = DeregisterReward(low, t)
    OBVIOUS
  <2> HIDE DEF removed
  <2>3. MemOK(removed[p], now)
    BY <1>0, <2>1, <2>2, DeregisterRewardOK
  <2>4. Unwritten(p)
    <3>1. \A u \in Users : /\ users[p][u].last_claim_time \in Nat
                           /\ users[p][u].last_claim_time <= pools[p].last_update_ts
      BY DEF IInv, UsersInv, UserInfo
    <3>2. pools[p].last_update_ts \in Nat /\ pools[p].last_update_ts <= now
      BY DEF IInv, PoolsInv, PoolOKBy
    <3>3. finished[p][now] = NoneFinished /\ \A u \in Users : users[p][u].last_claim_time # now
      BY <2>1 DEF QuietBlock
    <3> QED BY <1>0, <3>1, <3>2, <3>3 DEF Unwritten
  <2>5. low.rewards[t].orphaned = 0
    BY <2>1 DEF QuietBlock
  <2>6. /\ removed[p].rewards = [x \in DOMAIN low.rewards \ {t} |-> low.rewards[x]]
        /\ DOMAIN removed[p].rewards_to_remove = DOMAIN low.rewards_to_remove \cup {t}
        /\ removed[p].rewards_to_remove[t] = [index |-> low.rewards[t].index, orphaned |-> low.rewards[t].orphaned]
        /\ \A x \in DOMAIN low.rewards_to_remove \ {t} :
              removed[p].rewards_to_remove[x] = low.rewards_to_remove[x]
    <3> HIDE DEF low
    <3>1. MemOK(low, now)
      BY <1>0 DEF low
    <3> QED BY <2>2, <3>1 DEF DeregisterReward, Set, Drop, MemOK
  <2>7. /\ GoesOn(low, pools[p]) /\ t \notin DOMAIN low.rewards_to_remove
    BY <2>1, LoadedGoesOn
  <2> HIDE DEF low
  <2>8. GoesOn(removed[p], pools[p])
    BY <2>5, <2>6, <2>7 DEF GoesOn
  <2>9. \A q \in {p} : /\ MemOK(removed[q], now) /\ GoesOn(removed[q], pools[q])
                       /\ DOMAIN removed[q].rewards_to_remove # {} => Unwritten(q)
    BY <2>3, <2>4, <2>8
  <2> QED BY <2>1, <2>9, SaveKeepsExitInv
<1> QED BY <1>1, <1>2

LEMMA ExitInvInit == Init => ExitInv
<1> SUFFICES ASSUME Init, NEW p \in Pools, NEW u \in Users
             PROVE  NoIndexes(users[p][u]) /\ Covered(users[p][u], finished[p], pools[p].rewards)
  BY DEF ExitInv
<1>1. /\ users[p][u] = NoPosition /\ pools[p] = EmptyPool
      /\ finished[p] = [ts \in 1..MaxTime |-> NoneFinished]
  BY DEF Init
<1>2. NoIndexes(users[p][u])
  BY <1>1 DEF NoIndexes, NoPosition, Keys
<1>3. \A x : Outstanding(users[p][u], finished[p], x) = {}
  BY <1>1 DEF Outstanding, NoneFinished
<1>4. DOMAIN pools[p].rewards = {}
  BY <1>1 DEF EmptyPool, NoRewards
<1>5. Covered(users[p][u], finished[p], pools[p].rewards)
  BY <1>2, <1>3, <1>4 DEF Covered, NoIndexes
<1> QED BY <1>2, <1>5

LEMMA ExitInvNext == CarefulOwner /\ IInv /\ ExitInv /\ [Next]_vars => ExitInv'
<1> SUFFICES ASSUME CarefulOwner, IInv, ExitInv, [Next]_vars PROVE ExitInv'
  OBVIOUS
<1>0. totalAlloc \in Nat /\ DOMAIN activePools \subseteq Pools /\ activePools \in [DOMAIN activePools -> Nat]
  BY DEF IInv, AdminInv
<1>u. UNCHANGED <<pools, users, finished>> => ExitInv'
  BY DEF ExitInv
<1>1. ASSUME NEW d \in TimeSteps, Tick(d) PROVE ExitInv'
  BY <1>1, <1>u DEF Tick, stakeVars
<1>2. ASSUME NEW u \in Users, NEW P \in SUBSET Pools, ClaimRewards(u, P) PROVE ExitInv'
  BY <1>2, StakersKeepExits
<1>3. ASSUME NEW u \in Users, NEW p \in Pools, NEW a \in StakeAmounts, Deposit(u, p, a) PROVE ExitInv'
  <2>1. a \in Nat /\ users[p][u].amount \in Nat
    BY InputsAssumption DEF IInv, UsersInv, UserInfo
  <2>2. a \in Int /\ users[p][u].amount + a >= 0
    BY <2>1
  <2> QED BY <1>3, <2>2, StakersKeepExits DEF Deposit
<1>4. ASSUME NEW u \in Users, NEW p \in Pools, NEW a \in StakeAmounts, Withdraw(u, p, a) PROVE ExitInv'
  <2>1. a \in Nat /\ users[p][u].amount \in Nat /\ a <= users[p][u].amount
    BY <1>4, InputsAssumption DEF IInv, UsersInv, UserInfo, Withdraw
  <2>2. -a \in Int /\ users[p][u].amount + (-a) >= 0
    BY <2>1
  <2> QED BY <1>4, <2>2, StakersKeepExits DEF Withdraw
<1>5. ASSUME NEW S \in SUBSET Pools, NEW alloc \in [S -> AllocPoints], SetupPools(alloc) PROVE ExitInv'
  BY <1>5, RatesSave, RatesKeepExits DEF SetupPools
<1>6. ASSUME NEW a \in EmissionRates, SetTokensPerSecond(a) PROVE ExitInv'
  BY <1>6, InputsAssumption, RatesSave, RatesKeepExits DEF SetTokensPerSecond
<1>7. ASSUME DeactivateBlockedPools PROVE ExitInv'
  <2> DEFINE D == {p \in DOMAIN activePools : PairTypeOf[p] \in blacklisted}
             newTotal == totalAlloc - SumIn(D, NumPools, activePools)
  <2>1. newTotal \in Int
    BY <1>0, PointsOfNat
  <2>2. DisablePools(D, newTotal) /\ users' = users
    BY <1>7 DEF DeactivateBlockedPools
  <2> HIDE DEF D, newTotal
  <2> QED BY <2>1, <2>2, RatesSave, RatesKeepExits
<1>8. ASSUME NEW add \in BlockBatches, NEW remove \in BlockBatches, UpdateBlockedTokenslist(add, remove)
      PROVE  ExitInv'
  <2> DEFINE D == {p \in DOMAIN activePools : PairAssets[p] \cap add # {}}
             newTotal == totalAlloc - BlockedPoints(add)
  <2>1. newTotal \in Int
    BY <1>0, BlockedPointsNat
  <2>2. /\ DisablePools(D, newTotal) \/ UNCHANGED <<pools, finished>>
        /\ users' = users
    BY <1>8 DEF UpdateBlockedTokenslist
  <2> HIDE DEF D, newTotal
  <2> QED BY <1>u, <2>1, <2>2, RatesSave, RatesKeepExits
<1>9. ASSUME NEW p \in DelistedPools, Deregister(p) PROVE ExitInv'
  <2>1. users' = users
    BY <1>9 DEF Deregister
  <2>2. CASE p \in DOMAIN activePools /\ DisablePools({p}, totalAlloc - activePools[p])
    <3>1. totalAlloc - activePools[p] \in Int
      BY <1>0, <2>2
    <3> QED BY <2>1, <2>2, <3>1, RatesSave, RatesKeepExits
  <2>3. CASE UNCHANGED <<pools, finished, orphaned, activePools, totalAlloc>>
    BY <1>u, <2>1, <2>3
  <2> QED BY <1>9, <2>2, <2>3 DEF Deregister
<1>10. ASSUME NEW type \in BlacklistTypes, ToggleBlacklist(type) PROVE ExitInv'
  BY <1>10, <1>u DEF ToggleBlacklist, stakeVars
<1>11. ASSUME NEW a \in TopUps, TopUp(a) PROVE ExitInv'
  BY <1>11, <1>u DEF TopUp, stakeVars
<1>12. ASSUME NEW p \in Pools, NEW t \in IncentiveTokens, NEW n \in IncentivePeriods,
              NEW a \in Amounts(n), Incentivize(p, t, a, n)
       PROVE  ExitInv'
  <2>1. t \in Tokens /\ n \in Nat
    BY InputsAssumption
  <2>2. a \in Nat
    BY <2>1, AmountsNat
  <2> QED BY <1>12, <2>1, <2>2, ExternalRewardsKeepExits
<1>13. ASSUME NEW p \in Pools, NEW t \in IncentiveTokens, NEW b \in RemovalModes, RemoveRewardFromPool(p, t, b)
       PROVE  ExitInv'
  BY <1>13, InputsAssumption, ExternalRewardsKeepExits
<1>14. ASSUME NEW limit \in OrphanLimits, ClaimOrphanedRewards(limit) PROVE ExitInv'
  BY <1>14, <1>u DEF ClaimOrphanedRewards, stakeVars
<1>15. ASSUME UNCHANGED vars PROVE ExitInv'
  BY <1>15, <1>u DEF vars, stakeVars
<1> QED BY <1>1, <1>2, <1>3, <1>4, <1>5, <1>6, <1>7, <1>8, <1>9, <1>10, <1>11, <1>12, <1>13, <1>14, <1>15 DEF Next

(* A claim by now begins where the one of the stored state would, or with  *)
(* what this very update finishes.                                         *)
LEMMA CoveredCanExit == IInv /\ ExitInv => PositionsCanExit
<1> SUFFICES ASSUME IInv, ExitInv, NEW u \in Users, NEW p \in Pools, NEW x \in Tokens,
                    IsFinished(users[p][u], finished[p], Loaded(p), x)
             PROVE  ~(FirstFinishedIndex(users[p][u], finished[p], Loaded(p), x) < users[p][u].last_rewards_index[x])
  BY DEF PositionsCanExit, ClaimPossible, ClaimUnderflows
<1> DEFINE user == users[p][u]
           out == Outstanding(user, finished[p], x)
           U == user.last_rewards_index[x]
           first == FirstFinishedIndex(user, finished[p], Loaded(p), x)
           stored == IF x \in DOMAIN pools[p].rewards THEN pools[p].rewards[x].index ELSE 0
<1>1. U \in Nat /\ stored \in Nat
  BY DEF IInv, UsersInv, UserInfo, PoolsInv, PoolOK, RewardInfo, Keys
<1>2. U <= (IF out # {} THEN finished[p][Min(out)][x] ELSE stored)
  BY DEF ExitInv, Covered
<1>3. CASE out # {}
  <2>1. Min(out) \in out
    BY <1>3, OutstandingNats, MinOfNats DEF IInv, FinishedInv
  <2>2. first = finished[p][Min(out)][x]
    BY <1>3 DEF FirstFinishedIndex
  <2>3. first \in Nat
    <3>1. FinishedOK(finished[p])
      BY DEF IInv, FinishedInv
    <3>2. Min(out) \in 1..MaxTime /\ x \in DOMAIN finished[p][Min(out)]
      BY <2>1, <3>1 DEF Outstanding, FinishedOK
    <3> HIDE DEF out, first
    <3> QED BY <2>2, <3>1, <3>2 DEF FinishedOK
  <2> HIDE DEF out, first, U
  <2> QED BY <1>1, <1>2, <1>3, <2>2, <2>3 DEF first, U
<1>4. CASE out = {}
  <2>1. first = Loaded(p).rewards_to_remove[x].index /\ x \in DOMAIN Loaded(p).rewards_to_remove
    BY <1>4 DEF FirstFinishedIndex, IsFinished
  <2>2. first \in Nat
    BY <2>1, LoadedOK DEF MemOK, Removal
  <2>3. x \in DOMAIN pools[p].rewards => stored <= first
    BY <2>1, LoadedGoesOn DEF GoesOn
  <2> HIDE DEF out, first, U
  <2>4. U <= first
    BY <1>1, <1>2, <1>4, <2>2, <2>3
  <2> QED BY <1>1, <2>2, <2>4 DEF first, U
<1> QED BY <1>3, <1>4

(* With a careful owner nobody's claim, deposit or withdrawal ever panics  *)
(* on the subtraction of a finished index: whatever rewards started,       *)
(* ended, were removed and came back meanwhile, a stake can be withdrawn.  *)
THEOREM PositionsCanAlwaysExit == CarefulOwner => (Spec => []PositionsCanExit)
<1>1. CarefulOwner /\ IInv /\ ExitInv /\ [Next]_vars => ExitInv'
  BY ExitInvNext
<1>2. IInv /\ ExitInv => PositionsCanExit
  BY CoveredCanExit
<1> SUFFICES ASSUME CarefulOwner PROVE Spec => []PositionsCanExit
  OBVIOUS
<1>3. IInv /\ ExitInv /\ [Next]_vars => ExitInv'
  BY <1>1
<1> QED BY <1>2, <1>3, ExitInvInit, SpecInv, PTL DEF Spec
-----------------------------------------------------------------------------
(* Where the period that ends at e begins, seen from n, and what it brings. *)
Begins(S, n, e) == Max({n} \cup {x \in After(S, n) : x < e})
Periods(S, n) == [e \in Seconds |-> S[e] * (e - Begins(S, n, e))]

LEMMA UpcomingIs ==
  ASSUME NEW S, NEW n
  PROVE  UpcomingRewards(S, n) = SumIn(After(S, n), Horizon, Periods(S, n))
BY DEF UpcomingRewards, Periods, Begins

LEMMA AfterNats ==
  ASSUME NEW S \in Schedules, NEW n \in Nat
  PROVE  /\ After(S, n) \in SUBSET Nat
         /\ \A e \in After(S, n) : e \in Seconds /\ e \in Nat /\ e <= Horizon /\ e > n /\ S[e] \in Nat /\ S[e] > 0
BY HorizonNat DEF After, Seconds, Schedules

LEMMA BeginsIn ==
  ASSUME NEW S \in Schedules, NEW n \in Nat, NEW e \in After(S, n)
  PROVE  /\ Begins(S, n, e) \in Nat /\ Begins(S, n, e) < e
         /\ Periods(S, n)[e] = S[e] * (e - Begins(S, n, e))
         /\ Periods(S, n)[e] \in Nat
<1> DEFINE T == {n} \cup {x \in After(S, n) : x < e}
           b == Max(T)
<1>1. e \in Seconds /\ e \in Nat /\ e > n /\ S[e] \in Nat
  BY AfterNats
<1>2. T \in SUBSET (0..e) /\ T # {} /\ \A x \in T : x < e
  BY <1>1, AfterNats
<1>3. b \in T
  BY <1>1, <1>2, MaxOfBounded
<1>4. Periods(S, n)[e] = S[e] * (e - Begins(S, n, e)) /\ Begins(S, n, e) = b
  BY <1>1 DEF Periods, Begins
<1> HIDE DEF b
<1>5. b \in Nat /\ b < e
  BY <1>1, <1>2, <1>3
<1>6. e - b \in Nat
  BY <1>1, <1>5
<1>7. S[e] * (e - b) \in Nat
  BY <1>1, <1>6
<1> QED BY <1>4, <1>5, <1>7

LEMMA UpcomingNat ==
  ASSUME NEW S \in Schedules, NEW n \in Nat
  PROVE  UpcomingRewards(S, n) \in Nat
<1> DEFINE f == Periods(S, n)
<1>1. \A e \in 1..Horizon : e \in After(S, n) => f[e] \in Nat
  BY BeginsIn
<1> HIDE DEF f
<1>2. SumIn(After(S, n), Horizon, f) \in Nat
  BY <1>1, HorizonNat, SumInNat
<1> QED BY <1>2, UpcomingIs DEF f

(* Only the periods after n count. *)
LEMMA UpcomingSame ==
  ASSUME NEW S \in Schedules, NEW R \in Schedules, NEW n \in Nat,
         \A e \in Seconds : e > n => S[e] = R[e]
  PROVE  UpcomingRewards(S, n) = UpcomingRewards(R, n)
<1>1. After(S, n) = After(R, n)
  BY DEF After
<1> DEFINE f == Periods(S, n)
           g == Periods(R, n)
           A == After(R, n)
<1>2. ASSUME NEW e \in 1..Horizon, e \in A PROVE g[e] \in Int /\ f[e] = g[e]
  <2>1. e \in Seconds /\ S[e] = R[e] /\ e \in After(S, n)
    BY <1>1, <1>2, AfterNats
  <2>2. Begins(S, n, e) = Begins(R, n, e)
    BY <1>1 DEF Begins
  <2>3. g[e] \in Nat /\ g[e] = R[e] * (e - Begins(R, n, e)) /\ f[e] = S[e] * (e - Begins(S, n, e))
    BY <2>1, <1>2, BeginsIn
  <2> QED BY <2>1, <2>2, <2>3
<1> HIDE DEF f, g, A
<1>3. SumIn(A, Horizon, f) = SumIn(A, Horizon, g)
  BY <1>2, HorizonNat, SumInSame
<1> QED BY <1>1, <1>3, UpcomingIs DEF f, g, A

(* What is to come from n on is what the periods that ended by t brought,  *)
(* the one in force then, and what comes after it.                         *)
LEMMA UpcomingSplit ==
  ASSUME NEW S \in Schedules, NEW n \in Nat, NEW t \in Nat, n <= t
  PROVE  UpcomingRewards(S, n) = PassedRewards(S, n, t) +
           (IF HasRunning(S, t)
            THEN S[Running(S, t)] * (Running(S, t) - Max({n} \cup Passed(S, n, t)))
                   + UpcomingRewards(S, Running(S, t))
            ELSE 0)
<1> DEFINE A == After(S, n)
           P == Passed(S, n, t)
           L == After(S, t)
           f == Periods(S, n)
           m == Running(S, t)
           prev(e) == Max({n} \cup {x \in P : x < e})
           h == [e \in Seconds |-> S[e] * (e - prev(e))]
<1>1. /\ P \subseteq A /\ A \ P = L
      /\ \A x \in P : x <= t
      /\ \A x \in L : x > t
  BY AfterNats DEF Passed, After
<1>2. \A e \in 1..Horizon : e \in A => f[e] \in Int
  BY BeginsIn
<1>3. SumIn(A, Horizon, f) = SumIn(L, Horizon, f) + SumIn(P, Horizon, f)
  <2> HIDE DEF A, P, L, f
  <2> QED BY <1>1, <1>2, HorizonNat, SumInSplit
<1>4. SumIn(P, Horizon, h) = SumIn(P, Horizon, f)
  <2>1. ASSUME NEW e \in 1..Horizon, e \in P PROVE f[e] \in Int /\ h[e] = f[e]
    <3>1. e \in A /\ e \in Seconds
      BY <1>1, <2>1, AfterNats
    <3>2. {x \in P : x < e} = {x \in A : x < e}
      <4>1. e <= t /\ e \in Nat
        BY <1>1, <2>1, <3>1, AfterNats
      <4>2. \A x \in A : x < e => x \in P
        BY <4>1, AfterNats DEF Passed
      <4> QED BY <1>1, <4>2
    <3>3. prev(e) = Begins(S, n, e)
      BY <3>2 DEF Begins
    <3>4. h[e] = S[e] * (e - prev(e))
      BY <3>1
    <3> HIDE DEF h, f, prev
    <3>5. f[e] = S[e] * (e - Begins(S, n, e)) /\ f[e] \in Nat
      BY <3>1, BeginsIn DEF f
    <3> QED BY <3>3, <3>4, <3>5
  <2> HIDE DEF h, f, P
  <2> QED BY <2>1, HorizonNat, SumInSame
<1>5. SumIn(P, Horizon, h) = PassedRewards(S, n, t)
  BY DEF PassedRewards
<1>6. UpcomingRewards(S, n) = SumIn(A, Horizon, f)
  BY UpcomingIs
<1>7. CASE ~HasRunning(S, t)
  <2>1. L = {}
    BY <1>7 DEF HasRunning
  <2>2. SumIn(L, Horizon, f) = 0
    BY <2>1, HorizonNat, SumInNone
  <2>3. PassedRewards(S, n, t) \in Nat
    BY PassedRewardsNat
  <2> HIDE DEF f, A, P, h, L, prev
  <2>4. SumIn(P, Horizon, f) = PassedRewards(S, n, t)
    BY <1>4, <1>5
  <2>5. UpcomingRewards(S, n) = 0 + PassedRewards(S, n, t)
    BY <1>3, <1>6, <2>2, <2>4
  <2>6. UpcomingRewards(S, n) = PassedRewards(S, n, t) + 0
    BY <2>3, <2>5
  <2> QED BY <1>7, <2>6
<1>8. CASE HasRunning(S, t)
  <2> DEFINE M == After(S, m)
             g == Periods(S, m)
             since == Max({n} \cup P)
  <2>1. m \in L /\ \A x \in L : m <= x
    BY <1>8, AfterNats, MinOfNats DEF HasRunning, Running
  <2> HIDE DEF m
  <2>2. m \in Nat /\ m > t /\ m \in 1..Horizon /\ m \in A
    BY <2>1, <1>1, AfterNats DEF Seconds
  <2>3. L = M \cup {m} /\ m \notin M
    BY <2>1, <2>2, AfterNats DEF After
  <2>4. SumIn(L, Horizon, f) = SumIn(M, Horizon, f) + f[m]
    <3>1. \A e \in 1..Horizon : e \in L => f[e] \in Int
      BY <1>1, <1>2
    <3> HIDE DEF f, L, M
    <3> QED BY <2>2, <2>3, <3>1, HorizonNat, SumInAdd
  <2>5. f[m] = S[m] * (m - since)
    <3>1. {x \in A : x < m} = P
      BY <1>1, <2>1, <2>2, AfterNats
    <3>2. Begins(S, n, m) = since
      BY <3>1 DEF Begins
    <3> HIDE DEF f, since
    <3> QED BY <2>2, <3>2, BeginsIn DEF f
  <2>6. SumIn(M, Horizon, f) = SumIn(M, Horizon, g)
    <3>1. ASSUME NEW e \in 1..Horizon, e \in M PROVE g[e] \in Int /\ f[e] = g[e]
      <4>1. e \in Nat /\ e > m /\ e \in A
        BY <1>1, <2>2, <2>3, <3>1, AfterNats
      <4> DEFINE T == {m} \cup {x \in M : x < e}
                 U == {n} \cup {x \in A : x < e}
                 b == Max(T)
      <4>2. T \in SUBSET (0..e) /\ U \in SUBSET (0..e) /\ T # {}
        BY <2>2, <4>1, AfterNats
      <4>3. b \in T /\ \A k \in T : k <= b
        BY <4>1, <4>2, MaxOfBounded
      <4> HIDE DEF b
      <4>4. b \in Nat /\ m <= b /\ m \in T /\ b \in U
        BY <4>1, <4>2, <4>3, <2>2, <1>1, <2>3
      <4>5. \A k \in U : k <= b
        <5> SUFFICES ASSUME NEW k \in U PROVE k <= b
          OBVIOUS
        <5>1. CASE k <= m
          BY <4>2, <4>4, <5>1, <2>2
        <5>2. CASE ~(k <= m)
          <6>1. k \in A /\ k < e /\ k \in Nat
            BY <5>2, <2>2, <4>2
          <6>2. k \in M
            BY <5>2, <6>1, <2>2, AfterNats DEF After
          <6> QED BY <6>1, <6>2, <4>3
        <5> QED BY <5>1, <5>2
      <4>6. Max(U) = b
        BY <4>1, <4>2, <4>4, <4>5, MaxIs
      <4>7. Begins(S, n, e) = b /\ Begins(S, m, e) = b
        BY <4>6 DEF Begins, b
      <4> HIDE DEF f, g, T, U
      <4>8. f[e] = S[e] * (e - Begins(S, n, e)) /\ g[e] = S[e] * (e - Begins(S, m, e)) /\ g[e] \in Nat
        BY <2>2, <3>1, <4>1, BeginsIn DEF f, g
      <4> QED BY <4>7, <4>8
    <3> HIDE DEF f, g, M
    <3> QED BY <3>1, HorizonNat, SumInSame
  <2>7. UpcomingRewards(S, m) = SumIn(M, Horizon, g)
    BY UpcomingIs
  <2>8. PassedRewards(S, n, t) \in Nat /\ UpcomingRewards(S, m) \in Nat /\ f[m] \in Int
    BY <2>2, PassedRewardsNat, UpcomingNat, <1>2
  <2> HIDE DEF f, g, A, L, M, P, h, since, prev
  <2>a. SumIn(P, Horizon, f) = PassedRewards(S, n, t)
    BY <1>4, <1>5
  <2>b. SumIn(L, Horizon, f) = UpcomingRewards(S, m) + f[m]
    BY <2>4, <2>6, <2>7
  <2>9. UpcomingRewards(S, n) = PassedRewards(S, n, t) + (f[m] + UpcomingRewards(S, m))
    BY <1>3, <1>6, <2>8, <2>a, <2>b
  <2> QED BY <1>8, <2>5, <2>9 DEF m, since, P
<1> QED BY <1>7, <1>8

(* One period after the other. *)
LEMMA UpcomingFirst ==
  ASSUME NEW S \in Schedules, NEW n \in Nat
  PROVE  /\ After(S, n) = {} => UpcomingRewards(S, n) = 0
         /\ \A m \in After(S, n) : (\A x \in After(S, n) : m <= x) =>
               UpcomingRewards(S, n) = S[m] * (m - n) + UpcomingRewards(S, m)
<1>1. Passed(S, n, n) = {}
  BY AfterNats DEF Passed
<1>2. PassedRewards(S, n, n) = 0
  <2> DEFINE passed == Passed(S, n, n)
             prev(e) == Max({n} \cup {x \in passed : x < e})
             f == [e \in Seconds |-> S[e] * (e - prev(e))]
  <2>1. PassedRewards(S, n, n) = SumIn(passed, Horizon, f)
    BY DEF PassedRewards
  <2> HIDE DEF f
  <2> QED BY <1>1, <2>1, HorizonNat, SumInNone
<1>3. Max({n} \cup Passed(S, n, n)) = n
  <2>1. ({n} \cup Passed(S, n, n)) = {n}
    BY <1>1
  <2>2. {n} \in SUBSET (0..n) /\ n \in {n} /\ \A k \in {n} : k <= n
    OBVIOUS
  <2>3. Max({n}) = n
    BY <2>2, MaxIs
  <2> QED BY <2>1, <2>3
<1>a. n <= n
  OBVIOUS
<1>4. UpcomingRewards(S, n) = PassedRewards(S, n, n) +
           (IF HasRunning(S, n)
            THEN S[Running(S, n)] * (Running(S, n) - Max({n} \cup Passed(S, n, n)))
                   + UpcomingRewards(S, Running(S, n))
            ELSE 0)
  BY <1>a, UpcomingSplit
<1>5. After(S, n) = {} => UpcomingRewards(S, n) = 0
  BY <1>2, <1>4 DEF HasRunning
<1>6. ASSUME NEW m \in After(S, n), \A x \in After(S, n) : m <= x
      PROVE  UpcomingRewards(S, n) = S[m] * (m - n) + UpcomingRewards(S, m)
  <2>1. Running(S, n) = m /\ HasRunning(S, n)
    BY <1>6, AfterNats, MinIs DEF Running, HasRunning
  <2>2. m \in Nat /\ S[m] \in Nat /\ UpcomingRewards(S, m) \in Nat /\ m > n
    BY AfterNats, UpcomingNat
  <2> DEFINE first == S[m] * (m - n)
  <2>3. first \in Nat
    <3>1. m - n \in Nat
      BY <2>2
    <3> QED BY <2>2, <3>1
  <2>4. UpcomingRewards(S, n) = 0 + (first + UpcomingRewards(S, m))
    BY <1>2, <1>3, <1>4, <2>1
  <2> HIDE DEF first
  <2>5. UpcomingRewards(S, n) = first + UpcomingRewards(S, m)
    BY <2>2, <2>3, <2>4
  <2> QED BY <2>5 DEF first
<1> QED BY <1>5, <1>6
-----------------------------------------------------------------------------
(* What a reward that was updated at "last" has still to emit. *)
Left(r, S, last) == r.rps * (r.next_update_ts - last) + UpcomingRewards(S, r.next_update_ts)

LEMMA LeftNat ==
  ASSUME NEW r \in RewardInfo, NEW S \in Schedules, NEW last \in Nat, r.next_update_ts >= last
  PROVE  Left(r, S, last) \in Nat
<1>1. r.rps \in Nat /\ r.next_update_ts \in Nat
  BY DEF RewardInfo
<1>2. r.next_update_ts - last \in Nat
  BY <1>1
<1>3. UpcomingRewards(S, r.next_update_ts) \in Nat
  BY <1>1, UpcomingNat
<1>4. r.rps * (r.next_update_ts - last) \in Nat
  BY <1>1, <1>2
<1> QED BY <1>3, <1>4 DEF Left

(* An update emits neither more nor less than it takes from what is left. *)
LEMMA UpdateConserves ==
  ASSUME NEW r \in RewardInfo, NEW k \in Tokens, NEW S \in Schedules, NEW total \in Nat,
         NEW last \in Nat, NEW t \in Nat, last <= t, r.next_update_ts > last
  PROVE  Left(r, S, last) = Collected(r, k, S, last, t)
           + (IF Finishes(r, k, S, t) THEN 0 ELSE Left(UpdateReward(r, k, S, total, last, t), S, t))
<1> DEFINE n == r.next_update_ts
           c == Collected(r, k, S, last, t)
           u == UpdateReward(r, k, S, total, last, t)
<1>0. n \in Nat /\ r.rps \in Nat /\ k # Internal /\ n > last
  BY DEF RewardInfo, Tokens, Internal
<1>1. UpcomingRewards(S, n) \in Nat
  BY <1>0, UpcomingNat
<1>2. CASE ~Ended(r, k, t)
  <2>1. c = r.rps * (t - last) /\ ~Finishes(r, k, S, t)
    BY <1>2 DEF Collected, Finishes
  <2>2. u.rps = r.rps /\ u.next_update_ts = n
    BY <1>2 DEF UpdateReward, Finishes
  <2> HIDE DEF c, u, n
  <2>3. r.rps * (t - last) + r.rps * (n - t) = r.rps * (n - last)
    BY <1>0, Distribute
  <2>4. r.rps * (t - last) \in Int /\ r.rps * (n - t) \in Int /\ r.rps * (n - last) \in Int
    BY <1>0
  <2> DEFINE a == r.rps * (t - last)
             b == r.rps * (n - t)
             d == r.rps * (n - last)
  <2>5. Left(r, S, last) = d + UpcomingRewards(S, n) /\ Left(u, S, t) = b + UpcomingRewards(S, n)
    BY <2>2 DEF Left, n
  <2>6. c = a /\ a + b = d /\ a \in Int /\ b \in Int /\ d \in Int
    BY <2>1, <2>3, <2>4
  <2> HIDE DEF a, b, d
  <2>7. Left(r, S, last) = c + Left(u, S, t)
    BY <1>1, <2>5, <2>6
  <2> QED BY <2>1, <2>7 DEF c, u
<1>3. CASE Ended(r, k, t)
  <2> DEFINE since == Max({n} \cup Passed(S, n, t))
             m == Running(S, t)
             passed == PassedRewards(S, n, t)
             d == r.rps * (n - last)
  <2>1. n <= t
    BY <1>3 DEF Ended
  <2>2. c = d + passed + (IF HasRunning(S, t) THEN S[m] * (t - since) ELSE 0)
    BY <1>3 DEF Collected
  <2>3. UpcomingRewards(S, n) = passed
           + (IF HasRunning(S, t) THEN S[m] * (m - since) + UpcomingRewards(S, m) ELSE 0)
    BY <1>0, <2>1, UpcomingSplit
  <2>4. passed \in Nat /\ d \in Int
    <3>1. passed \in Nat
      BY <1>0, PassedRewardsNat
    <3> HIDE DEF n, passed
    <3>2. d \in Int
      BY <1>0
    <3> QED BY <3>1, <3>2
  <2>5. Left(r, S, last) = d + UpcomingRewards(S, n)
    BY DEF Left
  <2>6. since \in Nat
    <3>1. ({n} \cup Passed(S, n, t)) \in SUBSET (0..t) /\ n \in ({n} \cup Passed(S, n, t))
      BY <1>0, <2>1, HorizonNat DEF Passed, After, Seconds
    <3>2. ({n} \cup Passed(S, n, t)) # {}
      BY <3>1
    <3>3. since \in 0..t
      BY <3>1, <3>2, MaxOfBounded
    <3> QED BY <3>3
  <2>7. CASE ~HasRunning(S, t)
    <3>1. Finishes(r, k, S, t)
      BY <1>3, <2>7 DEF Finishes
    <3> HIDE DEF c, d, passed, n
    <3>2. Left(r, S, last) = c + 0
      BY <2>2, <2>3, <2>4, <2>5, <2>7
    <3> QED BY <3>1, <3>2 DEF c
  <2>8. CASE HasRunning(S, t)
    <3>1. ~Finishes(r, k, S, t)
      BY <2>8 DEF Finishes
    <3>2. u.rps = S[m] /\ u.next_update_ts = m
      BY <1>3, <2>8 DEF UpdateReward, Finishes
    <3>3. m \in Nat /\ S[m] \in Nat
      BY <2>8, RunningLater, HorizonNat DEF Seconds
    <3> HIDE DEF m
    <3>4. UpcomingRewards(S, m) \in Nat
      BY <3>3, UpcomingNat
    <3> DEFINE e == S[m] * (t - since)
               f == S[m] * (m - t)
               g == S[m] * (m - since)
    <3> HIDE DEF since
    <3>5. e + f = g /\ e \in Int /\ f \in Int /\ g \in Int
      BY <2>6, <3>3, Distribute
    <3>6. Left(u, S, t) = f + UpcomingRewards(S, m)
      BY <3>2 DEF Left
    <3>7. c = d + passed + e /\ UpcomingRewards(S, n) = passed + (g + UpcomingRewards(S, m))
      BY <2>2, <2>3, <2>8
    <3> HIDE DEF c, d, passed, n, e, f, g, u
    <3>8. Left(r, S, last) = c + Left(u, S, t)
      BY <2>4, <2>5, <3>4, <3>5, <3>6, <3>7
    <3> QED BY <3>1, <3>8 DEF c, u
  <2> QED BY <2>7, <2>8
<1> QED BY <1>2, <1>3
-----------------------------------------------------------------------------
(* R is S with a period added that ends at "end" and runs from n on. *)
Inserted(S, R, n, rate, end) ==
  LET beyond == {e \in Seconds : e >= end /\ S[e] > 0}
  IN  /\ R[end] = rate + (IF beyond = {} THEN 0 ELSE S[Min(beyond)])
      /\ \A e \in Seconds : n < e /\ e < end => R[e] = IF S[e] > 0 THEN S[e] + rate ELSE 0
      /\ \A e \in Seconds : e > end => R[e] = S[e]

LEMMA InsertedStep ==
  ASSUME NEW S \in Schedules, NEW R \in Schedules, NEW n \in Nat, NEW rate \in Nat \ {0},
         NEW end \in Seconds, n < end, Inserted(S, R, n, rate, end),
         \A m \in Nat : n < m /\ m <= end =>
            UpcomingRewards(R, m) = UpcomingRewards(S, m) + rate * (end - m)
  PROVE  UpcomingRewards(R, n) = UpcomingRewards(S, n) + rate * (end - n)
<1> DEFINE beyond == {e \in Seconds : e >= end /\ S[e] > 0}
<1>0. end \in Nat /\ \A e \in Seconds : S[e] \in Nat /\ R[e] \in Nat /\ e \in Nat
  BY HorizonNat DEF Seconds, Schedules
<1>1. CASE \E x \in After(S, n) : x < end
  <2> DEFINE m == Min(After(S, n))
  <2>1. m \in After(S, n) /\ \A x \in After(S, n) : m <= x
    BY <1>1, AfterNats, MinOfNats
  <2> HIDE DEF m
  <2>2. m \in Seconds /\ m \in Nat /\ m > n /\ m < end /\ S[m] \in Nat /\ S[m] > 0
    BY <1>0, <1>1, <2>1, AfterNats
  <2>3. R[m] = S[m] + rate
    BY <2>2 DEF Inserted
  <2>4. m \in After(R, n)
    BY <2>2, <2>3 DEF After
  <2>5. \A x \in After(R, n) : m <= x
    <3> SUFFICES ASSUME NEW x \in After(R, n) PROVE m <= x
      OBVIOUS
    <3>1. x \in Seconds /\ x \in Nat /\ x > n /\ R[x] > 0
      BY AfterNats
    <3>2. CASE x < end
      <4>1. S[x] > 0
        BY <3>1, <3>2 DEF Inserted
      <4>2. x \in After(S, n)
        BY <3>1, <4>1 DEF After
      <4> QED BY <2>1, <4>2
    <3>3. CASE ~(x < end)
      BY <1>0, <2>2, <3>1, <3>3
    <3> QED BY <3>2, <3>3
  <2>6. UpcomingRewards(S, n) = S[m] * (m - n) + UpcomingRewards(S, m)
    BY <2>1, UpcomingFirst
  <2>7. UpcomingRewards(R, n) = (S[m] + rate) * (m - n) + UpcomingRewards(R, m)
    BY <2>3, <2>4, <2>5, UpcomingFirst
  <2>8. UpcomingRewards(R, m) = UpcomingRewards(S, m) + rate * (end - m)
    BY <2>2
  <2>9. UpcomingRewards(S, m) \in Nat
    BY <2>2, UpcomingNat
  <2> DEFINE a == S[m] * (m - n)
             b == rate * (m - n)
             c == rate * (end - m)
             d == rate * (end - n)
  <2>10. (S[m] + rate) * (m - n) = a + b /\ b + c = d
    BY <1>0, <2>2, Distribute
  <2>11. a \in Int /\ b \in Int /\ c \in Int /\ d \in Int
    BY <1>0, <2>2
  <2>12. UpcomingRewards(R, n) = (a + b) + UpcomingRewards(R, m) /\ UpcomingRewards(S, n) = a + UpcomingRewards(S, m)
         /\ UpcomingRewards(R, m) = UpcomingRewards(S, m) + c
    BY <2>6, <2>7, <2>8, <2>10
  <2> HIDE DEF a, b, c, d
  <2>13. UpcomingRewards(R, n) = UpcomingRewards(S, n) + d
    BY <2>9, <2>10, <2>11, <2>12
  <2> QED BY <2>13 DEF d
<1>2. CASE ~\E x \in After(S, n) : x < end
  <2>1. After(S, n) = beyond
    <3>1. ASSUME NEW e \in Seconds PROVE e > n /\ S[e] > 0 <=> e >= end /\ S[e] > 0
      <4>1. e > n /\ S[e] > 0 => ~(e < end)
        BY <1>2 DEF After
      <4> QED BY <1>0, <4>1
    <3> QED BY <3>1 DEF After
  <2>2. R[end] = rate + (IF beyond = {} THEN 0 ELSE S[Min(beyond)])
    BY DEF Inserted
  <2>3. beyond # {} => Min(beyond) \in beyond /\ \A x \in beyond : Min(beyond) <= x
    BY <2>1, AfterNats, MinOfNats
  <2>4. end \in After(R, n)
    <3>1. beyond # {} => Min(beyond) \in Seconds
      BY <2>3
    <3>2. beyond # {} => S[Min(beyond)] \in Nat
      BY <1>0, <3>1
    <3> HIDE DEF beyond
    <3>3. R[end] > 0
      BY <2>2, <3>2
    <3> QED BY <3>3 DEF After
  <2>5. \A x \in After(R, n) : end <= x
    <3> SUFFICES ASSUME NEW x \in After(R, n), x < end PROVE FALSE
      BY <1>0, AfterNats
    <3>1. x \in Seconds /\ x \in Nat /\ x > n /\ R[x] > 0
      BY AfterNats
    <3>2. S[x] > 0
      BY <3>1 DEF Inserted
    <3> QED BY <1>2, <3>1, <3>2 DEF After
  <2>6. UpcomingRewards(R, n) = R[end] * (end - n) + UpcomingRewards(R, end)
    BY <2>4, <2>5, UpcomingFirst
  <2>7. UpcomingRewards(R, end) = UpcomingRewards(S, end)
    BY <1>0, UpcomingSame DEF Inserted
  <2>8. UpcomingRewards(S, end) \in Nat
    BY <1>0, UpcomingNat
  <2>9. CASE beyond = {}
    <3>1. UpcomingRewards(S, n) = 0
      BY <2>1, <2>9, UpcomingFirst
    <3>2. After(S, end) = {}
      <4> SUFFICES ASSUME NEW e \in Seconds, e > end, S[e] > 0 PROVE FALSE
        BY DEF After
      <4>1. e \in beyond
        BY <1>0
      <4> QED BY <2>9, <4>1
    <3>3. UpcomingRewards(S, end) = 0
      BY <1>0, <3>2, UpcomingFirst
    <3>4. R[end] = rate
      BY <2>2, <2>9
    <3> HIDE DEF beyond
    <3>5. rate * (end - n) \in Int
      BY <1>0
    <3> QED BY <2>6, <2>7, <3>1, <3>3, <3>4, <3>5
  <2>10. CASE beyond # {}
    <3> DEFINE m == Min(beyond)
    <3>1. m \in beyond /\ (\A x \in beyond : m <= x) /\ R[end] = rate + S[m]
      BY <2>2, <2>3, <2>10
    <3> HIDE DEF m
    <3>2. m \in Seconds /\ m \in Nat /\ m >= end /\ S[m] \in Nat /\ S[m] > 0
      BY <1>0, <3>1
    <3>3. UpcomingRewards(S, n) = S[m] * (m - n) + UpcomingRewards(S, m)
      BY <2>1, <3>1, UpcomingFirst
    <3>4. UpcomingRewards(S, m) \in Nat
      BY <3>2, UpcomingNat
    <3> DEFINE a == S[m] * (end - n)
               b == S[m] * (m - end)
               c == S[m] * (m - n)
               d == rate * (end - n)
    <3>5. UpcomingRewards(S, end) = b + UpcomingRewards(S, m)
      <4>1. CASE m = end
        <5>1. b = 0
          BY <1>0, <3>2, <4>1
        <5> QED BY <3>4, <4>1, <5>1
      <4>2. CASE m # end
        <5>1. m \in After(S, end)
          BY <1>0, <3>2, <4>2 DEF After
        <5>2. \A x \in After(S, end) : m <= x
          BY <1>0, <3>1, AfterNats
        <5> QED BY <1>0, <5>1, <5>2, UpcomingFirst
      <4> QED BY <4>1, <4>2
    <3>6. (rate + S[m]) * (end - n) = d + a /\ a + b = c
      BY <1>0, <3>2, Distribute
    <3>7. a \in Int /\ b \in Int /\ c \in Int /\ d \in Int
      BY <1>0, <3>2
    <3>8. UpcomingRewards(R, n) = (d + a) + UpcomingRewards(S, end) /\ UpcomingRewards(S, n) = c + UpcomingRewards(S, m)
      BY <2>6, <2>7, <3>1, <3>3, <3>6
    <3> HIDE DEF a, b, c, d, beyond
    <3>9. UpcomingRewards(R, n) = UpcomingRewards(S, n) + d
      BY <3>4, <3>5, <3>6, <3>7, <3>8
    <3> QED BY <3>9 DEF d
  <2> QED BY <2>9, <2>10
<1> QED BY <1>1, <1>2

(* The period adds what it was deposited for, however many others it runs  *)
(* beside.                                                                 *)
LEMMA InsertedAdds ==
  ASSUME NEW S \in Schedules, NEW R \in Schedules, NEW n \in Nat, NEW rate \in Nat \ {0},
         NEW end \in Seconds, n < end, Inserted(S, R, n, rate, end)
  PROVE  UpcomingRewards(R, n) = UpcomingRewards(S, n) + rate * (end - n)
<1> DEFINE Adds(m) == UpcomingRewards(R, m) = UpcomingRewards(S, m) + rate * (end - m)
           T == {j \in Nat : \A m \in Nat : n <= m /\ m <= end /\ end - m <= j => Adds(m)}
           b == end - n
<1>0. end \in Nat /\ b \in Nat
  BY HorizonNat DEF Seconds
<1>1. 0 \in T
  <2>1. UpcomingRewards(R, end) = UpcomingRewards(S, end)
    BY <1>0, UpcomingSame DEF Inserted
  <2>2. UpcomingRewards(S, end) \in Nat /\ rate * (end - end) = 0
    BY <1>0, UpcomingNat
  <2>3. Adds(end)
    BY <2>1, <2>2
  <2> HIDE DEF Adds
  <2>4. \A m \in Nat : n <= m /\ m <= end /\ end - m <= 0 => m = end
    BY <1>0
  <2> QED BY <2>3, <2>4
<1>2. \A j \in 0..b : j < b /\ j \in T => j + 1 \in T
  <2> SUFFICES ASSUME NEW j \in 0..b, j < b, j \in T,
                      NEW m \in Nat, n <= m, m <= end, end - m <= j + 1
               PROVE  Adds(m)
    OBVIOUS
  <2>1. CASE end - m <= j
    BY <2>1
  <2>2. CASE ~(end - m <= j)
    <3>1. m < end /\ \A k \in Nat : m < k /\ k <= end => n <= k /\ end - k <= j
      BY <1>0, <2>2
    <3>2. \A k \in Nat : m < k /\ k <= end => Adds(k)
      <4> HIDE DEF Adds
      <4> QED BY <3>1
    <3>3. Inserted(S, R, m, rate, end)
      <4>1. \A e \in Seconds : m < e => n < e
        BY HorizonNat DEF Seconds
      <4> QED BY <4>1 DEF Inserted
    <3> QED BY <3>1, <3>2, <3>3, InsertedStep
  <2> QED BY <2>1, <2>2
<1> HIDE DEF T
<1>3. b \in T
  <2>1. \A j \in 0..b : j \in T
    BY <1>0, <1>1, <1>2, RangeInduction
  <2> QED BY <1>0, <2>1
<1>4. Adds(n)
  <2>1. \A m \in Nat : n <= m /\ m <= end /\ end - m <= b => Adds(m)
    <3> HIDE DEF Adds
    <3> QED BY <1>3 DEF T
  <2> HIDE DEF Adds
  <2> QED BY <1>0, <2>1
<1> QED BY <1>4
-----------------------------------------------------------------------------
(* What a reward has reached and what it has still to emit, nothing        *)
(* without a reward.                                                       *)
IndexOf(rewards, x) == IF x \in DOMAIN rewards THEN rewards[x].index ELSE 0

ToCome(rewards, S, last, x) ==
  IF x \in DOMAIN rewards THEN Left(rewards[x], S, last) + rewards[x].orphaned ELSE 0

(* The index a pool in memory has reached; what it has still to emit and   *)
(* what it is about to give to the orphans.                                *)
MemIndex(mem, x) == IndexOf(mem.rewards, x) + IndexOf(mem.rewards_to_remove, x)
InMemory(mem, S, x) ==
  ToCome(mem.rewards, S, mem.last_update_ts, x) + mem.orphaned_to_claim[x]
    + (IF x \in DOMAIN mem.rewards_to_remove THEN mem.rewards_to_remove[x].orphaned ELSE 0)

(* What one update does to an external reward that is due. *)
LEMMA UpdateRewardKeepsDue ==
  ASSUME NEW r \in RewardInfo, NEW k \in Tokens, NEW S \in Schedules, NEW total \in Nat,
         NEW last \in Nat, NEW t \in Nat, last <= t, r.next_update_ts > last
  PROVE  LET u == UpdateReward(r, k, S, total, last, t)
         IN  /\ u \in RewardInfo /\ u.index >= r.index
             /\ total * (u.index - r.index) + u.orphaned + (IF total > 0 THEN r.orphaned ELSE 0)
                  + (IF Finishes(r, k, S, t) THEN 0 ELSE Left(u, S, t))
                  <= Left(r, S, last) + r.orphaned
<1> DEFINE u == UpdateReward(r, k, S, total, last, t)
           c == Collected(r, k, S, last, t)
           rest == IF Finishes(r, k, S, t) THEN 0 ELSE Left(u, S, t)
<1>0. k \in Keys /\ k # Internal /\ r.index \in Nat /\ r.orphaned \in Nat
  BY DEF Keys, Tokens, Internal, RewardInfo
<1>1. u \in RewardInfo /\ (~Finishes(r, k, S, t) => u.next_update_ts > t)
  BY <1>0, UpdateRewardOK
<1>2. u.index \in Nat /\ u.next_update_ts \in Nat
  BY <1>1 DEF RewardInfo
<1>3. c \in Nat
  BY <1>0, CollectedNat
<1>4. rest \in Nat
  <2>1. CASE Finishes(r, k, S, t)
    BY <2>1
  <2>2. CASE ~Finishes(r, k, S, t)
    <3> HIDE DEF u
    <3>1. u.next_update_ts >= t
      BY <1>1, <1>2, <2>2
    <3>2. Left(u, S, t) \in Nat
      BY <1>1, <3>1, LeftNat
    <3> QED BY <2>2, <3>2
  <2> QED BY <2>1, <2>2
<1>5. Left(r, S, last) = c + rest
  BY UpdateConserves
<1>6. /\ u.index = IF total = 0 THEN r.index ELSE r.index + (c \div total)
      /\ u.orphaned = IF total = 0 THEN r.orphaned + c ELSE 0
  BY DEF UpdateReward
<1>7. CASE total = 0
  <2> HIDE DEF u, c, rest
  <2>1. total * (u.index - r.index) = 0
    BY <1>0, <1>6, <1>7
  <2>2. u.orphaned = r.orphaned + c /\ u.index = r.index
    BY <1>6, <1>7
  <2>3. total * (u.index - r.index) + u.orphaned + (IF total > 0 THEN r.orphaned ELSE 0) + rest
          <= Left(r, S, last) + r.orphaned
    BY <1>0, <1>3, <1>4, <1>5, <1>7, <2>1, <2>2
  <2> QED BY <1>0, <1>1, <2>2, <2>3 DEF u, rest
<1>8. CASE total # 0
  <2> DEFINE q == c \div total
  <2>1. q \in Nat /\ q * total <= c
    BY <1>3, <1>8, DivBounds, DivNat
  <2>2. u.index = r.index + q /\ u.orphaned = 0
    BY <1>6, <1>8
  <2> HIDE DEF u, c, rest, q
  <2> DEFINE paid == total * (u.index - r.index)
  <2>3. paid \in Int /\ paid <= c
    <3>1. u.index - r.index = q
      BY <1>0, <2>1, <2>2
    <3>2. paid = q * total
      BY <2>1, <3>1
    <3> HIDE DEF paid
    <3>3. q * total \in Int
      BY <2>1
    <3> QED BY <2>1, <3>2, <3>3
  <2> HIDE DEF paid
  <2>4. paid + u.orphaned + (IF total > 0 THEN r.orphaned ELSE 0) + rest <= Left(r, S, last) + r.orphaned
    BY <1>0, <1>3, <1>4, <1>5, <1>8, <2>2, <2>3
  <2> QED BY <1>0, <1>1, <2>1, <2>2, <2>4 DEF u, rest, paid
<1> QED BY <1>7, <1>8

(* An update moves what is to come to the stakers or the orphans, and      *)
(* adds nothing.                                                           *)
LEMMA UpdateKeepsDue ==
  ASSUME NEW t \in Nat, NEW pool, PoolOKBy(pool, t), NEW sched \in [Tokens -> Schedules],
         NEW x \in Tokens \ {RewardToken}
  PROVE  LET up == UpdateRewards(Load(pool), sched, t)
         IN  /\ MemIndex(up, x) - IndexOf(pool.rewards, x) \in Nat
             /\ pool.total_lp * (MemIndex(up, x) - IndexOf(pool.rewards, x)) + InMemory(up, sched[x], x)
                  <= ToCome(pool.rewards, sched[x], pool.last_update_ts, x)
<1> DEFINE mem == Load(pool)
           up == UpdateRewards(mem, sched, t)
           old == mem.rewards
           S(k) == IF k = Internal THEN NoSchedules ELSE sched[k]
           new == [k \in DOMAIN old |-> UpdateReward(old[k], k, S(k), mem.total_lp, mem.last_update_ts, t)]
           done == {k \in DOMAIN old : k # Internal /\ Finishes(old[k], k, sched[k], t)}
           flushed(k) == IF k \in DOMAIN old /\ mem.total_lp > 0 THEN old[k].orphaned ELSE 0
           removed == [k \in done |-> [index |-> new[k].index, orphaned |-> new[k].orphaned]]
           claim == [y \in Tokens |-> flushed(y) + (IF y = RewardToken THEN flushed(Internal) ELSE 0)]
           before == ToCome(pool.rewards, sched[x], pool.last_update_ts, x)
<1>1. /\ mem.total_lp = pool.total_lp /\ mem.last_update_ts = pool.last_update_ts
      /\ mem.rewards = pool.rewards /\ mem.rewards_to_remove = NoRewards
      /\ mem.orphaned_to_claim = [y \in Tokens |-> 0]
  BY DEF Load
<1>2. /\ x \in Tokens /\ x # Internal /\ x # RewardToken /\ sched[x] \in Schedules
      /\ pool.total_lp \in Nat /\ pool.last_update_ts \in Nat /\ pool.last_update_ts <= t
  BY DEF Tokens, Internal, PoolOKBy
<1>3. x \in DOMAIN pool.rewards =>
         /\ pool.rewards[x] \in RewardInfo
         /\ pool.rewards[x].index \in Nat /\ pool.rewards[x].orphaned \in Nat
         /\ pool.rewards[x].next_update_ts \in Nat
         /\ pool.rewards[x].next_update_ts > pool.last_update_ts
  BY <1>2 DEF PoolOKBy, RewardInfo
<1>4. before \in Nat
  <2>1. CASE x \notin DOMAIN pool.rewards
    BY <2>1 DEF ToCome
  <2>2. CASE x \in DOMAIN pool.rewards
    <3>1. pool.rewards[x].next_update_ts >= pool.last_update_ts
      BY <1>2, <1>3, <2>2
    <3>2. Left(pool.rewards[x], sched[x], pool.last_update_ts) \in Nat
      BY <1>2, <1>3, <2>2, <3>1, LeftNat
    <3> QED BY <1>3, <2>2, <3>2 DEF ToCome
  <2> QED BY <2>1, <2>2
<1>5. CASE t <= mem.last_update_ts
  <2>1. up = mem
    BY <1>5 DEF UpdateRewards
  <2>2. MemIndex(up, x) = IndexOf(pool.rewards, x) + 0
    BY <1>1, <2>1 DEF MemIndex, IndexOf, NoRewards
  <2>3. IndexOf(pool.rewards, x) \in Nat
    BY <1>3 DEF IndexOf
  <2>4. InMemory(up, sched[x], x) = before + 0 + 0
    BY <1>1, <1>2, <2>1 DEF InMemory, NoRewards
  <2> HIDE DEF up, before
  <2>5. MemIndex(up, x) - IndexOf(pool.rewards, x) = 0 /\ InMemory(up, sched[x], x) = before
    BY <1>4, <2>2, <2>3, <2>4
  <2>6. pool.total_lp * (MemIndex(up, x) - IndexOf(pool.rewards, x)) = 0
    BY <1>2, <2>5
  <2> QED BY <1>4, <2>5, <2>6 DEF up, before
<1>6. CASE ~(t <= mem.last_update_ts)
  <2>1. up = [total_lp |-> pool.total_lp, last_update_ts |-> t,
              rewards |-> [k \in DOMAIN old \ done |-> new[k]],
              rewards_to_remove |-> removed, orphaned_to_claim |-> claim]
    BY <1>6 DEF UpdateRewards, Load
  <2>2. CASE x \notin DOMAIN pool.rewards
    <3>1. x \notin DOMAIN up.rewards /\ x \notin DOMAIN up.rewards_to_remove
      BY <1>1, <2>1, <2>2
    <3>2. up.orphaned_to_claim[x] = 0
      BY <1>1, <1>2, <2>1, <2>2
    <3> HIDE DEF up, before
    <3>3. MemIndex(up, x) = 0 /\ IndexOf(pool.rewards, x) = 0 /\ InMemory(up, sched[x], x) = 0
      BY <2>2, <3>1, <3>2 DEF MemIndex, IndexOf, InMemory, ToCome
    <3>4. pool.total_lp * (MemIndex(up, x) - IndexOf(pool.rewards, x)) = 0
      BY <1>2, <3>3
    <3> QED BY <1>4, <3>3, <3>4 DEF up, before
  <2>3. CASE x \in DOMAIN pool.rewards
    <3> DEFINE r == pool.rewards[x]
               u == UpdateReward(r, x, sched[x], pool.total_lp, pool.last_update_ts, t)
               fin == Finishes(r, x, sched[x], t)
    <3>1. new[x] = u
      BY <1>1, <1>2, <2>3
    <3>2. up.orphaned_to_claim[x] = IF pool.total_lp > 0 THEN r.orphaned ELSE 0
      <4>1. r.orphaned \in Nat
        BY <1>3, <2>3
      <4> QED BY <1>1, <1>2, <2>1, <2>3, <4>1
    <3>3. /\ x \in done <=> fin
          /\ x \in DOMAIN up.rewards <=> ~fin
          /\ ~fin => up.rewards[x] = u
          /\ x \in DOMAIN up.rewards_to_remove <=> fin
          /\ fin => up.rewards_to_remove[x] = [index |-> u.index, orphaned |-> u.orphaned]
      <4> HIDE DEF new, u
      <4> QED BY <1>1, <1>2, <2>1, <2>3, <3>1
    <3>4. up.last_update_ts = t
      BY <2>1
    <3>5. /\ u \in RewardInfo /\ u.index >= r.index
          /\ pool.total_lp * (u.index - r.index) + u.orphaned + (IF pool.total_lp > 0 THEN r.orphaned ELSE 0)
                  + (IF fin THEN 0 ELSE Left(u, sched[x], t))
                  <= Left(r, sched[x], pool.last_update_ts) + r.orphaned
      BY <1>2, <1>3, <2>3, UpdateRewardKeepsDue
    <3>6. u.index \in Nat /\ u.orphaned \in Nat /\ r.index \in Nat /\ r.orphaned \in Nat /\ u.next_update_ts \in Nat
      BY <1>3, <2>3, <3>5 DEF RewardInfo
    <3>7. before = Left(r, sched[x], pool.last_update_ts) + r.orphaned
      BY <2>3 DEF ToCome
    <3>8. ~fin => Left(u, sched[x], t) \in Nat
      <4>1. ~fin => u.next_update_ts > t
        BY <1>2, <1>3, <2>3, UpdateRewardOK DEF Keys
      <4> HIDE DEF u, fin
      <4> QED BY <1>2, <3>5, <3>6, <4>1, LeftNat
    <3> HIDE DEF up, u, fin, before
    <3>9. MemIndex(up, x) = u.index /\ IndexOf(pool.rewards, x) = r.index
      BY <2>3, <3>3, <3>6 DEF MemIndex, IndexOf
    <3>10. InMemory(up, sched[x], x) = u.orphaned + (IF pool.total_lp > 0 THEN r.orphaned ELSE 0)
                  + (IF fin THEN 0 ELSE Left(u, sched[x], t))
      <4>1. CASE fin
        <5>1. InMemory(up, sched[x], x) = 0 + (IF pool.total_lp > 0 THEN r.orphaned ELSE 0) + u.orphaned
          BY <3>2, <3>3, <4>1 DEF InMemory, ToCome
        <5> QED BY <3>6, <4>1, <5>1
      <4>2. CASE ~fin
        <5>1. InMemory(up, sched[x], x) = Left(u, sched[x], t) + u.orphaned
                                             + (IF pool.total_lp > 0 THEN r.orphaned ELSE 0) + 0
          BY <3>2, <3>3, <3>4, <4>2 DEF InMemory, ToCome
        <5> QED BY <3>6, <3>8, <4>2, <5>1
      <4> QED BY <4>1, <4>2
    <3> DEFINE a == pool.total_lp * (u.index - r.index)
    <3>11. a \in Int
      BY <1>2, <3>6
    <3>12. a + u.orphaned + (IF pool.total_lp > 0 THEN r.orphaned ELSE 0)
                  + (IF fin THEN 0 ELSE Left(u, sched[x], t)) <= before
      BY <3>5, <3>7
    <3>13. pool.total_lp * (MemIndex(up, x) - IndexOf(pool.rewards, x)) = a
      BY <3>9
    <3> HIDE DEF a
    <3>14. pool.total_lp * (MemIndex(up, x) - IndexOf(pool.rewards, x)) + InMemory(up, sched[x], x) <= before
      BY <1>4, <3>6, <3>8, <3>10, <3>11, <3>12, <3>13
    <3>15. MemIndex(up, x) - IndexOf(pool.rewards, x) \in Nat
      BY <3>5, <3>6, <3>9
    <3> QED BY <3>14, <3>15 DEF up, before
  <2> QED BY <2>2, <2>3
<1> QED BY <1>5, <1>6
-----------------------------------------------------------------------------
(* Schedules in order: periods end on epoch boundaries, and the reward of  *)
(* a pool is the one whose period is in force, so no other stored period   *)
(* ends before its own.  Without a reward there are no periods to come.    *)
OnBoundary(e) == e % EpochLength = 0
EndsOnBoundaries(S) == \A e \in Seconds : S[e] > 0 => OnBoundary(e)

InOrder(rewards, S, last, x) ==
  /\ EndsOnBoundaries(S)
  /\ x \in DOMAIN rewards => /\ rewards[x].rps > 0 /\ rewards[x].next_update_ts \in Seconds
                             /\ OnBoundary(rewards[x].next_update_ts)
  /\ \A e \in Seconds : last < e /\ (x \in DOMAIN rewards => e < rewards[x].next_update_ts) => S[e] = 0

(* Updating passes the periods that ended and puts the next one in force. *)
LEMMA UpdateKeepsOrder ==
  ASSUME NEW t \in Nat, NEW pool, PoolOKBy(pool, t), NEW sched \in [Tokens -> Schedules], NEW x \in Tokens,
         InOrder(pool.rewards, sched[x], pool.last_update_ts, x)
  PROVE  InOrder(UpdateRewards(Load(pool), sched, t).rewards, sched[x], t, x)
<1> DEFINE mem == Load(pool)
           up == UpdateRewards(mem, sched, t)
           last == pool.last_update_ts
           old == pool.rewards
           S == sched[x]
           done == {k \in DOMAIN old : k # Internal /\ Finishes(old[k], k, sched[k], t)}
           new == [k \in DOMAIN old |-> UpdateReward(old[k], k, IF k = Internal THEN NoSchedules ELSE sched[k],
                                                     pool.total_lp, last, t)]
<1>1. S \in Schedules /\ x # Internal /\ last \in Nat /\ last <= t
  BY DEF PoolOKBy, Tokens, Internal
<1>2. \A e \in Seconds : S[e] \in Nat /\ e \in Nat
  BY <1>1, HorizonNat DEF Schedules, Seconds
<1>3. CASE t <= last
  <2>1. up = mem /\ last = t
    BY <1>1, <1>3 DEF UpdateRewards, Load
  <2>2. up.rewards = old
    BY <2>1 DEF Load
  <2> QED BY <2>1, <2>2
<1>4. CASE ~(t <= last)
  <2>1. up.rewards = [k \in DOMAIN old \ done |-> new[k]]
    BY <1>4 DEF UpdateRewards, Load
  <2>2. EndsOnBoundaries(S)
    BY DEF InOrder
  <2>3. CASE x \notin DOMAIN old
    <3>1. x \notin DOMAIN up.rewards
      BY <2>1, <2>3
    <3>2. \A e \in Seconds : t < e => S[e] = 0
      BY <1>1, <1>2, <2>3 DEF InOrder
    <3> HIDE DEF up
    <3> QED BY <2>2, <3>1, <3>2 DEF InOrder, up
  <2>4. CASE x \in DOMAIN old
    <3> DEFINE r == old[x]
               u == UpdateReward(r, x, S, pool.total_lp, last, t)
               n == r.next_update_ts
    <3>1. r.rps > 0 /\ n \in Seconds /\ OnBoundary(n) /\ \A e \in Seconds : last < e /\ e < n => S[e] = 0
      BY <2>4 DEF InOrder
    <3>2. x \in done <=> Finishes(r, x, S, t)
      BY <1>1, <2>4
    <3>3. new[x] = u
      BY <1>1, <2>4
    <3>4. x \in DOMAIN up.rewards => x \notin done /\ up.rewards[x] = u
      <4> HIDE DEF new, u
      <4> QED BY <2>1, <3>3
    <3>a. x \notin DOMAIN up.rewards => x \in done
      BY <2>1, <2>4
    <3>5. Ended(r, x, t) <=> n <= t
      BY <1>1 DEF Ended
    <3>6. n \in Nat
      BY <1>2, <3>1
    <3> DEFINE m == Running(S, t)
    <3>7. /\ u.rps = (IF Finishes(r, x, S, t) THEN 0 ELSE IF Ended(r, x, t) /\ HasRunning(S, t) THEN S[m] ELSE r.rps)
          /\ u.next_update_ts = (IF Ended(r, x, t) /\ HasRunning(S, t) THEN m ELSE n)
      BY DEF UpdateReward
    <3>8. HasRunning(S, t) => /\ m \in Seconds /\ S[m] > 0 /\ m > t
                              /\ \A e \in Seconds : t < e /\ e < m => S[e] = 0
      <4> SUFFICES ASSUME HasRunning(S, t)
                   PROVE  /\ m \in Seconds /\ S[m] > 0 /\ m > t
                          /\ \A e \in Seconds : t < e /\ e < m => S[e] = 0
        OBVIOUS
      <4>1. m \in After(S, t) /\ \A k \in After(S, t) : m <= k
        BY <1>1, AfterNats, MinOfNats DEF HasRunning, Running
      <4> HIDE DEF m
      <4>2. m \in Nat /\ m \in Seconds /\ S[m] > 0 /\ m > t
        BY <1>1, <1>2, <4>1, AfterNats
      <4>3. ASSUME NEW e \in Seconds, t < e, e < m PROVE S[e] = 0
        <5>1. e \notin After(S, t)
          BY <1>2, <4>1, <4>2, <4>3
        <5> QED BY <1>2, <4>3, <5>1 DEF After
      <4> QED BY <4>2, <4>3
    <3> SUFFICES InOrder(up.rewards, S, t, x)
      OBVIOUS
    <3> HIDE DEF up, u, new, done, m
    <3>9. CASE x \in DOMAIN up.rewards
      <4>1. ~Finishes(r, x, S, t) /\ up.rewards[x] = u
        BY <3>2, <3>4, <3>9
      <4>2. CASE Ended(r, x, t)
        <5>1. HasRunning(S, t) /\ u.rps = S[m] /\ u.next_update_ts = m
          BY <3>7, <4>1, <4>2 DEF Finishes
        <5>2. OnBoundary(m)
          BY <2>2, <3>8, <5>1 DEF EndsOnBoundaries
        <5> QED BY <2>2, <3>8, <3>9, <4>1, <5>1, <5>2 DEF InOrder
      <4>3. CASE ~Ended(r, x, t)
        <5>1. u.rps = r.rps /\ u.next_update_ts = n
          BY <3>7, <4>1, <4>3
        <5>2. \A e \in Seconds : t < e /\ e < n => S[e] = 0
          BY <1>1, <1>2, <3>1
        <5> QED BY <2>2, <3>1, <3>9, <4>1, <5>1, <5>2 DEF InOrder
      <4> QED BY <4>2, <4>3
    <3>10. CASE x \notin DOMAIN up.rewards
      <4>1. ~HasRunning(S, t)
        BY <3>2, <3>a, <3>10 DEF Finishes
      <4>2. \A e \in Seconds : t < e => S[e] = 0
        BY <1>2, <4>1 DEF HasRunning, After
      <4> QED BY <2>2, <3>10, <4>2 DEF InOrder
    <3> QED BY <3>9, <3>10
  <2> QED BY <2>3, <2>4
<1> QED BY <1>3, <1>4
-----------------------------------------------------------------------------
(* The end of a schedule. *)
LEMMA EndTsOK ==
  ASSUME NEW t \in 1..MaxTime, NEW periods \in 1..MaxPeriods
  PROVE  LET end == EndTs(t, periods)
         IN  /\ end \in Seconds /\ end > t /\ OnBoundary(end)
             /\ NextEpochStart(t) \in Nat
             /\ \A n \in Nat : n > t /\ OnBoundary(n) => n >= NextEpochStart(t)
<1> DEFINE E == EpochLength
           q == t \div E
           start == NextEpochStart(t)
           end == EndTs(t, periods)
<1>0. t \in Nat /\ MaxTime \in Nat /\ MaxPeriods \in Nat /\ E \in Nat \ {0} /\ periods \in Nat /\ t <= MaxTime /\ periods <= MaxPeriods
  BY MaxTimeAssumption, MaxPeriodsAssumption, EpochLengthAssumption
<1>1. q \in Nat /\ q * E <= t /\ t < q * E + E
  BY <1>0, DivBounds, DivNat
<1>2. start = (q + 1) * E /\ end = start + periods * E
  BY DEF NextEpochStart, EndTs
<1> DEFINE a == q * E
           b == periods * E
           c == MaxPeriods * E
<1> HIDE DEF E, q, start, end
<1>3. a \in Nat /\ b \in Nat /\ c \in Nat /\ (q + 1) * E = a + E /\ (MaxPeriods + 1) * E = c + E
  BY <1>0, <1>1, Distribute
<1>4. b <= c
  BY <1>0, Scaled
<1>5. Horizon = MaxTime + (c + E)
  BY <1>3 DEF Horizon, E
<1>6. a <= t /\ t < a + E
  BY <1>1
<1> HIDE DEF a, b, c
<1>7. start = a + E /\ end = (a + E) + b /\ start \in Nat /\ end \in Nat
  BY <1>0, <1>2, <1>3 DEF b
<1>8. end \in Seconds /\ end > t
  BY <1>0, <1>3, <1>4, <1>5, <1>6, <1>7 DEF Seconds
<1>9. OnBoundary(end)
  <2>1. end = E * (q + 1 + periods) + 0
    <3>1. E * (q + 1 + periods) = (q + 1) * E + periods * E
      BY <1>0, <1>1
    <3>2. end = (q + 1) * E + periods * E
      BY <1>2
    <3> QED BY <1>7, <3>1, <3>2
  <2>2. 0 \in 0..(E - 1) /\ q + 1 + periods \in Int
    BY <1>0, <1>1
  <2>3. end % E = 0
    <3> DEFINE k == q + 1 + periods
    <3>1. k \in Int /\ end = E * k + 0 /\ end \in Int
      BY <1>7, <2>1, <2>2
    <3> HIDE DEF k
    <3> QED BY <1>0, <2>2, <3>1, ModIs
  <2> QED BY <2>3 DEF OnBoundary, E
<1>10. ASSUME NEW n \in Nat, n > t, OnBoundary(n) PROVE n >= start
  <2> DEFINE k == n \div E
  <2>1. k \in Int /\ n = E * k + (n % E) /\ n % E = 0
    BY <1>0, <1>10, ModBounds DEF OnBoundary, E
  <2> HIDE DEF k
  <2>2. n = k * E
    BY <1>0, <2>1
  <2>3. CASE k >= q + 1
    <3>1. (q + 1) * E <= k * E
      BY <1>0, <1>1, <2>1, <2>3, Scaled
    <3> QED BY <1>2, <1>7, <2>2, <3>1
  <2>4. CASE ~(k >= q + 1)
    <3>1. k <= q
      BY <1>1, <2>1, <2>4
    <3>2. k * E <= q * E
      BY <1>0, <1>1, <2>1, <3>1, Scaled
    <3>3. n <= a
      BY <2>2, <3>2 DEF a
    <3> QED BY <1>0, <1>3, <1>6, <1>10, <3>3
  <2> QED BY <2>3, <2>4
<1> QED BY <1>7, <1>8, <1>9, <1>10 DEF end, start
-----------------------------------------------------------------------------
(* The reward of a pool that Incentivize leaves, and what it leaves alone. *)
LEMMA IncentivizedIs ==
  ASSUME NEW t \in Nat, NEW mem, MemOK(mem, t), NEW x \in Tokens, NEW rate \in Nat, NEW end \in Nat
  PROVE  LET funded == IncentivizeReward(mem, x, rate, end)
             n == mem.rewards[x].next_update_ts
         IN  /\ DOMAIN funded.rewards = DOMAIN mem.rewards \cup {x}
             /\ \A y \in DOMAIN mem.rewards \ {x} : funded.rewards[y] = mem.rewards[y]
             /\ funded.rewards_to_remove = mem.rewards_to_remove
             /\ funded.orphaned_to_claim = mem.orphaned_to_claim
             /\ funded.last_update_ts = mem.last_update_ts
             /\ x \notin DOMAIN mem.rewards =>
                  funded.rewards[x] = [rps |-> rate, index |-> 0, orphaned |-> 0, next_update_ts |-> end]
             /\ x \in DOMAIN mem.rewards =>
                  /\ funded.rewards[x].rps = mem.rewards[x].rps + rate
                  /\ funded.rewards[x].index = mem.rewards[x].index
                  /\ funded.rewards[x].orphaned = mem.rewards[x].orphaned
                  /\ funded.rewards[x].next_update_ts = IF n >= end THEN end ELSE n
<1> DEFINE old == mem.rewards[x]
           n == old.next_update_ts
           next == IF n >= end THEN end ELSE n
           new == [rps |-> rate, index |-> 0, orphaned |-> 0, next_update_ts |-> end]
           sum == old.rps + rate
           joined == [old EXCEPT !.rps = sum, !.next_update_ts = next]
           r == IF x \in DOMAIN mem.rewards THEN joined ELSE new
           funded == IncentivizeReward(mem, x, rate, end)
<1>1. funded = [mem EXCEPT !.rewards = Set(mem.rewards, x, r)]
  BY DEF IncentivizeReward
<1>2. x \in DOMAIN mem.rewards =>
        joined.rps = sum /\ joined.index = old.index /\ joined.orphaned = old.orphaned /\ joined.next_update_ts = next
  <2>1. x \in DOMAIN mem.rewards => old \in RewardInfo
    BY DEF MemOK
  <2> HIDE DEF old, next, sum
  <2> QED BY <2>1 DEF RewardInfo
<1>3. /\ x \in DOMAIN mem.rewards => r = joined
      /\ x \notin DOMAIN mem.rewards => r = new
  OBVIOUS
<1> HIDE DEF joined, r
<1>4. /\ funded.rewards = Set(mem.rewards, x, r)
      /\ funded.rewards_to_remove = mem.rewards_to_remove
      /\ funded.orphaned_to_claim = mem.orphaned_to_claim
      /\ funded.last_update_ts = mem.last_update_ts
  BY <1>1 DEF MemOK
<1>5. /\ DOMAIN funded.rewards = DOMAIN mem.rewards \cup {x}
      /\ \A y \in DOMAIN mem.rewards \ {x} : funded.rewards[y] = mem.rewards[y]
      /\ funded.rewards[x] = r
  BY <1>4 DEF Set
<1> HIDE DEF funded
<1> QED BY <1>2, <1>3, <1>4, <1>5 DEF funded

(* The stored periods that Incentivize leaves, one case of the code each.  *)
LEMMA IncentivizedSchedules ==
  ASSUME NEW t \in 1..MaxTime, NEW mem, MemOK(mem, t), NEW x \in Tokens, NEW rate \in Nat,
         NEW S \in Schedules, NEW periods \in 1..MaxPeriods, InOrder(mem.rewards, S, t, x)
  PROVE  LET end == EndTs(t, periods)
             n == mem.rewards[x].next_update_ts
             R == IncentivizeSchedules(mem, S, x, rate, t, end)
         IN  /\ x \notin DOMAIN mem.rewards \/ n = end => R = S
             /\ x \in DOMAIN mem.rewards /\ n > end => R = [S EXCEPT ![n] = mem.rewards[x].rps]
             /\ x \in DOMAIN mem.rewards /\ n < end =>
                  /\ Inserted(S, R, n, rate, end)
                  /\ \A e \in Seconds : e # end => (R[e] > 0 => S[e] > 0)
                  /\ \A e \in Seconds : t < e /\ e < n => R[e] = 0
<1> DEFINE end == EndTs(t, periods)
           n == mem.rewards[x].next_update_ts
           R == IncentivizeSchedules(mem, S, x, rate, t, end)
           start == NextEpochStart(t)
           later == After(S, start)
           beyond == {e \in later : e >= end}
           ahead == {e \in Seconds : e >= end /\ S[e] > 0}
           raised == IF beyond = {} THEN 0 ELSE S[Min(beyond)]
<1>0. /\ end \in Seconds /\ end > t /\ start \in Nat /\ t \in Nat /\ end \in Nat
      /\ \A k \in Nat : k > t /\ OnBoundary(k) => k >= start
      /\ \A e \in Seconds : S[e] \in Nat /\ e \in Nat
  BY EndTsOK, MaxTimeAssumption, HorizonNat DEF Seconds, Schedules
<1>1. x \in DOMAIN mem.rewards => n \in Nat /\ n > t
  BY DEF MemOK, RewardInfo, Tokens, Internal
<1>2. x \notin DOMAIN mem.rewards \/ n = end => R = S
  <2>1. CASE x \notin DOMAIN mem.rewards
    BY <2>1 DEF IncentivizeSchedules
  <2>2. CASE x \in DOMAIN mem.rewards /\ n = end
    <3>1. n >= end /\ ~(n > end)
      BY <1>0, <2>2
    <3> QED BY <2>2, <3>1 DEF IncentivizeSchedules
  <2> QED BY <2>1, <2>2
<1>3. x \in DOMAIN mem.rewards /\ n > end => R = [S EXCEPT ![n] = mem.rewards[x].rps]
  <2> SUFFICES ASSUME x \in DOMAIN mem.rewards, n > end PROVE R = [S EXCEPT ![n] = mem.rewards[x].rps]
    OBVIOUS
  <2>1. n >= end
    BY <1>0, <1>1
  <2> QED BY <2>1 DEF IncentivizeSchedules
<1>4. ASSUME x \in DOMAIN mem.rewards, n < end
      PROVE  /\ Inserted(S, R, n, rate, end)
             /\ \A e \in Seconds : e # end => (R[e] > 0 => S[e] > 0)
             /\ \A e \in Seconds : t < e /\ e < n => R[e] = 0
  <2>1. R = [e \in Seconds |-> IF e = end THEN rate + raised
                               ELSE IF e \in later /\ e < end THEN S[e] + rate ELSE S[e]]
    <3>1. ~(n >= end)
      BY <1>0, <1>1, <1>4
    <3> QED BY <1>4, <3>1 DEF IncentivizeSchedules
  <2>2. OnBoundary(n) /\ n >= start /\ \A e \in Seconds : t < e /\ e < n => S[e] = 0
    BY <1>0, <1>1, <1>4 DEF InOrder
  <2>3. \A e \in Seconds : e \in later <=> e > start /\ S[e] > 0
    BY DEF After
  <2>4. beyond = ahead
    <3>1. \A e \in Seconds : e >= end => e > start
      BY <1>0, <1>1, <1>4, <2>2
    <3> HIDE DEF end, start
    <3> QED BY <3>1 DEF After
  <2> HIDE DEF R, raised, later, start, end, n
  <2>5. R[end] = rate + raised
    BY <1>0, <2>1
  <2>6. \A e \in Seconds : n < e /\ e < end => R[e] = IF S[e] > 0 THEN S[e] + rate ELSE 0
    BY <1>0, <1>1, <1>4, <2>1, <2>2, <2>3
  <2>7. \A e \in Seconds : e > end => R[e] = S[e]
    BY <1>0, <2>1
  <2>8. \A e \in Seconds : e # end => (R[e] > 0 => S[e] > 0)
    BY <1>0, <2>1, <2>3
  <2>9. \A e \in Seconds : t < e /\ e < n => R[e] = 0
    BY <1>0, <1>1, <1>4, <2>1, <2>2, <2>3
  <2>10. raised = (IF ahead = {} THEN 0 ELSE S[Min(ahead)])
    BY <2>4 DEF raised
  <2>11. Inserted(S, R, n, rate, end)
    BY <2>5, <2>6, <2>7, <2>10 DEF Inserted
  <2> QED BY <2>8, <2>9, <2>11 DEF n, end, R
<1> QED BY <1>2, <1>3, <1>4
-----------------------------------------------------------------------------
(* A new schedule keeps periods on boundaries and the first one in force. *)
LEMMA IncentivizeKeepsOrder ==
  ASSUME NEW t \in 1..MaxTime, NEW mem, MemOK(mem, t), NEW x \in Tokens, NEW rate \in Nat \ {0},
         NEW S \in Schedules, NEW periods \in 1..MaxPeriods, InOrder(mem.rewards, S, t, x)
  PROVE  InOrder(IncentivizeReward(mem, x, rate, EndTs(t, periods)).rewards,
                 IncentivizeSchedules(mem, S, x, rate, t, EndTs(t, periods)), t, x)
<1> DEFINE end == EndTs(t, periods)
           n == mem.rewards[x].next_update_ts
           rps == mem.rewards[x].rps
           R == IncentivizeSchedules(mem, S, x, rate, t, end)
           rewards == IncentivizeReward(mem, x, rate, end).rewards
<1>0. /\ end \in Seconds /\ end > t /\ t \in Nat /\ end \in Nat /\ OnBoundary(end)
      /\ \A e \in Seconds : S[e] \in Nat /\ e \in Nat
  BY EndTsOK, MaxTimeAssumption, HorizonNat DEF Seconds, Schedules
<1>1. x \in DOMAIN mem.rewards => n \in Nat /\ n > t /\ rps \in Nat
  BY DEF MemOK, RewardInfo, Tokens, Internal
<1>2. /\ DOMAIN rewards = DOMAIN mem.rewards \cup {x}
      /\ x \notin DOMAIN mem.rewards => rewards[x].rps = rate /\ rewards[x].next_update_ts = end
      /\ x \in DOMAIN mem.rewards =>
           /\ rewards[x].rps = rps + rate
           /\ rewards[x].next_update_ts = IF n >= end THEN end ELSE n
  <2>1. /\ DOMAIN rewards = DOMAIN mem.rewards \cup {x}
        /\ x \notin DOMAIN mem.rewards =>
             rewards[x] = [rps |-> rate, index |-> 0, orphaned |-> 0, next_update_ts |-> end]
        /\ x \in DOMAIN mem.rewards =>
             /\ rewards[x].rps = rps + rate
             /\ rewards[x].next_update_ts = IF n >= end THEN end ELSE n
    BY <1>0, IncentivizedIs
  <2> HIDE DEF rewards, end, n, rps
  <2> QED BY <2>1
<1>3. /\ EndsOnBoundaries(S)
      /\ x \in DOMAIN mem.rewards => n \in Seconds /\ OnBoundary(n) /\ rps > 0
      /\ \A e \in Seconds : t < e /\ (x \in DOMAIN mem.rewards => e < n) => S[e] = 0
  BY DEF InOrder
<1>4. /\ x \notin DOMAIN mem.rewards \/ n = end => R = S
      /\ x \in DOMAIN mem.rewards /\ n > end => R = [S EXCEPT ![n] = rps]
      /\ x \in DOMAIN mem.rewards /\ n < end =>
           /\ Inserted(S, R, n, rate, end)
           /\ \A e \in Seconds : e # end => (R[e] > 0 => S[e] > 0)
           /\ \A e \in Seconds : t < e /\ e < n => R[e] = 0
  BY IncentivizedSchedules
<1> SUFFICES InOrder(rewards, R, t, x)
  OBVIOUS
<1> HIDE DEF end, n, rps, R, rewards
<1>5. CASE x \notin DOMAIN mem.rewards
  <2>1. R = S /\ rewards[x].rps = rate /\ rewards[x].next_update_ts = end
    BY <1>2, <1>4, <1>5
  <2> QED BY <1>0, <1>3, <1>5, <2>1 DEF InOrder
<1>6. CASE x \in DOMAIN mem.rewards
  <2>1. rewards[x].rps > 0 /\ x \in DOMAIN rewards
    BY <1>1, <1>2, <1>6
  <2>2. CASE n = end
    <3>1. R = S /\ rewards[x].next_update_ts = end
      BY <1>0, <1>2, <1>4, <1>6, <2>2
    <3> QED BY <1>0, <1>3, <1>6, <2>1, <2>2, <3>1 DEF InOrder
  <2>3. CASE n > end
    <3>1. R = [S EXCEPT ![n] = rps] /\ rewards[x].next_update_ts = end
      BY <1>0, <1>1, <1>2, <1>4, <1>6, <2>3
    <3>2. \A e \in Seconds : R[e] = IF e = n THEN rps ELSE S[e]
      BY <3>1 DEF Schedules
    <3>3. EndsOnBoundaries(R)
      BY <1>3, <1>6, <3>2 DEF EndsOnBoundaries
    <3>4. \A e \in Seconds : t < e /\ e < end => R[e] = 0
      BY <1>0, <1>1, <1>3, <1>6, <2>3, <3>2
    <3> QED BY <1>0, <1>6, <2>1, <3>1, <3>3, <3>4 DEF InOrder
  <2>4. CASE n < end
    <3>1. rewards[x].next_update_ts = n
      BY <1>0, <1>1, <1>2, <1>6, <2>4
    <3>2. EndsOnBoundaries(R)
      BY <1>0, <1>3, <1>4, <1>6, <2>4 DEF EndsOnBoundaries
    <3>3. \A e \in Seconds : t < e /\ e < n => R[e] = 0
      BY <1>4, <1>6, <2>4
    <3> QED BY <1>3, <1>6, <2>1, <3>1, <3>2, <3>3 DEF InOrder
  <2> QED BY <1>0, <1>1, <1>6, <2>2, <2>3, <2>4
<1> QED BY <1>5, <1>6

(* A new schedule adds what it is to emit, and nothing else, whichever way *)
(* it overlaps with the periods that are already stored.                   *)
LEMMA IncentivizeAdds ==
  ASSUME NEW t \in 1..MaxTime, NEW mem, MemOK(mem, t), NEW x \in Tokens, NEW rate \in Nat \ {0},
         NEW S \in Schedules, NEW periods \in 1..MaxPeriods, InOrder(mem.rewards, S, t, x)
  PROVE  LET end == EndTs(t, periods)
             funded == IncentivizeReward(mem, x, rate, end)
             R == IncentivizeSchedules(mem, S, x, rate, t, end)
         IN  ToCome(funded.rewards, R, t, x) = ToCome(mem.rewards, S, t, x) + rate * (end - t)
<1> DEFINE end == EndTs(t, periods)
           r == mem.rewards[x]
           n == mem.rewards[x].next_update_ts
           rps == mem.rewards[x].rps
           R == IncentivizeSchedules(mem, S, x, rate, t, end)
           rewards == IncentivizeReward(mem, x, rate, end).rewards
           next == IF n >= end THEN end ELSE n
           added == rate * (end - t)
           Up(Q, m) == UpcomingRewards(Q, m)
<1>0. /\ end \in Seconds /\ end > t /\ t \in Nat /\ end \in Nat
      /\ \A e \in Seconds : S[e] \in Nat /\ e \in Nat
  BY EndTsOK, MaxTimeAssumption, HorizonNat DEF Seconds, Schedules
<1>1. x \in DOMAIN mem.rewards => n \in Nat /\ n > t /\ rps \in Nat /\ r.orphaned \in Nat
  BY DEF MemOK, RewardInfo, Tokens, Internal
<1>2. /\ DOMAIN rewards = DOMAIN mem.rewards \cup {x}
      /\ x \notin DOMAIN mem.rewards =>
           rewards[x] = [rps |-> rate, index |-> 0, orphaned |-> 0, next_update_ts |-> end]
      /\ x \in DOMAIN mem.rewards =>
           /\ rewards[x].rps = rps + rate
           /\ rewards[x].orphaned = r.orphaned
           /\ rewards[x].next_update_ts = next
  BY <1>0, IncentivizedIs
<1>3. /\ x \in DOMAIN mem.rewards => n \in Seconds /\ rps > 0
      /\ \A e \in Seconds : t < e /\ (x \in DOMAIN mem.rewards => e < n) => S[e] = 0
  BY DEF InOrder
<1>4. /\ x \notin DOMAIN mem.rewards \/ n = end => R = S
      /\ x \in DOMAIN mem.rewards /\ n > end => R = [S EXCEPT ![n] = rps]
      /\ x \in DOMAIN mem.rewards /\ n < end => Inserted(S, R, n, rate, end)
  BY IncentivizedSchedules
<1>5. added \in Nat
  <2>1. end - t \in Nat
    BY <1>0
  <2> QED BY <2>1
<1>6. R \in Schedules
  BY <1>0, IncentivizeSchedulesOK
<1> SUFFICES ToCome(rewards, R, t, x) = ToCome(mem.rewards, S, t, x) + added
  OBVIOUS
<1> HIDE DEF end, R, rewards
<1>7. CASE x \notin DOMAIN mem.rewards
  <2>1. After(S, end) = {}
    <3> SUFFICES ASSUME NEW e \in After(S, end) PROVE FALSE
      OBVIOUS
    <3>1. e \in Seconds /\ e > end /\ S[e] > 0
      BY DEF After
    <3>2. e \in Nat /\ t < e
      BY <1>0, <3>1
    <3> QED BY <1>3, <1>7, <3>1, <3>2
  <2>2. UpcomingRewards(S, end) = 0
    BY <1>0, <2>1, UpcomingFirst
  <2>3. R = S /\ rewards[x].rps = rate /\ rewards[x].orphaned = 0 /\ rewards[x].next_update_ts = end /\ x \in DOMAIN rewards
    BY <1>2, <1>4, <1>7
  <2>4. ToCome(rewards, R, t, x) = added + 0 + 0
    BY <2>2, <2>3 DEF ToCome, Left
  <2>5. ToCome(mem.rewards, S, t, x) = 0
    BY <1>7 DEF ToCome
  <2> HIDE DEF added
  <2> QED BY <1>5, <2>4, <2>5
<1>8. CASE x \in DOMAIN mem.rewards
  <2> HIDE DEF next
  <2>1. /\ x \in DOMAIN rewards /\ rewards[x].rps = rps + rate
        /\ rewards[x].orphaned = r.orphaned /\ rewards[x].next_update_ts = next
    BY <1>2, <1>8
  <2> DEFINE old == rps * (n - t)
             both == (rps + rate) * (next - t)
             o == r.orphaned
             q == Up(R, next)
             p == Up(S, n)
  <2>2. ToCome(rewards, R, t, x) = both + q + o
    BY <2>1 DEF ToCome, Left
  <2>3. ToCome(mem.rewards, S, t, x) = old + p + o
    BY <1>8 DEF ToCome, Left
  <2>4. next \in Nat /\ n \in Nat /\ rps \in Nat /\ n > t /\ o \in Nat
    BY <1>0, <1>1, <1>8 DEF next
  <2>5. p \in Nat /\ q \in Nat /\ old \in Int /\ both \in Int
    <3>1. n - t \in Int /\ next - t \in Int /\ rps + rate \in Int
      BY <1>0, <2>4
    <3> QED BY <1>6, <2>4, <3>1, UpcomingNat
  <2>6. both + q = old + p + added
    <3>a. both = rps * (next - t) + rate * (next - t)
      BY <1>0, <2>4, Distribute
    <3>1. CASE n = end
      <4>1. next = end /\ R = S
        BY <1>0, <1>4, <3>1 DEF next
      <4>2. both = old + added /\ q = p
        BY <3>a, <3>1, <4>1
      <4> HIDE DEF both, old, added, p, q
      <4> QED BY <1>5, <2>5, <4>2
    <3>2. CASE n > end
      <4>1. next = end /\ R = [S EXCEPT ![n] = rps]
        BY <1>0, <1>4, <1>8, <2>4, <3>2 DEF next
      <4>2. \A e \in Seconds : R[e] = IF e = n THEN rps ELSE S[e]
        BY <4>1 DEF Schedules
      <4>3. n \in After(R, end) /\ \A e \in After(R, end) : n <= e
        <5>1. n \in After(R, end)
          BY <1>3, <1>8, <3>2, <4>2 DEF After
        <5>2. ASSUME NEW e \in After(R, end) PROVE n <= e
          <6>1. e \in Seconds /\ e \in Nat /\ e > end /\ R[e] > 0
            BY <1>0 DEF After
          <6>2. ~(n <= e) => S[e] = 0 /\ R[e] = S[e]
            BY <1>0, <1>3, <2>4, <4>2, <6>1
          <6> QED BY <6>1, <6>2
        <5> QED BY <5>1, <5>2
      <4>4. Up(R, end) = R[n] * (n - end) + Up(R, n) /\ R[n] = rps
        <5>1. R[n] = rps
          BY <1>3, <1>8, <4>2
        <5> QED BY <1>0, <1>6, <4>3, <5>1, UpcomingFirst
      <4>5. Up(R, n) = p
        BY <1>6, <1>0, <2>4, <4>2, UpcomingSame
      <4> DEFINE a == rps * (end - t)
                 b == rps * (n - end)
      <4>6. a + b = old /\ a \in Int /\ b \in Int
        BY <1>0, <2>4, Distribute
      <4>7. both = a + added /\ q = b + p
        BY <3>a, <4>1, <4>4, <4>5
      <4> HIDE DEF both, old, added, p, q, a, b
      <4> QED BY <1>5, <2>5, <4>6, <4>7
    <3>3. CASE n < end
      <4>1. next = n /\ Inserted(S, R, n, rate, end)
        BY <1>0, <1>4, <1>8, <2>4, <3>3 DEF next
      <4> DEFINE a == rate * (n - t)
                 b == rate * (end - n)
      <4>2. q = p + b
        BY <1>0, <1>6, <2>4, <3>3, <4>1, InsertedAdds
      <4>3. both = old + a
        BY <3>a, <4>1
      <4>4. a + b = added /\ a \in Int /\ b \in Int
        <5>1. rate \in Int /\ t \in Int /\ n \in Int /\ end \in Int
          BY <1>0, <2>4
        <5>2. a + b = added
          BY <5>1, Distribute
        <5>3. n - t \in Int /\ end - n \in Int
          BY <5>1
        <5> QED BY <5>1, <5>2, <5>3
      <4> HIDE DEF both, old, added, p, q, a, b
      <4> QED BY <1>5, <2>5, <4>2, <4>3, <4>4
    <3> QED BY <1>0, <2>4, <3>1, <3>2, <3>3
  <2> HIDE DEF both, old, added, p, q, o
  <2> QED BY <1>5, <2>2, <2>3, <2>4, <2>5, <2>6
<1> QED BY <1>7, <1>8
-----------------------------------------------------------------------------
(* What a position has gained per staked unit since it was synced: what    *)
(* the entries it has not seen yet add up to, and what the index has       *)
(* gained on the position's own.                                           *)
EntrySum(user, entries, x) ==
  SumIn(Outstanding(user, entries, x), MaxTime,
        [ts \in 1..MaxTime |-> IF x \in DOMAIN entries[ts] THEN entries[ts][x] ELSE 0])

Gained(user, entries, index, x) == EntrySum(user, entries, x) + index - user.last_rewards_index[x]

Entitled(positions, entries, index, x) ==
  SumTo(NumUsers, [u \in Users |-> positions[u].amount * Gained(positions[u], entries, index, x)])

LEMMA EntrySumNat ==
  ASSUME NEW user, NEW entries, FinishedOK(entries), NEW x
  PROVE  EntrySum(user, entries, x) \in Nat
<1> DEFINE f == [ts \in 1..MaxTime |-> IF x \in DOMAIN entries[ts] THEN entries[ts][x] ELSE 0]
<1>1. \A ts \in 1..MaxTime : f[ts] \in Nat
  BY DEF FinishedOK
<1> HIDE DEF f
<1>2. SumIn(Outstanding(user, entries, x), MaxTime, f) \in Nat
  BY <1>1, MaxTimeAssumption, SumInNat
<1> QED BY <1>2 DEF EntrySum, f

LEMMA GainedInt ==
  ASSUME NEW user \in UserInfo, NEW entries, FinishedOK(entries), NEW x \in Tokens, NEW index \in Nat
  PROVE  /\ Gained(user, entries, index, x) \in Int
         /\ user.amount * Gained(user, entries, index, x) \in Int
<1>1. EntrySum(user, entries, x) \in Nat
  BY EntrySumNat
<1>2. user.last_rewards_index[x] \in Nat /\ user.amount \in Nat
  BY DEF UserInfo, Keys
<1>3. Gained(user, entries, index, x) \in Int
  BY <1>1, <1>2 DEF Gained
<1> QED BY <1>2, <1>3

(* An index that moves on entitles every staked unit to the same. *)
LEMMA EntitledShift ==
  ASSUME NEW positions \in [Users -> UserInfo], NEW entries, FinishedOK(entries), NEW x \in Tokens,
         NEW i \in Nat, NEW j \in Nat
  PROVE  LET total == SumTo(NumUsers, [u \in Users |-> positions[u].amount])
         IN  /\ Entitled(positions, entries, i, x) \in Int /\ Entitled(positions, entries, j, x) \in Int
             /\ Entitled(positions, entries, j, x) = Entitled(positions, entries, i, x) + (j - i) * total
<1> DEFINE amounts == [u \in Users |-> positions[u].amount]
           f == [u \in Users |-> positions[u].amount * Gained(positions[u], entries, i, x)]
           h == [u \in Users |-> positions[u].amount * Gained(positions[u], entries, j, x)]
           d == [u \in Users |-> (j - i) * positions[u].amount]
<1>1. ASSUME NEW u \in 1..NumUsers
      PROVE  /\ amounts[u] \in Int /\ f[u] \in Int /\ h[u] \in Int /\ d[u] \in Int
             /\ d[u] = (j - i) * amounts[u] /\ h[u] = f[u] + d[u]
  <2> DEFINE user == positions[u]
             a == user.amount
             g == Gained(user, entries, i, x)
             k == Gained(user, entries, j, x)
  <2>1. user \in UserInfo /\ u \in Users
    BY DEF Users
  <2>2. a \in Nat /\ g \in Int /\ k \in Int
    BY <2>1, GainedInt DEF UserInfo
  <2>3. k = g + (j - i)
    <3>1. EntrySum(user, entries, x) \in Nat /\ user.last_rewards_index[x] \in Nat
      BY <2>1, EntrySumNat DEF UserInfo, Keys
    <3> QED BY <3>1 DEF Gained
  <2>4. amounts[u] = a /\ f[u] = a * g /\ h[u] = a * k /\ d[u] = (j - i) * a
    BY <2>1
  <2> HIDE DEF a, g, k, amounts, f, h, d
  <2>5. a * (g + (j - i)) = a * g + a * (j - i) /\ a * (j - i) = (j - i) * a
    <3>1. j - i \in Int
      OBVIOUS
    <3> QED BY <2>2, <3>1, Distribute
  <2>6. a * g \in Int /\ (j - i) * a \in Int /\ a * k \in Int
    BY <2>2
  <2> QED BY <2>2, <2>3, <2>4, <2>5, <2>6
<1> HIDE DEF amounts, f, h, d
<1>2. SumTo(NumUsers, h) = SumTo(NumUsers, f) + SumTo(NumUsers, d)
  BY <1>1, NumUsersAssumption, SumToPlus
<1>3. SumTo(NumUsers, d) = (j - i) * SumTo(NumUsers, amounts)
  <2>1. j - i \in Int
    OBVIOUS
  <2> QED BY <1>1, <2>1, NumUsersAssumption, SumToTimes
<1>4. SumTo(NumUsers, f) \in Int /\ SumTo(NumUsers, h) \in Int
  BY <1>1, NumUsersAssumption, SumToInt
<1> QED BY <1>2, <1>3, <1>4 DEF Entitled, amounts, f, h

(* Saving moves what a removed reward has gained into an entry. *)
LEMMA SavedGained ==
  ASSUME NEW t \in 1..MaxTime, NEW mem, MemOK(mem, t), NEW entries, FinishedOK(entries),
         NEW user \in UserInfo, NEW x \in Tokens,
         DOMAIN mem.rewards_to_remove # {} => entries[t] = NoneFinished /\ user.last_claim_time < t
  PROVE  Gained(user, SaveFinished(entries, mem), IndexOf(mem.rewards, x), x)
            <= Gained(user, entries, MemIndex(mem, x), x)
<1> DEFINE saved == SaveFinished(entries, mem)
           out == Outstanding(user, entries, x)
           after == Outstanding(user, saved, x)
           f == [ts \in 1..MaxTime |-> IF x \in DOMAIN entries[ts] THEN entries[ts][x] ELSE 0]
           g == [ts \in 1..MaxTime |-> IF x \in DOMAIN saved[ts] THEN saved[ts][x] ELSE 0]
           moved == IF x \in RemovedWhole(mem) THEN mem.rewards_to_remove[x].index ELSE 0
           gone == IndexOf(mem.rewards_to_remove, x)
           left == IndexOf(mem.rewards, x)
<1>0. t \in Nat /\ FinishedOK(saved)
  BY SaveFinishedOK, MaxTimeAssumption
<1>1. /\ after = out \cup (IF x \in RemovedWhole(mem) THEN {t} ELSE {})
      /\ \A ts \in out : saved[ts] = entries[ts]
      /\ x \in RemovedWhole(mem) => saved[t][x] = mem.rewards_to_remove[x].index
  BY SavedOutstanding
<1>2. out \subseteq 1..MaxTime /\ after \subseteq 1..MaxTime
  BY <1>0, OutstandingNats
<1>3. /\ \A ts \in 1..MaxTime : f[ts] \in Nat /\ g[ts] \in Nat
  BY <1>0 DEF FinishedOK
<1>4. SumIn(out, MaxTime, g) = SumIn(out, MaxTime, f)
  <2>1. \A ts \in 1..MaxTime : ts \in out => f[ts] \in Int /\ g[ts] = f[ts]
    BY <1>1, <1>3
  <2> HIDE DEF f, g, out
  <2> QED BY <2>1, MaxTimeAssumption, SumInSame
<1>5. EntrySum(user, entries, x) = SumIn(out, MaxTime, f) /\ EntrySum(user, saved, x) = SumIn(after, MaxTime, g)
  BY DEF EntrySum
<1>6. SumIn(after, MaxTime, g) = SumIn(out, MaxTime, g) + moved
  <2>0. SumIn(out, MaxTime, g) \in Nat
    <3> HIDE DEF g, out
    <3> QED BY <1>3, MaxTimeAssumption, SumInNat
  <2>1. CASE x \in RemovedWhole(mem)
    <3>1. t \notin out
      <4>1. entries[t] = NoneFinished
        BY <2>1 DEF RemovedWhole
      <4> QED BY <4>1 DEF Outstanding, NoneFinished
    <3>2. g[t] = moved
      <4>1. t \in after
        BY <1>1, <2>1
      <4>2. x \in DOMAIN saved[t]
        BY <4>1 DEF Outstanding
      <4> HIDE DEF saved
      <4> QED BY <1>1, <2>1, <4>2
    <3>3. after = out \cup {t}
      BY <1>1, <2>1
    <3>4. \A ts \in 1..MaxTime : ts \in after => g[ts] \in Int
      BY <1>3
    <3> HIDE DEF g, out, after, moved
    <3> QED BY <3>1, <3>2, <3>3, <3>4, MaxTimeAssumption, SumInAdd
  <2>2. CASE x \notin RemovedWhole(mem)
    <3>1. after = out /\ moved = 0
      BY <1>1, <2>2
    <3> HIDE DEF g, out, after, moved
    <3> QED BY <2>0, <3>1
  <2> QED BY <2>1, <2>2
<1>7. moved \in Nat /\ gone \in Nat /\ moved <= gone /\ left \in Nat
  <2>1. x \in DOMAIN mem.rewards_to_remove => mem.rewards_to_remove[x].index \in Nat
    BY DEF MemOK, Removal
  <2>2. x \in DOMAIN mem.rewards => mem.rewards[x].index \in Nat
    BY DEF MemOK, RewardInfo
  <2> QED BY <2>1, <2>2 DEF IndexOf, RemovedWhole
<1>8. SumIn(out, MaxTime, f) \in Nat
  <2> HIDE DEF f, out
  <2> QED BY <1>3, MaxTimeAssumption, SumInNat
<1>9. user.last_rewards_index[x] \in Nat
  BY DEF UserInfo, Keys
<1>10. /\ Gained(user, saved, left, x) = SumIn(after, MaxTime, g) + left - user.last_rewards_index[x]
       /\ Gained(user, entries, MemIndex(mem, x), x) = SumIn(out, MaxTime, f) + (left + gone) - user.last_rewards_index[x]
  BY <1>5 DEF Gained, MemIndex
<1> HIDE DEF f, g, out, after, moved, gone, left
<1>11. SumIn(after, MaxTime, g) = SumIn(out, MaxTime, f) + moved
  BY <1>4, <1>6
<1> QED BY <1>7, <1>8, <1>9, <1>10, <1>11 DEF left
-----------------------------------------------------------------------------
(* What is rounded down, and scaled again, never exceeds what it was. *)
LEMMA ScaledFloor ==
  ASSUME NEW y \in Nat
  PROVE  Floor(y) \in Nat /\ Scale * Floor(y) <= y
<1>1. y \div Scale \in Int /\ (y \div Scale) * Scale <= y
  BY ScaleAssumption, DivBounds
<1> QED BY <1>1, FloorNat, ScaleAssumption DEF Floor

(* What the entries since the last claim bring. *)
LEMMA PastWithin ==
  ASSUME NEW entries, FinishedOK(entries), NEW user \in UserInfo, NEW x \in Tokens, NEW U \in Nat,
         Outstanding(user, entries, x) # {}, entries[Min(Outstanding(user, entries, x))][x] >= U
  PROVE  LET out == Outstanding(user, entries, x)
             past == SumIn(out, MaxTime, [ts \in 1..MaxTime |->
                       IF ts \in out THEN Floor((entries[ts][x] - (IF ts = Min(out) THEN U ELSE 0)) * user.amount)
                       ELSE 0])
         IN  past \in Nat /\ Scale * past <= user.amount * (EntrySum(user, entries, x) - U)
<1> DEFINE out == Outstanding(user, entries, x)
           m == Min(out)
           a == user.amount
           gain(ts) == entries[ts][x] - (IF ts = m THEN U ELSE 0)
           terms == [ts \in 1..MaxTime |-> IF ts \in out THEN Floor(gain(ts) * a) ELSE 0]
           F == [i \in 1..MaxTime |-> IF i \in out THEN terms[i] ELSE 0]
           K == [i \in 1..MaxTime |-> Scale * F[i]]
           D == [i \in 1..MaxTime |-> IF i \in out THEN gain(i) ELSE 0]
           A == [i \in 1..MaxTime |-> a * D[i]]
           entry == [ts \in 1..MaxTime |-> IF x \in DOMAIN entries[ts] THEN entries[ts][x] ELSE 0]
           B == [i \in 1..MaxTime |-> IF i \in out THEN entry[i] ELSE 0]
           past == SumTo(MaxTime, F)
<1>1. /\ out \in SUBSET Nat /\ out \in SUBSET (1..MaxTime) /\ m \in out /\ a \in Nat
  BY OutstandingNats, MinOfNats DEF UserInfo
<1>2. ASSUME NEW i \in out
      PROVE  x \in DOMAIN entries[i] /\ entries[i][x] \in Nat /\ i \in 1..MaxTime
  BY <1>1, <1>2 DEF Outstanding, FinishedOK
<1> HIDE DEF out, a, m
<1>3. ASSUME NEW i \in out PROVE gain(i) \in Nat
  <2>1. entries[m][x] >= U
    BY DEF m, out
  <2> QED BY <1>2, <1>3, <2>1
<1>4. ASSUME NEW i \in 1..MaxTime
      PROVE  /\ F[i] \in Nat /\ K[i] = Scale * F[i] /\ K[i] \in Int /\ D[i] \in Int /\ A[i] \in Int
             /\ A[i] = a * D[i] /\ B[i] \in Int /\ K[i] <= A[i]
             /\ D[i] = (IF i = m THEN B[i] - U ELSE B[i])
  <2>1. CASE i \notin out
    <3>1. F[i] = 0 /\ D[i] = 0 /\ B[i] = 0 /\ K[i] = Scale * F[i] /\ A[i] = a * D[i] /\ i # m
      BY <1>1, <2>1
    <3> HIDE DEF F, K, D, A, B
    <3> QED BY <1>1, <3>1, ScaleAssumption
  <2>2. CASE i \in out
    <3>1. gain(i) \in Nat /\ entries[i][x] \in Nat /\ x \in DOMAIN entries[i]
      BY <1>2, <1>3, <2>2
    <3>2. F[i] = Floor(gain(i) * a) /\ D[i] = gain(i) /\ K[i] = Scale * F[i] /\ A[i] = a * D[i]
      BY <2>2
    <3>3. B[i] = entries[i][x]
      BY <2>2, <3>1
    <3>4. D[i] = (IF i = m THEN B[i] - U ELSE B[i])
      BY <3>1, <3>2, <3>3
    <3> HIDE DEF F, K, D, A, B, gain
    <3>5. gain(i) * a \in Nat /\ gain(i) * a = a * gain(i)
      BY <1>1, <3>1
    <3>6. F[i] \in Nat /\ Scale * F[i] <= gain(i) * a
      BY <3>2, <3>5, ScaledFloor
    <3>7. K[i] \in Int
      BY <3>2, <3>6, ScaleAssumption
    <3> QED BY <3>1, <3>2, <3>3, <3>4, <3>5, <3>6, <3>7
  <2> QED BY <2>1, <2>2
<1>5. SumIn(out, MaxTime, terms) = past /\ EntrySum(user, entries, x) = SumTo(MaxTime, B)
  BY DEF SumIn, EntrySum, out
<1> HIDE DEF F, K, D, A, B
<1>6. past \in Nat /\ SumTo(MaxTime, K) = Scale * past
  BY <1>4, MaxTimeAssumption, ScaleAssumption, SumToNat, SumToTimes
<1>7. SumTo(MaxTime, A) = a * SumTo(MaxTime, D)
  BY <1>1, <1>4, MaxTimeAssumption, SumToTimes
<1>8. SumTo(MaxTime, K) <= SumTo(MaxTime, A)
  BY <1>4, MaxTimeAssumption, SumToLeq
<1>9. SumTo(MaxTime, D) = SumTo(MaxTime, B) + D[m] - B[m] /\ m \in 1..MaxTime
  BY <1>1, <1>4, MaxTimeAssumption, SumToChange
<1>10. SumTo(MaxTime, D) = SumTo(MaxTime, B) - U
  <2>1. SumTo(MaxTime, B) \in Int /\ B[m] \in Int /\ D[m] = B[m] - U
    BY <1>4, <1>9, MaxTimeAssumption, SumToInt
  <2> QED BY <1>9, <2>1
<1>11. Scale * past <= a * (SumTo(MaxTime, B) - U)
  BY <1>6, <1>7, <1>8, <1>10
<1> HIDE DEF past, terms
<1>12. SumIn(out, MaxTime, terms) \in Nat /\ Scale * SumIn(out, MaxTime, terms) <= a * (EntrySum(user, entries, x) - U)
  BY <1>5, <1>6, <1>11
<1> QED BY <1>12 DEF terms, out, a, m

(* A claim never pays more than the position has gained. *)
LEMMA ClaimWithin ==
  ASSUME NEW t \in Nat, NEW mem, MemOK(mem, t), NEW entries, FinishedOK(entries),
         NEW user \in UserInfo, NEW x \in Tokens, ~ClaimUnderflows(user, entries, mem),
         DOMAIN mem.rewards \cap DOMAIN mem.rewards_to_remove = {},
         Outstanding(user, entries, x) = {} => user.last_rewards_index[x] <= MemIndex(mem, x)
  PROVE  Scale * ClaimableReward(user, entries, mem, x) <= user.amount * Gained(user, entries, MemIndex(mem, x), x)
<1> DEFINE out == Outstanding(user, entries, x)
           U == user.last_rewards_index[x]
           a == user.amount
           past == SumIn(out, MaxTime, [ts \in 1..MaxTime |->
                     IF ts \in out THEN Floor((entries[ts][x] - (IF ts = Min(out) THEN U ELSE 0)) * a) ELSE 0])
           gone == mem.rewards_to_remove[x].index
           removal == IF x \in DOMAIN mem.rewards_to_remove
                      THEN Floor((gone - (IF out = {} THEN U ELSE 0)) * a) ELSE 0
           active == ActiveReward(user, entries, mem, x)
           e == EntrySum(user, entries, x)
           i == MemIndex(mem, x)
<1>0. /\ x # Internal /\ x \in Keys /\ U \in Nat /\ a \in Nat /\ out \in SUBSET Nat /\ e \in Nat
      /\ x \in DOMAIN mem.rewards => mem.rewards[x].index \in Nat
      /\ x \in DOMAIN mem.rewards_to_remove => gone \in Nat
  BY OutstandingNats, EntrySumNat DEF Tokens, Internal, Keys, UserInfo, MemOK, RewardInfo, Removal
<1>1. ClaimableReward(user, entries, mem, x) = active + (past + removal)
  BY <1>0 DEF ClaimableReward, FinishedReward
<1>2. active = IF x \notin DOMAIN mem.rewards THEN 0
               ELSE CalculateReward(mem.rewards[x], IF IsFinished(user, entries, mem, x) THEN 0 ELSE U, a)
  BY <1>0 DEF ActiveReward, ResetUserIndex, UserInfo
<1>3. /\ x \in DOMAIN mem.rewards => x \notin DOMAIN mem.rewards_to_remove /\ i = mem.rewards[x].index
      /\ x \in DOMAIN mem.rewards_to_remove => i = gone
      /\ x \notin DOMAIN mem.rewards /\ x \notin DOMAIN mem.rewards_to_remove => i = 0
      /\ i \in Nat
  BY <1>0 DEF MemIndex, IndexOf
<1>4. Gained(user, entries, i, x) = e + i - U
  BY DEF Gained
<1>5. CASE out # {}
  <2>1. IsFinished(user, entries, mem, x) /\ FirstFinishedIndex(user, entries, mem, x) = entries[Min(out)][x]
    BY <1>5 DEF IsFinished, FirstFinishedIndex
  <2>2. ~(entries[Min(out)][x] < U)
    BY <2>1 DEF ClaimUnderflows
  <2>3. entries[Min(out)][x] >= U
    <3>1. Min(out) \in out
      BY <1>0, <1>5, MinOfNats
    <3>2. entries[Min(out)][x] \in Nat
      <4> DEFINE m == Min(out)
      <4>1. m \in 1..MaxTime /\ x \in DOMAIN entries[m]
        BY <3>1 DEF Outstanding, FinishedOK
      <4> HIDE DEF m
      <4>2. entries[m][x] \in Nat
        BY <4>1 DEF FinishedOK
      <4> QED BY <4>2 DEF m
    <3> HIDE DEF out, U
    <3> QED BY <1>0, <2>2, <3>2
  <2>4. past \in Nat /\ Scale * past <= a * (e - U)
    BY <1>0, <1>5, <2>3, PastWithin
  <2>5. active + removal \in Nat /\ Scale * (active + removal) <= a * i
    <3>1. x \in DOMAIN mem.rewards => active = Floor(mem.rewards[x].index * a)
      <4>1. ASSUME x \in DOMAIN mem.rewards
            PROVE  active = Floor((IF 0 > mem.rewards[x].index THEN mem.rewards[x].index
                                   ELSE mem.rewards[x].index - 0) * a)
        BY <1>2, <2>1, <4>1 DEF CalculateReward
      <4>2. x \in DOMAIN mem.rewards =>
               (IF 0 > mem.rewards[x].index THEN mem.rewards[x].index ELSE mem.rewards[x].index - 0) = mem.rewards[x].index
        BY <1>0
      <4> QED BY <4>1, <4>2
    <3>2. x \in DOMAIN mem.rewards_to_remove => removal = Floor(gone * a)
      <4>1. x \in DOMAIN mem.rewards_to_remove => removal = Floor((gone - 0) * a) /\ gone - 0 = gone
        BY <1>0, <1>5
      <4> QED BY <4>1
    <3>3. /\ x \notin DOMAIN mem.rewards => active = 0
          /\ x \notin DOMAIN mem.rewards_to_remove => removal = 0
      BY <1>2
    <3> HIDE DEF active, removal, i, a, out
    <3>4. CASE x \notin DOMAIN mem.rewards /\ x \notin DOMAIN mem.rewards_to_remove
      BY <1>0, <1>3, <3>3, <3>4, ScaleAssumption
    <3>5. CASE x \in DOMAIN mem.rewards \/ x \in DOMAIN mem.rewards_to_remove
      <4>1. active + removal = Floor(i * a)
        <5>1. i * a \in Nat
          BY <1>0, <1>3
        <5>2. Floor(i * a) \in Nat
          BY <5>1, FloorNat
        <5>3. (active = Floor(i * a) /\ removal = 0) \/ (active = 0 /\ removal = Floor(i * a))
          BY <1>3, <3>1, <3>2, <3>3, <3>5
        <5> QED BY <5>2, <5>3
      <4>2. i * a \in Nat /\ i * a = a * i
        BY <1>0, <1>3
      <4>3. Floor(i * a) \in Nat /\ Scale * Floor(i * a) <= i * a
        BY <4>2, ScaledFloor
      <4> QED BY <4>1, <4>2, <4>3
    <3> QED BY <3>4, <3>5
  <2>6. active \in Nat /\ removal \in Nat
    <3>1. x \in DOMAIN mem.rewards => active \in Nat
      <4>1. ASSUME x \in DOMAIN mem.rewards
            PROVE  active = Floor((IF 0 > mem.rewards[x].index THEN mem.rewards[x].index
                                   ELSE mem.rewards[x].index - 0) * a)
        BY <1>2, <2>1, <4>1 DEF CalculateReward
      <4>2. x \in DOMAIN mem.rewards =>
               (IF 0 > mem.rewards[x].index THEN mem.rewards[x].index ELSE mem.rewards[x].index - 0) * a \in Nat
        BY <1>0
      <4> QED BY <4>1, <4>2, FloorNat
    <3>2. x \in DOMAIN mem.rewards_to_remove => removal \in Nat
      <4>1. x \in DOMAIN mem.rewards_to_remove => removal = Floor((gone - 0) * a) /\ (gone - 0) * a \in Nat
        BY <1>0, <1>5
      <4> HIDE DEF removal
      <4> QED BY <4>1, FloorNat
    <3> QED BY <1>2, <3>1, <3>2
  <2> HIDE DEF active, past, removal, e, i, U, a, out
  <2> DEFINE c == active + removal
             p == a * (e - U)
             q == a * i
  <2>7. p + q = a * (e + i - U) /\ p \in Int /\ q \in Int
    <3>1. e - U \in Int /\ e + i - U = (e - U) + i
      BY <1>0, <1>3
    <3> QED BY <1>0, <1>3, <3>1, Distribute
  <2>8. Scale * (past + c) = Scale * past + Scale * c /\ Scale * past \in Int /\ Scale * c \in Int
    BY <2>4, <2>5, ScaleAssumption, Distribute
  <2>9. Scale * past <= p /\ Scale * c <= q
    BY <2>4, <2>5
  <2>10. active + (past + removal) = past + c
    BY <2>4, <2>6
  <2> HIDE DEF c, p, q
  <2> DEFINE v == Scale * past
             w == Scale * c
  <2>11. Scale * (past + c) = v + w
    BY <2>8
  <2>12. v <= p /\ w <= q /\ v \in Int /\ w \in Int
    BY <2>8, <2>9
  <2> HIDE DEF v, w
  <2>13. Scale * (past + c) <= p + q
    BY <2>7, <2>11, <2>12
  <2> QED BY <1>1, <1>4, <2>7, <2>10, <2>13 DEF i, U, a, e
<1>6. CASE out = {}
  <2>1. past = 0 /\ e = 0
    BY <1>6, MaxTimeAssumption, SumInNone DEF EntrySum
  <2>2. U <= i
    BY <1>6
  <2>3. active + removal \in Nat /\ Scale * (active + removal) <= (i - U) * a
    <3>1. CASE x \in DOMAIN mem.rewards_to_remove
      <4>1. removal = Floor((i - U) * a) /\ active = 0
        BY <1>2, <1>3, <1>6, <3>1
      <4> HIDE DEF i, U, a, active, removal
      <4>2. (i - U) * a \in Nat
        BY <1>0, <1>3, <2>2
      <4>3. Floor((i - U) * a) \in Nat /\ Scale * Floor((i - U) * a) <= (i - U) * a
        BY <4>2, ScaledFloor
      <4>4. active + removal = Floor((i - U) * a)
        BY <4>1, <4>3
      <4> QED BY <4>3, <4>4
    <3>2. CASE x \notin DOMAIN mem.rewards_to_remove /\ x \in DOMAIN mem.rewards
      <4>1. ~IsFinished(user, entries, mem, x) /\ removal = 0
        BY <1>6, <3>2 DEF IsFinished
      <4>2. active = Floor((IF U > i THEN i ELSE i - U) * a)
        BY <1>2, <1>3, <3>2, <4>1 DEF CalculateReward
      <4> HIDE DEF i, U, a, active, removal
      <4>3. (IF U > i THEN i ELSE i - U) = i - U /\ (i - U) * a \in Nat
        BY <1>0, <1>3, <2>2
      <4>4. Floor((i - U) * a) \in Nat /\ Scale * Floor((i - U) * a) <= (i - U) * a
        BY <4>3, ScaledFloor
      <4>5. active + removal = Floor((i - U) * a)
        BY <4>1, <4>2, <4>3, <4>4
      <4> QED BY <4>4, <4>5
    <3>3. CASE x \notin DOMAIN mem.rewards_to_remove /\ x \notin DOMAIN mem.rewards
      <4>1. active = 0 /\ removal = 0
        BY <1>2, <3>3
      <4> HIDE DEF i, U, a, active, removal
      <4>2. (i - U) * a \in Nat
        BY <1>0, <1>3, <2>2
      <4> QED BY <4>1, <4>2, ScaleAssumption
    <3> QED BY <3>1, <3>2, <3>3
  <2> DEFINE c == active + removal
  <2>4. active + (past + removal) = c
    <3>1. active + (0 + removal) = active + removal
      <4>1. removal \in Nat
        <5>1. x \in DOMAIN mem.rewards_to_remove => (gone - (IF out = {} THEN U ELSE 0)) * a \in Nat
          BY <1>0, <1>3, <1>6, <2>2
        <5> QED BY <5>1, FloorNat
      <4> HIDE DEF removal
      <4> QED BY <4>1
    <3> QED BY <2>1, <3>1
  <2> HIDE DEF active, past, removal, e, i, U, a, out, c
  <2>5. Scale * c <= (i - U) * a
    BY <2>3 DEF c
  <2>6. (i - U) * a = a * (e + i - U)
    <3>1. e + i - U = i - U /\ i - U \in Int
      BY <1>0, <1>3, <2>1
    <3> QED BY <1>0, <3>1
  <2> QED BY <1>1, <1>4, <2>4, <2>5, <2>6 DEF i, U, a, e
<1> QED BY <1>5, <1>6
-----------------------------------------------------------------------------
(* What a pool owes of a reward: to its stakers, and in the time to come.  *)
(* The same of a pool in memory, with what it is about to remove.          *)
DueOf(pool, positions, entries, S, x) ==
  Entitled(positions, entries, IndexOf(pool.rewards, x), x) + ToCome(pool.rewards, S, pool.last_update_ts, x)
MemDue(mem, positions, entries, S, x) ==
  Entitled(positions, entries, MemIndex(mem, x), x) + InMemory(mem, S, x)

LEMMA ToComeNat ==
  ASSUME NEW rewards, NEW S \in Schedules, NEW last \in Nat, NEW x,
         x \in DOMAIN rewards => rewards[x] \in RewardInfo /\ rewards[x].next_update_ts >= last
  PROVE  ToCome(rewards, S, last, x) \in Nat /\ IndexOf(rewards, x) \in Nat
<1>1. CASE x \notin DOMAIN rewards
  BY <1>1 DEF ToCome, IndexOf
<1>2. CASE x \in DOMAIN rewards
  <2>1. Left(rewards[x], S, last) \in Nat
    BY <1>2, LeftNat
  <2>2. rewards[x].orphaned \in Nat /\ rewards[x].index \in Nat
    BY <1>2 DEF RewardInfo
  <2> QED BY <1>2, <2>1, <2>2 DEF ToCome, IndexOf
<1> QED BY <1>1, <1>2

LEMMA MemNat ==
  ASSUME NEW t \in Nat, NEW mem, MemOK(mem, t), NEW S \in Schedules, NEW x \in Tokens
  PROVE  /\ MemIndex(mem, x) \in Nat /\ IndexOf(mem.rewards, x) \in Nat
         /\ ToCome(mem.rewards, S, t, x) \in Nat
         /\ InMemory(mem, S, x) \in Nat
<1>1. x \in DOMAIN mem.rewards => mem.rewards[x] \in RewardInfo /\ mem.rewards[x].next_update_ts >= t
  <2> SUFFICES ASSUME x \in DOMAIN mem.rewards
               PROVE  mem.rewards[x] \in RewardInfo /\ mem.rewards[x].next_update_ts >= t
    OBVIOUS
  <2>1. mem.rewards[x] \in RewardInfo /\ mem.rewards[x].next_update_ts > t
    BY DEF MemOK, Tokens, Internal
  <2> QED BY <2>1 DEF RewardInfo
<1>2. ToCome(mem.rewards, S, t, x) \in Nat /\ IndexOf(mem.rewards, x) \in Nat
  BY <1>1, ToComeNat
<1>3. x \in DOMAIN mem.rewards_to_remove =>
        mem.rewards_to_remove[x].index \in Nat /\ mem.rewards_to_remove[x].orphaned \in Nat
  BY DEF MemOK, Removal
<1>4. mem.orphaned_to_claim[x] \in Nat /\ mem.last_update_ts = t
  BY DEF MemOK
<1>5. IndexOf(mem.rewards_to_remove, x) \in Nat
  BY <1>3 DEF IndexOf
<1> QED BY <1>2, <1>3, <1>4, <1>5 DEF MemIndex, InMemory
-----------------------------------------------------------------------------
(* Bringing a pool up to now never adds to what it owes. *)
LEMMA LoadedDue ==
  ASSUME IInv, NEW p \in Pools, NEW x \in Tokens \ {RewardToken}
  PROVE  LET mem == Loaded(p)
             due == DueOf(pools[p], users[p], finished[p], schedules[p][x], x)
             kept == MemDue(mem, users[p], finished[p], schedules[p][x], x)
         IN  due \in Int /\ kept \in Int /\ kept <= due
<1> DEFINE mem == Loaded(p)
           i == IndexOf(pools[p].rewards, x)
           j == MemIndex(mem, x)
           total == SumTo(NumUsers, [u \in Users |-> users[p][u].amount])
           e == Entitled(users[p], finished[p], i, x)
           f == Entitled(users[p], finished[p], j, x)
           before == ToCome(pools[p].rewards, schedules[p][x], pools[p].last_update_ts, x)
           after == InMemory(mem, schedules[p][x], x)
<1>1. /\ now \in Nat /\ MemOK(mem, now) /\ schedules[p] \in [Tokens -> Schedules]
      /\ schedules[p][x] \in Schedules /\ FinishedOK(finished[p])
      /\ users[p] \in [Users -> UserInfo] /\ PoolOKBy(pools[p], now)
  BY NowNat, LoadedOK DEF IInv, PoolsInv, SchedulesInv, FinishedInv, UsersInv
<1>2. total = pools[p].total_lp
  BY DEF IInv, StakesAddUp
<1>3. /\ j - i \in Nat
      /\ pools[p].total_lp * (j - i) + after <= before
  BY <1>1, UpdateKeepsDue DEF Loaded
<1>4. before \in Nat /\ i \in Nat
  <2>1. x \in DOMAIN pools[p].rewards =>
           pools[p].rewards[x] \in RewardInfo /\ pools[p].rewards[x].next_update_ts >= pools[p].last_update_ts
    <3> SUFFICES ASSUME x \in DOMAIN pools[p].rewards
                 PROVE  pools[p].rewards[x] \in RewardInfo /\ pools[p].rewards[x].next_update_ts >= pools[p].last_update_ts
      OBVIOUS
    <3>1. pools[p].rewards[x] \in RewardInfo /\ pools[p].rewards[x].next_update_ts > pools[p].last_update_ts
      BY <1>1 DEF PoolOKBy, Tokens, Internal
    <3> QED BY <1>1, <3>1 DEF RewardInfo, PoolOKBy
  <2>2. pools[p].last_update_ts \in Nat
    BY <1>1 DEF PoolOKBy
  <2> QED BY <1>1, <2>1, <2>2, ToComeNat
<1>5. j \in Nat /\ after \in Nat
  BY <1>1, MemNat
<1>6. e \in Int /\ f \in Int /\ f = e + (j - i) * total
  <2> HIDE DEF i, j, mem
  <2> QED BY <1>1, <1>4, <1>5, EntitledShift
<1>7. DueOf(pools[p], users[p], finished[p], schedules[p][x], x) = e + before
  BY DEF DueOf
<1>8. MemDue(mem, users[p], finished[p], schedules[p][x], x) = f + after
  BY DEF MemDue
<1> DEFINE d == pools[p].total_lp * (j - i)
<1>9. d \in Int /\ f = e + d /\ d + after <= before
  <2>1. pools[p].total_lp \in Nat
    BY <1>1 DEF PoolOKBy
  <2> HIDE DEF i, j, after, before, e, f, total
  <2> QED BY <1>2, <1>3, <1>6, <2>1
<1> HIDE DEF d, e, f, after, before, mem
<1> QED BY <1>4, <1>5, <1>6, <1>7, <1>8, <1>9 DEF mem

(* A position's share of what saving leaves, and of what a sync leaves. *)
LEMMA SavedShare ==
  ASSUME NEW t \in 1..MaxTime, NEW mem, MemOK(mem, t), NEW entries, FinishedOK(entries),
         NEW user \in UserInfo, NEW x \in Tokens,
         DOMAIN mem.rewards_to_remove # {} => entries[t] = NoneFinished /\ user.last_claim_time < t
  PROVE  user.amount * Gained(user, SaveFinished(entries, mem), IndexOf(mem.rewards, x), x)
           <= user.amount * Gained(user, entries, MemIndex(mem, x), x)
<1> DEFINE a == Gained(user, SaveFinished(entries, mem), IndexOf(mem.rewards, x), x)
           b == Gained(user, entries, MemIndex(mem, x), x)
<1>1. a <= b
  BY SavedGained
<1>2. FinishedOK(SaveFinished(entries, mem)) /\ t \in Nat /\ NoSchedules \in Schedules
  BY SaveFinishedOK, MaxTimeAssumption DEF NoSchedules, Schedules
<1>3. IndexOf(mem.rewards, x) \in Nat /\ MemIndex(mem, x) \in Nat
  BY <1>2, MemNat
<1>4. a \in Int /\ b \in Int /\ user.amount \in Nat
  BY <1>2, <1>3, GainedInt DEF UserInfo
<1> HIDE DEF a, b
<1>5. a * user.amount <= b * user.amount /\ a * user.amount = user.amount * a /\ b * user.amount = user.amount * b
  BY <1>1, <1>4, Scaled
<1> QED BY <1>5 DEF a, b

LEMMA SyncedShare ==
  ASSUME NEW t \in 1..MaxTime, NEW mem, MemOK(mem, t), NEW entries, FinishedOK(entries),
         \A ts \in 1..MaxTime : entries[ts] # NoneFinished => ts <= t,
         NEW user, NEW amount \in Nat, NEW x \in Tokens
  PROVE  LET synced == SyncPosition(user, mem, amount)
         IN  synced.amount * Gained(synced, entries, IndexOf(mem.rewards, x), x) = 0
<1> DEFINE synced == SyncPosition(user, mem, amount)
           i == IndexOf(mem.rewards, x)
<1>0. t \in Nat /\ NoSchedules \in Schedules
  BY MaxTimeAssumption DEF NoSchedules, Schedules
<1>1. i \in Nat
  BY <1>0, MemNat
<1>2. synced \in UserInfo
  BY <1>0, SyncPositionOK
<1>3. CASE amount = 0
  <2>1. synced.amount = 0
    BY <1>3 DEF SyncPosition, NoPosition
  <2>2. Gained(synced, entries, i, x) \in Int
    BY <1>1, <1>2, GainedInt
  <2> HIDE DEF synced, i
  <2> QED BY <2>1, <2>2 DEF synced, i
<1>4. CASE amount # 0
  <2>1. /\ synced.last_claim_time = t /\ synced.amount = amount
        /\ synced.last_rewards_index[x] = i
    BY <1>4 DEF SyncPosition, MemOK, Keys, Synced, IndexOf
  <2>2. Outstanding(synced, entries, x) = {}
    <3> HIDE DEF synced
    <3> SUFFICES ASSUME NEW ts \in Outstanding(synced, entries, x) PROVE FALSE
      OBVIOUS
    <3>1. ts \in 1..MaxTime /\ ts > t /\ x \in DOMAIN entries[ts]
      BY <2>1 DEF Outstanding, FinishedOK
    <3>2. entries[ts] # NoneFinished
      BY <3>1 DEF NoneFinished
    <3> QED BY <1>0, <3>1, <3>2
  <2>3. EntrySum(synced, entries, x) = 0
    BY <2>2, MaxTimeAssumption, SumInNone DEF EntrySum
  <2> HIDE DEF synced, i
  <2>4. Gained(synced, entries, i, x) = 0
    BY <1>1, <2>1, <2>3 DEF Gained
  <2>5. synced.amount * Gained(synced, entries, i, x) = 0
    BY <2>1, <2>4
  <2> QED BY <2>5 DEF synced, i
<1> QED BY <1>3, <1>4
-----------------------------------------------------------------------------
(* What save credits to the owner comes from what the pool set aside. *)
LEMMA OrphansWithin ==
  ASSUME NEW t \in Nat, NEW mem, MemOK(mem, t), NEW S \in Schedules, NEW x \in Tokens
  PROVE  /\ OrphanCredit(mem, x) \in Nat
         /\ ToCome(mem.rewards, S, t, x) + Scale * OrphanCredit(mem, x) <= InMemory(mem, S, x)
<1> DEFINE claim == mem.orphaned_to_claim[x]
           gone == IF x \in DOMAIN mem.rewards_to_remove THEN mem.rewards_to_remove[x].orphaned ELSE 0
           a == Floor(claim)
           b == IF x \in RemovedOrphans(mem) THEN Floor(mem.rewards_to_remove[x].orphaned) ELSE 0
           come == ToCome(mem.rewards, S, t, x)
<1>1. claim \in Nat /\ mem.last_update_ts = t
  BY DEF MemOK
<1>2. x \in DOMAIN mem.rewards_to_remove => mem.rewards_to_remove[x].orphaned \in Nat
  BY DEF MemOK, Removal
<1>3. gone \in Nat /\ (x \in RemovedOrphans(mem) => gone = mem.rewards_to_remove[x].orphaned)
  BY <1>2 DEF RemovedOrphans
<1>4. come \in Nat
  BY MemNat
<1>5. a \in Nat /\ Scale * a <= claim
  BY <1>1, ScaledFloor
<1>6. b \in Nat /\ Scale * b <= gone
  <2>1. CASE x \in RemovedOrphans(mem)
    BY <1>3, <2>1, ScaledFloor
  <2>2. CASE x \notin RemovedOrphans(mem)
    <3>1. b = 0
      BY <2>2
    <3> HIDE DEF b, gone
    <3> QED BY <1>3, <3>1, ScaleAssumption
  <2> QED BY <2>1, <2>2
<1>7. OrphanCredit(mem, x) = a + b /\ InMemory(mem, S, x) = come + claim + gone
  BY <1>1 DEF OrphanCredit, InMemory
<1> HIDE DEF claim, gone, a, b, come
<1> DEFINE v == Scale * a
           w == Scale * b
<1>8. Scale * (a + b) = v + w /\ v \in Int /\ w \in Int
  BY <1>5, <1>6, ScaleAssumption, Distribute
<1>9. v <= claim /\ w <= gone
  BY <1>5, <1>6
<1> HIDE DEF v, w
<1>10. come + Scale * (a + b) <= come + claim + gone
  BY <1>1, <1>3, <1>4, <1>8, <1>9
<1> QED BY <1>5, <1>6, <1>7, <1>10 DEF come

(* What the stakers can claim in all is no less than what is saved of it   *)
(* and what one of them is paid.                                           *)
LEMMA SavedDue ==
  ASSUME NEW t \in 1..MaxTime, NEW mem, MemOK(mem, t), NEW entries, FinishedOK(entries),
         NEW positions \in [Users -> UserInfo], NEW synced \in [Users -> UserInfo],
         NEW S \in Schedules, NEW x \in Tokens, NEW u \in Users, NEW c \in Int,
         \A v \in Users :
            synced[v].amount * Gained(synced[v], SaveFinished(entries, mem), IndexOf(mem.rewards, x), x)
              + (IF v = u THEN c ELSE 0)
              <= positions[v].amount * Gained(positions[v], entries, MemIndex(mem, x), x)
  PROVE  LET left == DueOf(Stored(mem), synced, SaveFinished(entries, mem), S, x)
             due == MemDue(mem, positions, entries, S, x)
         IN  left \in Int /\ due \in Int /\ left + Scale * OrphanCredit(mem, x) + c <= due
<1> DEFINE saved == SaveFinished(entries, mem)
           i == IndexOf(mem.rewards, x)
           j == MemIndex(mem, x)
           f == [v \in Users |-> positions[v].amount * Gained(positions[v], entries, j, x)]
           g == [v \in Users |-> synced[v].amount * Gained(synced[v], saved, i, x)]
           come == ToCome(mem.rewards, S, t, x)
           o == Scale * OrphanCredit(mem, x)
           inside == InMemory(mem, S, x)
           e == SumTo(NumUsers, g)
           d == SumTo(NumUsers, f)
<1>0. t \in Nat /\ FinishedOK(saved)
  BY MaxTimeAssumption, SaveFinishedOK
<1>1. i \in Nat /\ j \in Nat /\ come \in Nat /\ inside \in Nat
  BY <1>0, MemNat
<1>2. o \in Int /\ come + o <= inside
  <2>1. OrphanCredit(mem, x) \in Nat /\ come + o <= inside
    BY <1>0, OrphansWithin
  <2> HIDE DEF come, inside
  <2> QED BY <2>1, ScaleAssumption
<1>3. \A v \in 1..NumUsers : f[v] \in Int /\ g[v] \in Int /\ g[v] + (IF v = u THEN c ELSE 0) <= f[v]
  <2> SUFFICES ASSUME NEW v \in Users
               PROVE  f[v] \in Int /\ g[v] \in Int /\ g[v] + (IF v = u THEN c ELSE 0) <= f[v]
    BY DEF Users
  <2> HIDE DEF saved, i, j
  <2>1. f[v] \in Int
    BY <1>1, GainedInt
  <2>2. g[v] \in Int
    BY <1>0, <1>1, GainedInt
  <2>3. g[v] + (IF v = u THEN c ELSE 0) <= f[v]
    BY DEF saved, i, j
  <2> QED BY <2>1, <2>2, <2>3
<1>4. /\ DueOf(Stored(mem), synced, saved, S, x) = e + come
      /\ MemDue(mem, positions, entries, S, x) = d + inside
  <2>1. Stored(mem).rewards = mem.rewards /\ Stored(mem).last_update_ts = t
    BY DEF Stored, MemOK
  <2> QED BY <2>1 DEF DueOf, MemDue, Entitled
<1>5. u \in 1..NumUsers
  BY DEF Users
<1> HIDE DEF f, g, come, o, inside, saved
<1>6. e + c <= d /\ e \in Int /\ d \in Int
  BY <1>3, <1>5, NumUsersAssumption, SumToPays, SumToInt
<1> HIDE DEF e, d
<1>7. (e + come) + o + c <= d + inside
  BY <1>1, <1>2, <1>6
<1>8. e + come \in Int /\ d + inside \in Int
  BY <1>1, <1>6
<1> QED BY <1>4, <1>7, <1>8 DEF saved, o
-----------------------------------------------------------------------------
(* A claim by now. *)
LEMMA LoadedClaim ==
  ASSUME IInv, ExitInv, NEW p \in Pools, NEW u \in Users, NEW x \in Tokens
  PROVE  /\ ClaimableReward(users[p][u], finished[p], Loaded(p), x) \in Nat
         /\ Scale * ClaimableReward(users[p][u], finished[p], Loaded(p), x)
              <= users[p][u].amount * Gained(users[p][u], finished[p], MemIndex(Loaded(p), x), x)
<1> DEFINE mem == Loaded(p)
           user == users[p][u]
           U == user.last_rewards_index[x]
           stored == IF x \in DOMAIN pools[p].rewards THEN pools[p].rewards[x].index ELSE 0
<1>1. MemOK(mem, now) /\ now \in Nat /\ FinishedOK(finished[p]) /\ user \in UserInfo
  BY NowNat, LoadedOK DEF IInv, FinishedInv, UsersInv
<1>2. ~ClaimUnderflows(user, finished[p], mem)
  BY CoveredCanExit DEF PositionsCanExit, ClaimPossible
<1>3. GoesOn(mem, pools[p]) /\ DOMAIN mem.rewards \cap DOMAIN mem.rewards_to_remove = {}
  BY LoadedGoesOn
<1>4. ASSUME Outstanding(user, finished[p], x) = {}
      PROVE  U <= MemIndex(mem, x)
  <2>1. U <= stored
    BY <1>4 DEF ExitInv, Covered
  <2>2. U \in Nat /\ stored \in Nat
    BY <1>1 DEF UserInfo, Keys, IInv, PoolsInv, PoolOK, RewardInfo
  <2>3. MemIndex(mem, x) \in Nat /\ IndexOf(mem.rewards, x) \in Nat
    <3>1. NoSchedules \in Schedules
      BY DEF NoSchedules, Schedules
    <3> HIDE DEF mem
    <3> QED BY <1>1, <3>1, MemNat
  <2>4. CASE x \notin DOMAIN pools[p].rewards
    <3>1. stored = 0
      BY <2>4
    <3> HIDE DEF stored, U, mem
    <3> QED BY <2>1, <2>2, <2>3, <3>1
  <2>5. CASE x \in DOMAIN pools[p].rewards
    <3>0. stored = pools[p].rewards[x].index
      BY <2>5
    <3>1. CASE x \in DOMAIN mem.rewards_to_remove
      <4>1. stored <= mem.rewards_to_remove[x].index /\ x \notin DOMAIN mem.rewards
        BY <1>3, <2>5, <3>0, <3>1 DEF GoesOn
      <4>2. mem.rewards_to_remove[x].index \in Nat
        BY <1>1, <3>1 DEF MemOK, Removal
      <4> HIDE DEF stored, U, mem
      <4>3. MemIndex(mem, x) = mem.rewards_to_remove[x].index
        BY <3>1, <4>1, <4>2 DEF MemIndex, IndexOf
      <4> QED BY <2>1, <2>2, <4>1, <4>2, <4>3
    <3>2. CASE x \notin DOMAIN mem.rewards_to_remove
      <4>1. stored <= mem.rewards[x].index /\ x \in DOMAIN mem.rewards
        BY <1>3, <2>5, <3>0, <3>2 DEF GoesOn
      <4>2. mem.rewards[x].index \in Nat
        BY <1>1, <4>1 DEF MemOK, RewardInfo
      <4> HIDE DEF stored, U, mem
      <4>3. MemIndex(mem, x) = mem.rewards[x].index
        BY <3>2, <4>1, <4>2 DEF MemIndex, IndexOf
      <4> QED BY <2>1, <2>2, <4>1, <4>2, <4>3
    <3> QED BY <3>1, <3>2
  <2> QED BY <2>4, <2>5
<1>5. x \in Keys
  BY DEF Keys
<1> HIDE DEF mem, user
<1>6. ClaimableReward(user, finished[p], mem, x) \in Nat
  BY <1>1, <1>2, <1>5, ClaimableRewardNat
<1>7. Scale * ClaimableReward(user, finished[p], mem, x) <= user.amount * Gained(user, finished[p], MemIndex(mem, x), x)
  BY <1>1, <1>2, <1>3, <1>4, ClaimWithin
<1> QED BY <1>6, <1>7 DEF mem, user
-----------------------------------------------------------------------------
(* What a pool owes after save, and after a claim and save. *)
LEMMA PoolSaved ==
  ASSUME IInv, NEW p \in Pools, NEW mem, MemOK(mem, now),
         DOMAIN mem.rewards_to_remove # {} => Unwritten(p), NEW S \in Schedules, NEW x \in Tokens
  PROVE  LET left == DueOf(Stored(mem), users[p], SaveFinished(finished[p], mem), S, x)
             due == MemDue(mem, users[p], finished[p], S, x)
         IN  left \in Int /\ due \in Int /\ left + Scale * OrphanCredit(mem, x) <= due
<1> DEFINE left == DueOf(Stored(mem), users[p], SaveFinished(finished[p], mem), S, x)
           due == MemDue(mem, users[p], finished[p], S, x)
           o == Scale * OrphanCredit(mem, x)
<1>1. now \in 1..MaxTime /\ now \in Nat /\ FinishedOK(finished[p]) /\ users[p] \in [Users -> UserInfo]
  BY NowNat DEF IInv, FinishedInv, UsersInv
<1>2. 1 \in Users /\ 0 \in Int
  BY NumUsersAssumption DEF Users
<1>3. ASSUME NEW v \in Users
      PROVE  users[p][v].amount * Gained(users[p][v], SaveFinished(finished[p], mem), IndexOf(mem.rewards, x), x)
               + (IF v = 1 THEN 0 ELSE 0)
               <= users[p][v].amount * Gained(users[p][v], finished[p], MemIndex(mem, x), x)
  <2> DEFINE user == users[p][v]
             a == user.amount * Gained(user, SaveFinished(finished[p], mem), IndexOf(mem.rewards, x), x)
             b == user.amount * Gained(user, finished[p], MemIndex(mem, x), x)
  <2>1. user \in UserInfo /\ (DOMAIN mem.rewards_to_remove # {} => finished[p][now] = NoneFinished /\ user.last_claim_time < now)
    BY <1>1 DEF Unwritten
  <2> HIDE DEF user
  <2>2. a <= b
    BY <1>1, <2>1, SavedShare
  <2>3. IndexOf(mem.rewards, x) \in Nat /\ FinishedOK(SaveFinished(finished[p], mem))
    BY <1>1, MemNat, SaveFinishedOK
  <2>4. a \in Int
    BY <2>1, <2>3, GainedInt
  <2> HIDE DEF a, b
  <2>5. a + (IF v = 1 THEN 0 ELSE 0) <= b
    BY <2>2, <2>4
  <2> QED BY <2>5 DEF a, b, user
<1>4. left \in Int /\ due \in Int /\ left + o + 0 <= due
  BY <1>1, <1>2, <1>3, SavedDue
<1>5. o \in Int
  BY <1>1, OrphanCreditNat, ScaleAssumption
<1> HIDE DEF left, due, o
<1>6. left + o <= due
  BY <1>4, <1>5
<1> QED BY <1>4, <1>6 DEF left, due, o

LEMMA PoolClaimed ==
  ASSUME IInv, NEW p \in Pools, NEW u \in Users, NEW mem, MemOK(mem, now),
         DOMAIN mem.rewards_to_remove # {} => Unwritten(p), NEW S \in Schedules, NEW x \in Tokens,
         NEW amount \in Nat, NEW c \in Nat,
         Scale * c <= users[p][u].amount * Gained(users[p][u], finished[p], MemIndex(mem, x), x)
  PROVE  LET synced == [users[p] EXCEPT ![u] = SyncPosition(users[p][u], mem, amount)]
             left == DueOf(Stored(mem), synced, SaveFinished(finished[p], mem), S, x)
             due == MemDue(mem, users[p], finished[p], S, x)
         IN  left \in Int /\ due \in Int /\ left + Scale * OrphanCredit(mem, x) + Scale * c <= due
<1> DEFINE synced == [users[p] EXCEPT ![u] = SyncPosition(users[p][u], mem, amount)]
           saved == SaveFinished(finished[p], mem)
           i == IndexOf(mem.rewards, x)
           paid == Scale * c
<1>1. /\ now \in 1..MaxTime /\ now \in Nat /\ FinishedOK(finished[p]) /\ users[p] \in [Users -> UserInfo]
      /\ pools[p].last_update_ts <= now /\ pools[p].last_update_ts \in Nat
      /\ \A ts \in 1..MaxTime : finished[p][ts] # NoneFinished => ts <= pools[p].last_update_ts
  BY NowNat DEF IInv, FinishedInv, UsersInv, PoolsInv, PoolOKBy
<1>2. FinishedOK(saved) /\ \A ts \in 1..MaxTime : ts # now => saved[ts] = finished[p][ts]
  BY <1>1, SaveFinishedOK
<1>3. \A ts \in 1..MaxTime : saved[ts] # NoneFinished => ts <= now
  BY <1>1, <1>2
<1>4. i \in Nat /\ paid \in Int
  BY <1>1, MemNat, ScaleAssumption
<1>5. SyncPosition(users[p][u], mem, amount) \in UserInfo
  BY <1>1, SyncPositionOK
<1>6. synced \in [Users -> UserInfo] /\ synced[u] = SyncPosition(users[p][u], mem, amount)
      /\ \A v \in Users : v # u => synced[v] = users[p][v]
  BY <1>1, <1>5
<1> HIDE DEF synced, saved, i, paid
<1>7. ASSUME NEW v \in Users
      PROVE  synced[v].amount * Gained(synced[v], saved, i, x) + (IF v = u THEN paid ELSE 0)
               <= users[p][v].amount * Gained(users[p][v], finished[p], MemIndex(mem, x), x)
  <2> DEFINE user == users[p][v]
             a == synced[v].amount * Gained(synced[v], saved, i, x)
             b == user.amount * Gained(user, finished[p], MemIndex(mem, x), x)
  <2>1. a \in Int
    BY <1>2, <1>4, <1>6, GainedInt
  <2>2. CASE v = u
    <3>1. a = 0
      BY <1>1, <1>2, <1>3, <1>6, <2>2, SyncedShare DEF i
    <3>2. paid <= b
      BY <2>2 DEF paid
    <3> HIDE DEF a, b
    <3>3. a + (IF v = u THEN paid ELSE 0) <= b
      BY <1>4, <2>2, <3>1, <3>2
    <3> QED BY <3>3 DEF a, b
  <2>3. CASE v # u
    <3>1. user \in UserInfo /\ (DOMAIN mem.rewards_to_remove # {} => finished[p][now] = NoneFinished /\ user.last_claim_time < now)
      BY <1>1 DEF Unwritten
    <3>2. synced[v] = user
      BY <1>6, <2>3
    <3> HIDE DEF user
    <3>3. user.amount * Gained(user, saved, i, x) <= b
      BY <1>1, <3>1, SavedShare DEF saved, i
    <3>4. a <= b
      BY <3>2, <3>3
    <3> HIDE DEF a, b
    <3>5. a + (IF v = u THEN paid ELSE 0) <= b
      BY <2>1, <2>3, <3>4
    <3> QED BY <3>5 DEF a, b, user
  <2> QED BY <2>2, <2>3
<1>8. LET left == DueOf(Stored(mem), synced, saved, S, x)
          due == MemDue(mem, users[p], finished[p], S, x)
      IN  left \in Int /\ due \in Int /\ left + Scale * OrphanCredit(mem, x) + paid <= due
  BY <1>1, <1>4, <1>6, <1>7, SavedDue DEF saved, i
<1> QED BY <1>8 DEF synced, saved, paid
-----------------------------------------------------------------------------
(* Two pools in memory that agree on a reward owe the same of it. *)
SameFor(mem, next, x) ==
  /\ x \in DOMAIN next.rewards <=> x \in DOMAIN mem.rewards
  /\ x \in DOMAIN mem.rewards => next.rewards[x] = mem.rewards[x]
  /\ next.rewards_to_remove = mem.rewards_to_remove
  /\ next.orphaned_to_claim = mem.orphaned_to_claim
  /\ next.last_update_ts = mem.last_update_ts

LEMMA SameDue ==
  ASSUME NEW mem, NEW next, NEW x, SameFor(mem, next, x), NEW positions, NEW entries, NEW S, NEW last
  PROVE  /\ MemIndex(next, x) = MemIndex(mem, x)
         /\ MemDue(next, positions, entries, S, x) = MemDue(mem, positions, entries, S, x)
         /\ InOrder(mem.rewards, S, last, x) => InOrder(next.rewards, S, last, x)
<1>1. IndexOf(next.rewards, x) = IndexOf(mem.rewards, x)
  BY DEF SameFor, IndexOf
<1>2. ToCome(next.rewards, S, next.last_update_ts, x) = ToCome(mem.rewards, S, mem.last_update_ts, x)
  BY DEF SameFor, ToCome
<1>3. MemIndex(next, x) = MemIndex(mem, x)
  BY <1>1 DEF MemIndex, SameFor
<1>4. InMemory(next, S, x) = InMemory(mem, S, x)
  BY <1>2 DEF InMemory, SameFor
<1>5. InOrder(mem.rewards, S, last, x) => InOrder(next.rewards, S, last, x)
  BY DEF InOrder, SameFor
<1> QED BY <1>3, <1>4, <1>5 DEF MemDue

LEMMA InternalSame ==
  ASSUME NEW t \in Nat, NEW mem, MemOK(mem, t), NEW rate, NEW total, NEW x \in Tokens
  PROVE  /\ SameFor(mem, SetInternalRewards(mem, rate), x)
         /\ SameFor(mem, DisableInternalRewards(mem), x)
         /\ SameFor(mem, [mem EXCEPT !.total_lp = total], x)
<1>0. x # Internal
  BY DEF Internal, Tokens
<1>1. SameFor(mem, SetInternalRewards(mem, rate), x)
  BY <1>0 DEF SetInternalRewards, Set, MemOK, SameFor
<1>2. SameFor(mem, DisableInternalRewards(mem), x)
  BY <1>0 DEF DisableInternalRewards, MemOK, SameFor
<1>3. SameFor(mem, [mem EXCEPT !.total_lp = total], x)
  BY DEF MemOK, SameFor
<1> QED BY <1>1, <1>2, <1>3

LEMMA SameTrans ==
  ASSUME NEW a, NEW b, NEW c, NEW x, SameFor(a, b, x), SameFor(b, c, x)
  PROVE  SameFor(a, c, x)
BY DEF SameFor
-----------------------------------------------------------------------------
(* The ledger of what the owner can claim. *)
LedgerOf(ledger, x) == IF x \in DOMAIN ledger THEN ledger[x] ELSE 0

(* What save credits to the ledger, and what a transfer moves. *)
LEMMA OrphanedBySaveIs ==
  ASSUME IInv, NEW P \in SUBSET Pools, NEW mem, \A p \in P : MemOK(mem[p], now), NEW x \in Tokens
  PROVE  LET o == SumIn(P, NumPools, [p \in Pools |-> OrphanCredit(mem[p], x)])
         IN  /\ o \in Nat /\ LedgerOf(orphaned, x) \in Nat
             /\ LedgerOf(OrphanedBySave(mem, P), x) \in Nat
             /\ LedgerOf(OrphanedBySave(mem, P), x) <= LedgerOf(orphaned, x) + o
<1> DEFINE keys == UNION {OrphanKeys(mem[p]) : p \in P}
           f == [p \in Pools |-> OrphanCredit(mem[p], x)]
           amount == [y \in Tokens |-> SumIn(P, NumPools, [p \in Pools |-> OrphanCredit(mem[p], y)])]
           o == SumIn(P, NumPools, f)
<1>1. o \in Nat
  <2>1. \A p \in 1..NumPools : p \in P => f[p] \in Nat
    BY NowNat, OrphanCreditNat DEF Pools
  <2> HIDE DEF f
  <2> QED BY <2>1, NumPoolsAssumption, SumInNat
<1>2. LedgerOf(orphaned, x) \in Nat
  BY DEF IInv, MoneyInv, LedgerOK, LedgerOf
<1>3. amount[x] = o
  OBVIOUS
<1> HIDE DEF keys, amount, o, f
<1>4. LedgerOf(Credit(orphaned, keys, amount), x) = LedgerOf(orphaned, x) + 0
        \/ LedgerOf(Credit(orphaned, keys, amount), x) = LedgerOf(orphaned, x) + o
  <2>1. DOMAIN Credit(orphaned, keys, amount) = DOMAIN orphaned \cup keys
    BY DEF Credit
  <2>2. x \in DOMAIN orphaned \cup keys =>
          Credit(orphaned, keys, amount)[x] = (IF x \in DOMAIN orphaned THEN orphaned[x] ELSE 0) + (IF x \in keys THEN o ELSE 0)
    BY <1>3 DEF Credit
  <2>3. CASE x \in keys
    BY <2>1, <2>2, <2>3 DEF LedgerOf
  <2>4. CASE x \notin keys
    <3>1. CASE x \in DOMAIN orphaned
      BY <2>1, <2>2, <2>4, <3>1 DEF LedgerOf
    <3>2. CASE x \notin DOMAIN orphaned
      BY <2>1, <2>4, <3>2 DEF LedgerOf
    <3> QED BY <3>1, <3>2
  <2> QED BY <2>3, <2>4
<1>5. OrphanedBySave(mem, P) = Credit(orphaned, keys, amount)
  BY DEF OrphanedBySave, keys, amount
<1>6. LedgerOf(OrphanedBySave(mem, P), x) \in Nat /\ LedgerOf(OrphanedBySave(mem, P), x) <= LedgerOf(orphaned, x) + o
  BY <1>1, <1>2, <1>4, <1>5
<1> QED BY <1>1, <1>2, <1>6 DEF o, f

(* A transfer is paid out of the balance, or its amount joins the ledger.  *)
LEMMA TransfersMove ==
  ASSUME MoneyInv, NEW ledger, LedgerOK(ledger), NEW amount \in [Tokens -> Nat], NEW emission \in Nat,
         NEW failing, Transfers(ledger, amount, emission, failing), NEW x \in Tokens \ {RewardToken}
  PROVE  /\ bank'[x] \in Nat /\ LedgerOf(orphaned', x) \in Nat /\ LedgerOf(ledger, x) \in Nat
         /\ LedgerOf(orphaned', x) - bank'[x] = LedgerOf(ledger, x) + amount[x] - bank[x]
<1> DEFINE sent(t) == t \notin failing /\ amount[t] <= bank[t]
           out(t) == IF sent(t) THEN amount[t] ELSE 0
           emitted == RewardToken \notin failing /\ emission <= bank[RewardToken] - out(RewardToken)
           lost == [t \in Tokens |-> (IF sent(t) THEN 0 ELSE amount[t])
                                       + (IF t = RewardToken /\ ~emitted THEN emission ELSE 0)]
           keys == {t \in Tokens : lost[t] > 0}
<1>1. /\ bank' = [t \in Tokens |-> bank[t] - out(t) - (IF t = RewardToken /\ emitted THEN emission ELSE 0)]
      /\ orphaned' = Credit(ledger, keys, lost)
  BY DEF Transfers
<1>2. x \in Tokens /\ x # RewardToken /\ bank[x] \in Nat /\ amount[x] \in Nat
  BY DEF MoneyInv
<1>3. bank'[x] = bank[x] - out(x) - 0
  BY <1>1, <1>2
<1>4. lost[x] = (IF sent(x) THEN 0 ELSE amount[x]) + 0
  BY <1>2
<1>5. LedgerOf(orphaned', x) = LedgerOf(ledger, x) + (IF x \in keys THEN lost[x] ELSE 0)
  <2> HIDE DEF keys, lost
  <2>1. LedgerOf(ledger, x) \in Nat
    BY DEF LedgerOK, LedgerOf
  <2>2. DOMAIN orphaned' = DOMAIN ledger \cup keys
    BY <1>1 DEF Credit
  <2>3. x \in DOMAIN ledger \cup keys =>
          orphaned'[x] = (IF x \in DOMAIN ledger THEN ledger[x] ELSE 0) + (IF x \in keys THEN lost[x] ELSE 0)
    BY <1>1 DEF Credit
  <2>4. CASE x \in DOMAIN ledger \cup keys
    BY <2>2, <2>3, <2>4 DEF LedgerOf
  <2>5. CASE x \notin DOMAIN ledger \cup keys
    BY <2>2, <2>5 DEF LedgerOf
  <2> QED BY <2>4, <2>5
<1>6. x \in keys <=> lost[x] > 0
  BY <1>2
<1>7. LedgerOf(ledger, x) \in Nat
  BY DEF LedgerOK, LedgerOf
<1>8. out(x) = (IF sent(x) THEN amount[x] ELSE 0) /\ (sent(x) => amount[x] <= bank[x])
  OBVIOUS
<1> HIDE DEF out, lost, keys, sent
<1>9. lost[x] \in Nat
  BY <1>2, <1>4
<1>10. LedgerOf(orphaned', x) = LedgerOf(ledger, x) + lost[x]
  BY <1>5, <1>6, <1>7, <1>9
<1> QED BY <1>2, <1>3, <1>4, <1>7, <1>8, <1>10
-----------------------------------------------------------------------------
(* Of every pool and token the schedules are in order. *)
OrderInv ==
  \A p \in Pools, x \in Tokens : InOrder(pools[p].rewards, schedules[p][x], pools[p].last_update_ts, x)

DueBy(p, x) == DueOf(pools[p], users[p], finished[p], schedules[p][x], x)

(* What is owed of an external token, in Decimal256 atomics and before     *)
(* anything is rounded down, is covered by the balance.                    *)
Backed ==
  \A x \in Tokens \ {RewardToken} :
    SumTo(NumPools, [p \in Pools |-> DueBy(p, x)]) + Scale * LedgerOf(orphaned, x) <= Scale * bank[x]

(* A handler keeps the books when each pool gives up what it credits and   *)
(* pays, and the balance and the ledger move by no more.                   *)
LEMMA BooksKept ==
  ASSUME IInv, Backed, NEW x \in Tokens \ {RewardToken}, NEW P \in SUBSET Pools,
         NEW mem, \A p \in P : MemOK(mem[p], now), NEW spent, NEW left,
         \A p \in P : /\ spent[p] \in Int /\ left[p] \in Int
                      /\ left[p] + Scale * OrphanCredit(mem[p], x) + Scale * spent[p] <= DueBy(p, x),
         \A p \in Pools \ P : left[p] = DueBy(p, x),
         NEW ledger \in Nat, NEW held \in Nat,
         ledger - held <= LedgerOf(OrphanedBySave(mem, P), x) + SumIn(P, NumPools, spent) - bank[x]
  PROVE  SumTo(NumPools, left) + Scale * ledger <= Scale * held
<1> DEFINE f == [p \in Pools |-> DueBy(p, x)]
           o == [p \in Pools |-> OrphanCredit(mem[p], x)]
           a == SumIn(P, NumPools, o)
           b == SumIn(P, NumPools, spent)
           total == a + b
           before == LedgerOf(orphaned, x)
           after == LedgerOf(OrphanedBySave(mem, P), x)
<1>1. a \in Nat /\ before \in Nat /\ after \in Nat /\ after <= before + a
  BY OrphanedBySaveIs
<1>2. \A p \in 1..NumPools : p \in Pools /\ f[p] = DueBy(p, x) /\ f[p] \in Int /\ o[p] = OrphanCredit(mem[p], x)
  BY LoadedDue DEF Pools, DueBy
<1>3. \A p \in 1..NumPools : p \in P => o[p] \in Int
  BY <1>2, NowNat, OrphanCreditNat
<1>4. b \in Int
  <2> DEFINE g == [i \in 1..NumPools |-> IF i \in P THEN spent[i] ELSE 0]
  <2>1. \A i \in 1..NumPools : g[i] \in Int
    OBVIOUS
  <2> HIDE DEF g
  <2>2. SumTo(NumPools, g) \in Int
    BY <2>1, NumPoolsAssumption, SumToInt
  <2> QED BY <2>2 DEF SumIn, g
<1>5. bank[x] \in Nat /\ Scale \in Nat
  BY ScaleAssumption DEF IInv, MoneyInv
<1>6. SumTo(NumPools, f) + Scale * before <= Scale * bank[x]
  BY DEF Backed
<1>6a. total = SumIn(P, NumPools, o) + SumIn(P, NumPools, spent)
  BY DEF total, a, b
<1> HIDE DEF f, o
<1>7. \A p \in 1..NumPools : f[p] \in Int /\ left[p] \in Int
  BY <1>2
<1>8. \A p \in 1..NumPools : p \in P => spent[p] \in Int /\ o[p] \in Int
                                        /\ left[p] + Scale * o[p] + Scale * spent[p] <= f[p]
  BY <1>2, <1>3
<1>9. \A p \in 1..NumPools : p \notin P => left[p] = f[p]
  BY <1>2
<1>10. /\ total \in Int /\ SumTo(NumPools, left) \in Int /\ SumTo(NumPools, f) \in Int
       /\ SumTo(NumPools, left) + Scale * total <= SumTo(NumPools, f)
  <2> HIDE DEF total, a, b
  <2>1. NumPools \in Nat /\ Scale \in Int
    BY <1>5, NumPoolsAssumption
  <2>2. \A i \in 1..NumPools : f[i] \in Int /\ left[i] \in Int
    BY <1>7
  <2>3. \A i \in 1..NumPools : i \in P => spent[i] \in Int /\ o[i] \in Int /\ left[i] + Scale * o[i] + Scale * spent[i] <= f[i]
    BY <1>8
  <2>4. \A i \in 1..NumPools : i \notin P => left[i] = f[i]
    BY <1>9
  <2>5. total = SumIn(P, NumPools, o) + SumIn(P, NumPools, spent)
    BY <1>6a
  <2>6. Spends(NumPools, P, Scale, f, left, spent, o, total)
    BY <2>2, <2>3, <2>4, <2>5 DEF Spends
  <2> QED BY <2>1, <2>6, SumToSpent
<1>11. ledger - held <= (before + total) - bank[x]
  <2> HIDE DEF a, b, before, after
  <2> QED BY <1>1, <1>4, <1>5 DEF after, b
<1> HIDE DEF total, before
<1> DEFINE y == ledger - held
           z == (before + total) - bank[x]
           sl == Scale * ledger
           sh == Scale * held
           sb == Scale * before
           st == Scale * total
           sk == Scale * bank[x]
<1>12. Scale * y <= Scale * z
  <2>1. y \in Int /\ z \in Int /\ y <= z
    BY <1>1, <1>5, <1>10, <1>11
  <2> HIDE DEF y, z
  <2>2. y * Scale <= z * Scale
    BY <1>5, <2>1, Scaled
  <2> QED BY <1>5, <2>1, <2>2
<1>13. Scale * y = sl - sh /\ Scale * z = (sb + st) - sk /\ sl \in Int /\ sh \in Int /\ sb \in Int /\ st \in Int /\ sk \in Int
  BY <1>1, <1>5, <1>10
<1>14. SumTo(NumPools, left) + st <= SumTo(NumPools, f) /\ SumTo(NumPools, f) + sb <= sk
  BY <1>6, <1>10
<1> HIDE DEF y, z, sl, sh, sb, st, sk
<1>15. SumTo(NumPools, left) + sl <= sh
  BY <1>10, <1>12, <1>13, <1>14
<1> QED BY <1>15 DEF sl, sh
-----------------------------------------------------------------------------
(* Loading and saving a pool keep its schedules in order. *)
LEMMA LoadedInOrder ==
  ASSUME IInv, OrderInv, NEW p \in Pools, NEW x \in Tokens
  PROVE  InOrder(Loaded(p).rewards, schedules[p][x], now, x)
<1>1. PoolOKBy(pools[p], now) /\ schedules[p] \in [Tokens -> Schedules] /\ now \in Nat
  BY NowNat DEF IInv, PoolsInv, SchedulesInv
<1>2. InOrder(pools[p].rewards, schedules[p][x], pools[p].last_update_ts, x)
  BY DEF OrderInv
<1> QED BY <1>1, <1>2, UpdateKeepsOrder DEF Loaded

LEMMA SavedInOrder ==
  ASSUME IInv, OrderInv, NEW P \in SUBSET Pools, NEW mem, SavePools(mem, P),
         \A p \in P : MemOK(mem[p], now) /\ \A x \in Tokens : InOrder(mem[p].rewards, schedules'[p][x], now, x),
         \A p \in Pools \ P : schedules'[p] = schedules[p]
  PROVE  OrderInv'
<1> SUFFICES ASSUME NEW p \in Pools, NEW x \in Tokens
             PROVE  InOrder(pools'[p].rewards, schedules'[p][x], pools'[p].last_update_ts, x)
  BY DEF OrderInv
<1>1. pools'[p] = IF p \in P THEN Stored(mem[p]) ELSE pools[p]
  BY DEF SavePools
<1>2. CASE p \notin P
  BY <1>1, <1>2 DEF OrderInv
<1>3. CASE p \in P
  <2>0. mem[p].last_update_ts = now
    BY <1>3 DEF MemOK
  <2>1. pools'[p].rewards = mem[p].rewards /\ pools'[p].last_update_ts = now
    BY <1>1, <1>3, <2>0 DEF Stored
  <2> QED BY <1>3, <2>1
<1> QED BY <1>2, <1>3

LEMMA SameOrphans ==
  ASSUME NEW a, NEW b, NEW x, SameFor(a, b, x)
  PROVE  OrphanCredit(a, x) = OrphanCredit(b, x)
BY DEF SameFor, OrphanCredit, RemovedOrphans, RemovedWhole
-----------------------------------------------------------------------------
(* Handlers that change internal rates only. *)
LEMMA RatesKeepBooks ==
  ASSUME IInv, OrderInv, Backed, NEW P \in SUBSET Pools, NEW mem, SavePools(mem, P),
         \A p \in P : MemOK(mem[p], now) /\ \A x \in Tokens : SameFor(Loaded(p), mem[p], x),
         users' = users, schedules' = schedules, bank' = bank, orphaned' = OrphanedBySave(mem, P)
  PROVE  OrderInv' /\ Backed'
<1>1. OrderInv'
  <2>1. \A p \in P : \A x \in Tokens : InOrder(mem[p].rewards, schedules'[p][x], now, x)
    BY LoadedInOrder, SameDue
  <2> QED BY <2>1, SavedInOrder
<1>2. Backed'
  <2> SUFFICES ASSUME NEW x \in Tokens \ {RewardToken}
               PROVE  SumTo(NumPools, [p \in Pools |-> DueOf(pools'[p], users'[p], finished'[p], schedules'[p][x], x)])
                        + Scale * LedgerOf(orphaned', x) <= Scale * bank'[x]
    BY DEF Backed, DueBy
  <2> DEFINE left == [p \in Pools |-> DueOf(pools'[p], users'[p], finished'[p], schedules'[p][x], x)]
             spent == [p \in Pools |-> 0]
  <2>1. ASSUME NEW p \in P
        PROVE  left[p] \in Int /\ left[p] + Scale * OrphanCredit(mem[p], x) + Scale * spent[p] <= DueBy(p, x)
    <3> DEFINE S == schedules[p][x]
               saved == DueOf(Stored(mem[p]), users[p], SaveFinished(finished[p], mem[p]), S, x)
               due == MemDue(mem[p], users[p], finished[p], S, x)
               o == Scale * OrphanCredit(mem[p], x)
    <3>1. left[p] = saved /\ spent[p] = 0
      BY DEF SavePools
    <3>2. MemOK(mem[p], now) /\ SameFor(Loaded(p), mem[p], x) /\ S \in Schedules
      BY DEF IInv, SchedulesInv
    <3>3. DOMAIN mem[p].rewards_to_remove # {} => Unwritten(p)
      BY <3>2, LoadedGoesOn DEF SameFor
    <3> HIDE DEF S, left, spent
    <3>4. saved \in Int /\ due \in Int /\ saved + o <= due
      BY <3>2, <3>3, PoolSaved
    <3>5. due = MemDue(Loaded(p), users[p], finished[p], S, x)
      BY <3>2, SameDue
    <3>6. due <= DueBy(p, x) /\ DueBy(p, x) \in Int
      BY <3>5, LoadedDue DEF S, DueBy
    <3>7. o \in Int /\ Scale * spent[p] = 0
      BY <3>1, <3>2, NowNat, OrphanCreditNat, ScaleAssumption
    <3> HIDE DEF saved, due, o
    <3>8. left[p] + o + Scale * spent[p] <= DueBy(p, x)
      BY <3>1, <3>4, <3>6, <3>7
    <3> QED BY <3>1, <3>4, <3>8 DEF o
  <2>2. \A p \in Pools \ P : left[p] = DueBy(p, x)
    BY DEF SavePools, DueBy
  <2>3. \A p \in P : spent[p] \in Int
    OBVIOUS
  <2>4. SumIn(P, NumPools, spent) = 0
    <3> DEFINE g == [i \in 1..NumPools |-> IF i \in P THEN spent[i] ELSE 0]
               zero == [i \in 1..NumPools |-> 0]
    <3>1. \A i \in 1..NumPools : zero[i] \in Int /\ g[i] = zero[i]
      BY DEF Pools
    <3>2. SumTo(NumPools, zero) = 0
      BY NumPoolsAssumption, SumToZero
    <3> HIDE DEF g, zero
    <3>3. SumTo(NumPools, g) = SumTo(NumPools, zero)
      BY <3>1, NumPoolsAssumption, SumToSame
    <3> QED BY <3>2, <3>3 DEF SumIn, g
  <2>5. /\ LedgerOf(orphaned', x) \in Nat /\ bank'[x] \in Nat
        /\ LedgerOf(orphaned', x) = LedgerOf(OrphanedBySave(mem, P), x) /\ bank'[x] = bank[x]
    BY OrphanedBySaveIs DEF IInv, MoneyInv
  <2> DEFINE ledger == LedgerOf(orphaned', x)
             held == bank'[x]
  <2>6. ledger - held <= LedgerOf(OrphanedBySave(mem, P), x) + SumIn(P, NumPools, spent) - bank[x]
    BY <2>4, <2>5
  <2>7. ledger \in Nat /\ held \in Nat /\ \A p \in P : MemOK(mem[p], now)
    BY <2>5
  <2> HIDE DEF left, spent, ledger, held
  <2>8. SumTo(NumPools, left) + Scale * ledger <= Scale * held
    BY <2>1, <2>2, <2>3, <2>6, <2>7, BooksKept
  <2> QED BY <2>8 DEF left, ledger, held
<1> QED BY <1>1, <1>2
-----------------------------------------------------------------------------
(* Handlers that pay a claim. *)
LEMMA ClaimKeepsBooks ==
  ASSUME IInv, ExitInv, OrderInv, Backed, NEW u \in Users, NEW P \in SUBSET Pools, NEW mem, NEW amount,
         ClaimPossible(u, P), SavePools(mem, P), SyncUser(u, P, mem, amount),
         PayClaim(u, P, [p \in Pools |-> Loaded(p)]), schedules' = schedules,
         \A p \in P : /\ MemOK(mem[p], now) /\ amount[p] \in Nat
                      /\ \A x \in Tokens : SameFor(Loaded(p), mem[p], x)
  PROVE  OrderInv' /\ Backed'
<1>1. OrderInv'
  <2>1. \A p \in P : \A x \in Tokens : InOrder(mem[p].rewards, schedules'[p][x], now, x)
    BY LoadedInOrder, SameDue
  <2> QED BY <2>1, SavedInOrder
<1>2. Backed'
  <2> SUFFICES ASSUME NEW x \in Tokens \ {RewardToken}
               PROVE  SumTo(NumPools, [p \in Pools |-> DueOf(pools'[p], users'[p], finished'[p], schedules'[p][x], x)])
                        + Scale * LedgerOf(orphaned', x) <= Scale * bank'[x]
    BY DEF Backed, DueBy
  <2> DEFINE low == [p \in Pools |-> Loaded(p)]
             left == [p \in Pools |-> DueOf(pools'[p], users'[p], finished'[p], schedules'[p][x], x)]
             spent == [p \in Pools |-> ClaimableReward(users[p][u], finished[p], low[p], x)]
             paid == [t \in Tokens |-> Claimed(u, P, low, t)]
             emission == Claimed(u, P, low, Internal)
  <2>0. \A p \in Pools : low[p] = Loaded(p) /\ spent[p] = ClaimableReward(users[p][u], finished[p], Loaded(p), x)
    OBVIOUS
  <2>1. ASSUME NEW p \in P
        PROVE  /\ left[p] \in Int /\ spent[p] \in Int
               /\ left[p] + Scale * OrphanCredit(low[p], x) + Scale * spent[p] <= DueBy(p, x)
    <3> DEFINE S == schedules[p][x]
               c == spent[p]
               synced == [users[p] EXCEPT ![u] = SyncPosition(users[p][u], mem[p], amount[p])]
               saved == DueOf(Stored(mem[p]), synced, SaveFinished(finished[p], mem[p]), S, x)
               due == MemDue(mem[p], users[p], finished[p], S, x)
               o == Scale * OrphanCredit(mem[p], x)
    <3>1. left[p] = saved
      BY DEF SavePools, SyncUser
    <3>2. MemOK(mem[p], now) /\ SameFor(Loaded(p), mem[p], x) /\ amount[p] \in Nat /\ S \in Schedules
      BY DEF IInv, SchedulesInv
    <3>3. DOMAIN mem[p].rewards_to_remove # {} => Unwritten(p)
      BY <3>2, LoadedGoesOn DEF SameFor
    <3>4. due = MemDue(Loaded(p), users[p], finished[p], S, x) /\ MemIndex(mem[p], x) = MemIndex(Loaded(p), x)
      BY <3>2, SameDue
    <3> HIDE DEF S, left, spent, saved, due, synced
    <3>5. c \in Nat /\ Scale * c <= users[p][u].amount * Gained(users[p][u], finished[p], MemIndex(mem[p], x), x)
      BY <2>0, <3>4, LoadedClaim
    <3> HIDE DEF c
    <3>6. saved \in Int /\ due \in Int /\ saved + o + Scale * c <= due
      BY <3>2, <3>3, <3>5, PoolClaimed DEF saved, due, synced
    <3>7. due <= DueBy(p, x) /\ DueBy(p, x) \in Int
      BY <3>4, LoadedDue DEF S, DueBy
    <3> DEFINE v == Scale * c
    <3>8. o \in Int /\ v \in Int
      BY <3>2, <3>5, NowNat, OrphanCreditNat, ScaleAssumption
    <3>9. o = Scale * OrphanCredit(low[p], x)
      BY <2>0, <3>2, SameOrphans
    <3> HIDE DEF o, v
    <3>10. saved + o + v <= DueBy(p, x)
      BY <3>6, <3>7, <3>8 DEF v
    <3> HIDE DEF low
    <3> QED BY <3>1, <3>5, <3>6, <3>9, <3>10 DEF c, v
  <2>2. \A p \in Pools \ P : left[p] = DueBy(p, x)
    BY DEF SavePools, SyncUser, DueBy
  <2>3. \A p \in P : MemOK(low[p], now)
    BY LoadedOK
  <2>4. paid \in [Tokens -> Nat] /\ emission \in Nat
    BY ClaimedNat DEF Keys
  <2>5. PICK failing : Transfers(OrphanedBySave(low, P), paid, emission, failing)
    BY DEF PayClaim
  <2>6. paid[x] = SumIn(P, NumPools, spent)
    BY DEF Claimed
  <2> HIDE DEF left, spent, paid, emission, low
  <2>7. LedgerOK(OrphanedBySave(low, P)) /\ MoneyInv
    BY <2>3, OrphanedBySaveOK DEF IInv
  <2> DEFINE ledger == LedgerOf(orphaned', x)
             held == bank'[x]
             before == LedgerOf(OrphanedBySave(low, P), x)
  <2>8. held \in Nat /\ ledger \in Nat /\ ledger - held = before + paid[x] - bank[x] /\ before \in Nat
    BY <2>4, <2>5, <2>7, TransfersMove
  <2>9. paid[x] \in Nat /\ bank[x] \in Nat
    BY <2>4, <2>7 DEF MoneyInv
  <2> HIDE DEF ledger, held, before
  <2>10. ledger - held <= before + SumIn(P, NumPools, spent) - bank[x]
    BY <2>6, <2>8, <2>9
  <2>11. SumTo(NumPools, left) + Scale * ledger <= Scale * held
    BY <2>1, <2>2, <2>3, <2>8, <2>10, BooksKept DEF before
  <2> QED BY <2>11 DEF left, ledger, held
<1> QED BY <1>1, <1>2
-----------------------------------------------------------------------------
(* Deposits and withdrawals of the pool token, and claims. *)
LEMMA SameItself == \A mem, x : SameFor(mem, mem, x)
BY DEF SameFor

LEMMA StakersKeepBooks ==
  ASSUME IInv, ExitInv, OrderInv, Backed, NEW u \in Users
  PROVE  /\ \A P \in SUBSET Pools : ClaimRewards(u, P) => OrderInv' /\ Backed'
         /\ \A p \in Pools, delta \in Int :
               users[p][u].amount + delta >= 0 /\ Restake(u, p, delta) => OrderInv' /\ Backed'
<1>1. ASSUME NEW P \in SUBSET Pools, ClaimRewards(u, P)
      PROVE  OrderInv' /\ Backed'
  <2> DEFINE mem == [p \in Pools |-> Loaded(p)]
             staked == [p \in Pools |-> users[p][u].amount]
  <2>1. /\ ClaimPossible(u, P) /\ PayClaim(u, P, mem) /\ SavePools(mem, P)
        /\ SyncUser(u, P, mem, staked) /\ schedules' = schedules
    BY <1>1 DEF ClaimRewards
  <2>2. \A p \in P : mem[p] = Loaded(p) /\ staked[p] \in Nat
    BY DEF IInv, UsersInv, UserInfo
  <2> DEFINE next == mem
  <2>3. SavePools(next, P) /\ SyncUser(u, P, next, staked)
    BY <2>1
  <2>4. \A p \in P : /\ MemOK(next[p], now) /\ staked[p] \in Nat
                     /\ \A x \in Tokens : SameFor(Loaded(p), next[p], x)
    BY <2>2, LoadedOK, SameItself
  <2> HIDE DEF next, staked
  <2> QED BY <2>1, <2>3, <2>4, ClaimKeepsBooks
<1>2. ASSUME NEW p \in Pools, NEW delta \in Int, users[p][u].amount + delta >= 0, Restake(u, p, delta)
      PROVE  OrderInv' /\ Backed'
  <2> DEFINE mem == [q \in Pools |-> Loaded(q)]
             restaked == [mem EXCEPT ![p].total_lp = @ + delta]
             staked == [q \in Pools |-> users[q][u].amount + delta]
             total == pools[p].total_lp + delta
  <2>1. /\ ClaimPossible(u, {p}) /\ PayClaim(u, {p}, mem) /\ SavePools(restaked, {p})
        /\ SyncUser(u, {p}, restaked, staked) /\ schedules' = schedules
    BY <1>2 DEF Restake
  <2>2. staked[p] \in Nat
    BY <1>2 DEF IInv, UsersInv, UserInfo
  <2>3. restaked[p] = [Loaded(p) EXCEPT !.total_lp = total]
    BY LoadedOK
  <2>4. total \in Nat
    <3>1. users[p][u].amount \in Nat /\ pools[p].total_lp \in Nat /\ users[p][u].amount <= pools[p].total_lp
      BY StakeWithin
    <3> QED BY <1>2, <3>1
  <2> HIDE DEF restaked, staked, total
  <2>5. MemOK(restaked[p], now)
    BY <2>3, <2>4, LoadedOK, NowNat, TotalChangeOK
  <2>6. \A x \in Tokens : SameFor(Loaded(p), restaked[p], x)
    BY <2>3, LoadedOK, NowNat, InternalSame
  <2>7. \A q \in {p} : /\ MemOK(restaked[q], now) /\ staked[q] \in Nat
                       /\ \A x \in Tokens : SameFor(Loaded(q), restaked[q], x)
    BY <2>2, <2>5, <2>6
  <2> QED BY <2>1, <2>7, ClaimKeepsBooks
<1> QED BY <1>1, <1>2
-----------------------------------------------------------------------------
(* Handlers of the owner that change allocation points or the emission. *)
LEMMA RatesHandlersKeepBooks ==
  ASSUME IInv, OrderInv, Backed
  PROVE  /\ \A S \in SUBSET Pools : \A alloc \in [S -> AllocPoints] : SetupPools(alloc) => OrderInv' /\ Backed'
         /\ \A amount \in Nat : SetTokensPerSecond(amount) => OrderInv' /\ Backed'
         /\ \A D, newTotal : DisablePools(D, newTotal) /\ newTotal \in Int /\ UNCHANGED <<users, schedules, bank>>
              => OrderInv' /\ Backed'
<1>0. DOMAIN activePools \subseteq Pools /\ activePools \in [DOMAIN activePools -> Nat]
      /\ totalAlloc \in Nat /\ rewardPerSecond \in Nat
  BY DEF IInv, AdminInv
<1>1. ASSUME NEW p \in Pools, NEW mem, NEW rate \in Nat,
             \/ mem = Loaded(p) \/ mem = DisableInternalRewards(Loaded(p))
             \/ mem = SetInternalRewards(Loaded(p), rate)
             \/ mem = SetInternalRewards(DisableInternalRewards(Loaded(p)), rate)
      PROVE  MemOK(mem, now) /\ \A x \in Tokens : SameFor(Loaded(p), mem, x)
  <2> DEFINE low == Loaded(p)
             off == DisableInternalRewards(low)
  <2>1. MemOK(low, now) /\ now \in Nat
    BY LoadedOK, NowNat
  <2> SUFFICES MemOK(mem, now) /\ \A x \in Tokens : SameFor(low, mem, x)
    OBVIOUS
  <2>6. \/ mem = low \/ mem = off
        \/ mem = SetInternalRewards(low, rate) \/ mem = SetInternalRewards(off, rate)
    BY <1>1
  <2> HIDE DEF low
  <2>2. MemOK(off, now) /\ \A x \in Tokens : SameFor(low, off, x)
    BY <2>1, DisableInternalRewardsOK, InternalSame
  <2> HIDE DEF off
  <2>3. CASE mem = low \/ mem = off
    BY <2>1, <2>2, <2>3, SameItself
  <2>4. CASE mem = SetInternalRewards(low, rate)
    BY <2>1, <2>4, SetInternalRewardsOK, InternalSame
  <2>5. CASE mem = SetInternalRewards(off, rate)
    <3>1. MemOK(mem, now) /\ \A x \in Tokens : SameFor(off, mem, x)
      BY <2>1, <2>2, <2>5, SetInternalRewardsOK, InternalSame
    <3> QED BY <2>2, <3>1, SameTrans
  <2> QED BY <2>3, <2>4, <2>5, <2>6
<1>2. ASSUME NEW S \in SUBSET Pools, NEW alloc \in [S -> AllocPoints], SetupPools(alloc)
      PROVE  OrderInv' /\ Backed'
  <2> DEFINE old == DOMAIN activePools
             disabled(p) == IF p \in old THEN DisableInternalRewards(Loaded(p)) ELSE Loaded(p)
             rate(p) == InternalRate(rewardPerSecond, alloc[p], AllocSum(alloc))
             mem == [p \in Pools |-> IF p \in S THEN SetInternalRewards(disabled(p), rate(p)) ELSE disabled(p)]
  <2>1. /\ SavePools(mem, old \cup S) /\ orphaned' = OrphanedBySave(mem, old \cup S)
        /\ users' = users /\ schedules' = schedules /\ bank' = bank
    BY <1>2 DEF SetupPools
  <2>2. \A p \in S : rate(p) \in Nat
    <3> SUFFICES ASSUME NEW p \in S PROVE rate(p) \in Nat
      OBVIOUS
    <3>1. alloc[p] \in Nat \ {0} /\ alloc[p] <= AllocSum(alloc) /\ AllocSum(alloc) \in Nat
      BY InputsAssumption, AllocSumOK
    <3> QED BY <1>0, <3>1, InternalRateNat
  <2>3. \A p \in old \cup S : MemOK(mem[p], now) /\ \A x \in Tokens : SameFor(Loaded(p), mem[p], x)
    <3> SUFFICES ASSUME NEW p \in old \cup S
                 PROVE  MemOK(mem[p], now) /\ \A x \in Tokens : SameFor(Loaded(p), mem[p], x)
      OBVIOUS
    <3>1. p \in Pools
      BY <1>0
    <3>2. mem[p] = IF p \in S THEN SetInternalRewards(disabled(p), rate(p)) ELSE disabled(p)
      BY <3>1
    <3>3. disabled(p) = Loaded(p) \/ disabled(p) = DisableInternalRewards(Loaded(p))
      OBVIOUS
    <3> HIDE DEF mem, disabled, rate
    <3>4. CASE p \in S
      BY <1>1, <2>2, <3>1, <3>2, <3>3, <3>4
    <3>5. CASE p \notin S
      <4>1. 0 \in Nat
        OBVIOUS
      <4> QED BY <1>1, <3>1, <3>2, <3>3, <3>5, <4>1
    <3> QED BY <3>4, <3>5
  <2>4. (old \cup S) \in SUBSET Pools
    BY <1>0
  <2> HIDE DEF mem, old
  <2> QED BY <2>1, <2>3, <2>4, RatesKeepBooks
<1>3. ASSUME NEW amount \in Nat, SetTokensPerSecond(amount)
      PROVE  OrderInv' /\ Backed'
  <2> DEFINE active == DOMAIN activePools
             rate(p) == InternalRate(amount, activePools[p], totalAlloc)
             mem == [p \in Pools |-> IF p \in active THEN SetInternalRewards(Loaded(p), rate(p)) ELSE Loaded(p)]
  <2>1. /\ SavePools(mem, active) /\ orphaned' = OrphanedBySave(mem, active)
        /\ users' = users /\ schedules' = schedules /\ bank' = bank /\ (active # {} => totalAlloc > 0)
    BY <1>3 DEF SetTokensPerSecond
  <2>2. \A p \in active : rate(p) \in Nat
    BY <1>0, <2>1, InternalRateNat
  <2>3. \A p \in active : mem[p] = SetInternalRewards(Loaded(p), rate(p)) /\ p \in Pools
    BY <1>0
  <2> HIDE DEF mem, rate
  <2>4. \A p \in active : MemOK(mem[p], now) /\ \A x \in Tokens : SameFor(Loaded(p), mem[p], x)
    BY <1>1, <2>2, <2>3
  <2>5. active \in SUBSET Pools
    BY <1>0
  <2> HIDE DEF active
  <2> QED BY <2>1, <2>4, <2>5, RatesKeepBooks
<1>4. ASSUME NEW D, NEW newTotal, DisablePools(D, newTotal), newTotal \in Int, UNCHANGED <<users, schedules, bank>>
      PROVE  OrderInv' /\ Backed'
  <2> DEFINE active == DOMAIN activePools
             rest == active \ D
             rate(p) == InternalRate(rewardPerSecond, activePools[p], newTotal)
             mem == [p \in Pools |-> IF p \in rest THEN SetInternalRewards(Loaded(p), rate(p))
                                     ELSE DisableInternalRewards(Loaded(p))]
  <2>1. /\ SavePools(mem, active) /\ orphaned' = OrphanedBySave(mem, active)
        /\ newTotal >= 0 /\ (rest # {} => newTotal > 0)
    BY <1>4 DEF DisablePools
  <2>2. \A p \in rest : rate(p) \in Nat
    BY <1>0, <1>4, <2>1, InternalRateNat
  <2>3. \A p \in active : /\ p \in Pools
                          /\ mem[p] = IF p \in rest THEN SetInternalRewards(Loaded(p), rate(p))
                                      ELSE DisableInternalRewards(Loaded(p))
    BY <1>0
  <2> HIDE DEF mem, rate, rest
  <2>4. \A p \in active : MemOK(mem[p], now) /\ \A x \in Tokens : SameFor(Loaded(p), mem[p], x)
    <3> SUFFICES ASSUME NEW p \in active
                 PROVE  MemOK(mem[p], now) /\ \A x \in Tokens : SameFor(Loaded(p), mem[p], x)
      OBVIOUS
    <3>1. PICK r \in Nat : p \in rest => r = rate(p)
      BY <2>2
    <3> QED BY <1>1, <2>3, <3>1
  <2>5. active \in SUBSET Pools
    BY <1>0
  <2>6. users' = users /\ schedules' = schedules /\ bank' = bank
    BY <1>4
  <2> HIDE DEF active
  <2> QED BY <2>1, <2>4, <2>5, <2>6, RatesKeepBooks
<1> QED BY <1>2, <1>3, <1>4
-----------------------------------------------------------------------------
(* A deposit is no less than what its schedule is to emit, rounded down. *)
LEMMA FundedWithin ==
  ASSUME NEW t \in 1..MaxTime, NEW amount \in Nat, NEW periods \in Nat, ValidSchedule(amount, t, periods)
  PROVE  LET rate == ScheduleRate(amount, t, periods)
             end == EndTs(t, periods)
         IN  /\ periods \in 1..MaxPeriods /\ rate \in Nat \ {0} /\ end \in Nat /\ end > t
             /\ rate * (end - t) <= Scale * amount
<1> DEFINE rate == ScheduleRate(amount, t, periods)
           end == EndTs(t, periods)
           d == end - t
           y == amount * Scale
<1>1. t \in Nat
  BY MaxTimeAssumption
<1>2. end \in Nat /\ end > t /\ d \in Nat \ {0}
  <2>1. end \in Nat /\ end > t
    BY <1>1, EndTsLater
  <2> HIDE DEF end
  <2> QED BY <1>1, <2>1
<1>3. rate \in Nat
  BY <1>1, ScheduleRateNat
<1>4. periods \in 1..MaxPeriods /\ rate >= Scale
  BY DEF ValidSchedule
<1>5. y \in Int /\ y = Scale * amount
  BY ScaleAssumption
<1>6. rate = y \div d
  BY DEF ScheduleRate
<1> HIDE DEF rate, end, d, y
<1>7. rate * d <= y
  BY <1>2, <1>5, <1>6, DivBounds
<1>8. rate \in Nat \ {0}
  BY <1>3, <1>4, ScaleAssumption
<1> QED BY <1>2, <1>4, <1>5, <1>7, <1>8 DEF rate, end, d, y

(* What the pool owes after a deposit is what it owed and the deposit.     *)
LEMMA FundedDue ==
  ASSUME NEW t \in 1..MaxTime, NEW mem, MemOK(mem, t), NEW x \in Tokens, NEW amount \in Nat,
         NEW periods \in Nat, ValidSchedule(amount, t, periods), NEW S \in Schedules,
         InOrder(mem.rewards, S, t, x),
         NEW positions \in [Users -> UserInfo], NEW entries, FinishedOK(entries)
  PROVE  LET rate == ScheduleRate(amount, t, periods)
             end == EndTs(t, periods)
             funded == IncentivizeReward(mem, x, rate, end)
             R == IncentivizeSchedules(mem, S, x, rate, t, end)
             due == MemDue(mem, positions, entries, S, x)
             next == MemDue(funded, positions, entries, R, x)
         IN  due \in Int /\ next \in Int /\ next <= due + Scale * amount
<1> DEFINE rate == ScheduleRate(amount, t, periods)
           end == EndTs(t, periods)
           funded == IncentivizeReward(mem, x, rate, end)
           R == IncentivizeSchedules(mem, S, x, rate, t, end)
           added == rate * (end - t)
           e == Entitled(positions, entries, MemIndex(mem, x), x)
           come == ToCome(mem.rewards, S, t, x)
           rest == mem.orphaned_to_claim[x]
                     + (IF x \in DOMAIN mem.rewards_to_remove THEN mem.rewards_to_remove[x].orphaned ELSE 0)
<1>0. periods \in 1..MaxPeriods /\ rate \in Nat \ {0} /\ end \in Nat /\ end > t /\ added <= Scale * amount /\ t \in Nat
  BY FundedWithin, MaxTimeAssumption
<1>1. MemIndex(mem, x) \in Nat /\ come \in Nat
  BY <1>0, MemNat
<1>2. e \in Int
  BY <1>1, EntitledShift
<1>3. /\ funded.rewards_to_remove = mem.rewards_to_remove
      /\ funded.orphaned_to_claim = mem.orphaned_to_claim
      /\ funded.last_update_ts = t /\ mem.last_update_ts = t
      /\ IndexOf(funded.rewards, x) = IndexOf(mem.rewards, x)
  <2> HIDE DEF rate, end
  <2>1. mem.last_update_ts = t
    BY DEF MemOK
  <2>2. /\ DOMAIN funded.rewards = DOMAIN mem.rewards \cup {x}
        /\ funded.rewards_to_remove = mem.rewards_to_remove
        /\ funded.orphaned_to_claim = mem.orphaned_to_claim
        /\ funded.last_update_ts = mem.last_update_ts
        /\ x \notin DOMAIN mem.rewards =>
             funded.rewards[x] = [rps |-> rate, index |-> 0, orphaned |-> 0, next_update_ts |-> end]
        /\ x \in DOMAIN mem.rewards => funded.rewards[x].index = mem.rewards[x].index
    BY <1>0, IncentivizedIs
  <2> HIDE DEF funded
  <2> QED BY <2>1, <2>2 DEF IndexOf
<1>4. ToCome(funded.rewards, R, t, x) = come + added
  <2> HIDE DEF rate
  <2> QED BY <1>0, IncentivizeAdds DEF end
<1>5. rest \in Nat
  <2>1. mem.orphaned_to_claim[x] \in Nat
    BY DEF MemOK
  <2>2. x \in DOMAIN mem.rewards_to_remove => mem.rewards_to_remove[x].orphaned \in Nat
    BY DEF MemOK, Removal
  <2> QED BY <2>1, <2>2
<1>6. added \in Int
  <2> HIDE DEF rate, end
  <2>1. end - t \in Int
    BY <1>0
  <2> QED BY <1>0, <2>1
<1> HIDE DEF rate, end, funded, R, added
<1>7. MemIndex(funded, x) = MemIndex(mem, x)
  BY <1>3 DEF MemIndex
<1>8. MemDue(mem, positions, entries, S, x) = e + (come + rest)
  <2>1. InMemory(mem, S, x) = come + rest
    <3>1. mem.orphaned_to_claim[x] \in Nat
      BY DEF MemOK
    <3>2. x \in DOMAIN mem.rewards_to_remove => mem.rewards_to_remove[x].orphaned \in Nat
      BY DEF MemOK, Removal
    <3> HIDE DEF come
    <3> QED BY <1>1, <1>3, <3>1, <3>2 DEF InMemory, come
  <2> QED BY <2>1 DEF MemDue
<1>9. MemDue(funded, positions, entries, R, x) = e + (come + added + rest)
  <2>1. InMemory(funded, R, x) = come + added + rest
    <3>1. mem.orphaned_to_claim[x] \in Nat
      BY DEF MemOK
    <3>2. x \in DOMAIN mem.rewards_to_remove => mem.rewards_to_remove[x].orphaned \in Nat
      BY DEF MemOK, Removal
    <3> HIDE DEF come
    <3> QED BY <1>1, <1>3, <1>4, <1>6, <3>1, <3>2 DEF InMemory
  <2> QED BY <1>7, <2>1 DEF MemDue
<1> HIDE DEF e, come, rest
<1>10. Scale * amount \in Int
  BY ScaleAssumption
<1> DEFINE s == Scale * amount
<1>11. s \in Int /\ added <= s
  BY <1>0, <1>10
<1> HIDE DEF s
<1>12. e + (come + added + rest) <= e + (come + rest) + s
  BY <1>1, <1>2, <1>5, <1>6, <1>11
<1> QED BY <1>1, <1>2, <1>5, <1>6, <1>8, <1>9, <1>12 DEF s, funded, R, rate, end
-----------------------------------------------------------------------------
(* Incentivizing: the deposit pays for what it adds. *)
LEMMA FundedSame ==
  ASSUME NEW t \in Nat, NEW mem, MemOK(mem, t), NEW x \in Tokens, NEW rate \in Nat, NEW end \in Nat
  PROVE  /\ \A y \in Tokens \ {x} : SameFor(mem, IncentivizeReward(mem, x, rate, end), y)
         /\ IncentivizeReward(mem, x, rate, end).rewards_to_remove = mem.rewards_to_remove
         /\ IncentivizeReward(mem, x, rate, end).orphaned_to_claim = mem.orphaned_to_claim
<1> DEFINE funded == IncentivizeReward(mem, x, rate, end)
<1> DEFINE n == mem.rewards[x].next_update_ts
<1>1. /\ DOMAIN funded.rewards = DOMAIN mem.rewards \cup {x}
      /\ \A y \in DOMAIN mem.rewards \ {x} : funded.rewards[y] = mem.rewards[y]
      /\ funded.rewards_to_remove = mem.rewards_to_remove
      /\ funded.orphaned_to_claim = mem.orphaned_to_claim
      /\ funded.last_update_ts = mem.last_update_ts
      /\ x \notin DOMAIN mem.rewards =>
           funded.rewards[x] = [rps |-> rate, index |-> 0, orphaned |-> 0, next_update_ts |-> end]
      /\ x \in DOMAIN mem.rewards => funded.rewards[x].index = mem.rewards[x].index
      /\ x \in DOMAIN mem.rewards => funded.rewards[x].rps = mem.rewards[x].rps + rate
      /\ x \in DOMAIN mem.rewards => funded.rewards[x].next_update_ts = IF n >= end THEN end ELSE n
  BY IncentivizedIs
<1> HIDE DEF funded
<1>2. \A y \in Tokens \ {x} : SameFor(mem, funded, y)
  BY <1>1 DEF SameFor
<1> QED BY <1>1, <1>2 DEF funded

LEMMA IncentivizeKeepsBooks ==
  ASSUME IInv, OrderInv, Backed, NEW p \in Pools, NEW t \in Tokens, NEW amount \in Nat, NEW periods \in Nat,
         Incentivize(p, t, amount, periods)
  PROVE  OrderInv' /\ Backed'
<1> DEFINE mem == [q \in Pools |-> Loaded(q)]
           rate == ScheduleRate(amount, now, periods)
           end == EndTs(now, periods)
           funded == [mem EXCEPT ![p] = IncentivizeReward(@, t, rate, end)]
           low == Loaded(p)
           next == IncentivizeReward(low, t, rate, end)
           planned == IncentivizeSchedules(low, schedules[p][t], t, rate, now, end)
<1>1. /\ SavePools(funded, {p}) /\ orphaned' = OrphanedBySave(mem, {p})
      /\ schedules' = [schedules EXCEPT ![p][t] = planned]
      /\ bank' = [bank EXCEPT ![t] = @ + amount]
      /\ users' = users /\ ValidSchedule(amount, now, periods)
  BY DEF Incentivize
<1>2. MemOK(low, now) /\ now \in Nat /\ now \in 1..MaxTime
  BY LoadedOK, NowNat
<1>3. /\ periods \in 1..MaxPeriods /\ rate \in Nat \ {0} /\ rate \in Nat /\ end \in Nat /\ end > now
  BY <1>1, <1>2, FundedWithin
<1>4. schedules \in [Pools -> [Tokens -> Schedules]]
  BY DEF IInv, SchedulesInv
<1>5. /\ \A q \in Pools \ {p} : schedules'[q] = schedules[q]
      /\ schedules'[p][t] = planned
      /\ \A x \in Tokens \ {t} : schedules'[p][x] = schedules[p][x]
  <2> HIDE DEF planned
  <2> QED BY <1>1, <1>4
<1>6. funded[p] = next /\ mem[p] = low
  OBVIOUS
<1>7. MemOK(next, now)
  <2> HIDE DEF rate, end, low
  <2> QED BY <1>2, <1>3, IncentivizeRewardOK
<1>8. /\ \A x \in Tokens \ {t} : SameFor(low, next, x)
      /\ next.rewards_to_remove = low.rewards_to_remove
      /\ next.orphaned_to_claim = low.orphaned_to_claim
  <2> HIDE DEF rate, end, low, mem, funded, planned
  <2> QED BY <1>2, <1>3, FundedSame
<1>10. \A x \in Tokens : InOrder(low.rewards, schedules[p][x], now, x)
  BY LoadedInOrder
<1>11. InOrder(next.rewards, planned, now, t)
  <2>1. schedules[p][t] \in Schedules
    BY <1>4
  <2> HIDE DEF rate, low
  <2> QED BY <1>2, <1>3, <1>10, <2>1, IncentivizeKeepsOrder
<1> HIDE DEF funded, mem
<1>12. OrderInv'
  <2> HIDE DEF next, low, planned
  <2>1. \A x \in Tokens : InOrder(next.rewards, schedules'[p][x], now, x)
    <3> SUFFICES ASSUME NEW x \in Tokens PROVE InOrder(next.rewards, schedules'[p][x], now, x)
      OBVIOUS
    <3>1. CASE x = t
      BY <1>5, <1>11, <3>1
    <3>2. CASE x # t
      BY <1>5, <1>8, <1>10, <3>2, SameDue
    <3> QED BY <3>1, <3>2
  <2>2. \A q \in {p} : MemOK(funded[q], now) /\ \A x \in Tokens : InOrder(funded[q].rewards, schedules'[q][x], now, x)
    BY <1>6, <1>7, <2>1
  <2> QED BY <1>1, <1>5, <2>2, SavedInOrder
<1>13. Backed'
  <2> SUFFICES ASSUME NEW x \in Tokens \ {RewardToken}
               PROVE  SumTo(NumPools, [q \in Pools |-> DueOf(pools'[q], users'[q], finished'[q], schedules'[q][x], x)])
                        + Scale * LedgerOf(orphaned', x) <= Scale * bank'[x]
    BY DEF Backed, DueBy
  <2> DEFINE left == [q \in Pools |-> DueOf(pools'[q], users'[q], finished'[q], schedules'[q][x], x)]
             gift == IF x = t THEN amount ELSE 0
             spent == [q \in Pools |-> -gift]
             S == schedules[p][x]
             R == schedules'[p][x]
             saved == DueOf(Stored(next), users[p], SaveFinished(finished[p], next), R, x)
             due == MemDue(low, users[p], finished[p], S, x)
             after == MemDue(next, users[p], finished[p], R, x)
             o == Scale * OrphanCredit(low, x)
             g == Scale * gift
  <2>1. left[p] = saved
    BY <1>1, <1>6 DEF SavePools
  <2>2. FinishedOK(finished[p]) /\ users[p] \in [Users -> UserInfo] /\ S \in Schedules
    BY <1>4 DEF IInv, FinishedInv, UsersInv
  <2>3. R \in Schedules
    <3>1. planned \in Schedules
      <4>1. schedules[p][t] \in Schedules
        BY <1>4
      <4> HIDE DEF rate, end, low
      <4> QED BY <1>2, <1>3, <4>1, IncentivizeSchedulesOK
    <3> HIDE DEF planned
    <3> QED BY <1>4, <1>5, <3>1
  <2>4. gift \in Nat /\ g \in Int
    <3>1. gift \in Nat
      OBVIOUS
    <3> HIDE DEF gift
    <3> QED BY <3>1, ScaleAssumption
  <2>5. due \in Int /\ after \in Int /\ after <= due + g
    <3>1. due \in Int
      BY LoadedDue
    <3>2. CASE x = t
      <4>1. gift = amount /\ R = planned
        BY <1>5, <3>2
      <4>2. InOrder(low.rewards, S, now, t)
        BY <1>10, <3>2
      <4> HIDE DEF low, S, gift
      <4>3. due \in Int /\ after \in Int /\ after <= due + Scale * amount
        BY <1>1, <1>2, <2>2, <3>2, <4>1, <4>2, FundedDue DEF S
      <4> QED BY <4>1, <4>3
    <3>3. CASE x # t
      <4>1. gift = 0 /\ R = S /\ SameFor(low, next, x)
        BY <1>5, <1>8, <3>3
      <4> HIDE DEF low, next, S, R, gift
      <4>2. after = due
        BY <4>1, SameDue
      <4>3. g = 0
        BY <4>1, ScaleAssumption
      <4> HIDE DEF after, due, g
      <4> QED BY <3>1, <4>2, <4>3
    <3> QED BY <3>2, <3>3
  <2>6. OrphanCredit(next, x) = OrphanCredit(low, x)
    <3> HIDE DEF next, low
    <3> QED BY <1>8 DEF OrphanCredit, RemovedOrphans, RemovedWhole
  <2>7. DOMAIN next.rewards_to_remove # {} => Unwritten(p)
    BY <1>8, LoadedGoesOn
  <2>8. saved \in Int /\ saved + o <= after
    <3> HIDE DEF next, low, R, S
    <3>1. LET sv == DueOf(Stored(next), users[p], SaveFinished(finished[p], next), R, x)
              du == MemDue(next, users[p], finished[p], R, x)
          IN  sv \in Int /\ du \in Int /\ sv + Scale * OrphanCredit(next, x) <= du
      BY <1>7, <2>3, <2>7, PoolSaved
    <3> QED BY <2>6, <3>1
  <2>9. due <= DueBy(p, x) /\ DueBy(p, x) \in Int
    BY LoadedDue DEF DueBy
  <2>10. o \in Int
    BY <1>2, OrphanCreditNat, ScaleAssumption
  <2>11. spent[p] = -gift
    OBVIOUS
  <2>12. \A q \in Pools \ {p} : left[q] = DueBy(q, x)
    BY <1>1, <1>5 DEF SavePools, DueBy
  <2>13. \A q \in {p} : MemOK(mem[q], now)
    BY <1>2, <1>6
  <2>14. bank \in [Tokens -> Nat]
    BY DEF IInv, MoneyInv
  <2>15. bank'[x] = bank[x] + gift /\ bank[x] \in Nat
    BY <1>1, <2>14
  <2> HIDE DEF left, saved, due, after, o, gift, spent, low, next, planned, S, R
  <2>16. Scale * spent[p] = -g
    BY <2>4, <2>11, ScaleAssumption
  <2>17. left[p] + o + Scale * spent[p] <= DueBy(p, x)
    <3> HIDE DEF g
    <3> QED BY <2>1, <2>4, <2>5, <2>8, <2>9, <2>10, <2>16
  <2>18. \A q \in {p} : /\ spent[q] \in Int /\ left[q] \in Int
                        /\ left[q] + Scale * OrphanCredit(mem[q], x) + Scale * spent[q] <= DueBy(q, x)
    BY <1>6, <2>1, <2>4, <2>8, <2>11, <2>17 DEF o
  <2>19. SumIn({p}, NumPools, spent) = -gift
    <3>1. spent[p] \in Int /\ NumPools \in Nat /\ p \in 1..NumPools
      BY <2>4, <2>11, NumPoolsAssumption DEF Pools
    <3> QED BY <2>11, <3>1, SumInOne
  <2> DEFINE ledger == LedgerOf(orphaned', x)
             held == bank'[x]
             before == LedgerOf(OrphanedBySave(mem, {p}), x)
  <2>20. ledger = before /\ before \in Nat
    BY <1>1, <2>13, OrphanedBySaveIs
  <2> HIDE DEF ledger, held, before
  <2>21. held \in Nat /\ ledger \in Nat /\ ledger - held <= before + SumIn({p}, NumPools, spent) - bank[x]
    BY <2>4, <2>15, <2>19, <2>20 DEF held
  <2>22. SumTo(NumPools, left) + Scale * ledger <= Scale * held
    BY <2>12, <2>13, <2>18, <2>21, BooksKept DEF before
  <2> QED BY <2>22 DEF left, ledger, held
<1> QED BY <1>12, <1>13
-----------------------------------------------------------------------------
(* A removal hands out no more than the pool had still to emit. *)
LEMMA RemovalDue ==
  ASSUME NEW t \in Nat, NEW mem, MemOK(mem, t), NEW x \in Tokens, x \in DOMAIN mem.rewards,
         x \notin DOMAIN mem.rewards_to_remove, mem.rewards[x].orphaned = 0, NEW S \in Schedules,
         NEW positions \in [Users -> UserInfo], NEW entries, FinishedOK(entries)
  PROVE  LET next == DeregisterReward(mem, x)
             R == DeregisterSchedules(mem, S, x, FALSE)
             out == Remaining(mem, S, x, FALSE)
             due == MemDue(mem, positions, entries, S, x)
             after == MemDue(next, positions, entries, R, x)
         IN  out \in Nat /\ due \in Int /\ after \in Int /\ after + Scale * out <= due
<1> DEFINE next == DeregisterReward(mem, x)
           R == DeregisterSchedules(mem, S, x, FALSE)
           out == Remaining(mem, S, x, FALSE)
           r == mem.rewards[x]
           left == Left(r, S, t)
           claim == mem.orphaned_to_claim[x]
           e == Entitled(positions, entries, MemIndex(mem, x), x)
           s == Scale * out
<1>1. /\ r \in RewardInfo /\ r.index \in Nat /\ r.rps \in Nat /\ r.next_update_ts \in Nat /\ r.next_update_ts > t
      /\ r.orphaned = 0 /\ mem.last_update_ts = t /\ claim \in Nat
  <2>1. r \in RewardInfo /\ mem.last_update_ts = t /\ claim \in Nat
    BY DEF MemOK
  <2>2. r.next_update_ts > t
    BY DEF MemOK, Tokens, Internal
  <2>3. r.orphaned = 0
    OBVIOUS
  <2> HIDE DEF r, claim
  <2> QED BY <2>1, <2>2, <2>3 DEF RewardInfo
<1>2. /\ x \notin DOMAIN next.rewards
      /\ x \in DOMAIN next.rewards_to_remove
      /\ next.rewards_to_remove[x].index = r.index /\ next.rewards_to_remove[x].orphaned = 0
      /\ next.orphaned_to_claim = mem.orphaned_to_claim /\ next.last_update_ts = t
  BY <1>1 DEF DeregisterReward, Set, Drop, MemOK
<1>3. left \in Nat
  <2> HIDE DEF r
  <2> QED BY <1>1, LeftNat
<1>4. out \in Nat /\ Scale * out <= left
  <2>1. Positive(r.next_update_ts - mem.last_update_ts) = r.next_update_ts - t
    <3> HIDE DEF r
    <3> QED BY <1>1 DEF Positive
  <2>2. out = Floor(left + 0)
    BY <1>1, <2>1 DEF Remaining, Left
  <2>3. left + 0 = left
    BY <1>3
  <2>4. out = Floor(left)
    BY <2>2, <2>3
  <2> HIDE DEF left, out
  <2> QED BY <1>3, <2>4, ScaledFloor
<1>5. MemIndex(mem, x) = r.index + 0 /\ MemIndex(next, x) = 0 + r.index
  <2> HIDE DEF next
  <2> QED BY <1>2 DEF MemIndex, IndexOf
<1>6. InMemory(mem, S, x) = (left + 0) + claim + 0
  BY <1>1 DEF InMemory, ToCome
<1>7. InMemory(next, R, x) = 0 + claim + 0
  <2> HIDE DEF next, R
  <2> QED BY <1>2 DEF InMemory, ToCome
<1>8. e \in Int
  <2>1. MemIndex(mem, x) \in Nat
    <3> HIDE DEF r
    <3> QED BY <1>1, <1>5
  <2> QED BY <2>1, EntitledShift
<1>9. MemIndex(next, x) = MemIndex(mem, x)
  <2> HIDE DEF next, r
  <2> QED BY <1>1, <1>5
<1>10. MemDue(mem, positions, entries, S, x) = e + ((left + 0) + claim + 0)
  BY <1>6 DEF MemDue
<1>11. MemDue(next, positions, entries, R, x) = e + (0 + claim + 0)
  <2> HIDE DEF next, R
  <2> QED BY <1>7, <1>9 DEF MemDue
<1>12. s \in Int /\ s <= left
  <2> HIDE DEF out, left
  <2> QED BY <1>4, ScaleAssumption
<1> HIDE DEF next, R, out, r, left, claim, e, s
<1>13. (e + (0 + claim + 0)) + s <= e + ((left + 0) + claim + 0)
  BY <1>1, <1>3, <1>8, <1>12
<1>14. e + (0 + claim + 0) \in Int /\ e + ((left + 0) + claim + 0) \in Int
  BY <1>1, <1>3, <1>8
<1> QED BY <1>4, <1>10, <1>11, <1>13, <1>14 DEF s, next, R, out

(* And it leaves the other rewards of the pool as they are. *)
LEMMA RemovalSame ==
  ASSUME NEW t \in Nat, NEW mem, MemOK(mem, t), NEW x \in Tokens, x \in DOMAIN mem.rewards,
         NEW y \in Tokens \ {x}, NEW positions, NEW entries, NEW S, NEW last
  PROVE  /\ MemDue(DeregisterReward(mem, x), positions, entries, S, y) = MemDue(mem, positions, entries, S, y)
         /\ InOrder(mem.rewards, S, last, y) => InOrder(DeregisterReward(mem, x).rewards, S, last, y)
<1> DEFINE next == DeregisterReward(mem, x)
<1>1. /\ y \in DOMAIN next.rewards <=> y \in DOMAIN mem.rewards
      /\ y \in DOMAIN mem.rewards => next.rewards[y] = mem.rewards[y]
      /\ y \in DOMAIN next.rewards_to_remove <=> y \in DOMAIN mem.rewards_to_remove
      /\ y \in DOMAIN mem.rewards_to_remove => next.rewards_to_remove[y] = mem.rewards_to_remove[y]
      /\ next.orphaned_to_claim = mem.orphaned_to_claim
      /\ next.last_update_ts = mem.last_update_ts
  BY DEF DeregisterReward, Set, Drop, MemOK
<1> HIDE DEF next
<1>2. IndexOf(next.rewards, y) = IndexOf(mem.rewards, y)
      /\ IndexOf(next.rewards_to_remove, y) = IndexOf(mem.rewards_to_remove, y)
  BY <1>1 DEF IndexOf
<1>3. ToCome(next.rewards, S, next.last_update_ts, y) = ToCome(mem.rewards, S, mem.last_update_ts, y)
  BY <1>1 DEF ToCome
<1>4. MemIndex(next, y) = MemIndex(mem, y)
  BY <1>2 DEF MemIndex
<1>5. InMemory(next, S, y) = InMemory(mem, S, y)
  BY <1>1, <1>3 DEF InMemory
<1>6. InOrder(mem.rewards, S, last, y) => InOrder(next.rewards, S, last, y)
  BY <1>1 DEF InOrder
<1> QED BY <1>4, <1>5, <1>6 DEF MemDue, next

(* It leaves no period to come, so that a later schedule starts afresh.    *)
LEMMA RemovalKeepsOrder ==
  ASSUME NEW t \in Nat, NEW mem, MemOK(mem, t), NEW x \in Tokens, x \in DOMAIN mem.rewards,
         NEW S \in Schedules, InOrder(mem.rewards, S, t, x)
  PROVE  InOrder(DeregisterReward(mem, x).rewards, DeregisterSchedules(mem, S, x, FALSE), t, x)
<1> DEFINE n == mem.rewards[x].next_update_ts
           R == DeregisterSchedules(mem, S, x, FALSE)
           rewards == DeregisterReward(mem, x).rewards
<1>1. x \notin DOMAIN rewards
  BY DEF DeregisterReward, Drop, MemOK
<1>2. \A e \in Seconds : R[e] = IF e = n \/ e > n THEN 0 ELSE S[e]
  BY DEF DeregisterSchedules
<1>3. n \in Nat /\ \A e \in Seconds : e \in Nat
  BY HorizonNat DEF MemOK, RewardInfo, Seconds
<1> HIDE DEF R, rewards, n
<1>4. \A e \in Seconds : S[e] > 0 => OnBoundary(e)
  BY DEF InOrder, EndsOnBoundaries
<1>5. EndsOnBoundaries(R)
  BY <1>2, <1>4 DEF EndsOnBoundaries
<1>6. \A e \in Seconds : t < e => R[e] = 0
  <2>1. \A e \in Seconds : t < e /\ e < n => S[e] = 0
    BY DEF InOrder, n
  <2> QED BY <1>2, <1>3, <2>1
<1> QED BY <1>1, <1>5, <1>6 DEF InOrder, R, rewards
-----------------------------------------------------------------------------
(* Removing a reward with its upcoming schedules. *)
LEMMA RemovalKeepsBooks ==
  ASSUME IInv, OrderInv, Backed, CarefulOwner, NEW p \in Pools, NEW t \in Tokens, RemoveRewardFromPool(p, t, FALSE)
  PROVE  OrderInv' /\ Backed'
<1> DEFINE mem == [q \in Pools |-> Loaded(q)]
           removed == [mem EXCEPT ![p] = DeregisterReward(@, t)]
           low == Loaded(p)
           next == DeregisterReward(low, t)
           out == Remaining(low, schedules[p][t], t, FALSE)
           planned == DeregisterSchedules(low, schedules[p][t], t, FALSE)
           amount == [q \in Tokens |-> IF q = t THEN out ELSE 0]
<1>1. /\ t \in DOMAIN low.rewards /\ QuietBlock(p, t)
      /\ SavePools(removed, {p})
      /\ schedules' = [schedules EXCEPT ![p][t] = planned]
      /\ \E failing : Transfers(OrphanedBySave(removed, {p}), amount, 0, failing)
      /\ users' = users
  BY DEF RemoveRewardFromPool
<1>2. MemOK(low, now) /\ now \in Nat /\ now \in 1..MaxTime
  BY LoadedOK, NowNat
<1>3. schedules \in [Pools -> [Tokens -> Schedules]] /\ schedules[p][t] \in Schedules
  BY DEF IInv, SchedulesInv
<1>4. /\ \A q \in Pools \ {p} : schedules'[q] = schedules[q]
      /\ schedules'[p][t] = planned
      /\ \A x \in Tokens \ {t} : schedules'[p][x] = schedules[p][x]
  <2> HIDE DEF planned
  <2> QED BY <1>1, <1>3
<1>5. removed[p] = next
  OBVIOUS
<1>6. MemOK(next, now)
  <2> HIDE DEF low
  <2> QED BY <1>1, <1>2, DeregisterRewardOK
<1>7. planned \in Schedules
  BY <1>3, DeregisterSchedulesOK
<1>8. out \in Nat
  <2> HIDE DEF low
  <2> QED BY <1>1, <1>2, <1>3, RemainingNat
<1>9. Unwritten(p)
  <2>1. \A u \in Users : /\ users[p][u].last_claim_time \in Nat
                         /\ users[p][u].last_claim_time <= pools[p].last_update_ts
    BY DEF IInv, UsersInv, UserInfo
  <2>2. pools[p].last_update_ts \in Nat /\ pools[p].last_update_ts <= now
    BY DEF IInv, PoolsInv, PoolOKBy
  <2>3. finished[p][now] = NoneFinished /\ \A u \in Users : users[p][u].last_claim_time # now
    BY <1>1 DEF QuietBlock
  <2> QED BY <1>2, <2>1, <2>2, <2>3 DEF Unwritten
<1>10. t \notin DOMAIN low.rewards_to_remove /\ low.rewards[t].orphaned = 0
  BY <1>1, LoadedGoesOn DEF QuietBlock
<1>11. \A x \in Tokens : InOrder(low.rewards, schedules[p][x], now, x)
  BY LoadedInOrder
<1> HIDE DEF removed, mem
<1>12. OrderInv'
  <2>1. \A x \in Tokens : InOrder(next.rewards, schedules'[p][x], now, x)
    <3> SUFFICES ASSUME NEW x \in Tokens PROVE InOrder(next.rewards, schedules'[p][x], now, x)
      OBVIOUS
    <3> HIDE DEF low
    <3>1. CASE x = t
      <4>1. InOrder(next.rewards, planned, now, t)
        BY <1>1, <1>2, <1>3, <1>11, RemovalKeepsOrder
      <4> QED BY <1>4, <3>1, <4>1
    <3>2. CASE x # t
      <4>1. schedules'[p][x] = schedules[p][x] /\ x \in Tokens \ {t} /\ InOrder(low.rewards, schedules[p][x], now, x)
        BY <1>4, <1>11, <3>2
      <4> QED BY <1>1, <1>2, <4>1, RemovalSame
    <3> QED BY <3>1, <3>2
  <2> HIDE DEF next, low, planned
  <2>2. \A q \in {p} : MemOK(removed[q], now) /\ \A x \in Tokens : InOrder(removed[q].rewards, schedules'[q][x], now, x)
    BY <1>5, <1>6, <2>1
  <2> QED BY <1>1, <1>4, <2>2, SavedInOrder
<1>13. Backed'
  <2> SUFFICES ASSUME NEW x \in Tokens \ {RewardToken}
               PROVE  SumTo(NumPools, [q \in Pools |-> DueOf(pools'[q], users'[q], finished'[q], schedules'[q][x], x)])
                        + Scale * LedgerOf(orphaned', x) <= Scale * bank'[x]
    BY DEF Backed, DueBy
  <2> DEFINE left == [q \in Pools |-> DueOf(pools'[q], users'[q], finished'[q], schedules'[q][x], x)]
             paid == IF x = t THEN out ELSE 0
             spent == [q \in Pools |-> paid]
             S == schedules[p][x]
             R == schedules'[p][x]
             saved == DueOf(Stored(next), users[p], SaveFinished(finished[p], next), R, x)
             due == MemDue(low, users[p], finished[p], S, x)
             after == MemDue(next, users[p], finished[p], R, x)
             o == Scale * OrphanCredit(next, x)
             g == Scale * paid
  <2>1. left[p] = saved
    BY <1>1, <1>5 DEF SavePools
  <2>2. FinishedOK(finished[p]) /\ users[p] \in [Users -> UserInfo] /\ S \in Schedules
    BY <1>3 DEF IInv, FinishedInv, UsersInv
  <2>3. R \in Schedules
    <3> HIDE DEF planned
    <3> QED BY <1>3, <1>4, <1>7
  <2>4. paid \in Nat /\ g \in Int /\ amount[x] = paid
    <3> HIDE DEF out
    <3>1. paid \in Nat /\ amount[x] = paid
      BY <1>8
    <3> HIDE DEF paid
    <3> QED BY <3>1, ScaleAssumption
  <2>5. due \in Int /\ after \in Int /\ after + g <= due
    <3>1. due \in Int
      BY LoadedDue
    <3>2. CASE x = t
      <4>1. paid = out /\ R = planned
        BY <1>4, <3>2
      <4> HIDE DEF low, paid
      <4>2. due \in Int /\ after \in Int /\ after + Scale * out <= due
        BY <1>1, <1>2, <1>3, <1>10, <2>2, <3>2, <4>1, RemovalDue
      <4> QED BY <4>1, <4>2
    <3>3. CASE x # t
      <4>1. paid = 0 /\ R = S /\ x \in Tokens \ {t}
        BY <1>4, <3>3
      <4> HIDE DEF low, S, R, paid
      <4>2. after = due
        BY <1>1, <1>2, <4>1, RemovalSame
      <4>3. g = 0
        BY <4>1, ScaleAssumption
      <4> HIDE DEF after, due, g
      <4> QED BY <3>1, <4>2, <4>3
    <3> QED BY <3>2, <3>3
  <2>6. saved \in Int /\ saved + o <= after
    <3> HIDE DEF next, low, R, S
    <3> QED BY <1>6, <1>9, <2>3, PoolSaved
  <2>7. due <= DueBy(p, x) /\ DueBy(p, x) \in Int
    BY LoadedDue DEF DueBy
  <2>8. o \in Int
    <3> HIDE DEF next
    <3> QED BY <1>2, <1>6, OrphanCreditNat, ScaleAssumption
  <2>9. spent[p] = paid
    OBVIOUS
  <2>10. \A q \in Pools \ {p} : left[q] = DueBy(q, x)
    BY <1>1, <1>4 DEF SavePools, DueBy
  <2>11. \A q \in {p} : MemOK(removed[q], now)
    BY <1>5, <1>6
  <2>12. amount \in [Tokens -> Nat] /\ 0 \in Nat
    <3> HIDE DEF out
    <3> QED BY <1>8
  <2>13. PICK failing : Transfers(OrphanedBySave(removed, {p}), amount, 0, failing)
    BY <1>1
  <2> HIDE DEF left, saved, due, after, o, paid, spent, low, next, planned, S, R, out, amount
  <2>14. left[p] + o + Scale * spent[p] <= DueBy(p, x)
    <3> HIDE DEF g
    <3>1. Scale * spent[p] = g
      BY <2>9 DEF g
    <3> QED BY <2>1, <2>4, <2>5, <2>6, <2>7, <2>8, <3>1
  <2>15. \A q \in {p} : /\ spent[q] \in Int /\ left[q] \in Int
                        /\ left[q] + Scale * OrphanCredit(removed[q], x) + Scale * spent[q] <= DueBy(q, x)
    BY <1>5, <2>1, <2>4, <2>6, <2>9, <2>14 DEF o
  <2>16. SumIn({p}, NumPools, spent) = paid
    <3>1. spent[p] \in Int /\ NumPools \in Nat /\ p \in 1..NumPools
      BY <2>4, <2>9, NumPoolsAssumption DEF Pools
    <3> QED BY <2>9, <3>1, SumInOne
  <2>17. LedgerOK(OrphanedBySave(removed, {p})) /\ MoneyInv
    BY <2>11, OrphanedBySaveOK DEF IInv
  <2> DEFINE ledger == LedgerOf(orphaned', x)
             held == bank'[x]
             before == LedgerOf(OrphanedBySave(removed, {p}), x)
  <2>18. held \in Nat /\ ledger \in Nat /\ ledger - held = before + amount[x] - bank[x] /\ before \in Nat
    BY <2>12, <2>13, <2>17, TransfersMove
  <2>19. bank[x] \in Nat
    BY <2>17 DEF MoneyInv
  <2> HIDE DEF ledger, held, before
  <2>20. ledger - held <= before + SumIn({p}, NumPools, spent) - bank[x]
    BY <2>4, <2>16, <2>18, <2>19
  <2>21. SumTo(NumPools, left) + Scale * ledger <= Scale * held
    BY <2>10, <2>11, <2>15, <2>18, <2>20, BooksKept DEF before
  <2> QED BY <2>21 DEF left, ledger, held
<1> QED BY <1>12, <1>13
-----------------------------------------------------------------------------
(* What does not touch the stakes keeps the books when it moves no more    *)
(* out of the balance than off the ledger.                                 *)
LEMMA MoneyKeepsBooks ==
  ASSUME IInv, OrderInv, Backed, UNCHANGED stakeVars,
         \A x \in Tokens \ {RewardToken} : /\ LedgerOf(orphaned', x) \in Nat /\ bank'[x] \in Nat
                                           /\ LedgerOf(orphaned', x) - bank'[x] = LedgerOf(orphaned, x) - bank[x]
  PROVE  OrderInv' /\ Backed'
<1>1. OrderInv'
  BY DEF OrderInv, stakeVars
<1>2. Backed'
  <2> SUFFICES ASSUME NEW x \in Tokens \ {RewardToken}
               PROVE  SumTo(NumPools, [p \in Pools |-> DueOf(pools'[p], users'[p], finished'[p], schedules'[p][x], x)])
                        + Scale * LedgerOf(orphaned', x) <= Scale * bank'[x]
    BY DEF Backed, DueBy
  <2> DEFINE due == [p \in Pools |-> DueBy(p, x)]
             ledger == LedgerOf(orphaned', x)
             held == bank'[x]
             before == LedgerOf(orphaned, x)
             had == bank[x]
             sum == SumTo(NumPools, due)
  <2>1. [p \in Pools |-> DueOf(pools'[p], users'[p], finished'[p], schedules'[p][x], x)] = due
    BY DEF stakeVars, DueBy
  <2>2. sum + Scale * before <= Scale * had
    BY DEF Backed
  <2>3. ledger \in Nat /\ held \in Nat /\ ledger - held = before - had
    OBVIOUS
  <2>4. before \in Nat /\ had \in Nat /\ Scale \in Nat
    BY ScaleAssumption DEF IInv, MoneyInv, LedgerOK, LedgerOf
  <2>5. sum \in Int
    <3>1. \A p \in 1..NumPools : due[p] \in Int
      BY LoadedDue DEF Pools, DueBy
    <3> HIDE DEF due
    <3> QED BY <3>1, NumPoolsAssumption, SumToInt
  <2> HIDE DEF due, ledger, held, before, had, sum
  <2> DEFINE sl == Scale * ledger
             sh == Scale * held
             sb == Scale * before
             sk == Scale * had
             y == ledger - held
             z == before - had
  <2>6. Scale * y = sl - sh /\ Scale * z = sb - sk /\ sl \in Int /\ sh \in Int /\ sb \in Int /\ sk \in Int
    BY <2>3, <2>4
  <2>7. y = z
    BY <2>3
  <2>8. sum + sb <= sk
    BY <2>2
  <2> HIDE DEF sl, sh, sb, sk, y, z
  <2>9. sum + sl <= sh
    BY <2>5, <2>6, <2>7, <2>8
  <2> QED BY <2>1, <2>9 DEF sl, sh, ledger, held, sum
<1> QED BY <1>1, <1>2

LEMMA UnchangedKeepsBooks ==
  ASSUME IInv, OrderInv, Backed, UNCHANGED <<stakeVars, orphaned>>,
         \A x \in Tokens \ {RewardToken} : bank'[x] = bank[x]
  PROVE  OrderInv' /\ Backed'
<1>1. \A x \in Tokens \ {RewardToken} : LedgerOf(orphaned, x) \in Nat /\ bank[x] \in Nat
  BY DEF IInv, MoneyInv, LedgerOK, LedgerOf
<1>2. orphaned' = orphaned /\ UNCHANGED stakeVars
  OBVIOUS
<1>3. \A x \in Tokens \ {RewardToken} : /\ LedgerOf(orphaned', x) \in Nat /\ bank'[x] \in Nat
                                        /\ LedgerOf(orphaned', x) - bank'[x] = LedgerOf(orphaned, x) - bank[x]
  BY <1>1, <1>2
<1> QED BY <1>2, <1>3, MoneyKeepsBooks

LEMMA ClaimOrphanedKeepsBooks ==
  ASSUME IInv, OrderInv, Backed, NEW limit, ClaimOrphanedRewards(limit)
  PROVE  OrderInv' /\ Backed'
<1> DEFINE taken == {t \in DOMAIN orphaned :
                  Cardinality({x \in DOMAIN orphaned : x < t}) < limit /\ orphaned[t] > 0}
           left == [t \in DOMAIN orphaned \ taken |-> orphaned[t]]
           amount == [t \in Tokens |-> IF t \in taken THEN orphaned[t] ELSE 0]
<1>1. /\ \E failing : Transfers(left, amount, 0, failing)
      /\ UNCHANGED stakeVars
  BY DEF ClaimOrphanedRewards
<1>2. taken \subseteq DOMAIN orphaned
  OBVIOUS
<1>3. PICK failing : Transfers(left, amount, 0, failing)
  BY <1>1
<1> HIDE DEF taken
<1>4. LedgerOK(left) /\ amount \in [Tokens -> Nat] /\ MoneyInv /\ 0 \in Nat
  BY <1>2 DEF IInv, MoneyInv, LedgerOK
<1>5. \A x \in Tokens : LedgerOf(left, x) + amount[x] = LedgerOf(orphaned, x) /\ amount[x] \in Nat
  BY <1>2 DEF IInv, MoneyInv, LedgerOK, LedgerOf
<1> HIDE DEF left, amount
<1>6. ASSUME NEW x \in Tokens \ {RewardToken}
      PROVE  /\ LedgerOf(orphaned', x) \in Nat /\ bank'[x] \in Nat
             /\ LedgerOf(orphaned', x) - bank'[x] = LedgerOf(orphaned, x) - bank[x]
  <2>1. /\ bank'[x] \in Nat /\ LedgerOf(orphaned', x) \in Nat /\ LedgerOf(left, x) \in Nat
        /\ LedgerOf(orphaned', x) - bank'[x] = LedgerOf(left, x) + amount[x] - bank[x]
    BY <1>3, <1>4, TransfersMove
  <2>2. LedgerOf(left, x) + amount[x] = LedgerOf(orphaned, x) /\ amount[x] \in Nat
    BY <1>5
  <2>3. bank[x] \in Nat
    BY <1>4 DEF MoneyInv
  <2> QED BY <2>1, <2>2, <2>3
<1> QED BY <1>1, <1>6, MoneyKeepsBooks
-----------------------------------------------------------------------------
(* At the start nothing is owed. *)
LEMMA BooksInit == Init => OrderInv /\ Backed
<1> SUFFICES ASSUME Init PROVE OrderInv /\ Backed
  OBVIOUS
<1>0. IInv
  BY InvInit
<1>1. \A p \in Pools, x \in Tokens : /\ pools[p] = EmptyPool /\ schedules[p][x] = NoSchedules
                                     /\ users[p] = [u \in Users |-> NoPosition]
  BY DEF Init
<1>2. OrderInv
  <2> SUFFICES ASSUME NEW p \in Pools, NEW x \in Tokens
               PROVE  InOrder(pools[p].rewards, schedules[p][x], pools[p].last_update_ts, x)
    BY DEF OrderInv
  <2>1. DOMAIN pools[p].rewards = {} /\ schedules[p][x] = NoSchedules
    BY <1>1 DEF EmptyPool, NoRewards
  <2>2. \A e \in Seconds : NoSchedules[e] = 0
    BY DEF NoSchedules
  <2> QED BY <2>1, <2>2 DEF InOrder, EndsOnBoundaries
<1>3. Backed
  <2> SUFFICES ASSUME NEW x \in Tokens \ {RewardToken}
               PROVE  SumTo(NumPools, [p \in Pools |-> DueBy(p, x)]) + Scale * LedgerOf(orphaned, x) <= Scale * bank[x]
    BY DEF Backed
  <2>1. ASSUME NEW p \in Pools PROVE DueBy(p, x) = 0
    <3> DEFINE f == [u \in Users |-> users[p][u].amount * Gained(users[p][u], finished[p], 0, x)]
    <3>1. pools[p].rewards = NoRewards /\ DOMAIN NoRewards = {}
      BY <1>1 DEF EmptyPool, NoRewards
    <3>2. IndexOf(pools[p].rewards, x) = 0 /\ ToCome(pools[p].rewards, schedules[p][x], pools[p].last_update_ts, x) = 0
      BY <3>1 DEF IndexOf, ToCome
    <3>3. \A u \in Users : f[u] = 0
      <4> SUFFICES ASSUME NEW u \in Users PROVE f[u] = 0
        OBVIOUS
      <4>1. users[p][u].amount = 0 /\ users[p][u] \in UserInfo /\ FinishedOK(finished[p]) /\ 0 \in Nat
        BY <1>0, <1>1, PositionZero DEF IInv, FinishedInv
      <4>2. Gained(users[p][u], finished[p], 0, x) \in Int
        BY <4>1, GainedInt
      <4>3. f[u] = users[p][u].amount * Gained(users[p][u], finished[p], 0, x)
        OBVIOUS
      <4> QED BY <4>1, <4>2, <4>3
    <3>4. DOMAIN f = 1..NumUsers
      BY DEF Users
    <3>5. f = [u \in 1..NumUsers |-> 0]
      <4>1. f = [u \in Users |-> f[u]]
        OBVIOUS
      <4> HIDE DEF f
      <4> QED BY <3>3, <4>1 DEF Users
    <3>6. SumTo(NumUsers, f) = 0
      <4> HIDE DEF f
      <4> QED BY <3>5, NumUsersAssumption, SumToZero
    <3>7. Entitled(users[p], finished[p], 0, x) = SumTo(NumUsers, f)
      BY DEF Entitled
    <3> HIDE DEF f
    <3> QED BY <3>2, <3>6, <3>7 DEF DueBy, DueOf
  <2>2. [p \in Pools |-> DueBy(p, x)] = [p \in 1..NumPools |-> 0]
    BY <2>1 DEF Pools
  <2>3. SumTo(NumPools, [p \in Pools |-> DueBy(p, x)]) = 0
    BY <2>2, NumPoolsAssumption, SumToZero
  <2>4. LedgerOf(orphaned, x) = 0 /\ bank[x] = 0
    BY DEF Init, LedgerOf
  <2> QED BY <2>3, <2>4, ScaleAssumption
<1> QED BY <1>2, <1>3
-----------------------------------------------------------------------------
(* Every step keeps schedules in order and the books covered. *)
LEMMA BooksNext ==
  CarefulOwner /\ TRUE \notin RemovalModes /\ IInv /\ ExitInv /\ OrderInv /\ Backed /\ [Next]_vars
    => OrderInv' /\ Backed'
<1> SUFFICES ASSUME CarefulOwner, TRUE \notin RemovalModes, IInv, ExitInv, OrderInv, Backed, [Next]_vars
             PROVE  OrderInv' /\ Backed'
  OBVIOUS
<1>0. totalAlloc \in Nat /\ DOMAIN activePools \subseteq Pools /\ activePools \in [DOMAIN activePools -> Nat]
  BY DEF IInv, AdminInv
<1>u. UNCHANGED <<stakeVars, orphaned>> /\ (\A x \in Tokens \ {RewardToken} : bank'[x] = bank[x]) => OrderInv' /\ Backed'
  BY UnchangedKeepsBooks
<1>m. UNCHANGED <<stakeVars, moneyVars>> => OrderInv' /\ Backed'
  BY <1>u DEF moneyVars
<1>1. ASSUME NEW d \in TimeSteps, Tick(d) PROVE OrderInv' /\ Backed'
  BY <1>1, <1>m DEF Tick
<1>2. ASSUME NEW u \in Users, NEW P \in SUBSET Pools, ClaimRewards(u, P) PROVE OrderInv' /\ Backed'
  BY <1>2, StakersKeepBooks
<1>3. ASSUME NEW u \in Users, NEW p \in Pools, NEW a \in StakeAmounts, Deposit(u, p, a) PROVE OrderInv' /\ Backed'
  <2>1. a \in Nat /\ users[p][u].amount \in Nat
    BY InputsAssumption DEF IInv, UsersInv, UserInfo
  <2>2. a \in Int /\ users[p][u].amount + a >= 0
    BY <2>1
  <2> QED BY <1>3, <2>2, StakersKeepBooks DEF Deposit
<1>4. ASSUME NEW u \in Users, NEW p \in Pools, NEW a \in StakeAmounts, Withdraw(u, p, a) PROVE OrderInv' /\ Backed'
  <2>1. a \in Nat /\ users[p][u].amount \in Nat /\ a <= users[p][u].amount
    BY <1>4, InputsAssumption DEF IInv, UsersInv, UserInfo, Withdraw
  <2>2. -a \in Int /\ users[p][u].amount + (-a) >= 0
    BY <2>1
  <2> QED BY <1>4, <2>2, StakersKeepBooks DEF Withdraw
<1>5. ASSUME NEW S \in SUBSET Pools, NEW alloc \in [S -> AllocPoints], SetupPools(alloc) PROVE OrderInv' /\ Backed'
  BY <1>5, RatesHandlersKeepBooks
<1>6. ASSUME NEW a \in EmissionRates, SetTokensPerSecond(a) PROVE OrderInv' /\ Backed'
  BY <1>6, InputsAssumption, RatesHandlersKeepBooks
<1>7. ASSUME DeactivateBlockedPools PROVE OrderInv' /\ Backed'
  <2> DEFINE D == {p \in DOMAIN activePools : PairTypeOf[p] \in blacklisted}
             newTotal == totalAlloc - SumIn(D, NumPools, activePools)
  <2>1. newTotal \in Int
    BY <1>0, PointsOfNat
  <2>2. DisablePools(D, newTotal) /\ UNCHANGED <<users, schedules, bank>>
    BY <1>7 DEF DeactivateBlockedPools
  <2> HIDE DEF D, newTotal
  <2> QED BY <2>1, <2>2, RatesHandlersKeepBooks
<1>8. ASSUME NEW add \in BlockBatches, NEW remove \in BlockBatches, UpdateBlockedTokenslist(add, remove)
      PROVE  OrderInv' /\ Backed'
  <2> DEFINE D == {p \in DOMAIN activePools : PairAssets[p] \cap add # {}}
             newTotal == totalAlloc - BlockedPoints(add)
  <2>1. newTotal \in Int
    BY <1>0, BlockedPointsNat
  <2>2. /\ DisablePools(D, newTotal) \/ UNCHANGED <<pools, finished, orphaned>>
        /\ UNCHANGED <<users, schedules, bank>>
    BY <1>8 DEF UpdateBlockedTokenslist
  <2> HIDE DEF D, newTotal
  <2>3. CASE DisablePools(D, newTotal)
    BY <2>1, <2>2, <2>3, RatesHandlersKeepBooks
  <2>4. CASE UNCHANGED <<pools, finished, orphaned>>
    BY <1>m, <2>2, <2>4 DEF stakeVars, moneyVars
  <2> QED BY <2>2, <2>3, <2>4
<1>9. ASSUME NEW p \in DelistedPools, Deregister(p) PROVE OrderInv' /\ Backed'
  <2>1. UNCHANGED <<users, schedules, bank>>
    BY <1>9 DEF Deregister
  <2>2. CASE p \in DOMAIN activePools /\ DisablePools({p}, totalAlloc - activePools[p])
    <3>1. totalAlloc - activePools[p] \in Int
      BY <1>0, <2>2
    <3> QED BY <2>1, <2>2, <3>1, RatesHandlersKeepBooks
  <2>3. CASE UNCHANGED <<pools, finished, orphaned, activePools, totalAlloc>>
    BY <1>m, <2>1, <2>3 DEF stakeVars, moneyVars
  <2> QED BY <1>9, <2>2, <2>3 DEF Deregister
<1>10. ASSUME NEW type \in BlacklistTypes, ToggleBlacklist(type) PROVE OrderInv' /\ Backed'
  BY <1>10, <1>m DEF ToggleBlacklist
<1>11. ASSUME NEW a \in TopUps, TopUp(a) PROVE OrderInv' /\ Backed'
  <2>1. bank' = [bank EXCEPT ![RewardToken] = @ + a] /\ UNCHANGED <<stakeVars, orphaned>>
    BY <1>11 DEF TopUp
  <2>2. bank \in [Tokens -> Nat]
    BY DEF IInv, MoneyInv
  <2>3. \A x \in Tokens \ {RewardToken} : bank'[x] = bank[x]
    BY <2>1, <2>2
  <2> QED BY <1>u, <2>1, <2>3
<1>12. ASSUME NEW p \in Pools, NEW t \in IncentiveTokens, NEW n \in IncentivePeriods,
              NEW a \in Amounts(n), Incentivize(p, t, a, n)
       PROVE  OrderInv' /\ Backed'
  <2>1. t \in Tokens /\ n \in Nat
    BY InputsAssumption
  <2>2. a \in Nat
    BY <2>1, AmountsNat
  <2> QED BY <1>12, <2>1, <2>2, IncentivizeKeepsBooks
<1>13. ASSUME NEW p \in Pools, NEW t \in IncentiveTokens, NEW b \in RemovalModes, RemoveRewardFromPool(p, t, b)
       PROVE  OrderInv' /\ Backed'
  <2>1. b = FALSE /\ t \in Tokens
    BY InputsAssumption
  <2> QED BY <1>13, <2>1, RemovalKeepsBooks
<1>14. ASSUME NEW limit \in OrphanLimits, ClaimOrphanedRewards(limit) PROVE OrderInv' /\ Backed'
  BY <1>14, ClaimOrphanedKeepsBooks
<1>15. ASSUME UNCHANGED vars PROVE OrderInv' /\ Backed'
  BY <1>15, <1>m DEF vars
<1> QED BY <1>1, <1>2, <1>3, <1>4, <1>5, <1>6, <1>7, <1>8, <1>9, <1>10, <1>11, <1>12, <1>13, <1>14, <1>15 DEF Next
-----------------------------------------------------------------------------
(* What a pool owes in whole tokens is no more than what it owes in        *)
(* atomics.                                                                *)
LEMMA PoolLiabilityWithin ==
  ASSUME IInv, ExitInv, NEW p \in Pools, NEW x \in Tokens \ {RewardToken}
  PROVE  PoolLiability(p, x) \in Nat /\ DueBy(p, x) \in Int /\ Scale * PoolLiability(p, x) <= DueBy(p, x)
<1> DEFINE mem == Loaded(p)
           S == schedules[p][x]
           claims == [u \in Users |-> ClaimableReward(users[p][u], finished[p], mem, x)]
           scaled == [u \in Users |-> Scale * claims[u]]
           shares == [u \in Users |-> users[p][u].amount * Gained(users[p][u], finished[p], MemIndex(mem, x), x)]
           a == SumTo(NumUsers, claims)
           b == Scheduled(mem, S, x)
           c == OrphanCredit(mem, x)
           e == Entitled(users[p], finished[p], MemIndex(mem, x), x)
           come == ToCome(mem.rewards, S, now, x)
           inside == InMemory(mem, S, x)
<1>1. /\ MemOK(mem, now) /\ now \in Nat /\ S \in Schedules /\ FinishedOK(finished[p])
      /\ users[p] \in [Users -> UserInfo]
  BY LoadedOK, NowNat DEF IInv, SchedulesInv, FinishedInv, UsersInv
<1>2. \A u \in Users : claims[u] \in Nat /\ Scale * claims[u] <= shares[u]
  BY LoadedClaim
<1>3. MemIndex(mem, x) \in Nat /\ come \in Nat /\ inside \in Nat
  <2> HIDE DEF mem, S
  <2> QED BY <1>1, MemNat
<1>4. \A u \in Users : shares[u] \in Int
  <2> HIDE DEF mem
  <2> QED BY <1>1, <1>3, GainedInt
<1>5. e = SumTo(NumUsers, shares)
  BY DEF Entitled
<1>6. \A u \in 1..NumUsers : /\ claims[u] \in Int /\ scaled[u] = Scale * claims[u]
                             /\ scaled[u] \in Int /\ shares[u] \in Int /\ scaled[u] <= shares[u]
  <2>1. \A u \in Users : scaled[u] = Scale * claims[u]
    OBVIOUS
  <2> HIDE DEF claims, scaled, shares
  <2> QED BY <1>2, <1>4, <2>1, ScaleAssumption DEF Users
<1>7. a \in Nat
  <2>1. \A u \in 1..NumUsers : claims[u] \in Nat
    BY <1>2 DEF Users
  <2> HIDE DEF claims
  <2> QED BY <2>1, NumUsersAssumption, SumToNat
<1>8. Scale * a <= e /\ e \in Int
  <2> HIDE DEF claims, scaled, shares, e
  <2>1. SumTo(NumUsers, scaled) = Scale * a
    BY <1>6, NumUsersAssumption, ScaleAssumption, SumToTimes
  <2>2. SumTo(NumUsers, scaled) <= SumTo(NumUsers, shares)
    BY <1>6, NumUsersAssumption, SumToLeq
  <2>3. SumTo(NumUsers, shares) \in Int
    BY <1>6, NumUsersAssumption, SumToInt
  <2> QED BY <1>5, <2>1, <2>2, <2>3
<1>9. b \in Nat /\ Scale * b <= come
  <2>1. CASE x \notin DOMAIN mem.rewards
    <3>1. b = 0 /\ come = 0
      BY <2>1 DEF Scheduled, ToCome
    <3> HIDE DEF b, come
    <3> QED BY <3>1, ScaleAssumption
  <2>2. CASE x \in DOMAIN mem.rewards
    <3>1. b = Floor(come)
      <4>1. b = Floor(mem.rewards[x].rps * (mem.rewards[x].next_update_ts - now)
                        + UpcomingRewards(S, mem.rewards[x].next_update_ts) + mem.rewards[x].orphaned)
        BY <2>2 DEF Scheduled
      <4>2. come = mem.rewards[x].rps * (mem.rewards[x].next_update_ts - now)
                     + UpcomingRewards(S, mem.rewards[x].next_update_ts) + mem.rewards[x].orphaned
        BY <2>2 DEF ToCome, Left
      <4> HIDE DEF mem, S, b, come
      <4> QED BY <4>1, <4>2
    <3> HIDE DEF b, come
    <3> QED BY <1>3, <3>1, ScaledFloor
  <2> QED BY <2>1, <2>2
<1>10. c \in Nat /\ come + Scale * c <= inside
  <2> HIDE DEF mem, S
  <2> QED BY <1>1, OrphansWithin
<1>11. e + inside <= DueBy(p, x) /\ DueBy(p, x) \in Int
  BY LoadedDue DEF DueBy, MemDue
<1>12. PoolLiability(p, x) = a + b + c
  BY DEF PoolLiability
<1> HIDE DEF a, b, c, e, come, inside
<1> DEFINE sa == Scale * a
           sb == Scale * b
           sc == Scale * c
<1>13. Scale * (a + b + c) = sa + sb + sc /\ sa \in Int /\ sb \in Int /\ sc \in Int
  <2>1. Scale \in Int /\ a + b \in Int /\ a \in Int /\ b \in Int /\ c \in Int
    BY <1>7, <1>9, <1>10, ScaleAssumption
  <2>2. Scale * ((a + b) + c) = Scale * (a + b) + Scale * c
    BY <2>1, Distribute
  <2>3. Scale * (a + b) = sa + sb
    BY <2>1, Distribute
  <2>4. sa \in Int /\ sb \in Int /\ sc \in Int
    BY <2>1
  <2> QED BY <2>2, <2>3, <2>4
<1>14. sa <= e /\ sb <= come /\ come + sc <= inside
  BY <1>8, <1>9, <1>10
<1> HIDE DEF sa, sb, sc
<1>15. sa + sb + sc <= DueBy(p, x)
  BY <1>3, <1>8, <1>11, <1>13, <1>14
<1> QED BY <1>7, <1>9, <1>10, <1>11, <1>12, <1>13, <1>15

LEMMA BooksImplyBacked == IInv /\ ExitInv /\ Backed => ExternalRewardsBacked
<1> SUFFICES ASSUME IInv, ExitInv, Backed, NEW x \in Tokens \ {RewardToken}
             PROVE  Liability(x) <= bank[x]
  BY DEF ExternalRewardsBacked
<1> DEFINE owed == [p \in Pools |-> PoolLiability(p, x)]
           scaled == [p \in Pools |-> Scale * owed[p]]
           due == [p \in Pools |-> DueBy(p, x)]
           l == LedgerOf(orphaned, x)
           s == SumTo(NumPools, owed)
           d == SumTo(NumPools, due)
           k == bank[x]
<1>1. \A p \in Pools : owed[p] \in Nat /\ due[p] \in Int /\ scaled[p] = Scale * owed[p] /\ Scale * owed[p] <= due[p]
  BY PoolLiabilityWithin
<1>2. l \in Nat /\ k \in Nat /\ Scale \in Nat \ {0}
  BY ScaleAssumption DEF IInv, MoneyInv, LedgerOK, LedgerOf
<1>3. d + Scale * l <= Scale * k
  BY DEF Backed
<1>4. Liability(x) = s + l
  BY DEF Liability, LedgerOf
<1> HIDE DEF owed, scaled, due, l, k
<1>5. \A p \in 1..NumPools : /\ owed[p] \in Int /\ scaled[p] = Scale * owed[p]
                             /\ scaled[p] \in Int /\ due[p] \in Int /\ scaled[p] <= due[p]
  BY <1>1, <1>2 DEF Pools
<1>6. SumTo(NumPools, scaled) = Scale * s
  BY <1>2, <1>5, NumPoolsAssumption, SumToTimes
<1>7. SumTo(NumPools, scaled) <= d
  BY <1>5, NumPoolsAssumption, SumToLeq
<1>8. s \in Int /\ d \in Int
  BY <1>5, NumPoolsAssumption, SumToInt
<1> HIDE DEF s, d
<1> DEFINE ss == Scale * s
           sl == Scale * l
           sk == Scale * k
<1>9. ss <= d /\ d + sl <= sk /\ ss \in Int /\ sl \in Int /\ sk \in Int
  BY <1>2, <1>3, <1>6, <1>7, <1>8
<1>10. (s + l) * Scale = ss + sl /\ k * Scale = sk
  BY <1>2, <1>8
<1> HIDE DEF ss, sl, sk
<1>11. (s + l) * Scale <= k * Scale
  BY <1>8, <1>9, <1>10
<1>12. s + l <= k
  <2>1. s + l \in Int /\ k \in Int
    BY <1>2, <1>8
  <2> QED BY <1>2, <1>11, <2>1, Cancel
<1> QED BY <1>4, <1>12 DEF k

(***************************************************************************)
(* The contract always holds every external token it owes or will owe, at  *)
(* the indexes of PoolInfo::update_rewards: what every position can claim, *)
(* what is still scheduled and what save credits to the owner.  Rounding,  *)
(* overlapping schedules, late updates, failed transfers and several pools *)
(* that reward the same token never create a debt.  The owner is careful   *)
(* (nothing orphaned of a reward it removes, which the code pays twice)    *)
(* and never bypasses upcoming schedules: deregister_reward leaves those   *)
(* in storage, and a later incentivize would emit them out of a deposit    *)
(* that is not theirs.                                                     *)
(***************************************************************************)
THEOREM ExternalRewardsAlwaysBacked ==
  CarefulOwner /\ TRUE \notin RemovalModes => (Spec => []ExternalRewardsBacked)
<1>1. CarefulOwner /\ IInv /\ ExitInv /\ [Next]_vars => ExitInv'
  BY ExitInvNext
<1>2. CarefulOwner /\ TRUE \notin RemovalModes /\ IInv /\ ExitInv /\ OrderInv /\ Backed /\ [Next]_vars
        => OrderInv' /\ Backed'
  BY BooksNext
<1>3. IInv /\ ExitInv /\ Backed => ExternalRewardsBacked
  BY BooksImplyBacked
<1> SUFFICES ASSUME CarefulOwner, TRUE \notin RemovalModes PROVE Spec => []ExternalRewardsBacked
  OBVIOUS
<1>4. IInv /\ ExitInv /\ [Next]_vars => ExitInv'
  BY <1>1
<1>5. IInv /\ ExitInv /\ OrderInv /\ Backed /\ [Next]_vars => OrderInv' /\ Backed'
  BY <1>2
<1> QED BY <1>3, <1>4, <1>5, ExitInvInit, BooksInit, SpecInv, PTL DEF Spec
-----------------------------------------------------------------------------
(***************************************************************************)
(* What is owed stays owed.  The claim of a position is written as its     *)
(* Worth: what the entries it has not seen bring, and the growth of the    *)
(* index since.  Updates only add to it; a save that removes a reward      *)
(* moves its index into an entry, and the worth with it.                   *)
(***************************************************************************)
(* The later of two moments has no more to come. *)
LEMMA UpcomingLess ==
  ASSUME NEW S \in Schedules, NEW n \in Nat, NEW t \in Nat, n <= t
  PROVE  UpcomingRewards(S, t) <= UpcomingRewards(S, n)
<1> DEFINE passed == Passed(S, n, t)
           m == Max({n} \cup passed)
           R == Running(S, t)
<1>1. UpcomingRewards(S, n) = PassedRewards(S, n, t) +
        (IF HasRunning(S, t) THEN S[R] * (R - m) + UpcomingRewards(S, R) ELSE 0)
  BY UpcomingSplit
<1>2. PassedRewards(S, n, t) \in Nat
  BY PassedRewardsNat
<1>3. CASE ~HasRunning(S, t)
  <2>1. UpcomingRewards(S, t) = 0
    BY <1>3, UpcomingFirst DEF HasRunning
  <2> QED BY <1>1, <1>2, <1>3, <2>1
<1>4. CASE HasRunning(S, t)
  <2>1. R \in Nat /\ R > t /\ S[R] \in Nat
    BY <1>4, RunningLater DEF Seconds
  <2>2. R \in After(S, t) /\ \A x \in After(S, t) : R <= x
    <3>1. After(S, t) \in SUBSET Nat /\ After(S, t) # {}
      BY <1>4, AfterNats DEF HasRunning
    <3> QED BY <3>1, MinOfNats DEF Running
  <2>3. UpcomingRewards(S, t) = S[R] * (R - t) + UpcomingRewards(S, R)
    BY <2>2, UpcomingFirst
  <2>4. UpcomingRewards(S, R) \in Nat
    BY <2>1, UpcomingNat
  <2>5. m \in Nat /\ m <= t
    <3> DEFINE T == {n} \cup passed
    <3>1. T \in SUBSET (0..t) /\ T # {}
      BY DEF Passed, After, Seconds
    <3> HIDE DEF T
    <3>2. Max(T) \in T
      BY <3>1, MaxOfBounded
    <3> QED BY <3>1, <3>2 DEF T
  <2> HIDE DEF R, m
  <2>6. S[R] * (R - t) <= S[R] * (R - m) /\ S[R] * (R - t) \in Int /\ S[R] * (R - m) \in Int
    <3>1. R - t \in Int /\ R - m \in Int /\ R - t <= R - m
      BY <2>1, <2>5
    <3> DEFINE s == S[R]
               a == R - t
               b == R - m
    <3>2. s \in Nat /\ a \in Int /\ b \in Int /\ a <= b
      BY <2>1, <3>1
    <3> HIDE DEF s, a, b
    <3>3. a * s <= b * s /\ a * s = s * a /\ b * s = s * b /\ s * a \in Int /\ s * b \in Int
      BY <3>2, Scaled
    <3>4. s * a <= s * b /\ s * a \in Int /\ s * b \in Int
      BY <3>3
    <3> QED BY <3>4 DEF s, a, b
  <2> QED BY <1>1, <1>2, <1>4, <2>3, <2>4, <2>6
<1> QED BY <1>3, <1>4

(* What a reward last updated in the past has still to emit at t. *)
RestAt(r, S, t) ==
  IF r.next_update_ts > t THEN Left(r, S, t) ELSE UpcomingRewards(S, t)

LEMMA RestAtLess ==
  ASSUME NEW r \in RewardInfo, NEW S \in Schedules, NEW t \in Nat, NEW later \in Nat, t <= later
  PROVE  /\ RestAt(r, S, t) \in Nat /\ RestAt(r, S, later) \in Nat
         /\ RestAt(r, S, later) <= RestAt(r, S, t)
<1> DEFINE n == r.next_update_ts
           c == r.rps
<1>1. n \in Nat /\ c \in Nat
  BY DEF RewardInfo
<1>2. \A s \in Nat : UpcomingRewards(S, s) \in Nat
  BY UpcomingNat
<1>3. \A s \in Nat : n > s => /\ Left(r, S, s) = c * (n - s) + UpcomingRewards(S, n)
                              /\ c * (n - s) \in Nat
  BY <1>1 DEF Left
<1>4. RestAt(r, S, t) \in Nat /\ RestAt(r, S, later) \in Nat
  BY <1>1, <1>2, <1>3 DEF RestAt
<1>5. CASE n > later
  <2>1. n > t
    BY <1>1, <1>5
  <2>2. n - later \in Int /\ n - t \in Int /\ n - later <= n - t
    BY <1>1
  <2>3. (n - later) * c <= (n - t) * c
    BY <1>1, <2>2, Scaled
  <2>4. c * (n - later) <= c * (n - t)
    BY <1>1, <2>2, <2>3
  <2>5. /\ RestAt(r, S, later) = c * (n - later) + UpcomingRewards(S, n)
        /\ RestAt(r, S, t) = c * (n - t) + UpcomingRewards(S, n)
    BY <1>3, <1>5, <2>1 DEF RestAt
  <2>6. c * (n - later) \in Nat /\ c * (n - t) \in Nat /\ UpcomingRewards(S, n) \in Nat
    BY <1>1, <1>2, <1>3, <1>5, <2>1
  <2> HIDE DEF n, c
  <2> QED BY <1>4, <2>4, <2>5, <2>6
<1>6. CASE ~(n > later) /\ n > t
  <2>1. UpcomingRewards(S, later) <= UpcomingRewards(S, n)
    BY <1>1, <1>6, UpcomingLess
  <2>2. RestAt(r, S, later) = UpcomingRewards(S, later)
    BY <1>6 DEF RestAt
  <2>3. RestAt(r, S, t) = c * (n - t) + UpcomingRewards(S, n) /\ c * (n - t) \in Nat
    BY <1>3, <1>6 DEF RestAt
  <2> HIDE DEF n, c
  <2> QED BY <1>1, <1>2, <1>4, <2>1, <2>2, <2>3
<1>7. CASE ~(n > t)
  <2>1. ~(n > later)
    BY <1>1, <1>7
  <2>2. RestAt(r, S, later) = UpcomingRewards(S, later) /\ RestAt(r, S, t) = UpcomingRewards(S, t)
    BY <1>7, <2>1 DEF RestAt
  <2> QED BY <1>4, <2>2, UpcomingLess
<1> QED BY <1>4, <1>5, <1>6, <1>7

(* An update later on has collected no less. *)
LEMMA CollectedGrows ==
  ASSUME NEW r \in RewardInfo, NEW k \in Keys, NEW S \in Schedules, NEW last \in Nat,
         NEW t \in Nat, NEW later \in Nat, last <= t, t <= later,
         k # Internal => r.next_update_ts > last
  PROVE  Collected(r, k, S, last, t) <= Collected(r, k, S, last, later)
<1>1. CASE k = Internal
  <2>1. Collected(r, k, S, last, t) = r.rps * (t - last) /\ Collected(r, k, S, last, later) = r.rps * (later - last)
    BY <1>1 DEF Collected, Ended
  <2> DEFINE c == r.rps
             a == t - last
             b == later - last
  <2>2. c \in Nat /\ a \in Int /\ b \in Int /\ a <= b
    BY DEF RewardInfo
  <2> HIDE DEF c, a, b
  <2>3. a * c <= b * c /\ a * c = c * a /\ b * c = c * b
    BY <2>2, Scaled
  <2> QED BY <2>1, <2>3 DEF a, b, c
<1>2. CASE k # Internal
  <2>0. k \in Tokens
    BY <1>2 DEF Keys
  <2>1. \A s \in Nat : last <= s =>
          Left(r, S, last) = Collected(r, k, S, last, s) + RestAt(r, S, s)
    <3> SUFFICES ASSUME NEW s \in Nat, last <= s
                 PROVE  Left(r, S, last) = Collected(r, k, S, last, s) + RestAt(r, S, s)
      OBVIOUS
    <3> DEFINE u == UpdateReward(r, k, S, 0, last, s)
               rest == IF Finishes(r, k, S, s) THEN 0 ELSE Left(u, S, s)
    <3>1. Left(r, S, last) = Collected(r, k, S, last, s) + rest
      BY <1>2, <2>0, UpdateConserves
    <3>2. rest = RestAt(r, S, s)
      <4>1. CASE ~Ended(r, k, s)
        <5>1. r.next_update_ts > s
          BY <1>2, <4>1 DEF Ended, RewardInfo
        <5>2. ~Finishes(r, k, S, s) /\ u.rps = r.rps /\ u.next_update_ts = r.next_update_ts
          BY <4>1 DEF Finishes, UpdateReward
        <5> QED BY <5>1, <5>2 DEF Left, RestAt
      <4>2. CASE Ended(r, k, s) /\ ~HasRunning(S, s)
        <5>1. ~(r.next_update_ts > s) /\ Finishes(r, k, S, s)
          BY <4>2 DEF Ended, RewardInfo, Finishes
        <5>2. UpcomingRewards(S, s) = 0
          BY <4>2, UpcomingFirst DEF HasRunning
        <5> QED BY <5>1, <5>2 DEF RestAt
      <4>3. CASE Ended(r, k, s) /\ HasRunning(S, s)
        <5> DEFINE R == Running(S, s)
        <5>1. ~(r.next_update_ts > s) /\ ~Finishes(r, k, S, s)
          BY <4>3 DEF Ended, RewardInfo, Finishes
        <5>2. u.rps = S[R] /\ u.next_update_ts = R
          BY <4>3, <5>1 DEF UpdateReward
        <5>3. R \in After(S, s) /\ \A x \in After(S, s) : R <= x
          <6>1. After(S, s) \in SUBSET Nat /\ After(S, s) # {}
            BY <4>3, AfterNats DEF HasRunning
          <6> QED BY <6>1, MinOfNats DEF Running
        <5>4. UpcomingRewards(S, s) = S[R] * (R - s) + UpcomingRewards(S, R)
          BY <5>3, UpcomingFirst
        <5> HIDE DEF R, u
        <5>5. Left(u, S, s) = S[R] * (R - s) + UpcomingRewards(S, R)
          BY <5>2 DEF Left
        <5> QED BY <5>1, <5>4, <5>5 DEF RestAt, u
      <4> QED BY <4>1, <4>2, <4>3
    <3> HIDE DEF rest
    <3> QED BY <3>1, <3>2
  <2>2. /\ Collected(r, k, S, last, t) \in Nat /\ Collected(r, k, S, last, later) \in Nat
    <3>1. last <= later
      OBVIOUS
    <3> QED BY <3>1, CollectedNat
  <2>3. /\ RestAt(r, S, t) \in Nat /\ RestAt(r, S, later) \in Nat
        /\ RestAt(r, S, later) <= RestAt(r, S, t)
    BY RestAtLess
  <2>4. Collected(r, k, S, last, t) + RestAt(r, S, t) = Collected(r, k, S, last, later) + RestAt(r, S, later)
    <3>1. last <= later
      OBVIOUS
    <3>2. Left(r, S, last) = Collected(r, k, S, last, t) + RestAt(r, S, t)
      BY <2>1
    <3>3. Left(r, S, last) = Collected(r, k, S, last, later) + RestAt(r, S, later)
      BY <2>1, <3>1
    <3> QED BY <3>2, <3>3
  <2> QED BY <2>2, <2>3, <2>4
<1> QED BY <1>1, <1>2

LEMMA FloorGrows ==
  ASSUME NEW x \in Int, NEW y \in Int, x <= y
  PROVE  Floor(x) <= Floor(y) /\ Floor(x) \in Int /\ Floor(y) \in Int
BY DivGrows, DivBounds, ScaleAssumption DEF Floor

(* The index a reward has once its pool is brought up to t. *)
LEMMA MemIndexIs ==
  ASSUME NEW t \in Nat, NEW pool, PoolOKBy(pool, t), NEW sched \in [Tokens -> Schedules], NEW k \in Keys
  PROVE  LET up == UpdateRewards(Load(pool), sched, t)
             S == IF k = Internal THEN NoSchedules ELSE sched[k]
         IN  /\ t <= pool.last_update_ts => MemIndex(up, k) = IndexOf(pool.rewards, k)
             /\ k \notin DOMAIN pool.rewards => MemIndex(up, k) = 0
             /\ ~(t <= pool.last_update_ts) /\ k \in DOMAIN pool.rewards =>
                  MemIndex(up, k) = UpdateReward(pool.rewards[k], k, S, pool.total_lp, pool.last_update_ts, t).index
<1> DEFINE mem == Load(pool)
           up == UpdateRewards(mem, sched, t)
           old == mem.rewards
           S(y) == IF y = Internal THEN NoSchedules ELSE sched[y]
           new == [y \in DOMAIN old |-> UpdateReward(old[y], y, S(y), mem.total_lp, mem.last_update_ts, t)]
           done == {y \in DOMAIN old : y # Internal /\ Finishes(old[y], y, sched[y], t)}
           flushed(y) == IF y \in DOMAIN old /\ mem.total_lp > 0 THEN old[y].orphaned ELSE 0
           removed == [y \in done |-> [index |-> new[y].index, orphaned |-> new[y].orphaned]]
           claim == [y \in Tokens |-> flushed(y) + (IF y = RewardToken THEN flushed(Internal) ELSE 0)]
<1>1. /\ mem.total_lp = pool.total_lp /\ mem.last_update_ts = pool.last_update_ts
      /\ mem.rewards = pool.rewards /\ mem.rewards_to_remove = NoRewards
  BY DEF Load
<1>2. S(k) \in Schedules /\ pool.total_lp \in Nat /\ pool.last_update_ts \in Nat
  BY DEF NoSchedules, Schedules, Keys, PoolOKBy
<1>3. k \in DOMAIN pool.rewards =>
         /\ pool.rewards[k] \in RewardInfo /\ pool.rewards[k].index \in Nat
         /\ k # Internal => pool.rewards[k].next_update_ts > pool.last_update_ts
  BY DEF PoolOKBy, RewardInfo
<1>4. CASE t <= pool.last_update_ts
  <2>1. up = mem
    BY <1>1, <1>4 DEF UpdateRewards
  <2>2. MemIndex(up, k) = IndexOf(pool.rewards, k) + 0
    BY <1>1, <2>1 DEF MemIndex, IndexOf, NoRewards
  <2>3. IndexOf(pool.rewards, k) \in Nat
    BY <1>3 DEF IndexOf
  <2>4. MemIndex(up, k) = IndexOf(pool.rewards, k)
    BY <2>2, <2>3
  <2> HIDE DEF up
  <2> QED BY <1>4, <2>4 DEF IndexOf, up
<1>5. CASE ~(t <= pool.last_update_ts)
  <2>1. up = [total_lp |-> pool.total_lp, last_update_ts |-> t,
              rewards |-> [y \in DOMAIN old \ done |-> new[y]],
              rewards_to_remove |-> removed, orphaned_to_claim |-> claim]
    BY <1>1, <1>5 DEF UpdateRewards, Load
  <2>2. CASE k \notin DOMAIN pool.rewards
    <3>1. k \notin DOMAIN up.rewards /\ k \notin DOMAIN up.rewards_to_remove
      BY <1>1, <2>1, <2>2
    <3> HIDE DEF up
    <3>2. MemIndex(up, k) = 0
      BY <3>1 DEF MemIndex, IndexOf
    <3> QED BY <1>5, <2>2, <3>2 DEF up
  <2>3. CASE k \in DOMAIN pool.rewards
    <3> DEFINE r == pool.rewards[k]
               u == UpdateReward(r, k, S(k), pool.total_lp, pool.last_update_ts, t)
    <3>1. new[k] = u
      BY <1>1, <2>3
    <3>2. u.index \in Nat
      <4>1. u \in RewardInfo
        BY <1>2, <1>3, <1>5, <2>3, UpdateRewardOK
      <4> HIDE DEF u
      <4> QED BY <4>1 DEF RewardInfo
    <3>3. /\ k \in DOMAIN up.rewards <=> k \notin done
          /\ k \notin done => up.rewards[k] = u
          /\ k \in DOMAIN up.rewards_to_remove <=> k \in done
          /\ k \in done => up.rewards_to_remove[k] = [index |-> u.index, orphaned |-> u.orphaned]
      <4> HIDE DEF new, u
      <4> QED BY <1>1, <2>1, <2>3, <3>1
    <3> HIDE DEF up, u, done
    <3>4. MemIndex(up, k) = u.index
      BY <3>2, <3>3 DEF MemIndex, IndexOf
    <3> QED BY <1>5, <2>3, <3>4 DEF up, u
  <2> QED BY <2>2, <2>3
<1> QED BY <1>4, <1>5

(* It never goes back: neither from what is stored nor from one moment to  *)
(* the next.                                                               *)
LEMMA MemIndexGrows ==
  ASSUME NEW t \in Nat, NEW later \in Nat, t <= later, NEW pool, PoolOKBy(pool, t),
         NEW sched \in [Tokens -> Schedules], NEW k \in Keys
  PROVE  LET up == UpdateRewards(Load(pool), sched, t)
             next == UpdateRewards(Load(pool), sched, later)
         IN  /\ IndexOf(pool.rewards, k) \in Nat /\ MemIndex(up, k) \in Nat /\ MemIndex(next, k) \in Nat
             /\ IndexOf(pool.rewards, k) <= MemIndex(up, k) /\ MemIndex(up, k) <= MemIndex(next, k)
<1> DEFINE S == IF k = Internal THEN NoSchedules ELSE sched[k]
           r == pool.rewards[k]
           n == pool.total_lp
           last == pool.last_update_ts
           u(s) == UpdateReward(r, k, S, n, last, s).index
           i == MemIndex(UpdateRewards(Load(pool), sched, t), k)
           j == MemIndex(UpdateRewards(Load(pool), sched, later), k)
           h == IndexOf(pool.rewards, k)
<1>1. PoolOKBy(pool, later)
  BY DEF PoolOKBy
<1>2. S \in Schedules /\ n \in Nat /\ last \in Nat /\ last <= t /\ last <= later
  BY DEF NoSchedules, Schedules, Keys, PoolOKBy
<1>3. /\ t <= last => i = h
      /\ k \notin DOMAIN pool.rewards => i = 0
      /\ ~(t <= last) /\ k \in DOMAIN pool.rewards => i = u(t)
  BY MemIndexIs
<1>4. /\ later <= last => j = h
      /\ k \notin DOMAIN pool.rewards => j = 0
      /\ ~(later <= last) /\ k \in DOMAIN pool.rewards => j = u(later)
  BY <1>1, MemIndexIs
<1> HIDE DEF i, j, S
<1>5. CASE k \notin DOMAIN pool.rewards
  <2>1. h = 0
    BY <1>5 DEF IndexOf
  <2>2. h \in Nat /\ i \in Nat /\ j \in Nat /\ h <= i /\ i <= j
    BY <1>3, <1>4, <1>5, <2>1
  <2> QED BY <2>2 DEF i, j
<1>6. CASE k \in DOMAIN pool.rewards
  <2>1. /\ r \in RewardInfo /\ r.index \in Nat /\ h = r.index
        /\ k # Internal => r.next_update_ts > last
    BY <1>6 DEF PoolOKBy, RewardInfo, IndexOf
  <2> HIDE DEF h, r, n, last
  <2>2. \A s \in Nat : last <= s => u(s) \in Nat /\ r.index <= u(s)
    <3> SUFFICES ASSUME NEW s \in Nat, last <= s PROVE u(s) \in Nat /\ r.index <= u(s)
      OBVIOUS
    <3>1. UpdateReward(r, k, S, n, last, s) \in RewardInfo
      BY <1>2, <2>1, UpdateRewardOK
    <3>2. r.index <= u(s)
      BY <1>2, <2>1, IndexGrows
    <3> QED BY <3>1, <3>2 DEF RewardInfo
  <2>3. u(t) <= u(later)
    <3> DEFINE c == Collected(r, k, S, last, t)
               d == Collected(r, k, S, last, later)
    <3>1. c <= d
      BY <1>2, <2>1, CollectedGrows
    <3>2. c \in Nat /\ d \in Nat
      BY <1>2, <2>1, CollectedNat
    <3>3. /\ n = 0 => u(t) = r.index /\ u(later) = r.index
          /\ n # 0 => u(t) = r.index + (c \div n) /\ u(later) = r.index + (d \div n)
      BY DEF UpdateReward
    <3> HIDE DEF c, d, u
    <3>4. CASE n = 0
      BY <2>1, <3>3, <3>4
    <3>5. CASE n # 0
      <4>1. n \in Nat \ {0}
        BY <1>2, <3>5
      <4>2. c \div n <= d \div n /\ c \div n \in Int /\ d \div n \in Int
        BY <3>1, <3>2, <4>1, DivGrows, DivBounds
      <4> QED BY <2>1, <3>3, <3>5, <4>2
    <3> QED BY <3>4, <3>5
  <2> HIDE DEF u
  <2>4. h \in Nat /\ i \in Nat /\ j \in Nat /\ h <= i /\ i <= j
    <3>1. u(t) \in Nat /\ u(later) \in Nat /\ h <= u(t) /\ h <= u(later) /\ u(t) <= u(later)
      BY <1>2, <2>1, <2>2, <2>3
    <3>2. CASE t <= last /\ later <= last
      BY <1>3, <1>4, <2>1, <3>2
    <3>3. CASE t <= last /\ ~(later <= last)
      BY <1>3, <1>4, <1>6, <2>1, <3>1, <3>3
    <3>4. CASE ~(t <= last)
      <4>1. ~(later <= last)
        BY <1>2, <3>4
      <4> QED BY <1>3, <1>4, <1>6, <2>1, <3>1, <3>4, <4>1
    <3> QED BY <3>2, <3>3, <3>4
  <2> QED BY <2>4 DEF i, j, h
<1> QED BY <1>5, <1>6

(* The claim of a position, from the index its reward has reached. *)
PastClaims(user, entries, x) ==
  LET out == Outstanding(user, entries, x)
      U == user.last_rewards_index[x]
  IN  [ts \in 1..MaxTime |->
         IF ts \in out THEN Floor((entries[ts][x] - (IF ts = Min(out) THEN U ELSE 0)) * user.amount) ELSE 0]

Past(user, entries, x) == SumIn(Outstanding(user, entries, x), MaxTime, PastClaims(user, entries, x))

Base(user, entries, x) == IF Outstanding(user, entries, x) = {} THEN user.last_rewards_index[x] ELSE 0

Worth(user, entries, index, x) ==
  Past(user, entries, x) + Floor((index - Base(user, entries, x)) * user.amount)

LEMMA FloorInt ==
  ASSUME NEW x \in Int
  PROVE  Floor(x) \in Int
BY DivBounds, ScaleAssumption DEF Floor

LEMMA PartsInt ==
  ASSUME NEW entries, FinishedOK(entries), NEW user \in UserInfo, NEW x \in Keys
  PROVE  /\ \A ts \in 1..MaxTime : PastClaims(user, entries, x)[ts] \in Int
         /\ Past(user, entries, x) \in Int
         /\ Base(user, entries, x) \in Nat
         /\ \A index \in Int : Floor((index - Base(user, entries, x)) * user.amount) \in Int
<1> DEFINE f == PastClaims(user, entries, x)
           out == Outstanding(user, entries, x)
           U == user.last_rewards_index[x]
           a == user.amount
           b == Base(user, entries, x)
<1>1. U \in Nat /\ a \in Nat
  BY DEF UserInfo
<1>2. ASSUME NEW ts \in 1..MaxTime PROVE f[ts] \in Int
  <2>1. CASE ts \notin out
    BY <2>1 DEF PastClaims
  <2>2. CASE ts \in out
    <3> DEFINE e == entries[ts][x] - (IF ts = Min(out) THEN U ELSE 0)
    <3>1. entries[ts][x] \in Nat
      BY <2>2 DEF Outstanding, FinishedOK
    <3>2. e \in Int
      BY <1>1, <3>1
    <3>3. f[ts] = Floor(e * a)
      BY <2>2 DEF PastClaims
    <3> HIDE DEF e, f, a
    <3> QED BY <1>1, <3>2, <3>3, FloorInt
  <2> QED BY <2>1, <2>2
<1>3. SumIn(out, MaxTime, f) \in Int
  <2> HIDE DEF f, out
  <2>1. \A i \in 1..MaxTime : [j \in 1..MaxTime |-> IF j \in out THEN f[j] ELSE 0][i] \in Int
    BY <1>2
  <2> QED BY <2>1, SumToInt, MaxTimeAssumption DEF SumIn
<1>4. b \in Nat
  BY <1>1 DEF Base
<1>5. ASSUME NEW index \in Int PROVE Floor((index - b) * a) \in Int
  <2> HIDE DEF b, a
  <2> QED BY <1>1, <1>4, FloorInt
<1> QED BY <1>2, <1>3, <1>4, <1>5 DEF Past

LEMMA ClaimIs ==
  ASSUME NEW t \in Nat, NEW mem, MemOK(mem, t), NEW entries, FinishedOK(entries),
         NEW user \in UserInfo, NEW x \in Keys,
         DOMAIN mem.rewards \cap DOMAIN mem.rewards_to_remove = {},
         Outstanding(user, entries, x) = {} => user.last_rewards_index[x] <= MemIndex(mem, x)
  PROVE  ClaimableReward(user, entries, mem, x) = Worth(user, entries, MemIndex(mem, x), x)
<1> DEFINE out == Outstanding(user, entries, x)
           U == user.last_rewards_index[x]
           a == user.amount
           past == Past(user, entries, x)
           b == Base(user, entries, x)
           gone == mem.rewards_to_remove[x].index
           removal == IF x \in DOMAIN mem.rewards_to_remove THEN Floor((gone - b) * a) ELSE 0
           active == ActiveReward(user, entries, mem, x)
           i == MemIndex(mem, x)
<1>0. /\ U \in Nat /\ a \in Nat /\ b \in Nat /\ past \in Int
      /\ x \in DOMAIN mem.rewards => mem.rewards[x].index \in Nat
      /\ x \in DOMAIN mem.rewards_to_remove => gone \in Nat
  BY PartsInt DEF UserInfo, MemOK, RewardInfo, Removal
<1>1. x \in DOMAIN mem.rewards_to_remove => x \in Tokens /\ x # Internal
  BY DEF MemOK, Tokens, Internal
<1>2. x = Internal => out = {}
  BY DEF Outstanding, FinishedOK, Tokens, Internal
<1>3. /\ x \in DOMAIN mem.rewards => x \notin DOMAIN mem.rewards_to_remove /\ i = mem.rewards[x].index
      /\ x \in DOMAIN mem.rewards_to_remove => i = gone
      /\ x \notin DOMAIN mem.rewards /\ x \notin DOMAIN mem.rewards_to_remove => i = 0
      /\ i \in Nat
  BY <1>0 DEF MemIndex, IndexOf
<1>4. b = IF out = {} THEN U ELSE 0
  BY DEF Base
<1>5. ClaimableReward(user, entries, mem, x) = active + (past + removal)
  <2>1. CASE x = Internal
    <3>1. past = 0
      BY <1>2, <2>1, SumInNone, MaxTimeAssumption DEF Past
    <3>2. removal = 0
      BY <1>1, <2>1
    <3>3. ClaimableReward(user, entries, mem, x) = active + 0
      BY <2>1 DEF ClaimableReward
    <3> HIDE DEF past, removal, active
    <3> QED BY <3>1, <3>2, <3>3
  <2>2. CASE x # Internal
    <3>1. ClaimableReward(user, entries, mem, x) = active + FinishedReward(user, entries, mem, x)
      BY <2>2 DEF ClaimableReward
    <3>2. FinishedReward(user, entries, mem, x) = past + removal
      BY DEF FinishedReward, Past, PastClaims, Base
    <3> QED BY <3>1, <3>2
  <2> QED BY <2>1, <2>2
<1>6. active = IF x \notin DOMAIN mem.rewards THEN 0
               ELSE CalculateReward(mem.rewards[x],
                                    IF x # Internal /\ IsFinished(user, entries, mem, x) THEN 0 ELSE U, a)
  BY DEF ActiveReward, ResetUserIndex, UserInfo
<1>7. x \in DOMAIN mem.rewards => active = Floor((i - b) * a)
  <2> SUFFICES ASSUME x \in DOMAIN mem.rewards PROVE active = Floor((i - b) * a)
    OBVIOUS
  <2>1. (IF x # Internal /\ IsFinished(user, entries, mem, x) THEN 0 ELSE U) = b
    BY <1>2, <1>3, <1>4 DEF IsFinished
  <2>2. active = CalculateReward(mem.rewards[x], b, a)
    BY <1>6, <2>1
  <2>3. active = Floor((IF b > i THEN i ELSE i - b) * a)
    BY <1>3, <2>2 DEF CalculateReward
  <2>4. b <= i
    BY <1>3, <1>4
  <2>5. (IF b > i THEN i ELSE i - b) = i - b
    BY <1>0, <1>3, <2>4
  <2> QED BY <2>3, <2>5
<1>8. x \notin DOMAIN mem.rewards => active = 0
  BY <1>6
<1>9. Floor((i - b) * a) \in Int /\ Floor((0 - b) * a) \in Int
  <2> HIDE DEF i, b, a
  <2> QED BY <1>0, <1>3, FloorInt
<1>10. active + removal = Floor((i - b) * a)
  <2> HIDE DEF active, b, a, gone
  <2>1. CASE x \in DOMAIN mem.rewards
    <3>1. active = Floor((i - b) * a) /\ removal = 0
      BY <1>3, <1>7, <2>1
    <3> HIDE DEF i, removal
    <3> QED BY <1>9, <3>1
  <2>2. CASE x \in DOMAIN mem.rewards_to_remove
    <3>1. active = 0 /\ removal = Floor((i - b) * a)
      BY <1>3, <1>8, <2>2
    <3> HIDE DEF i, removal
    <3> QED BY <1>9, <3>1
  <2>3. CASE x \notin DOMAIN mem.rewards /\ x \notin DOMAIN mem.rewards_to_remove
    <3>1. active = 0 /\ removal = 0 /\ i = 0
      BY <1>3, <1>8, <2>3
    <3>2. b = 0
      <4>1. out = {} => U <= 0
        BY <3>1
      <4> QED BY <1>0, <1>4, <4>1
    <3>3. (i - b) * a = 0
      <4> HIDE DEF i
      <4> QED BY <1>0, <3>1, <3>2
    <3>4. Floor(0) = 0
      BY ScaleAssumption DEF Floor
    <3> QED BY <3>1, <3>3, <3>4
  <2> QED BY <2>1, <2>2, <2>3
<1>11. active \in Int /\ removal \in Int
  <2>1. removal \in Int
    <3> HIDE DEF gone, b, a
    <3> QED BY <1>0, FloorInt
  <2>2. active \in Int
    <3> HIDE DEF active, i, b, a
    <3> QED BY <1>7, <1>8, <1>9
  <2> QED BY <2>1, <2>2
<1> HIDE DEF active, removal, past
<1>12. active + (past + removal) = past + (active + removal)
  BY <1>0, <1>11
<1> QED BY <1>5, <1>10, <1>12 DEF Worth, past

LEMMA WorthGrows ==
  ASSUME NEW entries, FinishedOK(entries), NEW user \in UserInfo, NEW x \in Keys,
         NEW i \in Int, NEW j \in Int, i <= j
  PROVE  Worth(user, entries, i, x) <= Worth(user, entries, j, x)
<1> DEFINE b == Base(user, entries, x)
           a == user.amount
           p == Past(user, entries, x)
           f == Floor((i - b) * a)
           g == Floor((j - b) * a)
<1>1. b \in Nat /\ a \in Nat /\ p \in Int
  BY PartsInt DEF UserInfo
<1>2. f <= g /\ f \in Int /\ g \in Int
  <2> HIDE DEF a, b
  <2>1. i - b \in Int /\ j - b \in Int /\ i - b <= j - b
    BY <1>1
  <2> DEFINE c == i - b
             d == j - b
  <2>2. c \in Int /\ d \in Int /\ c <= d
    BY <2>1
  <2> HIDE DEF c, d
  <2>3. c * a <= d * a /\ c * a \in Int /\ d * a \in Int
    BY <1>1, <2>2, Scaled
  <2>4. Floor(c * a) <= Floor(d * a) /\ Floor(c * a) \in Int /\ Floor(d * a) \in Int
    <3> DEFINE ca == c * a
               da == d * a
    <3>1. ca <= da /\ ca \in Int /\ da \in Int
      BY <2>3
    <3> HIDE DEF ca, da
    <3>2. Floor(ca) <= Floor(da) /\ Floor(ca) \in Int /\ Floor(da) \in Int
      BY <3>1, FloorGrows
    <3> QED BY <3>2 DEF ca, da
  <2> QED BY <2>4 DEF c, d
<1>3. Worth(user, entries, i, x) = p + f /\ Worth(user, entries, j, x) = p + g
  BY DEF Worth
<1> HIDE DEF p, f, g
<1> QED BY <1>1, <1>2, <1>3

(* Nothing staked, nothing earned; nothing outstanding, nothing past. *)
LEMMA WorthOfNothing ==
  ASSUME NEW entries, FinishedOK(entries), NEW user \in UserInfo, NEW x \in Keys, NEW index \in Int
  PROVE  /\ user.amount = 0 => Worth(user, entries, index, x) = 0
         /\ Outstanding(user, entries, x) = {} /\ user.last_rewards_index[x] = index
              => Worth(user, entries, index, x) = 0
<1>0. Floor(0) = 0
  BY ScaleAssumption DEF Floor
<1> DEFINE b == Base(user, entries, x)
           a == user.amount
           out == Outstanding(user, entries, x)
           f == PastClaims(user, entries, x)
<1>1. b \in Nat /\ a \in Nat
  BY PartsInt DEF UserInfo
<1>2. ASSUME a = 0 PROVE Worth(user, entries, index, x) = 0
  <2>1. (index - b) * a = 0
    <3> HIDE DEF b, a
    <3> QED BY <1>1, <1>2
  <2>2. ASSUME NEW ts \in 1..MaxTime PROVE f[ts] = 0
    <3>1. CASE ts \notin out
      BY <3>1 DEF PastClaims
    <3>2. CASE ts \in out
      <4> DEFINE e == entries[ts][x] - (IF ts = Min(out) THEN user.last_rewards_index[x] ELSE 0)
      <4>1. entries[ts][x] \in Nat /\ user.last_rewards_index[x] \in Nat
        BY <3>2 DEF Outstanding, FinishedOK, UserInfo
      <4>2. e \in Int
        BY <4>1
      <4>3. f[ts] = Floor(e * a)
        BY <3>2 DEF PastClaims
      <4> HIDE DEF e, f, a
      <4>4. e * a = 0
        BY <1>2, <4>2
      <4> QED BY <1>0, <4>3, <4>4
    <3> QED BY <3>1, <3>2
  <2>3. SumIn(out, MaxTime, f) = 0
    <3> HIDE DEF f, out
    <3>1. [ts \in 1..MaxTime |-> IF ts \in out THEN f[ts] ELSE 0] = [ts \in 1..MaxTime |-> 0]
      BY <2>2
    <3> QED BY <3>1, SumToZero, MaxTimeAssumption DEF SumIn
  <2>4. Worth(user, entries, index, x) = 0 + Floor(0)
    BY <2>1, <2>3 DEF Worth, Past
  <2> QED BY <1>0, <2>4
<1>3. ASSUME out = {}, user.last_rewards_index[x] = index PROVE Worth(user, entries, index, x) = 0
  <2>1. Past(user, entries, x) = 0
    BY <1>3, SumInNone, MaxTimeAssumption DEF Past
  <2>2. b = index
    BY <1>3 DEF Base
  <2>3. (index - b) * a = 0
    <3> HIDE DEF a, b
    <3> QED BY <1>1, <2>2
  <2>4. Worth(user, entries, index, x) = 0 + Floor(0)
    BY <2>1, <2>3 DEF Worth
  <2> QED BY <1>0, <2>4
<1> QED BY <1>2, <1>3

(* Saving a pool moves what its removed rewards are worth from memory to   *)
(* the finished indexes.                                                   *)
LEMMA SavedWorth ==
  ASSUME NEW t \in 1..MaxTime, NEW mem, MemOK(mem, t), NEW entries, FinishedOK(entries),
         NEW user \in UserInfo, NEW x \in Keys,
         DOMAIN mem.rewards_to_remove # {} => entries[t] = NoneFinished /\ user.last_claim_time < t,
         \A ts \in 1..MaxTime : entries[ts] # NoneFinished => ts <= t,
         x \in DOMAIN mem.rewards_to_remove =>
            /\ IndexOf(mem.rewards, x) = 0
            /\ user.amount = 0 \/ mem.rewards_to_remove[x].orphaned = 0
  PROVE  Worth(user, SaveFinished(entries, mem), IndexOf(mem.rewards, x), x)
            = Worth(user, entries, MemIndex(mem, x), x)
<1> DEFINE saved == SaveFinished(entries, mem)
           out == Outstanding(user, entries, x)
           after == Outstanding(user, saved, x)
           f == PastClaims(user, entries, x)
           g == PastClaims(user, saved, x)
           a == user.amount
           U == user.last_rewards_index[x]
           b == Base(user, entries, x)
           i == MemIndex(mem, x)
           left == IndexOf(mem.rewards, x)
<1>0. t \in Nat /\ FinishedOK(saved) /\ a \in Nat /\ U \in Nat
  BY SaveFinishedOK, MaxTimeAssumption DEF UserInfo
<1>1. /\ after = out \cup (IF x \in RemovedWhole(mem) THEN {t} ELSE {})
      /\ \A ts \in out : saved[ts] = entries[ts]
      /\ x \in RemovedWhole(mem) => saved[t][x] = mem.rewards_to_remove[x].index
  BY SavedOutstanding
<1>2. /\ out \subseteq 1..MaxTime /\ out \in SUBSET Nat
      /\ after \subseteq 1..MaxTime /\ after \in SUBSET Nat
  BY <1>0, OutstandingNats
<1>3. /\ \A ts \in 1..MaxTime : f[ts] \in Int /\ g[ts] \in Int
      /\ b \in Nat
  BY <1>0, PartsInt
<1>4. left \in Nat /\ i \in Nat
  <2>1. x \in DOMAIN mem.rewards => mem.rewards[x].index \in Nat
    BY DEF MemOK, RewardInfo
  <2>2. x \in DOMAIN mem.rewards_to_remove => mem.rewards_to_remove[x].index \in Nat
    BY DEF MemOK, Removal
  <2> QED BY <2>1, <2>2 DEF MemIndex, IndexOf
<1>5. CASE a = 0
  <2>1. Worth(user, saved, left, x) = 0 /\ Worth(user, entries, i, x) = 0
    <3> HIDE DEF saved, i, left
    <3> QED BY <1>0, <1>4, <1>5, WorthOfNothing
  <2> QED BY <2>1
<1>6. CASE a # 0 /\ x \notin RemovedWhole(mem)
  <2>1. x \notin DOMAIN mem.rewards_to_remove
    BY <1>6 DEF RemovedWhole
  <2>2. i = left
    <3>1. i = left + 0
      BY <2>1 DEF MemIndex, IndexOf
    <3> HIDE DEF i, left
    <3> QED BY <1>4, <3>1
  <2>3. after = out
    BY <1>1, <1>6
  <2>4. g = f
    <3>1. \A ts \in 1..MaxTime : ts \in out => saved[ts][x] = entries[ts][x]
      BY <1>1
    <3> HIDE DEF saved
    <3> QED BY <2>3, <3>1 DEF PastClaims
  <2>5. Past(user, saved, x) = Past(user, entries, x) /\ Base(user, saved, x) = Base(user, entries, x)
    BY <2>3, <2>4 DEF Past, Base
  <2> HIDE DEF saved, i, left
  <2> QED BY <2>2, <2>5 DEF Worth, saved, i, left
<1>7. CASE a # 0 /\ x \in RemovedWhole(mem)
  <2>1. x \in DOMAIN mem.rewards_to_remove /\ left = 0
    BY <1>7 DEF RemovedWhole
  <2>2. i = mem.rewards_to_remove[x].index
    <3>1. i = 0 + mem.rewards_to_remove[x].index
      BY <2>1 DEF MemIndex, IndexOf
    <3>2. mem.rewards_to_remove[x].index \in Nat
      BY <2>1 DEF MemOK, Removal
    <3> HIDE DEF i
    <3> QED BY <3>1, <3>2
  <2>3. after = out \cup {t} /\ saved[t][x] = i /\ t \in after
    BY <1>1, <1>7, <2>2
  <2>4. t \notin out /\ \A ts \in out : ts < t
    <3>1. entries[t] = NoneFinished
      BY <2>1
    <3>2. t \notin out
      BY <3>1 DEF Outstanding, NoneFinished
    <3>3. \A ts \in out : ts <= t /\ ts # t /\ ts \in Nat
      <4> TAKE ts \in out
      <4>1. ts \in 1..MaxTime /\ entries[ts] # NoneFinished
        BY <1>2 DEF Outstanding, NoneFinished
      <4> QED BY <3>2, <4>1
    <3> QED BY <1>0, <3>2, <3>3
  <2>5. out # {} => Min(after) = Min(out)
    <3> SUFFICES ASSUME out # {} PROVE Min(after) = Min(out)
      OBVIOUS
    <3> DEFINE m == Min(out)
    <3> HIDE DEF out, after
    <3>1. m \in out /\ \A k \in out : m <= k
      BY <1>2, MinOfNats
    <3>2. m \in after /\ \A k \in after : m <= k
      <4>1. m < t /\ m \in Nat
        BY <1>2, <2>4, <3>1
      <4> HIDE DEF m
      <4> QED BY <1>0, <2>3, <3>1, <4>1
    <3> HIDE DEF m
    <3>3. Min(after) = m
      BY <1>2, <3>2, MinIs
    <3> QED BY <3>3 DEF m
  <2>6. out = {} => Min(after) = t
    <3> SUFFICES ASSUME out = {} PROVE Min(after) = t
      OBVIOUS
    <3>1. \A k \in after : t <= k
      BY <1>0, <2>3
    <3> HIDE DEF out, after
    <3> QED BY <1>2, <2>3, <3>1, MinIs
  <2>7. \A ts \in out : g[ts] = f[ts]
    <3> TAKE ts \in out
    <3>1. ts \in 1..MaxTime /\ ts \in after /\ saved[ts][x] = entries[ts][x] /\ Min(after) = Min(out)
      BY <1>1, <1>2, <2>3, <2>5
    <3> HIDE DEF saved
    <3>2. f[ts] = Floor((entries[ts][x] - (IF ts = Min(out) THEN U ELSE 0)) * a)
      BY <3>1 DEF PastClaims
    <3>3. g[ts] = Floor((saved[ts][x] - (IF ts = Min(after) THEN U ELSE 0)) * a)
      BY <3>1 DEF PastClaims
    <3> HIDE DEF f, g, out, after
    <3> QED BY <3>1, <3>2, <3>3
  <2>8. g[t] = Floor((i - b) * a)
    <3>1. g[t] = Floor((saved[t][x] - (IF t = Min(after) THEN U ELSE 0)) * a)
      <4> HIDE DEF saved
      <4> QED BY <2>3 DEF PastClaims
    <3>2. (IF t = Min(after) THEN U ELSE 0) = b
      <4>1. CASE out = {}
        BY <2>6, <4>1 DEF Base
      <4>2. CASE out # {}
        <5>1. Min(after) \in out
          BY <1>2, <2>5, <4>2, MinOfNats
        <5> QED BY <2>4, <4>2, <5>1 DEF Base
      <4> QED BY <4>1, <4>2
    <3> HIDE DEF g, i, b, saved, after
    <3> QED BY <2>3, <3>1, <3>2
  <2>9. SumIn(after, MaxTime, g) = SumIn(out, MaxTime, g) + g[t]
    <3> HIDE DEF g, out, after
    <3> QED BY <1>3, <2>3, <2>4, MaxTimeAssumption, SumInAdd
  <2>10. SumIn(out, MaxTime, g) = SumIn(out, MaxTime, f)
    <3> HIDE DEF g, f, out
    <3> QED BY <1>3, <2>7, MaxTimeAssumption, SumInSame
  <2>11. Base(user, saved, x) = 0
    BY <2>3 DEF Base
  <2>12. Floor((left - 0) * a) = 0
    <3>1. (left - 0) * a = 0
      <4> HIDE DEF left, a
      <4> QED BY <1>0, <2>1
    <3> QED BY <3>1, ScaleAssumption DEF Floor
  <2>13. Worth(user, saved, left, x) = SumIn(after, MaxTime, g) + 0
    <3> HIDE DEF saved, left, a
    <3> QED BY <2>11, <2>12 DEF Worth, Past, a
  <2>14. Worth(user, entries, i, x) = SumIn(out, MaxTime, f) + Floor((i - b) * a)
    <3> HIDE DEF i
    <3> QED BY DEF Worth, Past
  <2>15. SumIn(out, MaxTime, f) \in Int /\ Floor((i - b) * a) \in Int
    <3>1. Past(user, entries, x) \in Int
      BY PartsInt
    <3>2. Floor((i - b) * a) \in Int
      <4> HIDE DEF i, b, a
      <4> QED BY <1>0, <1>3, <1>4, FloorInt
    <3> QED BY <3>1, <3>2 DEF Past
  <2> HIDE DEF saved, left, i, f, g, b, out, after, a
  <2> QED BY <2>8, <2>9, <2>10, <2>13, <2>14, <2>15 DEF saved, left, i
<1> QED BY <1>5, <1>6, <1>7

(* A pool in memory that has moved on to now and owes its positions what   *)
(* they could claim on loading: what it removes it removes with nothing    *)
(* orphaned, and starts again at 0 if it comes back.                       *)
Settled(p, mem) ==
  /\ MemOK(mem, now)
  /\ DOMAIN mem.rewards_to_remove # {} => Unwritten(p)
  /\ \A x \in DOMAIN mem.rewards_to_remove :
        IndexOf(mem.rewards, x) = 0 /\ (pools[p].total_lp > 0 => mem.rewards_to_remove[x].orphaned = 0)
  /\ \A k \in Keys : MemIndex(mem, k) = MemIndex(Loaded(p), k)

LEMMA LoadedSettled ==
  ASSUME IInv, NEW p \in Pools
  PROVE  Settled(p, Loaded(p))
<1> DEFINE low == Loaded(p)
<1>1. MemOK(low, now)
  BY LoadedOK
<1>2. /\ GoesOn(low, pools[p]) /\ DOMAIN low.rewards \cap DOMAIN low.rewards_to_remove = {}
      /\ DOMAIN low.rewards_to_remove # {} => Unwritten(p)
  BY LoadedGoesOn
<1>3. DOMAIN low.rewards_to_remove \subseteq Tokens \cap DOMAIN pools[p].rewards
  <2>1. DOMAIN low.rewards_to_remove \subseteq Tokens
    BY <1>1 DEF MemOK
  <2>2. /\ Load(pools[p]).rewards_to_remove = NoRewards /\ Load(pools[p]).rewards = pools[p].rewards
        /\ Load(pools[p]) = [total_lp |-> Load(pools[p]).total_lp, last_update_ts |-> Load(pools[p]).last_update_ts,
              rewards |-> Load(pools[p]).rewards, rewards_to_remove |-> Load(pools[p]).rewards_to_remove,
              orphaned_to_claim |-> Load(pools[p]).orphaned_to_claim]
    BY DEF Load
  <2>3. DOMAIN low.rewards_to_remove \subseteq DOMAIN pools[p].rewards
    BY <2>2 DEF Loaded, UpdateRewards, NoRewards
  <2> QED BY <2>1, <2>3
<1> HIDE DEF low
<1>4. \A x \in DOMAIN low.rewards_to_remove :
         IndexOf(low.rewards, x) = 0 /\ (pools[p].total_lp > 0 => low.rewards_to_remove[x].orphaned = 0)
  BY <1>2, <1>3 DEF GoesOn, IndexOf
<1> QED BY <1>1, <1>2, <1>4 DEF Settled, low

(* A change that moves no index keeps it so. *)
LEMMA ChangeSettled ==
  ASSUME NEW p, NEW mem, NEW next, Settled(p, mem), MemOK(next, now),
         next.rewards_to_remove = mem.rewards_to_remove,
         \A k \in Keys : IndexOf(next.rewards, k) = IndexOf(mem.rewards, k)
  PROVE  Settled(p, next)
<1>1. \A x \in DOMAIN mem.rewards_to_remove : x \in Keys
  BY DEF Settled, MemOK, Keys
<1>2. \A k \in Keys : MemIndex(next, k) = MemIndex(mem, k)
  BY DEF MemIndex
<1> QED BY <1>1, <1>2 DEF Settled

LEMMA RatesSettled ==
  ASSUME NEW p, NEW mem, Settled(p, mem), now \in Nat, NEW rate \in Nat
  PROVE  /\ Settled(p, SetInternalRewards(mem, rate))
         /\ Settled(p, DisableInternalRewards(mem))
<1>0. MemOK(mem, now)
  BY DEF Settled
<1>1. /\ SetInternalRewards(mem, rate).rewards_to_remove = mem.rewards_to_remove
      /\ \A k \in Keys : IndexOf(SetInternalRewards(mem, rate).rewards, k) = IndexOf(mem.rewards, k)
  <2>1. mem = [total_lp |-> mem.total_lp, last_update_ts |-> mem.last_update_ts, rewards |-> mem.rewards,
               rewards_to_remove |-> mem.rewards_to_remove, orphaned_to_claim |-> mem.orphaned_to_claim]
    BY <1>0 DEF MemOK
  <2>2. Internal \in DOMAIN mem.rewards => mem.rewards[Internal] \in RewardInfo
    BY <1>0 DEF MemOK
  <2>3. /\ SetInternalRewards(mem, rate).rewards_to_remove = mem.rewards_to_remove
        /\ SetInternalRewards(mem, rate).rewards = Set(mem.rewards, Internal,
             IF Internal \in DOMAIN mem.rewards THEN [mem.rewards[Internal] EXCEPT !.rps = rate]
             ELSE [rps |-> rate, index |-> 0, orphaned |-> 0, next_update_ts |-> 0])
    BY <2>1 DEF SetInternalRewards
  <2>4. Internal \in DOMAIN mem.rewards =>
          [mem.rewards[Internal] EXCEPT !.rps = rate].index = mem.rewards[Internal].index
    BY <2>2 DEF RewardInfo
  <2> QED BY <2>3, <2>4 DEF Set, IndexOf
<1>2. /\ DisableInternalRewards(mem).rewards_to_remove = mem.rewards_to_remove
      /\ \A k \in Keys : IndexOf(DisableInternalRewards(mem).rewards, k) = IndexOf(mem.rewards, k)
  BY <1>0 DEF DisableInternalRewards, MemOK, IndexOf, RewardInfo
<1>3. MemOK(SetInternalRewards(mem, rate), now) /\ MemOK(DisableInternalRewards(mem), now)
  BY <1>0, SetInternalRewardsOK, DisableInternalRewardsOK
<1>4. Settled(p, SetInternalRewards(mem, rate))
  BY <1>1, <1>3, ChangeSettled
<1>5. Settled(p, DisableInternalRewards(mem))
  BY <1>2, <1>3, ChangeSettled
<1> QED BY <1>4, <1>5

LEMMA StakeSettled ==
  ASSUME NEW p, NEW mem, Settled(p, mem), now \in Nat, NEW total \in Nat
  PROVE  Settled(p, [mem EXCEPT !.total_lp = total])
<1> DEFINE next == [mem EXCEPT !.total_lp = total]
<1>1. MemOK(mem, now)
  BY DEF Settled
<1>2. MemOK(next, now)
  BY <1>1, TotalChangeOK
<1>3. next.rewards = mem.rewards /\ next.rewards_to_remove = mem.rewards_to_remove
  BY <1>1 DEF MemOK
<1> HIDE DEF next
<1>4. Settled(p, next)
  BY <1>2, <1>3, ChangeSettled
<1> QED BY <1>4 DEF next

LEMMA IncentiveSettled ==
  ASSUME NEW p, NEW mem, Settled(p, mem), now \in Nat, NEW x \in Tokens, NEW rate \in Nat,
         NEW end \in Nat, end > now
  PROVE  Settled(p, IncentivizeReward(mem, x, rate, end))
<1> DEFINE next == IncentivizeReward(mem, x, rate, end)
<1>1. MemOK(mem, now)
  BY DEF Settled
<1>2. MemOK(next, now)
  BY <1>1, IncentivizeRewardOK
<1>3. /\ DOMAIN next.rewards = DOMAIN mem.rewards \cup {x}
      /\ \A y \in DOMAIN mem.rewards \ {x} : next.rewards[y] = mem.rewards[y]
      /\ next.rewards_to_remove = mem.rewards_to_remove
      /\ x \notin DOMAIN mem.rewards =>
           next.rewards[x] = [rps |-> rate, index |-> 0, orphaned |-> 0, next_update_ts |-> end]
      /\ x \in DOMAIN mem.rewards => next.rewards[x].index = mem.rewards[x].index
  BY <1>1, IncentivizedIs
<1> HIDE DEF next
<1>4. \A k \in Keys : IndexOf(next.rewards, k) = IndexOf(mem.rewards, k)
  BY <1>3 DEF IndexOf
<1>5. Settled(p, next)
  BY <1>2, <1>3, <1>4, ChangeSettled
<1> QED BY <1>5 DEF next

(* A reward taken out in a quiet block leaves its index behind. *)
LEMMA RemovalSettled ==
  ASSUME IInv, NEW p \in Pools, NEW t \in Tokens, t \in DOMAIN Loaded(p).rewards, QuietBlock(p, t)
  PROVE  Settled(p, DeregisterReward(Loaded(p), t))
<1> DEFINE low == Loaded(p)
           next == DeregisterReward(low, t)
<1>0. now \in Nat /\ Settled(p, low) /\ MemOK(low, now) /\ MemOK(next, now)
  BY NowNat, LoadedOK, LoadedSettled, DeregisterRewardOK
<1>1. Unwritten(p)
  <2>1. \A u \in Users : /\ users[p][u].last_claim_time \in Nat
                         /\ users[p][u].last_claim_time <= pools[p].last_update_ts
    BY DEF IInv, UsersInv, UserInfo
  <2>2. pools[p].last_update_ts \in Nat /\ pools[p].last_update_ts <= now
    BY DEF IInv, PoolsInv, PoolOKBy
  <2>3. finished[p][now] = NoneFinished /\ \A u \in Users : users[p][u].last_claim_time # now
    BY DEF QuietBlock
  <2> QED BY <1>0, <2>1, <2>2, <2>3 DEF Unwritten
<1>2. low.rewards[t].orphaned = 0 /\ low.rewards[t].index \in Nat
  BY <1>0 DEF QuietBlock, MemOK, RewardInfo
<1>3. t \notin DOMAIN low.rewards_to_remove
  BY LoadedGoesOn
<1> HIDE DEF low
<1>4. /\ next.rewards = [x \in DOMAIN low.rewards \ {t} |-> low.rewards[x]]
      /\ DOMAIN next.rewards_to_remove = DOMAIN low.rewards_to_remove \cup {t}
      /\ next.rewards_to_remove[t] = [index |-> low.rewards[t].index, orphaned |-> low.rewards[t].orphaned]
      /\ \A x \in DOMAIN low.rewards_to_remove \ {t} :
            next.rewards_to_remove[x] = low.rewards_to_remove[x]
  BY <1>0 DEF DeregisterReward, Set, Drop, MemOK
<1> HIDE DEF next
<1>5. \A x \in DOMAIN next.rewards_to_remove :
         IndexOf(next.rewards, x) = 0 /\ (pools[p].total_lp > 0 => next.rewards_to_remove[x].orphaned = 0)
  <2> TAKE x \in DOMAIN next.rewards_to_remove
  <2>1. CASE x = t
    BY <1>2, <1>4, <2>1 DEF IndexOf
  <2>2. CASE x # t
    <3>1. x \in DOMAIN low.rewards_to_remove
      BY <1>4, <2>2
    <3>2. IndexOf(low.rewards, x) = 0 /\ (pools[p].total_lp > 0 => low.rewards_to_remove[x].orphaned = 0)
      BY <1>0, <3>1 DEF Settled
    <3> QED BY <1>4, <2>2, <3>1, <3>2 DEF IndexOf
  <2> QED BY <2>1, <2>2
<1>6. \A k \in Keys : MemIndex(next, k) = MemIndex(low, k)
  <2> TAKE k \in Keys
  <2>1. CASE k = t
    <3>1. MemIndex(low, k) = low.rewards[t].index + 0
      BY <1>3, <2>1 DEF MemIndex, IndexOf, low
    <3>2. MemIndex(next, k) = 0 + low.rewards[t].index
      BY <1>4, <2>1 DEF MemIndex, IndexOf
    <3> QED BY <1>2, <3>1, <3>2
  <2>2. CASE k # t
    <3>1. IndexOf(next.rewards, k) = IndexOf(low.rewards, k)
      BY <1>4, <2>2 DEF IndexOf
    <3>2. IndexOf(next.rewards_to_remove, k) = IndexOf(low.rewards_to_remove, k)
      BY <1>4, <2>2 DEF IndexOf
    <3> QED BY <3>1, <3>2 DEF MemIndex
  <2> QED BY <2>1, <2>2
<1>7. Settled(p, next)
  <2>1. \A k \in Keys : MemIndex(next, k) = MemIndex(Loaded(p), k)
    BY <1>6 DEF low
  <2> QED BY <1>0, <1>1, <1>5, <2>1 DEF Settled
<1> QED BY <1>7 DEF next, low

LEMMA WorthInt ==
  ASSUME NEW entries, FinishedOK(entries), NEW user \in UserInfo, NEW x \in Keys, NEW index \in Int
  PROVE  Worth(user, entries, index, x) \in Int
<1> DEFINE p == Past(user, entries, x)
           f == Floor((index - Base(user, entries, x)) * user.amount)
<1>1. p \in Int /\ f \in Int
  BY PartsInt
<1>2. Worth(user, entries, index, x) = p + f
  BY DEF Worth
<1> HIDE DEF p, f
<1> QED BY <1>1, <1>2

(* The claim a position has once its pool is brought up to t. *)
LEMMA PendingIs ==
  ASSUME NEW t \in Nat, NEW pool, PoolOKBy(pool, t), NEW sched \in [Tokens -> Schedules],
         NEW entries, FinishedOK(entries), NEW user \in UserInfo, NEW x \in Keys,
         Outstanding(user, entries, x) = {} => user.last_rewards_index[x] <= IndexOf(pool.rewards, x)
  PROVE  LET up == UpdateRewards(Load(pool), sched, t)
         IN  /\ ClaimableReward(user, entries, up, x) = Worth(user, entries, MemIndex(up, x), x)
             /\ ClaimableReward(user, entries, up, x) \in Int
<1> DEFINE up == UpdateRewards(Load(pool), sched, t)
           U == user.last_rewards_index[x]
           h == IndexOf(pool.rewards, x)
           i == MemIndex(up, x)
<1>1. MemOK(up, t) /\ DOMAIN up.rewards \cap DOMAIN up.rewards_to_remove = {}
  BY UpdateRewardsOK, UpdateGoesOn
<1>2. h \in Nat /\ i \in Nat /\ h <= i
  <2>1. t <= t
    OBVIOUS
  <2> QED BY <2>1, MemIndexGrows
<1>3. Outstanding(user, entries, x) = {} => U <= i
  <2>1. U \in Nat
    BY DEF UserInfo
  <2>2. Outstanding(user, entries, x) = {} => U <= h
    OBVIOUS
  <2> HIDE DEF U, h, i
  <2> QED BY <1>2, <2>1, <2>2
<1> HIDE DEF up
<1>4. ClaimableReward(user, entries, up, x) = Worth(user, entries, i, x)
  BY <1>1, <1>3, ClaimIs
<1>5. Worth(user, entries, i, x) \in Int
  <2> HIDE DEF i
  <2> QED BY <1>2, WorthInt
<1> QED BY <1>4, <1>5 DEF up, i

(* Every position starts from an index its reward has reached. *)
InternalCovered ==
  \A p \in Pools, u \in Users : users[p][u].last_rewards_index[Internal] <= IndexOf(pools[p].rewards, Internal)

AllCovered ==
  \A p \in Pools, u \in Users, k \in Keys :
    Outstanding(users[p][u], finished[p], k) = {} => users[p][u].last_rewards_index[k] <= IndexOf(pools[p].rewards, k)

LEMMA CoveredAll == ExitInv /\ InternalCovered => AllCovered
<1> SUFFICES ASSUME ExitInv, InternalCovered, NEW p \in Pools, NEW u \in Users, NEW k \in Keys,
                    Outstanding(users[p][u], finished[p], k) = {}
             PROVE  users[p][u].last_rewards_index[k] <= IndexOf(pools[p].rewards, k)
  BY DEF AllCovered
<1>1. CASE k = Internal
  BY <1>1 DEF InternalCovered
<1>2. CASE k \in Tokens
  BY <1>2 DEF ExitInv, Covered, IndexOf
<1> QED BY <1>1, <1>2 DEF Keys

LEMMA CoveredAllNext == ExitInv' /\ InternalCovered' => AllCovered'
<1> SUFFICES ASSUME ExitInv', InternalCovered', NEW p \in Pools, NEW u \in Users, NEW k \in Keys,
                    Outstanding(users'[p][u], finished'[p], k) = {}
             PROVE  users'[p][u].last_rewards_index[k] <= IndexOf(pools'[p].rewards, k)
  BY DEF AllCovered
<1>1. CASE k = Internal
  BY <1>1 DEF InternalCovered
<1>2. CASE k \in Tokens
  BY <1>2 DEF ExitInv, Covered, IndexOf
<1> QED BY <1>1, <1>2 DEF Keys

LEMMA PendingNow ==
  ASSUME IInv, AllCovered, NEW p \in Pools, NEW u \in Users, NEW k \in Keys
  PROVE  /\ PendingReward(p, u, k) = Worth(users[p][u], finished[p], MemIndex(Loaded(p), k), k)
         /\ PendingReward(p, u, k) \in Int
<1>1. /\ now \in Nat /\ PoolOKBy(pools[p], now) /\ schedules[p] \in [Tokens -> Schedules]
      /\ FinishedOK(finished[p]) /\ users[p][u] \in UserInfo
  BY NowNat DEF IInv, PoolsInv, SchedulesInv, FinishedInv, UsersInv
<1>2. Outstanding(users[p][u], finished[p], k) = {}
         => users[p][u].last_rewards_index[k] <= IndexOf(pools[p].rewards, k)
  BY DEF AllCovered
<1> QED BY <1>1, <1>2, PendingIs DEF PendingReward, Loaded

LEMMA PendingNext ==
  ASSUME IInv', AllCovered', NEW p \in Pools, NEW u \in Users, NEW k \in Keys
  PROVE  /\ PendingReward(p, u, k)' = Worth(users'[p][u], finished'[p], MemIndex(Loaded(p)', k), k)
         /\ PendingReward(p, u, k)' \in Int
<1>1. /\ now' \in Nat /\ PoolOKBy(pools'[p], now') /\ schedules'[p] \in [Tokens -> Schedules]
      /\ FinishedOK(finished'[p]) /\ users'[p][u] \in UserInfo
  BY MaxTimeAssumption DEF IInv, PoolsInv, SchedulesInv, FinishedInv, UsersInv
<1>2. Outstanding(users'[p][u], finished'[p], k) = {}
         => users'[p][u].last_rewards_index[k] <= IndexOf(pools'[p].rewards, k)
  BY DEF AllCovered
<1> QED BY <1>1, <1>2, PendingIs DEF PendingReward, Loaded

(* The pools P are saved, settled, and positions in them synced. *)
Settles(P, mem) ==
  /\ now' = now /\ SavePools(mem, P)
  /\ \A p \in P : Settled(p, mem[p])
  /\ \A p \in Pools \ P : schedules'[p] = schedules[p]
  /\ \A p \in Pools, u \in Users :
        \/ users'[p][u] = users[p][u]
        \/ p \in P /\ \E amount \in Nat : users'[p][u] = SyncPosition(users[p][u], mem[p], amount)

LEMMA SettledIndexes ==
  ASSUME IInv, IInv', NEW P \in SUBSET Pools, NEW mem, Settles(P, mem), NEW p \in P, NEW k \in Keys
  PROVE  /\ pools'[p] = Stored(mem[p]) /\ finished'[p] = SaveFinished(finished[p], mem[p])
         /\ pools'[p].last_update_ts = now
         /\ IndexOf(pools'[p].rewards, k) = IndexOf(mem[p].rewards, k)
         /\ MemIndex(Loaded(p)', k) = IndexOf(mem[p].rewards, k)
         /\ IndexOf(mem[p].rewards, k) \in Nat
<1>0. p \in Pools /\ now' = now /\ Settled(p, mem[p]) /\ MemOK(mem[p], now)
  BY DEF Settles, Settled
<1>1. pools'[p] = Stored(mem[p]) /\ finished'[p] = SaveFinished(finished[p], mem[p])
  BY DEF Settles, SavePools
<1>2. Stored(mem[p]).last_update_ts = now /\ Stored(mem[p]).rewards = mem[p].rewards
  BY <1>0 DEF Stored, MemOK
<1>3. /\ now' \in Nat /\ PoolOKBy(pools'[p], now') /\ schedules'[p] \in [Tokens -> Schedules]
  BY MaxTimeAssumption DEF IInv, PoolsInv, SchedulesInv
<1>4. now' <= pools'[p].last_update_ts
  BY <1>0, <1>1, <1>2, <1>3
<1>5. MemIndex(Loaded(p)', k) = IndexOf(pools'[p].rewards, k)
  BY <1>3, <1>4, MemIndexIs DEF Loaded
<1>6. IndexOf(mem[p].rewards, k) \in Nat
  BY <1>0 DEF IndexOf, MemOK, RewardInfo
<1> QED BY <1>1, <1>2, <1>5, <1>6

LEMMA LoadedIndexGrows ==
  ASSUME IInv, NEW p \in Pools, NEW k \in Keys
  PROVE  /\ IndexOf(pools[p].rewards, k) \in Nat /\ MemIndex(Loaded(p), k) \in Nat
         /\ IndexOf(pools[p].rewards, k) <= MemIndex(Loaded(p), k)
<1>1. now \in Nat /\ now <= now /\ PoolOKBy(pools[p], now) /\ schedules[p] \in [Tokens -> Schedules]
  BY NowNat DEF IInv, PoolsInv, SchedulesInv
<1> QED BY <1>1, MemIndexGrows DEF Loaded

LEMMA SettlesKeepCovered ==
  ASSUME IInv, IInv', InternalCovered, NEW P \in SUBSET Pools, NEW mem, Settles(P, mem)
  PROVE  InternalCovered'
<1> SUFFICES ASSUME NEW p \in Pools, NEW u \in Users
             PROVE  users'[p][u].last_rewards_index[Internal] <= IndexOf(pools'[p].rewards, Internal)
  BY DEF InternalCovered
<1> DEFINE U == users[p][u].last_rewards_index[Internal]
           h == IndexOf(pools[p].rewards, Internal)
           m == IndexOf(mem[p].rewards, Internal)
<1>0. Internal \in Keys /\ Internal \notin Tokens
  BY DEF Keys, Tokens, Internal
<1>1. U <= h /\ U \in Nat
  BY <1>0 DEF InternalCovered, IInv, UsersInv, UserInfo
<1>2. CASE p \notin P
  <2>1. users'[p][u] = users[p][u] /\ pools'[p] = pools[p]
    BY <1>2 DEF Settles, SavePools
  <2> QED BY <1>1, <2>1
<1>3. CASE p \in P
  <2>1. IndexOf(pools'[p].rewards, Internal) = m /\ m \in Nat
    BY <1>0, <1>3, SettledIndexes
  <2>2. CASE users'[p][u] = users[p][u]
    <3>1. h \in Nat /\ h <= MemIndex(Loaded(p), Internal)
      BY <1>0, LoadedIndexGrows
    <3>2. MemIndex(Loaded(p), Internal) = MemIndex(mem[p], Internal)
      BY <1>0, <1>3 DEF Settles, Settled
    <3>3. MemIndex(mem[p], Internal) = m
      <4>1. Internal \notin DOMAIN mem[p].rewards_to_remove
        BY <1>0, <1>3 DEF Settles, Settled, MemOK
      <4>2. MemIndex(mem[p], Internal) = m + 0
        BY <4>1 DEF MemIndex, IndexOf
      <4> HIDE DEF m
      <4> QED BY <2>1, <4>2
    <3> HIDE DEF U, h, m
    <3>4. U <= m
      BY <1>1, <2>1, <3>1, <3>2, <3>3
    <3> QED BY <2>1, <2>2, <3>4 DEF U
  <2>3. CASE \E amount \in Nat : users'[p][u] = SyncPosition(users[p][u], mem[p], amount)
    <3>1. PICK amount \in Nat : users'[p][u] = SyncPosition(users[p][u], mem[p], amount)
      BY <2>3
    <3>2. CASE amount = 0
      <4>1. users'[p][u].last_rewards_index[Internal] = 0
        BY <1>0, <3>1, <3>2 DEF SyncPosition, NoPosition
      <4> HIDE DEF m
      <4> QED BY <2>1, <4>1
    <3>3. CASE amount # 0
      <4>1. users'[p][u].last_rewards_index[Internal] = Synced(mem[p], Internal)
        BY <1>0, <3>1, <3>3 DEF SyncPosition
      <4>2. Synced(mem[p], Internal) = m
        BY DEF Synced, IndexOf
      <4> HIDE DEF m
      <4> QED BY <2>1, <4>1, <4>2
    <3> QED BY <3>2, <3>3
  <2> QED BY <2>2, <2>3 DEF Settles
<1> QED BY <1>2, <1>3

LEMMA SettlesOwe ==
  ASSUME IInv, IInv', AllCovered, AllCovered', NEW P \in SUBSET Pools, NEW mem, Settles(P, mem)
  PROVE  Owed
<1> SUFFICES ASSUME NEW p \in Pools, NEW u \in Users, NEW k \in Keys
             PROVE  OwedTo(p, u, k)
  BY DEF Owed
<1> DEFINE user == users[p][u]
           i == MemIndex(Loaded(p), k)
           new == MemIndex(Loaded(p)', k)
           pend == PendingReward(p, u, k)
           next == PendingReward(p, u, k)'
<1>1. pend = Worth(user, finished[p], i, k) /\ pend \in Int
  BY PendingNow
<1>2. next = Worth(users'[p][u], finished'[p], new, k) /\ next \in Int
  BY PendingNext
<1>3. now' = now /\ now \in 1..MaxTime /\ now \in Nat
  BY NowNat DEF Settles
<1>4. /\ FinishedOK(finished[p]) /\ user \in UserInfo
      /\ FinishedOK(finished'[p]) /\ users'[p][u] \in UserInfo
  BY DEF IInv, FinishedInv, UsersInv
<1>5. next = pend => next >= pend
  <2> HIDE DEF next, pend
  <2> QED BY <1>1
<1>6. CASE p \notin P
  <2>1. users'[p][u] = user /\ pools'[p] = pools[p] /\ finished'[p] = finished[p] /\ schedules'[p] = schedules[p]
    BY <1>6 DEF Settles, SavePools
  <2>2. new = i
    BY <1>3, <2>1 DEF Loaded
  <2>3. next = pend
    <3> HIDE DEF next, pend, new, i
    <3> QED BY <1>1, <1>2, <2>1, <2>2
  <2> QED BY <1>5, <2>1, <2>3 DEF OwedTo
<1>7. CASE p \in P
  <2> DEFINE m == mem[p]
             left == IndexOf(m.rewards, k)
  <2>1. /\ new = left /\ left \in Nat /\ finished'[p] = SaveFinished(finished[p], m)
        /\ pools'[p].last_update_ts = now
    BY <1>7, SettledIndexes
  <2>2. Settled(p, m)
    BY <1>7 DEF Settles
  <2> HIDE DEF m
  <2>3. CASE users'[p][u] = user
    <3>1. MemOK(m, now) /\ i = MemIndex(m, k)
      BY <2>2 DEF Settled
    <3>2. \A ts \in 1..MaxTime : finished[p][ts] # NoneFinished => ts <= now
      <4>1. pools[p].last_update_ts \in Nat /\ pools[p].last_update_ts <= now
        BY DEF IInv, PoolsInv, PoolOKBy
      <4>2. \A ts \in 1..MaxTime : finished[p][ts] # NoneFinished => ts <= pools[p].last_update_ts
        BY DEF IInv, FinishedInv
      <4> QED BY <1>3, <4>1, <4>2
    <3>3. DOMAIN m.rewards_to_remove # {} => finished[p][now] = NoneFinished /\ user.last_claim_time < now
      BY <2>2 DEF Settled, Unwritten
    <3>4. k \in DOMAIN m.rewards_to_remove =>
            /\ IndexOf(m.rewards, k) = 0
            /\ user.amount = 0 \/ m.rewards_to_remove[k].orphaned = 0
      <4>1. user.amount \in Nat /\ user.amount <= pools[p].total_lp /\ pools[p].total_lp \in Nat
        BY StakeWithin
      <4>2. pools[p].total_lp > 0 \/ user.amount = 0
        <5> HIDE DEF user
        <5> QED BY <4>1
      <4> QED BY <2>2, <4>2 DEF Settled
    <3> HIDE DEF user
    <3>5. Worth(user, SaveFinished(finished[p], m), left, k) = Worth(user, finished[p], MemIndex(m, k), k)
      BY <1>3, <1>4, <3>1, <3>2, <3>3, <3>4, SavedWorth
    <3>6. next = pend
      <4> HIDE DEF next, pend, new, i, left
      <4> QED BY <1>1, <1>2, <2>1, <2>3, <3>1, <3>5
    <3> QED BY <1>5, <2>3, <3>6 DEF OwedTo, user
  <2>4. CASE users'[p][u] # user
    <3>1. PICK amount \in Nat : users'[p][u] = SyncPosition(user, m, amount)
      BY <2>4 DEF Settles, m
    <3>2. MemOK(m, now)
      BY <2>2 DEF Settled
    <3> DEFINE synced == users'[p][u]
               entries == finished'[p]
    <3>3. CASE amount = 0
      <4>1. synced.amount = 0
        BY <3>1, <3>3 DEF SyncPosition, NoPosition
      <4>2. Worth(synced, entries, new, k) = 0
        <5> HIDE DEF synced, entries, new, left
        <5>1. new \in Int
          BY <2>1
        <5> QED BY <1>4, <4>1, <5>1, WorthOfNothing DEF synced, entries
      <4> QED BY <1>2, <2>4, <4>2 DEF OwedTo
    <3>4. CASE amount # 0
      <4>1. synced.last_rewards_index[k] = Synced(m, k) /\ synced.last_claim_time = now
        BY <3>1, <3>2, <3>4 DEF SyncPosition, MemOK
      <4>2. Synced(m, k) = left
        BY DEF Synced, IndexOf
      <4>3. Outstanding(synced, entries, k) = {}
        <5>1. \A ts \in 1..MaxTime : entries[ts] # NoneFinished => ts <= now
          BY <2>1 DEF IInv, FinishedInv
        <5>2. DOMAIN entries = 1..MaxTime
          BY <1>4 DEF FinishedOK
        <5> HIDE DEF synced, entries
        <5>3. \A ts \in DOMAIN entries : ts > now => entries[ts] = NoneFinished
          BY <1>3, <5>1, <5>2
        <5> QED BY <4>1, <5>3 DEF Outstanding, NoneFinished
      <4>4. Worth(synced, entries, new, k) = 0
        <5> HIDE DEF synced, entries, new, left
        <5>1. new \in Int /\ synced.last_rewards_index[k] = new
          BY <2>1, <4>1, <4>2
        <5> QED BY <1>4, <4>3, <5>1, WorthOfNothing DEF synced, entries
      <4> QED BY <1>2, <2>4, <4>4 DEF OwedTo
    <3> QED BY <3>3, <3>4
  <2> QED BY <2>3, <2>4
<1> QED BY <1>6, <1>7

(* Nothing moves but, perhaps, the clock. *)
LEMMA WaitingOwes ==
  ASSUME IInv, IInv', AllCovered, UNCHANGED stakeVars, now' >= now
  PROVE  Owed
<1> SUFFICES ASSUME NEW p \in Pools, NEW u \in Users, NEW k \in Keys
             PROVE  OwedTo(p, u, k)
  BY DEF Owed
<1>0. pools' = pools /\ users' = users /\ schedules' = schedules /\ finished' = finished
  BY DEF stakeVars
<1>1. AllCovered'
  BY <1>0 DEF AllCovered
<1> DEFINE user == users[p][u]
           i == MemIndex(Loaded(p), k)
           j == MemIndex(Loaded(p)', k)
           pend == PendingReward(p, u, k)
           next == PendingReward(p, u, k)'
<1>2. pend = Worth(user, finished[p], i, k) /\ pend \in Int
  BY PendingNow
<1>3. next = Worth(user, finished[p], j, k) /\ next \in Int
  BY <1>0, <1>1, PendingNext
<1>4. i \in Nat /\ j \in Nat /\ i <= j /\ (now' = now => i = j)
  <2>1. /\ now \in Nat /\ now' \in Nat /\ now <= now' /\ PoolOKBy(pools[p], now)
        /\ schedules[p] \in [Tokens -> Schedules]
    BY NowNat, MaxTimeAssumption DEF IInv, PoolsInv, SchedulesInv
  <2>2. Loaded(p) = UpdateRewards(Load(pools[p]), schedules[p], now)
    BY DEF Loaded
  <2>3. Loaded(p)' = UpdateRewards(Load(pools[p]), schedules[p], now')
    BY <1>0 DEF Loaded
  <2>4. i \in Nat /\ j \in Nat /\ i <= j
    BY <2>1, <2>2, <2>3, MemIndexGrows
  <2> QED BY <2>2, <2>3, <2>4
<1>5. FinishedOK(finished[p]) /\ user \in UserInfo
  BY DEF IInv, FinishedInv, UsersInv
<1> HIDE DEF i, j, user
<1>6. pend <= next
  <2>1. Worth(user, finished[p], i, k) <= Worth(user, finished[p], j, k)
    BY <1>4, <1>5, WorthGrows
  <2> HIDE DEF pend, next
  <2> QED BY <1>2, <1>3, <2>1
<1>7. now' = now => next = pend
  BY <1>2, <1>3, <1>4
<1>8. next >= pend
  <2> HIDE DEF pend, next
  <2> QED BY <1>2, <1>3, <1>6
<1> QED BY <1>0, <1>7, <1>8 DEF OwedTo

(* The handlers. *)
LEMMA StakersSettle ==
  ASSUME IInv, NEW u \in Users
  PROVE  /\ \A P \in SUBSET Pools : ClaimRewards(u, P) => \E mem : Settles(P, mem)
         /\ \A p \in Pools, delta \in Int :
               users[p][u].amount + delta >= 0 /\ Restake(u, p, delta) => \E mem : Settles({p}, mem)
<1>0. \A p \in Pools : users[p] \in [Users -> UserInfo]
  BY DEF IInv, UsersInv
<1>1. ASSUME NEW P \in SUBSET Pools, NEW mem, NEW amount, SyncUser(u, P, mem, amount),
             \A p \in P : amount[p] \in Nat
      PROVE  \A p \in Pools, v \in Users :
               \/ users'[p][v] = users[p][v]
               \/ p \in P /\ \E a \in Nat : users'[p][v] = SyncPosition(users[p][v], mem[p], a)
  <2> TAKE p \in Pools, v \in Users
  <2>1. users' = [q \in Pools |-> IF q \in P
                    THEN [users[q] EXCEPT ![u] = SyncPosition(users[q][u], mem[q], amount[q])] ELSE users[q]]
    BY <1>1 DEF SyncUser
  <2>2. CASE p \in P /\ v = u
    <3>1. users'[p][v] = SyncPosition(users[p][v], mem[p], amount[p]) /\ amount[p] \in Nat
      BY <1>0, <1>1, <2>1, <2>2
    <3> QED BY <2>2, <3>1
  <2>3. CASE ~(p \in P /\ v = u)
    BY <1>0, <2>1, <2>3
  <2> QED BY <2>2, <2>3
<1>2. ASSUME NEW P \in SUBSET Pools, ClaimRewards(u, P)
      PROVE  \E mem : Settles(P, mem)
  <2> DEFINE mem == [p \in Pools |-> Loaded(p)]
             staked == [p \in Pools |-> users[p][u].amount]
  <2>1. SavePools(mem, P) /\ SyncUser(u, P, mem, staked) /\ now' = now /\ schedules' = schedules
    BY <1>2 DEF ClaimRewards
  <2>2. \A p \in P : mem[p] = Loaded(p) /\ staked[p] \in Nat
    BY <1>0 DEF UserInfo
  <2> HIDE DEF mem, staked
  <2>3. \A p \in P : Settled(p, mem[p])
    BY <2>2, LoadedSettled
  <2>4. Settles(P, mem)
    BY <1>1, <2>1, <2>2, <2>3 DEF Settles
  <2> QED BY <2>4
<1>3. ASSUME NEW p \in Pools, NEW delta \in Int, users[p][u].amount + delta >= 0, Restake(u, p, delta)
      PROVE  \E mem : Settles({p}, mem)
  <2> DEFINE mem == [q \in Pools |-> Loaded(q)]
             restaked == [mem EXCEPT ![p].total_lp = @ + delta]
             staked == [q \in Pools |-> users[q][u].amount + delta]
             total == pools[p].total_lp + delta
  <2>1. SavePools(restaked, {p}) /\ SyncUser(u, {p}, restaked, staked) /\ now' = now /\ schedules' = schedules
    BY <1>3 DEF Restake
  <2>2. \A q \in {p} : staked[q] \in Nat
    BY <1>0, <1>3 DEF UserInfo
  <2>3. restaked[p] = [Loaded(p) EXCEPT !.total_lp = total]
    BY LoadedOK
  <2>4. total \in Nat
    <3>1. users[p][u].amount \in Nat /\ pools[p].total_lp \in Nat /\ users[p][u].amount <= pools[p].total_lp
      BY StakeWithin
    <3> QED BY <1>3, <3>1
  <2> HIDE DEF restaked, staked, total
  <2>5. \A q \in {p} : Settled(q, restaked[q])
    BY <2>3, <2>4, LoadedSettled, NowNat, StakeSettled
  <2>6. {p} \in SUBSET Pools
    OBVIOUS
  <2>7. Settles({p}, restaked)
    BY <1>1, <2>1, <2>2, <2>5, <2>6 DEF Settles
  <2> QED BY <2>7
<1> QED BY <1>2, <1>3

(* Pools saved with nobody synced. *)
LEMMA SavedSettles ==
  ASSUME NEW P \in SUBSET Pools, NEW mem, SavePools(mem, P), now' = now, users' = users,
         \A p \in Pools \ P : schedules'[p] = schedules[p], \A p \in P : Settled(p, mem[p])
  PROVE  \E q : Settles(P, q)
<1>1. Settles(P, mem)
  BY DEF Settles
<1> QED BY <1>1

LEMMA RatesSettle ==
  ASSUME IInv, now' = now, users' = users, schedules' = schedules, SavesReRated
  PROVE  \E P \in SUBSET Pools : \E mem : Settles(P, mem)
<1>1. ASSUME NEW p \in Pools, NEW mem, ReRated(p, mem)
      PROVE  Settled(p, mem)
  <2>0. PICK rate \in Nat :
          \/ mem = Loaded(p) \/ mem = DisableInternalRewards(Loaded(p))
          \/ mem = SetInternalRewards(Loaded(p), rate)
          \/ mem = SetInternalRewards(DisableInternalRewards(Loaded(p)), rate)
    BY <1>1 DEF ReRated
  <2> DEFINE low == Loaded(p)
             off == DisableInternalRewards(low)
  <2>1. Settled(p, low) /\ now \in Nat
    BY LoadedSettled, NowNat
  <2> HIDE DEF low
  <2>2. Settled(p, off) /\ Settled(p, SetInternalRewards(low, rate))
    BY <2>1, RatesSettled
  <2> HIDE DEF off
  <2>3. Settled(p, SetInternalRewards(off, rate))
    BY <2>1, <2>2, RatesSettled
  <2> QED BY <2>0, <2>1, <2>2, <2>3 DEF low, off
<1>2. PICK P \in SUBSET Pools : \E mem : SavePools(mem, P) /\ \A p \in P : ReRated(p, mem[p])
  BY DEF SavesReRated
<1>3. PICK mem : SavePools(mem, P) /\ \A p \in P : ReRated(p, mem[p])
  BY <1>2
<1>4. \A p \in P : Settled(p, mem[p])
  BY <1>1, <1>3
<1>5. Settles(P, mem)
  BY <1>3, <1>4 DEF Settles
<1> QED BY <1>5

LEMMA ExternalRewardsSettle ==
  ASSUME IInv, NEW p \in Pools, NEW t \in Tokens
  PROVE  /\ \A amount \in Nat, periods \in Nat :
               Incentivize(p, t, amount, periods) => \E mem : Settles({p}, mem)
         /\ CarefulOwner => \A bypass : RemoveRewardFromPool(p, t, bypass) => \E mem : Settles({p}, mem)
<1>0. now \in Nat /\ Settled(p, Loaded(p)) /\ {p} \in SUBSET Pools
  BY NowNat, LoadedSettled
<1>s. DOMAIN schedules = Pools
  BY DEF IInv, SchedulesInv
<1>1. ASSUME NEW amount \in Nat, NEW periods \in Nat, Incentivize(p, t, amount, periods)
      PROVE  \E mem : Settles({p}, mem)
  <2> DEFINE mem == [q \in Pools |-> Loaded(q)]
             rate == ScheduleRate(amount, now, periods)
             end == EndTs(now, periods)
             funded == [mem EXCEPT ![p] = IncentivizeReward(@, t, rate, end)]
  <2>1. SavePools(funded, {p}) /\ users' = users /\ now' = now
    BY <1>1 DEF Incentivize
  <2>2. funded[p] = IncentivizeReward(Loaded(p), t, rate, end)
    OBVIOUS
  <2>3. rate \in Nat /\ end \in Nat /\ end > now
    BY <1>0, ScheduleRateNat, EndTsLater
  <2>4. \A q \in Pools \ {p} : schedules'[q] = schedules[q]
    BY <1>s, <1>1 DEF Incentivize
  <2> HIDE DEF funded, rate, end
  <2>5. \A q \in {p} : Settled(q, funded[q])
    BY <1>0, <2>2, <2>3, IncentiveSettled
  <2> QED BY <1>0, <2>1, <2>4, <2>5, SavedSettles
<1>2. ASSUME CarefulOwner, NEW bypass, RemoveRewardFromPool(p, t, bypass)
      PROVE  \E mem : Settles({p}, mem)
  <2> DEFINE mem == [q \in Pools |-> Loaded(q)]
             removed == [mem EXCEPT ![p] = DeregisterReward(@, t)]
  <2>1. /\ t \in DOMAIN Loaded(p).rewards /\ QuietBlock(p, t)
        /\ SavePools(removed, {p}) /\ users' = users /\ now' = now
    BY <1>2 DEF RemoveRewardFromPool
  <2>2. removed[p] = DeregisterReward(Loaded(p), t)
    OBVIOUS
  <2>3. \A q \in Pools \ {p} : schedules'[q] = schedules[q]
    BY <1>s, <1>2 DEF RemoveRewardFromPool
  <2> HIDE DEF removed
  <2>4. \A q \in {p} : Settled(q, removed[q])
    BY <2>1, <2>2, RemovalSettled
  <2> QED BY <1>0, <2>1, <2>3, <2>4, SavedSettles
<1> QED BY <1>1, <1>2

(* Every step settles some pools or leaves all alone. *)
LEMMA StepsSettle ==
  CarefulOwner /\ IInv /\ [Next]_vars =>
    \/ UNCHANGED stakeVars /\ now' >= now
    \/ \E P \in SUBSET Pools : \E mem : Settles(P, mem)
<1> DEFINE Goal == \/ UNCHANGED stakeVars /\ now' >= now
                   \/ \E P \in SUBSET Pools : \E mem : Settles(P, mem)
<1> SUFFICES ASSUME CarefulOwner, IInv, [Next]_vars PROVE Goal
  OBVIOUS
<1>0. /\ totalAlloc \in Nat /\ DOMAIN activePools \subseteq Pools /\ activePools \in [DOMAIN activePools -> Nat]
      /\ now \in Nat
  BY NowNat DEF IInv, AdminInv
<1>u. UNCHANGED stakeVars /\ now' = now => Goal
  BY <1>0
<1>p. ASSUME NEW p \in Pools, \E mem : Settles({p}, mem) PROVE Goal
  <2>1. {p} \in SUBSET Pools
    OBVIOUS
  <2> QED BY <1>p, <2>1
<1>s. (\E P \in SUBSET Pools : \E mem : Settles(P, mem)) => Goal
  OBVIOUS
<1> HIDE DEF Goal
<1>1. ASSUME NEW d \in TimeSteps, Tick(d) PROVE Goal
  <2>1. d \in Nat /\ now' = now + d /\ UNCHANGED stakeVars
    BY <1>1, InputsAssumption DEF Tick
  <2> QED BY <1>0, <2>1 DEF Goal
<1>2. ASSUME NEW u \in Users, NEW P \in SUBSET Pools, ClaimRewards(u, P) PROVE Goal
  <2>1. \E mem : Settles(P, mem)
    BY <1>2, StakersSettle
  <2> QED BY <1>s, <2>1
<1>3. ASSUME NEW u \in Users, NEW p \in Pools, NEW a \in StakeAmounts, Deposit(u, p, a) PROVE Goal
  <2>1. a \in Nat /\ users[p][u].amount \in Nat
    BY InputsAssumption DEF IInv, UsersInv, UserInfo
  <2>2. a \in Int /\ users[p][u].amount + a >= 0
    BY <2>1
  <2>3. \E mem : Settles({p}, mem)
    BY <1>3, <2>2, StakersSettle DEF Deposit
  <2> QED BY <1>p, <2>3
<1>4. ASSUME NEW u \in Users, NEW p \in Pools, NEW a \in StakeAmounts, Withdraw(u, p, a) PROVE Goal
  <2>1. a \in Nat /\ users[p][u].amount \in Nat /\ a <= users[p][u].amount
    BY <1>4, InputsAssumption DEF IInv, UsersInv, UserInfo, Withdraw
  <2>2. -a \in Int /\ users[p][u].amount + (-a) >= 0
    BY <2>1
  <2>3. \E mem : Settles({p}, mem)
    BY <1>4, <2>2, StakersSettle DEF Withdraw
  <2> QED BY <1>p, <2>3
<1>5. ASSUME NEW S \in SUBSET Pools, NEW alloc \in [S -> AllocPoints], SetupPools(alloc) PROVE Goal
  <2>1. now' = now /\ users' = users /\ schedules' = schedules
    BY <1>5 DEF SetupPools
  <2> QED BY <1>5, <1>s, <2>1, RatesSave, RatesSettle
<1>6. ASSUME NEW a \in EmissionRates, SetTokensPerSecond(a) PROVE Goal
  <2>1. now' = now /\ users' = users /\ schedules' = schedules /\ a \in Nat
    BY <1>6, InputsAssumption DEF SetTokensPerSecond
  <2> QED BY <1>6, <1>s, <2>1, RatesSave, RatesSettle
<1>7. ASSUME DeactivateBlockedPools PROVE Goal
  <2> DEFINE D == {p \in DOMAIN activePools : PairTypeOf[p] \in blacklisted}
             newTotal == totalAlloc - SumIn(D, NumPools, activePools)
  <2>1. newTotal \in Int
    BY <1>0, PointsOfNat
  <2>2. DisablePools(D, newTotal) /\ now' = now /\ users' = users /\ schedules' = schedules
    BY <1>7 DEF DeactivateBlockedPools
  <2> HIDE DEF D, newTotal
  <2> QED BY <1>s, <2>1, <2>2, RatesSave, RatesSettle
<1>8. ASSUME NEW add \in BlockBatches, NEW remove \in BlockBatches, UpdateBlockedTokenslist(add, remove)
      PROVE  Goal
  <2> DEFINE D == {p \in DOMAIN activePools : PairAssets[p] \cap add # {}}
             newTotal == totalAlloc - BlockedPoints(add)
  <2>1. newTotal \in Int
    BY <1>0, BlockedPointsNat
  <2>2. /\ DisablePools(D, newTotal) \/ UNCHANGED <<pools, finished>>
        /\ now' = now /\ users' = users /\ schedules' = schedules
    BY <1>8 DEF UpdateBlockedTokenslist
  <2> HIDE DEF D, newTotal
  <2> QED BY <1>s, <1>u, <2>1, <2>2, RatesSave, RatesSettle DEF stakeVars
<1>9. ASSUME NEW p \in DelistedPools, Deregister(p) PROVE Goal
  <2>1. now' = now /\ users' = users /\ schedules' = schedules
    BY <1>9 DEF Deregister
  <2>2. CASE p \in DOMAIN activePools /\ DisablePools({p}, totalAlloc - activePools[p])
    <3>1. totalAlloc - activePools[p] \in Int
      BY <1>0, <2>2
    <3> QED BY <1>s, <2>1, <2>2, <3>1, RatesSave, RatesSettle
  <2>3. CASE UNCHANGED <<pools, finished, orphaned, activePools, totalAlloc>>
    BY <1>u, <2>1, <2>3 DEF stakeVars
  <2> QED BY <1>9, <2>2, <2>3 DEF Deregister
<1>10. ASSUME NEW type \in BlacklistTypes, ToggleBlacklist(type) PROVE Goal
  BY <1>10, <1>u DEF ToggleBlacklist
<1>11. ASSUME NEW a \in TopUps, TopUp(a) PROVE Goal
  BY <1>11, <1>u DEF TopUp
<1>12. ASSUME NEW p \in Pools, NEW t \in IncentiveTokens, NEW n \in IncentivePeriods,
              NEW a \in Amounts(n), Incentivize(p, t, a, n)
       PROVE  Goal
  <2>1. t \in Tokens /\ n \in Nat
    BY InputsAssumption
  <2>2. a \in Nat
    BY <2>1, AmountsNat
  <2>3. \E mem : Settles({p}, mem)
    BY <1>12, <2>1, <2>2, ExternalRewardsSettle
  <2> QED BY <1>p, <2>3
<1>13. ASSUME NEW p \in Pools, NEW t \in IncentiveTokens, NEW b \in RemovalModes, RemoveRewardFromPool(p, t, b)
       PROVE  Goal
  <2>1. \E mem : Settles({p}, mem)
    BY <1>13, InputsAssumption, ExternalRewardsSettle
  <2> QED BY <1>p, <2>1
<1>14. ASSUME NEW limit \in OrphanLimits, ClaimOrphanedRewards(limit) PROVE Goal
  BY <1>14, <1>u DEF ClaimOrphanedRewards
<1>15. ASSUME UNCHANGED vars PROVE Goal
  BY <1>15, <1>u DEF vars
<1> QED BY <1>1, <1>2, <1>3, <1>4, <1>5, <1>6, <1>7, <1>8, <1>9, <1>10, <1>11, <1>12, <1>13, <1>14, <1>15 DEF Next

-----------------------------------------------------------------------------
LEMMA InternalCoveredInit == Init => InternalCovered
<1> SUFFICES ASSUME Init, NEW p \in Pools, NEW u \in Users
             PROVE  users[p][u].last_rewards_index[Internal] <= IndexOf(pools[p].rewards, Internal)
  BY DEF InternalCovered
<1>1. users[p][u] = NoPosition /\ pools[p] = EmptyPool
  BY DEF Init
<1>2. users[p][u].last_rewards_index[Internal] = 0
  BY <1>1 DEF NoPosition, Keys
<1>3. IndexOf(pools[p].rewards, Internal) = 0
  BY <1>1 DEF EmptyPool, NoRewards, IndexOf
<1> QED BY <1>2, <1>3

LEMMA InternalCoveredNext == CarefulOwner /\ IInv /\ InternalCovered /\ [Next]_vars => InternalCovered'
<1> SUFFICES ASSUME CarefulOwner, IInv, InternalCovered, [Next]_vars PROVE InternalCovered'
  OBVIOUS
<1>1. IInv'
  BY InvNext
<1>2. CASE UNCHANGED stakeVars
  BY <1>2 DEF stakeVars, InternalCovered
<1>3. CASE \E P \in SUBSET Pools : \E mem : Settles(P, mem)
  BY <1>1, <1>3, SettlesKeepCovered
<1> QED BY <1>2, <1>3, StepsSettle

LEMMA StepsOwe ==
  CarefulOwner /\ IInv /\ ExitInv /\ InternalCovered /\ [Next]_vars => Owed
<1> SUFFICES ASSUME CarefulOwner, IInv, ExitInv, InternalCovered, [Next]_vars PROVE Owed
  OBVIOUS
<1>1. IInv' /\ ExitInv' /\ InternalCovered'
  BY InvNext, ExitInvNext, InternalCoveredNext
<1>2. AllCovered /\ AllCovered'
  BY <1>1, CoveredAll, CoveredAllNext
<1>3. CASE UNCHANGED stakeVars /\ now' >= now
  BY <1>1, <1>2, <1>3, WaitingOwes
<1>4. CASE \E P \in SUBSET Pools : \E mem : Settles(P, mem)
  BY <1>1, <1>2, <1>4, SettlesOwe
<1> QED BY <1>3, <1>4, StepsSettle

(* With a careful owner no message and no update ever takes back what a    *)
(* position was owed: it only grows while time passes, and is 0 once the   *)
(* position was settled.                                                   *)
THEOREM OwedAlwaysStays == CarefulOwner => (Spec => OwedStays)
<1> SUFFICES ASSUME CarefulOwner PROVE Spec => OwedStays
  OBVIOUS
<1>1. IInv /\ ExitInv /\ [Next]_vars => ExitInv'
  BY ExitInvNext
<1>2. IInv /\ InternalCovered /\ [Next]_vars => InternalCovered'
  BY InternalCoveredNext
<1>3. IInv /\ ExitInv /\ InternalCovered /\ [Next]_vars => [Owed]_vars
  BY StepsOwe
<1> QED BY <1>1, <1>2, <1>3, ExitInvInit, InternalCoveredInit, SpecInv, PTL DEF Spec, OwedStays
=============================================================================
