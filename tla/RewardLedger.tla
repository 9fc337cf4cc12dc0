---------------------------- MODULE RewardLedger ----------------------------
(***************************************************************************)
(* What the incentives contract promises, without indexes, schedules on    *)
(* storage keys or finished rewards: every second each pool emits what was *)
(* planned for that second, and what it emits is owed at once to those who *)
(* are staked then, in proportion to their stake, and to nobody when       *)
(* nobody is staked.  A claim pays everything that is owed.                *)
(*                                                                         *)
(* Amounts are whole units: the instances choose rates and stakes that     *)
(* divide evenly.                                                          *)
(***************************************************************************)
EXTENDS Integers, Sums

CONSTANTS NumPools, NumUsers, NumTokens, RewardToken, Internal,
          Horizon,         \* seconds that can be planned for
          Steps,           \* lengths of a tick
          Deltas,          \* changes of a stake
          Rates,           \* units per second of one schedule
          Emissions,       \* units per second emitted internally by one pool
          Donations        \* DAO top-ups

Pools == 1..NumPools
Users == 1..NumUsers
Tokens == 1..NumTokens
Keys == Tokens \cup {Internal}
Seconds == 1..Horizon

VARIABLES
  now,
  stake,    \* stake[p][u]
  plan,     \* plan[p][t][s]: units of t that pool p emits in second s
  emission, \* emission[p]: units of the reward token that p emits in any second
  owed,     \* owed[p][u][k]: by token, and by Internal for internal emissions
  free      \* free[t]: units held for what is owed and planned

vars == <<now, stake, plan, emission, owed, free>>

Init ==
  /\ now = 1
  /\ stake = [p \in Pools |-> [u \in Users |-> 0]]
  /\ plan = [p \in Pools |-> [t \in Tokens |-> [s \in Seconds |-> 0]]]
  /\ emission = [p \in Pools |-> 0]
  /\ owed = [p \in Pools |-> [u \in Users |-> [k \in Keys |-> 0]]]
  /\ free = [t \in Tokens |-> 0]

Staked(p) == SumTo(NumUsers, stake[p])
Planned(p, t) == SumTo(Horizon, plan[p][t])

Tick(d) ==
  LET emitted(p, k) == IF k = Internal THEN emission[p] * d
                       ELSE SumIn(now..(now + d - 1), Horizon, plan[p][k])
      share(p, u, k) == IF Staked(p) = 0 THEN 0
                        ELSE (emitted(p, k) * stake[p][u]) \div Staked(p)
      unassigned(p, k) == IF Staked(p) = 0 THEN emitted(p, k) ELSE 0
  IN  /\ now + d <= Horizon
      /\ now' = now + d
      /\ UNCHANGED <<stake, emission>>
      /\ owed' = [p \in Pools |-> [u \in Users |-> [k \in Keys |-> owed[p][u][k] + share(p, u, k)]]]
      /\ free' = [t \in Tokens |->
                    free[t] - SumTo(NumPools, [p \in Pools |-> unassigned(p, t)
                                + (IF t = RewardToken THEN unassigned(p, Internal) ELSE 0)])]
      /\ plan' = [p \in Pools |-> [t \in Tokens |->
                    [s \in Seconds |-> IF s < now + d THEN 0 ELSE plan[p][t][s]]]]

(* u is paid all that the pools P owe them. *)
Settle(u, P) ==
  LET due(t) == SumIn(P, NumPools, [p \in Pools |-> owed[p][u][t]
                        + (IF t = RewardToken THEN owed[p][u][Internal] ELSE 0)])
  IN  /\ free' = [t \in Tokens |-> free[t] - due(t)]
      /\ owed' = [p \in Pools |-> IF p \in P THEN [owed[p] EXCEPT ![u] = [k \in Keys |-> 0]] ELSE owed[p]]

Claim(u, P) ==
  /\ UNCHANGED <<now, stake, emission>>
  /\ Settle(u, P)
  /\ UNCHANGED plan

Restake(u, p, delta) ==
  /\ stake[p][u] + delta >= 0
  /\ stake' = [stake EXCEPT ![p][u] = @ + delta]
  /\ UNCHANGED <<now, emission>>
  /\ Settle(u, {p})
  /\ UNCHANGED plan

Fund(p, t, rate, end) ==
  /\ now < end
  /\ UNCHANGED <<now, stake, emission>>
  /\ free' = [free EXCEPT ![t] = @ + rate * (end - now)]
  /\ plan' = [plan EXCEPT ![p][t] = [s \in Seconds |-> IF s \in now..(end - 1) THEN @[s] + rate ELSE @[s]]]
  /\ UNCHANGED owed

(* Nothing that is owed already is taken back. *)
Cancel(p, t) ==
  /\ UNCHANGED <<now, stake, emission>>
  /\ free' = [free EXCEPT ![t] = @ - Planned(p, t)]
  /\ plan' = [plan EXCEPT ![p][t] = [s \in Seconds |-> 0]]
  /\ UNCHANGED owed

Redirect ==
  /\ UNCHANGED <<now, stake>>
  /\ emission' \in [Pools -> Emissions]
  /\ UNCHANGED <<plan, owed, free>>

TopUp(a) ==
  /\ UNCHANGED <<now, stake, emission>>
  /\ free' = [free EXCEPT ![RewardToken] = @ + a]
  /\ UNCHANGED <<plan, owed>>

Next ==
  \/ \E d \in Steps : Tick(d)
  \/ \E u \in Users, P \in SUBSET Pools : Claim(u, P)
  \/ \E u \in Users, p \in Pools, delta \in Deltas : Restake(u, p, delta)
  \/ \E p \in Pools, t \in Tokens, rate \in Rates, end \in Seconds : Fund(p, t, rate, end)
  \/ \E p \in Pools, t \in Tokens : Cancel(p, t)
  \/ Redirect
  \/ \E a \in Donations : TopUp(a)

Spec == Init /\ [][Next]_vars
-----------------------------------------------------------------------------
(* What is held of an external token is what is owed plus what is planned: *)
(* the promise can be kept to the last second, and nothing is left over.   *)
FullyFunded ==
  \A t \in Tokens \ {RewardToken} :
     free[t] = SumTo(NumPools, [p \in Pools |->
                 Planned(p, t) + SumTo(NumUsers, [u \in Users |-> owed[p][u][t]])])
=============================================================================
