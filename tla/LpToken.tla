------------------------------ MODULE LpToken -------------------------------
(***************************************************************************)
(* The LP token of a pair: a denom of the chain's token factory that the   *)
(* pair mints and burns.  The pairs differ in how they compute shares; how *)
(* shares are minted, staked and burned is the same in all of them.        *)
(*                                                                         *)
(* Holders are the numbers 1..NumHolders: first the users, then the pair   *)
(* itself and the incentives contract.                                     *)
(***************************************************************************)
EXTENDS Sums

CONSTANT NumUsers

ASSUME NumUsersAssumption == NumUsers \in Nat \ {0}

Users == 1..NumUsers
Self == NumUsers + 1
IncentivesAddr == NumUsers + 2
NumHolders == NumUsers + 2
Holders == 1..NumHolders

VARIABLES lp,      \* what each holder has of the token
          supply   \* what the bank says of the token's supply

lpVars == <<lp, supply>>

LpInit ==
  /\ lp = [h \in Holders |-> 0]
  /\ supply = 0

(* Where newly minted shares end up: with the receiver, or staked.         *)
Beneficiary(receiver, autoStake) == IF autoStake THEN IncentivesAddr ELSE receiver

\* forgets what the pair has to keep
MintShares_WithoutMinimum(receiver, autoStake, share, minimum) ==
  LET to == Beneficiary(receiver, autoStake)
  IN  /\ lp' = [lp EXCEPT ![to] = @ + share]
      /\ supply' = supply + share

(* The first provider's shares come with the minimum that the pair keeps. *)
MintShares(receiver, autoStake, share, minimum) ==
  LET kept == IF supply = 0 THEN minimum ELSE 0
      to == Beneficiary(receiver, autoStake)
  IN  /\ lp' = [lp EXCEPT ![Self] = @ + kept, ![to] = @ + share]
      /\ supply' = supply + kept + share

(* Shares come with the message and are burned from the pair's balance.    *)
BurnShares(user, amount) ==
  /\ amount \in 1..lp[user]
  /\ lp' = [lp EXCEPT ![user] = @ - amount]
  /\ supply' = supply - amount

SendLp(from, to, amount) ==
  /\ amount \in 1..lp[from]
  /\ from # to
  /\ lp' = [lp EXCEPT ![from] = @ - amount, ![to] = @ + amount]
  /\ UNCHANGED supply
-----------------------------------------------------------------------------
LpTypeOK ==
  /\ lp \in [Holders -> Nat]
  /\ supply \in Nat
=============================================================================
